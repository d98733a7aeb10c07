CONSTANTS
    MaxLog <- MCMaxLog
    MaxTerm <- MCMaxTerm
    SegSize <- MCSegSize
    Options <- MCPeerOptions

SPECIFICATION Spec

INVARIANT SnapshotOfCommittedLog
INVARIANT PrunedFilesCovered
PROPERTY CompactionRefined

\* The tool's process exits; the peer stops at the bounds.
CHECK_DEADLOCK FALSE
