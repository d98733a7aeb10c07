CONSTANTS
    MaxLog <- MCMaxLog
    MaxTerm <- MCMaxTerm
    SegSize <- MCSegSize
    Options <- MCExplicitOptions

SPECIFICATION Spec

INVARIANT SnapshotOfCommittedLog

\* The tool's process exits; the peer stops at the bounds.
CHECK_DEADLOCK FALSE
