CONSTANTS
    MaxLog <- MCMaxLog
    MaxTerm <- MCMaxTerm
    SegSize <- MCSegSize
    Options <- MCRaceOptions

SPECIFICATION Spec

INVARIANT SnapshotOfCommittedLog

\* Both processes exit; the peer stops at the bounds.
CHECK_DEADLOCK FALSE
