CONSTANTS
    NumRequests <- MCNumRequests
    Invalid <- MCInvalid
    StartIndex <- MCStartIndex
    MaxOther <- MCMaxOther
    MaxFailures <- MCMaxFailures

SPECIFICATION Spec

INVARIANT UpdateIndexIsHighest
INVARIANT AckedCovered

\* The application stops writing and every answer comes in.
CHECK_DEADLOCK FALSE
