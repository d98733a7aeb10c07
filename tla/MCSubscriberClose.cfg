CONSTANTS
    MaxIndex <- MCMaxIndex
    MaxBatch <- MCMaxBatch
    HWM <- MCHWM
    NumChunks <- MCNumChunks
    MaxChan <- MCMaxChan
    MaxFaults <- MCMaxFaults
    StartIndex <- MCStartIndex
    MayClose <- MCMayCloseTrue

SPECIFICATION Spec

INVARIANT EntriesInOrder
INVARIANT LastIndexMatchesDelivered
\* A closed subscriber may stop for good.
CHECK_DEADLOCK FALSE
