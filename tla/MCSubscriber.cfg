CONSTANTS
    MaxIndex <- MCMaxIndex
    MaxBatch <- MCMaxBatch
    HWM <- MCHWM
    NumChunks <- MCNumChunks
    MaxChan <- MCMaxChan
    MaxFaults <- MCMaxFaults
    StartIndex <- MCStartIndex
    MayClose <- MCMayClose

SPECIFICATION Spec

INVARIANT TypeOK
INVARIANT EntriesInOrder
INVARIANT LastIndexMatchesDelivered
PROPERTY CatchesUp
