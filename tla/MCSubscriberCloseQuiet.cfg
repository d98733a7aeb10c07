CONSTANTS
    MaxIndex <- MCMaxIndex
    MaxBatch <- MCMaxBatch
    HWM <- MCHWM
    NumChunks <- MCNumChunks
    MaxChan <- MCMaxChan
    MaxFaults <- MCMaxFaults
    StartIndex <- MCStartIndex
    MayClose <- MCMayCloseTrue

SPECIFICATION Spec

PROPERTY NothingPushedAfterClose
CHECK_DEADLOCK FALSE
