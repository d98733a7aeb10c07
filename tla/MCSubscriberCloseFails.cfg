CONSTANTS
    MaxIndex <- MCMaxIndex
    MaxBatch <- MCMaxBatch
    HWM <- MCHWM
    NumChunks <- MCNumChunks
    MaxChan <- MCMaxChan
    MaxFaults <- MCMaxFaults
    StartIndex <- MCStartIndex
    MayClose <- MCMayCloseTrue

SPECIFICATION Spec

INVARIANT NeverFails
CHECK_DEADLOCK FALSE
