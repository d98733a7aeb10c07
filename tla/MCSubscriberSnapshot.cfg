CONSTANTS
    MaxIndex <- MCMaxIndex
    MaxBatch <- MCMaxBatch
    HWM <- MCHWM
    NumChunks <- MCNumChunks
    MaxChan <- MCMaxChan
    MaxFaults <- MCMaxFaults
    StartIndex <- MCStartIndex
    MayClose <- MCMayClose

SPECIFICATION Spec

INVARIANT SnapshotChunksContiguous
