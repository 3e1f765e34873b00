SPECIFICATION LiveSpec
CONSTANTS
    Cards <- MCCards
    NoCard = "none"
    Kind <- MCKind
    RCAs = {1}
    BlockSize = 2
    NBlocks = 24
    MaxBusy = 1
    MaxPolls = 2
    MaxMoves = 1
    Files = {"song", "vocal"}
    Volume <- MCVolume
    FirstClusters = 4
    U32 = 8
    ReadSizes = {3}
    SeekTargets = {4}
    Garbage = {0, 3}
    MaxTry = 2
INVARIANTS CardAgrees CacheHoldsItsSecter
PROPERTIES ImplementsByteStream MountCompletes
CHECK_DEADLOCK FALSE
