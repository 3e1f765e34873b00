SPECIFICATION LiveSpec
CONSTANTS
    File <- MCFile
    Dirs <- MCDirs
    Ending <- MCEnding
    ClusterSize = 8
    WaveHeaderSize = 1
    ChunkSize = 1
    HeaderSize = 4
    BufSize = 8
    FrameSize = 2
    MaxFaults = 1

PROPERTY EverySongEnds
CHECK_DEADLOCK FALSE
