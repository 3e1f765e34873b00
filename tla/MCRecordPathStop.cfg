SPECIFICATION RecordSpec
CONSTANTS LastAddress = 2 Bits = 2 Low = 3 High = 5
INVARIANT StopReachesRecorder
