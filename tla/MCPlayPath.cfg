SPECIFICATION LiveSpec
CONSTANTS LastAddress = 2 SampleBits = 3 Counters = 4 Low = 2 High = 2
  Tape <- MCTape
  Speeds = {2, 3}
INVARIANT StopRewinds
PROPERTIES NothingPastTheEnd PausedPositionKept PlaybackEnds
