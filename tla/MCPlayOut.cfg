SPECIFICATION OutSpec
CONSTANTS LastAddress = 1 SampleBits = 4 Counters = 8 Low = 2 High = 6
  Speeds = {1, 2, 3, 5}
  Samples = {0, 1, 5, 7, 8, 13}
INVARIANT RepeatsSample
PROPERTIES OnTheLineForPositive EverySampleHeard
