SPECIFICATION BenchSpec
CONSTANTS
    HW_MIN_VOL = 2
    HW_MAX_VOL = 5
    HW_DEFAULT_VOL = 4
    ResetLevel = 6
    InitLevel = 3
    AddressLevel = 3
INVARIANTS LineOutMatchesVolume MuteIsSilent
PROPERTY UnmuteRestores
