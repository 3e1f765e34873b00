SPECIFICATION LiveSpec
CONSTANTS
    Keys <- MCKeys
    RemoteButtons <- MCRemoteButtons
    HW_MIN_VOL = 0
    HW_MAX_VOL = 0
    HW_DEFAULT_VOL = 0
    ResetLevel = 0
    InitLevel = 0
    AddressLevel = 0
    NFiles = 2
    BgmFiles = 1
    VocalFiles = 1
    SongLen = 2
    FifoLen = 1
INVARIANTS NextIsNotForgotten PlaySwitchMeansActive
PROPERTIES NextIsHonoured MusicGoesOn
