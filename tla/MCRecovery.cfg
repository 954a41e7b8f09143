SPECIFICATION MCLiveSpec
CONSTANTS
    Profiles = {p1, p2}
    NoInternetFor = 1
    Patience = 1
    ClockLoss = TRUE
    SlowDisk = FALSE
    NoProfile = NoProfile
    NoFlag = NoFlag
    CorruptFlag = CorruptFlag
    Never = Never
    Ids = {i1, i2}
    NoId = NoId
    Buffer = 1
    MaxVersion = 1
INVARIANT MCTypeOK
INVARIANT OncePerLifetime
INVARIANT QuietWindow
INVARIANT NewestIdKept
PROPERTY OncePerEpisode
PROPERTY FlagCleared
PROPERTY Registers
PROPERTY CatchesUp
CHECK_DEADLOCK FALSE
