SPECIFICATION WindowSpec
CONSTANTS
    Profiles = {p1, p2}
    NoInternetFor = 1
    Patience = 2
    ClockLoss = FALSE
    SlowDisk = TRUE
    NoProfile = NoProfile
    NoFlag = NoFlag
    CorruptFlag = CorruptFlag
    Never = Never
INVARIANT ContinuousWindow
