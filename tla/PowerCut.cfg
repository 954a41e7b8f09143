SPECIFICATION Spec
CONSTANTS
    Profiles = {p1, p2}
    NoInternetFor = 1
    Patience = 2
    ClockLoss = FALSE
    SlowDisk = FALSE
    NoProfile = NoProfile
    NoFlag = NoFlag
    CorruptFlag = CorruptFlag
    Never = Never
PROPERTY NeverTwice
