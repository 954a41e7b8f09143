SPECIFICATION Iap2Spec
CONSTANTS
    Phones = {pa, pb}
    NoPhone = NoPhone
    Pipe = 2
    MaxAsks = 2
    MaxDeaths = 1
INVARIANT DropStays
CHECK_DEADLOCK FALSE
