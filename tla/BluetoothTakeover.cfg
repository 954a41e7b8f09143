SPECIFICATION ArrivalSpec
CONSTANTS
    near = near
    far = far
    Phones = {near, far}
    Known <- MCKnown
    Loops = {l1, l2}
    NoLoop = NoLoop
    NoPager = NoPager
    Peers = {near, far}
    NoPeer = NoPeer
    Conns = {c1, c2}
    MaxEvents = 1
    panRetryThreshold = 1
CHECK_DEADLOCK FALSE
PROPERTY NoTakeover
