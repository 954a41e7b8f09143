SPECIFICATION Spec
CONSTANTS
    near = near
    far = far
    Phones = {near, far}
    Known <- MCKnown
    Loops = {l1, l2}
    NoLoop = NoLoop
    NoPager = NoPager
    Peers = {near}
    NoPeer = NoPeer
    Conns = {c1}
    MaxEvents = 1
    panRetryThreshold = 1
INVARIANT TypeOK
INVARIANT SingleLoop
PROPERTY LoopsEnd
PROPERTY EveryoneTried
PROPERTY OwnTeardownQuiet
