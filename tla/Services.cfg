SPECIFICATION LiveSpec
CONSTANTS
    Phones = {pa, pb}
    NoPhone = NoPhone
    Pipe = 2
    MaxAsks = 2
    MaxDeaths = 1
    Clients = {c1, c2}
    Emitters = {e1, e2}
    wsClientBuffer = 1
    BtEditors = {b1, b2}
    FieldEditors = {f1}
    NoEditor = NoEditor
    MaxChanges = 3
    Players = {ma1, ma2}
    NoPlayer = NoPlayer
    Callers = {r1, r2}
    MaxTokens = 3
INVARIANT TypeOK
INVARIANT SessionIsWanted
INVARIANT EmitSafe
INVARIANT PowerLossSafe
INVARIANT SavedIsCurrent
INVARIANT TokenUsable
PROPERTY KeepsTrying
PROPERTY SidecarEnds
PROPERTY EmitEnds
PROPERTY SourceSettles
PROPERTY ApSettles
CHECK_DEADLOCK FALSE
