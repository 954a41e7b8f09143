SPECIFICATION MCLiveSpec
CONSTANTS
    Conns = {c1, c2, c3}
    Loops = {l1, l2}
    MessageReceivers = {m1}
    RequestReceivers = {q1}
    None = None
    DealerReqs = {d1, d2}
    HttpReqs = {}
    LyricsReqs = {y1}
    VoiceReqs = {v1}
    RequestBuffer = 1
    NoReq = NoReq
INVARIANT MCTypeOK
INVARIANT NoPanic
INVARIANT OnlyCurrentAlive
PROPERTY Reconnects
PROPERTY CloseReleases
PROPERTY ServesRequests
PROPERTY SettledThoughStuck
PROPERTY ApiSettled
PROPERTY ReadyNotified
CHECK_DEADLOCK FALSE
