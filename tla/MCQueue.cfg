SPECIFICATION Spec
CONSTANTS
    Uris = {u1, u2}
    QueueLengths <- MCQueueLengths
    Shipped <- MCShipped
    Listed <- MCListed
    Answers <- MCAnswers
    ArtLimit = 1
    ResolverCacheMax = 1
    a = a
    b = b
    Playlists = {p}
    Collections = {l}
    Opaque = Opaque
    Tracks = {a, b}
    Previews <- MCPreviews
    Lists <- MCLists
    QueueLimit = 2
    ExpandCacheMax = 1
    NoQueue = NoQueue
INVARIANT TypeOK
INVARIANT SingleFetch
INVARIANT ArtOnce
INVARIANT PreviewHeads
INVARIANT ShownButEcho
PROPERTY Lands
PROPERTY FetchedApplied
CHECK_DEADLOCK FALSE
