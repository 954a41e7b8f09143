----------------------------- MODULE QueueExpand -----------------------------
(***************************************************************************)
(* The upcoming queue (daemon/queue_expand.go and its callers in           *)
(* daemon/player.go).  A cluster push carries a short preview of the queue;*)
(* Run replaces it by what follows the active track in the context's track *)
(* list, if the list is cached and agrees with the preview, and has the    *)
(* list fetched otherwise.                                                 *)
(*                                                                         *)
(* A track stands for its uri and id.  The context of a state whose queue  *)
(* cannot be derived (shuffled, no active track, an album, a Music         *)
(* Assistant source) is Opaque; so is that of a nil remote state.          *)
(***************************************************************************)
EXTENDS SeqFilter

CONSTANTS
    Playlists, Collections,  \* expandable contexts: spotify:playlist:..., the
                             \* forms of the liked-songs collection
    Opaque,
    Tracks,
    Previews,                \* bound: the queues a push may bring
    Lists,                   \* the track lists the service may answer
    QueueLimit,
    ExpandCacheMax,          \* queueExpandCacheMaxContexts
    NoQueue                  \* the nil result of computeQueueExpansion

Contexts == Playlists \cup Collections
Queues == {q \in Seq(Tracks) : Len(q) <= QueueLimit}

ASSUME ExpandAssumption ==
    /\ QueueLimit \in Nat /\ ExpandCacheMax \in Nat \ {0}
    /\ Playlists \cap Collections = {} /\ Opaque \notin Contexts
    /\ Tracks # {} /\ Lists \subseteq Seq(Tracks) \ {<<>>}
    /\ Previews \subseteq Queues /\ NoQueue \notin Queues

VARIABLES
    rs,           \* the remote state: context, active track, repeat, NextTracks
    preview,      \* history: NextTracks as the last push brought them
    shown,        \* NextTracks as last emitted
    liked,        \* likedSessionActive
    listCache,    \* queueExpandCache, in the order of fetchedAt
    fetchers,     \* per context: the goroutine, "idle" if not queueExpandInFlight
    expanded      \* queueExpandedCh holds a result

expandVars == <<rs, preview, shown, liked, listCache, fetchers, expanded>>

Fetched == [ctx : Contexts, list : Lists, lib : BOOLEAN, fresh : BOOLEAN]

\* Where fetchQueueExpand is, and the route it was started for.
Idle == [pc |-> "idle", lib |-> FALSE]
FetcherAt == {Idle} \cup [pc : {"fetch"}, lib : BOOLEAN]
             \cup [pc : {"send", "cleanup"}, lib : {FALSE}]

\* No remote state, or one whose queue is not looked at.
NoState == [ctx |-> Opaque, track |-> CHOOSE t \in Tracks : TRUE,
            repeat |-> FALSE, next |-> <<>>]

Smaller(m, n) == IF m < n THEN m ELSE n
Prefix(s, n) == SubSeq(s, 1, Smaller(n, Len(s)))

-----------------------------------------------------------------------------
(* computeQueueExpansion.                                                  *)

\* The active track's first place in the list.
Place(list, track) ==
    CHOOSE i \in DOMAIN list : list[i] = track /\ \A k \in 1..i - 1 : list[k] # track

Upcoming(list, track, repeat) ==
    LET i == Place(list, track)
    IN  SubSeq(list, i + 1, Len(list)) \o (IF repeat THEN SubSeq(list, 1, i) ELSE <<>>)

\* A preview may begin with the active track itself.
Stripped(queue, track) ==
    IF queue # <<>> /\ Head(queue) = track THEN Tail(queue) ELSE queue

\* Mutant: only the first entry of the preview is compared.
AgreesFirst(compared, upcoming) ==
    /\ Len(compared) <= Len(upcoming)
    /\ \A i \in DOMAIN compared : i = 1 => compared[i] = upcoming[i]

Agrees(compared, upcoming) ==
    /\ Len(compared) <= Len(upcoming)
    /\ \A i \in DOMAIN compared : compared[i] = upcoming[i]

computeQueueExpansion(list, track, repeat, queue) ==
    IF \E i \in DOMAIN list : list[i] = track
    THEN LET upcoming == Upcoming(list, track, repeat)
         IN  IF Agrees(Stripped(queue, track), upcoming)
             THEN Prefix(upcoming, QueueLimit) ELSE NoQueue
    ELSE NoQueue

-----------------------------------------------------------------------------
(* expandQueue.                                                            *)

\* neededAsLibrary: a playlist echoed for a liked-songs session.
Library(ctx) == liked /\ ctx \in Playlists

\* What the cache has for a context: usable entries only.
Hits(ctx) ==
    {k \in DOMAIN listCache : /\ listCache[k].ctx = ctx
                              /\ listCache[k].fresh
                              /\ listCache[k].lib = Library(ctx)}

\* NextTracks after the expansion from the cache.
ExpandedQueue(state) ==
    LET k == CHOOSE k \in Hits(state.ctx) : TRUE
        queue == computeQueueExpansion(listCache[k].list, state.track,
                                       state.repeat, state.next)
    IN  IF queue = NoQueue THEN state.next ELSE queue

\* Mutant: a fetch in flight is looked for before the cache.
expandInflightFirst(state) ==
    IF state.ctx = Opaque \/ fetchers[state.ctx].pc # "idle"
    THEN rs' = state /\ UNCHANGED fetchers
    ELSE IF Hits(state.ctx) # {}
    THEN rs' = [state EXCEPT !.next = ExpandedQueue(state)] /\ UNCHANGED fetchers
    ELSE /\ rs' = state
         /\ fetchers' = [fetchers EXCEPT ![state.ctx] =
                            [pc |-> "fetch", lib |-> Library(state.ctx)]]

\* The two sections under queueExpandMu are one step: only Run adds a fetch, and
\* only a fetch changes what Run has seen.
expandQueue(state) ==
    IF state.ctx # Opaque /\ Hits(state.ctx) # {}
    THEN rs' = [state EXCEPT !.next = ExpandedQueue(state)] /\ UNCHANGED fetchers
    ELSE /\ rs' = state
         /\ IF state.ctx # Opaque /\ fetchers[state.ctx].pc = "idle"
            THEN fetchers' = [fetchers EXCEPT ![state.ctx] =
                                [pc |-> "fetch", lib |-> Library(state.ctx)]]
            ELSE UNCHANGED fetchers

-----------------------------------------------------------------------------
(* Run.                                                                    *)

Emit == shown' = rs'.next

\* updateRemoteState: expand, then emit.
ClusterPush ==
    /\ \E ctx \in Contexts, track \in Tracks, repeat \in BOOLEAN :
       \E queue \in Previews :
        /\ preview' = queue
        /\ expandQueue([ctx |-> ctx, track |-> track, repeat |-> repeat,
                        next |-> queue])
    /\ Emit
    /\ UNCHANGED <<liked, listCache, expanded>>

\* A push with an Opaque context, or none: expandQueue leaves its queue alone, and
\* the queue is not looked at.
OpaquePush ==
    /\ preview' = <<>>
    /\ expandQueue(NoState)
    /\ Emit
    /\ UNCHANGED <<liked, listCache, expanded>>

\* Mutant: both lengths are read after the expansion.
EmitNever == UNCHANGED shown

\* A queue that was replaced by one of the same length is not emitted.
EmitIfResized == IF Len(rs'.next) # Len(rs.next) THEN Emit ELSE UNCHANGED shown

\* Run's case queueExpandedCh: the state is expanded in place.
ResultLands ==
    /\ expanded
    /\ expanded' = FALSE
    /\ expandQueue(rs)
    /\ EmitIfResized
    /\ UNCHANGED <<preview, liked, listCache>>

\* Run's cases metaResolvedCh and queueResolvedCh: the state is emitted again.
Reemit ==
    /\ shown' = rs.next
    /\ UNCHANGED <<rs, preview, liked, listCache, fetchers, expanded>>

\* A play command that was sent, or the stand-alone fallback.
PlaySent ==
    /\ liked' \in BOOLEAN
    /\ UNCHANGED <<rs, preview, shown, listCache, fetchers, expanded>>

-----------------------------------------------------------------------------
(* fetchQueueExpand.                                                       *)

FetcherTo(ctx, pc) == fetchers' = [fetchers EXCEPT ![ctx] = [pc |-> pc, lib |-> FALSE]]

\* A page failed, or there are no tracks.
FetchFails(ctx) ==
    /\ fetchers[ctx].pc = "fetch"
    /\ FetcherTo(ctx, "cleanup")
    /\ UNCHANGED <<rs, preview, shown, liked, listCache, expanded>>

Fresh == {e \in Fetched : e.fresh}
OfOthers(ctx) == {e \in Fetched : e.ctx # ctx}

\* Mutant: only the expired entries go.
PrunedExpired(entries) ==
    IF Len(entries) <= ExpandCacheMax THEN entries
    ELSE Filter(entries, Fresh)

\* The expired entries go if the cache is over its bound, then the oldest ones
\* until it is not.  Entries are in the order of fetchedAt.
Pruned(entries) ==
    IF Len(entries) <= ExpandCacheMax THEN entries
    ELSE LET fresh == Filter(entries, Fresh)
             over == Len(fresh) - ExpandCacheMax
         IN  IF over > 0 THEN SubSeq(fresh, over + 1, Len(fresh)) ELSE fresh

FetchStores(ctx) ==
    /\ fetchers[ctx].pc = "fetch"
    /\ \E list \in Lists :
        listCache' = Pruned(Append(Filter(listCache, OfOthers(ctx)),
            [ctx |-> ctx, list |-> list, lib |-> fetchers[ctx].lib, fresh |-> TRUE]))
    /\ FetcherTo(ctx, "send")
    /\ UNCHANGED <<rs, preview, shown, liked, expanded>>

\* Not repeated while a result is waiting: Run reads the cache, not the result.
FetchSends(ctx) ==
    /\ fetchers[ctx].pc = "send"
    /\ expanded' = TRUE
    /\ FetcherTo(ctx, "cleanup")
    /\ UNCHANGED <<rs, preview, shown, liked, listCache>>

\* The deferred function.
FetchEnds(ctx) ==
    /\ fetchers[ctx].pc = "cleanup"
    /\ FetcherTo(ctx, "idle")
    /\ UNCHANGED <<rs, preview, shown, liked, listCache, expanded>>

FetchStep(ctx) ==
    FetchFails(ctx) \/ FetchStores(ctx) \/ FetchSends(ctx) \/ FetchEnds(ctx)

\* queueExpandCacheTTL passes for the oldest fresh entry.
Expire ==
    /\ \E k \in DOMAIN listCache :
        /\ listCache[k].fresh
        /\ \A m \in 1..k - 1 : ~listCache[m].fresh
        /\ listCache' = [listCache EXCEPT ![k].fresh = FALSE]
    /\ UNCHANGED <<rs, preview, shown, liked, fetchers, expanded>>

-----------------------------------------------------------------------------
ExpandInit ==
    /\ rs = NoState
    /\ preview = <<>>
    /\ shown = <<>>
    /\ liked = FALSE
    /\ listCache = <<>>
    /\ fetchers = [c \in Contexts |-> Idle]
    /\ expanded = FALSE

ExpandNext ==
    \/ ClusterPush \/ OpaquePush \/ ResultLands \/ Reemit \/ PlaySent \/ Expire
    \/ \E ctx \in Contexts : FetchStep(ctx)

ExpandSpec == ExpandInit /\ [][ExpandNext]_expandVars

ExpandFairness ==
    /\ WF_expandVars(ResultLands)
    /\ \A ctx \in Contexts : WF_expandVars(FetchStep(ctx))

-----------------------------------------------------------------------------
(* Properties.                                                             *)

ExpandTypeOK ==
    /\ rs \in [ctx : Contexts \cup {Opaque}, track : Tracks, repeat : BOOLEAN,
               next : Queues]
    /\ preview \in Queues /\ shown \in Queues
    /\ liked \in BOOLEAN /\ expanded \in BOOLEAN
    /\ listCache \in Seq(Fetched) /\ Len(listCache) <= ExpandCacheMax
    /\ fetchers \in [Contexts -> FetcherAt]

\* However often a queue is expanded again, with lists that were edited between,
\* it still begins with what the last push said is next ("the authoritative
\* Connect preview").  Left out: a track queued right after itself, which the
\* code cannot tell from an echo of the active track.
PreviewHeads ==
    LET ahead == Stripped(preview, rs.track)
    IN  \/ rs.next = preview
        \/ ahead # <<>> /\ Head(ahead) = rs.track
        \/ Len(ahead) <= Len(rs.next) /\ Prefix(rs.next, Len(ahead)) = ahead

\* What is on show is the queue that Run holds, but for echoes of the active track
\* before it: a queue that lost only such an echo, and has as many entries as
\* before, is not shown until the state is emitted for another reason.
ShownButEcho ==
    /\ Len(shown) = Len(rs.next)
    /\ \E n \in 0..Len(shown) :
          /\ \A i \in 1..n : shown[i] = rs.track
          /\ \A i \in n + 1..Len(shown) : shown[i] = rs.next[i - n]

\* The cached list of the context would change the queue that Run holds.
Unapplied ==
    /\ rs.ctx # Opaque
    /\ Hits(rs.ctx) # {}
    /\ ExpandedQueue(rs) # rs.next

\* A list that was fetched is applied to Run's queue without waiting for the next
\* push, even if the one-place channel was full when the fetch ended (Run,
\* queueExpandedCh).  What of it comes on show, ShownButEcho says.
FetchedApplied ==
    (rs.ctx # Opaque /\ fetchers[rs.ctx].pc = "send" /\ Unapplied) ~> ~Unapplied
=============================================================================
