---------------------------- MODULE QueueResolver ----------------------------
(***************************************************************************)
(* The metadata of queue entries (daemon/queue_resolver.go and its callers *)
(* in daemon/player.go).  A cluster push brings entries without text or    *)
(* cover; Run fills them from a cache and starts one goroutine (a job) for *)
(* what is missing.  Jobs write the cache and wake Run, which fills again. *)
(*                                                                         *)
(* Text stands for name, artist and album together: TRUE if none is empty. *)
(* Every section under r.mu is one step; Run's passes are several.  A nil  *)
(* remote state behaves as one with empty queues.                          *)
(***************************************************************************)
EXTENDS Naturals, Sequences, FiniteSets

CONSTANTS
    Uris,
    QueueLengths,      \* bound: the lengths of the two queues
    Shipped,           \* what a push may carry of an entry's metadata
    Listed,            \* what a context's track list may carry of it
    Answers,           \* what the batch may answer for a uri
    ArtLimit,          \* queueArtBackfillLimit
    ResolverCacheMax   \* queueResolverCacheMax

Meta == [text : BOOLEAN, cover : BOOLEAN]
Nothing == [text |-> FALSE, cover |-> FALSE]   \* resolvedQueueTrack{}

ASSUME ResolverAssumption ==
    /\ QueueLengths \subseteq Nat \X Nat
    /\ ArtLimit \in Nat /\ ResolverCacheMax \in Nat
    /\ Shipped \subseteq Meta /\ Listed \subseteq Meta /\ Answers \subseteq Meta

VARIABLES
    next, prev,   \* the queue of the remote state Run shows or works on
    run,          \* where Run is; the uris its passes marked so far
    cache,        \* a partial function from uris to metadata
    pending,      \* uris somebody is said to fetch
    artTried,     \* uris whose cover is settled
    jobs,         \* the running resolve goroutines
    notify,       \* queueResolvedCh holds a signal
    lacking       \* history: since Run's passes a track list has put entries in
                  \* next that lacked what the cache knew

resolverVars == <<next, prev, run, cache, pending, artTried, jobs, notify, lacking>>

Track == [uri : Uris, text : BOOLEAN, cover : BOOLEAN]
Job == [uris : SUBSET Uris, art : SUBSET Uris, still : SUBSET Uris,
        resolved : BOOLEAN,
        pc : {"fetch", "web", "notify", "drop"}]

Places == [pc : {"select", "art", "prev", "signalPrev", "signalArt"},
           i : Nat \ {0}, need : SUBSET Uris, art : SUBSET Uris]

\* r.cache[uri] of a Go map: the zero value if there is no entry.
Cached(c, u) == IF u \in DOMAIN c THEN c[u] ELSE Nothing

-----------------------------------------------------------------------------
(* Run's passes over the queue.                                            *)

FillText(tracks) ==
    [i \in DOMAIN tracks |->
        [tracks[i] EXCEPT !.text = @ \/ Cached(cache, tracks[i].uri).text]]

\* What applyCache returns, having marked it pending.
NeedText(tracks) ==
    {tracks[i].uri : i \in {k \in DOMAIN tracks :
        ~tracks[k].text /\ ~Cached(cache, tracks[k].uri).text}} \ pending

\* Lengths and indices of the art pass: the first ArtLimit entries.
ArtEnd == IF Len(next) < ArtLimit THEN Len(next) ELSE ArtLimit

HasCover(u) == Cached(cache, u).cover

\* The cache knows what an entry on show lacks.
TextWaits(u) ==
    \E i \in DOMAIN next : next[i].uri = u /\ ~next[i].text /\ Cached(cache, u).text
CoverWaits(u) ==
    \E i \in 1..ArtEnd : next[i].uri = u /\ ~next[i].cover /\ HasCover(u)

Waiting == \E u \in Uris : TextWaits(u) \/ CoverWaits(u)

\* Mutant: the settled uris are not consulted.
NeedCoverAgain(t) == ~t.cover /\ ~HasCover(t.uri) /\ t.uri \notin pending

NeedCover(t) ==
    ~t.cover /\ ~HasCover(t.uri) /\ t.uri \notin artTried /\ t.uri \notin pending

\* applyArtBackfill, one entry.
ArtEntry(schedule) ==
    LET t == next[run.i] IN
    /\ next' = [next EXCEPT ![run.i].cover = @ \/ HasCover(t.uri)]
    /\ IF schedule /\ NeedCover(t)
       THEN /\ pending' = pending \cup {t.uri}
            /\ run' = [run EXCEPT !.i = @ + 1, !.art = @ \cup {t.uri}]
       ELSE /\ run' = [run EXCEPT !.i = @ + 1]
            /\ UNCHANGED pending
    /\ UNCHANGED <<prev, cache, artTried, jobs, notify, lacking>>

RunAt(pc) == [pc |-> pc, i |-> 1, need |-> {}, art |-> {}]

\* Queue entries as a push brings them.
Shown(uris, meta) ==
    [i \in DOMAIN uris |-> [uri |-> uris[i], text |-> meta[uris[i]].text,
                            cover |-> meta[uris[i]].cover]]

\* updateRemoteState, from the cluster to the art pass.  The queue after
\* expandQueue is arbitrary; an entry's metadata depends on its uri.
updateRemoteState ==
    /\ run.pc = "select"
    /\ \E len \in QueueLengths, meta \in [Uris -> Shipped] :
       \E un \in [1..len[1] -> Uris], up \in [1..len[2] -> Uris] :
        /\ next' = Shown(un, meta)
        /\ prev' = Shown(up, meta)
    /\ run' = RunAt("art")
    /\ lacking' = FALSE
    /\ UNCHANGED <<cache, pending, artTried, jobs, notify>>

PushArt == run.pc = "art" /\ run.i <= ArtEnd /\ ArtEntry(TRUE)

\* applyCache(rs.NextTracks) after the art pass.
PushNext ==
    /\ run.pc = "art" /\ run.i > ArtEnd
    /\ next' = FillText(next)
    /\ pending' = pending \cup NeedText(next)
    /\ run' = [run EXCEPT !.pc = "prev", !.need = NeedText(next)]
    /\ UNCHANGED <<prev, cache, artTried, jobs, notify, lacking>>

\* ResolveAsync: nothing to fetch, nothing started.
ResolveAsync(uris, art) ==
    jobs' = IF uris = {} THEN jobs
            ELSE jobs \cup {[uris |-> uris, art |-> art, still |-> {},
                             resolved |-> FALSE, pc |-> "fetch"]}

\* applyCache(rs.PrevTracks), then the fetch of everything found missing.
PushPrev ==
    /\ run.pc = "prev"
    /\ prev' = FillText(prev)
    /\ pending' = pending \cup NeedText(prev)
    /\ ResolveAsync(run.need \cup NeedText(prev) \cup run.art, run.art)
    /\ run' = RunAt("select")
    /\ UNCHANGED <<next, cache, artTried, notify, lacking>>

\* Run's case queueResolvedCh: the same passes over a copy.  What applyCache
\* returns is discarded here, the marks it made stay.
SignalNext ==
    /\ run.pc = "select"
    /\ notify
    /\ notify' = FALSE
    /\ next' = FillText(next)
    /\ pending' = pending \cup NeedText(next)
    /\ run' = RunAt("signalPrev")
    /\ lacking' = FALSE
    /\ UNCHANGED <<prev, cache, artTried, jobs>>

SignalPrev ==
    /\ run.pc = "signalPrev"
    /\ prev' = FillText(prev)
    /\ pending' = pending \cup NeedText(prev)
    /\ run' = RunAt("signalArt")
    /\ UNCHANGED <<next, cache, artTried, jobs, notify, lacking>>

SignalArt == run.pc = "signalArt" /\ run.i <= ArtEnd /\ ArtEntry(FALSE)

SignalDone ==
    /\ run.pc = "signalArt" /\ run.i > ArtEnd
    /\ run' = RunAt("select")
    /\ UNCHANGED <<next, prev, cache, pending, artTried, jobs, notify, lacking>>

\* Run's case queueExpandedCh: expandQueue may put entries of the context's track
\* list in the place of next.  None of the passes is made over them.
QueueExpanded ==
    /\ run.pc = "select"
    /\ \E len \in QueueLengths, meta \in [Uris -> Listed] :
       \E un \in [1..len[1] -> Uris] :
        /\ len[2] = Len(prev)
        /\ next' = Shown(un, meta)
    /\ UNCHANGED <<prev, run, cache, pending, artTried, jobs, notify>>
    /\ lacking' = Waiting'

RunStep == PushArt \/ PushNext \/ PushPrev \/ SignalNext \/ SignalPrev
           \/ SignalArt \/ SignalDone

-----------------------------------------------------------------------------
(* resolve, the goroutine of a job.                                        *)

Becomes(j, k) == jobs' = (jobs \ {j}) \cup {k}

\* The cache with the answers of a batch.  A known cover survives an answer
\* without one.
WithAnswers(answer) ==
    [u \in DOMAIN answer \cup DOMAIN cache |->
        IF u \in DOMAIN answer
        THEN [answer[u] EXCEPT !.cover = @ \/ HasCover(u)]
        ELSE cache[u]]

\* The batch answers for some of the uris, for none if the call failed.
BatchFetch(j) ==
    /\ j.pc = "fetch"
    /\ \E got \in SUBSET j.uris : \E answer \in [got -> Answers] :
        /\ cache' = WithAnswers(answer)
        /\ Becomes(j, [j EXCEPT !.pc = "web",
                !.still = {u \in j.art : ~Cached(WithAnswers(answer), u).cover},
                !.resolved = (got # {})])
    /\ UNCHANGED <<next, prev, run, pending, artTried, notify, lacking>>

\* Mutant: a cover found this way is not counted.
WebFoundUncounted(j, u) ==
    /\ cache' = [v \in {u} \cup DOMAIN cache |->
            IF v = u THEN [Cached(cache, u) EXCEPT !.cover = TRUE] ELSE cache[v]]
    /\ Becomes(j, [j EXCEPT !.still = @ \ {u}])

WebFound(j, u) ==
    /\ cache' = [v \in {u} \cup DOMAIN cache |->
            IF v = u THEN [Cached(cache, u) EXCEPT !.cover = TRUE] ELSE cache[v]]
    /\ Becomes(j, [j EXCEPT !.still = @ \ {u}, !.resolved = TRUE])

\* One lookup per cover the batch did not bring.
WebArt(j) ==
    /\ j.pc = "web"
    /\ \E u \in j.still :
        \/ WebFound(j, u)
        \/ Becomes(j, [j EXCEPT !.still = @ \ {u}]) /\ UNCHANGED cache
    /\ UNCHANGED <<next, prev, run, pending, artTried, notify, lacking>>

\* What evictLocked deletes: any half of an overfull cache.
Evicted ==
    IF Cardinality(DOMAIN cache) <= ResolverCacheMax THEN {{}}
    ELSE {K \in SUBSET DOMAIN cache : Cardinality(K) = Cardinality(DOMAIN cache) \div 2}

Settle(j) ==
    /\ j.pc = "web" /\ j.still = {}
    /\ \E K \in Evicted :
        /\ cache' = [u \in DOMAIN cache \ K |-> cache[u]]
        /\ artTried' = (artTried \cup j.art) \ K
    /\ Becomes(j, [j EXCEPT !.pc = IF j.resolved THEN "notify" ELSE "drop",
                            !.art = {}, !.resolved = FALSE])
    /\ UNCHANGED <<next, prev, run, pending, notify, lacking>>

\* The signal is not repeated while one is waiting.
Notify(j) ==
    /\ j.pc = "notify"
    /\ notify' = TRUE
    /\ Becomes(j, [j EXCEPT !.pc = "drop"])
    /\ UNCHANGED <<next, prev, run, cache, pending, artTried, lacking>>

\* Mutant: all marks are dropped, not only the job's own.
DropAll(j) == pending' = {}

DropMarks(j) == pending' = pending \ j.uris

\* The deferred function.
Drop(j) ==
    /\ j.pc = "drop"
    /\ DropMarks(j)
    /\ jobs' = jobs \ {j}
    /\ UNCHANGED <<next, prev, run, cache, artTried, notify, lacking>>

JobStep(j) == BatchFetch(j) \/ WebArt(j) \/ Settle(j) \/ Notify(j) \/ Drop(j)

-----------------------------------------------------------------------------
ResolverInit ==
    /\ next = <<>> /\ prev = <<>>
    /\ run = RunAt("select")
    /\ cache = <<>>
    /\ pending = {} /\ artTried = {}
    /\ jobs = {}
    /\ notify = FALSE
    /\ lacking = FALSE

ResolverNext ==
    updateRemoteState \/ QueueExpanded \/ RunStep \/ \E j \in jobs : JobStep(j)

ResolverSpec == ResolverInit /\ [][ResolverNext]_resolverVars

\* Goroutines run on; a waiting signal is taken in the end even if pushes keep
\* coming, because select chooses at random.
ResolverFairness ==
    /\ WF_resolverVars(RunStep)
    /\ SF_resolverVars(SignalNext)
    /\ \A u \in Uris : WF_resolverVars(\E j \in jobs : u \in j.uris /\ JobStep(j))

-----------------------------------------------------------------------------
(* Properties.                                                             *)

\* Types of the resolver's state; the cache is a partial function.
ResolverTypeOK ==
    /\ next \in Seq(Track) /\ prev \in Seq(Track)
    /\ run \in Places
    /\ DOMAIN cache \subseteq Uris
    /\ \A u \in DOMAIN cache : cache[u] \in Meta
    /\ pending \subseteq Uris /\ artTried \subseteq Uris
    /\ jobs \subseteq Job
    /\ notify \in BOOLEAN
    /\ lacking \in BOOLEAN

\* No uri is being fetched by two jobs at once, whatever pushes, signals and
\* ending jobs interleave with Run's passes (the purpose of r.pending).
SingleFetch ==
    \A j, k \in jobs : j # k => j.uris \cap k.uris = {}

\* A job never looks up a cover that was settled before: an artless track is not
\* fetched again on every cluster update (applyArtBackfill, artTried).
ArtOnce ==
    \A j \in jobs : j.pc \in {"fetch", "web"} => j.art \cap artTried = {}

\* What jobs found is shown without another push (or evicted, or off the queue):
\* neither the one-place channel nor a job that is still busy loses it.  Only
\* entries that a track list has put in the place of others (QueueExpanded) may
\* lack what the cache knows, until the next push or signal.
Lands == []<>(~Waiting \/ lacking)

\* A mark means that somebody fetches the uri, "else failures block retries"
\* (the deferred function of resolve), once Run is between two events.
MarksOwned ==
    run.pc = "select" => pending \subseteq UNION {j.uris : j \in jobs}
=============================================================================
