---------------------------- MODULE Queue_proofs -----------------------------
(***************************************************************************)
(* The invariants that MCQueue checks, for any uris, tracks, lists and     *)
(* bounds: SingleFetch and ArtOnce of QueueResolver, PreviewHeads of       *)
(* QueueExpand, and the types of both.                                     *)
(*                                                                         *)
(* SingleFetch and ArtOnce follow from who owns a mark: a uri that is      *)
(* being fetched, or that Run has just found missing, is marked, and it    *)
(* belongs to one job or to Run but never to two of them (OwnerInv).       *)
(* PreviewHeads is inductive with the types, because what an expansion is  *)
(* compared with is the queue on show and not the preview: an expansion    *)
(* begins with all it was compared with (ExpansionFacts).                  *)
(*                                                                         *)
(* ShownButEcho is inductive as well: an expansion that is not emitted has *)
(* as many entries as the queue it replaces, and begins with all of them   *)
(* but an echo of the active track (EchoStep).                             *)
(*                                                                         *)
(* Of Lands and FetchedApplied, which need fairness, it has the part that  *)
(* does not: whoever adds what the queue lacks tells Run of it             *)
(* (FoundIsShown, FetchedIsTold).                                          *)
(***************************************************************************)
EXTENDS MCQueue, SeqFilter_proofs, TLAPS

-----------------------------------------------------------------------------
(* Types of QueueResolver.                                                 *)

\* Filling text keeps a queue a queue.
LEMMA FillTextType ==
    ASSUME NEW tracks \in Seq(Track), DOMAIN cache \subseteq Uris,
           \A u \in DOMAIN cache : cache[u] \in Meta
    PROVE  /\ FillText(tracks) \in Seq(Track)
           /\ NeedText(tracks) \subseteq Uris
<1>1. \A u : Cached(cache, u) \in Meta
  BY DEF Cached, Nothing, Meta
<1>2. \A i \in 1..Len(tracks) :
        [tracks[i] EXCEPT !.text = @ \/ Cached(cache, tracks[i].uri).text] \in Track
  <2>1. SUFFICES ASSUME NEW i \in 1..Len(tracks)
                 PROVE [tracks[i] EXCEPT !.text =
                          @ \/ Cached(cache, tracks[i].uri).text] \in Track
    OBVIOUS
  <2>2. tracks[i] \in Track
    OBVIOUS
  <2>3. (tracks[i].text \/ Cached(cache, tracks[i].uri).text) \in BOOLEAN
    OBVIOUS
  <2> QED BY <2>2, <2>3 DEF Track
<1>3. FillText(tracks) \in [1..Len(tracks) -> Track]
  BY <1>2 DEF FillText
<1>4. \A i \in DOMAIN tracks : tracks[i].uri \in Uris
  <2>1. \A i \in DOMAIN tracks : tracks[i] \in Track
    OBVIOUS
  <2> QED BY <2>1 DEF Track
<1> QED BY <1>3, <1>4 DEF NeedText

\* Run's places, and jobs as they change.
LEMMA RunAtType ==
    ASSUME NEW pc \in {"select", "art", "prev", "signalPrev", "signalArt"}
    PROVE  RunAt(pc) \in Places
BY DEF RunAt, Places

LEMMA JobChange ==
    ASSUME NEW j \in Job, NEW pc \in {"fetch", "web", "notify", "drop"},
           NEW still \in SUBSET Uris, NEW resolved \in BOOLEAN
    PROVE  /\ [j EXCEPT !.pc = pc, !.still = still, !.resolved = resolved] \in Job
           /\ [j EXCEPT !.still = still, !.resolved = resolved] \in Job
           /\ [j EXCEPT !.still = still] \in Job
           /\ j.art \subseteq Uris /\ j.still \subseteq Uris /\ j.uris \subseteq Uris
BY DEF Job

LEMMA ResolverTypeStep ==
    ASSUME ResolverTypeOK, [ResolverNext]_resolverVars
    PROVE  ResolverTypeOK'
<1> USE DEF ResolverTypeOK
<1>1. CASE updateRemoteState
  <2>1. PICK len \in QueueLengths, meta \in [Uris -> Shipped] :
          \E un \in [1..len[1] -> Uris], up \in [1..len[2] -> Uris] :
            next' = Shown(un, meta) /\ prev' = Shown(up, meta)
    BY <1>1 DEF updateRemoteState
  <2>2. PICK un \in [1..len[1] -> Uris], up \in [1..len[2] -> Uris] :
            next' = Shown(un, meta) /\ prev' = Shown(up, meta)
    BY <2>1
  <2>3. len[1] \in Nat /\ len[2] \in Nat /\ \A u \in Uris : meta[u] \in Meta
    BY ResolverAssumption
  <2>4. Shown(un, meta) \in [1..len[1] -> Track] /\ Shown(up, meta) \in [1..len[2] -> Track]
    BY <2>3 DEF Shown, Track, Meta
  <2>5. next' \in Seq(Track) /\ prev' \in Seq(Track)
    <3>1. \A n \in Nat : [1..n -> Track] \subseteq Seq(Track)
      OBVIOUS
    <3> QED BY <2>2, <2>3, <2>4, <3>1
  <2> QED BY <1>1, <2>5, RunAtType DEF updateRemoteState
<1>2. ASSUME NEW schedule \in BOOLEAN, run.i <= ArtEnd, ArtEntry(schedule)
      PROVE  ResolverTypeOK'
  <2>1. run.i \in 1..Len(next)
    <3>1. run.i \in Nat \ {0} /\ Len(next) \in Nat
      BY DEF Places
    <3> QED BY <1>2, <3>1, ResolverAssumption DEF ArtEnd
  <2>2. next[run.i] \in Track /\ next[run.i].uri \in Uris
    <3>1. next[run.i] \in Track
      BY <2>1
    <3> QED BY <3>1 DEF Track
  <2>3. HasCover(next[run.i].uri) \in BOOLEAN /\ next[run.i].cover \in BOOLEAN
    BY <2>2 DEF HasCover, Cached, Nothing, Meta, Track
  <2>4. [next[run.i] EXCEPT !.cover = @ \/ HasCover(next[run.i].uri)] \in Track
    BY <2>2, <2>3 DEF Track
  <2>5. next' \in Seq(Track)
    <3>1. next \in [1..Len(next) -> Track] /\ Len(next) \in Nat
      OBVIOUS
    <3>2. next' \in [1..Len(next) -> Track]
      BY <1>2, <2>4, <3>1 DEF ArtEntry
    <3> QED BY <3>1, <3>2
  <2>6. run' \in Places /\ pending' \subseteq Uris
    <3>1. run.i + 1 \in Nat \ {0} /\ run.art \cup {next[run.i].uri} \in SUBSET Uris
      BY <2>2 DEF Places
    <3>2. CASE /\ pending' = pending \cup {next[run.i].uri}
               /\ run' = [run EXCEPT !.i = @ + 1, !.art = @ \cup {next[run.i].uri}]
      BY <2>2, <3>1, <3>2 DEF Places
    <3>3. CASE run' = [run EXCEPT !.i = @ + 1] /\ UNCHANGED pending
      BY <3>1, <3>3 DEF Places
    <3> QED BY <1>2, <3>2, <3>3 DEF ArtEntry
  <2> QED BY <1>2, <2>5, <2>6 DEF ArtEntry
<1>3. CASE PushNext
  <2>1. FillText(next) \in Seq(Track) /\ NeedText(next) \subseteq Uris
    BY FillTextType
  <2>2. run' \in Places
    BY <1>3, <2>1 DEF PushNext, Places
  <2> QED BY <1>3, <2>1, <2>2 DEF PushNext
<1>4. CASE PushPrev
  <2>1. FillText(prev) \in Seq(Track) /\ NeedText(prev) \subseteq Uris
    BY FillTextType
  <2>2. /\ run.need \cup NeedText(prev) \cup run.art \in SUBSET Uris
        /\ run.art \in SUBSET Uris
    BY <2>1 DEF Places
  <2>3. [uris |-> run.need \cup NeedText(prev) \cup run.art, art |-> run.art,
         still |-> {}, resolved |-> FALSE, pc |-> "fetch"] \in Job
    BY <2>2 DEF Job
  <2>4. jobs' \subseteq Job
    BY <1>4, <2>3 DEF PushPrev, ResolveAsync
  <2> QED BY <1>4, <2>1, <2>4, RunAtType DEF PushPrev
<1>5. CASE SignalNext
  <2>1. FillText(next) \in Seq(Track) /\ NeedText(next) \subseteq Uris
    BY FillTextType
  <2> QED BY <1>5, <2>1, RunAtType DEF SignalNext
<1>6. CASE SignalPrev
  <2>1. FillText(prev) \in Seq(Track) /\ NeedText(prev) \subseteq Uris
    BY FillTextType
  <2> QED BY <1>6, <2>1, RunAtType DEF SignalPrev
<1>7. CASE SignalDone
  BY <1>7, RunAtType DEF SignalDone
<1>8. ASSUME NEW j \in jobs, BatchFetch(j) PROVE ResolverTypeOK'
  <2>1. PICK got \in SUBSET j.uris :
          \E answer \in [got -> Answers], still \in SUBSET j.art, resolved \in BOOLEAN :
            /\ cache' = WithAnswers(answer)
            /\ Becomes(j, [j EXCEPT !.pc = "web", !.still = still,
                                   !.resolved = resolved])
    BY <1>8 DEF BatchFetch
  <2>2. PICK answer \in [got -> Answers], still \in SUBSET j.art, resolved \in BOOLEAN :
            /\ cache' = WithAnswers(answer)
            /\ Becomes(j, [j EXCEPT !.pc = "web", !.still = still,
                                   !.resolved = resolved])
    BY <2>1
  <2>3. \A u \in got : [answer[u] EXCEPT !.cover = @ \/ HasCover(u)] \in Meta
    <3>1. SUFFICES ASSUME NEW u \in got
                   PROVE [answer[u] EXCEPT !.cover = @ \/ HasCover(u)] \in Meta
      OBVIOUS
    <3>2. answer[u] \in Meta
      BY ResolverAssumption
    <3>3. (answer[u].cover \/ HasCover(u)) \in BOOLEAN
      OBVIOUS
    <3> QED BY <3>2, <3>3 DEF Meta
  <2>4. DOMAIN cache' \subseteq Uris /\ \A u \in DOMAIN cache' : cache'[u] \in Meta
    <3>1. got \subseteq Uris
      BY DEF Job
    <3> QED BY <2>2, <2>3, <3>1 DEF WithAnswers
  <2>5. jobs' \subseteq Job
    <3>1. j \in Job /\ still \in SUBSET Uris
      BY <2>2, JobChange
    <3>2. [j EXCEPT !.pc = "web", !.still = still, !.resolved = resolved] \in Job
      BY <3>1, JobChange
    <3> QED BY <2>2, <3>2 DEF Becomes
  <2> QED BY <1>8, <2>4, <2>5 DEF BatchFetch
<1>9. ASSUME NEW j \in jobs, WebArt(j) PROVE ResolverTypeOK'
  <2>1. j \in Job
    OBVIOUS
  <2>2. PICK u \in j.still :
          \/ WebFound(j, u)
          \/ Becomes(j, [j EXCEPT !.still = @ \ {u}]) /\ UNCHANGED cache
    BY <1>9 DEF WebArt
  <2>3. jobs' \subseteq Job
    <3>1. j.still \ {u} \in SUBSET Uris
      BY <2>1, JobChange
    <3> QED BY <2>1, <2>2, <3>1, JobChange DEF WebFound, Becomes
  <2>4. u \in Uris /\ [Cached(cache, u) EXCEPT !.cover = TRUE] \in Meta
    BY <2>1, <2>2 DEF Job, Cached, Nothing, Meta
  <2>5. DOMAIN cache' \subseteq Uris /\ \A v \in DOMAIN cache' : cache'[v] \in Meta
    BY <2>2, <2>4 DEF WebFound
  <2> QED BY <1>9, <2>3, <2>5 DEF WebArt
<1>10. ASSUME NEW j \in jobs, Settle(j) PROVE ResolverTypeOK'
  <2>1. j \in Job
    OBVIOUS
  <2>2. jobs' \subseteq Job
    <3>1. \A pc \in {"notify", "drop"} :
             [j EXCEPT !.pc = pc, !.art = {}, !.resolved = FALSE] \in Job
      BY <2>1 DEF Job
    <3>2. PICK pc \in {"notify", "drop"} :
             Becomes(j, [j EXCEPT !.pc = pc, !.art = {}, !.resolved = FALSE])
      BY <1>10 DEF Settle
    <3> QED BY <3>1, <3>2 DEF Becomes
  <2>3. j.art \subseteq Uris
    BY <2>1 DEF Job
  <2> QED BY <1>10, <2>2, <2>3 DEF Settle
<1>11. ASSUME NEW j \in jobs, Notify(j) PROVE ResolverTypeOK'
  <2>1. jobs' \subseteq Job
    BY <1>11 DEF Notify, Becomes, Job
  <2> QED BY <1>11, <2>1 DEF Notify
<1>12. ASSUME NEW j \in jobs, Drop(j) PROVE ResolverTypeOK'
  BY <1>12 DEF Drop, DropMarks
<1>13. CASE QueueExpanded
  <2>1. PICK len \in QueueLengths, meta \in [Uris -> Listed] :
          \E un \in [1..len[1] -> Uris] : next' = Shown(un, meta)
    BY <1>13 DEF QueueExpanded
  <2>2. PICK un \in [1..len[1] -> Uris] : next' = Shown(un, meta)
    BY <2>1
  <2>3. len[1] \in Nat /\ \A u \in Uris : meta[u] \in Meta
    BY ResolverAssumption
  <2>4. Shown(un, meta) \in [1..len[1] -> Track]
    BY <2>3 DEF Shown, Track, Meta
  <2>5. next' \in Seq(Track)
    <3>1. [1..len[1] -> Track] \subseteq Seq(Track)
      BY <2>3
    <3> QED BY <2>2, <2>4, <3>1
  <2>6. UNCHANGED <<prev, run, cache, pending, artTried, jobs, notify>>
    BY <1>13 DEF QueueExpanded
  <2>7. lacking' \in BOOLEAN
    <3>1. Waiting' \in BOOLEAN
      BY DEF Waiting
    <3> QED BY <1>13, <3>1 DEF QueueExpanded
  <2> QED BY <2>5, <2>6, <2>7
<1>14. CASE UNCHANGED resolverVars
  BY <1>14 DEF resolverVars
<1> QED
  BY <1>1, <1>2, <1>3, <1>4, <1>5, <1>6, <1>7, <1>8, <1>9, <1>10, <1>11, <1>12, <1>13,
     <1>14 DEF ResolverNext, RunStep, JobStep, PushArt, SignalArt

\* The resolver keeps its types in every reachable state: the marks, the jobs and
\* the cache are of known uris.
THEOREM ResolverTyped == ResolverSpec => []ResolverTypeOK
<1>1. ResolverInit => ResolverTypeOK
  <2> SUFFICES ASSUME ResolverInit PROVE ResolverTypeOK
    OBVIOUS
  <2>1. next \in Seq(Track) /\ prev \in Seq(Track)
    BY DEF ResolverInit
  <2>2. DOMAIN cache = {}
    BY DEF ResolverInit
  <2>3. run \in Places
    BY RunAtType DEF ResolverInit
  <2> QED BY <2>1, <2>2, <2>3 DEF ResolverInit, ResolverTypeOK
<1> QED BY <1>1, ResolverTypeStep, PTL DEF ResolverSpec

-----------------------------------------------------------------------------
(* Who owns a mark.                                                        *)

\* What Run has marked in this pass and not yet handed to a job.
Found == run.need \cup run.art

OwnerInv ==
    /\ \A j \in jobs : j.uris \subseteq pending /\ j.art \subseteq j.uris
    /\ Found \subseteq pending
    /\ \A j \in jobs : j.uris \cap Found = {}
    /\ SingleFetch
    /\ run.art \cap artTried = {}
    /\ ArtOnce

\* A job that goes on with the same uris and no other covers to look up.
LEMMA GoesOn ==
    ASSUME OwnerInv, NEW j \in jobs, NEW k, Becomes(j, k),
           k.uris = j.uris, k.art \subseteq j.art,
           k.pc \in {"fetch", "web"} => j.pc \in {"fetch", "web"},
           UNCHANGED <<run, pending, artTried>>
    PROVE  OwnerInv'
BY DEF OwnerInv, Becomes, SingleFetch, ArtOnce, Found

LEMMA OwnerStep ==
    ASSUME ResolverTypeOK, OwnerInv, [ResolverNext]_resolverVars
    PROVE  OwnerInv'
<1> USE DEF OwnerInv
<1>1. ASSUME NEW pc, run' = RunAt(pc), pending \subseteq pending',
             UNCHANGED <<artTried, jobs>>
      PROVE  OwnerInv'
  BY <1>1 DEF RunAt, Found, SingleFetch, ArtOnce
<1>2. CASE updateRemoteState
  BY <1>1, <1>2 DEF updateRemoteState
<1>3. ASSUME NEW schedule \in BOOLEAN, ArtEntry(schedule) PROVE OwnerInv'
  <2>1. run \in Places
    BY DEF ResolverTypeOK
  <2>2. CASE /\ NeedCover(next[run.i])
             /\ pending' = pending \cup {next[run.i].uri}
             /\ run' = [run EXCEPT !.i = @ + 1, !.art = @ \cup {next[run.i].uri}]
    <3>1. next[run.i].uri \notin artTried /\ next[run.i].uri \notin pending
      BY <2>2 DEF NeedCover
    <3>2. run'.need = run.need /\ run'.art = run.art \cup {next[run.i].uri}
      BY <2>1, <2>2 DEF Places
    <3> QED BY <1>3, <2>2, <3>1, <3>2 DEF ArtEntry, Found, SingleFetch, ArtOnce
  <2>3. CASE run' = [run EXCEPT !.i = @ + 1] /\ UNCHANGED pending
    <3>1. run'.need = run.need /\ run'.art = run.art
      BY <2>1, <2>3 DEF Places
    <3> QED BY <1>3, <2>3, <3>1 DEF ArtEntry, Found, SingleFetch, ArtOnce
  <2> QED BY <1>3, <2>2, <2>3 DEF ArtEntry
<1>4. CASE PushNext
  <2>1. run'.need = NeedText(next) /\ run'.art = run.art
    BY <1>4 DEF PushNext, ResolverTypeOK, Places
  <2>2. NeedText(next) \cap pending = {}
    BY DEF NeedText
  <2> QED BY <1>4, <2>1, <2>2 DEF PushNext, Found, SingleFetch, ArtOnce
<1>5. CASE PushPrev
  <2> DEFINE uris == run.need \cup NeedText(prev) \cup run.art
             new == [uris |-> uris, art |-> run.art, still |-> {},
                     resolved |-> FALSE, pc |-> "fetch"]
  <2>1. NeedText(prev) \cap pending = {}
    BY DEF NeedText
  <2>2. /\ new.uris = uris /\ new.art = run.art
        /\ run'.need = {} /\ run'.art = {}
    BY <1>5 DEF PushPrev, RunAt
  <2>3. \A j \in jobs : j.uris \cap uris = {}
    BY <2>1 DEF Found
  <2>4. jobs' \subseteq jobs \cup {new}
    BY <1>5 DEF PushPrev, ResolveAsync
  <2>5. pending' = pending \cup NeedText(prev) /\ UNCHANGED artTried
    BY <1>5 DEF PushPrev
  <2> HIDE DEF uris, new
  <2>6. uris \subseteq pending' /\ run.art \subseteq uris
    BY <2>5 DEF Found, uris
  <2> QED BY <2>2, <2>3, <2>4, <2>5, <2>6 DEF Found, SingleFetch, ArtOnce
<1>6. CASE SignalNext
  BY <1>1, <1>6 DEF SignalNext
<1>7. CASE SignalPrev
  BY <1>1, <1>7 DEF SignalPrev
<1>8. CASE SignalDone
  BY <1>1, <1>8 DEF SignalDone
<1>9. ASSUME NEW j \in jobs, BatchFetch(j) PROVE OwnerInv'
  <2>1. j \in Job
    BY DEF ResolverTypeOK
  <2>2. PICK still, resolved :
          Becomes(j, [j EXCEPT !.pc = "web", !.still = still, !.resolved = resolved])
    BY <1>9 DEF BatchFetch
  <2> QED BY <1>9, <2>1, <2>2, GoesOn DEF BatchFetch, Job
<1>10. ASSUME NEW j \in jobs, WebArt(j) PROVE OwnerInv'
  <2>1. j \in Job
    BY DEF ResolverTypeOK
  <2>2. PICK still, resolved :
          Becomes(j, [j EXCEPT !.still = still, !.resolved = resolved])
    <3>1. PICK u \in j.still :
            \/ WebFound(j, u)
            \/ Becomes(j, [j EXCEPT !.still = @ \ {u}])
      BY <1>10 DEF WebArt
    <3>2. [j EXCEPT !.still = @ \ {u}] =
            [j EXCEPT !.still = j.still \ {u}, !.resolved = j.resolved]
      BY <2>1 DEF Job
    <3>3. [j EXCEPT !.still = @ \ {u}, !.resolved = TRUE] =
            [j EXCEPT !.still = j.still \ {u}, !.resolved = TRUE]
      BY <2>1 DEF Job
    <3> QED BY <3>1, <3>2, <3>3 DEF WebFound
  <2> QED BY <1>10, <2>1, <2>2, GoesOn DEF WebArt, Job
<1>11. ASSUME NEW j \in jobs, Settle(j) PROVE OwnerInv'
  <2>1. j \in Job
    BY DEF ResolverTypeOK
  <2>2. PICK pc \in {"notify", "drop"} :
          Becomes(j, [j EXCEPT !.pc = pc, !.art = {}, !.resolved = FALSE])
    BY <1>11 DEF Settle
  <2> DEFINE k == [j EXCEPT !.pc = pc, !.art = {}, !.resolved = FALSE]
  <2>3. k.uris = j.uris /\ k.art = {} /\ k.pc = pc
    BY <2>1 DEF Job
  <2>4. artTried' \subseteq artTried \cup j.art /\ UNCHANGED <<run, pending>>
    BY <1>11 DEF Settle
  <2>5. jobs' = (jobs \ {j}) \cup {k}
    BY <2>2 DEF Becomes
  <2> HIDE DEF k
  <2>6. \A l \in jobs' : l = k \/ (l \in jobs /\ l # j)
    BY <2>5
  <2>7. ArtOnce'
    BY <2>3, <2>4, <2>6 DEF ArtOnce, SingleFetch
  <2>8. SingleFetch'
    BY <2>3, <2>6 DEF SingleFetch
  <2> QED BY <2>3, <2>4, <2>6, <2>7, <2>8 DEF Found
<1>12. ASSUME NEW j \in jobs, Notify(j) PROVE OwnerInv'
  <2>1. j \in Job
    BY DEF ResolverTypeOK
  <2> QED BY <1>12, <2>1, GoesOn DEF Notify, Job
<1>13. ASSUME NEW j \in jobs, Drop(j) PROVE OwnerInv'
  BY <1>13 DEF Drop, DropMarks, Found, SingleFetch, ArtOnce
<1>14. CASE QueueExpanded
  BY <1>14 DEF QueueExpanded, Found, SingleFetch, ArtOnce
<1>15. CASE UNCHANGED resolverVars
  BY <1>15 DEF resolverVars, Found, SingleFetch, ArtOnce
<1> QED
  BY <1>2, <1>3, <1>4, <1>5, <1>6, <1>7, <1>8, <1>9, <1>10, <1>11, <1>12, <1>13, <1>14,
     <1>15 DEF ResolverNext, RunStep, JobStep, PushArt, SignalArt

LEMMA OwnerHolds == ResolverSpec => []OwnerInv
<1>1. ResolverInit => OwnerInv
  BY DEF ResolverInit, OwnerInv, RunAt, Found, SingleFetch, ArtOnce
<1> QED BY <1>1, OwnerStep, ResolverTyped, PTL DEF ResolverSpec

\* No uri is ever fetched by two jobs at once.
THEOREM SingleFetchHolds == ResolverSpec => []SingleFetch
<1>1. OwnerInv => SingleFetch
  BY DEF OwnerInv
<1> QED BY <1>1, OwnerHolds, PTL

\* No job ever looks up a cover that was settled before.
THEOREM ArtOnceHolds == ResolverSpec => []ArtOnce
<1>1. OwnerInv => ArtOnce
  BY DEF OwnerInv
<1> QED BY <1>1, OwnerHolds, PTL

-----------------------------------------------------------------------------
(* What jobs found is shown.                                               *)

\* A job that will wake Run, and that Run is or will be woken.
Tells(j) == j.pc = "notify" \/ (j.pc = "web" /\ j.resolved)
Told == notify \/ \E j \in jobs : Tells(j)

\* The cache knows what the entry at i lacks.
TextAt(i) == ~next[i].text /\ Cached(cache, next[i].uri).text
CoverAt(i) == ~next[i].cover /\ HasCover(next[i].uri)

\* Text is filled after the art of a push; a cover is filled by the pass that
\* has not come to it yet.
TextComes ==
    \A i \in DOMAIN next : TextAt(i) => Told \/ lacking \/ run.pc = "art"
CoverComes ==
    \A i \in 1..ArtEnd : CoverAt(i) =>
        \/ Told \/ lacking
        \/ run.pc = "signalPrev"
        \/ run.pc \in {"art", "signalArt"} /\ run.i <= i

FoundInv == TextComes /\ CoverComes

\* Only a job that tells of it may add to what the cache knows.
LEMMA JobTells ==
    ASSUME FoundInv, UNCHANGED <<next, run, lacking>>, Told => Told',
           \/ Told'
           \/ \A u : /\ Cached(cache', u).text => Cached(cache, u).text
                     /\ Cached(cache', u).cover => Cached(cache, u).cover
    PROVE  FoundInv'
BY DEF FoundInv, TextComes, CoverComes, TextAt, CoverAt, HasCover, ArtEnd

\* A job that goes on still tells if it did.
LEMMA StillTells ==
    ASSUME NEW j \in jobs, NEW k, Becomes(j, k), Tells(j) => Tells(k),
           UNCHANGED notify
    PROVE  (Told => Told') /\ (Tells(k) => Told')
BY DEF Told, Becomes

\* Filling text leaves none that the cache knows, and the covers as they are.
LEMMA TextFilled ==
    ASSUME next \in Seq(Track), next' = FillText(next), UNCHANGED cache
    PROVE  /\ DOMAIN next' = DOMAIN next /\ ArtEnd' = ArtEnd
           /\ \A i \in DOMAIN next : ~TextAt(i)' /\ (CoverAt(i)' <=> CoverAt(i))
<1>1. \A i \in DOMAIN next : next[i] \in Track
  OBVIOUS
<1>2. DOMAIN next' = DOMAIN next /\ Len(next') = Len(next)
  BY DEF FillText
<1>3. ASSUME NEW i \in DOMAIN next
      PROVE  /\ next'[i].uri = next[i].uri /\ next'[i].cover = next[i].cover
             /\ next'[i].text = (next[i].text \/ Cached(cache, next[i].uri).text)
  <2>1. next'[i] = [next[i] EXCEPT !.text = @ \/ Cached(cache, next[i].uri).text]
    BY <1>3 DEF FillText
  <2> QED BY <1>1, <1>3, <2>1 DEF Track
<1> QED BY <1>2, <1>3 DEF TextAt, CoverAt, HasCover, ArtEnd

LEMMA FoundStep ==
    ASSUME ResolverTypeOK, FoundInv, [ResolverNext]_resolverVars
    PROVE  FoundInv'
<1>0. /\ next \in Seq(Track) /\ run \in Places /\ run.i \in Nat \ {0}
      /\ ArtEnd \in Nat /\ ArtEnd <= Len(next)
  <2>1. next \in Seq(Track) /\ run \in Places
    BY DEF ResolverTypeOK
  <2> QED BY <2>1, ResolverAssumption DEF Places, ArtEnd
<1>1. CASE updateRemoteState
  <2>1. run' = RunAt("art")
    BY <1>1 DEF updateRemoteState
  <2>2. run'.pc = "art" /\ run'.i = 1
    BY <2>1 DEF RunAt
  <2>3. ArtEnd' \in Nat
    <3>1. ResolverTypeOK'
      BY ResolverTypeStep
    <3>2. next' \in Seq(Track)
      BY <3>1 DEF ResolverTypeOK
    <3> QED BY <3>2, ResolverAssumption DEF ArtEnd
  <2> QED BY <2>2, <2>3 DEF FoundInv, TextComes, CoverComes
<1>2. ASSUME NEW schedule \in BOOLEAN, run.pc \in {"art", "signalArt"},
             run.i <= ArtEnd, ArtEntry(schedule)
      PROVE  FoundInv'
  <2>1. run.i \in DOMAIN next
    BY <1>0, <1>2
  <2>2. run'.pc = run.pc /\ run'.i = run.i + 1
    <3>1. \/ run' = [run EXCEPT !.i = @ + 1, !.art = @ \cup {next[run.i].uri}]
          \/ run' = [run EXCEPT !.i = @ + 1]
      BY <1>2 DEF ArtEntry
    <3> QED BY <1>0, <3>1 DEF Places
  <2>3. UNCHANGED <<cache, jobs, notify, lacking>>
    BY <1>2 DEF ArtEntry
  <2>4. DOMAIN next' = DOMAIN next /\ ArtEnd' = ArtEnd
    <3>1. DOMAIN next' = DOMAIN next /\ Len(next') = Len(next)
      BY <1>0, <1>2 DEF ArtEntry
    <3> QED BY <3>1 DEF ArtEnd
  <2>5. ASSUME NEW i \in DOMAIN next
        PROVE  /\ next'[i].uri = next[i].uri /\ next'[i].text = next[i].text
               /\ i # run.i => next'[i].cover = next[i].cover
               /\ i = run.i => next'[i].cover = (next[i].cover \/ HasCover(next[i].uri))
    <3>1. next' = [next EXCEPT ![run.i].cover = @ \/ HasCover(next[run.i].uri)]
      BY <1>2 DEF ArtEntry
    <3>2. next[i] \in Track
      BY <1>0, <2>5
    <3>3. CASE i = run.i
      <4>1. next'[i] = [next[i] EXCEPT !.cover = @ \/ HasCover(next[i].uri)]
        BY <1>0, <2>5, <3>1, <3>3
      <4> QED BY <3>2, <3>3, <4>1 DEF Track
    <3>4. CASE i # run.i
      BY <1>0, <2>5, <3>1, <3>4
    <3> QED BY <3>3, <3>4
  <2>6. Told' = Told
    BY <2>3 DEF Told
  <2>7. TextComes'
    BY <2>2, <2>3, <2>4, <2>5, <2>6 DEF FoundInv, TextComes, TextAt
  <2>8. CoverComes'
    <3>1. SUFFICES ASSUME NEW i \in 1..ArtEnd, CoverAt(i)', ~Told', ~lacking'
                   PROVE  /\ run.pc \in {"art", "signalArt"} /\ run.i + 1 <= i
      BY <2>2, <2>4 DEF CoverComes
    <3>2. i \in DOMAIN next
      BY <1>0
    <3>3. i # run.i /\ CoverAt(i)
      BY <2>3, <2>5, <3>1, <3>2 DEF CoverAt, HasCover
    <3>4. run.i <= i
      BY <1>2, <2>3, <2>6, <3>1, <3>3 DEF FoundInv, CoverComes
    <3> QED BY <1>0, <1>2, <3>3, <3>4
  <2> QED BY <2>7, <2>8 DEF FoundInv
<1>3. CASE PushNext
  <2>1. /\ next' = FillText(next) /\ UNCHANGED <<cache, jobs, notify, lacking>>
        /\ run.pc = "art" /\ run.i > ArtEnd
    BY <1>3 DEF PushNext
  <2>2. Told' = Told
    BY <2>1 DEF Told
  <2>3. \A i \in 1..ArtEnd : CoverAt(i) => Told \/ lacking
    BY <1>0, <2>1 DEF FoundInv, CoverComes
  <2>4. TextComes'
    BY <1>0, <2>1, TextFilled DEF TextComes
  <2>5. CoverComes'
    <3>1. SUFFICES ASSUME NEW i \in 1..ArtEnd, CoverAt(i)' PROVE Told' \/ lacking'
      BY <1>0, <2>1, TextFilled DEF CoverComes
    <3>2. i \in DOMAIN next
      BY <1>0
    <3> QED BY <1>0, <2>1, <2>2, <2>3, <3>1, <3>2, TextFilled
  <2> QED BY <2>4, <2>5 DEF FoundInv
<1>4. CASE PushPrev
  <2>1. /\ UNCHANGED <<next, cache, notify, lacking>> /\ jobs \subseteq jobs'
        /\ run.pc = "prev"
    BY <1>4 DEF PushPrev, ResolveAsync
  <2>2. Told => Told'
    BY <2>1 DEF Told
  <2> QED BY <2>1, <2>2
          DEF FoundInv, TextComes, CoverComes, TextAt, CoverAt, HasCover, ArtEnd
<1>5. CASE SignalNext
  <2>1. next' = FillText(next) /\ UNCHANGED cache /\ run' = RunAt("signalPrev")
    BY <1>5 DEF SignalNext
  <2>2. run'.pc = "signalPrev"
    BY <2>1 DEF RunAt
  <2> QED BY <1>0, <2>1, <2>2, TextFilled DEF FoundInv, TextComes, CoverComes
<1>6. CASE SignalPrev
  <2>1. /\ UNCHANGED <<next, cache, notify, jobs, lacking>> /\ run' = RunAt("signalArt")
        /\ run.pc = "signalPrev"
    BY <1>6 DEF SignalPrev
  <2>2. run'.pc = "signalArt" /\ run'.i = 1
    BY <2>1 DEF RunAt
  <2>3. Told' = Told
    BY <2>1 DEF Told
  <2>4. TextComes'
    BY <2>1, <2>3 DEF FoundInv, TextComes, TextAt
  <2>5. CoverComes'
    BY <1>0, <2>1, <2>2 DEF CoverComes, ArtEnd
  <2> QED BY <2>4, <2>5 DEF FoundInv
<1>7. CASE SignalDone
  <2>1. /\ UNCHANGED <<next, cache, notify, jobs, lacking>>
        /\ run.pc = "signalArt" /\ run.i > ArtEnd
    BY <1>7 DEF SignalDone
  <2>2. Told' = Told
    BY <2>1 DEF Told
  <2>3. \A i \in 1..ArtEnd : CoverAt(i) => Told \/ lacking
    BY <1>0, <2>1 DEF FoundInv, CoverComes
  <2>4. TextComes'
    BY <2>1, <2>2 DEF FoundInv, TextComes, TextAt
  <2>5. CoverComes'
    BY <2>1, <2>2, <2>3 DEF CoverComes, CoverAt, HasCover, ArtEnd
  <2> QED BY <2>4, <2>5 DEF FoundInv
<1>8. ASSUME NEW j \in jobs, BatchFetch(j) PROVE FoundInv'
  <2>1. j \in Job /\ j.pc = "fetch" /\ UNCHANGED <<next, run, notify, lacking>>
    BY <1>8 DEF BatchFetch, ResolverTypeOK
  <2>2. PICK got \in SUBSET j.uris : \E answer \in [got -> Answers] : \E still :
          /\ cache' = WithAnswers(answer)
          /\ Becomes(j, [j EXCEPT !.pc = "web", !.still = still,
                                 !.resolved = (got # {})])
    BY <1>8 DEF BatchFetch
  <2>3. PICK answer \in [got -> Answers] : \E still :
          /\ cache' = WithAnswers(answer)
          /\ Becomes(j, [j EXCEPT !.pc = "web", !.still = still,
                                 !.resolved = (got # {})])
    BY <2>2
  <2>4. PICK still :
          Becomes(j, [j EXCEPT !.pc = "web", !.still = still, !.resolved = (got # {})])
    BY <2>3
  <2> DEFINE k == [j EXCEPT !.pc = "web", !.still = still, !.resolved = (got # {})]
  <2>5. k.pc = "web" /\ k.resolved = (got # {})
    BY <2>1 DEF Job
  <2>6. ~Tells(j)
    BY <2>1 DEF Tells
  <2>7. Becomes(j, k)
    BY <2>4
  <2> HIDE DEF k
  <2>8. (Told => Told') /\ (Tells(k) => Told')
    BY <2>1, <2>6, <2>7, StillTells
  <2>9. CASE got # {}
    <3>1. Told'
      BY <2>5, <2>8, <2>9 DEF Tells
    <3> QED BY <2>1, <3>1, JobTells
  <2>10. CASE got = {}
    <3>1. DOMAIN answer = {}
      BY <2>10
    <3>2. cache' = [u \in DOMAIN cache |-> cache[u]]
      BY <2>3, <3>1 DEF WithAnswers
    <3>3. \A u : Cached(cache', u) = Cached(cache, u)
      BY <3>2 DEF Cached
    <3> QED BY <2>1, <2>8, <3>3, JobTells
  <2> QED BY <2>9, <2>10
<1>9. ASSUME NEW j \in jobs, WebArt(j) PROVE FoundInv'
  <2>1. j \in Job /\ j.pc = "web" /\ UNCHANGED <<next, run, notify, lacking>>
    BY <1>9 DEF WebArt, ResolverTypeOK
  <2>2. PICK u \in j.still :
          \/ WebFound(j, u)
          \/ Becomes(j, [j EXCEPT !.still = @ \ {u}]) /\ UNCHANGED cache
    BY <1>9 DEF WebArt
  <2>3. CASE WebFound(j, u)
    <3> DEFINE k == [j EXCEPT !.still = @ \ {u}, !.resolved = TRUE]
    <3>1. Tells(k)
      BY <2>1 DEF Tells, Job
    <3>2. Becomes(j, k)
      BY <2>3 DEF WebFound
    <3> HIDE DEF k
    <3>3. Told'
      BY <2>1, <3>1, <3>2, StillTells
    <3> QED BY <2>1, <3>3, JobTells
  <2>4. CASE Becomes(j, [j EXCEPT !.still = @ \ {u}]) /\ UNCHANGED cache
    <3> DEFINE k == [j EXCEPT !.still = @ \ {u}]
    <3>1. Tells(j) => Tells(k)
      BY <2>1 DEF Tells, Job
    <3>2. Becomes(j, k)
      BY <2>4
    <3> HIDE DEF k
    <3>3. Told => Told'
      BY <2>1, <3>1, <3>2, StillTells
    <3> QED BY <2>1, <2>4, <3>3, JobTells
  <2> QED BY <2>2, <2>3, <2>4
<1>10. ASSUME NEW j \in jobs, Settle(j) PROVE FoundInv'
  <2>1. j \in Job /\ j.pc = "web" /\ UNCHANGED <<next, run, notify, lacking>>
    BY <1>10 DEF Settle, ResolverTypeOK
  <2>2. PICK K \in Evicted : cache' = [u \in DOMAIN cache \ K |-> cache[u]]
    BY <1>10 DEF Settle
  <2>3. \A u : /\ Cached(cache', u).text => Cached(cache, u).text
               /\ Cached(cache', u).cover => Cached(cache, u).cover
    BY <2>2 DEF Cached, Nothing
  <2> DEFINE k == [j EXCEPT !.pc = IF j.resolved THEN "notify" ELSE "drop",
                            !.art = {}, !.resolved = FALSE]
  <2>4. Tells(j) => Tells(k)
    BY <2>1 DEF Tells, Job
  <2>5. Becomes(j, k)
    BY <1>10 DEF Settle
  <2> HIDE DEF k
  <2>6. Told => Told'
    BY <2>1, <2>4, <2>5, StillTells
  <2> QED BY <2>1, <2>3, <2>6, JobTells
<1>11. ASSUME NEW j \in jobs, Notify(j) PROVE FoundInv'
  BY <1>11, JobTells DEF Notify, Told
<1>12. ASSUME NEW j \in jobs, Drop(j) PROVE FoundInv'
  <2>1. /\ j.pc = "drop" /\ jobs' = jobs \ {j}
        /\ UNCHANGED <<next, run, cache, notify, lacking>>
    BY <1>12 DEF Drop
  <2>2. Told => Told'
    BY <2>1 DEF Told, Tells
  <2> QED BY <2>1, <2>2, JobTells
<1>13. CASE QueueExpanded
  <2>1. lacking' = Waiting'
    BY <1>13 DEF QueueExpanded
  <2>2. ResolverTypeOK'
    BY ResolverTypeStep
  <2>3. next' \in Seq(Track) /\ ArtEnd' \in Nat /\ ArtEnd' <= Len(next')
    BY <2>2, ResolverAssumption DEF ResolverTypeOK, ArtEnd
  <2>4. \A i \in DOMAIN next' : next'[i].uri \in Uris
    <3>1. \A i \in DOMAIN next' : next'[i] \in Track
      BY <2>3
    <3> QED BY <3>1 DEF Track
  <2>5. ASSUME NEW i \in DOMAIN next', TextAt(i)' PROVE lacking'
    <3>1. PICK u \in Uris : u = next'[i].uri
      BY <2>4, <2>5
    <3>2. TextWaits(u)'
      BY <2>5, <3>1 DEF TextWaits, TextAt
    <3> QED BY <2>1, <3>1, <3>2 DEF Waiting
  <2>6. ASSUME NEW i \in 1..ArtEnd', CoverAt(i)' PROVE lacking'
    <3>1. i \in DOMAIN next'
      BY <2>3
    <3>2. PICK u \in Uris : u = next'[i].uri
      BY <2>4, <3>1
    <3>3. CoverWaits(u)'
      BY <2>6, <3>2 DEF CoverWaits, CoverAt
    <3> QED BY <2>1, <3>2, <3>3 DEF Waiting
  <2> QED BY <2>5, <2>6 DEF FoundInv, TextComes, CoverComes
<1>14. CASE UNCHANGED resolverVars
  BY <1>14 DEF resolverVars, FoundInv, TextComes, CoverComes, TextAt, CoverAt,
               HasCover, ArtEnd, Told
<1> QED
  BY <1>1, <1>2, <1>3, <1>4, <1>5, <1>6, <1>7, <1>8, <1>9, <1>10, <1>11, <1>12, <1>13,
     <1>14 DEF ResolverNext, RunStep, JobStep, PushArt, SignalArt

\* When Run is back in its select and an entry on show lacks what the cache
\* knows, Run's channel holds a signal or a job is on its way to send one: no
\* result of a job stays unseen for want of a wake-up.  Nobody is told of the
\* entries of a track list that replace the queue (lacking, queueExpandedCh).
THEOREM FoundIsShown ==
    ResolverSpec => [](run.pc = "select" /\ Waiting /\ ~lacking => Told)
<1>1. ResolverInit => FoundInv
  <2> SUFFICES ASSUME ResolverInit PROVE FoundInv
    OBVIOUS
  <2>1. next = <<>> /\ Len(next) = 0 /\ DOMAIN next = {}
    BY DEF ResolverInit
  <2>2. 1..ArtEnd = {}
    BY <2>1, ResolverAssumption DEF ArtEnd
  <2> QED BY <2>1, <2>2 DEF FoundInv, TextComes, CoverComes
<1>2. ResolverTypeOK /\ FoundInv => (run.pc = "select" /\ Waiting /\ ~lacking => Told)
  BY DEF FoundInv, TextComes, CoverComes, Waiting, TextWaits, CoverWaits, TextAt, CoverAt
<1> QED BY <1>1, <1>2, FoundStep, ResolverTyped, PTL DEF ResolverSpec

-----------------------------------------------------------------------------
(* Lists, previews and expansions.                                         *)

\* What PreviewHeads says of a queue q, with the preview p and the active track t.
Heads(p, t, q) ==
    LET ahead == Stripped(p, t)
    IN  \/ q = p
        \/ ahead # <<>> /\ Head(ahead) = t
        \/ Len(ahead) <= Len(q) /\ Prefix(q, Len(ahead)) = ahead

States == [ctx : Contexts \cup {Opaque}, track : Tracks, repeat : BOOLEAN, next : Queues]

\* The first n elements.
LEMMA PrefixFacts ==
    ASSUME NEW S, NEW s \in Seq(S), NEW n \in Nat
    PROVE  /\ Prefix(s, n) \in Seq(S)
           /\ Len(Prefix(s, n)) = Smaller(n, Len(s))
           /\ \A i \in 1 .. Smaller(n, Len(s)) : Prefix(s, n)[i] = s[i]
<1>1. Smaller(n, Len(s)) \in 0 .. Len(s)
  BY DEF Smaller
<1> QED BY <1>1, SubSeqProperties DEF Prefix

\* A preview without the active track before it.
LEMMA StrippedFacts ==
    ASSUME NEW q \in Seq(Tracks), NEW t
    PROVE  /\ Stripped(q, t) \in Seq(Tracks) /\ Len(Stripped(q, t)) <= Len(q)
           /\ Stripped(q, t) = q \/ (q # <<>> /\ Head(q) = t)
<1>1. CASE q # <<>> /\ Head(q) = t
  BY <1>1, HeadTailProperties DEF Stripped
<1>2. CASE ~(q # <<>> /\ Head(q) = t)
  BY <1>2 DEF Stripped
<1> QED BY <1>1, <1>2

\* The active track has a first place in a list it is in.
LEMMA PlaceFacts ==
    ASSUME NEW list \in Seq(Tracks), NEW track, \E i \in DOMAIN list : list[i] = track
    PROVE  Place(list, track) \in 1 .. Len(list)
<1> DEFINE At == {i \in 1 .. Len(list) : list[i] = track}
<1>1. At \in SUBSET Nat /\ At # {}
  OBVIOUS
<1>2. PICK m \in At : \A n \in At : m <= n
  <2> HIDE DEF At
  <2> QED BY <1>1, NatLeast
<1>3. \A k \in 1 .. m - 1 : list[k] # track
  <2> SUFFICES ASSUME NEW k \in 1 .. m - 1, list[k] = track PROVE FALSE
    OBVIOUS
  <2>1. k \in At /\ m \in Nat /\ ~(m <= k)
    BY <1>2
  <2> QED BY <1>2, <2>1
<1>4. m \in DOMAIN list /\ list[m] = track
  BY <1>2
<1>5. Place(list, track) \in DOMAIN list
  BY <1>3, <1>4 DEF Place
<1> QED BY <1>5

LEMMA UpcomingType ==
    ASSUME NEW list \in Seq(Tracks), NEW track, NEW repeat,
           \E i \in DOMAIN list : list[i] = track
    PROVE  Upcoming(list, track, repeat) \in Seq(Tracks)
<1>1. Place(list, track) \in 1 .. Len(list)
  BY PlaceFacts
<1> DEFINE i == Place(list, track)
<1> HIDE DEF i
<1>2. SubSeq(list, i + 1, Len(list)) \in Seq(Tracks)
  <2>1. \A k \in i + 1 .. Len(list) : list[k] \in Tracks
    BY <1>1 DEF i
  <2> QED BY <1>1, <2>1, SubSeqProperties DEF i
<1>3. SubSeq(list, 1, i) \in Seq(Tracks)
  BY <1>1, SubSeqProperties DEF i
<1>4. SubSeq(list, i + 1, Len(list)) \o SubSeq(list, 1, i) \in Seq(Tracks)
  BY <1>2, <1>3, ConcatProperties
<1>5. SubSeq(list, i + 1, Len(list)) \o <<>> \in Seq(Tracks)
  <2>1. <<>> \in Seq(Tracks)
    OBVIOUS
  <2> QED BY <1>2, <2>1, ConcatProperties
<1> QED BY <1>4, <1>5 DEF Upcoming, i

\* A queue that the list gives begins with what it was compared with.
LEMMA ExpansionFacts ==
    ASSUME NEW list \in Seq(Tracks), NEW track, NEW repeat, NEW queue \in Queues
    PROVE  LET new == computeQueueExpansion(list, track, repeat, queue)
               compared == Stripped(queue, track)
           IN  \/ new = NoQueue
               \/ /\ new \in Queues /\ Len(compared) <= Len(new)
                  /\ \A i \in 1 .. Len(compared) : new[i] = compared[i]
<1> DEFINE compared == Stripped(queue, track)
           upcoming == Upcoming(list, track, repeat)
           new == computeQueueExpansion(list, track, repeat, queue)
<1> SUFFICES ASSUME \E i \in DOMAIN list : list[i] = track, Agrees(compared, upcoming)
             PROVE  /\ new \in Queues /\ Len(compared) <= Len(new)
                    /\ \A i \in 1 .. Len(compared) : new[i] = compared[i]
  BY DEF computeQueueExpansion
<1>1. upcoming \in Seq(Tracks)
  BY UpcomingType
<1>2. compared \in Seq(Tracks) /\ Len(compared) <= QueueLimit /\ QueueLimit \in Nat
  BY StrippedFacts, ExpandAssumption DEF Queues
<1>3. new = Prefix(upcoming, QueueLimit)
  BY DEF computeQueueExpansion
<1>4. Len(compared) <= Len(upcoming) /\ \A i \in 1 .. Len(compared) : compared[i] = upcoming[i]
  BY <1>2 DEF Agrees
<1> HIDE DEF compared, upcoming, new
<1>5. /\ new \in Seq(Tracks) /\ Len(new) = Smaller(QueueLimit, Len(upcoming))
      /\ \A i \in 1 .. Smaller(QueueLimit, Len(upcoming)) : new[i] = upcoming[i]
  BY <1>1, <1>2, <1>3, PrefixFacts
<1>6. Len(upcoming) \in Nat /\ Len(compared) \in Nat
  BY <1>1, <1>2
<1>7. Len(new) <= QueueLimit /\ Len(compared) <= Len(new)
  BY <1>2, <1>4, <1>5, <1>6 DEF Smaller
<1>8. \A i \in 1 .. Len(compared) : new[i] = compared[i]
  BY <1>2, <1>4, <1>5, <1>6, <1>7
<1> QED BY <1>5, <1>7, <1>8 DEF Queues

\* Of a state, with the cache.
LEMMA ExpandedFacts ==
    ASSUME ExpandTypeOK, NEW state \in States, Hits(state.ctx) # {}
    PROVE  LET compared == Stripped(state.next, state.track)
               new == ExpandedQueue(state)
           IN  \/ new = state.next
               \/ /\ new \in Queues /\ Len(compared) <= Len(new)
                  /\ \A i \in 1 .. Len(compared) : new[i] = compared[i]
<1> DEFINE k == CHOOSE k \in Hits(state.ctx) : TRUE
<1>1. k \in DOMAIN listCache
  BY DEF Hits
<1>2. listCache[k].list \in Seq(Tracks)
  <2> HIDE DEF k
  <2>1. listCache[k] \in Fetched
    BY <1>1, ElementOfSeq DEF ExpandTypeOK
  <2> QED BY <2>1, ExpandAssumption DEF Fetched
<1>3. state.next \in Queues
  BY DEF States
<1> HIDE DEF k
<1>4. ExpandedQueue(state) =
         LET queue == computeQueueExpansion(listCache[k].list, state.track,
                                            state.repeat, state.next)
         IN  IF queue = NoQueue THEN state.next ELSE queue
  BY DEF ExpandedQueue, k
<1> QED BY <1>2, <1>3, <1>4, ExpansionFacts

\* An expansion keeps the preview at the head.
LEMMA ExpandHeads ==
    ASSUME ExpandTypeOK, NEW state \in States, Hits(state.ctx) # {}, NEW p \in Queues,
           Heads(p, state.track, state.next)
    PROVE  Heads(p, state.track, ExpandedQueue(state))
<1> DEFINE t == state.track
           q == state.next
           new == ExpandedQueue(state)
           ahead == Stripped(p, t)
           compared == Stripped(q, t)
<1>1. q \in Seq(Tracks) /\ p \in Seq(Tracks)
  BY DEF States, Queues
<1>2. /\ ahead \in Seq(Tracks) /\ compared \in Seq(Tracks)
      /\ compared = q \/ (q # <<>> /\ Head(q) = t)
  BY <1>1, StrippedFacts
<1>3. CASE new = q
  BY <1>3
<1>4. CASE ahead # <<>> /\ Head(ahead) = t
  BY <1>4 DEF Heads
<1>5. CASE /\ ~(ahead # <<>> /\ Head(ahead) = t)
           /\ new \in Queues /\ Len(compared) <= Len(new)
           /\ \A i \in 1 .. Len(compared) : new[i] = compared[i]
  <2>1. new \in Seq(Tracks)
    BY <1>5 DEF Queues
  <2>2. ASSUME Len(ahead) <= Len(new), \A i \in 1 .. Len(ahead) : new[i] = ahead[i]
        PROVE  Heads(p, t, new)
    <3> HIDE DEF new, ahead
    <3>1. Prefix(new, Len(ahead)) = ahead
      <4>1. Len(ahead) \in Nat /\ Len(new) \in Nat
        BY <1>2, <2>1
      <4>2. Smaller(Len(ahead), Len(new)) = Len(ahead)
        BY <2>2, <4>1 DEF Smaller
      <4>3. /\ Prefix(new, Len(ahead)) \in Seq(Tracks)
            /\ Len(Prefix(new, Len(ahead))) = Len(ahead)
            /\ \A i \in 1 .. Len(ahead) : Prefix(new, Len(ahead))[i] = ahead[i]
        BY <2>1, <2>2, <4>1, <4>2, PrefixFacts
      <4> QED BY <1>2, <4>3, SeqEqual
    <3> QED BY <2>2, <3>1 DEF Heads, ahead
  <2>3. CASE q = p
    BY <1>5, <2>2, <2>3
  <2>4. CASE Len(ahead) <= Len(q) /\ Prefix(q, Len(ahead)) = ahead
    <3> HIDE DEF new, ahead, compared, q
    <3>1. Len(ahead) \in Nat /\ Len(q) \in Nat
      BY <1>1, <1>2 DEF q
    <3>2. \A i \in 1 .. Len(ahead) : ahead[i] = q[i]
      <4>1. Smaller(Len(ahead), Len(q)) = Len(ahead)
        BY <2>4, <3>1 DEF Smaller
      <4>2. q \in Seq(Tracks)
        BY <1>1 DEF q
      <4>3. \A i \in 1 .. Len(ahead) : Prefix(q, Len(ahead))[i] = q[i]
        BY <3>1, <4>1, <4>2, PrefixFacts
      <4> QED BY <2>4, <4>3
    <3>3. CASE compared = q
      <4>1. Len(new) \in Nat /\ Len(q) <= Len(new) /\ \A i \in 1 .. Len(q) : new[i] = q[i]
        BY <1>5, <2>1, <3>3
      <4>2. Len(ahead) <= Len(q)
        BY <2>4
      <4>3. Len(ahead) <= Len(new)
        BY <3>1, <4>1, <4>2
      <4>4. \A i \in 1 .. Len(ahead) : new[i] = ahead[i]
        BY <3>1, <3>2, <4>1, <4>2
      <4> QED BY <2>2, <4>3, <4>4 DEF new
    <3>4. CASE q # <<>> /\ Head(q) = t
      <4>1. ahead = <<>>
        BY <1>1, <1>2, <1>5, <2>4, <3>1, <3>2, <3>4 DEF q
      <4>2. Len(ahead) = 0 /\ Len(new) \in Nat
        BY <2>1, <4>1
      <4>3. Len(ahead) <= Len(new) /\ \A i \in 1 .. Len(ahead) : new[i] = ahead[i]
        BY <4>2
      <4> QED BY <2>2, <4>3 DEF new
    <3> QED BY <1>2, <3>3, <3>4
  <2> QED BY <1>5, <2>3, <2>4 DEF Heads
<1> QED BY <1>3, <1>4, <1>5, ExpandedFacts

-----------------------------------------------------------------------------
(* Types and PreviewHeads of QueueExpand.                                  *)

LEMMA NoStateType == NoState \in States /\ NoState.ctx = Opaque /\ NoState.next = <<>>
<1>1. (CHOOSE t \in Tracks : TRUE) \in Tracks
  BY ExpandAssumption
<1>2. <<>> \in Queues
  <2>1. <<>> \in Seq(Tracks)
    OBVIOUS
  <2>2. Len(<<>>) = 0 /\ 0 <= QueueLimit
    BY ExpandAssumption
  <2> QED BY <2>1, <2>2 DEF Queues
<1> QED BY <1>1, <1>2 DEF NoState, States

LEMMA FetcherTypes ==
    /\ Idle \in FetcherAt
    /\ \A lib \in BOOLEAN : [pc |-> "fetch", lib |-> lib] \in FetcherAt
    /\ \A pc \in {"send", "cleanup"} : [pc |-> pc, lib |-> FALSE] \in FetcherAt
    /\ [pc |-> "idle", lib |-> FALSE] \in FetcherAt
    /\ \A f \in FetcherAt : f.lib \in BOOLEAN
<1>1. \A f \in FetcherAt : f.lib \in BOOLEAN
  <2> SUFFICES ASSUME NEW f \in FetcherAt PROVE f.lib \in BOOLEAN
    OBVIOUS
  <2>1. CASE f = Idle
    BY <2>1 DEF Idle
  <2>2. CASE f \in [pc : {"fetch"}, lib : BOOLEAN]
    BY <2>2
  <2>3. CASE f \in [pc : {"send", "cleanup"}, lib : {FALSE}]
    BY <2>3
  <2> QED BY <2>1, <2>2, <2>3 DEF FetcherAt
<1>2. \A lib \in BOOLEAN : [pc |-> "fetch", lib |-> lib] \in [pc : {"fetch"}, lib : BOOLEAN]
  OBVIOUS
<1>3. \A pc \in {"send", "cleanup"} :
        [pc |-> pc, lib |-> FALSE] \in [pc : {"send", "cleanup"}, lib : {FALSE}]
  OBVIOUS
<1>4. Idle \in FetcherAt /\ [pc |-> "idle", lib |-> FALSE] \in FetcherAt
  BY DEF FetcherAt, Idle
<1>5. \A lib \in BOOLEAN : [pc |-> "fetch", lib |-> lib] \in FetcherAt
  BY <1>2 DEF FetcherAt
<1>6. \A pc \in {"send", "cleanup"} : [pc |-> pc, lib |-> FALSE] \in FetcherAt
  BY <1>3 DEF FetcherAt
<1> QED BY <1>1, <1>4, <1>5, <1>6

\* What expandQueue makes of a state.
LEMMA ExpandQueueType ==
    ASSUME ExpandTypeOK, NEW state \in States, expandQueue(state)
    PROVE  rs' \in States /\ fetchers' \in [Contexts -> FetcherAt]
<1>1. fetchers \in [Contexts -> FetcherAt]
  BY DEF ExpandTypeOK
<1>2. CASE state.ctx # Opaque /\ Hits(state.ctx) # {}
  <2>1. ExpandedQueue(state) \in Queues
    <3>1. state.next \in Queues
      BY DEF States
    <3> QED BY <1>2, <3>1, ExpandedFacts
  <2>2. [state EXCEPT !.next = ExpandedQueue(state)] \in States
    BY <2>1 DEF States
  <2>3. rs' = [state EXCEPT !.next = ExpandedQueue(state)] /\ UNCHANGED fetchers
    BY <1>2 DEF expandQueue
  <2> QED BY <1>1, <2>2, <2>3
<1>3. CASE ~(state.ctx # Opaque /\ Hits(state.ctx) # {})
  <2> DEFINE f == [pc |-> "fetch", lib |-> Library(state.ctx)]
  <2>1. f \in FetcherAt
    <3>1. Library(state.ctx) \in BOOLEAN
      BY DEF Library
    <3> QED BY <3>1, FetcherTypes
  <2>2. /\ rs' = state
        /\ fetchers' = [fetchers EXCEPT ![state.ctx] = f] \/ UNCHANGED fetchers
    BY <1>3 DEF expandQueue
  <2> HIDE DEF f
  <2> QED BY <1>1, <2>1, <2>2
<1> QED BY <1>2, <1>3

LEMMA ExpandQueueHeads ==
    ASSUME ExpandTypeOK, NEW state \in States, expandQueue(state), NEW p \in Queues,
           Heads(p, state.track, state.next)
    PROVE  Heads(p, rs'.track, rs'.next)
<1>1. CASE state.ctx # Opaque /\ Hits(state.ctx) # {}
  <2>1. Heads(p, state.track, ExpandedQueue(state))
    BY <1>1, ExpandHeads
  <2>2. rs' = [state EXCEPT !.next = ExpandedQueue(state)]
    BY <1>1 DEF expandQueue
  <2>3. rs'.track = state.track /\ rs'.next = ExpandedQueue(state)
    BY <2>2 DEF States
  <2> QED BY <2>1, <2>3
<1>2. CASE ~(state.ctx # Opaque /\ Hits(state.ctx) # {})
  BY <1>2 DEF expandQueue
<1> QED BY <1>1, <1>2

\* Pruning leaves entries, at most as many as the bound.
LEMMA PrunedType ==
    ASSUME NEW entries \in Seq(Fetched)
    PROVE  Pruned(entries) \in Seq(Fetched) /\ Len(Pruned(entries)) <= ExpandCacheMax
<1> DEFINE fresh == Filter(entries, Fresh)
           over == Len(fresh) - ExpandCacheMax
<1>1. fresh \in Seq(Fetched)
  <2>1. Fetched \cap Fresh \subseteq Fetched
    OBVIOUS
  <2>2. fresh \in Seq(Fetched \cap Fresh)
    BY FilterType
  <2> HIDE DEF fresh
  <2> QED BY <2>1, <2>2, SeqMonotonic
<1>2. ExpandCacheMax \in Nat \ {0}
  BY ExpandAssumption
<1>3. CASE Len(entries) <= ExpandCacheMax
  BY <1>3 DEF Pruned
<1>4. CASE ~(Len(entries) <= ExpandCacheMax)
  <2>1. Pruned(entries) = IF over > 0 THEN SubSeq(fresh, over + 1, Len(fresh)) ELSE fresh
    BY <1>4 DEF Pruned
  <2> HIDE DEF fresh
  <2>2. Len(fresh) \in Nat
    BY <1>1
  <2>3. CASE over > 0
    <3>1. \A k \in over + 1 .. Len(fresh) : fresh[k] \in Fetched
      BY <1>1, <1>2, <2>2, <2>3
    <3>2. /\ SubSeq(fresh, over + 1, Len(fresh)) \in Seq(Fetched)
          /\ Len(SubSeq(fresh, over + 1, Len(fresh))) = ExpandCacheMax
      BY <1>1, <1>2, <2>2, <2>3, <3>1, SubSeqProperties
    <3> QED BY <1>2, <2>1, <2>3, <3>2
  <2>4. CASE ~(over > 0)
    BY <1>1, <1>2, <2>1, <2>2, <2>4
  <2> QED BY <2>3, <2>4
<1> QED BY <1>3, <1>4

LEMMA ExpandTypeStep ==
    ASSUME ExpandTypeOK, [ExpandNext]_expandVars
    PROVE  ExpandTypeOK'
<1>1. /\ rs \in States /\ preview \in Queues /\ shown \in Queues
      /\ liked \in BOOLEAN /\ expanded \in BOOLEAN
      /\ listCache \in Seq(Fetched) /\ Len(listCache) <= ExpandCacheMax
      /\ fetchers \in [Contexts -> FetcherAt]
  BY DEF ExpandTypeOK, States
<1>2. ASSUME /\ rs' \in States /\ preview' \in Queues /\ liked' \in BOOLEAN
             /\ shown' \in {shown, rs.next, rs'.next} /\ expanded' \in BOOLEAN
             /\ listCache' \in Seq(Fetched) /\ Len(listCache') <= ExpandCacheMax
             /\ fetchers' \in [Contexts -> FetcherAt]
      PROVE  ExpandTypeOK'
  <2>1. shown' \in Queues
    <3>1. rs.next \in Queues /\ rs'.next \in Queues
      BY <1>1, <1>2 DEF States
    <3> QED BY <1>1, <1>2, <3>1
  <2> QED BY <1>2, <2>1 DEF ExpandTypeOK, States
<1>3. CASE ClusterPush
  <2>1. PICK ctx \in Contexts, track \in Tracks, repeat \in BOOLEAN :
          \E queue \in Previews :
            /\ preview' = queue
            /\ expandQueue([ctx |-> ctx, track |-> track, repeat |-> repeat, next |-> queue])
    BY <1>3 DEF ClusterPush
  <2>2. PICK queue \in Previews :
            /\ preview' = queue
            /\ expandQueue([ctx |-> ctx, track |-> track, repeat |-> repeat, next |-> queue])
    BY <2>1
  <2>3. queue \in Queues
    BY ExpandAssumption
  <2>4. [ctx |-> ctx, track |-> track, repeat |-> repeat, next |-> queue] \in States
    BY <2>3 DEF States
  <2>5. UNCHANGED <<liked, listCache, expanded>> /\ shown' = rs'.next
    BY <1>3 DEF ClusterPush, Emit
  <2> QED BY <1>1, <1>2, <2>2, <2>3, <2>4, <2>5, ExpandQueueType
<1>4. CASE OpaquePush
  <2>1. <<>> \in Queues
    BY NoStateType DEF States
  <2>2. /\ preview' = <<>> /\ expandQueue(NoState) /\ UNCHANGED <<liked, listCache, expanded>>
        /\ shown' = rs'.next
    BY <1>4 DEF OpaquePush, Emit
  <2> QED BY <1>1, <1>2, <2>1, <2>2, NoStateType, ExpandQueueType
<1>5. CASE ResultLands
  <2>1. shown' \in {shown, rs'.next}
    BY <1>5 DEF ResultLands, EmitIfResized, Emit
  <2> QED BY <1>1, <1>2, <1>5, <2>1, ExpandQueueType DEF ResultLands
<1>6. CASE PlaySent \/ Reemit
  BY <1>1, <1>2, <1>6 DEF PlaySent, Reemit
<1>7. CASE Expire
  <2>1. PICK k \in DOMAIN listCache : listCache' = [listCache EXCEPT ![k].fresh = FALSE]
    BY <1>7 DEF Expire
  <2> DEFINE e == [listCache[k] EXCEPT !.fresh = FALSE]
  <2>2. e \in Fetched
    <3>1. listCache[k] \in Fetched
      BY <1>1, ElementOfSeq
    <3> QED BY <3>1 DEF Fetched
  <2>3. listCache' = [listCache EXCEPT ![k] = e]
    BY <2>1
  <2> HIDE DEF e
  <2>4. listCache' \in Seq(Fetched) /\ Len(listCache') = Len(listCache)
    BY <1>1, <2>2, <2>3, ExceptSeq
  <2> QED BY <1>1, <1>2, <1>7, <2>4 DEF Expire
<1>8. ASSUME NEW ctx \in Contexts, FetchStep(ctx) PROVE ExpandTypeOK'
  <2>1. ASSUME NEW pc \in {"send", "cleanup", "idle"}, FetcherTo(ctx, pc)
        PROVE  fetchers' \in [Contexts -> FetcherAt]
    <3>1. [pc |-> pc, lib |-> FALSE] \in FetcherAt
      BY FetcherTypes
    <3> QED BY <1>1, <2>1, <3>1 DEF FetcherTo
  <2>2. CASE FetchFails(ctx)
    BY <1>1, <1>2, <2>1, <2>2 DEF FetchFails
  <2>3. CASE FetchStores(ctx)
    <3>1. PICK list \in Lists :
            listCache' = Pruned(Append(Filter(listCache, OfOthers(ctx)),
                [ctx |-> ctx, list |-> list, lib |-> fetchers[ctx].lib, fresh |-> TRUE]))
      BY <2>3 DEF FetchStores
    <3> DEFINE e == [ctx |-> ctx, list |-> list, lib |-> fetchers[ctx].lib, fresh |-> TRUE]
    <3>2. e \in Fetched
      <4>1. fetchers[ctx].lib \in BOOLEAN
        BY <1>1, FetcherTypes
      <4> QED BY <4>1 DEF Fetched
    <3>3. Filter(listCache, OfOthers(ctx)) \in Seq(Fetched)
      <4>1. Fetched \cap OfOthers(ctx) \subseteq Fetched
        OBVIOUS
      <4>2. Filter(listCache, OfOthers(ctx)) \in Seq(Fetched \cap OfOthers(ctx))
        BY <1>1, FilterType
      <4> QED BY <4>1, <4>2, SeqMonotonic
    <3> HIDE DEF e
    <3>4. Append(Filter(listCache, OfOthers(ctx)), e) \in Seq(Fetched)
      BY <3>2, <3>3, AppendProperties
    <3>5. listCache' \in Seq(Fetched) /\ Len(listCache') <= ExpandCacheMax
      BY <3>1, <3>4, PrunedType DEF e
    <3> QED BY <1>1, <1>2, <2>1, <2>3, <3>5 DEF FetchStores
  <2>4. CASE FetchSends(ctx)
    BY <1>1, <1>2, <2>1, <2>4 DEF FetchSends
  <2>5. CASE FetchEnds(ctx)
    BY <1>1, <1>2, <2>1, <2>5 DEF FetchEnds
  <2> QED BY <1>8, <2>2, <2>3, <2>4, <2>5 DEF FetchStep
<1>9. CASE UNCHANGED expandVars
  BY <1>1, <1>2, <1>9 DEF expandVars
<1> QED BY <1>3, <1>4, <1>5, <1>6, <1>7, <1>8, <1>9 DEF ExpandNext

LEMMA ExpandInitTypes == ExpandInit => ExpandTypeOK /\ PreviewHeads
<1> SUFFICES ASSUME ExpandInit PROVE ExpandTypeOK /\ PreviewHeads
  OBVIOUS
<1>1. rs = NoState /\ rs \in States /\ preview = <<>> /\ <<>> \in Queues
  BY NoStateType DEF ExpandInit, States
<1>2. listCache \in Seq(Fetched) /\ Len(listCache) = 0
  BY DEF ExpandInit
<1>3. Len(listCache) <= ExpandCacheMax
  BY <1>2, ExpandAssumption
<1>4. fetchers \in [Contexts -> FetcherAt]
  BY FetcherTypes DEF ExpandInit
<1>5. ExpandTypeOK
  BY <1>1, <1>2, <1>3, <1>4 DEF ExpandInit, ExpandTypeOK, States
<1>6. PreviewHeads
  BY <1>1, NoStateType DEF PreviewHeads
<1> QED BY <1>5, <1>6

\* The queue expansion keeps its types, and its cache under its bound, in every
\* reachable state.
THEOREM ExpandTyped == ExpandSpec => []ExpandTypeOK
BY ExpandInitTypes, ExpandTypeStep, PTL DEF ExpandSpec

LEMMA PreviewStep ==
    ASSUME ExpandTypeOK, PreviewHeads, [ExpandNext]_expandVars
    PROVE  PreviewHeads'
<1>1. rs \in States /\ preview \in Queues /\ Heads(preview, rs.track, rs.next)
  BY DEF ExpandTypeOK, States, PreviewHeads, Heads
<1>2. ASSUME Heads(preview', rs'.track, rs'.next) PROVE PreviewHeads'
  BY <1>2 DEF PreviewHeads, Heads
<1>3. CASE ClusterPush
  <2>1. PICK ctx \in Contexts, track \in Tracks, repeat \in BOOLEAN :
          \E queue \in Previews :
            /\ preview' = queue
            /\ expandQueue([ctx |-> ctx, track |-> track, repeat |-> repeat, next |-> queue])
    BY <1>3 DEF ClusterPush
  <2>2. PICK queue \in Previews :
            /\ preview' = queue
            /\ expandQueue([ctx |-> ctx, track |-> track, repeat |-> repeat, next |-> queue])
    BY <2>1
  <2> DEFINE state == [ctx |-> ctx, track |-> track, repeat |-> repeat, next |-> queue]
  <2>3. queue \in Queues
    BY ExpandAssumption
  <2>4. state \in States /\ state.next = queue
    BY <2>3 DEF States
  <2> HIDE DEF state
  <2>5. Heads(queue, state.track, state.next)
    BY <2>4 DEF Heads
  <2>6. expandQueue(state)
    BY <2>2 DEF state
  <2>7. Heads(queue, rs'.track, rs'.next)
    BY <2>3, <2>4, <2>5, <2>6, ExpandQueueHeads
  <2> QED BY <1>2, <2>2, <2>7
<1>4. CASE OpaquePush
  <2>1. rs' = NoState /\ preview' = <<>>
    BY <1>4, NoStateType DEF OpaquePush, expandQueue
  <2> QED BY <1>2, <2>1, NoStateType DEF Heads
<1>5. CASE ResultLands
  BY <1>1, <1>2, <1>5, ExpandQueueHeads DEF ResultLands
<1>6. CASE UNCHANGED <<rs, preview>>
  BY <1>1, <1>2, <1>6
<1>7. CASE PlaySent \/ Reemit
  BY <1>6, <1>7 DEF PlaySent, Reemit
<1>8. CASE Expire
  BY <1>6, <1>8 DEF Expire
<1>9. ASSUME NEW ctx \in Contexts, FetchStep(ctx) PROVE PreviewHeads'
  BY <1>6, <1>9 DEF FetchStep, FetchFails, FetchStores, FetchSends, FetchEnds
<1>10. CASE UNCHANGED expandVars
  BY <1>6, <1>10 DEF expandVars
<1> QED BY <1>3, <1>4, <1>5, <1>7, <1>8, <1>9, <1>10 DEF ExpandNext

\* A queue that is expanded again and again still begins with the preview of the
\* last push.
THEOREM PreviewStays == ExpandSpec => []PreviewHeads
BY ExpandInitTypes, PreviewStep, ExpandTyped, PTL DEF ExpandSpec

-----------------------------------------------------------------------------
(* ShownButEcho of QueueExpand.                                            *)

\* What it says of the queue s on show and the queue q that Run holds, with the
\* active track t.
ButEcho(s, t, q) ==
    /\ Len(s) = Len(q)
    /\ \E n \in 0..Len(s) :
          /\ \A i \in 1..n : s[i] = t
          /\ \A i \in n + 1..Len(s) : s[i] = q[i - n]

LEMMA NoEcho == ASSUME NEW q \in Seq(Tracks), NEW t PROVE ButEcho(q, t, q)
<1>1. 0 \in 0..Len(q)
  OBVIOUS
<1>2. \A i \in 1..0 : q[i] = t
  OBVIOUS
<1>3. \A i \in 0 + 1..Len(q) : q[i] = q[i - 0]
  OBVIOUS
<1> QED BY <1>1, <1>2, <1>3 DEF ButEcho

\* An expansion of the same length loses at most one more echo.
LEMMA EchoStep ==
    ASSUME NEW s \in Seq(Tracks), NEW q \in Seq(Tracks), NEW new \in Seq(Tracks), NEW t,
           ButEcho(s, t, q), Len(new) = Len(q),
           Len(Stripped(q, t)) <= Len(new),
           \A i \in 1 .. Len(Stripped(q, t)) : new[i] = Stripped(q, t)[i]
    PROVE  ButEcho(s, t, new)
<1>1. PICK n \in 0..Len(s) : /\ \A i \in 1..n : s[i] = t
                            /\ \A i \in n + 1..Len(s) : s[i] = q[i - n]
  BY DEF ButEcho
<1>2. Len(s) = Len(q) /\ Len(s) = Len(new) /\ Len(s) \in Nat /\ n \in Nat
  BY DEF ButEcho
<1>3. CASE ~(q # <<>> /\ Head(q) = t)
  <2>1. \A i \in 1 .. Len(q) : new[i] = q[i]
    BY <1>3 DEF Stripped
  <2>2. \A i \in n + 1..Len(s) : i - n \in 1 .. Len(q)
    BY <1>2
  <2>3. \A i \in n + 1..Len(s) : s[i] = new[i - n]
    BY <1>1, <2>1, <2>2
  <2> QED BY <1>1, <1>2, <2>3 DEF ButEcho
<1>4. CASE q # <<>> /\ Head(q) = t
  <2>1. Stripped(q, t) = Tail(q)
    BY <1>4 DEF Stripped
  <2>2. /\ Len(Tail(q)) = Len(q) - 1 /\ q[1] = t
        /\ \A i \in 1 .. Len(q) - 1 : Tail(q)[i] = q[i + 1]
    BY <1>4, HeadTailProperties
  <2>3. \A i \in 1 .. Len(q) - 1 : new[i] = q[i + 1]
    BY <2>1, <2>2
  <2>4. CASE n = Len(s)
    <3>1. \A i \in n + 1..Len(s) : s[i] = new[i - n]
      BY <1>2, <2>4
    <3> QED BY <1>1, <1>2, <3>1 DEF ButEcho
  <2>5. CASE n # Len(s)
    <3>1. n + 1 \in 0..Len(s) /\ n + 1 \in n + 1..Len(s) /\ (n + 1) - n = 1
      BY <1>2, <2>5
    <3>2. s[n + 1] = t
      BY <1>1, <2>2, <3>1
    <3>3. \A i \in 1..n + 1 : s[i] = t
      <4>1. \A i \in 1..n + 1 : i \in 1..n \/ i = n + 1
        BY <1>2
      <4> QED BY <1>1, <3>2, <4>1
    <3>4. ASSUME NEW i \in (n + 1) + 1..Len(s) PROVE s[i] = new[i - (n + 1)]
      <4>1. /\ i \in n + 1..Len(s) /\ i - (n + 1) \in 1 .. Len(q) - 1
            /\ (i - (n + 1)) + 1 = i - n
        BY <1>2
      <4> QED BY <1>1, <2>3, <4>1
    <3> QED BY <1>2, <3>1, <3>3, <3>4 DEF ButEcho
  <2> QED BY <2>4, <2>5
<1> QED BY <1>3, <1>4

LEMMA ShownStep ==
    ASSUME ExpandTypeOK, ShownButEcho, [ExpandNext]_expandVars
    PROVE  ShownButEcho'
<1>1. /\ rs \in States /\ ButEcho(shown, rs.track, rs.next)
      /\ shown \in Seq(Tracks) /\ rs.next \in Seq(Tracks)
  BY DEF ExpandTypeOK, States, Queues, ShownButEcho, ButEcho
<1>2. ASSUME ButEcho(shown', rs'.track, rs'.next) PROVE ShownButEcho'
  BY <1>2 DEF ShownButEcho, ButEcho
<1>3. rs'.next \in Seq(Tracks)
  BY ExpandTypeStep DEF ExpandTypeOK, Queues
<1>4. CASE shown' = rs'.next
  BY <1>2, <1>3, <1>4, NoEcho
<1>5. CASE UNCHANGED <<rs, shown>>
  BY <1>1, <1>2, <1>5
<1>6. CASE ResultLands
  <2>1. CASE Len(rs'.next) # Len(rs.next)
    BY <1>4, <1>6, <2>1 DEF ResultLands, EmitIfResized, Emit
  <2>2. CASE Len(rs'.next) = Len(rs.next)
    <3>1. UNCHANGED shown /\ expandQueue(rs)
      BY <1>6, <2>2 DEF ResultLands, EmitIfResized
    <3>2. CASE rs.ctx # Opaque /\ Hits(rs.ctx) # {}
      <4>1. rs' = [rs EXCEPT !.next = ExpandedQueue(rs)]
        BY <3>1, <3>2 DEF expandQueue
      <4>2. rs'.track = rs.track /\ rs'.next = ExpandedQueue(rs)
        BY <1>1, <4>1 DEF States
      <4>3. CASE ExpandedQueue(rs) = rs.next
        BY <1>1, <1>2, <3>1, <4>2, <4>3
      <4>4. CASE LET compared == Stripped(rs.next, rs.track)
                     new == ExpandedQueue(rs)
                 IN  /\ new \in Queues /\ Len(compared) <= Len(new)
                     /\ \A i \in 1 .. Len(compared) : new[i] = compared[i]
        <5>1. ButEcho(shown, rs.track, ExpandedQueue(rs))
          BY <1>1, <1>3, <2>2, <4>2, <4>4, EchoStep
        <5> QED BY <1>2, <3>1, <4>2, <5>1
      <4> QED BY <1>1, <3>2, <4>3, <4>4, ExpandedFacts
    <3>3. CASE ~(rs.ctx # Opaque /\ Hits(rs.ctx) # {})
      BY <1>5, <3>1, <3>3 DEF expandQueue
    <3> QED BY <3>2, <3>3
  <2> QED BY <2>1, <2>2
<1>7. CASE ClusterPush \/ OpaquePush
  BY <1>4, <1>7 DEF ClusterPush, OpaquePush, Emit
<1>8. CASE Reemit
  BY <1>4, <1>8 DEF Reemit
<1>9. CASE PlaySent \/ Expire
  BY <1>5, <1>9 DEF PlaySent, Expire
<1>10. ASSUME NEW ctx \in Contexts, FetchStep(ctx) PROVE ShownButEcho'
  BY <1>5, <1>10 DEF FetchStep, FetchFails, FetchStores, FetchSends, FetchEnds
<1>11. CASE UNCHANGED expandVars
  BY <1>5, <1>11 DEF expandVars
<1> QED BY <1>6, <1>7, <1>8, <1>9, <1>10, <1>11 DEF ExpandNext

\* What is on show is the queue that Run holds, but for echoes of the active track
\* before it, although an expansion of the same length is not emitted.
THEOREM ShownStays == ExpandSpec => []ShownButEcho
<1>1. ExpandInit => ShownButEcho
  <2> SUFFICES ASSUME ExpandInit PROVE ShownButEcho
    OBVIOUS
  <2>1. shown = <<>> /\ rs.next = <<>>
    BY NoStateType DEF ExpandInit
  <2>2. <<>> \in Seq(Tracks)
    OBVIOUS
  <2>3. ButEcho(shown, rs.track, rs.next)
    BY <2>1, <2>2, NoEcho
  <2> QED BY <2>3 DEF ShownButEcho, ButEcho
<1> QED BY <1>1, ShownStep, ExpandTyped, PTL DEF ExpandSpec

-----------------------------------------------------------------------------
(* The cache of lists is a map in the code and a sequence here.            *)

OneEach(c) == \A i, j \in DOMAIN c : c[i].ctx = c[j].ctx => i = j
OneHit == \A ctx \in Contexts : \A k, m \in Hits(ctx) : k = m

LEMMA FilterOneEach ==
    ASSUME NEW c \in Seq(Fetched), OneEach(c), NEW T
    PROVE  OneEach(Filter(c, T))
<1> DEFINE r == Filter(c, T)
<1>1. r \in Seq(Fetched \cap T)
  BY FilterType
<1>2. \A x, y \in 1 .. Len(r) :
         x < y => \E m, k \in 1 .. Len(c) : m < k /\ r[x] = c[m] /\ r[y] = c[k]
  <2>1. Picks(r, c, T, Len(c))
    BY FilterPicks
  <2> HIDE DEF r
  <2> QED BY <2>1 DEF Picks
<1> HIDE DEF r
<1>3. ASSUME NEW m \in 1 .. Len(c), NEW k \in 1 .. Len(c), m < k
      PROVE  c[m].ctx # c[k].ctx
  BY <1>3 DEF OneEach
<1>4. ASSUME NEW x \in 1 .. Len(r), NEW y \in 1 .. Len(r), x < y
      PROVE  r[x].ctx # r[y].ctx
  BY <1>2, <1>3, <1>4
<1>5. \A x, y \in 1 .. Len(r) : x < y \/ y < x \/ x = y
  OBVIOUS
<1>6. OneEach(r)
  <2> SUFFICES ASSUME NEW x \in DOMAIN r, NEW y \in DOMAIN r, r[x].ctx = r[y].ctx
               PROVE  x = y
    BY DEF OneEach
  <2>1. x \in 1 .. Len(r) /\ y \in 1 .. Len(r)
    BY <1>1
  <2> QED BY <1>4, <1>5, <2>1
<1> QED BY <1>6 DEF r

LEMMA PrunedOneEach ==
    ASSUME NEW c \in Seq(Fetched), OneEach(c)
    PROVE  OneEach(Pruned(c))
<1> DEFINE fresh == Filter(c, Fresh)
           over == Len(fresh) - ExpandCacheMax
<1>1. OneEach(fresh)
  BY FilterOneEach
<1>2. fresh \in Seq(Fetched \cap Fresh) /\ ExpandCacheMax \in Nat \ {0}
  BY FilterType, ExpandAssumption
<1>3. CASE Len(c) <= ExpandCacheMax
  BY <1>3 DEF Pruned
<1>4. CASE ~(Len(c) <= ExpandCacheMax)
  <2>1. Pruned(c) = IF over > 0 THEN SubSeq(fresh, over + 1, Len(fresh)) ELSE fresh
    BY <1>4 DEF Pruned
  <2> HIDE DEF fresh
  <2>2. CASE over > 0
    <3> DEFINE t == SubSeq(fresh, over + 1, Len(fresh))
    <3>1. Len(fresh) \in Nat /\ over \in Nat
      BY <1>2, <2>2
    <3>2. /\ DOMAIN t = 1 .. Len(fresh) - over
          /\ \A i \in 1 .. Len(fresh) - over : t[i] = fresh[over + i]
      BY <1>2, <2>2, <3>1, SubSeqProperties
    <3>3. \A i \in DOMAIN t : over + i \in DOMAIN fresh /\ i \in Nat
      BY <1>2, <3>1, <3>2
    <3>4. OneEach(t)
      <4> HIDE DEF t, over
      <4> SUFFICES ASSUME NEW i \in DOMAIN t, NEW j \in DOMAIN t, t[i].ctx = t[j].ctx
                   PROVE  i = j
        BY DEF OneEach
      <4>1. fresh[over + i].ctx = fresh[over + j].ctx
        BY <3>2
      <4>2. over + i = over + j
        BY <1>1, <3>3, <4>1 DEF OneEach
      <4> QED BY <3>1, <3>3, <4>2
    <3> QED BY <2>1, <2>2, <3>4
  <2>3. CASE ~(over > 0)
    BY <1>1, <2>1, <2>3
  <2> QED BY <2>2, <2>3
<1> QED BY <1>3, <1>4

LEMMA OneEachStep ==
    ASSUME ExpandTypeOK, OneEach(listCache), [ExpandNext]_expandVars
    PROVE  OneEach(listCache')
<1>1. listCache \in Seq(Fetched)
  BY DEF ExpandTypeOK
<1>2. CASE UNCHANGED listCache
  BY <1>2
<1>3. CASE Expire
  <2>1. PICK k \in DOMAIN listCache : listCache' = [listCache EXCEPT ![k].fresh = FALSE]
    BY <1>3 DEF Expire
  <2>2. listCache[k] \in Fetched
    BY <1>1, ElementOfSeq
  <2>3. [listCache[k] EXCEPT !.fresh = FALSE].ctx = listCache[k].ctx
    BY <2>2 DEF Fetched
  <2>4. DOMAIN listCache' = DOMAIN listCache
    BY <1>1, <2>1
  <2>5. \A i \in DOMAIN listCache : listCache'[i].ctx = listCache[i].ctx
    <3>1. \A i \in DOMAIN listCache :
            listCache'[i] = IF i = k THEN [listCache[k] EXCEPT !.fresh = FALSE]
                            ELSE listCache[i]
      BY <1>1, <2>1
    <3> QED BY <2>3, <3>1
  <2> QED BY <2>4, <2>5 DEF OneEach
<1>4. ASSUME NEW ctx \in Contexts, FetchStores(ctx) PROVE OneEach(listCache')
  <2>1. PICK e : /\ e.ctx = ctx /\ e \in Fetched
                 /\ listCache' = Pruned(Append(Filter(listCache, OfOthers(ctx)), e))
    <3>1. PICK list \in Lists :
            listCache' = Pruned(Append(Filter(listCache, OfOthers(ctx)),
                [ctx |-> ctx, list |-> list, lib |-> fetchers[ctx].lib, fresh |-> TRUE]))
      BY <1>4 DEF FetchStores
    <3>2. fetchers[ctx].lib \in BOOLEAN
      BY FetcherTypes DEF ExpandTypeOK
    <3>3. [ctx |-> ctx, list |-> list, lib |-> fetchers[ctx].lib, fresh |-> TRUE] \in Fetched
      BY <3>2 DEF Fetched
    <3> QED BY <3>1, <3>3
  <2> DEFINE others == Filter(listCache, OfOthers(ctx))
             all == Append(others, e)
  <2>2. OneEach(others)
    BY <1>1, FilterOneEach
  <2>3. others \in Seq(Fetched \cap OfOthers(ctx))
    BY <1>1, FilterType
  <2> HIDE DEF others
  <2>4. others \in Seq(Fetched)
    BY <2>3, SeqMonotonic, Fetched \cap OfOthers(ctx) \subseteq Fetched
  <2>5. /\ all \in Seq(Fetched) /\ Len(others) \in Nat
        /\ DOMAIN all = 1 .. Len(others) + 1 /\ DOMAIN others = 1 .. Len(others)
        /\ \A i \in 1 .. Len(others) : all[i] = others[i]
        /\ all[Len(others) + 1] = e
    BY <2>1, <2>4, AppendProperties
  <2>6. \A i \in 1 .. Len(others) : others[i].ctx # ctx
    BY <2>3, ElementOfSeq DEF OfOthers
  <2> HIDE DEF all
  <2>7. OneEach(all)
    <3> SUFFICES ASSUME NEW i \in DOMAIN all, NEW j \in DOMAIN all, all[i].ctx = all[j].ctx
                 PROVE  i = j
      BY DEF OneEach
    <3>1. /\ i \in 1 .. Len(others) \/ i = Len(others) + 1
          /\ j \in 1 .. Len(others) \/ j = Len(others) + 1
      BY <2>5
    <3>2. CASE i \in 1 .. Len(others) /\ j \in 1 .. Len(others)
      BY <2>2, <2>5, <3>2 DEF OneEach
    <3>3. CASE i = Len(others) + 1 \/ j = Len(others) + 1
      BY <2>1, <2>5, <2>6, <3>1, <3>3
    <3> QED BY <3>1, <3>2, <3>3
  <2> QED BY <2>1, <2>5, <2>7, PrunedOneEach DEF all, others
<1>5. CASE ClusterPush \/ OpaquePush \/ ResultLands \/ PlaySent \/ Reemit
  BY <1>2, <1>5 DEF ClusterPush, OpaquePush, ResultLands, PlaySent, Reemit
<1>6. ASSUME NEW ctx \in Contexts, FetchFails(ctx) \/ FetchSends(ctx) \/ FetchEnds(ctx)
      PROVE  OneEach(listCache')
  BY <1>2, <1>6 DEF FetchFails, FetchSends, FetchEnds
<1>7. CASE UNCHANGED expandVars
  BY <1>2, <1>7 DEF expandVars
<1> QED BY <1>3, <1>4, <1>5, <1>6, <1>7 DEF ExpandNext, FetchStep

\* However often a context is fetched, for either route, expandQueue finds one list of it
\* at the most: as in queueExpandCache, which is a map by context.
THEOREM OneListPerContext == ExpandSpec => []OneHit
<1> DEFINE Inv == OneEach(listCache)
<1>1. ExpandInit => Inv
  BY DEF ExpandInit, OneEach
<1>2. ASSUME ExpandTypeOK, Inv, [ExpandNext]_expandVars PROVE Inv'
  BY <1>2, OneEachStep DEF OneEach
<1>3. Inv => OneHit
  BY DEF OneEach, OneHit, Hits
<1> HIDE DEF Inv
<1> QED BY <1>1, <1>2, <1>3, ExpandTyped, PTL DEF ExpandSpec

-----------------------------------------------------------------------------
(* A list that was fetched is not forgotten, which is the part of          *)
(* FetchedApplied that needs no fairness.  It rests on this: what was      *)
(* expanded and is expanded again with the same list stays as it is.       *)

RunTold == Unapplied => expanded \/ \E ctx \in Contexts : fetchers[ctx].pc = "send"

LEMMA ComputedTwice ==
    ASSUME NEW list, NEW track, NEW repeat, NEW queue,
           computeQueueExpansion(list, track, repeat, queue) # NoQueue
    PROVE  computeQueueExpansion(list, track, repeat,
                                 computeQueueExpansion(list, track, repeat, queue))
             \in {NoQueue, computeQueueExpansion(list, track, repeat, queue)}
<1> DEFINE new == Prefix(Upcoming(list, track, repeat), QueueLimit)
<1>1. \A q : computeQueueExpansion(list, track, repeat, q) \in {NoQueue, new}
  BY DEF computeQueueExpansion
<1> HIDE DEF new
<1> QED BY <1>1

FoundList(ctx) == listCache[CHOOSE k \in Hits(ctx) : TRUE].list

Filled(list, state) ==
    LET queue == computeQueueExpansion(list, state.track, state.repeat, state.next)
    IN  IF queue = NoQueue THEN state.next ELSE queue

LEMMA ExpandedTwice ==
    ASSUME NEW state \in States
    PROVE  ExpandedQueue([state EXCEPT !.next = ExpandedQueue(state)]) = ExpandedQueue(state)
<1> DEFINE list == FoundList(state.ctx)
           again == [state EXCEPT !.next = ExpandedQueue(state)]
<1>1. /\ again.ctx = state.ctx /\ again.track = state.track /\ again.repeat = state.repeat
      /\ again.next = ExpandedQueue(state)
  BY DEF States
<1> HIDE DEF again
<1>2. ExpandedQueue(state) = Filled(list, state)
  BY DEF ExpandedQueue, Filled, FoundList
<1>3. ExpandedQueue(again) = Filled(FoundList(again.ctx), again)
  BY DEF ExpandedQueue, Filled, FoundList
<1>4. ExpandedQueue(again) = Filled(list, again)
  BY <1>1, <1>3
<1> HIDE DEF list
<1>5. ExpandedQueue(again) = ExpandedQueue(state)
  BY <1>1, <1>2, <1>4, ComputedTwice DEF Filled
<1> QED BY <1>5 DEF again

\* Unapplied after a step that leaves the cached lists and their use alone.
LEMMA SameLists ==
    ASSUME UNCHANGED <<listCache, liked>>
    PROVE  Unapplied' <=> /\ rs'.ctx # Opaque /\ Hits(rs'.ctx) # {}
                          /\ ExpandedQueue(rs') # rs'.next
<1>1. Library(rs.ctx)' = Library(rs'.ctx)
  BY DEF Library
<1>2. Hits(rs.ctx)' = Hits(rs'.ctx)
  BY <1>1, Zenon DEF Hits
<1>3. FoundList(rs.ctx)' = FoundList(rs'.ctx)
  BY <1>2 DEF FoundList
<1>4. Filled(FoundList(rs.ctx), rs)' = Filled(FoundList(rs'.ctx), rs')
  BY <1>3 DEF Filled
<1>5. ExpandedQueue(rs)' = Filled(FoundList(rs.ctx), rs)'
  BY DEF ExpandedQueue, Filled, FoundList
<1>6. ExpandedQueue(rs') = Filled(FoundList(rs'.ctx), rs')
  BY DEF ExpandedQueue, Filled, FoundList
<1> QED BY <1>2, <1>4, <1>5, <1>6 DEF Unapplied

LEMMA ExpandApplies ==
    ASSUME NEW state \in States, expandQueue(state), UNCHANGED <<listCache, liked>>
    PROVE  ~Unapplied'
<1>1. CASE state.ctx # Opaque /\ Hits(state.ctx) # {}
  <2>1. rs' = [state EXCEPT !.next = ExpandedQueue(state)]
    BY <1>1 DEF expandQueue
  <2>2. rs'.next = ExpandedQueue(state)
    BY <2>1 DEF States
  <2>3. ExpandedQueue(rs') = rs'.next
    BY <2>1, <2>2, ExpandedTwice
  <2> QED BY <2>3, SameLists
<1>2. CASE ~(state.ctx # Opaque /\ Hits(state.ctx) # {})
  <2>1. rs' = state
    BY <1>2 DEF expandQueue
  <2> QED BY <1>2, <2>1, SameLists
<1> QED BY <1>1, <1>2

\* A list that expires is used no more; no other one takes its place.
LEMMA ExpiryApplies ==
    ASSUME ExpandTypeOK, OneHit, Expire, Unapplied'
    PROVE  Unapplied
<1>1. PICK m \in DOMAIN listCache : listCache' = [listCache EXCEPT ![m].fresh = FALSE]
  BY DEF Expire
<1>2. listCache \in Seq(Fetched) /\ UNCHANGED <<rs, liked>>
  BY DEF ExpandTypeOK, Expire
<1>3. listCache[m] \in Fetched
  BY <1>2, ElementOfSeq
<1>4. /\ DOMAIN listCache' = DOMAIN listCache
      /\ \A k \in DOMAIN listCache :
            listCache'[k] = IF k = m THEN [listCache[m] EXCEPT !.fresh = FALSE] ELSE listCache[k]
  BY <1>1, <1>2
<1>5. /\ [listCache[m] EXCEPT !.fresh = FALSE].fresh = FALSE
      /\ [listCache[m] EXCEPT !.fresh = FALSE].list = listCache[m].list
  BY <1>3 DEF Fetched
<1>6. Library(rs.ctx)' = Library(rs.ctx)
  BY <1>2 DEF Library
<1>7. ASSUME NEW h \in Hits(rs.ctx)' PROVE h \in Hits(rs.ctx)
  <2>1. /\ h \in DOMAIN listCache' /\ listCache'[h].ctx = rs'.ctx
        /\ listCache'[h].fresh /\ listCache'[h].lib = Library(rs.ctx)'
    BY <1>7, Zenon DEF Hits
  <2>2. h # m
    BY <1>4, <1>5, <2>1
  <2>3. /\ h \in DOMAIN listCache /\ listCache[h].ctx = rs.ctx
        /\ listCache[h].fresh /\ listCache[h].lib = Library(rs.ctx)
    BY <1>2, <1>4, <1>6, <2>1, <2>2
  <2> QED BY <2>3, Zenon DEF Hits
<1>8. rs.ctx # Opaque /\ Hits(rs.ctx)' # {} /\ rs.ctx \in Contexts
  BY <1>2 DEF Unapplied, ExpandTypeOK
<1>9. PICK k \in Hits(rs.ctx)' : TRUE
  BY <1>8
<1>10. Hits(rs.ctx) = {k} /\ Hits(rs.ctx)' = {k} /\ k \in DOMAIN listCache
  BY <1>7, <1>8, <1>9 DEF OneHit, Hits
<1>11. listCache'[k].list = listCache[k].list
  BY <1>4, <1>5, <1>10
<1>12. (CHOOSE h \in Hits(rs.ctx) : TRUE) = k /\ (CHOOSE h \in Hits(rs.ctx)' : TRUE) = k
  BY <1>10
<1>13. FoundList(rs.ctx)' = FoundList(rs.ctx)
  BY <1>11, <1>12 DEF FoundList
<1>14. Filled(FoundList(rs.ctx), rs)' = Filled(FoundList(rs.ctx), rs)
  BY <1>2, <1>13 DEF Filled
<1>15. /\ ExpandedQueue(rs) = Filled(FoundList(rs.ctx), rs)
       /\ ExpandedQueue(rs)' = Filled(FoundList(rs.ctx), rs)'
  BY DEF ExpandedQueue, Filled, FoundList
<1> QED BY <1>2, <1>10, <1>14, <1>15 DEF Unapplied

\* The state that Run expands.
LEMMA RunExpands ==
    ASSUME ExpandTypeOK, ClusterPush \/ OpaquePush \/ ResultLands
    PROVE  ~Unapplied'
<1>1. CASE ClusterPush
  <2>1. PICK ctx \in Contexts, track \in Tracks, repeat \in BOOLEAN, queue \in Previews :
          expandQueue([ctx |-> ctx, track |-> track, repeat |-> repeat, next |-> queue])
    BY <1>1 DEF ClusterPush
  <2>2. [ctx |-> ctx, track |-> track, repeat |-> repeat, next |-> queue] \in States
    BY ExpandAssumption DEF States
  <2> QED BY <1>1, <2>1, <2>2, ExpandApplies DEF ClusterPush
<1>2. CASE OpaquePush
  BY <1>2, NoStateType, ExpandApplies DEF OpaquePush
<1>3. CASE ResultLands
  <2>1. rs \in States
    BY DEF ExpandTypeOK, States
  <2> QED BY <1>3, <2>1, ExpandApplies DEF ResultLands
<1> QED BY <1>1, <1>2, <1>3

LEMMA RunToldStep ==
    ASSUME ExpandTypeOK, OneHit, RunTold, ExpandNext, liked' = liked
    PROVE  RunTold'
<1> SUFFICES ASSUME Unapplied'
             PROVE  expanded' \/ \E ctx \in Contexts : fetchers'[ctx].pc = "send"
  BY DEF RunTold
<1>1. fetchers \in [Contexts -> FetcherAt]
  BY DEF ExpandTypeOK
<1>2. CASE ClusterPush \/ OpaquePush \/ ResultLands
  BY <1>2, RunExpands
<1>3. CASE PlaySent \/ Reemit
  BY <1>3, SameLists DEF PlaySent, Reemit, Unapplied, RunTold
<1>4. CASE Expire
  BY <1>4, ExpiryApplies DEF Expire, RunTold
<1>5. ASSUME NEW ctx \in Contexts, FetchStep(ctx)
      PROVE  expanded' \/ \E c \in Contexts : fetchers'[c].pc = "send"
  <2>1. CASE FetchStores(ctx)
    BY <1>1, <2>1 DEF FetchStores, FetcherTo
  <2>2. CASE FetchSends(ctx)
    BY <2>2 DEF FetchSends
  <2>3. CASE FetchFails(ctx) \/ FetchEnds(ctx)
    <3>1. /\ UNCHANGED <<rs, liked, listCache, expanded>> /\ fetchers[ctx].pc # "send"
          /\ \A c \in Contexts : c # ctx => fetchers'[c] = fetchers[c]
      BY <1>1, <2>3 DEF FetchFails, FetchEnds, FetcherTo
    <3>2. Unapplied
      BY <3>1, SameLists DEF Unapplied
    <3> QED BY <3>1, <3>2 DEF RunTold
  <2> QED BY <1>5, <2>1, <2>2, <2>3 DEF FetchStep
<1> QED BY <1>2, <1>3, <1>4, <1>5 DEF ExpandNext

\* The queue that Run holds after a push or a result follows the cached list of its
\* context, whatever was expanded before; and it falls behind that list only while Run
\* is being told, unless a play command changes which list counts (expandQueue,
\* fetchQueueExpand).  What of that queue is on show is ShownStays.
THEOREM FetchedIsTold ==
    ExpandSpec => /\ [][ClusterPush \/ ResultLands => ~Unapplied']_expandVars
                  /\ [][RunTold /\ liked' = liked => RunTold']_expandVars
<1> DEFINE Now == ClusterPush \/ ResultLands => ~Unapplied'
           Later == RunTold /\ liked' = liked => RunTold'
<1>1. ASSUME ExpandTypeOK, OneHit, [ExpandNext]_expandVars
      PROVE  [Now]_expandVars /\ [Later]_expandVars
  BY <1>1, RunExpands, RunToldStep
<1> HIDE DEF Now, Later
<1>2. ExpandSpec => [][Now]_expandVars /\ [][Later]_expandVars
  BY <1>1, ExpandTyped, OneListPerContext, PTL DEF ExpandSpec
<1> QED BY <1>2 DEF Now, Later

-----------------------------------------------------------------------------
(* MCQueue.                                                                *)

\* A step of MCQueue is a step of the part that runs, and of the other a stutter.
LEMMA PartSteps ==
    ASSUME [Next]_vars
    PROVE  [ResolverNext]_resolverVars /\ [ExpandNext]_expandVars
<1>1. CASE UNCHANGED vars
  BY <1>1 DEF vars
<1> QED BY <1>1 DEF Next

LEMMA Parts == Spec => ResolverSpec /\ ExpandSpec
<1>1. Init => ResolverInit /\ ExpandInit
  BY DEF Init
<1> QED BY <1>1, PartSteps, PTL DEF Spec, ResolverSpec, ExpandSpec

\* The resolver and the expansion keep their types, and the cache of lists its
\* bound, in every reachable state.
THEOREM QueueTyped == Spec => []TypeOK
<1>1. ResolverTypeOK /\ ExpandTypeOK => TypeOK
  BY DEF TypeOK
<1> QED BY <1>1, Parts, ResolverTyped, ExpandTyped, PTL

\* The invariants of both components, in every reachable state of MCQueue.
THEOREM QueueSafe == Spec => [](SingleFetch /\ ArtOnce /\ PreviewHeads /\ ShownButEcho)
BY Parts, SingleFetchHolds, ArtOnceHolds, PreviewStays, ShownStays, PTL
=============================================================================
