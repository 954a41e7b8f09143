---------------------------- MODULE Bluetooth_proofs ----------------------------
(***************************************************************************)
(* The types and SingleLoop of BtRetry, the types and OwnTeardownQuiet of  *)
(* BtPan, and the types of MCBluetooth, for any phones, any number of      *)
(* retry loops and of goroutines that connect, and any bound on unread     *)
(* events.                                                                 *)
(*                                                                         *)
(* SingleLoop is inductive: what an attempt does leaves it alone, because  *)
(* it keeps the loop running.  StopClosedOnce adds that the stop channel   *)
(* that SetOfflineRetry knows is open.                                     *)
(*                                                                         *)
(* OwnTeardownQuiet needs to know that a removal caused by the daemon      *)
(* itself is read while the note of it is there.  The note may be used up  *)
(* by a loss that came before, but then bnep0 is down already, and stays   *)
(* so while networkMu is held: nothing is left to be removed (NoteInv).    *)
(***************************************************************************)
EXTENDS MCBluetooth, SeqFilter_proofs, TLAPS

-----------------------------------------------------------------------------
(* BtRetry: the types.                                                     *)

\* A page runs for a phone, which is the first of those left.
PagerInv == pager # NoPager /\ pager.calling => pager.addrs # <<>>

RetryTyped == RetryTypeOK /\ PagerInv

LoopStates == [pc : {"none", "attempt", "scan", "connect", "wait"},
               todo : Seq(Phones), away : Seq(Phones)]

LEMMA CandidatesType == ASSUME NEW b PROVE Candidates(b) \in Seq(Phones)
<1>1. Candidates(b) \in Seq(Phones \cap (Phones \ b))
  BY RetryAssumption, FilterType DEF Candidates
<1>2. \A T : T \subseteq Phones => Seq(T) \subseteq Seq(Phones)
  BY SeqMonotonic
<1> QED BY <1>1, <1>2

LEMMA PagingType ==
    ASSUME NEW addrs \in Seq(Phones), RetryTyped, tryActiveReconnect(addrs)
    PROVE  pager' \in Pager \cup {NoPager} /\ PagerInv'
<1>1. Paging(addrs) \in Pager /\ ~Paging(addrs).calling
  BY DEF Paging, Pager
<1> QED BY <1>1 DEF tryActiveReconnect, RetryTyped, RetryTypeOK, PagerInv

\* What becomes of the loop that takes a step.
LEMMA LoopTypes ==
    ASSUME RetryTypeOK, NEW i \in Loops, RetryLoopStep(i)
    PROVE  loops' \in [Loops -> LoopStates]
<1> USE DEF RetryTypeOK, LoopAt
<1>1. ASSUME NEW pc \in {"attempt", "scan", "connect", "wait"},
             NEW todo \in Seq(Phones), NEW away \in Seq(Phones),
             loops' = [loops EXCEPT ![i] = LoopAt(pc, todo, away)]
      PROVE  loops' \in [Loops -> LoopStates]
  <2>1. LoopAt(pc, todo, away) \in LoopStates
    BY DEF LoopStates
  <2>2. loops \in [Loops -> LoopStates]
    BY DEF LoopStates
  <2> QED BY <1>1, <2>1, <2>2
<1>2. <<>> \in Seq(Phones) /\ loops[i].todo \in Seq(Phones) /\ loops[i].away \in Seq(Phones)
  OBVIOUS
<1>3. CASE Attempt(i)
  BY <1>1, <1>2, <1>3, CandidatesType DEF Attempt, Waits
<1>4. CASE Scan(i)
  <2>1. /\ Head(loops[i].todo) \in Phones /\ Tail(loops[i].todo) \in Seq(Phones)
        /\ Append(loops[i].away, Head(loops[i].todo)) \in Seq(Phones)
    BY <1>2, <1>4 DEF Scan
  <2> QED BY <1>1, <1>2, <1>4, <2>1 DEF Scan
<1>5. CASE ScanFails(i)
  <2>1. Tail(loops[i].todo) \in Seq(Phones)
    BY <1>2, <1>5 DEF ScanFails
  <2> QED BY <1>1, <1>2, <1>5, <2>1 DEF ScanFails
<1>6. CASE ScanEnds(i) \/ ConnectReturns(i) \/ RetryTick(i)
  BY <1>1, <1>2, <1>6 DEF ScanEnds, ConnectReturns, RetryTick, Waits
<1> QED BY <1>3, <1>4, <1>5, <1>6 DEF RetryLoopStep

LEMMA RetryTypeStep ==
    ASSUME RetryTyped, [RetryNext]_retryVars
    PROVE  RetryTyped'
<1> USE RetryAssumption DEF RetryTyped
<1>1. CASE StartRetry
  <2>1. PICK i \in Loops : offlineRetryStop' = i
                /\ loops' = [loops EXCEPT ![i] = LoopAt("attempt", <<>>, <<>>)]
    BY <1>1 DEF StartRetry
  <2>2. LoopAt("attempt", <<>>, <<>>) \in LoopStates
    BY DEF LoopAt, LoopStates
  <2>3. loops' \in [Loops -> LoopStates]
    BY <2>1, <2>2 DEF RetryTypeOK, LoopStates
  <2> QED BY <1>1, <2>1, <2>3 DEF StartRetry, RetryTypeOK, LoopStates, PagerInv
<1>2. CASE StopRetry
  BY <1>2 DEF StopRetry, RetryTypeOK, PagerInv
<1>3. CASE PagerNext
  <2>1. pager \in Pager
    BY <1>3 DEF PagerNext, RetryTypeOK
  <2>2. pager' \in Pager \cup {NoPager} /\ PagerInv'
    <3>1. CASE pager.addrs = <<>>
      BY <1>3, <3>1 DEF PagerNext, PagerInv
    <3>2. CASE pager.addrs # <<>> /\ Head(pager.addrs) \in barred
      <4>1. Tail(pager.addrs) \in Seq(Phones)
        BY <2>1, <3>2 DEF Pager
      <4>2. Paging(Tail(pager.addrs)) \in Pager /\ ~Paging(Tail(pager.addrs)).calling
        BY <4>1 DEF Paging, Pager
      <4> QED BY <1>3, <3>2, <4>2 DEF PagerNext, PagerInv
    <3>3. CASE pager.addrs # <<>> /\ Head(pager.addrs) \notin barred
      <4>1. [pager EXCEPT !.calling = TRUE] \in Pager
            /\ [pager EXCEPT !.calling = TRUE].addrs = pager.addrs
        BY <2>1 DEF Pager
      <4> QED BY <1>3, <3>3, <4>1 DEF PagerNext, PagerInv
    <3> QED BY <3>1, <3>2, <3>3
  <2> QED BY <1>3, <2>2 DEF PagerNext, RetryTypeOK
<1>4. CASE PageFails
  <2>1. pager \in Pager /\ pager.addrs # <<>>
    BY <1>4 DEF PageFails, RetryTypeOK, PagerInv
  <2>2. Tail(pager.addrs) \in Seq(Phones)
    BY <2>1 DEF Pager
  <2>3. Paging(Tail(pager.addrs)) \in Pager /\ ~Paging(Tail(pager.addrs)).calling
    BY <2>2 DEF Paging, Pager
  <2> QED BY <1>4, <2>3 DEF PageFails, RetryTypeOK, PagerInv
<1>5. CASE PageSucceeds
  <2>1. pager \in Pager /\ pager.addrs # <<>>
    BY <1>5 DEF PageSucceeds, RetryTypeOK, PagerInv
  <2>2. Head(pager.addrs) \in Phones
    BY <2>1 DEF Pager
  <2> QED BY <1>5, <2>2 DEF PageSucceeds, RetryTypeOK, PagerInv
<1>6. ASSUME NEW p \in Phones, PageDevice(p) PROVE RetryTyped'
  <2>1. pager' \in Pager \cup {NoPager} /\ PagerInv'
    <3>1. CASE UNCHANGED pager
      BY <3>1 DEF RetryTypeOK, PagerInv
    <3>2. CASE tryActiveReconnect(<<p>>)
      <4>1. <<p>> \in Seq(Phones)
        OBVIOUS
      <4> QED BY <3>2, <4>1, PagingType
    <3> QED BY <1>6, <3>1, <3>2 DEF PageDevice
  <2> QED BY <1>6, <2>1 DEF PageDevice, RetryTypeOK
<1>7. CASE RecoverNetworkAfterResume
  <2>1. PICK b \in SUBSET barred :
          barred' = b /\ (UNCHANGED pager \/ tryActiveReconnect(Candidates(b)))
    BY <1>7 DEF RecoverNetworkAfterResume
  <2>2. pager' \in Pager \cup {NoPager} /\ PagerInv'
    BY <2>1, CandidatesType, PagingType DEF RetryTypeOK, PagerInv
  <2> QED BY <1>7, <2>1, <2>2 DEF RecoverNetworkAfterResume, RetryTypeOK
<1>8. ASSUME NEW i \in Loops, RetryLoopStep(i) PROVE RetryTyped'
  <2>1. loops' \in [Loops -> LoopStates]
    BY <1>8, LoopTypes
  <2>2. /\ UNCHANGED <<offlineRetryStop, closed, lost, connected, barred>>
        /\ UNCHANGED pager \/ tryActiveReconnect(loops[i].away)
    BY <1>8 DEF RetryLoopStep, Attempt, Scan, ScanFails, ScanEnds, ConnectReturns, RetryTick
  <2>3. loops[i].away \in Seq(Phones)
    BY DEF RetryTypeOK
  <2>4. pager' \in Pager \cup {NoPager} /\ PagerInv'
    BY <2>2, <2>3, PagingType DEF RetryTypeOK, PagerInv
  <2> QED BY <2>1, <2>2, <2>4 DEF RetryTypeOK, LoopStates
<1>9. ASSUME NEW i \in Loops, RetryLoopEnds(i) PROVE RetryTyped'
  <2>1. NotRunning \in LoopStates
    BY DEF NotRunning, LoopAt, LoopStates
  <2>2. loops' \in [Loops -> LoopStates]
    BY <1>9, <2>1 DEF RetryLoopEnds, RetryTypeOK, LoopStates
  <2> QED BY <1>9, <2>2 DEF RetryLoopEnds, ForgetStop, RetryTypeOK, LoopStates, PagerInv
<1>10. ASSUME NEW p \in Phones, PhoneConnects(p) \/ PhoneLeaves(p) \/ LinkTimesOut(p) \/ Bars(p)
       PROVE  RetryTyped'
  BY <1>10 DEF PhoneConnects, PhoneLeaves, LinkTimesOut, Bars, RetryTypeOK, PagerInv
<1>11. ASSUME NEW p \in Phones, TimeoutPages(p) PROVE RetryTyped'
  <2>1. pager' \in Pager \cup {NoPager} /\ PagerInv'
    <3>1. <<p>> \in Seq(Phones)
      OBVIOUS
    <3> QED BY <1>11, <3>1, PagingType DEF TimeoutPages
  <2> QED BY <1>11, <2>1 DEF TimeoutPages, RetryTypeOK
<1>12. CASE UNCHANGED retryVars
  BY <1>12 DEF retryVars, RetryTypeOK, PagerInv
<1> QED
  BY <1>1, <1>2, <1>3, <1>4, <1>5, <1>6, <1>7, <1>8, <1>9, <1>10, <1>11, <1>12
  DEF RetryNext, UserPages

LEMMA RetryInitTyped == RetryInit => RetryTyped
<1> SUFFICES ASSUME RetryInit PROVE RetryTyped
  OBVIOUS
<1>1. NotRunning \in LoopStates
  BY DEF NotRunning, LoopAt, LoopStates
<1>2. loops \in [Loops -> LoopStates]
  BY <1>1 DEF RetryInit
<1> QED BY <1>2 DEF RetryInit, RetryTyped, RetryTypeOK, PagerInv, LoopStates

\* The loops, the goroutine that pages and the phones keep their types: what is
\* paged is a sequence of phones, however candidates are barred and found away.
THEOREM RetryTypeCorrect == RetrySpec => []RetryTypeOK
<1>1. RetryTyped => RetryTypeOK
  BY DEF RetryTyped
<1> QED BY <1>1, RetryInitTyped, RetryTypeStep, PTL DEF RetrySpec

-----------------------------------------------------------------------------
(* BtRetry: the loop.                                                      *)

Running(i) == loops[i].pc # "none"

RetryInv == DOMAIN loops = Loops /\ SingleLoop

\* A loop that runs changes its record and goes on running.
GoesOn(i) ==
    /\ Running(i)
    /\ \E pc \in {"attempt", "scan", "connect", "wait"} : \E todo, away :
        loops' = [loops EXCEPT ![i] = LoopAt(pc, todo, away)]

\* A step of an attempt is such a change (offlineRetryLoop outside its defers).
LEMMA AttemptGoesOn ==
    ASSUME NEW i \in Loops, RetryLoopStep(i)
    PROVE  GoesOn(i) /\ UNCHANGED <<offlineRetryStop, closed>>
<1> USE DEF GoesOn, Running, Waits
<1>1. CASE Attempt(i)
  BY <1>1 DEF Attempt
<1>2. CASE Scan(i)
  BY <1>2 DEF Scan
<1>3. CASE ScanFails(i)
  BY <1>3 DEF ScanFails
<1>4. CASE ScanEnds(i)
  BY <1>4 DEF ScanEnds
<1>5. CASE ConnectReturns(i)
  BY <1>5 DEF ConnectReturns
<1>6. CASE RetryTick(i)
  BY <1>6 DEF RetryTick
<1> QED BY <1>1, <1>2, <1>3, <1>4, <1>5, <1>6 DEF RetryLoopStep

LEMMA RetryStep ==
    ASSUME RetryInv, [RetryNext]_retryVars
    PROVE  RetryInv'
<1> USE RetryAssumption DEF RetryInv, SingleLoop, LoopAt
<1>1. CASE StartRetry
  BY <1>1 DEF StartRetry
<1>2. CASE StopRetry
  BY <1>2 DEF StopRetry
<1>3. ASSUME NEW i \in Loops, RetryLoopStep(i) PROVE RetryInv'
  BY <1>3, AttemptGoesOn DEF GoesOn, Running
<1>4. ASSUME NEW i \in Loops, RetryLoopEnds(i) PROVE RetryInv'
  BY <1>4 DEF RetryLoopEnds, ForgetStop, NotRunning
<1>5. ASSUME UNCHANGED <<offlineRetryStop, closed, loops>> PROVE RetryInv'
  BY <1>5
<1>6. CASE UserPages
  BY <1>5, <1>6 DEF UserPages, RecoverNetworkAfterResume, PageDevice
<1>7. CASE PagerNext \/ PageFails \/ PageSucceeds
  BY <1>5, <1>7 DEF PagerNext, PageFails, PageSucceeds
<1>8. ASSUME NEW p \in Phones,
             PhoneConnects(p) \/ PhoneLeaves(p) \/ LinkTimesOut(p) \/ TimeoutPages(p) \/ Bars(p)
      PROVE RetryInv'
  BY <1>5, <1>8 DEF PhoneConnects, PhoneLeaves, LinkTimesOut, TimeoutPages, Bars
<1>9. CASE UNCHANGED retryVars
  BY <1>5, <1>9 DEF retryVars
<1> QED
  BY <1>1, <1>2, <1>3, <1>4, <1>6, <1>7, <1>8, <1>9 DEF RetryNext

LEMMA RetryInitInv == RetryInit => RetryInv
BY DEF RetryInit, RetryInv, SingleLoop, NotRunning, LoopAt

\* Whatever the order of stops, starts and exits, a loop that was not told to stop is
\* the one SetOfflineRetry can stop.
THEOREM SingleLoopHolds == RetrySpec => []SingleLoop
<1>1. RetryInv => SingleLoop
  BY DEF RetryInv
<1> QED
  BY <1>1, RetryInitInv, RetryStep, PTL DEF RetrySpec

\* Closing a stop channel a second time would panic: the one SetOfflineRetry knows is
\* that of a loop that still runs and has not been told to stop, and a channel is
\* closed only while its loop is there to see it (SetOfflineRetry, the deferred
\* function of offlineRetryLoop).
THEOREM StopClosedOnce ==
    RetrySpec => []/\ offlineRetryStop # NoLoop =>
                         Running(offlineRetryStop) /\ offlineRetryStop \notin closed
                   /\ \A i \in closed : Running(i)
<1> DEFINE Stoppable == offlineRetryStop # NoLoop =>
                        Running(offlineRetryStop) /\ offlineRetryStop \notin closed
           Seen == \A i \in closed : Running(i)
<1>1. RetryInit => Stoppable /\ Seen
  BY DEF RetryInit
<1>2. ASSUME RetryTypeOK, Stoppable, Seen, [RetryNext]_retryVars PROVE Stoppable' /\ Seen'
  <2>0. DOMAIN loops = Loops /\ closed \subseteq Loops
    BY <1>2 DEF RetryTypeOK
  <2> USE <1>2, <2>0, RetryAssumption DEF Running, LoopAt
  <2>1. CASE StartRetry \/ StopRetry
    BY <2>1 DEF StartRetry, StopRetry
  <2>2. ASSUME NEW i \in Loops, RetryLoopStep(i) PROVE Stoppable' /\ Seen'
    <3>1. \A j \in Loops : Running(j) => Running(j)'
      BY <2>2, AttemptGoesOn DEF GoesOn
    <3>2. UNCHANGED <<offlineRetryStop, closed>>
      BY <2>2, AttemptGoesOn
    <3> QED BY <3>1, <3>2 DEF RetryTypeOK
  <2>3. ASSUME NEW i \in Loops, RetryLoopEnds(i) PROVE Stoppable' /\ Seen'
    BY <2>3 DEF RetryLoopEnds, ForgetStop, NotRunning
  <2>4. CASE UNCHANGED <<offlineRetryStop, closed, loops>>
    BY <2>4
  <2> QED
    BY <1>2, <2>1, <2>2, <2>3, <2>4
    DEF RetryNext, retryVars, UserPages, RecoverNetworkAfterResume, PageDevice, PagerNext,
        PageFails, PageSucceeds, PhoneConnects, PhoneLeaves, LinkTimesOut, TimeoutPages,
        Bars
<1> HIDE DEF Stoppable, Seen
<1> QED BY <1>1, <1>2, RetryTypeCorrect, PTL DEF RetrySpec, Stoppable, Seen

-----------------------------------------------------------------------------
(* BtPan.                                                                  *)

-----------------------------------------------------------------------------
(* Type correctness.                                                       *)

\* What Becomes, Goes and Spawn make of conns.
LEMMA BecomesType ==
    ASSUME NEW c \in Conns, NEW r \in Goroutine, conns \in [Conns -> Goroutine], Becomes(c, r)
    PROVE  conns' \in [Conns -> Goroutine]
BY DEF Becomes

LEMMA GoesType ==
    ASSUME NEW c \in Conns, NEW pc \in Pcs, conns \in [Conns -> Goroutine], ~At(c, "none"), Goes(c, pc)
    PROVE  conns' \in [Conns -> Goroutine]
<1>1. conns[c] \in [pc : Pcs, phone : Peers]
  BY DEF Goroutine, At, NoConn, Conn
<1>2. [conns[c] EXCEPT !.pc = pc] \in Goroutine
  BY <1>1 DEF Goroutine
<1> QED
  BY <1>2 DEF Goes, Becomes

\* Appending an event, or taking the first one, keeps its type.
LEMMA EventsType ==
    ASSUME NEW S, NEW s \in Seq(S)
    PROVE  /\ \A x \in S : Append(s, x) \in Seq(S)
           /\ s # <<>> => Head(s) \in S /\ Tail(s) \in Seq(S)
OBVIOUS

\* The state of a phone's network stays well-typed when it is gone.
LEMMA PanGoneType ==
    ASSUME PanTypeOK, NEW p, NEW cause \in {"own", "lost"}, PanGone(p, cause)
    PROVE  /\ further' \subseteq Peers
           /\ bnep0' \in Peers \cup {NoPeer}
           /\ removals' \in Seq({"own", "lost"})
<1>1. removals \in Seq({"own", "lost"}) /\ further \subseteq Peers /\ bnep0 \in Peers \cup {NoPeer}
  BY DEF PanTypeOK
<1>2. Append(removals, cause) \in Seq({"own", "lost"})
  BY <1>1
<1> QED
  BY <1>1, <1>2 DEF PanGone

\* A link that ends: likewise, with an event for the mgmt socket.
LEMMA LinkGoneType ==
    ASSUME PanTypeOK, NEW p \in Peers, NEW reason \in Reasons, LinkGone(p, reason)
    PROVE  /\ further' \subseteq Peers /\ bnep0' \in Peers \cup {NoPeer}
           /\ removals' \in Seq({"own", "lost"})
           /\ acl' \subseteq Peers
           /\ reasons' \in Seq([phone : Peers, reason : Reasons])
<1>1. PanGone(p, "lost")
  BY DEF LinkGone
<1>2. acl' \subseteq Peers /\ reasons' \in Seq([phone : Peers, reason : Reasons])
  BY DEF LinkGone, PanTypeOK, Event
<1> QED
  BY <1>1, <1>2, PanGoneType

LEMMA LinksType ==
    ASSUME PanTypeOK, NEW p \in Peers, PhoneComes(p) \/ PhoneGoes(p) \/ PanDrops(p) \/ LeLinkEnds(p)
    PROVE  PanTypeOK'
<1> USE DEF net, marks, clocks
<1>1. CASE PhoneComes(p)
  BY <1>1 DEF PhoneComes, PanTypeOK
<1>2. CASE PhoneGoes(p)
  BY <1>2, LinkGoneType DEF PhoneGoes, PanTypeOK
<1>3. CASE PanDrops(p)
  BY <1>3, PanGoneType DEF PanDrops, PanTypeOK
<1>4. CASE LeLinkEnds(p)
  <2>1. reasons' \in Seq([phone : Peers, reason : Reasons])
    BY <1>4 DEF LeLinkEnds, PanTypeOK, Event
  <2> QED
    BY <1>4, <2>1 DEF LeLinkEnds, phones, PanTypeOK
<1> QED
  BY <1>1, <1>2, <1>3, <1>4

\* A new goroutine is well-typed when the phone is.
LEMMA SpawnType ==
    ASSUME PanTypeOK, NEW pc \in Pcs, NEW p \in Peers, Spawn(Conn(pc, p))
    PROVE  conns' \in [Conns -> Goroutine]
<1>1. conns \in [Conns -> Goroutine]
  BY DEF PanTypeOK
<1>2. Conn(pc, p) \in Goroutine
  BY DEF Conn, Goroutine
<1> QED
  BY <1>1, <1>2, BecomesType DEF Spawn

LEMMA HandlesType ==
    ASSUME PanTypeOK, Handles
    PROVE  PanTypeOK'
<1> USE DEF phones, net, marks, clocks
<1>0. conns \in [Conns -> Goroutine]
  BY DEF PanTypeOK
<1>1. CASE handleDeviceConnected
  <2>1. PICK p \in Peers : Connected(p) /\ (Spawn(Conn("nap", p)) \/ UNCHANGED conns)
    BY <1>1 DEF handleDeviceConnected
  <2>2. conns' \in [Conns -> Goroutine]
    BY <2>1, <1>0, SpawnType DEF Pcs
  <2> QED
    BY <2>1, <2>2 DEF Connected, PanTypeOK
<1>2. CASE OwnRemoval
  <2>1. removals' \in Seq({"own", "lost"})
    BY <1>2, EventsType DEF OwnRemoval, PanTypeOK
  <2> QED
    BY <1>2, <2>1 DEF OwnRemoval, PanTypeOK
<1>3. CASE DropRemoval
  <2>1. conns' \in [Conns -> Goroutine]
    BY <1>3, <1>0, SpawnType DEF DropRemoval, PanTypeOK, Pcs
  <2> QED
    BY <1>3, <2>1 DEF DropRemoval, PanTypeOK
<1>4. CASE handleDisconnectReason
  <2>1. /\ Head(reasons) \in [phone : Peers, reason : Reasons]
        /\ reasons' \in Seq([phone : Peers, reason : Reasons])
    <3>1. reasons \in Seq([phone : Peers, reason : Reasons]) /\ reasons # <<>>
      BY <1>4 DEF handleDisconnectReason, PanTypeOK
    <3> QED
      BY <1>4, <3>1, EventsType DEF handleDisconnectReason
  <2>2. manualDisconnects' \subseteq Peers /\ panSessionUp' \subseteq Peers
    BY <1>4, <2>1 DEF handleDisconnectReason, PanTypeOK
  <2> QED
    BY <1>4, <2>1, <2>2 DEF handleDisconnectReason, PanTypeOK
<1> QED
  BY <1>1, <1>2, <1>3, <1>4 DEF Handles

LEMMA ConnType ==
    ASSUME PanTypeOK, NEW c \in Conns, ConnStep(c)
    PROVE  PanTypeOK'
<1> USE DEF OnlyConns, phones, events, net, marks, clocks
<1>0. conns \in [Conns -> Goroutine] /\ NoConn \in Goroutine
  BY DEF PanTypeOK, Goroutine
<1>p. ~At(c, "none")
  BY DEF ConnStep, At, NapFound, NapMissing, RecoverWakes, LookFails, RecoverTries, RecoverGivesUp,
         RetryTries, ConnectSkips, ConnectBegins, ForcedBegins, Removes, RemoveFails, Connects,
         ConnectFails, Checks, Records
<1>q. conns[c].phone \in Peers
  BY <1>0, <1>p DEF At, Goroutine, NoConn, Conn
<1>1. Becomes(c, NoConn) => conns' \in [Conns -> Goroutine]
  BY <1>0, BecomesType
<1>2. \A pc \in Pcs : Goes(c, pc) => conns' \in [Conns -> Goroutine]
  BY <1>0, <1>p, GoesType
<1>3. ASSUME NapFound(c) \/ NapMissing(c) \/ RecoverWakes(c) \/ LookFails(c) \/ RetryTries(c)
             \/ ConnectBegins(c) \/ RemoveFails(c) \/ ConnectFails(c)
      PROVE  PanTypeOK'
  <2>1. OnlyConns /\ (Becomes(c, NoConn) \/ \E pc \in Pcs : Goes(c, pc))
    BY <1>3 DEF NapFound, NapMissing, RecoverWakes, LookFails, RetryTries, ConnectBegins,
                RemoveFails, ConnectFails, Pcs
  <2> QED
    BY <2>1, <1>1, <1>2 DEF PanTypeOK
<1>4. CASE RecoverTries(c)
  <2>1. conns' \in [Conns -> Goroutine]
    BY <1>4, <1>2 DEF RecoverTries, Pcs
  <2>2. retries' \in 0..panRetryThreshold
    BY <1>4, PanAssumption DEF RecoverTries, MayRetry, PanTypeOK
  <2> QED
    BY <1>4, <2>1, <2>2 DEF RecoverTries, PanTypeOK
<1>5. CASE RecoverGivesUp(c)
  BY <1>5, <1>1, <1>q DEF RecoverGivesUp, PanTypeOK
<1>6. CASE ConnectSkips(c)
  BY <1>6, <1>1, <1>q DEF ConnectSkips, PanTypeOK
<1>7. CASE ForcedBegins(c)
  <2>1. conns' \in [Conns -> Goroutine]
    BY <1>7, <1>2 DEF ForcedBegins, Pcs
  <2> QED
    BY <1>7, <2>1 DEF ForcedBegins, PanTypeOK
<1>8. CASE Removes(c)
  <2>1. conns' \in [Conns -> Goroutine]
    BY <1>8, <1>2 DEF Removes, Pcs
  <2> QED
    BY <1>8, <2>1, PanGoneType DEF Removes, PanTypeOK
<1>9. CASE Connects(c)
  <2>1. conns' \in [Conns -> Goroutine]
    BY <1>9, <1>2 DEF Connects, Pcs
  <2>2. signals' \in Seq(Peers) /\ acl' \subseteq Peers
    <3>1. signals \in Seq(Peers) /\ acl \subseteq Peers
      BY DEF PanTypeOK
    <3>2. Append(signals, conns[c].phone) \in Seq(Peers)
      BY <3>1, <1>q
    <3> QED
      BY <1>9, <1>q, <3>1, <3>2 DEF Connects
  <2>3. bnep0' \in Peers \cup {NoPeer} /\ further' \subseteq Peers
    BY <1>9, <1>q DEF Connects, PanTypeOK
  <2> QED
    BY <1>9, <2>1, <2>2, <2>3 DEF Connects, PanTypeOK
<1>10. CASE Checks(c)
  <2>1. conns' \in [Conns -> Goroutine]
    BY <1>10, <1>2 DEF Checks, Pcs
  <2> QED
    BY <1>10, <2>1, <1>q DEF Checks, PanTypeOK
<1>11. CASE Records(c)
  BY <1>11, <1>1, <1>q DEF Records, PanTypeOK
<1> QED
  BY <1>3, <1>4, <1>5, <1>6, <1>7, <1>8, <1>9, <1>10, <1>11 DEF ConnStep

\* The retry loop, the user and the way back from sleep.
LEMMA UserType ==
    ASSUME PanTypeOK, NEW p \in Peers,
           RetryAttempt(p) \/ PageDeviceConnects(p) \/ ResumeConnects(p) \/ DisconnectDevice(p)
    PROVE  PanTypeOK'
<1> USE DEF OnlyConns, phones, events, net, marks, clocks
<1>1. \A pc \in {"retry", "forced"} : Spawn(Conn(pc, p)) => conns' \in [Conns -> Goroutine]
  BY SpawnType DEF Pcs
<1>2. CASE RetryAttempt(p)
  BY <1>1, <1>2 DEF RetryAttempt, PanTypeOK
<1>3. CASE PageDeviceConnects(p)
  BY <1>1, <1>3 DEF PageDeviceConnects, PanTypeOK
<1>4. CASE ResumeConnects(p)
  BY <1>1, <1>4 DEF ResumeConnects, PanTypeOK
<1>5. CASE DisconnectDevice(p)
  BY <1>5 DEF DisconnectDevice, PanTypeOK
<1> QED
  BY <1>2, <1>3, <1>4, <1>5

LEMMA DisconnectType ==
    ASSUME PanTypeOK, Disconnected \/ DisconnectFails
    PROVE  PanTypeOK'
<1> USE DEF phones, events, net, marks, clocks
<1>1. CASE Disconnected
  BY <1>1, LinkGoneType DEF Disconnected, PanTypeOK, Reasons
<1>2. CASE DisconnectFails
  BY <1>2 DEF DisconnectFails, PanTypeOK
<1> QED
  BY <1>1, <1>2

\* What only the passing of time and the network monitor do.
Passes ==
    \/ SetOnline \/ RetryExpires \/ DropExpires \/ NoteExpires
    \/ \E p \in Peers : Ages(p) \/ MarkExpires(p) \/ BackoffExpires(p)

LEMMA PassesType ==
    ASSUME PanTypeOK, Passes
    PROVE  PanTypeOK'
<1> USE DEF phones, events, net, marks, clocks
<1>1. CASE SetOnline
  BY <1>1 DEF SetOnline, PanTypeOK
<1>2. CASE RetryExpires
  <2>1. retries' \in 0..panRetryThreshold
    BY <1>2, PanAssumption DEF RetryExpires, PanTypeOK
  <2> QED
    BY <1>2, <2>1 DEF RetryExpires, PanTypeOK
<1>3. CASE DropExpires
  BY <1>3 DEF DropExpires, PanTypeOK
<1>5. CASE NoteExpires
  <2>1. selfTeardown' = FALSE /\ UNCHANGED <<phones, events, disconnecting, conns, net, marks>>
    BY <1>5 DEF NoteExpires
  <2>2. UNCHANGED <<uptime, retries, recentDrop>>
    BY <1>5 DEF NoteExpires
  <2> QED
    BY <2>1, <2>2 DEF PanTypeOK
<1>4. ASSUME NEW p \in Peers, Ages(p) \/ MarkExpires(p) \/ BackoffExpires(p) PROVE PanTypeOK'
  BY <1>4 DEF Ages, MarkExpires, BackoffExpires, PanTypeOK
<1> QED
  BY <1>1, <1>2, <1>3, <1>4, <1>5 DEF Passes

\* PanNext sorted by what takes the step.
LEMMA NextSorted ==
    ASSUME PanNext
    PROVE  \/ Handles \/ Disconnected \/ DisconnectFails \/ Passes
           \/ \E c \in Conns : ConnStep(c)
           \/ \E p \in Peers : PhoneComes(p) \/ PhoneGoes(p) \/ PanDrops(p) \/ LeLinkEnds(p)
           \/ \E p \in Peers : \/ RetryAttempt(p) \/ PageDeviceConnects(p)
                              \/ ResumeConnects(p) \/ DisconnectDevice(p)
BY DEF PanNext, Passes

\* The daemon may have heard anything of the network when the model begins.
LEMMA PanFromTypes ==
    ASSUME NEW report \in {"silent", "online", "offline"}, PanFrom(report)
    PROVE  PanTypeOK
<1>1. conns \in [Conns -> Goroutine]
  BY DEF PanFrom, Goroutine
<1>2. retries \in 0..panRetryThreshold
  BY PanAssumption DEF PanFrom
<1>3. uptime \in [Peers -> {"new", "settled", "stable"}]
  BY DEF PanFrom
<1>4. signals \in Seq(Peers) /\ removals \in Seq({"own", "lost"})
      /\ reasons \in Seq([phone : Peers, reason : Reasons])
  BY DEF PanFrom
<1> QED
  BY <1>1, <1>2, <1>3, <1>4 DEF PanFrom, PanTypeOK

LEMMA PanTypeStep ==
    ASSUME PanTypeOK, [PanNext]_panVars
    PROVE  PanTypeOK'
<1>1. CASE PanNext
  BY <1>1, NextSorted, HandlesType, DisconnectType, PassesType, ConnType, LinksType, UserType
<1>2. CASE UNCHANGED panVars
  BY <1>2 DEF panVars, phones, events, net, marks, clocks, PanTypeOK
<1> QED
  BY <1>1, <1>2

\* Every variable keeps its type: no goroutine of another kind, no attempt without a
\* phone, no more attempts counted than the breaker allows.
THEOREM PanTypeCorrect == PanSpec => []PanTypeOK
<1>1. PanInit => PanTypeOK
  BY PanFromTypes DEF PanInit
<1> QED
  BY <1>1, PanTypeStep, PTL DEF PanSpec

-----------------------------------------------------------------------------
(* Own teardowns.                                                          *)

Holding == {"remove", "connect", "check", "record"}

\* While a removal waits to be read bnep0 is down, and there is only this one; one of
\* the daemon's own has its note.  Whoever is about to remove bnep0 has noted it, or
\* there is nothing to remove.  networkMu is held once.
NoteInv ==
    /\ removals # <<>> => bnep0 = NoPeer /\ Len(removals) = 1
    /\ removals # <<>> /\ Head(removals) = "own" => selfTeardown
    /\ \A c \in Conns : At(c, "remove") => selfTeardown \/ bnep0 = NoPeer
    /\ \A c, d \in Conns : conns[c].pc \in Holding /\ conns[d].pc \in Holding => c = d

\* No step but those of networkMu's holder and of who takes it changes where a
\* goroutine stands with respect to it.
Calm == \A c \in Conns : conns'[c].pc \in Holding => conns'[c] = conns[c]

\* bnep0 goes for another reason than a forced reconnect.
LEMMA LostStep ==
    ASSUME PanTypeOK, NoteInv, NEW p \in Peers, PanGone(p, "lost"), UNCHANGED <<conns, selfTeardown>>
    PROVE  NoteInv'
<1>1. bnep0 = p => removals = <<>>
  BY PanAssumption DEF NoteInv
<1>2. CASE bnep0 = p
  BY <1>1, <1>2 DEF PanGone, NoteInv, At
<1>3. CASE bnep0 # p
  BY <1>3 DEF PanGone, NoteInv, At
<1> QED
  BY <1>2, <1>3

LEMMA CalmStep ==
    ASSUME NoteInv, Calm, UNCHANGED <<bnep0, removals, selfTeardown>>
    PROVE  NoteInv'
BY DEF NoteInv, Calm, At, Holding

\* A goroutine that begins, or that goes on without networkMu.
LEMMA CalmMoves ==
    ASSUME PanTypeOK
    PROVE  /\ \A c \in Conns, r \in Goroutine :
                Becomes(c, r) /\ r.pc \notin Holding => Calm
           /\ \A c \in Conns, pc \in Pcs : Goes(c, pc) /\ pc \notin Holding => Calm
           /\ \A p \in Peers, pc \in Pcs : Spawn(Conn(pc, p)) /\ pc \notin Holding => Calm
<1>0. conns \in [Conns -> Goroutine]
  BY DEF PanTypeOK
<1>1. ASSUME NEW c \in Conns, NEW r, r.pc \notin Holding, Becomes(c, r)
      PROVE  Calm
  BY <1>0, <1>1 DEF Becomes, Calm
<1>2. ASSUME NEW c \in Conns, NEW pc \in Pcs, pc \notin Holding, Goes(c, pc)
      PROVE  Calm
  <2>1. [conns[c] EXCEPT !.pc = pc].pc = pc
    BY <1>0 DEF Goroutine, NoConn, Conn
  <2> QED
    BY <1>1, <1>2, <2>1 DEF Goes
<1>3. \A p \in Peers, pc \in Pcs : Conn(pc, p).pc = pc
  BY DEF Conn
<1> QED
  BY <1>1, <1>2, <1>3 DEF Spawn

\* The goroutines' steps (connectNetworkInternal above all).
LEMMA ConnNotes ==
    ASSUME PanTypeOK, NoteInv, NEW c \in Conns, ConnStep(c)
    PROVE  NoteInv'
<1> USE DEF OnlyConns, phones, events, net, marks, clocks
<1>0. conns \in [Conns -> Goroutine] /\ NoConn \in Goroutine
  BY DEF PanTypeOK, Goroutine
<1>1. CASE \/ NapFound(c) \/ NapMissing(c) \/ RecoverWakes(c) \/ LookFails(c) \/ RecoverTries(c)
           \/ RecoverGivesUp(c) \/ RetryTries(c) \/ ConnectSkips(c) \/ ConnectFails(c)
           \/ Records(c)
  <2>1. UNCHANGED <<bnep0, removals, selfTeardown>>
    BY <1>1 DEF NapFound, NapMissing, RecoverWakes, LookFails, RecoverTries, RecoverGivesUp,
                RetryTries, ConnectSkips, ConnectFails, Records
  <2>2. Becomes(c, NoConn) \/ \E pc \in {"unforced", "forced", "recover"} : Goes(c, pc)
    BY <1>1 DEF NapFound, NapMissing, RecoverWakes, LookFails, RecoverTries, RecoverGivesUp,
                RetryTries, ConnectSkips, ConnectFails, Records
  <2>3. Calm
    BY <2>2, <1>0, CalmMoves DEF NoConn, Conn, Holding, Pcs
  <2> QED
    BY <2>1, <2>3, CalmStep
<1>2. \A pc \in Pcs : Goes(c, pc) =>
        /\ conns'[c].pc = pc
        /\ \A d \in Conns \ {c} : conns'[d] = conns[d]
  BY <1>0 DEF Goes, Becomes, Goroutine, NoConn, Conn
<1>3. CASE ConnectBegins(c)
  BY <1>2, <1>3 DEF ConnectBegins, NetworkHeld, NoteInv, Holding, At, Pcs
<1>4. CASE ForcedBegins(c)
  BY <1>2, <1>4 DEF ForcedBegins, NetworkHeld, NoteInv, Holding, At, Pcs
<1>5. CASE RemoveFails(c)
  BY <1>2, <1>5 DEF RemoveFails, NoteInv, Holding, At, Pcs
<1>6. CASE Checks(c)
  BY <1>2, <1>6 DEF Checks, NoteInv, Holding, At, Pcs
<1>7. CASE Connects(c)
  <2>1. \A d \in Conns : ~At(d, "remove")'
    BY <1>2, <1>7 DEF Connects, NoteInv, Holding, At, Pcs
  <2> QED
    BY <1>2, <1>7, <2>1 DEF Connects, NoteInv, Holding, At, Pcs
<1>8. CASE Removes(c)
  <2>1. \A d \in Conns : ~At(d, "remove")'
    BY <1>2, <1>8 DEF Removes, NoteInv, Holding, At, Pcs
  <2>2. \A d, e \in Conns : conns'[d].pc \in Holding /\ conns'[e].pc \in Holding => d = e
    BY <1>2, <1>8 DEF Removes, NoteInv, Holding, At, Pcs
  <2>3. CASE bnep0 # conns[c].phone
    BY <1>8, <2>1, <2>2, <2>3 DEF Removes, PanGone, NoteInv
  <2>4. CASE bnep0 = conns[c].phone
    <3>1. bnep0 # NoPeer
      BY <1>0, <1>8, <2>4, PanAssumption DEF Removes, At, Goroutine, NoConn, Conn
    <3>2. removals = <<>> /\ selfTeardown
      BY <1>8, <3>1 DEF Removes, NoteInv
    <3> QED
      BY <1>8, <2>1, <2>2, <2>4, <3>2 DEF Removes, PanGone, NoteInv
  <2> QED
    BY <2>3, <2>4
<1> QED
  BY <1>1, <1>3, <1>4, <1>5, <1>6, <1>7, <1>8 DEF ConnStep

LEMMA HandlesNotes ==
    ASSUME PanTypeOK, NoteInv, Handles
    PROVE  NoteInv'
<1> USE DEF phones, net, marks, clocks
<1>1. CASE handleDeviceConnected
  <2>1. PICK p \in Peers : Connected(p) /\ (Spawn(Conn("nap", p)) \/ UNCHANGED conns)
    BY <1>1 DEF handleDeviceConnected
  <2>2. Calm
    BY <2>1, CalmMoves DEF Pcs, Holding, Calm
  <2> QED
    BY <2>1, <2>2, CalmStep DEF Connected
<1>2. CASE OwnRemoval
  <2>1. removals' = <<>> /\ bnep0' = NoPeer
    BY <1>2, EventsType DEF OwnRemoval, NoteInv, PanTypeOK
  <2> QED
    BY <1>2, <2>1 DEF OwnRemoval, NoteInv, At
<1>3. CASE DropRemoval
  <2>1. removals' = <<>> /\ bnep0' = NoPeer
    BY <1>3, EventsType DEF DropRemoval, NoteInv, PanTypeOK
  <2>2. Calm
    BY <1>3, CalmMoves DEF DropRemoval, PanTypeOK, Pcs, Holding, Calm
  <2> QED
    BY <1>3, <2>1, <2>2 DEF NoteInv, Calm, Holding, At
<1>4. CASE handleDisconnectReason
  BY <1>4, CalmStep DEF handleDisconnectReason, Calm
<1> QED
  BY <1>1, <1>2, <1>3, <1>4 DEF Handles

LEMMA NoteStep ==
    ASSUME PanTypeOK, NoteInv, [PanNext]_panVars
    PROVE  NoteInv'
<1> USE DEF OnlyConns, phones, events, net, marks, clocks
<1>1. ASSUME NEW p \in Peers, PhoneComes(p) \/ PhoneGoes(p) \/ PanDrops(p) \/ LeLinkEnds(p)
      PROVE  NoteInv'
  <2>1. CASE PhoneGoes(p) \/ PanDrops(p)
    BY <2>1, LostStep DEF PhoneGoes, LinkGone, PanDrops
  <2>2. CASE PhoneComes(p) \/ LeLinkEnds(p)
    BY <2>2, CalmStep DEF PhoneComes, LeLinkEnds, Calm
  <2> QED
    BY <1>1, <2>1, <2>2
<1>2. ASSUME NEW p \in Peers,
             RetryAttempt(p) \/ PageDeviceConnects(p) \/ ResumeConnects(p) \/ DisconnectDevice(p)
      PROVE  NoteInv'
  <2>1. UNCHANGED <<bnep0, removals, selfTeardown>>
    BY <1>2 DEF RetryAttempt, PageDeviceConnects, ResumeConnects, DisconnectDevice
  <2>2. UNCHANGED conns \/ \E pc \in {"retry", "forced"} : Spawn(Conn(pc, p))
    BY <1>2 DEF RetryAttempt, PageDeviceConnects, ResumeConnects, DisconnectDevice
  <2>3. Calm
    BY <2>2, CalmMoves DEF Calm, Holding, Pcs
  <2> QED
    BY <2>1, <2>3, CalmStep
<1>3. CASE Disconnected
  <2>1. disconnecting \in Peers
    BY <1>3 DEF Disconnected, PanTypeOK
  <2> QED
    BY <1>3, <2>1, LostStep DEF Disconnected, LinkGone
<1>4. CASE DisconnectFails
  BY <1>4, CalmStep DEF DisconnectFails, Calm
<1>5. CASE NoteExpires
  BY <1>5 DEF NoteExpires, NoteInv, At
<1>6. CASE Passes /\ ~NoteExpires
  BY <1>6, CalmStep DEF Passes, SetOnline, RetryExpires, DropExpires, Ages, MarkExpires,
                        BackoffExpires, Calm
<1>7. CASE UNCHANGED panVars
  BY <1>7, CalmStep DEF panVars, Calm
<1> QED
  BY <1>1, <1>2, <1>3, <1>4, <1>5, <1>6, <1>7, NextSorted, HandlesNotes, ConnNotes

\* The removal that is the daemon's own is taken from the queue by OwnRemoval only, and
\* that changes neither the drops nor the goroutines.
LEMMA QuietStep ==
    ASSUME PanTypeOK, NoteInv, [PanNext]_panVars,
           removals # <<>>, Head(removals) = "own", removals' = Tail(removals)
    PROVE  UNCHANGED <<recentDrop, conns>>
<1> USE DEF OnlyConns, phones, events, net, marks, clocks
<1>1. selfTeardown
  BY DEF NoteInv
<1>2. removals \in Seq({"own", "lost"})
  BY DEF PanTypeOK
<1>3. removals' # removals /\ \A x : removals' # Append(removals, x)
  BY <1>2
<1>4. \A p, cause : ~PanGone(p, cause)
  BY <1>3 DEF PanGone
<1>5. \A c \in Conns : ~ConnStep(c)
  BY <1>3, <1>4 DEF ConnStep, NapFound, NapMissing, RecoverWakes, LookFails, RecoverTries,
       RecoverGivesUp, RetryTries, ConnectSkips, ConnectBegins, ForcedBegins, Removes,
       RemoveFails, Connects, ConnectFails, Checks, Records
<1>6. \A p \in Peers : /\ ~PhoneComes(p) /\ ~PhoneGoes(p) /\ ~PanDrops(p) /\ ~LeLinkEnds(p)
                      /\ ~RetryAttempt(p) /\ ~PageDeviceConnects(p) /\ ~ResumeConnects(p)
                      /\ ~DisconnectDevice(p)
  BY <1>3, <1>4 DEF PhoneComes, PhoneGoes, LinkGone, PanDrops, LeLinkEnds, RetryAttempt,
       PageDeviceConnects, ResumeConnects, DisconnectDevice
<1>7. ~Disconnected /\ ~DisconnectFails /\ ~Passes
  BY <1>3, <1>4 DEF Disconnected, LinkGone, DisconnectFails, Passes, SetOnline, RetryExpires,
       DropExpires, NoteExpires, Ages, MarkExpires, BackoffExpires
<1>8. Handles
  BY <1>3, <1>5, <1>6, <1>7, NextSorted DEF panVars
<1>9. ~handleDeviceConnected /\ ~handleDisconnectReason /\ ~DropRemoval
  BY <1>1, <1>3 DEF handleDeviceConnected, Connected, handleDisconnectReason, DropRemoval
<1>10. OwnRemoval
  BY <1>8, <1>9 DEF Handles
<1> QED
  BY <1>10 DEF OwnRemoval

LEMMA PanFromNotes == \A report : PanFrom(report) => NoteInv
BY DEF PanFrom, NoteInv, At, Holding, NoConn, Conn

\* The removal of bnep0 that a forced reconnect causes is never taken for a drop: it
\* neither excuses a disconnect nor starts a recovery.
THEOREM OwnTeardownQuietHolds == PanSpec => OwnTeardownQuiet
<1>1. PanInit => NoteInv
  BY PanFromNotes DEF PanInit
<1> QED
  BY <1>1, QuietStep, NoteStep, PanTypeCorrect, PTL DEF PanSpec, OwnTeardownQuiet

-----------------------------------------------------------------------------
(* MCBluetooth.                                                            *)

LEMMA PartSteps ==
    ASSUME [Next]_vars
    PROVE  [RetryNext]_retryVars /\ [PanNext]_panVars
<1>1. CASE UNCHANGED vars
  BY <1>1 DEF vars
<1> QED BY <1>1 DEF Next

\* The state of both components keeps its type, whichever of the two runs.
LEMMA BothTyped == Spec => [](TypeOK /\ RetryTyped)
<1>1. Init => TypeOK /\ RetryTyped
  BY RetryInitTyped, PanFromTypes DEF Init, PanInit, TypeOK, RetryTyped
<1>2. ASSUME TypeOK, RetryTyped, [Next]_vars PROVE TypeOK' /\ RetryTyped'
  BY <1>2, PartSteps, RetryTypeStep, PanTypeStep DEF TypeOK, RetryTyped
<1> QED BY <1>1, <1>2, PTL DEF Spec

\* The types of both: the phones, loops and pagers, the goroutines, the events that were
\* not read and the recoveries that were counted.
THEOREM BluetoothTyped == Spec => []TypeOK
BY BothTyped, PTL

\* SingleLoop and OwnTeardownQuiet from where the run starts: BtPan with the first report
\* of the network monitor.
THEOREM BluetoothSafe == Spec => []SingleLoop /\ OwnTeardownQuiet
<1>1. Init => RetryInv /\ NoteInv
  BY RetryInitInv, PanFromNotes DEF Init, PanInit
<1>2. ASSUME TypeOK, RetryTyped, RetryInv, NoteInv, [Next]_vars
      PROVE  RetryInv' /\ NoteInv'
  BY <1>2, PartSteps, RetryStep, NoteStep DEF TypeOK, RetryTyped
<1>3. ASSUME TypeOK, NoteInv, [Next]_vars
      PROVE  [removals # <<>> /\ Head(removals) = "own" /\ removals' = Tail(removals)
                 => UNCHANGED <<recentDrop, conns>>]_panVars
  BY <1>3, PartSteps, QuietStep DEF TypeOK
<1>4. RetryInv => SingleLoop
  BY DEF RetryInv
<1> QED BY <1>1, <1>2, <1>3, <1>4, BothTyped, PTL DEF Spec, OwnTeardownQuiet
=============================================================================
