------------------------------- MODULE BtRetry -------------------------------
(***************************************************************************)
(* Getting phones back while offline (daemon/bluetooth/manager.go):        *)
(* SetOfflineRetry starts and stops retry loops, an attempt of a loop      *)
(* brings up the network of a connected phone or has the absent ones paged,*)
(* tryActiveReconnect pages them one after another, in one goroutine at a  *)
(* time.                                                                   *)
(*                                                                         *)
(* A stop channel names its loop; a name is used again when its loop is    *)
(* gone.  Whether a phone is barred (manual-disconnect mark or flap        *)
(* backoff) is decided in BtPan and changes here at any time.              *)
(***************************************************************************)
EXTENDS SeqFilter, SequencesExt

CONSTANTS
    Phones,
    Known,       \* knownDevices in the order of priority
    Loops,       \* bound: retry loops there may be at once
    NoLoop,
    NoPager

Pager == [addrs : Seq(Phones), calling : BOOLEAN]

ASSUME RetryAssumption ==
    /\ Known \in Seq(Phones) /\ Known # <<>>
    /\ NoLoop \notin Loops
    /\ NoPager \notin Pager

VARIABLES
    offlineRetryStop,   \* the loop that SetOfflineRetry(false) would stop
    closed,             \* the loops whose stop channel is closed
    loops,              \* where each retry loop is
    pager,              \* the goroutine of tryActiveReconnect: the phones left,
                        \* whether Device1.Connect runs for the first of them
    lost,               \* phones whose timeout waits to be answered by a page
    connected,          \* phones with a Bluetooth link
    barred              \* phones not to be reconnected

retryVars == <<offlineRetryStop, closed, loops, pager, lost, connected, barred>>

LoopAt(pc, todo, away) == [pc |-> pc, todo |-> todo, away |-> away]
NotRunning == LoopAt("none", <<>>, <<>>)
Waits == LoopAt("wait", <<>>, <<>>)

Paging(addrs) == [addrs |-> addrs, calling |-> FALSE]

Candidates(b) == Filter(Known, Phones \ b)   \* reconnectCandidates

-----------------------------------------------------------------------------
(* SetOfflineRetry, called by the network monitor.                         *)

StartRetry ==
    /\ offlineRetryStop = NoLoop
    /\ \E i \in Loops :
        /\ loops[i].pc = "none"
        /\ offlineRetryStop' = i
        /\ loops' = [loops EXCEPT ![i] = LoopAt("attempt", <<>>, <<>>)]
    /\ UNCHANGED <<closed, pager, lost, connected, barred>>

\* Mutant: the loop is forgotten, its channel is not closed.
StopRetryForgets ==
    /\ offlineRetryStop # NoLoop
    /\ offlineRetryStop' = NoLoop
    /\ UNCHANGED <<closed, loops, pager, lost, connected, barred>>

\* Mutant: a channel is closed whether there is one or not.
StopRetryUnchecked ==
    /\ closed' = closed \cup {offlineRetryStop}
    /\ offlineRetryStop' = NoLoop
    /\ UNCHANGED <<loops, pager, lost, connected, barred>>

StopRetry ==
    /\ offlineRetryStop # NoLoop
    /\ closed' = closed \cup {offlineRetryStop}
    /\ offlineRetryStop' = NoLoop
    /\ UNCHANGED <<loops, pager, lost, connected, barred>>

-----------------------------------------------------------------------------
(* Paging.                                                                 *)

\* tryActiveReconnect: skipped while another call is in flight.
tryActiveReconnect(addrs) ==
    pager' = IF pager = NoPager /\ addrs # <<>> THEN Paging(addrs) ELSE pager

\* A phone barred meanwhile is passed over, any other one is called.
PagerNext ==
    /\ pager # NoPager
    /\ ~pager.calling
    /\ pager' = IF pager.addrs = <<>> THEN NoPager
                ELSE IF Head(pager.addrs) \in barred THEN Paging(Tail(pager.addrs))
                ELSE [pager EXCEPT !.calling = TRUE]
    /\ UNCHANGED <<offlineRetryStop, closed, loops, lost, connected, barred>>

\* Mutant: the goroutine gives up at the first phone that does not answer.
PageFailsEnds ==
    /\ pager # NoPager
    /\ pager.calling
    /\ pager' = NoPager
    /\ UNCHANGED <<offlineRetryStop, closed, loops, lost, connected, barred>>

PageFails ==
    /\ pager # NoPager
    /\ pager.calling
    /\ pager' = Paging(Tail(pager.addrs))
    /\ UNCHANGED <<offlineRetryStop, closed, loops, lost, connected, barred>>

PageSucceeds ==
    /\ pager # NoPager
    /\ pager.calling
    /\ connected' = connected \cup {Head(pager.addrs)}
    /\ pager' = NoPager
    /\ UNCHANGED <<offlineRetryStop, closed, loops, lost, barred>>

-----------------------------------------------------------------------------
(* offlineRetryLoop.                                                       *)

Attempt(i) ==
    /\ loops[i].pc = "attempt"
    /\ loops' = [loops EXCEPT ![i] =
            IF Candidates(barred) = <<>> THEN Waits
            ELSE LoopAt("scan", Candidates(barred), <<>>)]
    /\ UNCHANGED <<offlineRetryStop, closed, pager, lost, connected, barred>>

\* GetDeviceInfo of the next candidate.  A connected one ends the search.
Scan(i) ==
    /\ loops[i].pc = "scan"
    /\ loops[i].todo # <<>>
    /\ LET p == Head(loops[i].todo)
           rest == Tail(loops[i].todo)
       IN  \/ /\ p \in connected
              /\ loops' = [loops EXCEPT ![i] = LoopAt("connect", <<>>, <<>>)]
           \/ /\ p \notin connected
              /\ loops' = [loops EXCEPT ![i] = LoopAt("scan", rest, Append(@.away, p))]
    /\ UNCHANGED <<offlineRetryStop, closed, pager, lost, connected, barred>>

ScanFails(i) ==   \* no device info
    /\ loops[i].pc = "scan"
    /\ loops[i].todo # <<>>
    /\ loops' = [loops EXCEPT ![i] = LoopAt("scan", Tail(@.todo), @.away)]
    /\ UNCHANGED <<offlineRetryStop, closed, pager, lost, connected, barred>>

ScanEnds(i) ==
    /\ loops[i].pc = "scan"
    /\ loops[i].todo = <<>>
    /\ tryActiveReconnect(loops[i].away)
    /\ loops' = [loops EXCEPT ![i] = Waits]
    /\ UNCHANGED <<offlineRetryStop, closed, lost, connected, barred>>

\* ConnectNetwork or ConnectNetworkForced returned.
ConnectReturns(i) ==
    /\ loops[i].pc = "connect"
    /\ loops' = [loops EXCEPT ![i] = Waits]
    /\ UNCHANGED <<offlineRetryStop, closed, pager, lost, connected, barred>>

RetryTick(i) ==
    /\ loops[i].pc = "wait"
    /\ loops' = [loops EXCEPT ![i] = LoopAt("attempt", <<>>, <<>>)]
    /\ UNCHANGED <<offlineRetryStop, closed, pager, lost, connected, barred>>

\* Mutant: the deferred function resets whatever is there.
ForgetAny(i) == offlineRetryStop' = NoLoop

\* The deferred function resets its own channel only.
ForgetStop(i) ==
    offlineRetryStop' = IF offlineRetryStop = i THEN NoLoop ELSE offlineRetryStop

RetryLoopEnds(i) ==
    /\ loops[i].pc = "wait"
    /\ i \in closed
    /\ ForgetStop(i)
    /\ loops' = [loops EXCEPT ![i] = NotRunning]
    /\ closed' = closed \ {i}
    /\ UNCHANGED <<pager, lost, connected, barred>>

RetryLoopStep(i) ==
    Attempt(i) \/ Scan(i) \/ ScanFails(i) \/ ScanEnds(i) \/ ConnectReturns(i) \/ RetryTick(i)

-----------------------------------------------------------------------------
(* Phones, events and the user.                                            *)

\* handleDeviceConnected clears a mark; a backoff stays.
PhoneConnects(p) ==
    /\ p \notin connected
    /\ connected' = connected \cup {p}
    /\ barred' \in {barred, barred \ {p}}
    /\ UNCHANGED <<offlineRetryStop, closed, loops, pager, lost>>

\* The link ends for another reason than a timeout; it may get a mark.
PhoneLeaves(p) ==
    /\ p \in connected
    /\ connected' = connected \ {p}
    /\ barred' \in {barred, barred \cup {p}}
    /\ UNCHANGED <<offlineRetryStop, closed, loops, pager, lost>>

\* Reason timeout: the mark goes, a known phone is paged after a while.
LinkTimesOut(p) ==
    /\ p \in connected
    /\ connected' = connected \ {p}
    /\ barred' \in {barred, barred \ {p}}
    /\ lost' = IF p \in ToSet(Known) THEN lost \cup {p} ELSE lost
    /\ UNCHANGED <<offlineRetryStop, closed, loops, pager>>

TimeoutPages(p) ==
    /\ p \in lost
    /\ lost' = lost \ {p}
    /\ tryActiveReconnect(<<p>>)
    /\ UNCHANGED <<offlineRetryStop, closed, loops, connected, barred>>

\* A mark or backoff begins or expires.
Bars(p) ==
    /\ barred' \in {barred \cup {p}, barred \ {p}}
    /\ UNCHANGED <<offlineRetryStop, closed, loops, pager, lost, connected>>

\* The user's "connect to this phone"; a link that is up gets its network, unless
\* GetDeviceInfo fails.
PageDevice(p) ==
    /\ p \in ToSet(Known)
    /\ barred' = barred \ {p}
    /\ \/ p \in connected /\ UNCHANGED pager
       \/ tryActiveReconnect(<<p>>)
    /\ UNCHANGED <<offlineRetryStop, closed, loops, lost, connected>>

\* Marks go, backoffs stay; all candidates are paged if the phone it is about
\* (the last one with a network, or the first candidate) is away.
RecoverNetworkAfterResume ==
    \E b \in SUBSET barred :
        /\ barred' = b
        /\ \/ UNCHANGED pager   \* no such phone, no device info, or not away
           \/ \E p \in Phones : p \notin connected /\ tryActiveReconnect(Candidates(b))
        /\ UNCHANGED <<offlineRetryStop, closed, loops, lost, connected>>

-----------------------------------------------------------------------------
RetryInit ==
    /\ offlineRetryStop = NoLoop
    /\ closed = {}
    /\ loops = [i \in Loops |-> NotRunning]
    /\ pager = NoPager
    /\ lost = {}
    /\ connected = {} /\ barred = {}

UserPages == RecoverNetworkAfterResume \/ \E p \in Phones : PageDevice(p)

RetryNext ==
    \/ StartRetry \/ StopRetry \/ UserPages
    \/ PagerNext \/ PageFails \/ PageSucceeds
    \/ \E i \in Loops : RetryLoopStep(i) \/ RetryLoopEnds(i)
    \/ \E p \in Phones : PhoneConnects(p) \/ PhoneLeaves(p) \/ LinkTimesOut(p)
                         \/ TimeoutPages(p) \/ Bars(p)

RetrySpec == RetryInit /\ [][RetryNext]_retryVars

\* A loop's select finds its closed stop channel in the end; a page is bounded by
\* its context, a D-Bus call by its timeout.
RetryFairness ==
    /\ WF_retryVars(PagerNext \/ PageFails \/ PageSucceeds)
    /\ \A i \in Loops : WF_retryVars(RetryLoopStep(i))
    /\ SF_retryVars(\E i \in Loops : RetryLoopEnds(i))

-----------------------------------------------------------------------------
(* Properties.                                                             *)

RetryTypeOK ==
    /\ offlineRetryStop \in Loops \cup {NoLoop}
    /\ closed \subseteq Loops
    /\ loops \in [Loops -> [pc : {"none", "attempt", "scan", "connect", "wait"},
                            todo : Seq(Phones), away : Seq(Phones)]]
    /\ pager \in Pager \cup {NoPager}
    /\ lost \subseteq Phones /\ connected \subseteq Phones /\ barred \subseteq Phones

\* A loop that runs and was not told to stop is the one SetOfflineRetry knows: no
\* loop retries for ever beside it, however stops, starts and exits interleave.
SingleLoop ==
    \A i \in Loops : loops[i].pc # "none" /\ i \notin closed => offlineRetryStop = i

\* Once online again all loops end, unless the network is lost once more.
LoopsEnd ==
    []<>(offlineRetryStop # NoLoop \/ \A i \in Loops : loops[i].pc = "none")

Unlucky == UserPages \/ \E i \in Loops : ScanFails(i)
Away == offlineRetryStop # NoLoop /\ connected = {} /\ barred = {}

\* While the daemon is offline and no phone is there, every known phone is paged
\* again and again, the least preferred one too ("bounded so one absent device
\* cant eat the whole attempt"), unless the user keeps asking for pages or device
\* information keeps failing.
EveryoneTried ==
    \/ []<>~Away
    \/ []<><<Unlucky>>_retryVars
    \/ []<>(pager # NoPager /\ pager.calling /\ Head(pager.addrs) = Last(Known))
=============================================================================
