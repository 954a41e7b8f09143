-------------------------------- MODULE BtPan --------------------------------
(***************************************************************************)
(* The network over Bluetooth (daemon/bluetooth/manager.go and             *)
(* mgmt_watcher.go): when the daemon connects it, and which disconnects it *)
(* takes for the user's wish.                                              *)
(*                                                                         *)
(* The daemon hears of phones from three sources that are read by three    *)
(* goroutines: Connected signals of D-Bus, removals of bnep0 from netlink, *)
(* disconnect reasons from the mgmt socket.  Whatever calls ConnectNetwork *)
(* is a goroutine here; at most one of them holds networkMu.               *)
(*                                                                         *)
(* Ages are classes: a phone connected for less than 45 s is "new", for    *)
(* less than 60 s "settled", then "stable"; a mark, a pause or a note is   *)
(* there until it expires, which is left free but for NoteExpires.  The    *)
(* list of devices, iAP2 and volume keys are not modelled.  All phones are *)
(* known.                                                                  *)
(***************************************************************************)
EXTENDS Naturals, Sequences, SequencesExt

CONSTANTS
    Peers,
    NoPeer,
    Conns,       \* bound: goroutines at once that connect, or may
    MaxEvents,   \* bound: unread events of one source
    panRetryThreshold   \* 3 in the code

ASSUME PanAssumption ==
    /\ NoPeer \notin Peers
    /\ MaxEvents \in Nat \ {0}
    /\ panRetryThreshold \in Nat \ {0}

VARIABLES
    acl,          \* phones that are connected, over BR/EDR, LE or both
    bnep0,        \* the phone behind bnep0
    further,      \* phones behind bnep1, bnep2, ...
    signals,      \* Connected:true on their way
    removals,     \* RTM_DELLINK of bnep0 on their way: "own" or "lost"
    reasons,      \* mgmt disconnect events on their way
    disconnecting,\* the phone DisconnectDevice is about
    conns,        \* goroutines that connect
    monitor,      \* what the network monitor reported last
    lastPanAddress,
    manualDisconnects,
    panBackoff,   \* phones whose panBackoffUntil is ahead
    panSessionUp,
    uptime,       \* per phone, the class of the time since connectedSince
    retries,      \* length of panRetryHistory
    recentDrop,   \* recentNetworkDrop
    selfTeardown  \* selfTeardownAt is set and recent

phones == <<acl, bnep0, further>>
events == <<signals, removals, reasons>>
net == <<monitor, lastPanAddress>>
marks == <<manualDisconnects, panBackoff, panSessionUp>>
clocks == <<uptime, retries, recentDrop, selfTeardown>>
panVars == <<phones, events, disconnecting, conns, net, marks, clocks>>

Reasons == {"remote", "timeout", "auth", "local"}
Event(p, reason) == [phone |-> p, reason |-> reason]

Conn(pc, p) == [pc |-> pc, phone |-> p]
NoConn == Conn("none", NoPeer)

At(c, pc) == conns[c].pc = pc
Becomes(c, new) == conns' = [conns EXCEPT ![c] = new]
Goes(c, pc) == Becomes(c, [conns[c] EXCEPT !.pc = pc])
Spawn(new) == \E c \in Conns : At(c, "none") /\ Becomes(c, new)

OnlyConns == UNCHANGED <<phones, events, disconnecting, net, marks, clocks>>

IsOnline == monitor = "online"
Barred(p) == p \in manualDisconnects \cup panBackoff
NetworkUp == bnep0 # NoPeer
NetworkHeld == \E c \in Conns : conns[c].pc \in {"remove", "connect", "check", "record"}

-----------------------------------------------------------------------------
(* Links come and go, with the events that tell of it.                     *)

PhoneComes(p) ==
    /\ p \notin acl /\ p \notin ToSet(signals)
    /\ acl' = acl \cup {p}
    /\ signals' = Append(signals, p)
    /\ UNCHANGED <<bnep0, further, removals, reasons, disconnecting, conns, net, marks, clocks>>

\* The network of a phone is gone, because of cause.
PanGone(p, cause) ==
    /\ Len(removals) < MaxEvents
    /\ further' = further \ {p}
    /\ IF bnep0 = p
       THEN bnep0' = NoPeer /\ removals' = Append(removals, cause)
       ELSE UNCHANGED <<bnep0, removals>>

LinkGone(p, reason) ==
    /\ p \in acl
    /\ Len(reasons) < MaxEvents
    /\ acl' = acl \ {p}
    /\ reasons' = Append(reasons, Event(p, reason))
    /\ PanGone(p, "lost")

PhoneGoes(p) ==
    /\ \E reason \in Reasons : LinkGone(p, reason)
    /\ UNCHANGED <<signals, disconnecting, conns, net, marks, clocks>>

\* Tethering is switched off, or fails.
PanDrops(p) ==
    /\ p \in {bnep0} \cup further
    /\ PanGone(p, "lost")
    /\ UNCHANGED <<acl, signals, reasons, disconnecting, conns, net, marks, clocks>>

\* One of a phone's two links ends: an event like the end of the last one.
LeLinkEnds(p) ==
    /\ p \in acl
    /\ Len(reasons) < MaxEvents
    /\ \E reason \in Reasons : reasons' = Append(reasons, Event(p, reason))
    /\ UNCHANGED <<phones, signals, removals, disconnecting, conns, net, marks, clocks>>

-----------------------------------------------------------------------------
(* Connected signals.                                                      *)

Connected(p) ==
    /\ signals # <<>> /\ p = Head(signals)
    /\ signals' = Tail(signals)
    /\ manualDisconnects' = manualDisconnects \ {p}
    /\ uptime' = [uptime EXCEPT ![p] = "new"]
    /\ UNCHANGED <<phones, removals, reasons, disconnecting, net, panBackoff,
                   panSessionUp, retries, recentDrop, selfTeardown>>

\* If online, or another phone's network is up, this phone's is not connected;
\* otherwise a goroutine waits for its NAP service.
GatePasses(p) == lastPanAddress # p => ~IsOnline /\ (lastPanAddress = NoPeer \/ ~NetworkUp)

\* What happens during GetDeviceInfo might as well come before or after the handler.
\* It stops there when there is no device info or the phone is not paired.
handleDeviceConnected ==
    \E p \in Peers :
        /\ Connected(p)
        /\ \/ GatePasses(p) /\ Spawn(Conn("nap", p))
           \/ UNCHANGED conns

\* waitForNAPService.  If there is none, the phone may be disconnected and connected
\* again (trySdpRefreshBounce), like by PhoneGoes and PhoneComes.
NapFound(c) ==
    /\ At(c, "nap") /\ conns[c].phone \in acl
    /\ Goes(c, "unforced")
    /\ OnlyConns
NapMissing(c) == At(c, "nap") /\ Becomes(c, NoConn) /\ OnlyConns

-----------------------------------------------------------------------------
(* Removals of bnep0.                                                      *)

OwnRemoval ==
    /\ removals # <<>>
    /\ selfTeardown
    /\ selfTeardown' = FALSE
    /\ removals' = Tail(removals)
    /\ UNCHANGED <<phones, signals, reasons, disconnecting, conns, net, marks, uptime, retries,
                   recentDrop>>

\* Counts as a drop; tryRecoverPan.
DropRemoval ==
    /\ removals # <<>>
    /\ ~selfTeardown
    /\ recentDrop' = TRUE
    /\ removals' = Tail(removals)
    /\ IF lastPanAddress = NoPeer THEN UNCHANGED conns
       ELSE Spawn(Conn("sleep", lastPanAddress))
    /\ UNCHANGED <<phones, signals, reasons, disconnecting, net, marks, uptime, retries,
                   selfTeardown>>

RecoverWakes(c) ==
    /\ At(c, "sleep")
    /\ IF Barred(conns[c].phone) THEN Becomes(c, NoConn) ELSE Goes(c, "recover")
    /\ OnlyConns

\* No device info, or the phone is gone.
LookFails(c) == (At(c, "recover") \/ At(c, "retry")) /\ Becomes(c, NoConn) /\ OnlyConns

Stable(p) == uptime[p] = "stable"

\* Mutant: one too many.
MayRetryOneMore(p) == retries <= (IF Stable(p) THEN 1 ELSE panRetryThreshold)

\* shouldRetryPanThreshold: one recovery in 30 s for a stable session.
MayRetry(p) == retries < (IF Stable(p) THEN 1 ELSE panRetryThreshold)

RecoverTries(c) ==
    /\ At(c, "recover") /\ conns[c].phone \in acl
    /\ MayRetry(conns[c].phone)
    /\ retries' = retries + 1
    /\ Goes(c, "unforced")
    /\ UNCHANGED <<phones, events, disconnecting, net, marks, uptime, recentDrop, selfTeardown>>

RecoverGivesUp(c) ==
    /\ At(c, "recover") /\ conns[c].phone \in acl
    /\ ~MayRetry(conns[c].phone)
    /\ panBackoff' = IF Stable(conns[c].phone) THEN panBackoff \cup {conns[c].phone}
                     ELSE panBackoff
    /\ Becomes(c, NoConn)
    /\ UNCHANGED <<phones, events, disconnecting, net, manualDisconnects, panSessionUp, clocks>>

-----------------------------------------------------------------------------
(* Disconnect reasons.                                                     *)

\* Whether the phone may have a mark after this event: the phone's own disconnect
\* after real use is the user's wish, unless the network was lost just before; the
\* second failed authentication is a lost bond.
Verdicts(e) ==
    LET marked == e.phone \in manualDisconnects
    IN  CASE e.reason = "remote" ->
                IF uptime[e.phone] = "new" THEN {marked}
                ELSE IF recentDrop THEN {FALSE}
                ELSE {marked \/ e.phone \in panSessionUp}
          [] e.reason = "timeout" -> {FALSE}
          [] e.reason = "auth" -> {marked, TRUE}
          [] OTHER -> {marked}

\* Each field has its own lock; what comes in between is as if it came before.
handleDisconnectReason ==
    /\ reasons # <<>>
    /\ LET e == Head(reasons)
       IN  /\ \E marked \in Verdicts(e) :
                manualDisconnects' = IF marked THEN manualDisconnects \cup {e.phone}
                                     ELSE manualDisconnects \ {e.phone}
           /\ panSessionUp' = panSessionUp \ {e.phone}
    /\ reasons' = Tail(reasons)
    /\ UNCHANGED <<phones, signals, removals, disconnecting, conns, net, panBackoff, clocks>>

-----------------------------------------------------------------------------
(* The retry loop, the user and the way back from sleep.                   *)

\* One attempt of a retry loop; BtRetry has its search.
RetryAttempt(p) ==
    /\ monitor = "offline" /\ ~Barred(p)
    /\ Spawn(Conn("retry", p))
    /\ OnlyConns

\* bnep0 up but offline: the connection is forced.
RetryTries(c) ==
    /\ At(c, "retry") /\ conns[c].phone \in acl
    /\ Goes(c, IF NetworkUp THEN "forced" ELSE "unforced")
    /\ OnlyConns

\* The user wants this phone; BtRetry pages it when it is away or has no device info.
PageDeviceConnects(p) ==
    /\ manualDisconnects' = manualDisconnects \ {p}
    /\ panBackoff' = panBackoff \ {p}
    /\ \/ p \in acl /\ Spawn(Conn("forced", p))
       \/ UNCHANGED conns
    /\ UNCHANGED <<phones, events, disconnecting, net, panSessionUp, clocks>>

\* About the phone of the last network, or another one when there was none.
ResumeConnects(p) ==
    /\ lastPanAddress \in {p, NoPeer}
    /\ manualDisconnects' = {}
    /\ \/ p \in acl /\ ~NetworkUp /\ Spawn(Conn("forced", p))
       \/ UNCHANGED conns   \* nothing to do, or no device info
    /\ UNCHANGED <<phones, events, disconnecting, net, panBackoff, panSessionUp, clocks>>

\* The mark comes before the call, and goes if the call fails.
DisconnectDevice(p) ==
    /\ disconnecting = NoPeer
    /\ disconnecting' = p
    /\ manualDisconnects' = manualDisconnects \cup {p}
    /\ UNCHANGED <<phones, events, conns, net, panBackoff, panSessionUp, clocks>>

Disconnected ==
    /\ disconnecting # NoPeer
    /\ LinkGone(disconnecting, "local")
    /\ disconnecting' = NoPeer
    /\ UNCHANGED <<signals, conns, net, marks, clocks>>

DisconnectFails ==
    /\ disconnecting # NoPeer
    /\ disconnecting' = NoPeer
    /\ manualDisconnects' = manualDisconnects \ {disconnecting}
    /\ UNCHANGED <<phones, events, conns, net, panBackoff, panSessionUp, clocks>>

-----------------------------------------------------------------------------
(* connectNetworkInternal, under networkMu.                                *)

AlreadyUp(p) == lastPanAddress = p /\ NetworkUp

ConnectSkips(c) ==
    /\ At(c, "unforced") /\ ~NetworkHeld
    /\ AlreadyUp(conns[c].phone)
    /\ panSessionUp' = panSessionUp \cup {conns[c].phone}
    /\ Becomes(c, NoConn)
    /\ UNCHANGED <<phones, events, disconnecting, net, manualDisconnects, panBackoff, clocks>>

ConnectBegins(c) ==
    /\ At(c, "unforced") /\ ~NetworkHeld
    /\ ~AlreadyUp(conns[c].phone)
    /\ Goes(c, "connect")
    /\ OnlyConns

\* Mutant: the teardown is not noted.
ForcedUnnoted(c) ==
    /\ At(c, "forced") /\ ~NetworkHeld
    /\ Goes(c, "remove")
    /\ OnlyConns

\* noteSelfTeardown
ForcedBegins(c) ==
    /\ At(c, "forced") /\ ~NetworkHeld
    /\ selfTeardown' = TRUE
    /\ Goes(c, "remove")
    /\ UNCHANGED <<phones, events, disconnecting, net, marks, uptime, retries, recentDrop>>

\* Network1.Disconnect; an error is ignored.
Removes(c) ==
    /\ At(c, "remove")
    /\ PanGone(conns[c].phone, "own")
    /\ Goes(c, "connect")
    /\ UNCHANGED <<acl, signals, reasons, disconnecting, net, marks, clocks>>

RemoveFails(c) == At(c, "remove") /\ Goes(c, "connect") /\ OnlyConns

\* Network1.Connect sets up the network, and the link if need be.  netlink has
\* brought all removals by then.
Connects(c) ==
    LET p == conns[c].phone
    IN  /\ At(c, "connect")
        /\ removals = <<>>
        /\ p \notin {bnep0} \cup further
        /\ bnep0' = IF NetworkUp THEN bnep0 ELSE p
        /\ further' = IF NetworkUp THEN further \cup {p} ELSE further
        /\ IF p \in acl THEN UNCHANGED <<acl, signals>>
           ELSE /\ p \notin ToSet(signals)
                /\ acl' = acl \cup {p} /\ signals' = Append(signals, p)
        /\ Goes(c, "check")
        /\ UNCHANGED <<removals, reasons, disconnecting, net, marks, clocks>>

\* Network1.Connect fails, or bnep0 is down again.
ConnectFails(c) ==
    /\ At(c, "connect") \/ (At(c, "check") /\ ~NetworkUp)
    /\ Becomes(c, NoConn)
    /\ OnlyConns

Checks(c) ==
    /\ At(c, "check") /\ NetworkUp
    /\ lastPanAddress' = conns[c].phone
    /\ Goes(c, "record")
    /\ UNCHANGED <<phones, events, disconnecting, monitor, marks, clocks>>

Records(c) ==
    LET p == conns[c].phone
    IN  /\ At(c, "record")
        /\ manualDisconnects' = manualDisconnects \ {p}
        /\ panBackoff' = panBackoff \ {p}
        /\ panSessionUp' = panSessionUp \cup {p}
        /\ Becomes(c, NoConn)
        /\ UNCHANGED <<phones, events, disconnecting, net, clocks>>

ConnStep(c) ==
    \/ NapFound(c) \/ NapMissing(c) \/ RecoverWakes(c) \/ LookFails(c) \/ RecoverTries(c)
    \/ RecoverGivesUp(c) \/ RetryTries(c) \/ ConnectSkips(c) \/ ConnectBegins(c)
    \/ ForcedBegins(c) \/ Removes(c) \/ RemoveFails(c) \/ Connects(c)
    \/ ConnectFails(c) \/ Checks(c) \/ Records(c)

-----------------------------------------------------------------------------
(* Time, and the network monitor.                                          *)

SetOnline ==
    /\ monitor' \in {"online", "offline"} \ {monitor}
    /\ UNCHANGED <<phones, events, disconnecting, conns, lastPanAddress, marks, clocks>>

Ages(p) ==
    /\ \/ uptime[p] = "new" /\ uptime' = [uptime EXCEPT ![p] = "settled"]
       \/ uptime[p] = "settled" /\ uptime' = [uptime EXCEPT ![p] = "stable"]
    /\ UNCHANGED <<phones, events, disconnecting, conns, net, marks, retries, recentDrop,
                   selfTeardown>>

MarkExpires(p) ==
    /\ p \in manualDisconnects
    /\ manualDisconnects' = manualDisconnects \ {p}
    /\ UNCHANGED <<phones, events, disconnecting, conns, net, panBackoff, panSessionUp, clocks>>

BackoffExpires(p) ==
    /\ p \in panBackoff
    /\ panBackoff' = panBackoff \ {p}
    /\ UNCHANGED <<phones, events, disconnecting, conns, net, manualDisconnects, panSessionUp,
                   clocks>>

RetryExpires ==
    /\ retries > 0
    /\ retries' = retries - 1
    /\ UNCHANGED <<phones, events, disconnecting, conns, net, marks, uptime, recentDrop,
                   selfTeardown>>

DropExpires ==
    /\ recentDrop
    /\ recentDrop' = FALSE
    /\ UNCHANGED <<phones, events, disconnecting, conns, net, marks, uptime, retries,
                   selfTeardown>>

\* A removal is read within the 5 s that the note is good for.
NoteExpires ==
    /\ selfTeardown
    /\ removals = <<>> /\ \A c \in Conns : ~At(c, "remove")
    /\ selfTeardown' = FALSE
    /\ UNCHANGED <<phones, events, disconnecting, conns, net, marks, uptime, retries,
                   recentDrop>>

-----------------------------------------------------------------------------
\* A phone that was there before the daemon has no connectedSince unless the snapshot
\* finds it, which is judged as "settled".
PanFrom(report) ==
    /\ acl \in SUBSET Peers
    /\ bnep0 \in acl \cup {NoPeer} /\ further = {}
    /\ signals = <<>> /\ removals = <<>> /\ reasons = <<>>
    /\ disconnecting = NoPeer
    /\ conns = [c \in Conns |-> NoConn]
    /\ monitor = report
    /\ lastPanAddress \in Peers \cup {NoPeer}
    /\ manualDisconnects = {} /\ panBackoff = {} /\ panSessionUp = {}
    /\ uptime \in [Peers -> {"new", "settled"}]
    /\ retries = 0 /\ recentDrop = FALSE /\ selfTeardown = FALSE

PanInit == PanFrom("silent")

Handles == handleDeviceConnected \/ OwnRemoval \/ DropRemoval \/ handleDisconnectReason

PanNext ==
    \/ Handles \/ Disconnected \/ DisconnectFails
    \/ \E c \in Conns : ConnStep(c)
    \/ \E p \in Peers :
        \/ PhoneComes(p) \/ PhoneGoes(p) \/ PanDrops(p) \/ LeLinkEnds(p)
        \/ RetryAttempt(p) \/ PageDeviceConnects(p) \/ ResumeConnects(p)
        \/ DisconnectDevice(p) \/ Ages(p) \/ MarkExpires(p) \/ BackoffExpires(p)
    \/ SetOnline \/ RetryExpires \/ DropExpires \/ NoteExpires

PanSpec == PanInit /\ [][PanNext]_panVars

-----------------------------------------------------------------------------
(* Properties.                                                             *)

Pcs == {"nap", "sleep", "recover", "retry", "unforced", "forced", "remove", "connect", "check",
        "record"}
Goroutine == [pc : Pcs, phone : Peers] \cup {NoConn}

PanTypeOK ==
    /\ acl \subseteq Peers /\ further \subseteq Peers
    /\ {bnep0, disconnecting, lastPanAddress} \subseteq Peers \cup {NoPeer}
    /\ signals \in Seq(Peers) /\ removals \in Seq({"own", "lost"})
    /\ reasons \in Seq([phone : Peers, reason : Reasons])
    /\ conns \in [Conns -> Goroutine]
    /\ monitor \in {"silent", "online", "offline"}
    /\ {recentDrop, selfTeardown} \subseteq BOOLEAN
    /\ manualDisconnects \subseteq Peers /\ panBackoff \subseteq Peers
    /\ panSessionUp \subseteq Peers
    /\ uptime \in [Peers -> {"new", "settled", "stable"}]
    /\ retries \in 0..panRetryThreshold

\* "bnep0 removed by our own forced reconnect, not counting as a drop": the removal
\* that a forced reconnect causes neither excuses a disconnect nor starts a recovery.
OwnTeardownQuiet ==
    [][removals # <<>> /\ Head(removals) = "own" /\ removals' = Tail(removals)
        => UNCHANGED <<recentDrop, conns>>]_panVars

-----------------------------------------------------------------------------
(* Phones that come, and nothing else: no retries, no user, no losses.     *)

Arrivals ==
    \/ \E p \in Peers : PhoneComes(p)
    \/ handleDeviceConnected \/ SetOnline
    \/ \E c \in Conns : ConnStep(c)

\* "if we are already online, a newly connected device must not take over": the phone
\* of the network that is up stays the phone of the network.
NoTakeover ==
    [][IsOnline /\ bnep0 = lastPanAddress /\ NetworkUp => UNCHANGED lastPanAddress]_panVars
=============================================================================
