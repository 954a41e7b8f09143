----------------------------- MODULE Iap2Volume -----------------------------
(***************************************************************************)
(* Volume over iAP2: the supervisor in the daemon                          *)
(* (daemon/bluetooth/iap2_volume.go) and the sidecar process it spawns     *)
(* (iap2/sidecar), joined by two pipes.                                    *)
(*                                                                         *)
(* The manager asks for a session with a phone (EnsureSession) and drops   *)
(* it (DropSession) as phones come and go.  The supervisor writes commands *)
(* to the sidecar's stdin; its pump goroutine reads the states the sidecar *)
(* prints, arms a timer after a failed handshake, and asks again when the  *)
(* process has died.  The sidecar works its commands off one by one; a     *)
(* pump of its own per session reports what the phone does.                *)
(*                                                                         *)
(* External: what the phone answers and when the process dies.  Volume     *)
(* commands change no state and are left out.                              *)
(***************************************************************************)
EXTENDS Naturals, Sequences

CONSTANTS
    Phones,
    NoPhone,
    Pipe,        \* bound: commands or events unread in a pipe
    MaxAsks,     \* bound: calls of the manager
    MaxDeaths    \* bound: deaths of the sidecar

ASSUME Iap2Assumption ==
    /\ NoPhone \notin Phones
    /\ Pipe \in Nat \ {0}
    /\ MaxAsks \in Nat /\ MaxDeaths \in Nat

MaxRetries == 4

\* Bounds, per phone: timers pending, goroutines about to ask.
MaxTimers == 1
MaxAskers == 2

VARIABLES
    want, retries,
    state,       \* the last one read, "none" before any
    closer,      \* Close: "open", "stopped", "waiting" for the process, "done"
    proc,        \* v.cmd: "none", "running", or "exited" and not yet reaped
    timer,       \* pending AfterFunc per phone
    ask,         \* goroutines about to call EnsureSession, per phone
    input,       \* the daemon's end of the process's stdin is open
    stdin,       \* commands the sidecar has not read
    stdout,      \* states the pump has not read
    sidecar,     \* the phone the main loop is connecting to, NoPhone between
                 \* commands
    active,      \* the session
    late,        \* phones with a session that was dropped unidentified and
                 \* whose pump still runs
    asked,       \* history: the phone the manager last asked for and has not
                 \* dropped
    unspawned,   \* history: an attempt to spawn the process failed
    asks, deaths

iap2Vars == <<want, state, retries, closer, proc, timer, ask, input,
              stdin, stdout, sidecar, active, late, asked, unspawned, asks, deaths>>

supervisor == <<want, state, retries, closer, proc, timer, ask>>
process == <<input, stdin, stdout, sidecar, active, late>>
bounds == <<asked, unspawned, asks, deaths>>

Stopped == closer # "open"

Connect(p) == [cmd |-> "connect", phone |-> p]
Disconnect == [cmd |-> "disconnect", phone |-> NoPhone]

Session(p, identified, running) ==
    [phone |-> p, identified |-> identified, running |-> running]
NoSession == Session(NoPhone, FALSE, FALSE)

-----------------------------------------------------------------------------
(* Calls on the supervisor, each under its mutex.                          *)

\* A write to a pipe nobody reads any more, or that Close has closed, fails.
send(c) == stdin' = IF proc = "running" /\ input
                    THEN Append(stdin, c) ELSE stdin

\* Mutant: a closed supervisor spawns all the same.
MaySpawnAlways == TRUE

MaySpawn == ~Stopped

\* The process starts with empty pipes and the first command in one.
Spawn(p) ==
    /\ proc = "none"
    /\ MaySpawn
    /\ proc' = "running"
    /\ input' = TRUE
    /\ stdin' = <<Connect(p)>>

\* ensureRunning and the connect command; spawning may fail.
ensureRunning(p) ==
    \/ Spawn(p) /\ UNCHANGED unspawned
    \/ /\ proc = "none" /\ ~Stopped
       /\ unspawned' = TRUE
       /\ UNCHANGED <<proc, input, stdin>>
    \/ proc = "none" /\ Stopped /\ UNCHANGED <<proc, input, stdin, unspawned>>
    \/ proc # "none" /\ send(Connect(p)) /\ UNCHANGED <<proc, input, unspawned>>

Want(p) ==
    /\ want' = p
    /\ retries' = IF want # p THEN 0 ELSE retries

EnsureSession(p) ==
    /\ Len(stdin) < Pipe
    /\ Want(p)
    /\ ensureRunning(p)
    /\ UNCHANGED <<state, closer, stdout, sidecar, active, late, deaths>>

ManagerEnsures(p) ==
    /\ asks < MaxAsks
    /\ EnsureSession(p)
    /\ asks' = asks + 1
    /\ asked' = p
    /\ UNCHANGED <<timer, ask>>

\* Mutant: only a session that is up is disconnected.
DropConnected(p) ==
    /\ want' = IF want = p THEN NoPhone ELSE want
    /\ IF want = p /\ state = "connected" THEN send(Disconnect) ELSE UNCHANGED stdin

\* A phone that is not the wanted one is none of its business.
Drop(p) ==
    /\ want' = IF want = p THEN NoPhone ELSE want
    /\ IF want = p THEN send(Disconnect) ELSE UNCHANGED stdin

DropSession(p) ==
    /\ asks < MaxAsks
    /\ asks' = asks + 1
    /\ asked' = IF asked = p THEN NoPhone ELSE asked
    /\ Len(stdin) < Pipe
    /\ Drop(p)
    /\ UNCHANGED <<state, retries, closer, proc, timer, ask, input, stdout,
                   sidecar, active, late, unspawned, deaths>>

\* Close: nothing is wanted any more; then stdin is closed, and a process that
\* does not end by itself is killed.
CloseStops ==
    /\ closer = "open"
    /\ closer' = IF proc = "none" THEN "done" ELSE "stopped"
    /\ want' = NoPhone
    /\ asked' = NoPhone
    /\ UNCHANGED <<state, retries, proc, timer, ask, process, unspawned,
                   asks, deaths>>

CloseStdin ==
    /\ closer = "stopped"
    /\ closer' = "waiting"
    /\ input' = FALSE
    /\ UNCHANGED <<want, state, retries, proc, timer, ask, stdin, stdout, sidecar,
                   active, late, bounds>>

ProcessGone ==
    /\ stdin' = <<>>
    /\ sidecar' = NoPhone
    /\ active' = NoSession
    /\ late' = {}

Kill ==
    IF proc = "running" THEN proc' = "exited" /\ ProcessGone
    ELSE UNCHANGED <<proc, stdin, sidecar, active, late>>

CloseEnds ==
    /\ closer = "waiting"
    /\ closer' = "done"
    /\ Kill
    /\ UNCHANGED <<want, state, retries, timer, ask, input, stdout, bounds>>

-----------------------------------------------------------------------------
(* The supervisor's pump, its timers, and the call after an exit.          *)

Resets(s) == s = "connected"

\* Mutant: the pump leaves a failed handshake to the manager.
NeverRetries(s) == FALSE

\* Mutant: there is no end to the retries.
RetriesForEver(s) == s = "disconnected" /\ want # NoPhone /\ ~Stopped

\* A failed handshake ends in "disconnected".
Retries(s) ==
    s = "disconnected" /\ want # NoPhone /\ ~Stopped /\ retries < MaxRetries

PumpState ==
    /\ stdout # <<>>
    /\ LET s == Head(stdout) IN
        /\ state' = s
        /\ IF Retries(s)
           THEN /\ timer[want] < MaxTimers
                /\ retries' = retries + 1
                /\ timer' = [timer EXCEPT ![want] = @ + 1]
           ELSE /\ retries' = IF Resets(s) THEN 0 ELSE retries
                /\ UNCHANGED timer
    /\ stdout' = Tail(stdout)
    /\ UNCHANGED <<want, closer, proc, ask, input, stdin, sidecar, active,
                   late, bounds>>

\* AfterFunc: a look under the lock, the call after it.
TimerFires(p) ==
    /\ timer[p] > 0
    /\ ask[p] < MaxAskers
    /\ timer' = [timer EXCEPT ![p] = @ - 1]
    /\ ask' = IF want = p /\ ~Stopped /\ state # "connected"
              THEN [ask EXCEPT ![p] = @ + 1] ELSE ask
    /\ UNCHANGED <<want, state, retries, closer, proc, process, bounds>>

\* Mutant: after an exit nobody asks again.
ForgetWanted == UNCHANGED ask

AskAfterExit ==
    ask' = IF want # NoPhone /\ ~Stopped THEN [ask EXCEPT ![want] = @ + 1] ELSE ask

\* stdout is at its end: the process is reaped, and what was wanted is asked
\* for after three seconds.
PumpExits ==
    /\ proc = "exited"
    /\ stdout = <<>>
    /\ \A p \in Phones : ask[p] < MaxAskers
    /\ proc' = "none"
    /\ state' = "none"
    /\ AskAfterExit
    /\ UNCHANGED <<want, retries, closer, timer, process, bounds>>

AsksAgain(p) ==
    /\ ask[p] > 0
    /\ ask' = [ask EXCEPT ![p] = @ - 1]
    /\ EnsureSession(p)
    /\ UNCHANGED <<timer, asked, asks>>

-----------------------------------------------------------------------------
(* The sidecar's main loop.                                                *)

emit_state(s) == stdout' = Append(stdout, s)

\* The session is taken out and shut down; its pump goes on.
Take == /\ active' = NoSession
        /\ late' = IF active # NoSession /\ ~active.identified
                   THEN late \cup {active.phone} ELSE late

Idle == proc = "running" /\ sidecar = NoPhone /\ Len(stdout) < Pipe

\* connect: a running session with the phone is only reported.
Running(p) == active.phone = p /\ active.running

ConnectRunning ==
    /\ Idle /\ stdin # <<>>
    /\ Head(stdin).cmd = "connect" /\ Running(Head(stdin).phone)
    /\ stdin' = Tail(stdin)
    /\ emit_state(IF active.identified THEN "connected" ELSE "negotiating")
    /\ UNCHANGED <<supervisor, input, sidecar, active, late, bounds>>

ConnectStarts ==
    /\ Idle /\ stdin # <<>>
    /\ Head(stdin).cmd = "connect" /\ ~Running(Head(stdin).phone)
    /\ stdin' = Tail(stdin)
    /\ Take
    /\ sidecar' = Head(stdin).phone
    /\ emit_state("connecting")
    /\ UNCHANGED <<supervisor, input, bounds>>

\* Mutant: a connection that cannot be established is not reported.
FailSilently == UNCHANGED stdout

ReportFailure == emit_state("disconnected")

\* establish, all its attempts.  The report follows at once; identification takes
\* the phone many messages, so that its report does not overtake this one.
ConnectEnds ==
    /\ proc = "running" /\ sidecar # NoPhone /\ Len(stdout) < Pipe
    /\ \/ active' = Session(sidecar, FALSE, TRUE) /\ emit_state("negotiating")
       \/ UNCHANGED active /\ ReportFailure
    /\ sidecar' = NoPhone
    /\ UNCHANGED <<supervisor, input, stdin, late, bounds>>

disconnect ==
    /\ Take
    /\ IF active # NoSession THEN emit_state("disconnected") ELSE UNCHANGED stdout

DisconnectCommand ==
    /\ Idle /\ stdin # <<>> /\ Head(stdin).cmd = "disconnect"
    /\ stdin' = Tail(stdin)
    /\ disconnect
    /\ UNCHANGED <<supervisor, input, sidecar, bounds>>

\* End of stdin: the daemon went away.
EndOfInput ==
    /\ Idle /\ stdin = <<>> /\ ~input
    /\ IF active # NoSession THEN emit_state("disconnected") ELSE UNCHANGED stdout
    /\ proc' = "exited"
    /\ ProcessGone
    /\ UNCHANGED <<want, state, retries, closer, timer, ask, input, bounds>>

\* External: the process dies.
Dies ==
    /\ proc = "running" /\ deaths < MaxDeaths
    /\ deaths' = deaths + 1
    /\ proc' = "exited"
    /\ ProcessGone
    /\ UNCHANGED <<want, state, retries, closer, timer, ask, input, stdout,
                   asked, unspawned, asks>>

-----------------------------------------------------------------------------
(* The sidecar's pumps.                                                    *)

\* The phone accepts our identification.
Accepted ==
    /\ active.running /\ ~active.identified /\ Len(stdout) < Pipe
    /\ active' = [active EXCEPT !.identified = TRUE]
    /\ emit_state("connected")
    /\ UNCHANGED <<supervisor, input, stdin, sidecar, late, bounds>>

\* The connection is gone, which the pump has not read yet.
LinkEnds ==
    /\ active.running
    /\ active' = [active EXCEPT !.running = FALSE]
    /\ UNCHANGED <<supervisor, input, stdin, stdout, sidecar, late, bounds>>

\* Mutant: a handshake is given all the time it wants.
NoDeadline == ~active.running

\* The connection is gone, or the phone rejected us or let the deadline pass.
Over == ~active.running \/ ~active.identified

Teardown ==
    /\ active # NoSession /\ Over /\ Len(stdout) < Pipe
    /\ active' = NoSession
    /\ emit_state("disconnected")
    /\ UNCHANGED <<supervisor, input, stdin, sidecar, late, bounds>>

\* The pump of a session that was dropped: its connection looks at the flag
\* only between messages, and identification may be the message.
LateAccepted(p) ==
    /\ p \in late /\ Len(stdout) < Pipe
    /\ emit_state("connected")
    /\ late' = late \ {p}
    /\ UNCHANGED <<supervisor, input, stdin, sidecar, active, bounds>>

LateEnds(p) ==
    /\ p \in late
    /\ late' = late \ {p}
    /\ UNCHANGED <<supervisor, input, stdin, stdout, sidecar, active, bounds>>

-----------------------------------------------------------------------------
Iap2Init ==
    /\ want = NoPhone /\ state = "none" /\ retries = 0
    /\ closer = "open"
    /\ proc = "none"
    /\ timer = [p \in Phones |-> 0]
    /\ ask = [p \in Phones |-> 0]
    /\ input = FALSE
    /\ stdin = <<>> /\ stdout = <<>>
    /\ sidecar = NoPhone
    /\ active = NoSession
    /\ late = {}
    /\ asked = NoPhone
    /\ unspawned = FALSE
    /\ asks = 0 /\ deaths = 0

Command == ConnectRunning \/ ConnectStarts \/ ConnectEnds \/ DisconnectCommand

Iap2Next ==
    \/ \E p \in Phones : ManagerEnsures(p)
    \/ \E p \in Phones : DropSession(p)
    \/ CloseStops
    \/ CloseStdin
    \/ CloseEnds
    \/ PumpState
    \/ \E p \in Phones : TimerFires(p)
    \/ PumpExits
    \/ \E p \in Phones : AsksAgain(p)
    \/ ConnectRunning
    \/ ConnectStarts
    \/ ConnectEnds
    \/ DisconnectCommand
    \/ EndOfInput
    \/ Dies
    \/ Accepted
    \/ LinkEnds
    \/ Teardown
    \/ \E p \in Phones : LateAccepted(p)
    \/ \E p \in Phones : LateEnds(p)

Iap2Spec == Iap2Init /\ [][Iap2Next]_iap2Vars

\* Goroutines and tasks run, timers fire, establish ends one way or the other,
\* and a handshake ends at its deadline at the latest.
Iap2Fairness ==
    /\ WF_iap2Vars(CloseStdin \/ CloseEnds)
    /\ WF_iap2Vars(PumpState \/ PumpExits)
    /\ \A p \in Phones : WF_iap2Vars(TimerFires(p)) /\ WF_iap2Vars(AsksAgain(p))
    /\ WF_iap2Vars(Command) /\ WF_iap2Vars(Teardown)

Iap2LiveSpec == Iap2Spec /\ Iap2Fairness

-----------------------------------------------------------------------------
(* Properties.                                                             *)

\* The types of the supervisor's fields, the pipes and the sidecar's session.
Iap2TypeOK ==
    /\ want \in Phones \cup {NoPhone}
    /\ state \in {"none", "connecting", "negotiating", "connected", "disconnected"}
    /\ retries \in 0 .. MaxRetries
    /\ closer \in {"open", "stopped", "waiting", "done"}
    /\ proc \in {"none", "running", "exited"}
    /\ timer \in [Phones -> 0 .. MaxTimers]
    /\ ask \in [Phones -> 0 .. MaxAskers]
    /\ input \in BOOLEAN
    /\ stdin \in Seq([cmd : {"connect"}, phone : Phones] \cup {Disconnect})
    /\ Len(stdin) <= Pipe /\ Len(stdout) <= Pipe
    /\ sidecar \in Phones \cup {NoPhone}
    /\ active \in [phone : Phones, identified : BOOLEAN, running : BOOLEAN]
                  \cup {NoSession}
    /\ late \subseteq Phones
    /\ asked \in Phones \cup {NoPhone}
    /\ unspawned \in BOOLEAN
    /\ asks \in 0 .. MaxAsks /\ deaths \in 0 .. MaxDeaths

\* A session that is wanted is tried for until it is there or four handshakes
\* have failed in a row (unless the process cannot be spawned), though commands
\* are lost with the process, timers look at a state that is not theirs and
\* calls of two phones cross.
KeepsTrying ==
    \A p \in Phones :
        []<>(want # p \/ state = "connected" \/ retries = MaxRetries
             \/ unspawned \/ Stopped)

\* Whatever calls cross, a sidecar that has read its commands has a session with
\* the phone that is wanted or with none.
SessionIsWanted ==
    stdin = <<>> /\ proc = "running" /\ closer = "open" /\ active # NoSession
        => active.phone = want

\* After Close the sidecar ends and none is spawned again, though the pump of
\* one that died may be waiting to ask for it.
SidecarEnds == <>[]Stopped => <>[](proc = "none")

\* iap2_volume_test.go: want must stay cleared after DropSession.
DropStays == asked = NoPhone /\ ~Stopped => want = NoPhone
=============================================================================
