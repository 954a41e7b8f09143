----------------------------- MODULE Services_proofs -----------------------------
(***************************************************************************)
(* The invariants that MCServices checks, for any phones, clients,         *)
(* goroutines and players and for any bounds: SessionIsWanted of           *)
(* Iap2Volume, EmitSafe of EventFanout, PowerLossSafe and SavedIsCurrent   *)
(* of StateStore, TokenUsable of OAuthToken, and the types of all six.     *)
(*                                                                         *)
(* What a component still does in the end needs fairness.  The part that   *)
(* does not, that somebody is left to do it, is SomebodyTries and          *)
(* ClosedForGood of Iap2Volume, WritersEnd of EventFanout, OwnerIsKnown of *)
(* RemoteState and NothingLeftOpen of AccessPoint.                         *)
(*                                                                         *)
(* The components share no state, so each is proved about for itself; the  *)
(* end of the module carries the result over to MCServices.                *)
(***************************************************************************)
EXTENDS MCServices, SequenceTheorems, TLAPS

-----------------------------------------------------------------------------
(* Iap2Volume.                                                             *)
(*                                                                         *)
(* The argument: the supervisor sends a command under the same lock under  *)
(* which it changes its mind, so the last command in the pipe is what it   *)
(* wants (WantedInv).  It is lost with the process only, and a process     *)
(* that does not run has no session (ProcessInv).                          *)

States == {"connecting", "negotiating", "connected", "disconnected"}

\* A process that does not run has read nothing, and while the sidecar connects it
\* has no session.  Its stdin is closed by Close only.
ProcessInv ==
    /\ proc # "running" => stdin = <<>> /\ sidecar = NoPhone /\ active = NoSession
    /\ sidecar # NoPhone => active = NoSession
    /\ proc = "running" /\ closer = "open" => input

\* The last command the sidecar was sent is what the supervisor wants of it; one
\* that has read all of them has done so, or is about to.
LastCommand == IF want = NoPhone THEN Disconnect ELSE Connect(want)

WantedInv ==
    proc = "running" /\ closer = "open" =>
        IF stdin = <<>> THEN {sidecar, active.phone} \subseteq {NoPhone, want}
        ELSE stdin[Len(stdin)] = LastCommand

Commands == [cmd : {"connect"}, phone : Phones] \cup {Disconnect}
Sessions == [phone : Phones, identified : BOOLEAN, running : BOOLEAN] \cup {NoSession}

\* Iap2TypeOK, with what stdout holds.
Iap2Typed ==
    /\ want \in Phones \cup {NoPhone} /\ asked \in Phones \cup {NoPhone}
    /\ state \in {"none"} \cup States
    /\ retries \in 0 .. MaxRetries
    /\ closer \in {"open", "stopped", "waiting", "done"}
    /\ proc \in {"none", "running", "exited"}
    /\ timer \in [Phones -> 0 .. MaxTimers] /\ ask \in [Phones -> 0 .. MaxAskers]
    /\ input \in BOOLEAN /\ unspawned \in BOOLEAN
    /\ stdin \in Seq(Commands) /\ Len(stdin) <= Pipe
    /\ stdout \in Seq(States) /\ Len(stdout) <= Pipe
    /\ sidecar \in Phones \cup {NoPhone}
    /\ active \in Sessions
    /\ late \subseteq Phones
    /\ asks \in 0 .. MaxAsks /\ deaths \in 0 .. MaxDeaths

LEMMA CommandFacts ==
    /\ Disconnect \in Commands
    /\ \A p \in Phones : Connect(p) \in Commands /\ Connect(p).phone = p
    /\ \A c \in Commands :
          \/ c.cmd = "connect" /\ c.phone \in Phones /\ c = Connect(c.phone)
          \/ c.cmd = "disconnect" /\ c = Disconnect
BY DEF Commands, Connect, Disconnect

LEMMA SessionFacts ==
    /\ NoSession \in Sessions /\ NoSession.phone = NoPhone /\ ~NoSession.running
    /\ \A p \in Phones : \A i, r \in BOOLEAN :
          Session(p, i, r) \in Sessions /\ Session(p, i, r).phone = p
    /\ \A s \in Sessions : s # NoSession => s.phone \in Phones
    /\ \A s \in Sessions : s.running =>
          \A t \in {[s EXCEPT !.identified = TRUE], [s EXCEPT !.running = FALSE]} :
             s.phone \in Phones /\ t \in Sessions /\ t.phone = s.phone
<1>1. NoSession \in Sessions /\ NoSession.phone = NoPhone /\ ~NoSession.running
  BY DEF Sessions, NoSession, Session
<1>2. ASSUME NEW p \in Phones, NEW i \in BOOLEAN, NEW r \in BOOLEAN
      PROVE  Session(p, i, r) \in Sessions /\ Session(p, i, r).phone = p
  BY DEF Sessions, Session
<1>3. ASSUME NEW s \in Sessions, s # NoSession PROVE s.phone \in Phones
  BY <1>3 DEF Sessions
<1>4. ASSUME NEW s \in Sessions, s.running,
             NEW t \in {[s EXCEPT !.identified = TRUE], [s EXCEPT !.running = FALSE]}
      PROVE  s.phone \in Phones /\ t \in Sessions /\ t.phone = s.phone
  <2>1. s \in [phone : Phones, identified : BOOLEAN, running : BOOLEAN]
    BY <1>1, <1>4 DEF Sessions
  <2>2. t \in [phone : Phones, identified : BOOLEAN, running : BOOLEAN] /\ t.phone = s.phone
    BY <2>1
  <2> QED BY <2>1, <2>2 DEF Sessions
<1> QED BY <1>1, <1>2, <1>3, <1>4

LEMMA StateFacts ==
    {"connecting", "negotiating", "connected", "disconnected"} = States
BY DEF States

\* What the sidecar reads is the front of the pipe: the last command stays, unless
\* it was the only one.
LEMMA TailLast ==
    ASSUME NEW S, NEW s \in Seq(S), s # <<>>
    PROVE  /\ Head(s) \in S /\ Tail(s) \in Seq(S) /\ Len(Tail(s)) = Len(s) - 1
           /\ Tail(s) = <<>> => Head(s) = s[Len(s)]
           /\ Tail(s) # <<>> => Tail(s)[Len(Tail(s))] = s[Len(s)]
BY HeadTailProperties, EmptySeq, LenProperties, SMT

LEMMA AppendLast ==
    ASSUME NEW S, NEW s \in Seq(S), NEW x \in S
    PROVE  /\ Append(s, x) \in Seq(S) /\ Len(Append(s, x)) = Len(s) + 1
           /\ Append(s, x) # <<>>
           /\ Append(s, x)[Len(Append(s, x))] = x
BY AppendProperties

\* What is written to a pipe and read from it.
LEMMA PipeTypes ==
    ASSUME Iap2Typed
    PROVE  /\ \A s \in States : Len(stdout) < Pipe /\ emit_state(s) =>
                 stdout' \in Seq(States) /\ Len(stdout') <= Pipe
           /\ \A c \in Commands : Len(stdin) < Pipe /\ send(c) =>
                 stdin' \in Seq(Commands) /\ Len(stdin') <= Pipe
           /\ stdin # <<>> /\ stdin' = Tail(stdin) =>
                 /\ stdin' \in Seq(Commands) /\ Len(stdin') <= Pipe
                 /\ Head(stdin) \in Commands
           /\ stdout # <<>> /\ stdout' = Tail(stdout) =>
                 /\ stdout' \in Seq(States) /\ Len(stdout') <= Pipe
                 /\ Head(stdout) \in States
<1> USE Iap2Assumption DEF Iap2Typed
<1>1. Len(stdin) \in Nat /\ Len(stdout) \in Nat
  OBVIOUS
<1>2. ASSUME NEW s \in States, Len(stdout) < Pipe, emit_state(s)
      PROVE  stdout' \in Seq(States) /\ Len(stdout') <= Pipe
  <2>1. Append(stdout, s) \in Seq(States) /\ Len(Append(stdout, s)) = Len(stdout) + 1
    BY AppendLast
  <2> QED BY <1>1, <1>2, <2>1 DEF emit_state
<1>3. ASSUME NEW c \in Commands, Len(stdin) < Pipe, send(c)
      PROVE  stdin' \in Seq(Commands) /\ Len(stdin') <= Pipe
  <2>1. Append(stdin, c) \in Seq(Commands) /\ Len(Append(stdin, c)) = Len(stdin) + 1
    BY AppendLast
  <2> QED BY <1>1, <1>3, <2>1 DEF send
<1>4. ASSUME stdin # <<>>, stdin' = Tail(stdin)
      PROVE  /\ stdin' \in Seq(Commands) /\ Len(stdin') <= Pipe
             /\ Head(stdin) \in Commands
  BY <1>1, <1>4, TailLast
<1>5. ASSUME stdout # <<>>, stdout' = Tail(stdout)
      PROVE  /\ stdout' \in Seq(States) /\ Len(stdout') <= Pipe
             /\ Head(stdout) \in States
  BY <1>1, <1>5, TailLast
<1> QED BY <1>2, <1>3, <1>4, <1>5

\* A session is taken out, and the process goes with all it had.
LEMMA TakeTypes ==
    ASSUME Iap2Typed, Take
    PROVE  active' \in Sessions /\ late' \subseteq Phones
<1>1. active' \in Sessions
  BY SessionFacts DEF Take
<1>2. active # NoSession => active.phone \in Phones
  BY SessionFacts DEF Iap2Typed
<1> QED BY <1>1, <1>2 DEF Iap2Typed, Take

LEMMA GoneTypes ==
    ASSUME ProcessGone
    PROVE  /\ stdin' \in Seq(Commands) /\ Len(stdin') <= Pipe
           /\ sidecar' = NoPhone /\ active' \in Sessions /\ late' \subseteq Phones
<1>1. <<>> \in Seq(Commands) /\ Len(<<>>) <= Pipe
  BY Iap2Assumption
<1> QED BY <1>1, SessionFacts DEF ProcessGone

\* EnsureSession, by the manager or by a goroutine that asks again.
LEMMA EnsureTypes ==
    ASSUME Iap2Typed, NEW p \in Phones, EnsureSession(p),
           timer' \in [Phones -> 0 .. MaxTimers], ask' \in [Phones -> 0 .. MaxAskers],
           asked' \in Phones \cup {NoPhone}, asks' \in 0 .. MaxAsks
    PROVE  Iap2Typed'
<1> USE Iap2Assumption DEF Iap2Typed
<1>1. /\ want' = p /\ retries' \in 0 .. MaxRetries
      /\ UNCHANGED <<state, closer, stdout, sidecar, active, late, deaths>>
  BY DEF EnsureSession, Want, MaxRetries
<1>2. Connect(p) \in Commands
  BY CommandFacts
<1>3. /\ proc' \in {"none", "running", "exited"} /\ input' \in BOOLEAN
      /\ unspawned' \in BOOLEAN
  BY DEF EnsureSession, ensureRunning, Spawn, send
<1>4. Len(stdin) < Pipe /\ Len(<<Connect(p)>>) = 1 /\ <<Connect(p)>> \in Seq(Commands)
  BY <1>2 DEF EnsureSession
<1>5. stdin' \in Seq(Commands) /\ Len(stdin') <= Pipe
  <2>1. CASE stdin' = <<Connect(p)>>
    BY <1>4, <2>1
  <2>2. CASE send(Connect(p))
    BY <1>2, <1>4, <2>2, PipeTypes
  <2>3. CASE stdin' = stdin
    BY <2>3
  <2> QED BY <2>1, <2>2, <2>3 DEF EnsureSession, ensureRunning, Spawn
<1> QED BY <1>1, <1>3, <1>5

LEMMA Iap2TypeStep ==
    ASSUME Iap2Typed, [Iap2Next]_iap2Vars
    PROVE  Iap2Typed'
<1> USE Iap2Assumption DEF Iap2Typed, supervisor, process, bounds
<1>1. ASSUME NEW p \in Phones, ManagerEnsures(p) PROVE Iap2Typed'
  <2>1. /\ EnsureSession(p) /\ UNCHANGED <<timer, ask>>
        /\ asked' = p /\ asks' \in 0 .. MaxAsks
    BY <1>1 DEF ManagerEnsures
  <2> QED BY <2>1, EnsureTypes
<1>2. ASSUME NEW p \in Phones, DropSession(p) PROVE Iap2Typed'
  <2>1. (stdin' = stdin \/ send(Disconnect)) /\ Len(stdin) < Pipe
    BY <1>2 DEF DropSession, Drop
  <2>2. stdin' \in Seq(Commands) /\ Len(stdin') <= Pipe
    BY <2>1, PipeTypes, CommandFacts
  <2>3. /\ want' \in Phones \cup {NoPhone} /\ asked' \in Phones \cup {NoPhone}
        /\ asks' \in 0 .. MaxAsks
    BY <1>2 DEF DropSession, Drop
  <2> QED BY <1>2, <2>2, <2>3 DEF DropSession
<1>3. CASE CloseStops
  BY <1>3 DEF CloseStops
<1>4. CASE CloseStdin
  BY <1>4 DEF CloseStdin
<1>5. CASE CloseEnds
  <2>1. \/ proc' = "exited" /\ ProcessGone
        \/ UNCHANGED <<proc, stdin, sidecar, active, late>>
    BY <1>5 DEF CloseEnds, Kill
  <2>2. /\ closer' = "done"
        /\ UNCHANGED <<want, state, retries, timer, ask, input, stdout, bounds>>
    BY <1>5 DEF CloseEnds
  <2>3. CASE proc' = "exited" /\ ProcessGone
    BY <2>2, <2>3, SessionFacts DEF ProcessGone
  <2>4. CASE UNCHANGED <<proc, stdin, sidecar, active, late>>
    BY <2>2, <2>4
  <2> QED BY <2>1, <2>3, <2>4
<1>6. CASE PumpState
  <2>1. stdout' \in Seq(States) /\ Len(stdout') <= Pipe /\ state' \in States
    BY <1>6, PipeTypes DEF PumpState
  <2>2. retries' \in 0 .. MaxRetries /\ timer' \in [Phones -> 0 .. MaxTimers]
    <3>1. CASE /\ want \in Phones /\ timer[want] < MaxTimers
               /\ timer' = [timer EXCEPT ![want] = @ + 1]
               /\ retries < MaxRetries /\ retries' = retries + 1
      BY <3>1 DEF MaxRetries, MaxTimers
    <3>2. CASE UNCHANGED timer /\ retries' \in {0, retries}
      BY <3>2 DEF MaxRetries
    <3> QED BY <1>6, <3>1, <3>2 DEF PumpState, Retries
  <2> QED BY <1>6, <2>1, <2>2 DEF PumpState
<1>7. ASSUME NEW p \in Phones, TimerFires(p) PROVE Iap2Typed'
  BY <1>7 DEF TimerFires, MaxTimers, MaxAskers
<1>8. CASE PumpExits
  BY <1>8 DEF PumpExits, AskAfterExit, MaxAskers
<1>9. ASSUME NEW p \in Phones, AsksAgain(p) PROVE Iap2Typed'
  <2>1. ask' \in [Phones -> 0 .. MaxAskers]
    BY <1>9 DEF AsksAgain, MaxAskers
  <2> QED BY <1>9, <2>1, EnsureTypes DEF AsksAgain
<1>10. CASE ConnectRunning
  BY <1>10, PipeTypes, StateFacts DEF ConnectRunning, Idle, emit_state
<1>11. CASE ConnectStarts
  <2>1. stdout' \in Seq(States) /\ Len(stdout') <= Pipe
    BY <1>11, PipeTypes, StateFacts DEF ConnectStarts, Idle
  <2>2. /\ stdin' \in Seq(Commands) /\ Len(stdin') <= Pipe
        /\ Head(stdin) \in Commands /\ sidecar' = Head(stdin).phone
    BY <1>11, PipeTypes DEF ConnectStarts
  <2>3. sidecar' \in Phones \cup {NoPhone}
    BY <1>11, <2>2, CommandFacts DEF ConnectStarts, Connect, Disconnect
  <2>4. active' \in Sessions /\ late' \subseteq Phones
    BY <1>11, TakeTypes DEF ConnectStarts
  <2> QED BY <1>11, <2>1, <2>2, <2>3, <2>4 DEF ConnectStarts
<1>12. CASE ConnectEnds
  <2>1. stdout' \in Seq(States) /\ Len(stdout') <= Pipe
    BY <1>12, PipeTypes, StateFacts DEF ConnectEnds, ReportFailure
  <2>2. active' \in Sessions
    BY <1>12, SessionFacts DEF ConnectEnds
  <2> QED BY <1>12, <2>1, <2>2 DEF ConnectEnds
<1>13. CASE DisconnectCommand
  <2>1. stdout' \in Seq(States) /\ Len(stdout') <= Pipe
    BY <1>13, PipeTypes, StateFacts DEF DisconnectCommand, disconnect, Idle
  <2>2. stdin' \in Seq(Commands) /\ Len(stdin') <= Pipe
    BY <1>13, PipeTypes DEF DisconnectCommand
  <2>3. active' \in Sessions /\ late' \subseteq Phones
    BY <1>13, TakeTypes DEF DisconnectCommand, disconnect
  <2> QED BY <1>13, <2>1, <2>2, <2>3 DEF DisconnectCommand
<1>14. CASE EndOfInput
  <2>1. stdout' \in Seq(States) /\ Len(stdout') <= Pipe
    BY <1>14, PipeTypes, StateFacts DEF EndOfInput, Idle
  <2>2. /\ stdin' \in Seq(Commands) /\ Len(stdin') <= Pipe
        /\ sidecar' = NoPhone /\ active' \in Sessions /\ late' \subseteq Phones
    BY <1>14, GoneTypes DEF EndOfInput
  <2> QED BY <1>14, <2>1, <2>2 DEF EndOfInput
<1>15. CASE Dies
  <2>1. /\ stdin' \in Seq(Commands) /\ Len(stdin') <= Pipe
        /\ sidecar' = NoPhone /\ active' \in Sessions /\ late' \subseteq Phones
    BY <1>15, GoneTypes DEF Dies
  <2>2. deaths' \in 0 .. MaxDeaths
    BY <1>15 DEF Dies
  <2> QED BY <1>15, <2>1, <2>2 DEF Dies
<1>16. CASE Accepted \/ LinkEnds \/ Teardown
  <2>1. CASE Accepted
    <3>1. active' \in Sessions
      BY <2>1, SessionFacts DEF Accepted
    <3>2. stdout' \in Seq(States) /\ Len(stdout') <= Pipe
      BY <2>1, PipeTypes, StateFacts DEF Accepted
    <3> QED BY <2>1, <3>1, <3>2 DEF Accepted
  <2>2. CASE LinkEnds
    <3>1. active' \in Sessions
      BY <2>2, SessionFacts DEF LinkEnds
    <3> QED BY <2>2, <3>1 DEF LinkEnds
  <2>3. CASE Teardown
    <3>1. active' \in Sessions
      BY <2>3, SessionFacts DEF Teardown
    <3>2. stdout' \in Seq(States) /\ Len(stdout') <= Pipe
      BY <2>3, PipeTypes, StateFacts DEF Teardown
    <3> QED BY <2>3, <3>1, <3>2 DEF Teardown
  <2> QED BY <1>16, <2>1, <2>2, <2>3
<1>17. ASSUME NEW p \in Phones, LateAccepted(p) \/ LateEnds(p) PROVE Iap2Typed'
  <2>1. stdout' \in Seq(States) /\ Len(stdout') <= Pipe
    BY <1>17, PipeTypes, StateFacts DEF LateAccepted, LateEnds
  <2>2. late' \subseteq Phones
    BY <1>17 DEF LateAccepted, LateEnds
  <2> QED BY <1>17, <2>1, <2>2 DEF LateAccepted, LateEnds
<1>18. CASE UNCHANGED iap2Vars
  BY <1>18 DEF iap2Vars
<1> QED
  BY <1>1, <1>2, <1>3, <1>4, <1>5, <1>6, <1>7, <1>8, <1>9, <1>10, <1>11, <1>12, <1>13,
     <1>14, <1>15, <1>16, <1>17, <1>18
  DEF Iap2Next

-----------------------------------------------------------------------------
\* EnsureSession leaves the process as the supervisor wants it, if it runs.
LEMMA EnsureWants ==
    ASSUME Iap2Typed, ProcessInv, NEW p \in Phones, EnsureSession(p)
    PROVE  ProcessInv' /\ WantedInv'
<1> USE Iap2Assumption DEF Iap2Typed
<1>1. want' = p /\ p # NoPhone /\ LastCommand' = Connect(p) /\ Connect(p) \in Commands
  BY CommandFacts DEF EnsureSession, Want, LastCommand
<1>2. UNCHANGED <<closer, sidecar, active>>
  BY DEF EnsureSession
<1>3. CASE Spawn(p)
  <2>1. <<Connect(p)>> # <<>> /\ <<Connect(p)>>[Len(<<Connect(p)>>)] = Connect(p)
    OBVIOUS
  <2> QED BY <1>1, <1>2, <1>3, <2>1 DEF Spawn, ProcessInv, WantedInv
<1>4. CASE proc # "running" /\ UNCHANGED <<proc, input, stdin>>
  BY <1>2, <1>4 DEF ProcessInv, WantedInv
<1>5. CASE proc # "none" /\ send(Connect(p)) /\ UNCHANGED <<proc, input>>
  <2>1. Append(stdin, Connect(p)) # <<>>
        /\ Append(stdin, Connect(p))[Len(Append(stdin, Connect(p)))] = Connect(p)
    BY <1>1, AppendLast
  <2> QED BY <1>1, <1>2, <1>5, <2>1 DEF send, ProcessInv, WantedInv
<1> QED BY <1>3, <1>4, <1>5 DEF EnsureSession, ensureRunning

\* The sidecar reads a command.
LEMMA ReadLast ==
    ASSUME stdin \in Seq(Commands), stdin # <<>>, stdin' = Tail(stdin)
    PROVE  /\ stdin' = <<>> => Head(stdin) = stdin[Len(stdin)]
           /\ stdin' # <<>> => stdin'[Len(stdin')] = stdin[Len(stdin)]
BY TailLast

LEMMA Iap2InvStep ==
    ASSUME Iap2Typed, ProcessInv, WantedInv, [Iap2Next]_iap2Vars
    PROVE  ProcessInv' /\ WantedInv'
<1> USE Iap2Assumption DEF Iap2Typed, supervisor, process, bounds, ProcessInv
<1> USE SessionFacts
<1>1. ASSUME NEW p \in Phones, ManagerEnsures(p) \/ AsksAgain(p)
      PROVE  ProcessInv' /\ WantedInv'
  BY <1>1, EnsureWants DEF ManagerEnsures, AsksAgain
<1>2. ASSUME NEW p \in Phones, DropSession(p) PROVE ProcessInv' /\ WantedInv'
  <2>1. Append(stdin, Disconnect) # <<>>
        /\ Append(stdin, Disconnect)[Len(Append(stdin, Disconnect))] = Disconnect
    BY CommandFacts, AppendLast
  <2> QED BY <1>2, <2>1 DEF DropSession, Drop, send, WantedInv, LastCommand
<1>3. CASE CloseStops \/ CloseStdin
  BY <1>3 DEF CloseStops, CloseStdin, WantedInv
<1>4. CASE CloseEnds
  BY <1>4 DEF CloseEnds, Kill, ProcessGone, WantedInv
<1>5. CASE PumpState
  BY <1>5 DEF PumpState, WantedInv, LastCommand
<1>6. ASSUME NEW p \in Phones, TimerFires(p) PROVE ProcessInv' /\ WantedInv'
  BY <1>6 DEF TimerFires, WantedInv, LastCommand
<1>7. CASE PumpExits
  BY <1>7 DEF PumpExits, WantedInv
<1>8. CASE ConnectRunning
  <2>1. /\ stdin # <<>> /\ stdin' = Tail(stdin) /\ Head(stdin).cmd = "connect"
        /\ active.phone = Head(stdin).phone
        /\ UNCHANGED <<want, proc, closer, input, sidecar, active>> /\ sidecar = NoPhone
    BY <1>8 DEF ConnectRunning, Running, Idle
  <2>2. Head(stdin) = LastCommand => active.phone = want
    BY <2>1 DEF LastCommand, Connect, Disconnect
  <2>3. /\ stdin' = <<>> => Head(stdin) = stdin[Len(stdin)]
        /\ stdin' # <<>> => stdin'[Len(stdin')] = stdin[Len(stdin)]
    BY <2>1, ReadLast
  <2>4. LastCommand' = LastCommand
    BY <2>1 DEF LastCommand
  <2>5. WantedInv'
    BY <2>1, <2>2, <2>3, <2>4 DEF WantedInv
  <2> QED BY <2>1, <2>5
<1>9. CASE ConnectStarts
  <2>1. /\ stdin # <<>> /\ stdin' = Tail(stdin) /\ Head(stdin).cmd = "connect"
        /\ sidecar' = Head(stdin).phone /\ active' = NoSession /\ proc = "running"
        /\ UNCHANGED <<want, proc, closer, input>>
    BY <1>9 DEF ConnectStarts, Take, Idle
  <2>2. Head(stdin) = LastCommand => sidecar' = want
    BY <2>1 DEF LastCommand, Connect, Disconnect
  <2>3. /\ stdin' = <<>> => Head(stdin) = stdin[Len(stdin)]
        /\ stdin' # <<>> => stdin'[Len(stdin')] = stdin[Len(stdin)]
    BY <2>1, ReadLast
  <2>4. LastCommand' = LastCommand
    BY <2>1 DEF LastCommand
  <2>5. WantedInv'
    BY <2>1, <2>2, <2>3, <2>4 DEF WantedInv
  <2> QED BY <2>1, <2>5
<1>10. CASE ConnectEnds
  BY <1>10 DEF ConnectEnds, ReportFailure, WantedInv, LastCommand
<1>11. CASE DisconnectCommand
  <2>1. /\ stdin # <<>> /\ stdin' = Tail(stdin)
        /\ active' = NoSession /\ sidecar = NoPhone /\ proc = "running"
        /\ UNCHANGED <<want, proc, closer, input, sidecar>>
    BY <1>11 DEF DisconnectCommand, disconnect, Take, Idle
  <2>2. stdin' # <<>> => stdin'[Len(stdin')] = stdin[Len(stdin)]
    BY <2>1, ReadLast
  <2>3. LastCommand' = LastCommand
    BY <2>1 DEF LastCommand
  <2>4. WantedInv'
    BY <2>1, <2>2, <2>3 DEF WantedInv
  <2> QED BY <2>1, <2>4
<1>12. CASE EndOfInput
  BY <1>12 DEF EndOfInput, ProcessGone, WantedInv
<1>13. CASE Dies
  BY <1>13 DEF Dies, ProcessGone, WantedInv
<1>14. CASE Accepted \/ LinkEnds \/ Teardown
  <2>1. CASE Accepted
    BY <2>1 DEF Accepted, WantedInv, LastCommand
  <2>2. CASE LinkEnds
    BY <2>2 DEF LinkEnds, WantedInv, LastCommand
  <2>3. CASE Teardown
    BY <2>3 DEF Teardown, WantedInv, LastCommand
  <2> QED BY <1>14, <2>1, <2>2, <2>3
<1>15. ASSUME NEW p \in Phones, LateAccepted(p) \/ LateEnds(p)
       PROVE  ProcessInv' /\ WantedInv'
  BY <1>15 DEF LateAccepted, LateEnds, WantedInv, LastCommand
<1>16. CASE UNCHANGED iap2Vars
  BY <1>16 DEF iap2Vars, WantedInv, LastCommand
<1> QED
  BY <1>1, <1>2, <1>3, <1>4, <1>5, <1>6, <1>7, <1>8, <1>9, <1>10, <1>11, <1>12, <1>13,
     <1>14, <1>15, <1>16
  DEF Iap2Next

LEMMA Iap2InitInv == Iap2Init => Iap2Typed /\ ProcessInv /\ WantedInv
<1> SUFFICES ASSUME Iap2Init PROVE Iap2Typed /\ ProcessInv /\ WantedInv
  OBVIOUS
<1>1. /\ timer \in [Phones -> 0 .. MaxTimers] /\ ask \in [Phones -> 0 .. MaxAskers]
      /\ 0 \in 0 .. MaxRetries /\ 0 \in 0 .. MaxAsks /\ 0 \in 0 .. MaxDeaths
  BY Iap2Assumption DEF Iap2Init, MaxTimers, MaxAskers, MaxRetries
<1>2. <<>> \in Seq(Commands) /\ <<>> \in Seq(States) /\ Len(<<>>) <= Pipe
  BY Iap2Assumption
<1>3. Iap2Typed
  BY <1>1, <1>2, SessionFacts DEF Iap2Init, Iap2Typed
<1>4. ProcessInv /\ WantedInv
  BY DEF Iap2Init, ProcessInv, WantedInv
<1> QED BY <1>3, <1>4

LEMMA Iap2Invariance == Iap2Spec => [](Iap2Typed /\ ProcessInv /\ WantedInv)
BY Iap2InitInv, Iap2TypeStep, Iap2InvStep, PTL DEF Iap2Spec

LEMMA Iap2Types == Iap2Typed => Iap2TypeOK
BY DEF Iap2Typed, Iap2TypeOK, States, Commands, Sessions

\* Whatever calls of the manager, timers and goroutines that ask again cross, and
\* whenever the process dies: a sidecar that has read its commands has a session
\* with the phone that is wanted, or with none.
THEOREM SessionIsOfTheWanted == Iap2Spec => []SessionIsWanted
<1>1. Iap2Typed /\ ProcessInv /\ WantedInv => SessionIsWanted
  BY Iap2Assumption, SessionFacts DEF Iap2Typed, WantedInv, SessionIsWanted
<1> QED BY <1>1, Iap2Invariance, PTL

-----------------------------------------------------------------------------
(* The part of KeepsTrying that needs no fairness.                         *)
(*                                                                         *)
(* The argument: a sidecar that is at nothing any more has said so.  The   *)
(* last state it has reported is then "connected" or "disconnected"        *)
(* (Reported), and the pump arms a timer when it reads the latter.         *)

AtWork == stdin # <<>> \/ sidecar # NoPhone \/ active # NoSession

Reported ==
    IF stdout # <<>> THEN stdout[Len(stdout)] \in {"connected", "disconnected"}
    ELSE \/ state = "connected"
         \/ state = "disconnected" /\ timer[want] > 0
         \/ state = "disconnected" /\ retries = MaxRetries

Tries ==
    ~Stopped /\ want # NoPhone /\ ~unspawned =>
        \/ proc = "exited"
        \/ ask[want] > 0
        \/ proc = "running" /\ (AtWork \/ Reported)

LEMMA EmitReports ==
    ASSUME Iap2Typed, NEW s \in {"connected", "disconnected"}, emit_state(s)
    PROVE  Reported'
<1>1. s \in States /\ stdout \in Seq(States)
  BY StateFacts DEF Iap2Typed
<1>2. stdout' # <<>> /\ stdout'[Len(stdout')] = s
  BY <1>1, AppendLast DEF emit_state
<1> QED BY <1>2 DEF Reported

LEMMA EnsureTries ==
    ASSUME Iap2Typed, ProcessInv, NEW p \in Phones, EnsureSession(p)
    PROVE  Tries'
<1>1. CASE Spawn(p)
  BY <1>1 DEF Spawn, Tries, AtWork
<1>2. CASE proc = "none" /\ (unspawned' = TRUE \/ Stopped)
  BY <1>2 DEF EnsureSession, Tries, Stopped
<1>3. CASE proc # "none" /\ send(Connect(p)) /\ UNCHANGED <<proc, input, unspawned>>
  <2>1. closer' = closer /\ stdin \in Seq(Commands) /\ Connect(p) \in Commands
    BY CommandFacts DEF EnsureSession, Iap2Typed
  <2>2. Append(stdin, Connect(p)) # <<>>
    BY <2>1, AppendLast
  <2>3. proc \in {"running", "exited"}
    BY <1>3 DEF Iap2Typed
  <2>4. closer = "open" /\ proc = "running" => stdin' # <<>>
    BY <1>3, <2>2 DEF send, ProcessInv
  <2> QED BY <1>3, <2>1, <2>3, <2>4 DEF Tries, AtWork, Stopped
<1> QED BY <1>1, <1>2, <1>3 DEF EnsureSession, ensureRunning

LEMMA TriesStep ==
    ASSUME Iap2Typed, ProcessInv, WantedInv, Tries, [Iap2Next]_iap2Vars
    PROVE  Tries'
<1> USE Iap2Assumption DEF Iap2Typed, supervisor, process, bounds, Stopped
<1>1. ASSUME NEW p \in Phones, ManagerEnsures(p) \/ AsksAgain(p) PROVE Tries'
  BY <1>1, EnsureTries DEF ManagerEnsures, AsksAgain
<1>2. ASSUME NEW p \in Phones, DropSession(p) PROVE Tries'
  BY <1>2 DEF DropSession, Drop, Tries, AtWork, Reported
<1>3. CASE CloseStops \/ CloseStdin \/ CloseEnds
  BY <1>3 DEF CloseStops, CloseStdin, CloseEnds, Tries
<1>4. CASE PumpState
  <2>1. /\ stdout # <<>> /\ stdout' = Tail(stdout) /\ state' = Head(stdout)
        /\ UNCHANGED <<want, closer, proc, ask, stdin, sidecar, active, unspawned>>
    BY <1>4 DEF PumpState
  <2>2. /\ Tail(stdout) = <<>> => Head(stdout) = stdout[Len(stdout)]
        /\ Tail(stdout) # <<>> => Tail(stdout)[Len(Tail(stdout))] = stdout[Len(stdout)]
    BY <2>1, TailLast
  <2>3. ASSUME ~Stopped, want # NoPhone, state' = "disconnected"
        PROVE  timer'[want] > 0 \/ retries' = MaxRetries
    <3>1. CASE Retries(Head(stdout))
      <4>1. timer' = [timer EXCEPT ![want] = timer[want] + 1] /\ timer[want] \in Nat
        BY <1>4, <2>3, <3>1 DEF PumpState, MaxTimers
      <4> QED BY <2>3, <4>1
    <3>2. CASE ~Retries(Head(stdout))
      <4>1. retries' = retries /\ retries \in 0 .. MaxRetries
        BY <1>4, <2>1, <2>3, <3>2 DEF PumpState, Resets
      <4>2. ~(retries < MaxRetries)
        BY <2>1, <2>3, <3>2 DEF Retries
      <4> QED BY <4>1, <4>2 DEF MaxRetries
    <3> QED BY <3>1, <3>2
  <2>4. ASSUME ~Stopped, want # NoPhone, Reported PROVE Reported'
    BY <2>1, <2>2, <2>3, <2>4 DEF Reported
  <2> QED BY <2>1, <2>4 DEF Tries, AtWork
<1>5. ASSUME NEW p \in Phones, TimerFires(p) PROVE Tries'
  <2>1. /\ UNCHANGED <<want, state, retries, closer, proc, stdin, stdout, sidecar, active,
                       unspawned>>
        /\ timer' = [timer EXCEPT ![p] = @ - 1] /\ ask[p] \in Nat
        /\ ask' = IF want = p /\ ~Stopped /\ state # "connected"
                  THEN [ask EXCEPT ![p] = ask[p] + 1] ELSE ask
    BY <1>5 DEF TimerFires, MaxAskers
  <2>2. CASE want = p /\ ~Stopped /\ state # "connected"
    <3>1. ask'[want'] > 0
      BY <2>1, <2>2
    <3> QED BY <3>1 DEF Tries
  <2>3. CASE want # p
    <3>1. want # NoPhone => timer'[want] = timer[want]
      BY <2>1, <2>3
    <3> QED BY <2>1, <2>3, <3>1 DEF Tries, AtWork, Reported
  <2>4. CASE Stopped \/ state = "connected"
    BY <2>1, <2>4 DEF Tries, AtWork, Reported
  <2> QED BY <2>2, <2>3, <2>4
<1>6. CASE PumpExits
  <2>1. ASSUME want # NoPhone, ~Stopped PROVE ask'[want] > 0
    <3>1. ask' = [ask EXCEPT ![want] = ask[want] + 1] /\ ask[want] \in Nat
      BY <1>6, <2>1 DEF PumpExits, AskAfterExit, MaxAskers
    <3> QED BY <2>1, <3>1
  <2> QED BY <1>6, <2>1 DEF PumpExits, Tries
<1>7. CASE ConnectRunning
  <2>1. active # NoSession
    BY <1>7, SessionFacts DEF ConnectRunning, Running
  <2> QED BY <1>7, <2>1 DEF ConnectRunning, Idle, Tries, AtWork
<1>8. CASE ConnectStarts
  <2>1. Head(stdin) \in Commands
    BY <1>8, TailLast DEF ConnectStarts
  <2>2. sidecar' \in Phones
    BY <1>8, <2>1, CommandFacts DEF ConnectStarts
  <2> QED BY <1>8, <2>2 DEF ConnectStarts, Idle, Tries, AtWork
<1>9. CASE ConnectEnds
  <2>1. CASE active' = Session(sidecar, FALSE, TRUE)
    <3>1. active' # NoSession
      BY <1>9, <2>1, SessionFacts DEF ConnectEnds
    <3> QED BY <1>9, <3>1 DEF ConnectEnds, Tries, AtWork
  <2>2. CASE ReportFailure
    BY <1>9, <2>2, EmitReports DEF ConnectEnds, ReportFailure, Tries
  <2> QED BY <1>9, <2>1, <2>2 DEF ConnectEnds
<1>10. CASE DisconnectCommand
  <2>1. /\ stdin # <<>> /\ stdin' = Tail(stdin) /\ Head(stdin).cmd = "disconnect"
        /\ proc = "running" /\ UNCHANGED <<want, closer, proc>>
    BY <1>10 DEF DisconnectCommand, Idle
  <2>2. want # NoPhone => LastCommand.cmd = "connect"
    BY DEF LastCommand, Connect
  <2>3. want # NoPhone /\ ~Stopped => stdin' # <<>>
    BY <2>1, <2>2, TailLast DEF WantedInv
  <2> QED BY <2>1, <2>3 DEF Tries, AtWork
<1>11. CASE EndOfInput \/ Dies
  BY <1>11 DEF EndOfInput, Dies, Tries
<1>12. CASE Accepted \/ LinkEnds
  <2>1. /\ active \in Sessions /\ active.running /\ proc' = proc
        /\ active' \in {[active EXCEPT !.identified = TRUE], [active EXCEPT !.running = FALSE]}
    BY <1>12 DEF Accepted, LinkEnds
  <2>2. active.phone \in Phones /\ active'.phone = active.phone
    BY <2>1, SessionFacts
  <2>3. active # NoSession /\ active' # NoSession
    BY <2>2, SessionFacts
  <2>4. proc = "running"
    BY <2>3 DEF ProcessInv
  <2> QED BY <2>1, <2>3, <2>4 DEF Tries, AtWork
<1>13. CASE Teardown
  <2>1. Reported' /\ proc' = "running"
    BY <1>13, EmitReports DEF Teardown, ProcessInv
  <2> QED BY <2>1 DEF Tries
<1>14. ASSUME NEW p \in Phones, LateAccepted(p) PROVE Tries'
  <2>1. Reported' /\ UNCHANGED <<want, closer, proc, ask, stdin, sidecar, active, unspawned>>
    BY <1>14, EmitReports DEF LateAccepted
  <2> QED BY <2>1 DEF Tries
<1>15. CASE UNCHANGED <<want, state, retries, closer, proc, timer, ask, stdin, stdout,
                        sidecar, active, unspawned>>
  BY <1>15 DEF Tries, AtWork, Reported
<1> QED
  BY <1>1, <1>2, <1>3, <1>4, <1>5, <1>6, <1>7, <1>8, <1>9, <1>10, <1>11, <1>12, <1>13,
     <1>14, <1>15
  DEF Iap2Next, iap2Vars, LateEnds

\* As long as a session is wanted, not there and not given up after four failed
\* handshakes, something is going on that leads to the next attempt: a goroutine is
\* about to ask, a timer runs, the pump has a state to read or a dead process to reap,
\* or the sidecar is at it.  No crossing of calls, timers, deaths and late reports of
\* a dropped session loses the last of them (pump, EnsureSession, DropSession).
THEOREM SomebodyTries ==
    Iap2Spec =>
        [](~Stopped /\ want # NoPhone /\ ~unspawned
           /\ state # "connected" /\ retries # MaxRetries =>
               \/ proc = "exited" \/ ask[want] > 0 \/ timer[want] > 0
               \/ proc = "running" /\ (AtWork \/ stdout # <<>>))
<1>1. Iap2Init => Tries
  BY DEF Iap2Init, Tries
<1>2. Tries => (~Stopped /\ want # NoPhone /\ ~unspawned
                /\ state # "connected" /\ retries # MaxRetries =>
                    \/ proc = "exited" \/ ask[want] > 0 \/ timer[want] > 0
                    \/ proc = "running" /\ (AtWork \/ stdout # <<>>))
  BY DEF Tries, Reported
<1> QED BY <1>1, <1>2, TriesStep, Iap2Invariance, PTL DEF Iap2Spec

-----------------------------------------------------------------------------
\* The part of SidecarEnds that needs no fairness: Close is final, and what was
\* closed comes no nearer to a running process.
StaysDown ==
    Stopped => /\ Stopped'
               /\ proc' = "running" => proc = "running"
               /\ proc = "none" => proc' = "none"

\* Once Close has returned no sidecar runs, and from its first line on none is
\* spawned, though the pump of a dead one, the timers and the goroutines that ask
\* again are still about to call EnsureSession (ensureRunning, Close).
THEOREM ClosedForGood ==
    Iap2Spec => [](closer = "done" => proc # "running") /\ [][StaysDown]_iap2Vars
<1> DEFINE Down == closer = "done" => proc # "running"
<1>1. Iap2Init => Down
  BY DEF Iap2Init
<1>2. ASSUME [Iap2Next]_iap2Vars
      PROVE  (Down => Down') /\ StaysDown
  <2> USE DEF Stopped, StaysDown
  <2>1. ASSUME NEW p \in Phones, EnsureSession(p) PROVE (Down => Down') /\ StaysDown
    <3>1. closer' = closer /\ (proc' = "running" => proc = "running" \/ ~Stopped)
          /\ (proc = "none" /\ Stopped => proc' = "none")
      BY <2>1 DEF EnsureSession, ensureRunning, Spawn, MaySpawn, send
    <3> QED BY <3>1
  <2>2. CASE CloseStops \/ CloseStdin \/ CloseEnds
    BY <2>2 DEF CloseStops, CloseStdin, CloseEnds, Kill
  <2>3. CASE PumpExits \/ EndOfInput \/ Dies
    BY <2>3 DEF PumpExits, EndOfInput, Idle, Dies
  <2>4. CASE UNCHANGED <<closer, proc>>
    BY <2>4
  <2> QED
    BY <1>2, <2>1, <2>2, <2>3, <2>4
    DEF Iap2Next, iap2Vars, supervisor, ManagerEnsures, AsksAgain, DropSession, PumpState,
        TimerFires, ConnectRunning, ConnectStarts, ConnectEnds, DisconnectCommand,
        Accepted, LinkEnds, Teardown, LateAccepted, LateEnds
<1>3. [Iap2Next]_iap2Vars => [StaysDown]_iap2Vars
  BY <1>2
<1> HIDE DEF Down
<1> QED BY <1>1, <1>2, <1>3, PTL DEF Iap2Spec, Down

-----------------------------------------------------------------------------
(* EventFanout.                                                            *)
(*                                                                         *)
(* The argument: an Emit holds the read lock from its first client to its  *)
(* last, so the clients it still has to come to are registered (EmitInv);  *)
(* a registered client is not closed, since whoever closes it has taken it *)
(* out before (RemoveInv), and closeOnce lets one through (OnceInv).       *)

EmitInv ==
    \A e \in Emitters :
        /\ emit[e].left \subseteq clients
        /\ emit[e].pc = "idle" => emit[e].left = {}

\* Closed through closeOnce: by one that is inside it.
OnceInv ==
    \A c \in Clients :
        /\ c \in closed <=> once[c] = "done"
        /\ writer[c] \in {"unlink", "close"} =>
              once[c] = "busy" /\ reader[c] \notin {"unlink", "close"}
        /\ reader[c] \in {"unlink", "close"} => once[c] = "busy"

\* A client is registered once, when its goroutines start, and taken out before
\* its channel is closed.
RemoveInv ==
    \A c \in Clients :
        /\ writer[c] = "none" => reader[c] = "none" /\ once[c] = "free"
        /\ c \in clients =>
              /\ writer[c] \notin {"none", "close"} /\ reader[c] # "close"
              /\ once[c] # "done" /\ c \notin detach.left
        /\ c \in detach.left => writer[c] # "none"

\* The parts of FanoutTypeOK that the argument needs.
Shape ==
    /\ clients \subseteq Clients /\ closed \subseteq Clients
    /\ emit \in [Emitters -> [pc : {"idle", "emit"}, left : SUBSET Clients]]
    /\ once \in [Clients -> {"free", "busy", "done"}]
    /\ writer \in [Clients -> {"none", "range", "write", "remove", "unlink", "close",
                               "done"}]
    /\ reader \in [Clients -> {"none", "read", "remove", "unlink", "close", "done"}]
    /\ detach \in [pc : {"open", "flagged", "detached"}, left : SUBSET Clients]

FanoutInv == Shape /\ EmitInv /\ OnceInv /\ RemoveInv /\ EmitSafe

-----------------------------------------------------------------------------
LEMMA FanoutStep ==
    ASSUME FanoutInv, [FanoutNext]_fanoutVars
    PROVE  FanoutInv'
<1> USE DEF FanoutInv, Shape, EmitInv, OnceInv, RemoveInv, EmitSafe
<1>1. ASSUME NEW c \in Clients, Events(c) PROVE FanoutInv'
  BY <1>1 DEF Events, Unlocked
<1>2. ASSUME NEW c \in Clients, WriterRange(c) PROVE FanoutInv'
  BY <1>2 DEF WriterRange, WriterAt
<1>3. ASSUME NEW c \in Clients, WriterWrites(c) PROVE FanoutInv'
  BY <1>3 DEF WriterWrites, WriterAt
<1>4. ASSUME NEW c \in Clients, ReaderFails(c) PROVE FanoutInv'
  BY <1>4 DEF ReaderFails
<1>5. ASSUME NEW c \in Clients, RemoveEnter(c) PROVE FanoutInv'
  BY <1>5 DEF RemoveEnter, First, Remover, WriterAt, OnceAt
<1>6. ASSUME NEW c \in Clients, RemoveUnlinks(c) PROVE FanoutInv'
  BY <1>6 DEF RemoveUnlinks, Remover, WriterAt, Unlink, Unlocked
<1>7. ASSUME NEW c \in Clients, RemoveCloses(c) PROVE FanoutInv'
  <2>1. once[c] = "busy" /\ c \notin closed /\ c \notin clients
    BY <1>7 DEF RemoveCloses, Remover
  <2>2. /\ closed' = closed \cup {c} /\ once' = [once EXCEPT ![c] = "done"]
        /\ UNCHANGED <<closing, clients, emit, held, detach>>
    BY <1>7 DEF RemoveCloses, CloseChannel, OnceAt
  <2>3. EmitSafe'
    BY <1>7, <2>1 DEF RemoveCloses, CloseChannel
  <2>4. \/ /\ writer[c] = "close" /\ writer' = [writer EXCEPT ![c] = "done"]
           /\ UNCHANGED reader
        \/ /\ reader[c] = "close" /\ reader' = [reader EXCEPT ![c] = "done"]
           /\ UNCHANGED writer
    BY <1>7 DEF RemoveCloses, Remover, WriterAt
  <2>5. Shape'
    BY <2>2, <2>4
  <2>6. OnceInv'
    BY <2>1, <2>2, <2>4
  <2>7. RemoveInv'
    BY <2>1, <2>2, <2>4
  <2> QED BY <2>2, <2>3, <2>5, <2>6, <2>7
<1>8. ASSUME NEW e \in Emitters, EmitLocks(e) PROVE FanoutInv'
  BY <1>8 DEF EmitLocks, EmitAt, NoEmit
<1>9. ASSUME NEW e \in Emitters, EmitSends(e) PROVE FanoutInv'
  <2>1. PICK c \in emit[e].left :
           /\ paniced' = (paniced \/ c \in closed)
           /\ EmitAt(e, emit[e].left \ {c})
    BY <1>9 DEF EmitSends
  <2>2. UNCHANGED <<closing, clients, closed, once, writer, reader, detach>>
    BY <1>9 DEF EmitSends
  <2>3. EmitSafe'
    BY <2>1
  <2>4. emit' \in [Emitters -> [pc : {"idle", "emit"}, left : SUBSET Clients]] /\ EmitInv'
    BY <2>1, <2>2 DEF EmitAt, NoEmit
  <2> QED BY <2>2, <2>3, <2>4
<1>10. CASE CloseFlags
  BY <1>10 DEF CloseFlags, Detach
<1>11. CASE CloseDetaches
  BY <1>11 DEF CloseDetaches, Detach, Unlocked
<1>12. ASSUME NEW c \in Clients, CloseClient(c) PROVE FanoutInv'
  <2>1. /\ c \in detach.left /\ detach' = Detach("detached", detach.left \ {c})
        /\ UNCHANGED <<closing, clients, emit, held, writer, reader>>
    BY <1>12 DEF CloseClient
  <2>2. CASE once[c] = "free" /\ CloseChannel(c)
    <3>1. closed' = closed \cup {c} /\ once' = [once EXCEPT ![c] = "done"]
      BY <2>2 DEF CloseChannel, OnceAt
    <3>2. EmitSafe'
      BY <2>2 DEF CloseChannel
    <3>3. Shape'
      BY <2>1, <3>1 DEF Detach
    <3>4. OnceInv' /\ RemoveInv'
      BY <2>1, <2>2, <3>1 DEF Detach
    <3> QED BY <2>1, <3>2, <3>3, <3>4
  <2>3. CASE UNCHANGED <<closed, once, paniced>>
    BY <2>1, <2>3 DEF Detach
  <2> QED BY <1>12, <2>2, <2>3 DEF CloseClient
<1>13. CASE UNCHANGED fanoutVars
  BY <1>13 DEF fanoutVars
<1> QED
  BY <1>1, <1>2, <1>3, <1>4, <1>5, <1>6, <1>7, <1>8, <1>9, <1>10, <1>11, <1>12, <1>13
  DEF FanoutNext

-----------------------------------------------------------------------------
\* Emit, the writers, the read loops and Close in any order: nothing is sent on a
\* closed channel, and no channel is closed twice.
THEOREM EmitIsSafe == FanoutSpec => []EmitSafe
<1>1. FanoutInit => FanoutInv
  BY DEF FanoutInit, FanoutInv, Shape, EmitInv, OnceInv, RemoveInv, EmitSafe, NoEmit, Detach
<1>2. FanoutInv => EmitSafe
  BY DEF FanoutInv
<1> QED
  BY <1>1, <1>2, FanoutStep, PTL DEF FanoutSpec

\* Who is going to end the writer of a client that is no longer registered.
Ending(c) ==
    \/ c \in closed \/ c \in detach.left
    \/ {writer[c], reader[c]} \cap {"unlink", "close"} # {}

\* A writer waits for ever on a channel that nobody closes.  None does: whoever has
\* taken the client out, the read loop, the writer itself or Close, has closed its
\* channel or is on the way to; and an Emit under way has a client to come to, so
\* that it never keeps the lock for nothing (removeClient, Emit, Close).
THEOREM WritersEnd ==
    FanoutSpec =>
        [](/\ \A c \in Clients : writer[c] # "none" /\ c \notin clients => Ending(c)
           /\ \A e \in Emitters : emit[e].pc = "emit" => emit[e].left # {})
<1> DEFINE Entered == \A c \in Clients :
                         once[c] = "busy" =>
                            {writer[c], reader[c]} \cap {"unlink", "close"} # {}
           TakenOut == \A c \in Clients :
                          writer[c] # "none" /\ c \notin clients =>
                             c \in closed \/ once[c] = "busy" \/ c \in detach.left
           Nobody == detach.pc # "detached" => detach.left = {}
           Working == \A e \in Emitters : emit[e].pc = "emit" => emit[e].left # {}
           Inv == Entered /\ TakenOut /\ Nobody /\ Working
<1>1. FanoutInit => FanoutInv /\ Inv
  BY DEF FanoutInit, FanoutInv, Shape, EmitInv, OnceInv, RemoveInv, EmitSafe, NoEmit, Detach
<1>2. ASSUME FanoutInv, Inv, [FanoutNext]_fanoutVars PROVE Inv'
  <2> USE <1>2 DEF FanoutInv, Shape, OnceInv
  <2>1. ASSUME NEW c \in Clients,
               Events(c) \/ WriterRange(c) \/ WriterWrites(c) \/ ReaderFails(c)
        PROVE  Inv'
    BY <2>1 DEF Events, WriterRange, WriterWrites, WriterAt, ReaderFails
  <2>2. ASSUME NEW c \in Clients, RemoveEnter(c) PROVE Inv'
    BY <2>2 DEF RemoveEnter, First, Remover, WriterAt, OnceAt
  <2>3. ASSUME NEW c \in Clients, RemoveUnlinks(c) PROVE Inv'
    BY <2>3 DEF RemoveUnlinks, Remover, WriterAt, Unlink
  <2>4. ASSUME NEW c \in Clients, RemoveCloses(c) PROVE Inv'
    BY <2>4 DEF RemoveCloses, Remover, WriterAt, CloseChannel, OnceAt
  <2>5. ASSUME NEW e \in Emitters, EmitLocks(e) PROVE Inv'
    BY <2>5 DEF EmitLocks, EmitAt, NoEmit
  <2>6. ASSUME NEW e \in Emitters, EmitSends(e) PROVE Inv'
    BY <2>6 DEF EmitSends, EmitAt, NoEmit
  <2>7. CASE CloseFlags \/ CloseDetaches
    BY <2>7 DEF CloseFlags, CloseDetaches, Detach
  <2>8. ASSUME NEW c \in Clients, CloseClient(c) PROVE Inv'
    BY <2>8 DEF CloseClient, CloseChannel, OnceAt, Detach
  <2>9. CASE UNCHANGED fanoutVars
    BY <2>9 DEF fanoutVars
  <2> QED
    BY <2>1, <2>2, <2>3, <2>4, <2>5, <2>6, <2>7, <2>8, <2>9 DEF FanoutNext
<1>3. Inv => /\ \A c \in Clients : writer[c] # "none" /\ c \notin clients => Ending(c)
             /\ \A e \in Emitters : emit[e].pc = "emit" => emit[e].left # {}
  BY DEF Ending
<1> HIDE DEF Inv
<1> QED BY <1>1, <1>2, <1>3, FanoutStep, PTL DEF FanoutSpec

LEMMA FanoutTypeStep ==
    ASSUME FanoutInv, FanoutTypeOK, [FanoutNext]_fanoutVars
    PROVE  FanoutTypeOK'
<1>1. Shape'
  BY FanoutStep DEF FanoutInv
<1>2. closing' \in BOOLEAN /\ paniced' \in BOOLEAN
  BY DEF FanoutTypeOK, FanoutNext, fanoutVars, Events, WriterRange, WriterWrites,
         ReaderFails, RemoveEnter, RemoveUnlinks, RemoveCloses, CloseChannel, EmitLocks,
         EmitSends, CloseFlags, CloseDetaches, CloseClient
<1>3. held' \in [Clients -> 0 .. wsClientBuffer]
  <2> USE FanoutAssumption DEF FanoutTypeOK
  <2>1. ASSUME NEW c \in Clients, WriterRange(c) PROVE held' \in [Clients -> 0 .. wsClientBuffer]
    BY <2>1 DEF WriterRange
  <2>2. ASSUME NEW e \in Emitters, EmitSends(e) PROVE held' \in [Clients -> 0 .. wsClientBuffer]
    BY <2>2 DEF EmitSends, Offer
  <2>3. CASE UNCHANGED held
    BY <2>3
  <2> QED
    BY <2>1, <2>2, <2>3 DEF FanoutNext, fanoutVars, Events, WriterWrites, ReaderFails,
       RemoveEnter, RemoveUnlinks, RemoveCloses, EmitLocks, CloseFlags, CloseDetaches,
       CloseClient
<1> QED BY <1>1, <1>2, <1>3 DEF FanoutTypeOK, Shape

LEMMA FanoutTyped == FanoutSpec => []FanoutTypeOK
<1>1. FanoutInit => FanoutInv
  BY DEF FanoutInit, FanoutInv, Shape, EmitInv, OnceInv, RemoveInv, EmitSafe, NoEmit, Detach
<1>2. FanoutInit => FanoutTypeOK
  <2> SUFFICES ASSUME FanoutInit PROVE FanoutTypeOK
    OBVIOUS
  <2>1. Shape
    BY <1>1 DEF FanoutInv
  <2>2. held \in [Clients -> 0 .. wsClientBuffer]
    BY FanoutAssumption DEF FanoutInit
  <2> QED BY <2>1, <2>2 DEF FanoutInit, FanoutTypeOK, Shape
<1> QED BY <1>1, <1>2, FanoutStep, FanoutTypeStep, PTL DEF FanoutSpec

-----------------------------------------------------------------------------
(* StateStore.                                                             *)
(*                                                                         *)
(* The argument: the lock of app.state is held from encoding to the end of *)
(* Save, so while a goroutine saves, the memory is what it encoded         *)
(* (LockInv), and its save number is the greatest of all but a wipe's      *)
(* (DiskInv).  What the state path may name is then never older than the   *)
(* last Save that reached the directory.                                   *)

Saving(e) == editor[e].pc \in {"sync", "rename", "dirsync"}

\* What is counted was counted: a content has no more changes than were made.
Counted(c) == c.known <= changes /\ c.field <= changes

BoundInv ==
    /\ knownDevices <= changes
    /\ Counted(mem) /\ Counted(file.content)
    /\ \A f \in onDisk : Counted(f.content)
    /\ \A e \in Editors : Counted(temp[e].content) /\ editor[e].known <= changes

\* Who saves holds the lock, and what it has encoded is still the memory.
LockInv ==
    /\ \A e \in Editors : Saving(e) <=> stateLock = e
    /\ \A e \in Editors : Saving(e) => temp[e].content = mem

\* How far a save has come.
SaveInv ==
    \A e \in Editors :
        /\ Saving(e) => durable <= temp[e].save /\ temp[e].save <= saves
        /\ editor[e].pc \in {"rename", "dirsync"} => temp[e].synced
        /\ editor[e].pc = "dirsync" =>
              /\ temp[e].save <= file.save
              /\ ~unsaved => file.content = mem

DiskInv ==
    /\ durable <= saves
    /\ file \in onDisk
    /\ PowerLossSafe

TypeInv == StoreTypeOK /\ BoundInv
StoreInv == LockInv /\ SaveInv /\ DiskInv /\ SavedIsCurrent

-----------------------------------------------------------------------------
\* The types of what Load restores.
LEMMA LoadTypes ==
    ASSUME TypeInv, NEW f \in onDisk \cup {file}, Load(f),
           UNCHANGED <<durable, saves, changes>>, onDisk' \subseteq onDisk
    PROVE  TypeInv'
<1> USE DEF TypeInv, StoreTypeOK, BoundInv, Counted, Load, State, Count, File, At, NoFile, Blank
<1>1. f \in [save : Nat, content : State, synced : BOOLEAN] /\ Counted(f.content)
  OBVIOUS
<1>2. 0 \in Count /\ 0 <= changes
  BY StoreAssumption
<1> QED BY <1>1, <1>2

\* A step of a save, as far as types go: it changes e's temporary file and pc.
LEMMA SaveTypes ==
    ASSUME TypeInv, NEW e \in Editors,
           NEW t \in [save : Nat, content : State, synced : BOOLEAN], Counted(t.content),
           temp' = [temp EXCEPT ![e] = t],
           NEW pc \in {"idle", "sync", "rename", "dirsync"},
           editor' = [editor EXCEPT ![e] = At(pc, 0)],
           file' \in {file, temp[e]}, onDisk' \subseteq onDisk \cup {file, temp[e]},
           stateLock' \in Editors \cup {NoEditor}, unsaved' \in BOOLEAN,
           durable' \in Nat, saves' \in Nat, UNCHANGED <<knownDevices, mem, changes>>
    PROVE  TypeInv'
<1> USE StoreAssumption DEF TypeInv
<1>1. temp' \in [Editors -> [save : Nat, content : State, synced : BOOLEAN]]
  BY DEF StoreTypeOK
<1>2. editor' \in [Editors -> [pc : {"idle", "assign", "save", "sync", "rename",
                                    "dirsync"}, known : Count]]
  BY DEF StoreTypeOK, At, Count
<1>3. file' \in [save : Nat, content : State, synced : BOOLEAN]
  BY DEF StoreTypeOK
<1>4. onDisk' \subseteq [save : Nat, content : State, synced : BOOLEAN]
  BY DEF StoreTypeOK
<1>5. StoreTypeOK'
  BY <1>1, <1>2, <1>3, <1>4 DEF StoreTypeOK
<1>6. Counted(mem)' /\ Counted(file.content)' /\ (\A f \in onDisk : Counted(f.content))'
  BY DEF BoundInv, Counted, StoreTypeOK
<1>7. \A d \in Editors : Counted(temp[d].content)' /\ (editor[d].known <= changes)'
  BY DEF BoundInv, Counted, StoreTypeOK, At, Count
<1> QED BY <1>5, <1>6, <1>7 DEF BoundInv

LEMMA TypeStep ==
    ASSUME TypeInv, [StoreNext]_storeVars
    PROVE  TypeInv'
<1> USE StoreAssumption DEF TypeInv, StoreTypeOK, BoundInv, Counted, State, Count, File, At
<1>1. ASSUME NEW e \in Editors, ChangeKnown(e) PROVE TypeInv'
  BY <1>1 DEF ChangeKnown
<1>2. ASSUME NEW e \in Editors, AssignKnown(e) PROVE TypeInv'
  BY <1>2 DEF AssignKnown
<1>3. ASSUME NEW e \in Editors, ChangeField(e) PROVE TypeInv'
  BY <1>3 DEF ChangeField
<1>4. ASSUME NEW e \in Editors, SaveEncodes(e) PROVE TypeInv'
  <2>1. File(saves + 1, mem, FALSE) \in [save : Nat, content : State, synced : BOOLEAN]
    OBVIOUS
  <2> QED BY <1>4, <2>1, SaveTypes DEF SaveEncodes, LockToTheEnd
<1>5. ASSUME NEW e \in Editors, SaveSyncs(e) PROVE TypeInv'
  BY <1>5, SaveTypes DEF SaveSyncs, Sync
<1>6. ASSUME NEW e \in Editors, SaveRenames(e) PROVE TypeInv'
  <2>1. temp' = [temp EXCEPT ![e] = temp[e]]
    BY <1>6 DEF SaveRenames
  <2> QED BY <1>6, <2>1, SaveTypes DEF SaveRenames
<1>7. ASSUME NEW e \in Editors, SaveSyncsDir(e) \/ SaveSkipsDir(e) \/ SaveFails(e)
      PROVE  TypeInv'
  <2>1. NoFile \in [save : Nat, content : State, synced : BOOLEAN] /\ Counted(NoFile.content)
    BY DEF NoFile, Blank
  <2>2. CASE SaveSyncsDir(e)
    BY <2>1, <2>2, SaveTypes DEF SaveSyncsDir, Unlock, DirSync
  <2>3. CASE SaveSkipsDir(e)
    BY <2>1, <2>3, SaveTypes DEF SaveSkipsDir, Unlock
  <2>4. CASE SaveFails(e)
    BY <2>1, <2>4, SaveTypes DEF SaveFails, Unlock
  <2> QED BY <1>7, <2>2, <2>3, <2>4
<1>9. CASE Wipe
  <2>1. changes' = changes + 1 /\ changes' \in 0 .. MaxChanges
    BY <1>9 DEF Wipe
  <2>2. /\ file' \in [save : Nat, content : State, synced : BOOLEAN]
        /\ Counted(file.content)'
    BY <1>9, <2>1 DEF Wipe, Blank
  <2>3. onDisk' \subseteq [save : Nat, content : State, synced : BOOLEAN]
    BY <1>9, <2>2 DEF Wipe
  <2>4. StoreTypeOK'
    BY <1>9, <2>1, <2>2, <2>3 DEF Wipe
  <2>5. \A f \in onDisk' : Counted(f.content)'
    BY <1>9, <2>1, <2>2 DEF Wipe
  <2> QED BY <1>9, <2>1, <2>2, <2>4, <2>5 DEF Wipe
<1>10. CASE ProcessDies
  BY <1>10, LoadTypes DEF ProcessDies
<1>11. CASE PowerLoss
  BY <1>11, LoadTypes DEF PowerLoss
<1>12. CASE UNCHANGED storeVars
  BY <1>12 DEF storeVars
<1> QED
  BY <1>1, <1>2, <1>3, <1>4, <1>5, <1>6, <1>7, <1>9, <1>10, <1>11, <1>12
  DEF StoreNext

-----------------------------------------------------------------------------
\* Load leaves nobody saving and the memory what the file is.
LEMMA LoadStep ==
    ASSUME TypeInv, StoreInv, NEW f \in onDisk, Load(f),
           UNCHANGED <<durable, saves, changes>>,
           f \in onDisk', onDisk' \subseteq onDisk
    PROVE  StoreInv'
<1> USE StoreAssumption DEF StoreInv, LockInv, SaveInv, DiskInv, Saving, PowerLossSafe,
        SavedIsCurrent, Load, At
<1> QED OBVIOUS

LEMMA InvStep ==
    ASSUME TypeInv, StoreInv, [StoreNext]_storeVars
    PROVE  StoreInv'
<1> USE StoreAssumption DEF TypeInv, StoreTypeOK, StoreInv, LockInv, SaveInv, DiskInv,
        Saving, PowerLossSafe, SavedIsCurrent, At, File
<1>1. ASSUME NEW e \in Editors, ChangeKnown(e) PROVE StoreInv'
  BY <1>1 DEF ChangeKnown
<1>2. ASSUME NEW e \in Editors, AssignKnown(e) PROVE StoreInv'
  BY <1>2 DEF AssignKnown
<1>3. ASSUME NEW e \in Editors, ChangeField(e) PROVE StoreInv'
  BY <1>3 DEF ChangeField
<1>4. ASSUME NEW e \in Editors, SaveEncodes(e) PROVE StoreInv'
  BY <1>4 DEF SaveEncodes, LockToTheEnd
<1>5. ASSUME NEW e \in Editors, SaveSyncs(e) PROVE StoreInv'
  BY <1>5 DEF SaveSyncs, Sync
<1>6. ASSUME NEW e \in Editors, SaveRenames(e) PROVE StoreInv'
  BY <1>6 DEF SaveRenames
<1>7. ASSUME NEW e \in Editors, SaveSyncsDir(e) PROVE StoreInv'
  BY <1>7 DEF SaveSyncsDir, Unlock, DirSync
<1>8. ASSUME NEW e \in Editors, SaveSkipsDir(e) PROVE StoreInv'
  BY <1>8 DEF SaveSkipsDir, Unlock
<1>9. ASSUME NEW e \in Editors, SaveFails(e) PROVE StoreInv'
  BY <1>9 DEF SaveFails, Unlock
<1>10. CASE Wipe
  BY <1>10 DEF Wipe
<1>11. CASE ProcessDies
  BY <1>11, LoadStep DEF ProcessDies
<1>12. CASE PowerLoss
  BY <1>12, LoadStep DEF PowerLoss
<1>13. CASE UNCHANGED storeVars
  BY <1>13 DEF storeVars
<1> QED
  BY <1>1, <1>2, <1>3, <1>4, <1>5, <1>6, <1>7, <1>8, <1>9, <1>10, <1>11, <1>12, <1>13
  DEF StoreNext

LEMMA InitInv == StoreInit => TypeInv /\ StoreInv
<1> SUFFICES ASSUME StoreInit PROVE TypeInv /\ StoreInv
  OBVIOUS
<1>1. 0 \in Count /\ Blank \in State
  BY StoreAssumption DEF Blank, State, Count
<1>2. StoreTypeOK
  <2>1. File(0, Blank, TRUE) \in [save : Nat, content : State, synced : BOOLEAN]
    BY <1>1 DEF File
  <2>2. NoFile \in [save : Nat, content : State, synced : BOOLEAN]
    BY <1>1 DEF File, NoFile
  <2>3. temp \in [Editors -> [save : Nat, content : State, synced : BOOLEAN]]
    BY <2>2 DEF StoreInit
  <2>4. editor \in [Editors -> [pc : {"idle", "assign", "save", "sync", "rename",
                                     "dirsync"}, known : Count]]
    BY <1>1 DEF StoreInit, At
  <2>5. durable \in Nat /\ saves \in Nat /\ changes \in Count /\ knownDevices \in Count
    BY <1>1 DEF StoreInit
  <2> QED BY <1>1, <2>1, <2>3, <2>4, <2>5 DEF StoreInit, StoreTypeOK
<1>3. BoundInv
  BY <1>1 DEF StoreInit, BoundInv, Counted, File, NoFile, Blank, At
<1>4. StoreInv
  BY StoreAssumption
  DEF StoreInit, StoreInv, LockInv, SaveInv, DiskInv, Saving, PowerLossSafe, SavedIsCurrent,
      File, At
<1> QED BY <1>2, <1>3, <1>4 DEF TypeInv

LEMMA Invariance == StoreSpec => [](TypeInv /\ StoreInv)
BY InitInv, TypeStep, InvStep, PTL DEF StoreSpec

-----------------------------------------------------------------------------
\* The memory, the goroutines, the temporary files and the disk keep their types;
\* no field counts more changes than were made.
THEOREM StoreTyped == StoreSpec => []StoreTypeOK
<1>1. TypeInv => StoreTypeOK
  BY DEF TypeInv
<1> QED BY Invariance, <1>1, PTL

\* Power may be lost at any step of Save, or after a wipe: what the state path
\* names is complete, and no older than the last Save that reached its end.
THEOREM PowerLossIsSafe == StoreSpec => []PowerLossSafe
<1>1. StoreInv => PowerLossSafe
  BY DEF StoreInv, DiskInv
<1> QED BY Invariance, <1>1, PTL

\* No Save of app.state puts an older state over a newer one.
THEOREM NoOlderOverNewer == StoreSpec => []SavedIsCurrent
<1>1. StoreInv => SavedIsCurrent
  BY DEF StoreInv
<1> QED BY Invariance, <1>1, PTL

-----------------------------------------------------------------------------
(* OAuthToken.                                                             *)
(*                                                                         *)
(* The argument: a token that an answer brings is known to nobody else     *)
(* until the answer is taken (FreshInv), so no request can make the server *)
(* revoke it, and the session's own is revoked only by an answer that      *)
(* brings another.                                                         *)

\* A token that an answer brings is new: it works, and until the answer is
\* taken nobody else has it, so that no request can make the server revoke it.
FreshInv ==
    \A c \in Callers :
        caller[c].pc = "answered" /\ caller[c].token # Same =>
            /\ caller[c].token \in valid
            /\ caller[c].token \notin {oauthRefresh, stored}
            /\ \A d \in Callers \ {c} : caller[d].token # caller[c].token

\* No token was used before it was granted; what a goroutine is to present or to
\* store is a token.
GrantedInv ==
    /\ oauthRefresh <= granted /\ stored <= granted
    /\ \A c \in Callers :
          /\ caller[c].token <= granted
          /\ caller[c].pc \in {"ask", "store"} => caller[c].token # Same

OAuthInv == OAuthTypeOK /\ GrantedInv /\ FreshInv /\ TokenUsable

LEMMA OAuthStep ==
    ASSUME OAuthInv, [OAuthNext]_oauthVars
    PROVE  OAuthInv'
<1> USE OAuthAssumption DEF OAuthInv, OAuthTypeOK, GrantedInv, FreshInv, TokenUsable, Tokens, Same
<1>1. ASSUME NEW c \in Callers, RefreshOAuthToken(c) PROVE OAuthInv'
  BY <1>1 DEF RefreshOAuthToken, CallerAt, Calls
<1>2. ASSUME NEW c \in Callers, Grants(c) PROVE OAuthInv'
  <2>1. CASE CallerAt(c, "answered", Same) /\ UNCHANGED <<granted, valid>>
    BY <1>2, <2>1 DEF Grants, CallerAt, Calls
  <2>2. ASSUME NEW revoked \in {{}, {caller[c].token}},
               granted < MaxTokens, granted' = granted + 1,
               CallerAt(c, "answered", granted + 1),
               valid' = (valid \ revoked) \cup {granted + 1}
        PROVE  OAuthInv'
    <3> DEFINE new == [pc |-> "answered", token |-> granted + 1]
    <3>1. caller' = [caller EXCEPT ![c] = new] /\ UNCHANGED <<oauthRefresh, stored, lost>>
      BY <1>2, <2>2 DEF Grants, CallerAt, Calls
    <3>2. caller[c].token # Same /\ caller[c].pc = "ask"
      BY <1>2 DEF Grants
    <3>3. OAuthTypeOK'
      <4>1. granted + 1 \in Tokens /\ granted' \in Tokens
        BY <2>2
      <4>2. caller' \in [Callers -> [pc : {"idle", "ask", "answered", "emit", "store"},
                                     token : Tokens \cup {Same}]]
        BY <3>1, <4>1
      <4>3. valid' \subseteq 1 .. granted'
        <5>1. valid \subseteq 1 .. granted /\ granted \in Nat
          BY DEF OAuthTypeOK
        <5>2. 1 .. granted \subseteq 1 .. granted + 1 /\ granted + 1 \in 1 .. granted + 1
          BY <5>1
        <5> QED BY <2>2, <5>1, <5>2
      <4> QED BY <3>1, <4>1, <4>2, <4>3
    <3>6. GrantedInv'
      BY <2>2, <3>1
    <3>4. FreshInv'
      BY <2>2, <3>1, <3>2
    <3>5. TokenUsable'
      BY <2>2, <3>1, <3>2
    <3> QED BY <3>3, <3>4, <3>5, <3>6
  <2>3. CASE ~(CallerAt(c, "answered", Same) /\ UNCHANGED <<granted, valid>>)
    <3> HIDE DEF OAuthInv
    <3>1. PICK revoked \in {{}, {caller[c].token}} :
             /\ granted < MaxTokens /\ granted' = granted + 1
             /\ CallerAt(c, "answered", granted')
             /\ valid' = (valid \ revoked) \cup {granted'}
      BY <1>2, <2>3 DEF Grants
    <3> QED BY <2>2, <3>1 DEF CallerAt
  <2> QED BY <2>1, <2>3
<1>3. ASSUME NEW c \in Callers, Refused(c) PROVE OAuthInv'
  BY <1>3 DEF Refused, CallerAt, Calls
<1>4. ASSUME NEW c \in Callers, AnswerLost(c) PROVE OAuthInv'
  BY <1>4 DEF AnswerLost, CallerAt, Calls
<1>5. ASSUME NEW c \in Callers, TokenRefreshed(c) PROVE OAuthInv'
  BY <1>5 DEF TokenRefreshed, KeepIfSame, CallerAt, Calls
<1>6. ASSUME NEW c \in Callers, EmitOAuthChanged(c) PROVE OAuthInv'
  BY <1>6 DEF EmitOAuthChanged, CallerAt, Calls
<1>7. ASSUME NEW c \in Callers, OnOAuthTokenChanged(c) PROVE OAuthInv'
  BY <1>7 DEF OnOAuthTokenChanged, CallerAt, Calls
<1>8. CASE Restored
  <2>1. /\ oauthRefresh' = stored /\ UNCHANGED <<stored, granted, valid>>
        /\ caller' = [c \in Callers |-> [pc |-> "idle", token |-> Same]]
    BY <1>8 DEF Restored, Calls
  <2>2. lost' \in BOOLEAN /\ (~lost' => ~lost /\ stored = oauthRefresh)
    BY <1>8 DEF Restored
  <2>3. ~lost' => \A c \in Callers : caller[c].pc # "answered"
    BY <1>8 DEF Restored
  <2>4. OAuthTypeOK' /\ GrantedInv' /\ FreshInv'
    BY <2>1, <2>2
  <2>5. TokenUsable'
    BY <2>1, <2>2, <2>3
  <2> QED BY <2>4, <2>5
<1>9. CASE UNCHANGED oauthVars
  BY <1>9 DEF oauthVars
<1> QED
  BY <1>1, <1>2, <1>3, <1>4, <1>5, <1>6, <1>7, <1>8, <1>9 DEF OAuthNext

LEMMA OAuthInitInv == OAuthInit => OAuthInv
<1> USE OAuthAssumption
        DEF OAuthInv, OAuthTypeOK, GrantedInv, FreshInv, TokenUsable, Tokens, Same
<1> SUFFICES ASSUME OAuthInit PROVE OAuthInv
  OBVIOUS
<1>1. caller = [c \in Callers |-> [pc |-> "idle", token |-> Same]]
  BY DEF OAuthInit, Calls
<1>2. granted = 1 /\ oauthRefresh = 1 /\ stored = 1 /\ valid = {1} /\ lost = FALSE
  BY DEF OAuthInit
<1>3. OAuthTypeOK
  <2>1. 1 \in Tokens /\ 1 \in 1 .. 1
    OBVIOUS
  <2> QED BY <1>1, <1>2, <2>1
<1>4. GrantedInv /\ FreshInv
  BY <1>1, <1>2
<1>5. TokenUsable
  BY <1>2
<1> HIDE DEF OAuthTypeOK, GrantedInv, FreshInv, TokenUsable
<1> QED BY <1>3, <1>4, <1>5

\* However many requests renew the token at once and in whatever order their
\* answers are taken: while no answer is lost, the session's token works or one
\* that does is on its way.
THEOREM TokenStaysUsable == OAuthSpec => []TokenUsable
<1>1. OAuthInv => TokenUsable
  BY DEF OAuthInv
<1> QED BY <1>1, OAuthInitInv, OAuthStep, PTL DEF OAuthSpec

-----------------------------------------------------------------------------
(* RemoteState and AccessPoint.                                            *)

\* A poll is of a player: maPollTick looks before, and nobody deselects.
RemoteInv == RemoteTypeOK /\ (run = "poll" => activePlayer \in Players)

LEMMA RemoteTyped == RemoteSpec => []RemoteTypeOK
<1>1. RemoteInit => RemoteInv
  <2> SUFFICES ASSUME RemoteInit PROVE RemoteInv
    OBVIOUS
  <2>1. settings \in Settings
    BY DEF RemoteInit, Settings
  <2> QED BY <2>1 DEF RemoteInit, RemoteInv, RemoteTypeOK
<1>2. ASSUME RemoteInv, [RemoteNext]_remoteVars PROVE RemoteInv'
  <2> USE <1>2 DEF RemoteInv, RemoteTypeOK
  <2>1. CASE PutSettings
    BY <2>1 DEF PutSettings
  <2>2. CASE HandleCluster \/ ClearActiveDevice \/ UpdateRemoteState
    BY <2>2 DEF HandleCluster, ClearActiveDevice, UpdateRemoteState
  <2>3. ASSUME NEW p \in Players, SelectPlayer(p) PROVE RemoteInv'
    BY <2>3 DEF SelectPlayer
  <2>4. CASE MaPollTick
    BY <2>4 DEF MaPollTick
  <2>5. CASE PollFails \/ PollFollows
    BY <2>5 DEF PollFails, PollFollows
  <2>6. CASE ApplyMaState
    BY <2>6 DEF ApplyMaState
  <2>7. CASE UNCHANGED remoteVars
    BY <2>7 DEF remoteVars
  <2> QED BY <2>1, <2>2, <2>3, <2>4, <2>5, <2>6, <2>7 DEF RemoteNext
<1>3. RemoteInv => RemoteTypeOK
  BY DEF RemoteInv
<1> QED BY <1>1, <1>2, <1>3, PTL DEF RemoteSpec

\* maOwnsRemoteState, which the poll looks at before it clears the screen, says the
\* truth about what is shown: a state of Music Assistant is its own, one of Spotify
\* is not (applyMaState, updateRemoteState, maPollTick).
THEOREM OwnerIsKnown ==
    RemoteSpec => []((shown.by = "ma" => maOwns) /\ (shown.by = "spotify" => ~maOwns))
<1> DEFINE Owned == (shown.by = "ma" => maOwns) /\ (shown.by = "spotify" => ~maOwns)
<1>1. RemoteInit => Owned
  BY DEF RemoteInit, Nothing
<1>2. ASSUME Owned, [RemoteNext]_remoteVars PROVE Owned'
  BY <1>2 DEF RemoteNext, remoteVars, PutSettings, HandleCluster, ClearActiveDevice,
     UpdateRemoteState, SelectPlayer, MaPollTick, PollFails, PollFollows, ApplyMaState,
     Nothing, OfSpotify, OfMa
<1> HIDE DEF Owned
<1> QED BY <1>1, <1>2, PTL DEF RemoteSpec, Owned

LEMMA ApTyped == ApSpec => []ApTypeOK
<1> USE DEF ApTypeOK
<1>1. ApInit => ApTypeOK
  BY DEF ApInit
<1>2. ASSUME ApTypeOK, [ApNext]_apVars PROVE ApTypeOK'
  BY <1>2 DEF ApNext, apVars, ApConnect, Receive, NextPacket, RecvPongAck, RecvPacket,
     HandOver, RecvFails, LoopCloses, LoopChecks, BackoffEnds, TriesAgain, LoopLocks,
     ReconnectFails, Reconnected, LoopEnds, Tick, TickerCloses, AckAges, ApClose,
     ApCloseEnds, ConnectionLost
<1> QED BY <1>1, <1>2, PTL DEF ApSpec

\* The part of ApSettles that needs no fairness.  Close may come in the middle of a
\* login: when it has returned, a connection is open only where the receive loop has
\* just replaced the one that was closed, and its next step is to close that one too
\* (Close, reconnect, recvLoop).
THEOREM NothingLeftOpen ==
    ApSpec => [](apCloser = "closed" /\ conn \in {"open", "silent"} => loop = "close")
<1> DEFINE Flagged == apCloser # "idle" => apDone
           ForGood == apCloser = "closed" /\ conn \in {"open", "silent"} => loop = "close"
<1>1. ApInit => Flagged /\ ForGood
  BY DEF ApInit
<1>2. ASSUME Flagged, ForGood, [ApNext]_apVars PROVE Flagged' /\ ForGood'
  BY <1>2 DEF ApNext, apVars, ApConnect, Receive, NextPacket, RecvPongAck, RecvPacket,
     HandOver, RecvFails, LoopCloses, LoopChecks, BackoffEnds, TriesAgain, LoopLocks,
     ReconnectFails, Reconnected, LoopEnds, Tick, TickerCloses, AckAges, ApClose,
     ApCloseEnds, ConnectionLost
<1> HIDE DEF Flagged, ForGood
<1> QED BY <1>1, <1>2, PTL DEF ApSpec, ForGood

-----------------------------------------------------------------------------
(* MCServices.                                                             *)

\* A step of MCServices is a step of the part that runs, and of the others a
\* stutter.
LEMMA PartSteps ==
    ASSUME [Next]_vars
    PROVE  /\ [Iap2Next]_iap2Vars /\ [FanoutNext]_fanoutVars /\ [StoreNext]_storeVars
           /\ [RemoteNext]_remoteVars /\ [ApNext]_apVars /\ [OAuthNext]_oauthVars
<1>1. CASE UNCHANGED vars
  BY <1>1 DEF vars
<1> QED BY <1>1 DEF Next

LEMMA Parts ==
    Spec => Iap2Spec /\ FanoutSpec /\ StoreSpec /\ RemoteSpec /\ ApSpec /\ OAuthSpec
<1>1. Init => Iap2Init /\ FanoutInit /\ StoreInit /\ RemoteInit /\ ApInit /\ OAuthInit
  BY DEF Init
<1> QED
  BY <1>1, PartSteps, PTL
  DEF Spec, Iap2Spec, FanoutSpec, StoreSpec, RemoteSpec, ApSpec, OAuthSpec

\* The supervisor and the sidecar, the event clients, the stored state, the source
\* of what is shown, the access point and the token callers keep their types:
\* the pipes, the channels and the counters their bounds among them.
THEOREM ServicesTyped == Spec => []TypeOK
<1>1. Iap2Spec => []Iap2TypeOK
  BY Iap2Invariance, Iap2Types, PTL
<1>2. OAuthSpec => []OAuthTypeOK
  <2>1. OAuthInv => OAuthTypeOK
    BY DEF OAuthInv
  <2> QED BY <2>1, OAuthInitInv, OAuthStep, PTL DEF OAuthSpec
<1>3. Iap2TypeOK /\ FanoutTypeOK /\ StoreTypeOK /\ RemoteTypeOK /\ ApTypeOK /\ OAuthTypeOK
         => TypeOK
  BY DEF TypeOK
<1> QED
  BY <1>1, <1>2, <1>3, Parts, FanoutTyped, StoreTyped, RemoteTyped, ApTyped, PTL

\* The invariants of the six components, in every reachable state of MCServices.
THEOREM ServicesSafe ==
    Spec => [](SessionIsWanted /\ EmitSafe /\ PowerLossSafe /\ SavedIsCurrent /\ TokenUsable)
BY Parts, SessionIsOfTheWanted, EmitIsSafe, PowerLossIsSafe, NoOlderOverNewer,
   TokenStaysUsable, PTL
=============================================================================
