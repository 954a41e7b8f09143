----------------------- MODULE PlayerRequests_proofs -----------------------
(***************************************************************************)
(* PlayerRequests implements RequestReply, for any sets of requests and    *)
(* any size of the request receiver; and nobody waits for a reply or for   *)
(* readiness that has no one left to come from.                            *)
(***************************************************************************)
EXTENDS PlayerRequests, TLAPS

Queued(d) == \E n \in 1 .. Len(queue) : queue[n] = d
AtRun(r) == run.pc \in {"handle", "reply"} /\ run.req = r

\* A request is in one place at a time: the queue holds it once, and Run and
\* the lyrics goroutines hold only what has left the queue or the caller.
OnePlace ==
    /\ \A m, n \in 1 .. Len(queue) : queue[m] = queue[n] => m = n
    /\ \A d \in DealerReqs : Queued(d) => ~AtRun(d) /\ waiter[d] # "none"
    /\ \A r \in lyrics : ~AtRun(r) /\ caller[r] \notin {"idle", "offering"}

\* A request that was not handed over is nowhere.
NotYet ==
    /\ \A d \in DealerReqs : waiter[d] = "none" => ~AtRun(d) /\ d \notin executed
    /\ \A r \in ApiReqs : caller[r] \in {"idle", "offering"} =>
          ~AtRun(r) /\ r \notin executed

\* What waits for the handler is not executed yet; what replies has been.
ExecutedOnce ==
    /\ run.pc = "handle" => run.req \in Requests \ executed
    /\ run.pc = "reply" => run.req \in executed
    /\ \A d \in DealerReqs : Queued(d) => d \notin executed
    /\ \A r \in lyrics : r \notin executed

\* Success is known only from a reply, and a reply only follows execution.
ReplyMeansExecuted ==
    /\ \A r \in Requests : resp[r] # <<>> => r \in executed
    /\ \A d \in DealerReqs : waiter[d] = "succeeding" => d \in executed
    /\ \A r \in ApiReqs : caller[r] = "ok" => r \in executed
    /\ \A d \in DealerReqs : waiter[d] # "sent" => wire[d] = <<>>
    /\ \A d \in DealerReqs : wire[d] = <<TRUE>> => d \in executed

PlaceInv == TypeOK /\ OnePlace /\ NotYet /\ ExecutedOnce /\ ReplyMeansExecuted

-----------------------------------------------------------------------------
\* Where requests come from decides who may reply to them.
LEMMA RequestKinds ==
    /\ LyricsReqs \subseteq ApiReqs /\ DealerReqs \cap ApiReqs = {}
    /\ Requests = DealerReqs \cup ApiReqs
BY ConstantsAssumption DEF Requests, ApiReqs

\* A reply channel holds nothing or one reply.
LEMMA ReplyType ==
    ASSUME TypeOK, NEW r \in Requests, Reply(r)
    PROVE  /\ resp' = [resp EXCEPT ![r] = <<TRUE>>]
           /\ resp' \in [Requests -> {<<>>, <<TRUE>>}]
<1>1. resp[r] \in {<<>>, <<TRUE>>} /\ Len(resp[r]) < 1
    BY DEF TypeOK, Reply
<1>2. resp[r] = <<>>
    BY <1>1
<1>3. Append(<<>>, TRUE) = <<TRUE>>
    OBVIOUS
<1>4. resp' = [resp EXCEPT ![r] = <<TRUE>>]
    BY <1>2, <1>3 DEF Reply
<1> QED
    BY <1>4 DEF TypeOK

LEMMA PlaceStep == PlaceInv /\ [Next]_vars => PlaceInv'
<1> SUFFICES ASSUME PlaceInv, [Next]_vars PROVE PlaceInv'
    OBVIOUS
<1> USE RequestKinds, ConstantsAssumption DEF PlaceInv
<1> DEFINE Pcs == {"new", "notify", "select", "handle", "reply", "stopped"}
           RunType == [pc : Pcs, req : Requests \cup {NoReq}]
           Waiters == [DealerReqs -> {"none", "dropped", "waiting", "succeeding",
                                      "failing", "sent"}]
           Callers == [ApiReqs -> {"idle", "offering", "waiting", "ok", "failed"}]
\* Steps of Run that do not concern a request, and those of other goroutines.
<1>s. ASSUME UNCHANGED <<queue, waiter, wire, caller, lyrics, resp, executed>>,
             run.pc \notin {"handle", "reply"}, run' \in RunType,
             run'.pc \notin {"handle", "reply"},
             dealerDone' \in BOOLEAN, playerReady' \in BOOLEAN,
             readyFn' \in {"none", "listed", "called"}
      PROVE PlaceInv'
  <2>1. TypeOK'
    BY <1>s DEF TypeOK
  <2>2. OnePlace' /\ NotYet'
    BY <1>s DEF OnePlace, NotYet, Queued, AtRun
  <2>3. ExecutedOnce' /\ ReplyMeansExecuted'
    BY <1>s DEF ExecutedOnce, ReplyMeansExecuted, Queued
  <2> QED
    BY <2>1, <2>2, <2>3
<1>1. CASE RunStarts
    BY <1>1, <1>s DEF RunStarts, TypeOK
<1>2. CASE RunNotifies
    BY <1>2, <1>s DEF RunNotifies, TypeOK
<1>3. CASE OnPlayerReady \/ DealerClose
  <2>1. UNCHANGED <<run, queue, waiter, wire, caller, lyrics, resp, executed>>
    BY <1>3 DEF OnPlayerReady, DealerClose
  <2>2. TypeOK'
    BY <1>3, <2>1 DEF OnPlayerReady, DealerClose, CallOrList, TypeOK
  <2>3. OnePlace' /\ NotYet'
    BY <2>1 DEF OnePlace, NotYet, Queued, AtRun
  <2>4. ExecutedOnce' /\ ReplyMeansExecuted'
    BY <2>1 DEF ExecutedOnce, ReplyMeansExecuted, Queued
  <2> QED
    BY <2>2, <2>3, <2>4
<1>4. CASE RunStops
    BY <1>4, <1>s DEF RunStops, TypeOK
<1>5. ASSUME NEW d \in DealerReqs, handleRequest(d) PROVE PlaceInv'
  <2>1. /\ waiter[d] = "none"
        /\ UNCHANGED <<dealerDone, playerReady, readyFn, run, wire, caller, lyrics, resp, executed>>
    BY <1>5 DEF handleRequest
  <2>2. \/ queue' = queue /\ waiter' = [waiter EXCEPT ![d] = "dropped"]
        \/ queue' = queue /\ waiter' = [waiter EXCEPT ![d] = "failing"]
        \/ /\ queue' = Append(queue, d) /\ Len(queue) < RequestBuffer
           /\ waiter' = [waiter EXCEPT ![d] = "waiting"]
    BY <1>5 DEF handleRequest, Ignore, Dispatch
  <2>3. CASE queue' = queue
    <3>t1. TypeOK'
      BY <2>1, <2>2, <2>3 DEF TypeOK
    <3>t2. OnePlace'
      BY <2>1, <2>2, <2>3 DEF TypeOK, OnePlace, Queued, AtRun
    <3>t3. NotYet'
      BY <2>1, <2>2, <2>3 DEF TypeOK, NotYet, OnePlace, AtRun
    <3>t4. ExecutedOnce'
      BY <2>1, <2>2, <2>3 DEF TypeOK, ExecutedOnce, NotYet, OnePlace, Queued, AtRun
    <3>t5. ReplyMeansExecuted'
      <4>1. waiter \in Waiters
        BY DEF TypeOK
      <4> QED
        BY <2>1, <2>2, <4>1 DEF ReplyMeansExecuted
    <3> QED
      BY <3>t1, <3>t2, <3>t3, <3>t4, <3>t5
  <2>4. CASE /\ queue' = Append(queue, d) /\ Len(queue) < RequestBuffer
             /\ waiter' = [waiter EXCEPT ![d] = "waiting"]
    <3>1. /\ queue' \in Seq(DealerReqs) /\ Len(queue') = Len(queue) + 1
          /\ \A n \in 1 .. Len(queue) : queue'[n] = queue[n]
          /\ queue'[Len(queue) + 1] = d
          /\ Len(queue) \in Nat
      BY <2>4 DEF TypeOK
    <3>2. ~Queued(d) /\ ~AtRun(d) /\ d \notin executed
      BY <2>1 DEF OnePlace, NotYet
    <3>3. \A e \in DealerReqs : Queued(e)' => e = d \/ Queued(e)
      BY <3>1 DEF Queued
    <3>4. TypeOK'
      <4>1. Len(queue') <= RequestBuffer
        BY <2>4, <3>1
      <4>2. waiter' \in Waiters
        BY <2>4 DEF TypeOK
      <4> QED
        BY <2>1, <3>1, <4>1, <4>2 DEF TypeOK
    <3>5. OnePlace'
      <4>1. \A m, n \in 1 .. Len(queue') : queue'[m] = queue'[n] => m = n
        BY <3>1, <3>2 DEF OnePlace, Queued
      <4>2. \A e \in DealerReqs : Queued(e)' => ~AtRun(e)' /\ waiter'[e] # "none"
        BY <2>1, <2>4, <3>2, <3>3 DEF OnePlace, AtRun, TypeOK
      <4> QED
        BY <2>1, <4>1, <4>2 DEF OnePlace, AtRun
    <3>6. NotYet'
      BY <2>1, <2>4 DEF NotYet, AtRun, TypeOK
    <3>7. ExecutedOnce'
      BY <2>1, <3>2, <3>3 DEF ExecutedOnce
    <3>8. ReplyMeansExecuted'
      BY <2>1, <2>4 DEF ReplyMeansExecuted, TypeOK
    <3> QED
      BY <3>4, <3>5, <3>6, <3>7, <3>8
  <2> QED
    BY <2>2, <2>3, <2>4
<1>6. ASSUME NEW d \in DealerReqs, waitAndSendRequestReply(d) PROVE PlaceInv'
  <2>t1. TypeOK'
    BY <1>6 DEF waitAndSendRequestReply, AwaitReply, WaiterAt, TypeOK
  <2>t2. OnePlace'
    BY <1>6 DEF waitAndSendRequestReply, AwaitReply, WaiterAt, TypeOK, OnePlace, Queued, AtRun
  <2>t3. NotYet'
    BY <1>6 DEF waitAndSendRequestReply, AwaitReply, WaiterAt, TypeOK, NotYet, OnePlace, AtRun
  <2>t4. ExecutedOnce'
    BY <1>6 DEF waitAndSendRequestReply, AwaitReply, WaiterAt, TypeOK, ExecutedOnce, NotYet, OnePlace, Queued, AtRun
  <2>t5. ReplyMeansExecuted'
    <3>1. waiter \in Waiters
      BY DEF TypeOK
    <3> QED
      BY <1>6, <3>1 DEF waitAndSendRequestReply, AwaitReply, WaiterAt, ReplyMeansExecuted
  <2> QED
    BY <2>t1, <2>t2, <2>t3, <2>t4, <2>t5
<1>7. ASSUME NEW d \in DealerReqs, sendRequestReply(d) PROVE PlaceInv'
  <2>1. /\ waiter[d] \in {"succeeding", "failing"}
        /\ waiter' = [waiter EXCEPT ![d] = "sent"]
        /\ UNCHANGED <<dealerDone, playerReady, readyFn, run, queue, caller, lyrics, resp, executed>>
    BY <1>7 DEF sendRequestReply, WaiterAt
  <2>2. wire[d] = <<>>
    BY <2>1 DEF ReplyMeansExecuted
  <2>3. Append(<<>>, TRUE) = <<TRUE>> /\ Append(<<>>, FALSE) = <<FALSE>>
        /\ <<TRUE>> # <<FALSE>>
    <3>1. <<TRUE>>[1] # <<FALSE>>[1]
      OBVIOUS
    <3> QED
      BY <3>1
  <2>4. \/ wire' = wire
        \/ wire' = [wire EXCEPT ![d] = <<TRUE>>] /\ waiter[d] = "succeeding"
        \/ wire' = [wire EXCEPT ![d] = <<FALSE>>]
    <3>1. CASE waiter[d] = "succeeding"
      BY <1>7, <2>2, <2>3, <3>1 DEF sendRequestReply
    <3>2. CASE waiter[d] # "succeeding"
      <4>1. (waiter[d] = "succeeding") = FALSE
        BY <3>2
      <4> QED
        BY <1>7, <2>2, <2>3, <4>1 DEF sendRequestReply
    <3> QED
      BY <3>1, <3>2
  <2>5. TypeOK'
    BY <2>1, <2>4 DEF TypeOK
  <2>6. OnePlace' /\ NotYet' /\ ExecutedOnce'
    BY <2>1 DEF OnePlace, NotYet, ExecutedOnce, Queued, AtRun, TypeOK
  <2>7. ReplyMeansExecuted'
    BY <2>1, <2>3, <2>4 DEF ReplyMeansExecuted, TypeOK
  <2> QED
    BY <2>5, <2>6, <2>7
<1>8. ASSUME NEW r \in ApiReqs, Call(r) \/ Return(r) \/ GiveUp(r) PROVE PlaceInv'
  <2>t1. TypeOK'
    BY <1>8 DEF Call, Return, GiveUp, TypeOK
  <2>t2. OnePlace'
    BY <1>8 DEF Call, Return, GiveUp, TypeOK, OnePlace, Queued, AtRun
  <2>t3. NotYet'
    BY <1>8 DEF Call, Return, GiveUp, TypeOK, NotYet, OnePlace, AtRun
  <2>t4. ExecutedOnce'
    BY <1>8 DEF Call, Return, GiveUp, TypeOK, ExecutedOnce, NotYet, OnePlace, Queued, AtRun
  <2>t5. ReplyMeansExecuted'
    <3>1. UNCHANGED <<waiter, wire, resp, executed>>
      BY <1>8 DEF Call, Return, GiveUp
    <3>2. caller'[r] = "ok" => r \in executed
      BY <1>8 DEF Call, Return, GiveUp, TypeOK, ReplyMeansExecuted
    <3>3. \A q \in ApiReqs \ {r} : caller'[q] = caller[q]
      BY <1>8 DEF Call, Return, GiveUp, TypeOK
    <3> QED
      BY <3>1, <3>2, <3>3 DEF ReplyMeansExecuted
  <2> QED
    BY <2>t1, <2>t2, <2>t3, <2>t4, <2>t5
<1>9. ASSUME NEW d \in DealerReqs, TakeDealer(d) PROVE PlaceInv'
  <2>1. /\ run.pc = "select" /\ queue # <<>> /\ d = queue[1] /\ queue' = Tail(queue)
        /\ run' = [pc |-> "handle", req |-> d]
        /\ UNCHANGED <<dealerDone, playerReady, readyFn, waiter, wire, caller, lyrics, resp, executed>>
    BY <1>9 DEF TakeDealer, TypeOK
  <2>2. /\ queue' \in Seq(DealerReqs) /\ Len(queue) \in Nat \ {0}
        /\ Len(queue') = Len(queue) - 1
        /\ \A n \in 1 .. Len(queue') : queue'[n] = queue[n + 1]
    BY <2>1 DEF TypeOK
  <2>3. Queued(d)
    BY <2>1, <2>2 DEF Queued
  <2>4. \A e \in DealerReqs : Queued(e)' => Queued(e) /\ e # d
    BY <2>1, <2>2 DEF Queued, OnePlace
  <2>5. TypeOK'
    <3>1. Len(queue') <= RequestBuffer
      BY <2>2 DEF TypeOK
    <3>2. run' \in RunType
      BY <2>1
    <3> QED
      BY <2>1, <2>2, <3>1, <3>2 DEF TypeOK
  <2>6. OnePlace'
    <3>1. \A m, n \in 1 .. Len(queue') : queue'[m] = queue'[n] => m = n
      BY <2>2 DEF OnePlace
    <3>2. \A e \in DealerReqs : Queued(e)' => ~AtRun(e)' /\ waiter'[e] # "none"
      BY <2>1, <2>4 DEF OnePlace, AtRun
    <3> QED
      BY <2>1, <3>1, <3>2 DEF OnePlace, AtRun, TypeOK
  <2>7. NotYet'
    BY <2>1, <2>3 DEF NotYet, OnePlace, AtRun, TypeOK
  <2>8. ExecutedOnce'
    BY <2>1, <2>3, <2>4 DEF ExecutedOnce
  <2>9. ReplyMeansExecuted'
    BY <2>1 DEF ReplyMeansExecuted
  <2> QED
    BY <2>5, <2>6, <2>7, <2>8, <2>9
<1>10. ASSUME NEW r \in ApiReqs, TakeApi(r) PROVE PlaceInv'
  <2>t1. TypeOK'
    <3>1. lyrics' \subseteq LyricsReqs /\ run' \in RunType
      BY <1>10 DEF TakeApi, TakeCase, TypeOK
    <3>2. caller' \in Callers
      BY <1>10 DEF TakeApi, TypeOK
    <3> QED
      BY <1>10, <3>1, <3>2 DEF TakeApi, TypeOK
  <2>t2. OnePlace'
    BY <1>10 DEF TakeApi, TakeCase, TypeOK, OnePlace, Queued, AtRun
  <2>t3. NotYet'
    BY <1>10 DEF TakeApi, TakeCase, TypeOK, NotYet, OnePlace, AtRun
  <2>t4. ExecutedOnce'
    BY <1>10 DEF TakeApi, TakeCase, TypeOK, ExecutedOnce, NotYet, OnePlace, Queued, AtRun
  <2>t5. ReplyMeansExecuted'
    BY <1>10 DEF TakeApi, TakeCase, TypeOK, ReplyMeansExecuted, ExecutedOnce
  <2> QED
    BY <2>t1, <2>t2, <2>t3, <2>t4, <2>t5
<1>11. CASE RunHandles
    BY <1>11 DEF RunHandles, TypeOK, OnePlace, NotYet, ExecutedOnce,
       ReplyMeansExecuted, Queued, AtRun
<1>12. CASE RunReplies
  <2>1. run.req \in Requests
    BY <1>12 DEF RunReplies, ExecutedOnce, TypeOK
  <2>2. resp' = [resp EXCEPT ![run.req] = <<TRUE>>]
        /\ resp' \in [Requests -> {<<>>, <<TRUE>>}]
    BY <1>12, <2>1, ReplyType DEF RunReplies
  <2> QED
    BY <1>12, <2>1, <2>2 DEF RunReplies, TypeOK, OnePlace, NotYet, ExecutedOnce,
       ReplyMeansExecuted, Queued, AtRun
<1>13. ASSUME NEW r \in LyricsReqs, handleLyricsAsync(r) PROVE PlaceInv'
  <2>2. resp' = [resp EXCEPT ![r] = <<TRUE>>]
        /\ resp' \in [Requests -> {<<>>, <<TRUE>>}]
    BY <1>13, ReplyType DEF handleLyricsAsync
  <2>t1. TypeOK'
    <3>1. lyrics' \subseteq LyricsReqs /\ executed' \subseteq Requests
      BY <1>13 DEF handleLyricsAsync, TypeOK
    <3> QED
      BY <1>13, <2>2, <3>1 DEF handleLyricsAsync, TypeOK
  <2>t2. OnePlace'
    BY <1>13, <2>2 DEF handleLyricsAsync, TypeOK, OnePlace, Queued, AtRun
  <2>t3. NotYet'
    BY <1>13, <2>2 DEF handleLyricsAsync, TypeOK, NotYet, OnePlace, AtRun
  <2>t4. ExecutedOnce'
    BY <1>13, <2>2 DEF handleLyricsAsync, TypeOK, ExecutedOnce, NotYet, OnePlace, Queued, AtRun
  <2>t5. ReplyMeansExecuted'
    BY <1>13, <2>2 DEF handleLyricsAsync, TypeOK, ReplyMeansExecuted, ExecutedOnce
  <2> QED
    BY <2>t1, <2>t2, <2>t3, <2>t4, <2>t5
<1>14. CASE UNCHANGED vars
    BY <1>14 DEF vars, TypeOK, OnePlace, NotYet, ExecutedOnce, ReplyMeansExecuted,
       Queued, AtRun
<1> QED
    BY <1>1, <1>2, <1>3, <1>4, <1>5, <1>6, <1>7, <1>8, <1>9, <1>10, <1>11, <1>12,
       <1>13, <1>14 DEF Next

LEMMA PlaceInit == Init => PlaceInv
<1> SUFFICES ASSUME Init PROVE PlaceInv
    OBVIOUS
<1> USE RequestKinds, ConstantsAssumption DEF Init
<1>1. TypeOK
  <2>1. queue \in Seq(DealerReqs) /\ Len(queue) <= RequestBuffer
    OBVIOUS
  <2> QED
    BY <2>1 DEF TypeOK
<1>2. OnePlace /\ NotYet /\ ExecutedOnce
    BY DEF OnePlace, NotYet, ExecutedOnce, Queued, AtRun
<1>3. ReplyMeansExecuted
    BY DEF ReplyMeansExecuted
<1> QED
    BY <1>1, <1>2, <1>3 DEF PlaceInv

\* The channels and the positions of Run, the waiting goroutines and the
\* callers keep their types; the request receiver never exceeds its buffer.
THEOREM TypeCorrect == Spec => []TypeOK
<1>1. PlaceInv => TypeOK
    BY DEF PlaceInv
<1> QED
    BY <1>1, PlaceInit, PlaceStep, PTL DEF Spec

-----------------------------------------------------------------------------
(* The refinement.                                                         *)

\* A step that changes nothing an asker sees.
LEMMA StatusSame ==
    ASSUME UNCHANGED <<waiter, wire, caller>> PROVE Status' = Status
BY DEF Status, DealerStatus, ApiStatus

\* A step on one dealer request changes its status only.
LEMMA StatusDealer ==
    ASSUME PlaceInv, NEW d \in DealerReqs, NEW w, NEW x,
           waiter' = [waiter EXCEPT ![d] = w], UNCHANGED caller,
           wire' = wire \/ wire' = [wire EXCEPT ![d] = x]
    PROVE  Status' = [Status EXCEPT ![d] = DealerStatus(d)']
<1>1. \A e \in DealerReqs : e # d => waiter'[e] = waiter[e] /\ wire'[e] = wire[e]
    BY DEF PlaceInv, TypeOK
<1>2. \A e \in DealerReqs : e # d => DealerStatus(e)' = DealerStatus(e)
    BY <1>1 DEF DealerStatus
<1>3. \A r : ApiStatus(r)' = ApiStatus(r)
    BY DEF ApiStatus
<1> HIDE DEF DealerStatus, ApiStatus
<1> QED
    BY <1>2, <1>3 DEF Status, Requests

\* A step on one caller changes its status only.
LEMMA StatusCaller ==
    ASSUME PlaceInv, NEW r \in ApiReqs, NEW c,
           caller' = [caller EXCEPT ![r] = c], UNCHANGED <<waiter, wire>>
    PROVE  Status' = [Status EXCEPT ![r] = ApiStatus(r)']
<1>1. \A q \in ApiReqs : q # r => caller'[q] = caller[q]
    BY DEF PlaceInv, TypeOK
<1>2. \A q \in ApiReqs : q # r => ApiStatus(q)' = ApiStatus(q)
    BY <1>1 DEF ApiStatus
<1>3. \A d : DealerStatus(d)' = DealerStatus(d)
    BY DEF DealerStatus
<1> HIDE DEF DealerStatus, ApiStatus
<1> QED
    BY <1>2, <1>3, RequestKinds DEF Status

\* What Status says of one request.
LEMMA StatusOf ==
    /\ \A d \in DealerReqs : Status[d] = DealerStatus(d)
    /\ \A r \in ApiReqs : Status[r] = ApiStatus(r)
BY RequestKinds DEF Status

\* The same after a step.
LEMMA StatusOfNext ==
    /\ \A d \in DealerReqs : Status'[d] = DealerStatus(d)'
    /\ \A r \in ApiReqs : Status'[r] = ApiStatus(r)'
BY RequestKinds DEF Status

\* Every step of the goroutines is a step of RequestReply or changes nothing
\* that it can see.
LEMMA RefinementStep == PlaceInv /\ [Next]_vars => [Abstract!Next]_(Abstract!vars)
<1> SUFFICES ASSUME PlaceInv, [Next]_vars
             PROVE  Abstract!Next \/ (Status' = Status /\ executed' = executed)
    BY DEF Abstract!vars
<1> USE RequestKinds
<1>s. ASSUME UNCHANGED <<waiter, wire, caller, executed>>
      PROVE Status' = Status /\ executed' = executed
    BY <1>s, StatusSame
<1>e. ASSUME NEW r \in Requests, Status[r] \in {"pending", "failed"}, r \notin executed,
             executed' = executed \cup {r}, UNCHANGED <<waiter, wire, caller>>
      PROVE Abstract!Next
    BY <1>e, StatusSame DEF Abstract!Next, Abstract!Execute
<1>1. CASE RunStarts \/ RunNotifies \/ OnPlayerReady \/ RunStops \/ DealerClose
    BY <1>1, <1>s DEF RunStarts, RunNotifies, OnPlayerReady, RunStops, DealerClose
<1>2. ASSUME NEW d \in DealerReqs, handleRequest(d) PROVE Abstract!Next
  <2>1. Status[d] = "idle" /\ wire' = wire /\ executed' = executed /\ caller' = caller
    BY <1>2, StatusOf DEF handleRequest, DealerStatus
  <2>2. \E w \in {"dropped", "waiting", "failing"} : waiter' = [waiter EXCEPT ![d] = w]
    BY <1>2 DEF handleRequest, Ignore, Dispatch
  <2>3. Status' = [Status EXCEPT ![d] = DealerStatus(d)']
    BY <2>1, <2>2, StatusDealer
  <2>4. DealerStatus(d)' \in {"pending", "failed"}
    BY <2>2 DEF DealerStatus, PlaceInv, TypeOK
  <2> QED
    BY <2>1, <2>3, <2>4 DEF Abstract!Next, Abstract!Ask, Abstract!Refuse, Abstract!Settle
<1>3. ASSUME NEW d \in DealerReqs, waitAndSendRequestReply(d)
      PROVE Abstract!Next \/ (Status' = Status /\ executed' = executed)
  <2>1. /\ Status[d] = "pending"
        /\ wire' = wire /\ executed' = executed /\ caller' = caller
    BY <1>3, StatusOf DEF waitAndSendRequestReply, DealerStatus
  <2>2. \E w \in {"dropped", "succeeding", "failing"} : waiter' = [waiter EXCEPT ![d] = w]
    BY <1>3 DEF waitAndSendRequestReply, AwaitReply, WaiterAt
  <2>3. Status' = [Status EXCEPT ![d] = DealerStatus(d)']
    BY <2>1, <2>2, StatusDealer
  <2>4. DealerStatus(d)' \in {"pending", "failed"}
    BY <2>2 DEF DealerStatus, PlaceInv, TypeOK
  <2>5. CASE DealerStatus(d)' = "pending"
    BY <2>1, <2>3, <2>5 DEF Status
  <2>6. CASE DealerStatus(d)' = "failed"
    BY <2>1, <2>3, <2>6 DEF Abstract!Next, Abstract!Fail, Abstract!Settle
  <2> QED
    BY <2>4, <2>5, <2>6
<1>4. ASSUME NEW d \in DealerReqs, sendRequestReply(d) PROVE Abstract!Next
  <2>1. /\ Status[d] = "pending" /\ waiter[d] \in {"succeeding", "failing"}
        /\ waiter' = [waiter EXCEPT ![d] = "sent"]
        /\ wire' = wire \/ wire' = [wire EXCEPT ![d] = Append(@, waiter[d] = "succeeding")]
        /\ executed' = executed /\ caller' = caller
    BY <1>4, StatusOf DEF sendRequestReply, WaiterAt, DealerStatus
  <2>2. Status' = [Status EXCEPT ![d] = DealerStatus(d)']
    BY <2>1, StatusDealer
  <2>3. DealerStatus(d)' \in {"ok", "failed"}
    BY <2>1 DEF DealerStatus, PlaceInv, TypeOK
  <2>4. DealerStatus(d)' = "ok" => d \in executed
    <3>1. DealerStatus(d)' = "ok" => wire'[d] = <<TRUE>>
      BY <2>1 DEF DealerStatus, PlaceInv, TypeOK
    <3>2. PlaceInv'
      BY PlaceStep
    <3> QED
      BY <2>1, <3>1, <3>2 DEF PlaceInv, ReplyMeansExecuted
  <2> QED
    BY <2>1, <2>2, <2>3, <2>4 DEF Abstract!Next, Abstract!Fail, Abstract!Succeed,
       Abstract!Settle
<1>5. ASSUME NEW r \in ApiReqs, Call(r) PROVE Abstract!Next
  <2>1. /\ Status[r] = "idle" /\ executed' = executed /\ UNCHANGED <<waiter, wire>>
        /\ \E c \in {"offering", "failed"} : caller' = [caller EXCEPT ![r] = c]
    BY <1>5, StatusOf DEF Call, ApiStatus
  <2>2. Status' = [Status EXCEPT ![r] = ApiStatus(r)']
    BY <2>1, StatusCaller
  <2>3. ApiStatus(r)' \in {"pending", "failed"}
    BY <2>1 DEF ApiStatus, PlaceInv, TypeOK
  <2> QED
    BY <2>1, <2>2, <2>3 DEF Abstract!Next, Abstract!Ask, Abstract!Refuse, Abstract!Settle
<1>6. ASSUME NEW r \in ApiReqs, Return(r) PROVE Abstract!Next
  <2>1. /\ Status[r] = "pending" /\ executed' = executed /\ UNCHANGED <<waiter, wire>>
        /\ caller' = [caller EXCEPT ![r] = "ok"] /\ r \in executed
    BY <1>6, StatusOf DEF Return, ApiStatus, PlaceInv, ReplyMeansExecuted
  <2>2. Status' = [Status EXCEPT ![r] = ApiStatus(r)']
    BY <2>1, StatusCaller
  <2>3. ApiStatus(r)' = "ok"
    BY <2>1 DEF ApiStatus, PlaceInv, TypeOK
  <2> QED
    BY <2>1, <2>2, <2>3 DEF Abstract!Next, Abstract!Succeed, Abstract!Settle
<1>7. ASSUME NEW r \in ApiReqs, GiveUp(r) PROVE Abstract!Next
  <2>1. /\ Status[r] = "pending" /\ executed' = executed /\ UNCHANGED <<waiter, wire>>
        /\ caller' = [caller EXCEPT ![r] = "failed"]
    BY <1>7, StatusOf DEF GiveUp, ApiStatus
  <2>2. Status' = [Status EXCEPT ![r] = ApiStatus(r)']
    BY <2>1, StatusCaller
  <2>3. ApiStatus(r)' = "failed"
    BY <2>1 DEF ApiStatus, PlaceInv, TypeOK
  <2> QED
    BY <2>1, <2>2, <2>3 DEF Abstract!Next, Abstract!Fail, Abstract!Settle
<1>8. ASSUME NEW d \in DealerReqs, TakeDealer(d)
      PROVE Status' = Status /\ executed' = executed
    BY <1>8, <1>s DEF TakeDealer
<1>9. ASSUME NEW r \in ApiReqs, TakeApi(r)
      PROVE Status' = Status /\ executed' = executed
  <2>1. /\ Status[r] = "pending" /\ executed' = executed /\ UNCHANGED <<waiter, wire>>
        /\ caller' = [caller EXCEPT ![r] = "waiting"]
    BY <1>9, StatusOf DEF TakeApi, ApiStatus
  <2>2. Status' = [Status EXCEPT ![r] = ApiStatus(r)']
    BY <2>1, StatusCaller
  <2>3. ApiStatus(r)' = "pending"
    BY <2>1 DEF ApiStatus, PlaceInv, TypeOK
  <2> QED
    BY <2>1, <2>2, <2>3 DEF Status
<1>10. CASE RunHandles
  <2>1. /\ run.req \in Requests \ executed /\ executed' = executed \cup {run.req}
        /\ AtRun(run.req) /\ UNCHANGED <<waiter, wire, caller>>
    BY <1>10 DEF RunHandles, PlaceInv, ExecutedOnce, AtRun
  <2>2. Status[run.req] \in {"pending", "failed"}
    <3>1. CASE run.req \in DealerReqs
      BY <2>1, <3>1, StatusOf DEF DealerStatus, PlaceInv, NotYet, ReplyMeansExecuted
    <3>2. CASE run.req \in ApiReqs
      BY <2>1, <3>2, StatusOf DEF ApiStatus, PlaceInv, TypeOK, NotYet, ReplyMeansExecuted
    <3> QED
      BY <2>1, <3>1, <3>2
  <2> QED
    BY <2>1, <2>2, <1>e
<1>11. CASE RunReplies
    BY <1>11, <1>s DEF RunReplies
<1>12. ASSUME NEW r \in LyricsReqs, handleLyricsAsync(r) PROVE Abstract!Next
  <2>1. /\ r \in Requests \ executed /\ executed' = executed \cup {r}
        /\ UNCHANGED <<waiter, wire, caller>>
    BY <1>12 DEF handleLyricsAsync, PlaceInv, ExecutedOnce
  <2>2. r \in ApiReqs /\ caller[r] \notin {"idle", "offering", "ok"}
    BY <1>12, <2>1 DEF handleLyricsAsync, PlaceInv, OnePlace, ReplyMeansExecuted
  <2>3. Status[r] \in {"pending", "failed"}
    BY <2>2, StatusOf DEF ApiStatus, PlaceInv, TypeOK
  <2> QED
    BY <2>1, <2>3, <1>e
<1>13. CASE UNCHANGED vars
    BY <1>13, <1>s DEF vars
<1> QED
    BY <1>1, <1>2, <1>3, <1>4, <1>5, <1>6, <1>7, <1>8, <1>9, <1>10, <1>11, <1>12,
       <1>13 DEF Next

\* The player serves the dealer, the HTTP handlers, the lyrics requests and the
\* voice service as RequestReply says: no second reply, no success without
\* execution, no second execution, though timeouts race with replies.
THEOREM ServesRequestsHolds == Spec => ServesRequests
<1>1. Init => Abstract!Init
    BY RequestKinds DEF Init, Abstract!Init, Status, DealerStatus, ApiStatus
<1> QED
    BY <1>1, PlaceInit, PlaceStep, RefinementStep, PTL DEF Spec, ServesRequests,
       Abstract!Spec

-----------------------------------------------------------------------------
(* The parts of ApiSettled, SettledThoughStuck and ReadyNotified that need *)
(* no fairness: where the answer, or the call, is to come from.            *)

\* Whoever replies finds the channel empty: Run, or the lyrics goroutine.
RoomForReply ==
    /\ run.pc = "reply" => resp[run.req] = <<>>
    /\ \A r \in lyrics : resp[r] = <<>>

AnswerComing ==
    \A r \in ApiReqs :
        caller[r] = "waiting" => r \in lyrics \/ AtRun(r) \/ resp[r] # <<>>

\* Neither Run nor a lyrics goroutine is ever held up by a reply, whatever became of
\* its asker; and a caller whose request was taken has its reply, or waits for
\* somebody who has the request in hand (handleRequest, TakeApi, Reply).
THEOREM NobodyWaitsInVain == Spec => [](RoomForReply /\ AnswerComing)
<1>1. Init => RoomForReply /\ AnswerComing
  BY DEF Init, RoomForReply, AnswerComing
<1>2. ASSUME PlaceInv, RoomForReply, AnswerComing, [Next]_vars
      PROVE  RoomForReply' /\ AnswerComing'
  <2> USE <1>2, RequestKinds DEF PlaceInv, TypeOK
  <2>1. CASE UNCHANGED <<lyrics, resp, caller>> /\ (UNCHANGED run \/ run.pc \notin {"handle", "reply"})
             /\ (run'.pc = "reply" => UNCHANGED run)
    BY <2>1 DEF RoomForReply, AnswerComing, AtRun
  <2>2. ASSUME NEW r \in ApiReqs, Call(r) \/ Return(r) \/ GiveUp(r)
        PROVE  RoomForReply' /\ AnswerComing'
    BY <2>2 DEF Call, Return, GiveUp, RoomForReply, AnswerComing, AtRun
  <2>3. ASSUME NEW r \in ApiReqs, TakeApi(r) PROVE RoomForReply' /\ AnswerComing'
    <3>1. resp[r] = <<>>
      BY <2>3 DEF TakeApi, NotYet, ReplyMeansExecuted
    <3> QED
      BY <2>3, <3>1 DEF TakeApi, TakeCase, RoomForReply, AnswerComing, AtRun
  <2>4. CASE RunHandles
    <3>1. resp[run.req] = <<>>
      BY <2>4 DEF RunHandles, ExecutedOnce, ReplyMeansExecuted
    <3> QED BY <2>4, <3>1 DEF RunHandles, RoomForReply, AnswerComing, AtRun
  <2>5. CASE RunReplies
    <3>1. run.req \in Requests
      BY <2>5 DEF RunReplies, ExecutedOnce
    <3>2. resp' = [resp EXCEPT ![run.req] = <<TRUE>>]
      BY <2>5, <3>1, ReplyType DEF RunReplies
    <3> QED
      BY <2>5, <3>1, <3>2 DEF RunReplies, RoomForReply, AnswerComing, AtRun, OnePlace
  <2>6. ASSUME NEW r \in LyricsReqs, handleLyricsAsync(r)
        PROVE  RoomForReply' /\ AnswerComing'
    <3>1. resp' = [resp EXCEPT ![r] = <<TRUE>>]
      BY <2>6, ReplyType DEF handleLyricsAsync
    <3> QED
      BY <2>6, <3>1 DEF handleLyricsAsync, RoomForReply, AnswerComing, AtRun, OnePlace
  <2> QED
    BY <1>2, <2>1, <2>2, <2>3, <2>4, <2>5, <2>6
    DEF Next, vars, RunStarts, RunNotifies, OnPlayerReady, RunStops, DealerClose,
        handleRequest, waitAndSendRequestReply, sendRequestReply, TakeDealer
<1> QED BY <1>1, <1>2, PlaceInit, PlaceStep, PTL DEF Spec

\* OnPlayerReady looks at the flag under the lock under which Run sets it: a callback
\* stays in the list only while Run is still to take the list, or has returned
\* (OnPlayerReady, SetPlayerReady).
THEOREM CallbackIsTaken ==
    Spec => [](readyFn = "listed" => run.pc \in {"new", "notify", "stopped"})
<1> DEFINE Ready == playerReady <=> run.pc \notin {"new", "stopped"}
           Listed == readyFn = "listed" => run.pc \in {"new", "notify", "stopped"}
<1>1. Init => Ready /\ Listed
  BY DEF Init
<1>2. ASSUME TypeOK, Ready, Listed, [Next]_vars PROVE Ready' /\ Listed'
  <2> USE <1>2 DEF TypeOK
  <2>1. CASE RunStarts \/ RunNotifies \/ OnPlayerReady \/ RunStops
    BY <2>1 DEF RunStarts, RunNotifies, OnPlayerReady, CallOrList, RunStops
  <2>2. CASE UNCHANGED <<playerReady, readyFn, run>>
    BY <2>2
  <2>3. ASSUME NEW d \in DealerReqs, TakeDealer(d) PROVE Ready' /\ Listed'
    BY <2>3 DEF TakeDealer
  <2>4. ASSUME NEW r \in ApiReqs, TakeApi(r) PROVE Ready' /\ Listed'
    BY <2>4 DEF TakeApi, TakeCase
  <2>5. CASE RunHandles \/ RunReplies
    BY <2>5 DEF RunHandles, RunReplies
  <2> QED
    BY <1>2, <2>1, <2>2, <2>3, <2>4, <2>5
    DEF Next, vars, DealerClose, handleRequest, waitAndSendRequestReply,
        sendRequestReply, Call, Return, GiveUp, handleLyricsAsync
<1> HIDE DEF Ready, Listed
<1> QED BY <1>1, <1>2, TypeCorrect, PTL DEF Spec, Listed
=============================================================================
