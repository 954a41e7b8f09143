--------------------------- MODULE PlayerRequests ---------------------------
(***************************************************************************)
(* The player's Run goroutine as a server, and its four kinds of clients:  *)
(*   - player commands of the Spotify dealer, queued by handleRequest and  *)
(*     answered on the dealer connection by a waiting goroutine each       *)
(*     (dealer/recv.go);                                                   *)
(*   - HTTP handlers, which hand a request over on an unbuffered channel   *)
(*     and wait without limit (ConcreteApiServer.handleRequest);           *)
(*   - lyrics requests, which Run passes on to a goroutine of their own;   *)
(*   - the voice service, whose Submit gives up when its context ends.     *)
(* The callback of OnPlayerReady is here too: it tells the voice service   *)
(* that Run has begun.  Run may spend any time in a handler.               *)
(***************************************************************************)
EXTENDS Naturals, Sequences

CONSTANTS
    DealerReqs, HttpReqs, LyricsReqs, VoiceReqs,  \* the requests that may come
    RequestBuffer,                                \* requestReceiverBuffer
    NoReq

Requests == DealerReqs \cup HttpReqs \cup LyricsReqs \cup VoiceReqs
ApiReqs  == Requests \ DealerReqs

ASSUME ConstantsAssumption ==
    /\ RequestBuffer \in Nat \ {0}
    /\ NoReq \notin Requests
    /\ DealerReqs \cap (HttpReqs \cup LyricsReqs \cup VoiceReqs) = {}

VARIABLES
    dealerDone,         \* the done channel of the dealer is closed
    playerReady,
    readyFn,      \* OnPlayerReady's callback: "none", "listed" or "called"
    run,          \* where Run is, and the request in its hands
    queue,        \* the dealer's request receiver
    waiter,       \* what becomes of a dealer request: the goroutine that waits
                  \* for the reply, and its end
    wire,         \* replies written to the dealer connection
    caller,       \* the callers of handleRequest and Submit
    lyrics,       \* lyrics requests being fetched by their own goroutine
    resp,         \* the reply channel of every request
    executed      \* history: the requests the player executed

vars == <<dealerDone, playerReady, readyFn, run, queue, waiter, wire, caller, lyrics,
          resp, executed>>

-----------------------------------------------------------------------------
(* Run begins and ends; SetPlayerReady and OnPlayerReady.                  *)

RunStarts ==
    /\ run.pc = "new"
    /\ playerReady' = TRUE
    /\ run' = [run EXCEPT !.pc = "notify"]
    /\ UNCHANGED <<dealerDone, readyFn, queue, waiter, wire, caller, lyrics, resp,
                   executed>>

\* SetPlayerReady, second half: the listed callbacks are taken and called.
RunNotifies ==
    /\ run.pc = "notify"
    /\ readyFn' = IF readyFn = "listed" THEN "called" ELSE readyFn
    /\ run' = [run EXCEPT !.pc = "select"]
    /\ UNCHANGED <<dealerDone, playerReady, queue, waiter, wire, caller, lyrics, resp,
                   executed>>

\* Mutant: always listed.
ListOnly == readyFn' = "listed"

CallOrList == readyFn' = IF playerReady THEN "called" ELSE "listed"

\* Under readyMu: called at once if Run has begun, listed otherwise.
OnPlayerReady ==
    /\ readyFn = "none"
    /\ CallOrList
    /\ UNCHANGED <<dealerDone, playerReady, run, queue, waiter, wire, caller, lyrics,
                   resp, executed>>

\* The context ends or Close was called: Run returns, the process exits.
RunStops ==
    /\ run.pc = "select"
    /\ run' = [run EXCEPT !.pc = "stopped"]
    /\ playerReady' = FALSE
    /\ UNCHANGED <<dealerDone, readyFn, queue, waiter, wire, caller, lyrics, resp,
                   executed>>

DealerClose ==
    /\ ~dealerDone
    /\ dealerDone' = TRUE
    /\ UNCHANGED <<playerReady, readyFn, run, queue, waiter, wire, caller, lyrics,
                   resp, executed>>

-----------------------------------------------------------------------------
(* Dealer.handleRequest and the goroutine that waits for the reply.        *)

\* A request nobody receives, or that cannot be decoded, is not answered.
Ignore(d) == waiter' = [waiter EXCEPT ![d] = "dropped"] /\ UNCHANGED queue

\* Mutant: no capacity check.
DispatchAlways(d) ==
    /\ queue' = Append(queue, d)
    /\ waiter' = [waiter EXCEPT ![d] = "waiting"]

\* The dispatch never blocks the dealer's read loop: a full receiver means an
\* immediate failure.
Dispatch(d) ==
    \/ /\ Len(queue) < RequestBuffer
       /\ queue' = Append(queue, d)
       /\ waiter' = [waiter EXCEPT ![d] = "waiting"]
    \/ /\ dealerDone
       /\ Ignore(d)
    \/ /\ Len(queue) = RequestBuffer
       /\ ~dealerDone
       /\ waiter' = [waiter EXCEPT ![d] = "failing"]
       /\ UNCHANGED queue

handleRequest(d) ==
    /\ waiter[d] = "none"
    /\ Ignore(d) \/ Dispatch(d)
    /\ UNCHANGED <<dealerDone, playerReady, readyFn, run, wire, caller, lyrics, resp,
                   executed>>

WaiterAt(d, pc) == waiter' = [waiter EXCEPT ![d] = pc]

\* Mutant: the handler is waited for without limit.
WaitForHandler(d) ==
    \/ resp[d] # <<>> /\ WaiterAt(d, "succeeding")
    \/ dealerDone /\ WaiterAt(d, "dropped")

\* Mutant: a request that timed out is reported as a success.
TimeoutSucceeds(d) ==
    \/ WaiterAt(d, "succeeding")
    \/ dealerDone /\ WaiterAt(d, "dropped")

\* waitAndSendRequestReply: the reply, the timeout or the end of the dealer,
\* whichever the select takes of those that are ready.
AwaitReply(d) ==
    \/ resp[d] # <<>> /\ WaiterAt(d, "succeeding")
    \/ WaiterAt(d, "failing")
    \/ dealerDone /\ WaiterAt(d, "dropped")

waitAndSendRequestReply(d) ==
    /\ waiter[d] = "waiting"
    /\ AwaitReply(d)
    /\ UNCHANGED <<dealerDone, playerReady, readyFn, run, queue, wire, caller, lyrics,
                   resp, executed>>

\* The reply goes to whatever connection is current; an error is only logged.
sendRequestReply(d) ==
    /\ waiter[d] \in {"succeeding", "failing"}
    /\ WaiterAt(d, "sent")
    /\ \/ wire' = [wire EXCEPT ![d] = Append(@, waiter[d] = "succeeding")]
       \/ UNCHANGED wire
    /\ UNCHANGED <<dealerDone, playerReady, readyFn, run, queue, caller, lyrics, resp,
                   executed>>

-----------------------------------------------------------------------------
(* The callers on the API side.                                            *)

\* handleRequest and Submit: refused while the player is not ready.
Call(r) ==
    /\ caller[r] = "idle"
    /\ caller' = [caller EXCEPT ![r] = IF playerReady THEN "offering" ELSE "failed"]
    /\ UNCHANGED <<dealerDone, playerReady, readyFn, run, queue, waiter, wire, lyrics,
                   resp, executed>>

Return(r) ==
    /\ caller[r] = "waiting"
    /\ resp[r] # <<>>
    /\ caller' = [caller EXCEPT ![r] = "ok"]
    /\ UNCHANGED <<dealerDone, playerReady, readyFn, run, queue, waiter, wire, lyrics,
                   resp, executed>>

\* Submit's context ends, before or after the request was handed over.
GiveUp(r) ==
    /\ r \in VoiceReqs
    /\ caller[r] \in {"offering", "waiting"}
    /\ caller' = [caller EXCEPT ![r] = "failed"]
    /\ UNCHANGED <<dealerDone, playerReady, readyFn, run, queue, waiter, wire, lyrics,
                   resp, executed>>

-----------------------------------------------------------------------------
(* The Run goroutine's select.                                             *)

TakeDealer(d) ==
    /\ run.pc = "select"
    /\ queue # <<>>
    /\ d = Head(queue)
    /\ queue' = Tail(queue)
    /\ run' = [pc |-> "handle", req |-> d]
    /\ UNCHANGED <<dealerDone, playerReady, readyFn, waiter, wire, caller, lyrics, resp,
                   executed>>

\* A lyrics request goes to a goroutine, anything else is handled by Run.
TakeCase(r) ==
    \/ r \in LyricsReqs /\ lyrics' = lyrics \cup {r} /\ UNCHANGED run
    \/ r \notin LyricsReqs /\ run' = [pc |-> "handle", req |-> r] /\ UNCHANGED lyrics

TakeApi(r) ==
    /\ run.pc = "select"
    /\ caller[r] = "offering"
    /\ caller' = [caller EXCEPT ![r] = "waiting"]
    /\ TakeCase(r)
    /\ UNCHANGED <<dealerDone, playerReady, readyFn, queue, waiter, wire, resp, executed>>

RunHandles ==
    /\ run.pc = "handle"
    /\ run' = [run EXCEPT !.pc = "reply"]
    /\ executed' = executed \cup {run.req}
    /\ UNCHANGED <<dealerDone, playerReady, readyFn, queue, waiter, wire, caller, lyrics,
                   resp>>

\* Mutant: a reply channel without a buffer needs a receiver that still waits.
ReplyUnbuffered(r) ==
    /\ IF r \in DealerReqs THEN waiter[r] = "waiting" ELSE caller[r] = "waiting"
    /\ resp' = [resp EXCEPT ![r] = Append(@, TRUE)]

\* The reply channel holds one reply, so the one who replies does not wait for
\* an asker that gave up.
Reply(r) ==
    /\ Len(resp[r]) < 1
    /\ resp' = [resp EXCEPT ![r] = Append(@, TRUE)]

RunReplies ==
    /\ run.pc = "reply"
    /\ Reply(run.req)
    /\ run' = [pc |-> "select", req |-> NoReq]
    /\ UNCHANGED <<dealerDone, playerReady, readyFn, queue, waiter, wire, caller, lyrics,
                   executed>>

handleLyricsAsync(r) ==
    /\ r \in lyrics
    /\ lyrics' = lyrics \ {r}
    /\ executed' = executed \cup {r}
    /\ Reply(r)
    /\ UNCHANGED <<dealerDone, playerReady, readyFn, run, queue, waiter, wire, caller>>

-----------------------------------------------------------------------------
Init ==
    /\ dealerDone = FALSE
    /\ playerReady = FALSE
    /\ readyFn = "none"
    /\ run = [pc |-> "new", req |-> NoReq]
    /\ queue = <<>>
    /\ waiter = [d \in DealerReqs |-> "none"]
    /\ wire = [d \in DealerReqs |-> <<>>]
    /\ caller = [r \in ApiReqs |-> "idle"]
    /\ lyrics = {}
    /\ resp = [r \in Requests |-> <<>>]
    /\ executed = {}

Next ==
    \/ RunStarts
    \/ RunNotifies
    \/ OnPlayerReady
    \/ RunStops
    \/ DealerClose
    \/ \E d \in DealerReqs : handleRequest(d)
    \/ \E d \in DealerReqs : waitAndSendRequestReply(d)
    \/ \E d \in DealerReqs : sendRequestReply(d)
    \/ \E r \in ApiReqs : Call(r)
    \/ \E r \in ApiReqs : Return(r)
    \/ \E r \in ApiReqs : GiveUp(r)
    \/ \E d \in DealerReqs : TakeDealer(d)
    \/ \E r \in ApiReqs : TakeApi(r)
    \/ RunHandles
    \/ RunReplies
    \/ \E r \in LyricsReqs : handleLyricsAsync(r)

Spec == Init /\ [][Next]_vars

\* Goroutines run and Run's select takes every offer that is made again and
\* again.  Nothing is assumed of the time a handler takes (RunHandles).
RunFairness == WF_vars(RunStarts \/ RunNotifies \/ RunReplies)

ClientFairness ==
    /\ \A d \in DealerReqs : WF_vars(waitAndSendRequestReply(d) \/ sendRequestReply(d))
    /\ \A r \in ApiReqs : WF_vars(Return(r)) /\ SF_vars(TakeApi(r))
    /\ \A r \in LyricsReqs : WF_vars(handleLyricsAsync(r))

LiveSpec == Spec /\ RunFairness /\ ClientFairness

-----------------------------------------------------------------------------
(* The outcome of a request, as its asker sees it.                         *)

DealerStatus(d) ==
    CASE waiter[d] = "none" -> "idle"
      [] waiter[d] \in {"waiting", "succeeding", "failing"} -> "pending"
      [] waiter[d] = "sent" /\ wire[d] = <<TRUE>> -> "ok"
      [] OTHER -> "failed"

ApiStatus(r) ==
    CASE caller[r] \in {"offering", "waiting"} -> "pending"
      [] OTHER -> caller[r]

Status == [r \in Requests |-> IF r \in DealerReqs THEN DealerStatus(r)
                              ELSE ApiStatus(r)]

Abstract == INSTANCE RequestReply WITH status <- Status

-----------------------------------------------------------------------------
(* Properties.                                                             *)

\* The types of the channels and of the goroutines' positions.
TypeOK ==
    /\ dealerDone \in BOOLEAN
    /\ playerReady \in BOOLEAN
    /\ readyFn \in {"none", "listed", "called"}
    /\ run \in [pc : {"new", "notify", "select", "handle", "reply", "stopped"},
                req : Requests \cup {NoReq}]
    /\ queue \in Seq(DealerReqs) /\ Len(queue) <= RequestBuffer
    /\ waiter \in [DealerReqs -> {"none", "dropped", "waiting", "succeeding",
                                  "failing", "sent"}]
    /\ wire \in [DealerReqs -> {<<>>, <<TRUE>>, <<FALSE>>}]
    /\ caller \in [ApiReqs -> {"idle", "offering", "waiting", "ok", "failed"}]
    /\ lyrics \subseteq LyricsReqs
    /\ resp \in [Requests -> {<<>>, <<TRUE>>}]
    /\ executed \subseteq Requests

\* The dealer's requests and the API's are served as RequestReply says, though
\* timeouts race with replies and askers leave: no second reply on the wire, no
\* success without execution, no second execution.
ServesRequests == Abstract!Spec

\* However long Run is stuck in a handler, every dealer request is settled (the
\* timeout and the full receiver answer for it) and every lyrics request is
\* answered (by a goroutine of its own).
SettledThoughStuck ==
    /\ \A d \in DealerReqs : []<>(waiter[d] \in {"none", "sent", "dropped"})
    /\ \A r \in LyricsReqs : []<>(caller[r] # "waiting")

HandlersEnd == []<>(run.pc # "handle")

\* If handlers end, an HTTP request that was let in is answered: Run is never
\* held up by the reply to an asker that has gone.
ApiSettled ==
    HandlersEnd => \A r \in ApiReqs :
        []<>(caller[r] \in {"idle", "ok", "failed"} \/ run.pc = "stopped")

\* A callback given to OnPlayerReady is called, whether Run began before or
\* begins after it, unless the player is on its way out.
ReadyNotified == []<>(readyFn \in {"none", "called"} \/ run.pc = "stopped")
=============================================================================
