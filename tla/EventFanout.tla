----------------------------- MODULE EventFanout -----------------------------
(***************************************************************************)
(* The /events WebSockets of the API server (daemon/api_server.go): Emit   *)
(* hands an event to the channel of every client under the read lock, a    *)
(* writer goroutine per client sends them, a read loop notices that the    *)
(* client has gone, and Close detaches everybody.  Sending on a closed     *)
(* channel, or closing it twice, would panic.                              *)
(*                                                                         *)
(* Events are told apart by nothing here: a channel is how many it holds.  *)
(* A section under the write lock is one step, which waits for every Emit. *)
(***************************************************************************)
EXTENDS Naturals

CONSTANTS
    Clients,          \* the clients that may connect
    Emitters,         \* goroutines that call Emit
    wsClientBuffer

ASSUME FanoutAssumption == wsClientBuffer \in Nat \ {0}

VARIABLES
    closing,      \* s.close
    clients,
    emit,         \* the clients an Emit has not come to yet, or "idle"
    held,         \* events in a client's channel
    closed,       \* clients with a closed channel
    once,         \* closeOnce: "free", "busy" or "done"
    writer,       \* the writer goroutine of a client
    reader,       \* its read loop
    detach,       \* Close: the clients it has detached and not closed yet, or
                  \* "open" and "flagged" before that
    paniced

fanoutVars == <<closing, clients, emit, held, closed, once, writer, reader, detach,
                paniced>>

NoEmit == [pc |-> "idle", left |-> {}]
Detach(pc, left) == [pc |-> pc, left |-> left]

\* A goroutine that waits for the write lock bars later readers (sync.RWMutex).
LockWanted == \/ \E c \in Clients : "unlink" \in {writer[c], reader[c]}
              \/ detach.pc = "flagged"

Unlocked == \A e \in Emitters : emit[e].pc = "idle"

-----------------------------------------------------------------------------
(* GET /events, and the two goroutines of a client.                        *)

Events(c) ==
    /\ writer[c] = "none"
    /\ Unlocked
    /\ clients' = clients \cup {c}
    /\ writer' = [writer EXCEPT ![c] = "range"]
    /\ reader' = [reader EXCEPT ![c] = "read"]
    /\ UNCHANGED <<closing, emit, held, closed, once, detach, paniced>>

WriterAt(c, pc) == writer' = [writer EXCEPT ![c] = pc]

\* range over the channel: the next event, or the end of a closed channel.
WriterRange(c) ==
    /\ writer[c] = "range"
    /\ \/ /\ held[c] > 0
          /\ held' = [held EXCEPT ![c] = @ - 1]
          /\ WriterAt(c, "write")
       \/ /\ held[c] = 0 /\ c \in closed
          /\ WriterAt(c, "done")
          /\ UNCHANGED held
    /\ UNCHANGED <<closing, clients, emit, closed, once, reader, detach, paniced>>

\* The write succeeds, or fails at the latest at its timeout.
WriterWrites(c) ==
    /\ writer[c] = "write"
    /\ WriterAt(c, "range") \/ WriterAt(c, "remove")
    /\ UNCHANGED <<closing, clients, emit, held, closed, once, reader, detach, paniced>>

\* The read fails, the client having gone; nothing is removed once the server
\* closes.
ReaderFails(c) ==
    /\ reader[c] = "read"
    /\ reader' = [reader EXCEPT ![c] = IF closing THEN "done" ELSE "remove"]
    /\ UNCHANGED <<closing, clients, emit, held, closed, once, writer, detach, paniced>>

-----------------------------------------------------------------------------
(* removeClient, called by the writer and by the read loop.                *)

\* Where the two of a client are in removeClient: which has which pc.
Remover(c, from, to) ==
    \/ writer[c] = from /\ WriterAt(c, to) /\ UNCHANGED reader
    \/ /\ reader[c] = from
       /\ reader' = [reader EXCEPT ![c] = to]
       /\ UNCHANGED writer

OnceAt(c, s) == once' = [once EXCEPT ![c] = s]

\* Mutant: nothing keeps the second caller out.
EveryTime(c) == TRUE

First(c) == once[c] = "free"

\* closeOnce.Do: one enters, the others wait until it is done.
RemoveEnter(c) ==
    /\ \/ First(c) /\ Remover(c, "remove", "unlink") /\ OnceAt(c, "busy")
       \/ once[c] = "done" /\ Remover(c, "remove", "done") /\ UNCHANGED once
    /\ UNCHANGED <<closing, clients, emit, held, closed, detach, paniced>>

\* Mutant: the channel is closed while Emit can still come to it.
CloseFirst(c) ==
    /\ closed' = closed \cup {c}
    /\ UNCHANGED clients

Unlink(c) ==
    /\ clients' = clients \ {c}
    /\ UNCHANGED closed

RemoveUnlinks(c) ==
    /\ Unlocked
    /\ Remover(c, "unlink", "close")
    /\ Unlink(c)
    /\ UNCHANGED <<closing, emit, held, once, detach, paniced>>

CloseChannel(c) ==
    /\ closed' = closed \cup {c}
    /\ paniced' = (paniced \/ c \in closed)
    /\ OnceAt(c, "done")

RemoveCloses(c) ==
    /\ Remover(c, "close", "done")
    /\ CloseChannel(c)
    /\ UNCHANGED <<closing, clients, emit, held, detach>>

-----------------------------------------------------------------------------
(* Emit.                                                                   *)

EmitAt(e, left) ==
    emit' = [emit EXCEPT ![e] = IF left = {} THEN NoEmit
                                ELSE [pc |-> "emit", left |-> left]]

EmitLocks(e) ==
    /\ emit[e].pc = "idle"
    /\ ~LockWanted
    /\ EmitAt(e, clients)
    /\ UNCHANGED <<closing, clients, held, closed, once, writer, reader, detach, paniced>>

\* Mutant: Emit waits for room in a channel.
OfferWaiting(c) ==
    /\ held[c] < wsClientBuffer
    /\ held' = [held EXCEPT ![c] = @ + 1]

\* A full channel loses the event.
Offer(c) ==
    held' = IF held[c] < wsClientBuffer THEN [held EXCEPT ![c] = @ + 1] ELSE held

EmitSends(e) ==
    /\ \E c \in emit[e].left :
          /\ Offer(c)
          /\ paniced' = (paniced \/ c \in closed)
          /\ EmitAt(e, emit[e].left \ {c})
    /\ UNCHANGED <<closing, clients, closed, once, writer, reader, detach>>

-----------------------------------------------------------------------------
(* Close.                                                                  *)

CloseFlags ==
    /\ detach.pc = "open"
    /\ closing' = TRUE
    /\ detach' = Detach("flagged", {})
    /\ UNCHANGED <<clients, emit, held, closed, once, writer, reader, paniced>>

CloseDetaches ==
    /\ detach.pc = "flagged"
    /\ Unlocked
    /\ clients' = {}
    /\ detach' = Detach("detached", clients)
    /\ UNCHANGED <<closing, emit, held, closed, once, writer, reader, paniced>>

CloseClient(c) ==
    /\ c \in detach.left
    /\ detach' = Detach("detached", detach.left \ {c})
    /\ \/ once[c] = "free" /\ CloseChannel(c)
       \/ once[c] = "done" /\ UNCHANGED <<closed, once, paniced>>
    /\ UNCHANGED <<closing, clients, emit, held, writer, reader>>

-----------------------------------------------------------------------------
FanoutInit ==
    /\ closing = FALSE
    /\ clients = {}
    /\ emit = [e \in Emitters |-> NoEmit]
    /\ held = [c \in Clients |-> 0]
    /\ closed = {}
    /\ once = [c \in Clients |-> "free"]
    /\ writer = [c \in Clients |-> "none"]
    /\ reader = [c \in Clients |-> "none"]
    /\ detach = Detach("open", {})
    /\ paniced = FALSE

FanoutNext ==
    \/ \E c \in Clients : Events(c)
    \/ \E c \in Clients : WriterRange(c)
    \/ \E c \in Clients : WriterWrites(c)
    \/ \E c \in Clients : ReaderFails(c)
    \/ \E c \in Clients : RemoveEnter(c)
    \/ \E c \in Clients : RemoveUnlinks(c)
    \/ \E c \in Clients : RemoveCloses(c)
    \/ \E e \in Emitters : EmitLocks(e)
    \/ \E e \in Emitters : EmitSends(e)
    \/ CloseFlags
    \/ CloseDetaches
    \/ \E c \in Clients : CloseClient(c)

FanoutSpec == FanoutInit /\ [][FanoutNext]_fanoutVars

\* An Emit goes on.  Nothing is assumed of the clients and their goroutines.
FanoutFairness == \A e \in Emitters : WF_fanoutVars(EmitSends(e))

FanoutLiveSpec == FanoutSpec /\ FanoutFairness

-----------------------------------------------------------------------------
(* Properties.                                                             *)

\* The types of the server's and the goroutines' state.
FanoutTypeOK ==
    /\ closing \in BOOLEAN /\ paniced \in BOOLEAN
    /\ clients \subseteq Clients /\ closed \subseteq Clients
    /\ emit \in [Emitters -> [pc : {"idle", "emit"}, left : SUBSET Clients]]
    /\ held \in [Clients -> 0 .. wsClientBuffer]
    /\ once \in [Clients -> {"free", "busy", "done"}]
    /\ writer \in [Clients -> {"none", "range", "write", "remove", "unlink", "close",
                               "done"}]
    /\ reader \in [Clients -> {"none", "read", "remove", "unlink", "close", "done"}]
    /\ detach \in [pc : {"open", "flagged", "detached"}, left : SUBSET Clients]

\* Whoever removes a client, and whatever Emit is in the middle of, no event is
\* sent on a closed channel and no channel is closed twice.
EmitSafe == ~paniced

\* Emit comes to its end, though clients are wedged and the goroutines that
\* remove them wait for the lock it holds.
EmitEnds == \A e \in Emitters : []<>(emit[e].pc = "idle")
=============================================================================
