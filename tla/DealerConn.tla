----------------------------- MODULE DealerConn -----------------------------
(***************************************************************************)
(* The connection life cycle of dealer/dealer.go: one websocket that is    *)
(* replaced whenever it fails, until Close.  Actors: the recvLoop          *)
(* goroutines (a successful reconnect starts a new one and the old one     *)
(* returns), the pingTicker goroutine, the callers of Connect,             *)
(* ForceReconnect and Close, and the callers that register receivers.      *)
(*                                                                         *)
(* connMu is held for writing over a whole dial, so it is a variable here; *)
(* its read sections are single steps, except the registration of a        *)
(* receiver, which checks done first and starts the loop last.             *)
(*                                                                         *)
(* A connection is open, stalled (the peer is gone and nothing says so:    *)
(* reads block, writes go nowhere) or dead.  Go reclaims a connection that *)
(* nobody refers to, so its name may be used again.                        *)
(***************************************************************************)
EXTENDS Integers, FiniteSets

CONSTANTS
    Conns,             \* names of websocket connections
    Loops,             \* names of recvLoop goroutines
    MessageReceivers,  \* channels made by ReceiveMessage
    RequestReceivers,  \* channels made by ReceiveRequest
    None               \* no connection, no lock holder

ASSUME DealerAssumption ==
    /\ None \notin Conns
    /\ None \notin Loops
    /\ "app" \notin Loops \cup {None}
    /\ MessageReceivers \cap RequestReceivers = {}

Receivers == MessageReceivers \cup RequestReceivers

VARIABLES
    done,        \* the done channel is closed
    conn,        \* d.conn
    status,      \* the state of every connection
    writer,      \* holder of connMu for writing: a loop, "app" (Connect), None
    started,     \* recvLoopOnce has run
    loop,        \* position of every recvLoop goroutine, "free" if there is none
    reading,     \* the connection each loop reads from
    ping,        \* the ping ticker: where it is and the connection it writes to
    pongTicks,   \* ticks since lastPong; -1 when it is one interval in the future
    token,       \* reconnectNow holds a token
    recv,        \* progress of the registration of every receiver; "late" if it
                 \* was registered after Close
    closed,      \* receiver channels that have been closed
    panicked     \* a closed channel was closed again or sent on

dealerVars == <<done, conn, status, writer, started, loop, reading, ping,
                pongTicks, token, recv, closed, panicked>>

-----------------------------------------------------------------------------
Kill(c) == IF c = None THEN status ELSE [status EXCEPT ![c] = "dead"]
Registered == {r \in Receivers : recv[r] \in {"registered", "late"}}

\* RLock: nobody holds connMu for writing.
Readable == writer = None
\* Lock: nor does a registration hold it for reading.
Writable == writer = None /\ \A r \in Receivers : recv[r] # "checked"

\* Names that no variable refers to.
Unused == Conns \ ({conn, ping.conn} \cup {reading[l] : l \in Loops})

Move(l, pc) == loop' = [loop EXCEPT ![l] = pc]

\* Mutant: the connection that is replaced is forgotten, not closed.
ReplaceOnly(new) ==
    /\ status' = [status EXCEPT ![new] = "open"]
    /\ conn' = new

\* connect: the dial succeeded, the previous connection is closed.
connectOK(new) ==
    /\ status' = [Kill(conn) EXCEPT ![new] = "open"]
    /\ conn' = new

\* Mutant: the deadline is put off twice.
PutOffTwice == pongTicks' = -2

\* lastPong is set one interval ahead, the first ping is yet to be sent.
resetPongDeadline == pongTicks' = -1

-----------------------------------------------------------------------------
(* Connect, Close and ForceReconnect, on any goroutine.                    *)

\* Nothing to do when closed or when there already is a connection.
Connect ==
    /\ Writable
    /\ ~done
    /\ conn = None
    /\ writer' = "app"
    /\ UNCHANGED <<done, conn, status, started, loop, reading, ping, pongTicks,
                   token, recv, closed, panicked>>

ConnectReturns ==
    /\ writer = "app"
    /\ \/ \E new \in Unused : connectOK(new)
       \/ UNCHANGED <<conn, status>>
    /\ writer' = None
    /\ UNCHANGED <<done, started, loop, reading, ping, pongTicks, token, recv,
                   closed, panicked>>

\* Close first closes done ...
Close ==
    /\ ~done
    /\ done' = TRUE
    /\ UNCHANGED <<conn, status, writer, started, loop, reading, ping, pongTicks,
                   token, recv, closed, panicked>>

\* Mutant: Close leaves the connection to the loop.
CloseDoneOnly == done /\ UNCHANGED dealerVars

\* ... and then, when connMu can be read, the connection.
CloseConn ==
    /\ done
    /\ Readable
    /\ status' = Kill(conn)
    /\ UNCHANGED <<done, conn, writer, started, loop, reading, ping, pongTicks,
                   token, recv, closed, panicked>>

\* The token is left for the backoff; the connection is closed if TryRLock gets
\* connMu, which it does not while a writer holds it or waits for a reader.
ForceReconnect ==
    /\ ~done
    /\ token' = TRUE
    /\ \/ Readable /\ status' = Kill(conn)
       \/ ~Writable /\ UNCHANGED status
    /\ UNCHANGED <<done, conn, writer, started, loop, reading, ping, pongTicks,
                   recv, closed, panicked>>

-----------------------------------------------------------------------------
(* ReceiveMessage and ReceiveRequest.                                      *)

\* After Close the caller gets a channel that is closed already.
ReceiveRefused(r) ==
    /\ recv[r] = "new"
    /\ Readable
    /\ done
    /\ recv' = [recv EXCEPT ![r] = "refused"]
    /\ UNCHANGED <<done, conn, status, writer, started, loop, reading, ping,
                   pongTicks, token, closed, panicked>>

ReceiveChecked(r) ==
    /\ recv[r] = "new"
    /\ Readable
    /\ ~done
    /\ recv' = [recv EXCEPT ![r] = "checked"]
    /\ UNCHANGED <<done, conn, status, writer, started, loop, reading, ping,
                   pongTicks, token, closed, panicked>>

\* startReceiving: the first registration starts the ticker and the loop.
startReceiving(l) ==
    IF started
    THEN UNCHANGED <<started, loop, pongTicks, ping>>
    ELSE /\ loop[l] = "free"
         /\ started' = TRUE
         /\ Move(l, "top")
         /\ resetPongDeadline
         /\ ping' = [ping EXCEPT !.pc = "wait"]

Receive(r) ==
    /\ recv[r] = "checked"
    /\ recv' = [recv EXCEPT ![r] = IF done THEN "late" ELSE "registered"]
    /\ \E l \in Loops : startReceiving(l)
    /\ UNCHANGED <<done, conn, status, writer, reading, token, closed, panicked>>

-----------------------------------------------------------------------------
(* pingTicker.                                                             *)

\* time.Since(lastPong) > pingInterval + timeout.  After t ticks more than
\* t - 1 and at most t intervals have passed; the limit is 1 1/3 intervals.
PongLate(t) == CASE t < 2 -> {FALSE} [] t = 2 -> BOOLEAN [] OTHER -> {TRUE}

PongTicks == -1 .. 3
OneMore(t) == IF t = 3 THEN 3 ELSE t + 1

PingStops ==
    /\ ping.pc = "wait"
    /\ done
    /\ ping' = [pc |-> "off", conn |-> None]
    /\ UNCHANGED <<done, conn, status, writer, started, loop, reading, pongTicks,
                   token, recv, closed, panicked>>

\* Mutant: a late pong is only logged.
IgnoreLatePong == ping' = [ping EXCEPT !.pc = "wait"] /\ UNCHANGED status

\* The verdict is reached before connMu is read: the connection that is closed
\* may be a newer one than the one that missed its pong.
LatePong == ping' = [ping EXCEPT !.pc = "close"] /\ UNCHANGED status

PongInTime == ping' = [ping EXCEPT !.pc = "send"] /\ UNCHANGED status

PingTick ==
    /\ ping.pc = "wait"
    /\ pongTicks' = OneMore(pongTicks)
    /\ \E late \in PongLate(pongTicks') :
          \/ late /\ LatePong
          \/ ~late /\ PongInTime
    /\ UNCHANGED <<done, conn, writer, started, loop, reading, token, recv,
                   closed, panicked>>

PingCloses ==
    /\ ping.pc = "close"
    /\ Readable
    /\ status' = Kill(conn)
    /\ ping' = [ping EXCEPT !.pc = "wait"]
    /\ UNCHANGED <<done, conn, writer, started, loop, reading, pongTicks, token,
                   recv, closed, panicked>>

\* writeConn reads the connection, then writes to it without the lock.
PingSends ==
    /\ ping.pc = "send"
    /\ Readable
    /\ ping' = IF done \/ conn = None THEN [ping EXCEPT !.pc = "wait"]
               ELSE [pc |-> "write", conn |-> conn]
    /\ UNCHANGED <<done, conn, status, writer, started, loop, reading, pongTicks,
                   token, recv, closed, panicked>>

\* A failed write closes the connection it was made on, not the current one.
PingWritten ==
    /\ ping.pc = "write"
    /\ \/ status[ping.conn] # "dead" /\ UNCHANGED status
       \/ status[ping.conn] # "open" /\ status' = IF done THEN status ELSE Kill(ping.conn)
    /\ ping' = [pc |-> "wait", conn |-> None]
    /\ UNCHANGED <<done, conn, writer, started, loop, reading, pongTicks, token,
                   recv, closed, panicked>>

pingTicker == PingStops \/ PingTick \/ PingCloses \/ PingSends \/ PingWritten

-----------------------------------------------------------------------------
(* recvLoop.                                                               *)

LoopTop(l) ==
    /\ loop[l] = "top"
    /\ \/ /\ done
          /\ Move(l, "close")
          /\ UNCHANGED reading
       \/ /\ ~done
          /\ Readable
          /\ Move(l, IF conn = None THEN "close" ELSE "read")
          /\ reading' = [reading EXCEPT ![l] = conn]
    /\ UNCHANGED <<done, conn, status, writer, started, ping, pongTicks, token,
                   recv, closed, panicked>>

\* A message or a request is handed to the receivers that match it.
LoopDelivers(l) ==
    /\ \E r \in Registered : panicked' = (panicked \/ r \in closed)
    /\ Move(l, "top")
    /\ UNCHANGED pongTicks

LoopPong(l) ==
    /\ pongTicks' = 0
    /\ Move(l, "top")
    /\ UNCHANGED panicked

\* A frame that is not text is skipped.
LoopSkips(l) ==
    /\ Move(l, "top")
    /\ UNCHANGED <<pongTicks, panicked>>

\* The read failed, or the frame is not JSON.
LoopFails(l) ==
    /\ Move(l, "close")
    /\ UNCHANGED <<pongTicks, panicked>>

LoopRead(l) ==
    /\ loop[l] = "read"
    /\ \/ /\ status[reading[l]] = "open"
          /\ LoopDelivers(l) \/ LoopPong(l) \/ LoopSkips(l) \/ LoopFails(l)
       \/ /\ status[reading[l]] = "dead"
          /\ LoopFails(l)
    /\ reading' = [reading EXCEPT ![l] = None]
    /\ UNCHANGED <<done, conn, status, writer, started, ping, token, recv, closed>>

\* closeConn, then either the receivers are closed or the retries begin.
LoopCloses(l) ==
    /\ loop[l] = "close"
    /\ Readable
    /\ status' = Kill(conn)
    /\ Move(l, IF done THEN "closeRequests" ELSE "retry")
    /\ UNCHANGED <<done, conn, writer, started, reading, ping, pongTicks, token,
                   recv, closed, panicked>>

\* reconnect gives up at once when done is closed.
LoopLocks(l) ==
    /\ loop[l] = "retry"
    /\ Writable
    /\ IF done
       THEN Move(l, "closeRequests") /\ UNCHANGED writer
       ELSE Move(l, "dial") /\ writer' = l
    /\ UNCHANGED <<done, conn, status, started, reading, ping, pongTicks, token,
                   recv, closed, panicked>>

\* Mutant: after a successful reconnect the old loop goes on to the cleanup.
DialThenCleanup(l) ==
    \E new \in Unused, next \in Loops :
        /\ connectOK(new)
        /\ loop[next] = "free"
        /\ loop' = [loop EXCEPT ![l] = "closeRequests", ![next] = "top"]
        /\ resetPongDeadline

\* A new loop takes over and this one returns; receivers stay open.
DialOK(l) ==
    \E new \in Unused, next \in Loops :
        /\ connectOK(new)
        /\ loop[next] = "free"
        /\ loop' = [loop EXCEPT ![l] = "free", ![next] = "top"]
        /\ resetPongDeadline

DialFails(l) ==
    /\ Move(l, "backoff")
    /\ UNCHANGED <<conn, status, pongTicks>>

LoopDials(l) ==
    /\ loop[l] = "dial"
    /\ DialOK(l) \/ DialFails(l)
    /\ writer' = None
    /\ UNCHANGED <<done, started, reading, ping, token, recv, closed, panicked>>

BackoffEnds(l) ==
    \/ done /\ Move(l, "closeRequests") /\ UNCHANGED token
    \/ token /\ token' = FALSE /\ Move(l, "retry")
    \/ Move(l, "retry") /\ UNCHANGED token

LoopBackoff(l) ==
    /\ loop[l] = "backoff"
    /\ BackoffEnds(l)
    /\ UNCHANGED <<done, conn, status, writer, started, reading, ping, pongTicks,
                   recv, closed, panicked>>

CloseReceivers(rs) ==
    /\ closed' = closed \cup (rs \cap Registered)
    /\ panicked' = (panicked \/ closed \cap rs \cap Registered # {})

LoopCloseRequests(l) ==
    /\ loop[l] = "closeRequests"
    /\ CloseReceivers(RequestReceivers)
    /\ Move(l, "closeMessages")
    /\ UNCHANGED <<done, conn, status, writer, started, reading, ping, pongTicks,
                   token, recv>>

LoopCloseMessages(l) ==
    /\ loop[l] = "closeMessages"
    /\ CloseReceivers(MessageReceivers)
    /\ Move(l, "free")
    /\ UNCHANGED <<done, conn, status, writer, started, reading, ping, pongTicks,
                   token, recv>>

recvLoop(l) ==
    \/ LoopTop(l)
    \/ LoopRead(l)
    \/ LoopCloses(l)
    \/ LoopLocks(l)
    \/ LoopDials(l)
    \/ LoopBackoff(l)
    \/ LoopCloseRequests(l)
    \/ LoopCloseMessages(l)

-----------------------------------------------------------------------------
(* The network.                                                            *)

Drop(c) ==
    /\ status[c] # "dead"
    /\ status' = [status EXCEPT ![c] = "dead"]
    /\ UNCHANGED <<done, conn, writer, started, loop, reading, ping, pongTicks,
                   token, recv, closed, panicked>>

Stall(c) ==
    /\ status[c] = "open"
    /\ status' = [status EXCEPT ![c] = "stalled"]
    /\ UNCHANGED <<done, conn, writer, started, loop, reading, ping, pongTicks,
                   token, recv, closed, panicked>>

-----------------------------------------------------------------------------
DealerInit ==
    /\ done = FALSE
    /\ conn = None
    /\ status = [c \in Conns |-> "dead"]
    /\ writer = None
    /\ started = FALSE
    /\ loop = [l \in Loops |-> "free"]
    /\ reading = [l \in Loops |-> None]
    /\ ping = [pc |-> "off", conn |-> None]
    /\ pongTicks = 0
    /\ token = FALSE
    /\ recv = [r \in Receivers |-> "new"]
    /\ closed = {}
    /\ panicked = FALSE

DealerNext ==
    \/ Connect
    \/ ConnectReturns
    \/ Close
    \/ CloseConn
    \/ ForceReconnect
    \/ \E r \in Receivers : ReceiveRefused(r)
    \/ \E r \in Receivers : ReceiveChecked(r)
    \/ \E r \in Receivers : Receive(r)
    \/ pingTicker
    \/ \E l \in Loops : recvLoop(l)
    \/ \E c \in Conns : Drop(c)
    \/ \E c \in Conns : Stall(c)

DealerSpec == DealerInit /\ [][DealerNext]_dealerVars

\* Goroutines run, the ticker ticks, and dials do not fail for ever.  A read
\* from an open connection may block for ever.  The fairness is strong where a
\* goroutine waits for connMu: sync.RWMutex starves neither side.
Blocked(l) == loop[l] = "read" /\ status[reading[l]] = "open"

DealerFairness ==
    /\ WF_dealerVars(ConnectReturns)
    /\ WF_dealerVars(CloseConn)
    /\ \A r \in Receivers : WF_dealerVars(Receive(r))
    /\ WF_dealerVars(pingTicker)
    /\ SF_dealerVars(\E l \in Loops : recvLoop(l) /\ ~Blocked(l))
    /\ SF_dealerVars(\E l \in Loops : LoopDials(l) /\ conn' # conn)

DealerLiveSpec == DealerSpec /\ DealerFairness

-----------------------------------------------------------------------------
(* Properties.                                                             *)

\* The types of the dealer's fields and of the goroutines' positions.
DealerTypeOK ==
    /\ done \in BOOLEAN
    /\ conn \in Conns \cup {None}
    /\ status \in [Conns -> {"open", "stalled", "dead"}]
    /\ writer \in Loops \cup {"app", None}
    /\ started \in BOOLEAN
    /\ loop \in [Loops -> {"free", "top", "read", "close", "retry", "dial",
                           "backoff", "closeRequests", "closeMessages"}]
    /\ reading \in [Loops -> Conns \cup {None}]
    /\ ping \in [pc : {"off", "wait", "close", "send", "write"},
                 conn : Conns \cup {None}]
    /\ pongTicks \in PongTicks
    /\ token \in BOOLEAN
    /\ recv \in [Receivers -> {"new", "refused", "checked", "registered",
                             "late"}]
    /\ closed \subseteq Receivers
    /\ panicked \in BOOLEAN

\* No order of reconnects, registrations and Close makes recvLoop close a
\* receiver channel twice or send on a closed one (both panic in Go).
NoPanic == ~panicked

\* Only the current connection can be alive: one that connect replaced, or that
\* came up while Close was waiting for connMu, is not left open.
OnlyCurrentAlive == \A c \in Conns : status[c] # "dead" => c = conn

Connected == conn # None /\ status[conn] = "open"

\* A connection that failed or went silent is replaced by a new one, whatever
\* ForceReconnect and the ping ticker do, unless the dealer is closed.
Reconnects == []<>(~started \/ done \/ Connected)

\* After Close every receiver that was registered before it is closed, so that
\* its reader ends, and no connection stays open.
CloseReleases ==
    /\ \A r \in Receivers : []<>(done /\ recv[r] = "registered" => r \in closed)
    /\ []<>(done => \A c \in Conns : status[c] = "dead")
=============================================================================
