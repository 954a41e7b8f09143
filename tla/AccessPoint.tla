----------------------------- MODULE AccessPoint -----------------------------
(***************************************************************************)
(* The connection to a Spotify access point (ap/ap.go): the receive loop   *)
(* that hands packets to the player's loop and logs in again when the      *)
(* connection is lost, the goroutine that misses acknowledged pings, and   *)
(* Close.                                                                  *)
(*                                                                         *)
(* connMu is held for writing during a login, a dial and all its           *)
(* handshake: closeConn, which reads the connection under it, waits.       *)
(* External: the network, the server, the player's loop.                   *)
(***************************************************************************)
VARIABLES
    conn,       \* "closed", "half" (its login has failed),
                \* "open", "silent" (the peer is gone, and no error says so)
    loop,       \* recvLoop
    pongAck,    \* whether the last acknowledgement is "recent" or "old"
    ticker,     \* pongAckTicker
    apCloser,     \* Close
    apDone

apVars == <<conn, loop, pongAck, ticker, apCloser, apDone>>

\* A reader of connMu can pass.
Readable == loop # "dial"

-----------------------------------------------------------------------------
(* The session logs in, the player's loop registers its receiver.          *)

\* Nobody else knows the connection yet: a login that fails is not modelled.
ApConnect ==
    /\ loop = "none" /\ conn = "closed"
    /\ ~apDone
    /\ conn' = "open"
    /\ UNCHANGED <<loop, pongAck, ticker, apCloser, apDone>>

\* Receive, startReceiving.
Receive ==
    /\ loop = "none" /\ conn # "closed"
    /\ ~apDone
    /\ loop' = "recv"
    /\ ticker' = "wait"
    /\ pongAck' = "recent"
    /\ UNCHANGED <<conn, apCloser, apDone>>

-----------------------------------------------------------------------------
(* recvLoop.                                                               *)

\* The head of the loop.
NextPacket == loop' = IF apDone THEN "close" ELSE "recv"

RecvPongAck ==
    /\ loop = "recv" /\ conn = "open"
    /\ pongAck' = "recent"
    /\ NextPacket
    /\ UNCHANGED <<conn, ticker, apCloser, apDone>>

\* A packet the player waits for.  A ping is answered at once, or the answer
\* fails.
RecvPacket ==
    /\ loop = "recv" /\ conn = "open"
    /\ loop' \in {"hand", "close"}
    /\ UNCHANGED <<conn, pongAck, ticker, apCloser, apDone>>

\* The channel has no buffer: the loop waits until the player's loop takes the
\* packet, for ever once that has stopped.
HandOver ==
    /\ loop = "hand"
    /\ NextPacket
    /\ UNCHANGED <<conn, pongAck, ticker, apCloser, apDone>>

RecvFails ==
    /\ loop = "recv" /\ conn = "closed"
    /\ loop' = "close"
    /\ UNCHANGED <<conn, pongAck, ticker, apCloser, apDone>>

\* closeConn: a connection that was copied and replaced before it is closed
\* makes no difference, since init has closed it.
LoopCloses ==
    /\ loop = "close"
    /\ conn' = "closed"
    /\ loop' = "check"
    /\ UNCHANGED <<pongAck, ticker, apCloser, apDone>>

LoopChecks ==
    /\ loop \in {"check", "failed"}
    /\ loop' = IF apDone THEN "end" ELSE IF loop = "failed" THEN "backoff" ELSE "lock"
    /\ UNCHANGED <<conn, pongAck, ticker, apCloser, apDone>>

\* Mutant: the loop ends when the back-off has lasted too long.
GivesUp == loop' = "end"

TriesAgain == loop' = "lock"

\* The back-off has no last try.  Close cuts it short.
BackoffEnds ==
    /\ loop = "backoff"
    /\ IF apDone THEN loop' = "end" ELSE TriesAgain
    /\ UNCHANGED <<conn, pongAck, ticker, apCloser, apDone>>

\* connMu is taken, whatever has been closed meanwhile.
LoopLocks ==
    /\ loop = "lock"
    /\ loop' = "dial"
    /\ UNCHANGED <<conn, pongAck, ticker, apCloser, apDone>>

\* The dial fails, or the login, which leaves its connection open; the latter
\* at the latest when TCP gives up a peer that is gone.
ReconnectFails ==
    /\ loop = "dial"
    /\ conn' \in {conn, "half"}
    /\ loop' = "failed"
    /\ UNCHANGED <<pongAck, ticker, apCloser, apDone>>

\* reconnect: init has closed and replaced the previous connection.  A new
\* recvLoop takes over from this one, which returns.
Reconnected ==
    /\ loop = "dial"
    /\ conn' = "open"
    /\ pongAck' = "recent"
    /\ NextPacket
    /\ UNCHANGED <<ticker, apCloser, apDone>>

\* The channels of the receivers are closed.
LoopEnds ==
    /\ loop = "end"
    /\ loop' = "ended"
    /\ UNCHANGED <<conn, pongAck, ticker, apCloser, apDone>>

-----------------------------------------------------------------------------
(* Pings.                                                                  *)

\* The verdict.  closeConn comes after it, by then maybe on a new connection.
Tick ==
    /\ ticker = "wait"
    /\ \/ apDone /\ ticker' = "ended"
       \/ pongAck = "old" /\ ticker' = "close"
    /\ UNCHANGED <<conn, loop, pongAck, apCloser, apDone>>

TickerCloses ==
    /\ ticker = "close"
    /\ Readable
    /\ conn' = "closed"
    /\ ticker' = "wait"
    /\ UNCHANGED <<loop, pongAck, apCloser, apDone>>

\* Time passes without an acknowledgement: the server sends none, or the loop
\* is not there to read it.
AckAges ==
    /\ loop # "none"
    /\ pongAck' = "old"
    /\ UNCHANGED <<conn, loop, ticker, apCloser, apDone>>

-----------------------------------------------------------------------------
(* Close, and the network.                                                 *)

\* Close, by whoever comes first.
ApClose ==
    /\ apCloser = "idle"
    /\ loop # "none" \/ conn # "closed"
    /\ apDone' = TRUE
    /\ apCloser' = "close"
    /\ UNCHANGED <<conn, loop, pongAck, ticker>>

ApCloseEnds ==
    /\ apCloser = "close"
    /\ Readable
    /\ conn' = "closed"
    /\ apCloser' = "closed"
    /\ UNCHANGED <<loop, pongAck, ticker, apDone>>

\* The connection is reset, or the peer just goes.
ConnectionLost ==
    /\ conn = "open"
    /\ conn' \in {"closed", "silent"}
    /\ UNCHANGED <<loop, pongAck, ticker, apCloser, apDone>>

-----------------------------------------------------------------------------
ApInit ==
    /\ conn = "closed"
    /\ loop = "none"
    /\ pongAck = "recent"
    /\ ticker = "none"
    /\ apCloser = "idle"
    /\ apDone = FALSE

ApNext ==
    \/ ApConnect
    \/ Receive
    \/ RecvPongAck
    \/ RecvPacket
    \/ HandOver
    \/ RecvFails
    \/ LoopCloses
    \/ LoopChecks
    \/ BackoffEnds
    \/ LoopLocks
    \/ ReconnectFails
    \/ Reconnected
    \/ LoopEnds
    \/ Tick
    \/ TickerCloses
    \/ AckAges
    \/ ApClose
    \/ ApCloseEnds
    \/ ConnectionLost

ApSpec == ApInit /\ [][ApNext]_apVars

\* The steps recvLoop takes by itself.
LoopSteps == \/ RecvFails \/ LoopCloses \/ LoopChecks \/ BackoffEnds \/ LoopLocks
             \/ ReconnectFails \/ Reconnected \/ LoopEnds

\* Somebody reads what the server sends, acknowledgements among it.
Receiving == loop = "recv" /\ conn = "open"

\* Goroutines run, time passes, a login ends.
\* The player's loop takes packets until it stops, which it does to close the
\* session.
ApFairness ==
    /\ WF_apVars(LoopSteps)
    /\ WF_apVars(HandOver /\ ~apDone)
    /\ WF_apVars(Tick \/ TickerCloses)
    /\ WF_apVars(AckAges /\ ~Receiving)
    /\ WF_apVars(ApCloseEnds)

-----------------------------------------------------------------------------
(* Properties.                                                             *)

\* The types of the connection and the goroutines.
ApTypeOK ==
    /\ conn \in {"closed", "half", "open", "silent"}
    /\ loop \in {"none", "recv", "hand", "close", "check", "lock", "dial", "failed",
                 "backoff", "end", "ended"}
    /\ pongAck \in {"recent", "old"}
    /\ ticker \in {"none", "wait", "close", "ended"}
    /\ apCloser \in {"idle", "close", "closed"}
    /\ apDone \in BOOLEAN

\* A loop whose last packet nobody takes stays where it is.
Released == apCloser = "closed" /\ conn \notin {"open", "silent"} /\ loop \in {"hand", "ended"}

\* Whatever the ping's verdicts and Close do in the middle of a login: when
\* logins no longer fail, the access point comes to receive again after every
\* loss, or, once closed, to have no connection and nobody waiting for one.
ApSettles ==
    <>[][~ReconnectFails]_apVars =>
        []<>(loop # "none" => IF apDone THEN Released ELSE Receiving)
=============================================================================
