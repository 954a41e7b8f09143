-------------------------- MODULE DealerConn_proofs --------------------------
(***************************************************************************)
(* Proofs about DealerConn, for any number of connections, goroutines and  *)
(* receivers: the types, that only the current connection can be alive,    *)
(* that recvLoop never closes or sends on a closed channel, that one dial  *)
(* runs at a time and that until Close some loop serves the receivers.     *)
(***************************************************************************)
EXTENDS DealerConn, TLAPS

\* Every step keeps the types of the dealer's fields (dealer.go, recv.go).
LEMMA DealerTypeStep == DealerTypeOK /\ [DealerNext]_dealerVars => DealerTypeOK'
<1> SUFFICES ASSUME DealerTypeOK, [DealerNext]_dealerVars PROVE DealerTypeOK'
    OBVIOUS
<1> USE DealerAssumption DEF DealerTypeOK
<1> DEFINE LoopPcs == {"free", "top", "read", "close", "retry", "dial",
                       "backoff", "closeRequests", "closeMessages"}
<1>k. ASSUME NEW c PROVE Kill(c) \in [Conns -> {"open", "stalled", "dead"}]
    BY DEF Kill
<1>m. ASSUME NEW l, NEW pc \in LoopPcs, Move(l, pc)
      PROVE loop' \in [Loops -> LoopPcs]
    BY <1>m DEF Move
<1>c. ASSUME NEW new \in Unused, connectOK(new)
      PROVE /\ conn' \in Conns
            /\ status' \in [Conns -> {"open", "stalled", "dead"}]
    BY <1>c, <1>k DEF connectOK, Unused
<1>1. CASE Connect
    BY <1>1 DEF Connect
<1>2. CASE ConnectReturns
    BY <1>2, <1>c DEF ConnectReturns
<1>3. CASE Close
    BY <1>3 DEF Close
<1>4. CASE CloseConn
    BY <1>4, <1>k DEF CloseConn
<1>5. CASE ForceReconnect
    BY <1>5, <1>k DEF ForceReconnect
<1>6. ASSUME NEW r \in Receivers, ReceiveRefused(r) PROVE DealerTypeOK'
    BY <1>6 DEF ReceiveRefused
<1>7. ASSUME NEW r \in Receivers, ReceiveChecked(r) PROVE DealerTypeOK'
    BY <1>7 DEF ReceiveChecked
<1>8. ASSUME NEW r \in Receivers, Receive(r) PROVE DealerTypeOK'
  <2> PICK l \in Loops : startReceiving(l)
    BY <1>8 DEF Receive
  <2>1. /\ started' \in BOOLEAN
        /\ loop' \in [Loops -> LoopPcs]
        /\ ping' \in [pc : {"off", "wait", "close", "send", "write"},
                      conn : Conns \cup {None}]
    BY <1>m DEF startReceiving
  <2>2. pongTicks' \in PongTicks
    BY DEF startReceiving, resetPongDeadline, PongTicks
  <2> QED
    BY <1>8, <2>1, <2>2 DEF Receive
<1>9. CASE pingTicker
    BY <1>9, <1>k DEF pingTicker, PingStops, PingTick, PingCloses, PingSends,
        PingWritten, LatePong, PongInTime, OneMore, PongTicks
<1>10. ASSUME NEW l \in Loops, recvLoop(l) PROVE DealerTypeOK'
  <2>1. CASE LoopTop(l)
    BY <2>1, <1>m DEF LoopTop, Move
  <2>2. CASE LoopRead(l)
    <3>1. panicked' \in BOOLEAN
      BY <2>2 DEF LoopRead, LoopDelivers, LoopPong, LoopSkips, LoopFails
    <3>2. pongTicks' \in PongTicks
      BY <2>2 DEF LoopRead, LoopDelivers, LoopPong, LoopSkips, LoopFails, PongTicks
    <3>3. loop' \in [Loops -> LoopPcs]
      BY <2>2, <1>m DEF LoopRead, LoopDelivers, LoopPong, LoopSkips, LoopFails
    <3> QED
      BY <2>2, <3>1, <3>2, <3>3 DEF LoopRead
  <2>3. CASE LoopCloses(l)
    BY <2>3, <1>m, <1>k DEF LoopCloses
  <2>4. CASE LoopLocks(l)
    BY <2>4, <1>m DEF LoopLocks
  <2>5. CASE LoopDials(l)
    <3>1. CASE DialOK(l)
      <4>1. conn' \in Conns \cup {None} /\ status' \in [Conns -> {"open", "stalled", "dead"}]
        BY <3>1, <1>c DEF DialOK
      <4>2. loop' \in [Loops -> LoopPcs] /\ pongTicks' \in PongTicks
        BY <3>1 DEF DialOK, resetPongDeadline, PongTicks
      <4> QED
        BY <2>5, <4>1, <4>2 DEF LoopDials
    <3>2. CASE DialFails(l)
      BY <2>5, <3>2, <1>m DEF LoopDials, DialFails
    <3>3. DialOK(l) \/ DialFails(l)
      BY <2>5 DEF LoopDials
    <3> QED
      BY <3>1, <3>2, <3>3
  <2>6. CASE LoopBackoff(l)
    <3>1. loop' \in [Loops -> LoopPcs] /\ token' \in BOOLEAN
      BY <2>6, <1>m DEF LoopBackoff, BackoffEnds
    <3> QED
      BY <2>6, <3>1 DEF LoopBackoff
  <2>7. CASE LoopCloseRequests(l)
    BY <2>7, <1>m DEF LoopCloseRequests, CloseReceivers, Receivers, Registered
  <2>8. CASE LoopCloseMessages(l)
    BY <2>8, <1>m DEF LoopCloseMessages, CloseReceivers, Receivers, Registered
  <2> QED
    BY <1>10, <2>1, <2>2, <2>3, <2>4, <2>5, <2>6, <2>7, <2>8 DEF recvLoop
<1>11. ASSUME NEW c \in Conns, Drop(c) PROVE DealerTypeOK'
    BY <1>11 DEF Drop
<1>12. ASSUME NEW c \in Conns, Stall(c) PROVE DealerTypeOK'
    BY <1>12 DEF Stall
<1>13. CASE UNCHANGED dealerVars
    BY <1>13 DEF dealerVars
<1> QED
    BY <1>1, <1>2, <1>3, <1>4, <1>5, <1>6, <1>7, <1>8, <1>9, <1>10, <1>11, <1>12,
       <1>13 DEF DealerNext

\* The fields of Dealer keep their types in every behaviour.
THEOREM DealerTyped == DealerSpec => []DealerTypeOK
<1>1. DealerInit => DealerTypeOK
  <2>1. 0 \in PongTicks
    BY DEF PongTicks
  <2>2. DealerInit => recv \in [Receivers -> {"new", "refused", "checked", "registered", "late"}]
    BY DEF DealerInit
  <2>3. DealerInit => /\ status \in [Conns -> {"open", "stalled", "dead"}]
    BY DEF DealerInit
  <2>4. DealerInit => loop \in [Loops -> {"free", "top", "read", "close", "retry", "dial",
                           "backoff", "closeRequests", "closeMessages"}]
    BY DEF DealerInit
  <2>5. DealerInit => reading \in [Loops -> Conns \cup {None}]
    BY DEF DealerInit
  <2>6. DealerInit => ping \in [pc : {"off", "wait", "close", "send", "write"},
                 conn : Conns \cup {None}]
    BY DEF DealerInit
  <2> QED
    BY <2>1, <2>2, <2>3, <2>4, <2>5, <2>6 DEF DealerInit, DealerTypeOK
<1> QED
    BY <1>1, DealerTypeStep, PTL DEF DealerSpec

-----------------------------------------------------------------------------
\* Every step that brings up a connection closes the one it replaces
\* (connect in dealer.go).
LEMMA OnlyCurrentAliveStep ==
    DealerTypeOK /\ OnlyCurrentAlive /\ [DealerNext]_dealerVars => OnlyCurrentAlive'
<1> SUFFICES ASSUME DealerTypeOK, OnlyCurrentAlive, [DealerNext]_dealerVars PROVE OnlyCurrentAlive'
    OBVIOUS
<1> USE DealerAssumption DEF DealerTypeOK, OnlyCurrentAlive
<1>k. ASSUME NEW x, status' = Kill(x) \/ UNCHANGED status, UNCHANGED conn
      PROVE OnlyCurrentAlive'
    BY <1>k DEF Kill
<1>c. ASSUME NEW new \in Unused, connectOK(new) PROVE OnlyCurrentAlive'
    BY <1>c DEF connectOK, Unused, Kill
<1>1. CASE Connect
    BY <1>1 DEF Connect
<1>2. CASE ConnectReturns
    BY <1>2, <1>c DEF ConnectReturns
<1>3. CASE Close
    BY <1>3 DEF Close
<1>4. CASE CloseConn
    BY <1>4, <1>k DEF CloseConn
<1>5. CASE ForceReconnect
    BY <1>5, <1>k DEF ForceReconnect
<1>6. ASSUME NEW r \in Receivers, ReceiveRefused(r) \/ ReceiveChecked(r) \/ Receive(r)
      PROVE OnlyCurrentAlive'
    BY <1>6 DEF ReceiveRefused, ReceiveChecked, Receive
<1>9. CASE pingTicker
    BY <1>9, <1>k DEF pingTicker, PingStops, PingTick, PingCloses, PingSends,
        PingWritten, LatePong, PongInTime
<1>10. ASSUME NEW l \in Loops, recvLoop(l) PROVE OnlyCurrentAlive'
  <2>1. CASE LoopDials(l)
    BY <2>1, <1>c DEF LoopDials, DialOK, DialFails
  <2>2. CASE ~LoopDials(l)
    BY <1>10, <2>2, <1>k DEF recvLoop, LoopTop, LoopRead, LoopCloses, LoopLocks,
        LoopBackoff, LoopCloseRequests, LoopCloseMessages
  <2> QED
    BY <2>1, <2>2
<1>11. ASSUME NEW c \in Conns, Drop(c) \/ Stall(c) PROVE OnlyCurrentAlive'
    BY <1>11 DEF Drop, Stall
<1>13. CASE UNCHANGED dealerVars
    BY <1>13 DEF dealerVars
<1> QED
    BY <1>1, <1>2, <1>3, <1>4, <1>5, <1>6, <1>9, <1>10, <1>11, <1>13 DEF DealerNext

\* No connection that connect replaced or that Close found is left open: a
\* connection that is not dead is d.conn.
THEOREM OnlyCurrentAliveHolds == DealerSpec => []OnlyCurrentAlive
<1>1. DealerInit => OnlyCurrentAlive
    BY DEF DealerInit, OnlyCurrentAlive
<1> QED
    BY <1>1, DealerTyped, OnlyCurrentAliveStep, PTL DEF DealerSpec

-----------------------------------------------------------------------------
\* The invariant behind NoPanic.  There is one recvLoop at a time, none before
\* startReceiving; request receivers are closed only when that loop is on its
\* way out, message receivers only when it has ended, and no loop follows.
SingleLoop ==
    /\ \A k, l \in Loops : loop[k] # "free" /\ loop[l] # "free" => k = l
    /\ ~started => \A l \in Loops : loop[l] = "free"

ClosedLate ==
    /\ closed \cap RequestReceivers # {} =>
          started /\ \A l \in Loops : loop[l] \in {"free", "closeMessages"}
    /\ closed \cap MessageReceivers # {} =>
          started /\ \A l \in Loops : loop[l] = "free"

LoopInv == SingleLoop /\ ClosedLate /\ NoPanic

\* Whatever step the dealer takes keeps the invariant.
LEMMA LoopInvStep == DealerTypeOK /\ LoopInv /\ [DealerNext]_dealerVars => LoopInv'
<1> SUFFICES ASSUME DealerTypeOK, LoopInv, [DealerNext]_dealerVars PROVE LoopInv'
    OBVIOUS
<1> USE DealerAssumption DEF DealerTypeOK, LoopInv, SingleLoop, ClosedLate, NoPanic
<1>s. ASSUME UNCHANGED <<loop, started, closed, panicked>> PROVE LoopInv'
    BY <1>s
\* A loop that goes on between its start and its end.
<1>m. ASSUME NEW l \in Loops, NEW pc, Move(l, pc), pc # "closeMessages",
             loop[l] \notin {"free", "closeMessages"},
             UNCHANGED <<started, closed, panicked>>
      PROVE LoopInv'
    BY <1>m DEF Move
<1>1. CASE Connect \/ ConnectReturns \/ Close \/ CloseConn \/ ForceReconnect
    BY <1>1, <1>s DEF Connect, ConnectReturns, Close, CloseConn, ForceReconnect
<1>2. ASSUME NEW r \in Receivers, ReceiveRefused(r) \/ ReceiveChecked(r)
      PROVE LoopInv'
    BY <1>2, <1>s DEF ReceiveRefused, ReceiveChecked
<1>3. ASSUME NEW r \in Receivers, Receive(r) PROVE LoopInv'
  <2> PICK l \in Loops : startReceiving(l)
    BY <1>3 DEF Receive
  <2>1. UNCHANGED <<closed, panicked>>
    BY <1>3 DEF Receive
  <2>2. CASE started
    BY <2>1, <2>2, <1>s DEF startReceiving
  <2>3. CASE ~started
    BY <2>1, <2>3 DEF startReceiving, Move
  <2> QED
    BY <2>2, <2>3
<1>4. CASE pingTicker
    BY <1>4, <1>s DEF pingTicker, PingStops, PingTick, PingCloses, PingSends,
        PingWritten
<1>5. ASSUME NEW l \in Loops, recvLoop(l) PROVE LoopInv'
  <2>1. CASE LoopTop(l)
    BY <2>1, <1>m DEF LoopTop
  <2>2. CASE LoopRead(l)
    <3>1. loop[l] = "read" /\ UNCHANGED <<started, closed>>
      BY <2>2 DEF LoopRead
    <3>2. closed = {}
      BY <3>1 DEF Receivers
    <3>3. panicked' = panicked
      BY <2>2, <3>2 DEF LoopRead, LoopDelivers, LoopPong, LoopSkips, LoopFails
    <3>4. Move(l, "top") \/ Move(l, "close")
      BY <2>2 DEF LoopRead, LoopDelivers, LoopPong, LoopSkips, LoopFails
    <3> QED
      BY <3>1, <3>3, <3>4, <1>m
  <2>3. CASE LoopCloses(l)
    BY <2>3, <1>m DEF LoopCloses
  <2>4. CASE LoopLocks(l)
    BY <2>4, <1>m DEF LoopLocks
  <2>5. CASE LoopDials(l)
    <3>1. loop[l] = "dial" /\ UNCHANGED <<started, closed, panicked>>
      BY <2>5 DEF LoopDials
    <3>2. CASE DialOK(l)
      BY <3>1, <3>2 DEF DialOK
    <3>3. CASE DialFails(l)
      BY <3>1, <3>3, <1>m DEF DialFails
    <3> QED
      BY <2>5, <3>2, <3>3 DEF LoopDials
  <2>6. CASE LoopBackoff(l)
    BY <2>6, <1>m DEF LoopBackoff, BackoffEnds
  <2>7. CASE LoopCloseRequests(l)
    <3>1. /\ loop[l] = "closeRequests"
          /\ started' = started /\ Move(l, "closeMessages")
      BY <2>7 DEF LoopCloseRequests
    <3>2. closed = {}
      BY <3>1 DEF Receivers
    <3>3. panicked' = panicked /\ closed' \subseteq RequestReceivers
      BY <2>7, <3>2 DEF LoopCloseRequests, CloseReceivers
    <3> QED
      BY <3>1, <3>3 DEF Move
  <2>8. CASE LoopCloseMessages(l)
    <3>1. /\ loop[l] = "closeMessages"
          /\ started' = started /\ Move(l, "free")
      BY <2>8 DEF LoopCloseMessages
    <3>2. closed \cap MessageReceivers = {}
      BY <3>1
    <3>3. panicked' = panicked
      BY <2>8, <3>2 DEF LoopCloseMessages, CloseReceivers
    <3>4. started /\ \A k \in Loops : loop'[k] = "free"
      BY <3>1 DEF Move
    <3> QED
      BY <3>1, <3>3, <3>4
  <2> QED
    BY <1>5, <2>1, <2>2, <2>3, <2>4, <2>5, <2>6, <2>7, <2>8 DEF recvLoop
<1>6. ASSUME NEW c \in Conns, Drop(c) \/ Stall(c) PROVE LoopInv'
    BY <1>6, <1>s DEF Drop, Stall
<1>7. CASE UNCHANGED dealerVars
    BY <1>7, <1>s DEF dealerVars
<1> QED
    BY <1>1, <1>2, <1>3, <1>4, <1>5, <1>6, <1>7 DEF DealerNext

\* recvLoop never closes a receiver channel twice nor sends on a closed one,
\* however reconnects, registrations, Close and ForceReconnect interleave.
THEOREM NoPanicHolds == DealerSpec => []NoPanic
<1>1. DealerInit => LoopInv
    BY DEF DealerInit, LoopInv, SingleLoop, ClosedLate, NoPanic
<1>2. LoopInv => NoPanic
    BY DEF LoopInv
<1> QED
    BY <1>1, <1>2, DealerTyped, LoopInvStep, PTL DEF DealerSpec

-----------------------------------------------------------------------------
(* The lock.                                                               *)

\* connMu excludes: a loop that dials holds it and holds it alone, and nobody holds
\* it while a receiver is being registered.
LockInv ==
    /\ writer \in Loops => loop[writer] = "dial"
    /\ \A l \in Loops : loop[l] = "dial" => writer = l
    /\ writer # None => \A r \in Receivers : recv[r] # "checked"

\* One dial at a time, by Connect or by the loop, and none that was begun before
\* Close is followed by another: from then on the lock is only given back, so that
\* Close, which waits for it, waits for one dial at most (connect, reconnect, Close).
THEOREM DialsAlone ==
    DealerSpec => []LockInv /\ [][done => done' /\ writer' \in {writer, None}]_dealerVars
<1>1. DealerInit => LockInv
  BY DealerAssumption DEF DealerInit, LockInv
<1>2. ASSUME DealerTypeOK, LockInv, [DealerNext]_dealerVars PROVE LockInv'
  <2> USE <1>2, DealerAssumption DEF LockInv, DealerTypeOK
  <2>1. CASE Connect \/ ConnectReturns
    BY <2>1 DEF Connect, ConnectReturns, Writable
  <2>2. ASSUME NEW r \in Receivers, ReceiveRefused(r) \/ ReceiveChecked(r) PROVE LockInv'
    BY <2>2 DEF ReceiveRefused, ReceiveChecked, Readable
  <2>3. ASSUME NEW r \in Receivers, Receive(r) PROVE LockInv'
    BY <2>3 DEF Receive, startReceiving, Move
  <2>4. ASSUME NEW l \in Loops, LoopLocks(l) PROVE LockInv'
    BY <2>4 DEF LoopLocks, Writable, Move
  <2>5. ASSUME NEW l \in Loops, LoopDials(l) PROVE LockInv'
    BY <2>5 DEF LoopDials, DialOK, DialFails, Move
  <2>6. ASSUME NEW l \in Loops, UNCHANGED <<writer, recv>>, loop[l] # "dial",
               \E pc : Move(l, pc) /\ pc # "dial"
        PROVE  LockInv'
    BY <2>6 DEF Move
  <2>7. ASSUME NEW l \in Loops,
               \/ LoopTop(l) \/ LoopRead(l) \/ LoopCloses(l) \/ LoopBackoff(l)
               \/ LoopCloseRequests(l) \/ LoopCloseMessages(l)
        PROVE  LockInv'
    BY <2>6, <2>7
    DEF LoopTop, LoopRead, LoopDelivers, LoopPong, LoopSkips, LoopFails, LoopCloses,
        LoopBackoff, BackoffEnds, LoopCloseRequests, LoopCloseMessages
  <2>8. CASE UNCHANGED <<writer, loop, recv>>
    BY <2>8
  <2> QED
    BY <1>2, <2>1, <2>2, <2>3, <2>4, <2>5, <2>7, <2>8
    DEF DealerNext, dealerVars, recvLoop, Close, CloseConn, ForceReconnect, pingTicker, PingStops,
        PingTick, PingCloses, PingSends, PingWritten, Drop, Stall
<1> DEFINE NoneBegun == done => done' /\ writer' \in {writer, None}
<1>3. ASSUME [DealerNext]_dealerVars PROVE [NoneBegun]_dealerVars
  BY <1>3
  DEF DealerNext, dealerVars, Connect, ConnectReturns, Close, CloseConn, ForceReconnect,
      ReceiveRefused, ReceiveChecked, Receive, pingTicker, PingStops, PingTick, PingCloses,
      PingSends, PingWritten, recvLoop, LoopTop, LoopRead, LoopCloses, LoopLocks,
      LoopDials, LoopBackoff, LoopCloseRequests, LoopCloseMessages, Drop, Stall
<1> HIDE DEF NoneBegun
<1>4. DealerSpec => []LockInv /\ [][NoneBegun]_dealerVars
  BY <1>1, <1>2, <1>3, DealerTyped, PTL DEF DealerSpec
<1> QED BY <1>4 DEF NoneBegun

-----------------------------------------------------------------------------
(* The part of Reconnects that needs no fairness.                          *)

\* Until Close, a dealer that has receivers has a loop that serves them; and a loop
\* that is about to read, or reads, does so from the current connection, or from one
\* that is dead, so that its next step is to notice: a connection that was replaced
\* behind its back, by Connect or ForceReconnect, cannot hold it up (startReceiving,
\* recvLoop, connect).
Serving(l) == loop[l] \notin {"free", "closeRequests", "closeMessages"}

THEOREM NeverDeaf ==
    DealerSpec => [](/\ started /\ ~done => \E l \in Loops : Serving(l)
               /\ \A l \in Loops :
                     loop[l] = "read" => reading[l] = conn \/ status[reading[l]] = "dead")
<1> DEFINE Served == started /\ ~done => \E l \in Loops : Serving(l)
           Ending == \A l \in Loops : loop[l] \in {"closeRequests", "closeMessages"} => done
           Reads == \A l \in Loops : loop[l] = "read" => reading[l] # None
           Inv == Served /\ Ending /\ Reads
<1>1. DealerInit => Inv
  BY DEF DealerInit
<1>2. ASSUME DealerTypeOK, Inv, [DealerNext]_dealerVars PROVE Inv'
  <2> USE <1>2 DEF DealerTypeOK, Serving
  <2>1. ASSUME NEW r \in Receivers, Receive(r) PROVE Inv'
    BY <2>1 DEF Receive, startReceiving, Move
  <2>2. ASSUME NEW l \in Loops, LoopTop(l) PROVE Inv'
    BY <2>2 DEF LoopTop, Move
  <2>3. ASSUME NEW l \in Loops, LoopRead(l) PROVE Inv'
    BY <2>3 DEF LoopRead, LoopDelivers, LoopPong, LoopSkips, LoopFails, Move
  <2>4. ASSUME NEW l \in Loops, LoopCloses(l) \/ LoopLocks(l) \/ LoopBackoff(l) PROVE Inv'
    BY <2>4 DEF LoopCloses, LoopLocks, LoopBackoff, BackoffEnds, Move
  <2>5. ASSUME NEW l \in Loops, LoopDials(l) PROVE Inv'
    BY <2>5 DEF LoopDials, DialOK, DialFails, Move
  <2>6. ASSUME NEW l \in Loops, LoopCloseRequests(l) \/ LoopCloseMessages(l) PROVE Inv'
    BY <2>6 DEF LoopCloseRequests, LoopCloseMessages, Move
  <2>7. CASE UNCHANGED <<started, loop, reading>> /\ done' \in {done, TRUE}
    BY <2>7
  <2> QED
    BY <1>2, <2>1, <2>2, <2>3, <2>4, <2>5, <2>6, <2>7
    DEF DealerNext, dealerVars, recvLoop, Connect, ConnectReturns, Close, CloseConn, ForceReconnect,
        ReceiveRefused, ReceiveChecked, pingTicker, PingStops, PingTick, PingCloses,
        PingSends, PingWritten, Drop, Stall
<1>3. DealerTypeOK /\ OnlyCurrentAlive /\ Reads =>
         \A l \in Loops :
            loop[l] = "read" => reading[l] = conn \/ status[reading[l]] = "dead"
  BY DEF DealerTypeOK, OnlyCurrentAlive
<1>4. Inv => Reads /\ (started /\ ~done => \E l \in Loops : Serving(l))
  OBVIOUS
<1> HIDE DEF Inv, Reads
<1> QED BY <1>1, <1>2, <1>3, <1>4, DealerTyped, OnlyCurrentAliveHolds, PTL DEF DealerSpec
=============================================================================
