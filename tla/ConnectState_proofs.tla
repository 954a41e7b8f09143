------------------------- MODULE ConnectState_proofs -------------------------
(***************************************************************************)
(* NewestIdKept and the types of ConnectState, for any connection-ids,     *)
(* receiver buffer and number of snapshots; at the end the types of both   *)
(* components of MCRecovery.                                               *)
(*                                                                         *)
(* NewestIdKept is not inductive: the id of the live connection could be   *)
(* taken from the receiver and then overwritten by an older one behind it. *)
(* IdIsLast adds the order: no id follows that of the live connection,     *)
(* since a connection announces itself once and when it is made.           *)
(*                                                                         *)
(* NeverUnattended, the part of Registers that needs no fairness, rests on *)
(* it: the id on its way to the player will have somebody register it.     *)
(***************************************************************************)
EXTENDS MCRecovery, PiRecovery_proofs, SequenceTheorems

IdIsLast ==
    link # NoId =>
        \/ spotConnId = link /\ \A m \in DOMAIN inbox : inbox[m].kind = "cluster"
        \/ \E n \in DOMAIN inbox :
              /\ inbox[n] = IdMessage(link)
              /\ \A m \in DOMAIN inbox : m > n => inbox[m].kind = "cluster"

Registrars == [pc : {"none", "check", "put", "served", "store", "inject", "again"},
               version : Versions]
Heartbeats == [pc : {"none", "put", "served", "inject", "again", "lost", "force"},
               version : Versions, gen : Ids \cup {NoId}, attempt : 1 .. 2]

-----------------------------------------------------------------------------
(* Messages and goroutines.                                                *)

LEMMA VersionFacts == /\ 0 \in Versions
                      /\ version \in Versions /\ version < MaxVersion
                            => version + 1 \in Versions
BY ConnectAssumption DEF Versions

LEMMA MessageFacts ==
    /\ \A id \in Ids : IdMessage(id) \in Message /\ IdMessage(id).kind = "id"
                       /\ IdMessage(id).id = id
    /\ \A v \in Versions : [kind |-> "cluster", version |-> v] \in Message
    /\ \A m \in Message : m.kind = "id" => m.id \in Ids
    /\ \A m \in Message : m.kind = "cluster" => m.version \in Versions
<1>1. \A id \in Ids : IdMessage(id) \in [kind : {"id"}, id : Ids]
  BY DEF IdMessage
<1>2. \A id \in Ids : IdMessage(id).kind = "id" /\ IdMessage(id).id = id
  BY DEF IdMessage
<1>3. \A v \in Versions : [kind |-> "cluster", version |-> v]
                             \in [kind : {"cluster"}, version : Versions]
  OBVIOUS
<1>4. ASSUME NEW m \in Message
      PROVE  (m.kind = "id" => m.id \in Ids) /\ (m.kind = "cluster" => m.version \in Versions)
  <2>1. CASE m \in [kind : {"id"}, id : Ids]
    BY <2>1
  <2>2. CASE m \in [kind : {"cluster"}, version : Versions]
    BY <2>2
  <2> QED BY <2>1, <2>2 DEF Message
<1> QED BY <1>1, <1>2, <1>3, <1>4 DEF Message

\* What a goroutine becomes.
LEMMA RegistrarFacts ==
    /\ Ended \in Registrars
    /\ \A r \in Registrars, pc \in {"put", "served", "store", "inject", "again"} :
          [r EXCEPT !.pc = pc] \in Registrars
    /\ \A pc \in {"none", "check"} : [Ended EXCEPT !.pc = pc] \in Registrars
    /\ [pc |-> "check", version |-> 0] \in Registrars
    /\ \A v \in Versions : [pc |-> "served", version |-> v] \in Registrars
    /\ \A r \in Registrars : r.version \in Versions
BY VersionFacts DEF Ended, Registrars

LEMMA HeartbeatFacts ==
    /\ Quiet \in Heartbeats
    /\ \A gen \in Ids \cup {NoId} : [Quiet EXCEPT !.pc = "put", !.gen = gen] \in Heartbeats
    /\ \A h \in Heartbeats :
          /\ h.version \in Versions
          /\ \A v \in Versions : [h EXCEPT !.pc = "served", !.version = v] \in Heartbeats
          /\ \A pc \in {"inject", "again", "force"} : [h EXCEPT !.pc = pc] \in Heartbeats
          /\ [h EXCEPT !.pc = "put", !.version = 0, !.attempt = 2] \in Heartbeats
          /\ [h EXCEPT !.pc = "lost", !.version = 0] \in Heartbeats
<1>1. Quiet \in Heartbeats
  BY VersionFacts DEF Quiet, Heartbeats
<1>2. \A h \in Heartbeats, gen \in Ids \cup {NoId} :
        [h EXCEPT !.pc = "put", !.gen = gen] \in Heartbeats
  BY DEF Heartbeats
<1>3. ASSUME NEW h \in Heartbeats
      PROVE  /\ h.version \in Versions
             /\ \A v \in Versions : [h EXCEPT !.pc = "served", !.version = v] \in Heartbeats
             /\ \A pc \in {"inject", "again", "force"} : [h EXCEPT !.pc = pc] \in Heartbeats
  BY DEF Heartbeats
<1>4. ASSUME NEW h \in Heartbeats, NEW v \in Versions, NEW n \in 1 .. 2
      PROVE  /\ [h EXCEPT !.pc = "put", !.version = v, !.attempt = n] \in Heartbeats
             /\ [h EXCEPT !.pc = "lost", !.version = v] \in Heartbeats
  BY DEF Heartbeats
<1>5. 0 \in Versions /\ 2 \in 1 .. 2
  BY VersionFacts
<1> QED BY <1>1, <1>2, <1>3, <1>4, <1>5

\* The receiver keeps its bound, and what it is given last is last.
LEMMA Delivered ==
    ASSUME NEW q \in Seq(Message), Len(q) <= Buffer, NEW m \in Message
    PROVE  /\ deliverMessage(q, m) \in Seq(Message)
           /\ Len(deliverMessage(q, m)) <= Buffer
           /\ m.kind = "id" => /\ Len(deliverMessage(q, m)) > 0
                               /\ deliverMessage(q, m)[Len(deliverMessage(q, m))] = m
           /\ m.kind # "id" => \/ deliverMessage(q, m) = q
                               \/ deliverMessage(q, m) = Append(q, m)
<1>1. Buffer \in Nat \ {0} /\ Len(q) \in Nat
  BY ConnectAssumption
<1>2. CASE Len(q) < Buffer
  <2>1. deliverMessage(q, m) = Append(q, m)
    BY <1>2 DEF deliverMessage
  <2> QED BY <1>1, <1>2, <2>1, AppendProperties
<1>3. CASE ~(Len(q) < Buffer) /\ m.kind = "id"
  <2>1. deliverMessage(q, m) = Append(Tail(q), m)
    BY <1>3 DEF deliverMessage
  <2>2. q # <<>> /\ Len(q) = Buffer
    BY <1>1, <1>3
  <2>3. Tail(q) \in Seq(Message) /\ Len(Tail(q)) = Len(q) - 1
    BY <2>2, HeadTailProperties
  <2>4. /\ Append(Tail(q), m) \in Seq(Message) /\ Len(Append(Tail(q), m)) = Len(q)
        /\ Append(Tail(q), m)[Len(q)] = m
    BY <1>1, <2>3, AppendProperties
  <2> QED BY <1>1, <1>3, <2>1, <2>2, <2>4
<1>4. CASE ~(Len(q) < Buffer) /\ m.kind # "id"
  BY <1>4 DEF deliverMessage
<1> QED BY <1>2, <1>3, <1>4

-----------------------------------------------------------------------------
(* Types.                                                                  *)

\* The goroutine of one generation changes.
LEMMA RegistrarStep ==
    ASSUME registrar \in [Ids -> Registrars], NEW g \in Ids,
           NEW pc \in {"none", "check", "put", "served", "store", "inject", "again"},
           RegistrarAt(g, pc)
    PROVE  registrar' \in [Ids -> Registrars]
<1>1. registrar[g] \in Registrars
  OBVIOUS
<1>2. CASE pc \in {"none", "check"}
  <2>1. [Ended EXCEPT !.pc = pc] \in Registrars
    BY <1>2, RegistrarFacts
  <2>2. registrar' = [registrar EXCEPT ![g] = [Ended EXCEPT !.pc = pc]]
    BY <1>2 DEF RegistrarAt
  <2> QED BY <2>1, <2>2
<1>3. CASE pc \notin {"none", "check"}
  <2>1. [registrar[g] EXCEPT !.pc = pc] \in Registrars
    BY <1>1, <1>3, RegistrarFacts
  <2>2. registrar' = [registrar EXCEPT ![g] = [registrar[g] EXCEPT !.pc = pc]]
    BY <1>3 DEF RegistrarAt
  <2> QED BY <2>1, <2>2
<1> QED BY <1>2, <1>3

\* injectCluster leaves at most one snapshot in the channel.
LEMMA Injected ==
    ASSUME clusterCh \in Seq(Versions), Len(clusterCh) <= 1,
           NEW c, NEW next, c.version \in Versions, injectCluster(c, next)
    PROVE  clusterCh' \in Seq(Versions) /\ Len(clusterCh') <= 1
<1>1. next.version \in Versions
  BY DEF injectCluster
<1> DEFINE v == next.version
<1> HIDE DEF v
<1>2. <<v>> \in Seq(Versions) /\ Len(<<v>>) = 1
  BY <1>1 DEF v
<1>3. <<>> \in Seq(Versions) /\ Len(<<>>) = 0
  OBVIOUS
<1>4. clusterCh' \in {<<v>>, <<>>, clusterCh}
  BY DEF injectCluster, InjectFirst, InjectAgain, v
<1>5. CASE clusterCh' = <<v>>
  BY <1>2, <1>5
<1>6. CASE clusterCh' = <<>>
  BY <1>3, <1>6
<1> QED BY <1>4, <1>5, <1>6

Typed ==
    /\ link \in Ids \cup {NoId}
    /\ inbox \in Seq(Message) /\ Len(inbox) <= Buffer
    /\ current \in BOOLEAN /\ handling \in {"select", "voided"}
    /\ spotConnId \in Ids \cup {NoId} /\ registered \in BOOLEAN
    /\ registerGen \in Ids \cup {NoId}
    /\ clusterCh \in Seq(Versions) /\ Len(clusterCh) <= 1
    /\ registrar \in [Ids -> Registrars] /\ heartbeat \in Heartbeats
    /\ applied \in Versions /\ version \in Versions /\ listed \in BOOLEAN

LEMMA TypedIsType == Typed <=> ConnectTypeOK
BY DEF Typed, ConnectTypeOK, Registrars, Heartbeats

LEMMA TypedStep ==
    ASSUME Typed, [ConnectNext]_connectVars
    PROVE  Typed'
<1> USE DEF Typed
<1>1. ASSUME NEW id \in Ids, Connected(id) PROVE Typed'
  <2>1. inbox' \in Seq(Message) /\ Len(inbox') <= Buffer
    BY <1>1, MessageFacts, Delivered DEF Connected
  <2> QED BY <1>1, <2>1 DEF Connected
<1>2. CASE LinkDrops
  BY <1>2 DEF LinkDrops
<1>3. CASE Publish
  <2>1. version' \in Versions
    BY <1>3, VersionFacts DEF Publish
  <2>2. [kind |-> "cluster", version |-> version'] \in Message
    BY <2>1, MessageFacts
  <2> DEFINE m == [kind |-> "cluster", version |-> version']
  <2>3. inbox' = deliverMessage(inbox, m) \/ inbox' = inbox
    BY <1>3 DEF Publish
  <2> HIDE DEF m
  <2>4. inbox' \in Seq(Message) /\ Len(inbox') <= Buffer
    BY <2>2, <2>3, Delivered DEF m
  <2> QED BY <1>3, <2>1, <2>4 DEF Publish
<1>4. CASE handleDealerMessage
  <2>1. inbox # <<>> /\ inbox' = Tail(inbox)
    BY <1>4 DEF handleDealerMessage
  <2>2. /\ Head(inbox) \in Message
        /\ inbox' \in Seq(Message) /\ Len(inbox') <= Len(inbox)
    BY <2>1, HeadTailProperties
  <2>3. Len(inbox') <= Buffer
    BY <2>2, ConnectAssumption
  <2>4. CASE HandleId
    BY <1>4, <2>2, <2>3, <2>4, MessageFacts DEF HandleId, handleDealerMessage
  <2>5. CASE HandlePush
    BY <1>4, <2>2, <2>3, <2>5, MessageFacts DEF HandlePush, handleDealerMessage
  <2> QED BY <1>4, <2>4, <2>5 DEF handleDealerMessage
<1>5. CASE StartRegistration
  <2>1. registrar' \in [Ids -> Registrars]
    BY <1>5, RegistrarFacts DEF StartRegistration
  <2> QED BY <1>5, <2>1 DEF StartRegistration, NextGeneration
<1>6. CASE HandleInjected
  <2>1. clusterCh # <<>> /\ clusterCh' = Tail(clusterCh) /\ applied' = Head(clusterCh)
    BY <1>6 DEF HandleInjected
  <2>2. /\ applied' \in Versions /\ clusterCh' \in Seq(Versions)
        /\ Len(clusterCh') <= Len(clusterCh)
    BY <2>1, HeadTailProperties
  <2>3. Len(clusterCh') <= 1
    BY <2>2
  <2> QED BY <1>6, <2>2, <2>3 DEF HandleInjected
<1>7. CASE HeartbeatTick
  <2>1. heartbeat' \in Heartbeats
    BY <1>7, HeartbeatFacts DEF HeartbeatTick
  <2> QED BY <1>7, <2>1 DEF HeartbeatTick
<1>8. CASE RunReturns
  BY <1>8 DEF RunReturns
<1>9. ASSUME NEW g \in Ids, RegisterServed(g) PROVE Typed'
  <2>1. registrar' \in [Ids -> Registrars]
    BY <1>9, RegistrarFacts DEF RegisterServed
  <2>2. listed' \in BOOLEAN
    BY <1>9 DEF RegisterServed
  <2> QED BY <1>9, <2>1, <2>2 DEF RegisterServed
<1>10. ASSUME NEW g \in Ids, RegisterCheck(g) \/ RegisterReply(g) PROVE Typed'
  <2>1. PICK pc \in {"none", "put", "store"} : RegistrarAt(g, pc)
    BY <1>10 DEF RegisterCheck, RegisterReply
  <2>2. registrar' \in [Ids -> Registrars]
    BY <2>1, RegistrarStep
  <2> QED BY <1>10, <2>2 DEF RegisterCheck, RegisterReply
<1>11. ASSUME NEW g \in Ids, RegisterStore(g) PROVE Typed'
  <2>1. registrar' \in [Ids -> Registrars]
    BY <1>11, RegistrarStep DEF RegisterStore
  <2> QED BY <1>11, <2>1 DEF RegisterStore
<1>12. ASSUME NEW g \in Ids, RegisterInject(g) PROVE Typed'
  <2>1. PICK pc \in {"none", "again"} :
          /\ injectCluster(registrar[g], [registrar[g] EXCEPT !.pc = pc])
          /\ RegistrarAt(g, pc)
    BY <1>12 DEF RegisterInject
  <2>2. registrar' \in [Ids -> Registrars]
    BY <2>1, RegistrarStep
  <2>3. registrar[g].version \in Versions
    BY RegistrarFacts
  <2>4. clusterCh' \in Seq(Versions) /\ Len(clusterCh') <= 1
    BY <2>1, <2>3, Injected
  <2> QED BY <1>12, <2>2, <2>4 DEF RegisterInject
<1>13. ASSUME NEW g \in Ids, RegisterFails(g) PROVE Typed'
  <2>1. registrar' \in [Ids -> Registrars]
    BY <1>13, RegistrarStep DEF RegisterFails, TryAgain
  <2> QED BY <1>13, <2>1 DEF RegisterFails
<1>14. CASE HeartbeatServed
  <2>1. heartbeat' \in Heartbeats
    BY <1>14, HeartbeatFacts DEF HeartbeatServed
  <2>2. listed' \in BOOLEAN
    BY <1>14 DEF HeartbeatServed
  <2> QED BY <1>14, <2>1, <2>2 DEF HeartbeatServed
<1>15. CASE HeartbeatReply
  <2>1. heartbeat' \in Heartbeats
    BY <1>15, HeartbeatFacts DEF HeartbeatReply, UseResponse
  <2> QED BY <1>15, <2>1 DEF HeartbeatReply
<1>16. CASE HeartbeatInject
  <2>1. PICK next \in {Quiet, [heartbeat EXCEPT !.pc = "again"]} :
          /\ injectCluster(heartbeat, [heartbeat EXCEPT !.pc = next.pc])
          /\ heartbeat' = next
    BY <1>16 DEF HeartbeatInject
  <2>2. heartbeat' \in Heartbeats /\ heartbeat.version \in Versions
    BY <2>1, HeartbeatFacts
  <2>3. clusterCh' \in Seq(Versions) /\ Len(clusterCh') <= 1
    BY <2>1, <2>2, Injected
  <2> QED BY <1>16, <2>2, <2>3 DEF HeartbeatInject
<1>17. CASE HeartbeatVoids
  <2>1. heartbeat' \in Heartbeats
    BY <1>17, HeartbeatFacts DEF HeartbeatVoids
  <2> QED BY <1>17, <2>1 DEF HeartbeatVoids
<1>18. CASE HeartbeatForces
  BY <1>18, HeartbeatFacts DEF HeartbeatForces, ForceReconnect
<1>19. CASE HeartbeatFails
  <2>1. \/ heartbeat' = Quiet
        \/ heartbeat' = [heartbeat EXCEPT !.pc = "put", !.version = 0, !.attempt = 2]
        \/ heartbeat' = [heartbeat EXCEPT !.pc = "lost", !.version = 0]
    BY <1>19 DEF HeartbeatFails
  <2>2. heartbeat' \in Heartbeats
    BY <2>1, HeartbeatFacts
  <2> QED BY <1>19, <2>2 DEF HeartbeatFails
<1>20. CASE UNCHANGED connectVars
  BY <1>20 DEF connectVars
<1> QED
  BY <1>1, <1>2, <1>3, <1>4, <1>5, <1>6, <1>7, <1>8, <1>9, <1>10, <1>11, <1>12, <1>13,
     <1>14, <1>15, <1>16, <1>17, <1>18, <1>19, <1>20
  DEF ConnectNext, registerAsync, heartbeatConnectState

LEMMA TypedInit == ConnectInit => Typed
<1> SUFFICES ASSUME ConnectInit PROVE Typed
  OBVIOUS
<1>1. inbox \in Seq(Message) /\ Len(inbox) = 0
  BY DEF ConnectInit
<1>2. clusterCh \in Seq(Versions) /\ Len(clusterCh) = 0
  BY DEF ConnectInit
<1>3. Len(inbox) <= Buffer /\ Len(clusterCh) <= 1
  BY <1>1, <1>2, ConnectAssumption
<1>4. registrar \in [Ids -> Registrars] /\ heartbeat \in Heartbeats
  BY RegistrarFacts, HeartbeatFacts DEF ConnectInit
<1> QED BY <1>1, <1>2, <1>3, <1>4, VersionFacts DEF ConnectInit, Typed

\* The player's fields, channels and goroutines keep their types, and the receiver
\* and clusterCh their bounds.
THEOREM ConnectTyped == ConnectSpec => []ConnectTypeOK
BY TypedInit, TypedStep, TypedIsType, PTL DEF ConnectSpec

-----------------------------------------------------------------------------
(* NewestIdKept.                                                           *)

LEMMA LastStep ==
    ASSUME Typed, IdIsLast, [ConnectNext]_connectVars
    PROVE  IdIsLast'
<1>1. inbox \in Seq(Message) /\ Len(inbox) <= Buffer /\ Len(inbox) \in Nat
  BY DEF Typed
<1>2. CASE UNCHANGED <<link, inbox, spotConnId>>
  BY <1>2 DEF IdIsLast
<1>3. CASE link' = NoId
  BY <1>3 DEF IdIsLast
<1>4. ASSUME NEW id \in Ids, Connected(id) PROVE IdIsLast'
  <2>1. link' = id /\ inbox' = deliverMessage(inbox, IdMessage(id))
    BY <1>4 DEF Connected
  <2>2. /\ inbox' \in Seq(Message) /\ Len(inbox') > 0
        /\ inbox'[Len(inbox')] = IdMessage(link')
    BY <1>1, <2>1, Delivered, MessageFacts
  <2>3. Len(inbox') \in DOMAIN inbox' /\ \A m \in DOMAIN inbox' : ~(m > Len(inbox'))
    BY <2>2
  <2> QED BY <2>2, <2>3 DEF IdIsLast
<1>5. CASE Publish
  <2> DEFINE c == [kind |-> "cluster", version |-> version']
  <2>1. c \in Message /\ c.kind = "cluster"
    BY <1>5, VersionFacts, MessageFacts DEF Publish, Typed
  <2>2. inbox' = deliverMessage(inbox, c) \/ inbox' = inbox
    BY <1>5 DEF Publish
  <2>3. UNCHANGED <<link, spotConnId>>
    BY <1>5 DEF Publish
  <2> HIDE DEF c
  <2>4. inbox' = Append(inbox, c) \/ inbox' = inbox
    BY <1>1, <2>1, <2>2, Delivered
  <2>5. CASE inbox' = Append(inbox, c)
    <3>1. /\ DOMAIN inbox = 1 .. Len(inbox) /\ DOMAIN inbox' = 1 .. Len(inbox) + 1
          /\ \A m \in 1 .. Len(inbox) : inbox'[m] = inbox[m]
          /\ inbox'[Len(inbox) + 1] = c
      BY <1>1, <2>1, <2>5, AppendProperties
    <3>2. \A m \in DOMAIN inbox' : m \in DOMAIN inbox \/ inbox'[m].kind = "cluster"
      BY <1>1, <2>1, <3>1
    <3>3. DOMAIN inbox \subseteq DOMAIN inbox'
      BY <1>1, <3>1
    <3> QED BY <2>3, <3>1, <3>2, <3>3 DEF IdIsLast
  <2> QED BY <1>2, <2>3, <2>4, <2>5
<1>6. CASE handleDealerMessage
  <2>1. inbox # <<>> /\ inbox' = Tail(inbox) /\ link' = link
    BY <1>6 DEF handleDealerMessage
  <2>2. /\ DOMAIN inbox = 1 .. Len(inbox) /\ Len(inbox) > 0
        /\ DOMAIN inbox' = 1 .. Len(inbox) - 1
        /\ \A m \in 1 .. Len(inbox) - 1 : inbox'[m] = inbox[m + 1]
        /\ Head(inbox) = inbox[1]
    BY <1>1, <2>1, HeadTailProperties
  <2>3. \A m \in DOMAIN inbox' : m + 1 \in DOMAIN inbox /\ m \in Nat
    BY <1>1, <2>2
  <2>4. CASE /\ link # NoId /\ spotConnId = link
             /\ \A m \in DOMAIN inbox : inbox[m].kind = "cluster"
    <3>1. 1 \in DOMAIN inbox
      BY <1>1, <2>2
    <3>2. Head(inbox).kind = "cluster"
      BY <2>2, <2>4, <3>1
    <3>3. UNCHANGED spotConnId
      BY <1>6, <3>2 DEF handleDealerMessage, HandleId, HandlePush
    <3>4. \A m \in DOMAIN inbox' : inbox'[m].kind = "cluster"
      BY <2>2, <2>3, <2>4
    <3> QED BY <2>1, <2>4, <3>3, <3>4 DEF IdIsLast
  <2>5. ASSUME link # NoId, NEW n \in DOMAIN inbox, inbox[n] = IdMessage(link),
               \A m \in DOMAIN inbox : m > n => inbox[m].kind = "cluster"
        PROVE  IdIsLast'
    <3>1. CASE n = 1
      <4>1. link \in Ids
        BY <2>5 DEF Typed
      <4>2. Head(inbox).kind = "id" /\ Head(inbox).id = link
        BY <2>2, <2>5, <3>1, <4>1, MessageFacts
      <4>3. spotConnId' = link
        BY <1>6, <4>2 DEF handleDealerMessage, HandleId, HandlePush
      <4>4. \A m \in DOMAIN inbox' : inbox'[m].kind = "cluster"
        <5>1. \A m \in DOMAIN inbox' : m + 1 > n
          BY <2>2, <3>1, <1>1
        <5> QED BY <2>2, <2>3, <2>5, <5>1
      <4> QED BY <2>1, <4>3, <4>4 DEF IdIsLast
    <3>2. CASE n # 1
      <4>1. n - 1 \in DOMAIN inbox' /\ (n - 1) + 1 = n
        BY <1>1, <2>2, <3>2
      <4>2. inbox'[n - 1] = IdMessage(link')
        BY <2>1, <2>2, <2>5, <4>1
      <4>3. \A m \in DOMAIN inbox' : m > n - 1 => inbox'[m].kind = "cluster"
        <5>1. \A m \in DOMAIN inbox' : m > n - 1 => m + 1 > n
          BY <1>1, <2>2, <3>2
        <5> QED BY <2>2, <2>3, <2>5, <5>1
      <4> QED BY <4>1, <4>2, <4>3 DEF IdIsLast
    <3> QED BY <3>1, <3>2
  <2>6. CASE link = NoId
    BY <1>3, <2>1, <2>6
  <2> QED BY <2>4, <2>5, <2>6 DEF IdIsLast
<1>7. CASE LinkDrops \/ HeartbeatForces
  BY <1>3, <1>7 DEF LinkDrops, HeartbeatForces, ForceReconnect
<1>8. CASE StartRegistration \/ HandleInjected \/ HeartbeatTick \/ RunReturns
  BY <1>2, <1>8 DEF StartRegistration, HandleInjected, HeartbeatTick, RunReturns
<1>9. ASSUME NEW g \in Ids, RegisterServed(g) \/ registerAsync(g) \/ RegisterFails(g)
      PROVE  IdIsLast'
  BY <1>2, <1>9 DEF RegisterServed, registerAsync, RegisterFails, RegisterCheck,
     RegisterReply, RegisterStore, RegisterInject
<1>10. CASE HeartbeatServed \/ HeartbeatFails \/ HeartbeatReply \/ HeartbeatInject
            \/ HeartbeatVoids
  BY <1>2, <1>10 DEF HeartbeatServed, HeartbeatFails, HeartbeatReply, HeartbeatInject,
     HeartbeatVoids
<1>11. CASE UNCHANGED connectVars
  BY <1>2, <1>11 DEF connectVars
<1> QED
  BY <1>4, <1>5, <1>6, <1>7, <1>8, <1>9, <1>10, <1>11 DEF ConnectNext, heartbeatConnectState

\* The id of the live connection is never lost: it is in the receiver, or the player
\* has it, however small the receiver is and however many pushes come.
THEOREM IdStays == ConnectSpec => []NewestIdKept
<1>1. ConnectInit => IdIsLast
  BY DEF ConnectInit, IdIsLast
<1>2. IdIsLast => NewestIdKept
  BY DEF IdIsLast, NewestIdKept
<1>3. ConnectSpec => []Typed
  BY TypedInit, TypedStep, PTL DEF ConnectSpec
<1> QED BY <1>1, <1>2, <1>3, LastStep, PTL DEF ConnectSpec

-----------------------------------------------------------------------------
(* The registration of the live connection is never left to nobody, which  *)
(* is the part of Registers that needs no fairness.  Somebody is about to  *)
(* read the id, to start registerAsync for it, to put, or to force another *)
(* connection; or the player counts as registered, and the next heartbeat  *)
(* finds out.                                                              *)

Registering(g) == registrar[g].pc \in {"check", "put", "served", "store"}

\* Between two messages the generation is that of the connection-id.
GenFollows == handling = "select" => registerGen = spotConnId

Waiting == \E n \in DOMAIN inbox : inbox[n] = IdMessage(link)

Attended ==
    current /\ link # NoId =>
        \/ Waiting
        \/ spotConnId = link /\ handling = "voided"
        \/ /\ registerGen = link
           /\ registered \/ Registering(link) \/ heartbeat.pc = "force"

\* The id that IdIsLast says of is not read by anybody yet, or is the player's.
LEMMA IdPlace ==
    ASSUME IdIsLast, link # NoId
    PROVE  Waiting \/ spotConnId = link
BY DEF IdIsLast, Waiting

LEMMA GenStep ==
    ASSUME GenFollows, [ConnectNext]_connectVars
    PROVE  GenFollows'
<1> USE DEF GenFollows
<1>1. CASE handleDealerMessage
  BY <1>1 DEF handleDealerMessage, HandleId, HandlePush
<1>2. CASE StartRegistration
  BY <1>2 DEF StartRegistration, NextGeneration
<1>3. CASE UNCHANGED <<handling, registerGen, spotConnId>>
  BY <1>3
<1> QED
  BY <1>1, <1>2, <1>3
  DEF ConnectNext, connectVars, Connected, LinkDrops, Publish, HandleInjected,
      HeartbeatTick, RunReturns, RegisterServed, registerAsync, RegisterCheck,
      RegisterReply, RegisterStore, RegisterInject, RegisterFails, HeartbeatServed,
      heartbeatConnectState, HeartbeatReply, HeartbeatInject, HeartbeatVoids,
      HeartbeatForces, HeartbeatFails

\* The registerAsync of one generation goes on.
LEMMA RegistrarMoves ==
    ASSUME Typed, NEW g \in Ids, NEW pc, RegistrarAt(g, pc)
    PROVE  /\ registrar'[g].pc = pc
           /\ \A i \in Ids : i # g => registrar'[i] = registrar[i]
<1>1. registrar[g] \in Registrars /\ DOMAIN registrar = Ids
  BY DEF Typed
<1>2. \A r \in Registrars : [r EXCEPT !.pc = pc].pc = pc
  BY DEF Registrars
<1>3. [Ended EXCEPT !.pc = pc].pc = pc
  BY DEF Ended
<1> QED BY <1>1, <1>2, <1>3 DEF RegistrarAt

LEMMA AttendedStep ==
    ASSUME Typed, IdIsLast, GenFollows, Attended, [ConnectNext]_connectVars
    PROVE  Attended'
<1> SUFFICES ASSUME current', link' # NoId PROVE Attended'
  BY DEF Attended
<1>1. inbox \in Seq(Message) /\ Len(inbox) <= Buffer /\ Len(inbox) \in Nat
  BY DEF Typed
\* Steps that leave the link, the receiver and the player's fields alone.
<1>2. ASSUME UNCHANGED <<link, inbox, current, handling, spotConnId, registerGen>>,
             registered => registered' \/ heartbeat'.pc = "force",
             link # NoId /\ registerGen = link /\ Registering(link)
                => registered' \/ Registering(link)',
             heartbeat.pc = "force" => heartbeat'.pc = "force"
      PROVE  Attended'
  BY <1>2 DEF Attended, Waiting, Registering
<1>3. ASSUME NEW id \in Ids, Connected(id) PROVE Attended'
  <2>1. link' = id /\ inbox' = deliverMessage(inbox, IdMessage(id))
    BY <1>3 DEF Connected
  <2>2. /\ inbox' \in Seq(Message) /\ Len(inbox') > 0
        /\ inbox'[Len(inbox')] = IdMessage(link')
    BY <1>1, <2>1, Delivered, MessageFacts
  <2>3. Waiting'
    BY <2>2 DEF Waiting
  <2> QED BY <2>3 DEF Attended
<1>4. CASE Publish
  <2> DEFINE c == [kind |-> "cluster", version |-> version']
  <2>1. c \in Message /\ c.kind = "cluster"
    BY <1>4, VersionFacts, MessageFacts DEF Publish, Typed
  <2>2. inbox' = deliverMessage(inbox, c) \/ inbox' = inbox
    BY <1>4 DEF Publish
  <2>3. UNCHANGED <<link, current, handling, spotConnId, registered, registerGen,
                    registrar, heartbeat>>
    BY <1>4 DEF Publish
  <2> HIDE DEF c
  <2>4. inbox' = Append(inbox, c) \/ inbox' = inbox
    BY <1>1, <2>1, <2>2, Delivered
  <2>5. \A n \in DOMAIN inbox : n \in DOMAIN inbox' /\ inbox'[n] = inbox[n]
    BY <1>1, <2>1, <2>4, AppendProperties
  <2>6. Waiting => Waiting'
    BY <2>3, <2>5 DEF Waiting
  <2> QED BY <2>3, <2>6 DEF Attended, Registering
<1>5. CASE handleDealerMessage
  <2>1. /\ inbox # <<>> /\ inbox' = Tail(inbox) /\ handling = "select"
        /\ UNCHANGED <<link, current, registerGen, registrar, heartbeat>>
    BY <1>5 DEF handleDealerMessage
  <2>2. /\ DOMAIN inbox = 1 .. Len(inbox) /\ Len(inbox) > 0
        /\ DOMAIN inbox' = 1 .. Len(inbox) - 1
        /\ \A m \in 1 .. Len(inbox) - 1 : inbox'[m] = inbox[m + 1]
        /\ Head(inbox) = inbox[1]
    BY <1>1, <2>1, HeadTailProperties
  <2>3. link \in Ids
    BY <2>1 DEF Typed
  <2>4. ASSUME NEW n \in DOMAIN inbox, inbox[n] = IdMessage(link) PROVE Attended'
    <3>1. CASE n = 1
      <4>1. Head(inbox).kind = "id" /\ Head(inbox).id = link
        BY <2>2, <2>3, <2>4, <3>1, MessageFacts
      <4>2. spotConnId' = link' /\ handling' = "voided"
        BY <1>5, <2>1, <4>1 DEF handleDealerMessage, HandleId, HandlePush
      <4> QED BY <4>2 DEF Attended
    <3>2. CASE n # 1
      <4>1. n - 1 \in DOMAIN inbox' /\ (n - 1) + 1 = n
        BY <1>1, <2>2, <3>2
      <4>2. inbox'[n - 1] = IdMessage(link')
        BY <2>1, <2>2, <2>4, <4>1
      <4>3. Waiting'
        BY <4>1, <4>2 DEF Waiting
      <4> QED BY <4>3 DEF Attended
    <3> QED BY <3>1, <3>2
  <2>5. CASE spotConnId = link /\ \A m \in DOMAIN inbox : inbox[m].kind = "cluster"
    <3>1. Head(inbox).kind = "cluster"
      BY <1>1, <2>2, <2>5
    <3>2. UNCHANGED <<spotConnId, registered, handling>>
      BY <1>5, <3>1 DEF handleDealerMessage, HandleId, HandlePush
    <3>3. ~Waiting
      BY <2>3, <2>5, MessageFacts DEF Waiting
    <3> QED BY <2>1, <3>2, <3>3 DEF Attended, Registering
  <2> QED BY <2>1, <2>4, <2>5 DEF IdIsLast
<1>6. CASE StartRegistration
  <2>1. /\ UNCHANGED <<link, inbox, current, spotConnId>> /\ registerGen' = spotConnId
        /\ registrar' = [registrar EXCEPT ![spotConnId] = [pc |-> "check", version |-> 0]]
    BY <1>6 DEF StartRegistration, NextGeneration
  <2>2. CASE spotConnId = link
    <3>1. link' \in Ids /\ registrar'[link'].pc = "check"
      BY <2>1, <2>2 DEF Typed
    <3> QED BY <2>1, <2>2, <3>1 DEF Attended, Registering
  <2>3. CASE Waiting
    BY <2>1, <2>3 DEF Attended, Waiting
  <2> QED BY <2>1, <2>2, <2>3, IdPlace
<1>7. CASE LinkDrops \/ HeartbeatForces \/ RunReturns
  BY <1>7 DEF LinkDrops, HeartbeatForces, ForceReconnect, RunReturns
<1>8. CASE HandleInjected \/ HeartbeatTick
  BY <1>2, <1>8 DEF HandleInjected, HeartbeatTick, Registering
<1>9. ASSUME NEW g \in Ids, RegisterServed(g) PROVE Attended'
  <2>1. registrar'[g].pc = "served" /\ \A i \in Ids : i # g => registrar'[i] = registrar[i]
    BY <1>9 DEF RegisterServed, Typed
  <2> QED BY <1>2, <1>9, <2>1 DEF RegisterServed, Registering, Typed
<1>10. ASSUME NEW g \in Ids, RegisterCheck(g) \/ RegisterReply(g) PROVE Attended'
  <2>1. PICK pc : /\ RegistrarAt(g, pc)
                  /\ registerGen = g /\ current => pc \in {"put", "store"}
    BY <1>10 DEF RegisterCheck, RegisterReply, Superseded
  <2>2. /\ registrar'[g].pc = pc
        /\ \A i \in Ids : i # g => registrar'[i] = registrar[i]
    BY <2>1, RegistrarMoves
  <2>3. UNCHANGED <<link, inbox, current, handling, spotConnId, registerGen, registered,
                    heartbeat>>
    BY <1>10 DEF RegisterCheck, RegisterReply
  <2> QED BY <1>2, <2>1, <2>2, <2>3 DEF Registering, Typed
<1>11. ASSUME NEW g \in Ids, RegisterStore(g) PROVE Attended'
  BY <1>2, <1>11 DEF RegisterStore
<1>12. ASSUME NEW g \in Ids, RegisterInject(g) PROVE Attended'
  <2>1. PICK pc : RegistrarAt(g, pc)
    BY <1>12 DEF RegisterInject
  <2>2. \A i \in Ids : i # g => registrar'[i] = registrar[i]
    BY <2>1, RegistrarMoves
  <2>3. ~Registering(g)
    BY <1>12 DEF RegisterInject, injectCluster, Registering
  <2> QED BY <1>2, <1>12, <2>2, <2>3 DEF RegisterInject, Registering, Typed
<1>13. ASSUME NEW g \in Ids, RegisterFails(g) PROVE Attended'
  <2>1. /\ registrar'[g].pc = "check"
        /\ \A i \in Ids : i # g => registrar'[i] = registrar[i]
    BY <1>13, RegistrarMoves DEF RegisterFails, TryAgain
  <2> QED BY <1>2, <1>13, <2>1 DEF RegisterFails, Registering, Typed
<1>14. CASE HeartbeatServed \/ HeartbeatReply \/ HeartbeatFails
  BY <1>2, <1>14 DEF HeartbeatServed, HeartbeatReply, HeartbeatFails, Registering
<1>15. CASE HeartbeatInject
  BY <1>2, <1>15 DEF HeartbeatInject, injectCluster, Registering
<1>16. CASE HeartbeatVoids
  <2>1. heartbeat'.pc = "force"
    BY <1>16 DEF HeartbeatVoids, Typed, Heartbeats
  <2> QED BY <1>2, <1>16, <2>1 DEF HeartbeatVoids, Registering
<1>17. CASE UNCHANGED connectVars
  BY <1>2, <1>17 DEF connectVars, Registering
<1> QED
  BY <1>3, <1>4, <1>5, <1>6, <1>7, <1>8, <1>9, <1>10, <1>11, <1>12, <1>13, <1>14, <1>15,
     <1>16, <1>17
  DEF ConnectNext, registerAsync, heartbeatConnectState

\* While a connection is up and the player runs, somebody sees to its registration,
\* though registerAsync goroutines end when they are superseded, puts of older ids
\* land late, and a heartbeat voids a registration that is not its own: none of them
\* takes away the last one that would have put (handleDealerMessage, registerAsync,
\* heartbeatConnectState).
THEOREM NeverUnattended == ConnectSpec => []Attended
<1>1. ConnectInit => IdIsLast /\ GenFollows /\ Attended
  BY DEF ConnectInit, IdIsLast, GenFollows, Attended
<1>2. ConnectSpec => []Typed
  BY TypedInit, TypedStep, PTL DEF ConnectSpec
<1> QED BY <1>1, <1>2, LastStep, GenStep, AttendedStep, PTL DEF ConnectSpec

-----------------------------------------------------------------------------
(* MCRecovery.                                                             *)

LEMMA PartSteps ==
    ASSUME [MCNext]_MCvars
    PROVE  [Next]_vars /\ [ConnectNext]_connectVars
<1>1. CASE UNCHANGED MCvars
  BY <1>1 DEF MCvars
<1> QED BY <1>1 DEF MCNext

LEMMA Parts == MCSpec => Spec /\ ConnectSpec
<1>1. MCInit => Init /\ ConnectInit
  BY DEF MCInit
<1> QED BY <1>1, PartSteps, PTL DEF MCSpec, Spec, ConnectSpec

\* The orchestrator, its files and the player keep their types in every reachable
\* state of the composition.
THEOREM RecoveryTyped == MCSpec => []MCTypeOK
<1>1. TypeOK /\ ConnectTypeOK => MCTypeOK
  BY DEF MCTypeOK
<1> QED BY <1>1, Parts, TypeCorrect, ConnectTyped, PTL

\* The reboots and the registration are safe in every behaviour of the composition,
\* with any fairness.
THEOREM RecoverySafe ==
    MCSpec => [](OncePerLifetime /\ QuietWindow /\ NewestIdKept) /\ OncePerEpisode
BY Parts, OncePerLifetimeHolds, QuietWindowHolds, IdStays, OncePerEpisodeHolds, PTL
=============================================================================
