---------------------------- MODULE ConnectState ----------------------------
(***************************************************************************)
(* How the player keeps itself registered with the Spotify Connect cluster *)
(* and its view of the cluster fresh (daemon/player.go on top of the       *)
(* message path of dealer/recv.go).                                        *)
(*                                                                         *)
(* Every dealer connection announces itself by a connection-id message.    *)
(* The Run goroutine voids the old registration and starts a registerAsync *)
(* goroutine for the new id; a heartbeat re-puts the state and, when it    *)
(* fails twice, forces the dealer to reconnect.  Cluster snapshots come as *)
(* pushes on the dealer connection and in the responses of the puts.       *)
(*                                                                         *)
(* registerGen counts the connection-ids handled; generations are only     *)
(* compared for equality, so a generation is named by its connection-id,   *)
(* and an id may be used again when nothing refers to it any more.  A      *)
(* snapshot is its version at the server.  The server is external: it      *)
(* serves a put or not, the response arrives or not.                       *)
(***************************************************************************)
EXTENDS Naturals, Sequences

CONSTANTS
    Ids,         \* connection-ids
    NoId,        \* the empty connection-id
    Buffer,      \* messageReceiverBuffer
    MaxVersion   \* bound: snapshots the server produces

ASSUME ConnectAssumption ==
    /\ NoId \notin Ids
    /\ Buffer \in Nat \ {0}
    /\ MaxVersion \in Nat

VARIABLES
    link,         \* id of the live dealer connection, NoId while it is down
    inbox,        \* the message receiver's channel
    current,      \* app.currentPlayer = p
    handling,     \* Run: "select", or "voided" between registered and registerGen
    spotConnId, registered, registerGen, clusterCh,
    registrar,    \* the registerAsync goroutine of every generation
    heartbeat,    \* the heartbeat goroutine
    applied,      \* version handleCluster applied last
    version,      \* server: version of the cluster
    listed     \* server: this device is registered with its live connection

connectVars == <<link, inbox, current, handling, spotConnId, registered, registerGen,
                 clusterCh, registrar, heartbeat, applied, version, listed>>

Versions == 0 .. MaxVersion
Message  == [kind : {"id"}, id : Ids] \cup [kind : {"cluster"}, version : Versions]
IdMessage(id) == [kind |-> "id", id |-> id]

Ended == [pc |-> "none", version |-> 0]
Quiet == [pc |-> "none", version |-> 0, gen |-> NoId, attempt |-> 1]

-----------------------------------------------------------------------------
(* Dealer: deliverMessage, and the connection the ids come from.           *)

\* Mutant: no capacity check.
DeliverUnbounded(q, m) == Append(q, m)

\* Mutant: a full receiver drops connection-ids like any other message.
DeliverDropping(q, m) == IF Len(q) < Buffer THEN Append(q, m) ELSE q

\* A full receiver drops the message, but for a connection-id it drops the
\* oldest message instead.
deliverMessage(q, m) ==
    IF Len(q) < Buffer THEN Append(q, m)
    ELSE IF m.kind = "id" THEN Append(Tail(q), m)
    ELSE q

Unused == Ids \ ({link, spotConnId, registerGen, heartbeat.gen}
                 \cup {i \in Ids : registrar[i].pc # "none"}
                 \cup {i \in Ids : \E n \in DOMAIN inbox : inbox[n] = IdMessage(i)})

\* The dealer re-establishes its connection and receives the new id.
Connected(id) ==
    /\ current
    /\ link = NoId
    /\ id \in Unused
    /\ link' = id
    /\ inbox' = deliverMessage(inbox, IdMessage(id))
    /\ UNCHANGED <<current, handling, spotConnId, registered, registerGen, clusterCh,
                   registrar, heartbeat, applied, version, listed>>

LinkDrops ==
    /\ link # NoId
    /\ link' = NoId
    /\ listed' = FALSE
    /\ UNCHANGED <<inbox, current, handling, spotConnId, registered, registerGen,
                   clusterCh, registrar, heartbeat, applied, version>>

\* The cluster changes; the server pushes it to a device it knows.
Publish ==
    /\ version < MaxVersion
    /\ version' = version + 1
    /\ inbox' = IF listed
                THEN deliverMessage(inbox, [kind |-> "cluster", version |-> version'])
                ELSE inbox
    /\ UNCHANGED <<link, current, handling, spotConnId, registered, registerGen,
                   clusterCh, registrar, heartbeat, applied, listed>>

-----------------------------------------------------------------------------
(* The Run goroutine.                                                      *)

\* A fresh connection-id: the registration is voided ...
HandleId ==
    /\ Head(inbox).kind = "id"
    /\ spotConnId' = Head(inbox).id
    /\ registered' = FALSE
    /\ handling' = "voided"
    /\ UNCHANGED applied

HandlePush ==
    /\ Head(inbox).kind = "cluster"
    /\ applied' = Head(inbox).version
    /\ UNCHANGED <<spotConnId, registered, handling>>

handleDealerMessage ==
    /\ current
    /\ handling = "select"
    /\ inbox # <<>>
    /\ HandleId \/ HandlePush
    /\ inbox' = Tail(inbox)
    /\ UNCHANGED <<link, current, registerGen, clusterCh, registrar, heartbeat,
                   version, listed>>

NextGeneration == registerGen' = spotConnId

\* ... then the generation is advanced and its registerAsync started.
StartRegistration ==
    /\ current
    /\ handling = "voided"
    /\ NextGeneration
    /\ registrar' = [registrar EXCEPT ![spotConnId] = [pc |-> "check", version |-> 0]]
    /\ handling' = "select"
    /\ UNCHANGED <<link, inbox, current, spotConnId, registered, clusterCh,
                   heartbeat, applied, version, listed>>

HandleInjected ==
    /\ current
    /\ handling = "select"
    /\ clusterCh # <<>>
    /\ applied' = Head(clusterCh)
    /\ clusterCh' = Tail(clusterCh)
    /\ UNCHANGED <<link, inbox, current, handling, spotConnId, registered, registerGen,
                   registrar, heartbeat, version, listed>>

\* heartbeatConnectState: only when registered, and one at a time.
HeartbeatTick ==
    /\ current
    /\ handling = "select"
    /\ spotConnId # NoId
    /\ registered
    /\ heartbeat.pc = "none"
    /\ heartbeat' = [Quiet EXCEPT !.pc = "put", !.gen = registerGen]
    /\ UNCHANGED <<link, inbox, current, handling, spotConnId, registered, registerGen,
                   clusterCh, registrar, applied, version, listed>>

\* Run returns and currentPlayer is cleared.
RunReturns ==
    /\ current
    /\ handling = "select"
    /\ current' = FALSE
    /\ UNCHANGED <<link, inbox, handling, spotConnId, registered, registerGen,
                   clusterCh, registrar, heartbeat, applied, version, listed>>

-----------------------------------------------------------------------------
(* injectCluster, one step per channel operation: caller pc "inject" tries *)
(* to send, "again" tries after having made room.                          *)

InjectFirst(next) ==
    IF clusterCh = <<>>
    THEN clusterCh' = <<next.version>> /\ next.pc = "none"
    ELSE clusterCh' = <<>> /\ next.pc = "again"

InjectAgain(next) ==
    /\ clusterCh' = IF clusterCh = <<>> THEN <<next.version>> ELSE clusterCh
    /\ next.pc = "none"

injectCluster(caller, next) ==
    /\ next.version = caller.version
    /\ \/ caller.pc = "inject" /\ InjectFirst(next)
       \/ caller.pc = "again" /\ InjectAgain(next)

-----------------------------------------------------------------------------
(* registerAsync of generation g.                                          *)

RegistrarAt(g, pc) ==
    registrar' = [registrar EXCEPT ![g] = IF pc \in {"none", "check"}
                                          THEN [Ended EXCEPT !.pc = pc]
                                          ELSE [@ EXCEPT !.pc = pc]]

Superseded(g) == registerGen # g \/ ~current

RegisterCheck(g) ==
    /\ registrar[g].pc = "check"
    /\ RegistrarAt(g, IF Superseded(g) THEN "none" ELSE "put")
    /\ UNCHANGED <<link, inbox, current, handling, spotConnId, registered, registerGen,
                   clusterCh, heartbeat, applied, version, listed>>

\* External: the server serves the put and answers with its cluster.
RegisterServed(g) ==
    /\ registrar[g].pc = "put"
    /\ registrar' = [registrar EXCEPT ![g] = [pc |-> "served", version |-> version]]
    /\ listed' = (g = link)
    /\ UNCHANGED <<link, inbox, current, handling, spotConnId, registered, registerGen,
                   clusterCh, heartbeat, applied, version>>

\* The put succeeded: one look at the generation, then registered is set.
RegisterReply(g) ==
    /\ registrar[g].pc = "served"
    /\ RegistrarAt(g, IF registerGen = g THEN "store" ELSE "none")
    /\ UNCHANGED <<link, inbox, current, handling, spotConnId, registered, registerGen,
                   clusterCh, heartbeat, applied, version, listed>>

RegisterStore(g) ==
    /\ registrar[g].pc = "store"
    /\ registered' = TRUE
    /\ RegistrarAt(g, "inject")
    /\ UNCHANGED <<link, inbox, current, handling, spotConnId, registerGen, clusterCh,
                   heartbeat, applied, version, listed>>

RegisterInject(g) ==
    /\ \E pc \in {"none", "again"} :
          /\ injectCluster(registrar[g], [registrar[g] EXCEPT !.pc = pc])
          /\ RegistrarAt(g, pc)
    /\ UNCHANGED <<link, inbox, current, handling, spotConnId, registered, registerGen,
                   heartbeat, applied, version, listed>>

\* The retry ladder: wait, look at the generation, put again.
TryAgain(g) == RegistrarAt(g, "check")

\* The put failed, or its response was lost.
RegisterFails(g) ==
    /\ registrar[g].pc \in {"put", "served"}
    /\ TryAgain(g)
    /\ UNCHANGED <<link, inbox, current, handling, spotConnId, registered, registerGen,
                   clusterCh, heartbeat, applied, version, listed>>

registerAsync(g) ==
    RegisterCheck(g) \/ RegisterReply(g) \/ RegisterStore(g) \/ RegisterInject(g)

-----------------------------------------------------------------------------
(* The heartbeat goroutine.                                                *)

\* The put names the connection-id captured with the generation.
HeartbeatServed ==
    /\ heartbeat.pc = "put"
    /\ heartbeat' = [heartbeat EXCEPT !.pc = "served", !.version = version]
    /\ listed' = (heartbeat.gen = link)
    /\ UNCHANGED <<link, inbox, current, handling, spotConnId, registered, registerGen,
                   clusterCh, registrar, applied, version>>

\* Mutant: the response of the heartbeat is not looked at.
IgnoreResponse == heartbeat' = Quiet

UseResponse ==
    heartbeat' = IF registerGen = heartbeat.gen
                 THEN [heartbeat EXCEPT !.pc = "inject"] ELSE Quiet

HeartbeatReply ==
    /\ heartbeat.pc = "served"
    /\ UseResponse
    /\ UNCHANGED <<link, inbox, current, handling, spotConnId, registered, registerGen,
                   clusterCh, registrar, applied, version, listed>>

HeartbeatInject ==
    /\ \E next \in {Quiet, [heartbeat EXCEPT !.pc = "again"]} :
          /\ injectCluster(heartbeat, [heartbeat EXCEPT !.pc = next.pc])
          /\ heartbeat' = next
    /\ UNCHANGED <<link, inbox, current, handling, spotConnId, registered, registerGen,
                   registrar, applied, version, listed>>

\* The first failure is retried unless a newer id took over, the second ends in
\* the forced reconnect.
HeartbeatFails ==
    /\ heartbeat.pc \in {"put", "served"}
    /\ heartbeat' = CASE Superseded(heartbeat.gen) -> Quiet
                      [] heartbeat.attempt = 1 -> [heartbeat EXCEPT !.pc = "put", !.version = 0, !.attempt = 2]
                      [] OTHER -> [heartbeat EXCEPT !.pc = "lost", !.version = 0]
    /\ UNCHANGED <<link, inbox, current, handling, spotConnId, registered, registerGen,
                   clusterCh, registrar, applied, version, listed>>

HeartbeatVoids ==
    /\ heartbeat.pc = "lost"
    /\ registered' = FALSE
    /\ heartbeat' = [heartbeat EXCEPT !.pc = "force"]
    /\ UNCHANGED <<link, inbox, current, handling, spotConnId, registerGen, clusterCh,
                   registrar, applied, version, listed>>

\* Mutant: the dealer is left alone.
NoReconnect == UNCHANGED <<link, listed>>

\* Dealer.ForceReconnect: the connection is closed.
ForceReconnect == link' = NoId /\ listed' = FALSE

HeartbeatForces ==
    /\ heartbeat.pc = "force"
    /\ ForceReconnect
    /\ heartbeat' = Quiet
    /\ UNCHANGED <<inbox, current, handling, spotConnId, registered, registerGen,
                   clusterCh, registrar, applied, version>>

heartbeatConnectState ==
    HeartbeatReply \/ HeartbeatInject \/ HeartbeatVoids \/ HeartbeatForces

-----------------------------------------------------------------------------
\* Where app.currentPlayer is not set there is nobody to register.
ConnectInit ==
    /\ link = NoId
    /\ inbox = <<>>
    /\ current \in BOOLEAN
    /\ handling = "select"
    /\ spotConnId = NoId
    /\ registered = FALSE
    /\ registerGen = NoId
    /\ clusterCh = <<>>
    /\ registrar = [g \in Ids |-> Ended]
    /\ heartbeat = Quiet
    /\ applied = 0
    /\ version = 0
    /\ listed = FALSE

ConnectFault == LinkDrops \/ HeartbeatFails \/ \E g \in Ids : RegisterFails(g)

ConnectNext ==
    \/ \E id \in Ids : Connected(id)
    \/ LinkDrops
    \/ Publish
    \/ handleDealerMessage
    \/ StartRegistration
    \/ HandleInjected
    \/ HeartbeatTick
    \/ RunReturns
    \/ \E g \in Ids : RegisterServed(g)
    \/ \E g \in Ids : registerAsync(g)
    \/ \E g \in Ids : RegisterFails(g)
    \/ HeartbeatServed
    \/ heartbeatConnectState
    \/ HeartbeatFails

ConnectSpec == ConnectInit /\ [][ConnectNext]_connectVars

\* Goroutines run, a select takes every case that is ready again and again
\* (clusterCh is emptied for an instant when a snapshot is replaced, registered
\* may be void when the ticker fires), the dealer reconnects, and the server
\* answers.
ConnectFairness ==
    /\ WF_connectVars(\E id \in Ids : Connected(id))
    /\ WF_connectVars(handleDealerMessage \/ StartRegistration)
    /\ SF_connectVars(HandleInjected)
    /\ SF_connectVars(HeartbeatTick)
    /\ \A g \in Ids : WF_connectVars(RegisterServed(g) \/ registerAsync(g))
    /\ WF_connectVars(HeartbeatServed \/ heartbeatConnectState)

ConnectLiveSpec == ConnectSpec /\ ConnectFairness

-----------------------------------------------------------------------------
(* Properties.                                                             *)

\* The types of the player's fields, channels and goroutines.
ConnectTypeOK ==
    /\ link \in Ids \cup {NoId}
    /\ inbox \in Seq(Message) /\ Len(inbox) <= Buffer
    /\ current \in BOOLEAN
    /\ handling \in {"select", "voided"}
    /\ spotConnId \in Ids \cup {NoId}
    /\ registered \in BOOLEAN
    /\ registerGen \in Ids \cup {NoId}
    /\ clusterCh \in Seq(Versions) /\ Len(clusterCh) <= 1
    /\ registrar \in [Ids -> [pc : {"none", "check", "put", "served", "store",
                                    "inject", "again"}, version : Versions]]
    /\ heartbeat \in [pc : {"none", "put", "served", "inject", "again", "lost",
                            "force"},
                      version : Versions, gen : Ids \cup {NoId}, attempt : 1..2]
    /\ applied \in Versions
    /\ version \in Versions
    /\ listed \in BOOLEAN

\* However full the receiver is, the id of the live connection is not lost: the
\* player has it or will read it (deliverMessage evicts for connection-ids).
NewestIdKept ==
    link # NoId => \/ spotConnId = link
                   \/ \E n \in DOMAIN inbox : inbox[n] = IdMessage(link)

\* When failures stop, the player ends up registered with the id of the live
\* connection, though puts of older ids may land late and heartbeats may void
\* a registration that is not theirs; and registerAsync ends with the player.
Registers ==
    <>[][~ConnectFault]_connectVars =>
        <>[](IF current THEN registered /\ listed
             ELSE \A g \in Ids : registrar[g].pc = "none")

\* When failures stop and the cluster settles, the player's view is the current
\* one, though pushes were dropped or overtaken by responses of puts.
CatchesUp == <>[][~ConnectFault]_connectVars => <>[](current => applied = version)
=============================================================================
