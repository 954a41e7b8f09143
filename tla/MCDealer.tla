------------------------------ MODULE MCDealer ------------------------------
(***************************************************************************)
(* Model checking of the dealer connection and of the player's requests,   *)
(* which share no state but the end of the dealer: a behaviour runs the    *)
(* one that part names, and the other stays as it begins.                  *)
(***************************************************************************)
EXTENDS DealerConn, PlayerRequests

VARIABLE part

MCvars == <<dealerVars, vars, part>>

MCInit ==
    /\ part \in {"connection", "requests"}
    /\ DealerInit
    /\ Init

MCNext ==
    /\ UNCHANGED part
    /\ \/ part = "connection" /\ DealerNext /\ UNCHANGED vars
       \/ part = "requests" /\ Next /\ UNCHANGED dealerVars

MCSpec == MCInit /\ [][MCNext]_MCvars

Connects == part = "connection"
Serves == part = "requests"

\* DealerFairness for the behaviours of the one, RunFairness and ClientFairness
\* for those of the other.  Two conditions of strong fairness that concern
\* different behaviours are stated as one.
MCLiveSpec ==
    /\ MCSpec
    /\ WF_dealerVars(Connects /\ ConnectReturns)
    /\ WF_dealerVars(Connects /\ CloseConn)
    /\ \A r \in Receivers : WF_dealerVars(Connects /\ Receive(r))
    /\ WF_dealerVars(Connects /\ pingTicker)
    /\ WF_vars(Serves /\ (RunStarts \/ RunNotifies \/ RunReplies))
    /\ \A d \in DealerReqs :
          WF_vars(Serves /\ (waitAndSendRequestReply(d) \/ sendRequestReply(d)))
    /\ \A r \in ApiReqs : WF_vars(Serves /\ Return(r))
    /\ \A r \in LyricsReqs : WF_vars(Serves /\ handleLyricsAsync(r))
    /\ \A r \in LyricsReqs :
          SF_<<dealerVars, vars>>(\/ Serves /\ TakeApi(r) /\ UNCHANGED dealerVars
                    \/ /\ Connects /\ UNCHANGED vars
                       /\ \E l \in Loops : recvLoop(l) /\ ~Blocked(l))
    /\ \A r \in ApiReqs \ LyricsReqs :
          SF_<<dealerVars, vars>>(\/ Serves /\ TakeApi(r) /\ UNCHANGED dealerVars
                    \/ /\ Connects /\ UNCHANGED vars
                       /\ \E l \in Loops : LoopDials(l) /\ conn' # conn)

MCTypeOK == TypeOK /\ DealerTypeOK
=============================================================================
