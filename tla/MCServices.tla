----------------------------- MODULE MCServices -----------------------------
(***************************************************************************)
(* Model checking of six components that share no state: the volume over  *)
(* iAP2, the event WebSockets, the stored state, the source of what is     *)
(* shown, the access point and the refresh token.  Each is checked for     *)
(* itself: a behaviour runs the one that part names.                       *)
(***************************************************************************)
EXTENDS Iap2Volume, EventFanout, StateStore, RemoteState, AccessPoint, OAuthToken

VARIABLE part

vars == <<iap2Vars, fanoutVars, storeVars, remoteVars, apVars, oauthVars, part>>

Init ==
    /\ part \in {"iap2", "fanout", "store", "remote", "ap", "oauth"}
    /\ Iap2Init
    /\ FanoutInit
    /\ StoreInit
    /\ RemoteInit
    /\ ApInit
    /\ OAuthInit

Next ==
    /\ UNCHANGED part
    /\ \/ /\ part = "iap2" /\ Iap2Next
          /\ UNCHANGED <<fanoutVars, storeVars, remoteVars, apVars, oauthVars>>
       \/ /\ part = "fanout" /\ FanoutNext
          /\ UNCHANGED <<iap2Vars, storeVars, remoteVars, apVars, oauthVars>>
       \/ /\ part = "store" /\ StoreNext
          /\ UNCHANGED <<iap2Vars, fanoutVars, remoteVars, apVars, oauthVars>>
       \/ /\ part = "remote" /\ RemoteNext
          /\ UNCHANGED <<iap2Vars, fanoutVars, storeVars, apVars, oauthVars>>
       \/ /\ part = "ap" /\ ApNext
          /\ UNCHANGED <<iap2Vars, fanoutVars, storeVars, remoteVars, oauthVars>>
       \/ /\ part = "oauth" /\ OAuthNext
          /\ UNCHANGED <<iap2Vars, fanoutVars, storeVars, remoteVars, apVars>>

Spec == Init /\ [][Next]_vars

\* A part that does not run enables nothing that these conditions are about.
LiveSpec ==
    Spec /\ Iap2Fairness /\ FanoutFairness /\ RemoteFairness /\ ApFairness

TypeOK ==
    /\ Iap2TypeOK /\ FanoutTypeOK /\ StoreTypeOK
    /\ RemoteTypeOK /\ ApTypeOK /\ OAuthTypeOK
=============================================================================
