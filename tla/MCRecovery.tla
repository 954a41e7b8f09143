----------------------------- MODULE MCRecovery -----------------------------
(***************************************************************************)
(* Model checking of the reboot orchestration and the Connect              *)
(* registration, which share no state: a behaviour runs the one that part  *)
(* names.  Where that is the first there is no player, and where it is the *)
(* second no profile, so that the other part has one state only.           *)
(***************************************************************************)
EXTENDS PiRecovery, ConnectState

VARIABLE part

MCvars == <<vars, connectVars, part>>

MCInit ==
    /\ part \in {"recovery", "connect"}
    /\ current = (part = "connect")
    /\ Init
    /\ ConnectInit
    /\ part = "connect" => keys = {} /\ active = NoProfile /\ ~clockSynced

MCNext ==
    /\ UNCHANGED part
    /\ \/ part = "recovery" /\ Next /\ UNCHANGED connectVars
       \/ part = "connect" /\ ConnectNext /\ UNCHANGED vars

MCSpec == MCInit /\ [][MCNext]_MCvars

Recovers == part = "recovery"

\* The ticker keeps the loop going, time passes, files are written back, a stopped
\* process exits, the device boots the daemon again, and a deletion that began goes
\* on; users, NTP and power are left free.  Without a player nothing of
\* ConnectFairness is ever enabled.
MCLiveSpec ==
    /\ MCSpec
    /\ WF_vars(Recovers /\ Loop)
    /\ WF_vars(Recovers /\ Elapse)
    /\ WF_vars(Recovers /\ Writeback)
    /\ WF_vars(Recovers /\ (Start \/ (life = "stopping" /\ Exit)))
    /\ WF_vars(Recovers /\ ClearFlagForProfile)
    /\ ConnectFairness

MCTypeOK == TypeOK /\ ConnectTypeOK
=============================================================================
