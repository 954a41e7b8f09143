----------------------------- MODULE MCBluetooth -----------------------------
(***************************************************************************)
(* Model checking of the two Bluetooth components: BtRetry leaves open     *)
(* which phones are barred and what ConnectNetwork does, BtPan when and    *)
(* for which phone an attempt is made; so each is checked for itself, and  *)
(* a behaviour runs the one that part names.                               *)
(***************************************************************************)
EXTENDS BtRetry, BtPan

CONSTANTS near, far

VARIABLE part

MCKnown == <<near, far>>

vars == <<retryVars, panVars, part>>

\* BtPan starts with the first report of the network monitor, offline: until then it
\* does the same without the retry loop.
Init ==
    /\ RetryInit
    /\ \/ part = "pan" /\ PanFrom("offline")
       \/ /\ part = "retry" /\ PanInit
          /\ acl = {} /\ lastPanAddress = NoPeer /\ \A p \in Peers : uptime[p] = "settled"

Next ==
    \/ part = "retry" /\ RetryNext /\ UNCHANGED <<panVars, part>>
    \/ part = "pan" /\ PanNext /\ UNCHANGED <<retryVars, part>>

\* Where BtRetry does not run, nothing that the condition is about is enabled.
Spec == Init /\ [][Next]_vars /\ RetryFairness

TypeOK == RetryTypeOK /\ PanTypeOK

\* Phones come and daemon and BlueZ react; no retries, no user, no losses.
ArrivalInit == RetryInit /\ PanInit /\ part = "pan"

ArrivalSpec == ArrivalInit /\ [][Arrivals /\ UNCHANGED <<retryVars, part>>]_vars
=============================================================================
