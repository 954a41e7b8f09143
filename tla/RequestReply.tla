---------------------------- MODULE RequestReply ----------------------------
(***************************************************************************)
(* What the player promises to those who ask something of it: a request is *)
(* executed at most once, its outcome is settled at most once, and success *)
(* is only reported for a request that was executed.  A request reported   *)
(* as failed may still be executed later (its asker gave up waiting).      *)
(***************************************************************************)
CONSTANT Requests

VARIABLES
    status,    \* "idle", "pending", "ok" or "failed", per request
    executed   \* the requests that were executed

vars == <<status, executed>>

Init ==
    /\ status = [r \in Requests |-> "idle"]
    /\ executed = {}

Settle(r, from, to) ==
    /\ status[r] = from
    /\ status' = [status EXCEPT ![r] = to]
    /\ UNCHANGED executed

Ask(r) == Settle(r, "idle", "pending")
Refuse(r) == Settle(r, "idle", "failed")
Fail(r) == Settle(r, "pending", "failed")
Succeed(r) == r \in executed /\ Settle(r, "pending", "ok")

Execute(r) ==
    /\ status[r] \in {"pending", "failed"}
    /\ r \notin executed
    /\ executed' = executed \cup {r}
    /\ UNCHANGED status

Next ==
    \E r \in Requests :
        Ask(r) \/ Refuse(r) \/ Fail(r) \/ Succeed(r) \/ Execute(r)

Spec == Init /\ [][Next]_vars
=============================================================================
