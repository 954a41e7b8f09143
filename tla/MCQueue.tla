------------------------------- MODULE MCQueue -------------------------------
(***************************************************************************)
(* Model checking of the two queue components.  Both write NextTracks, in  *)
(* events of Run that are over before the next begins, so each has in it   *)
(* what the other may do to its queue: QueueResolver an expansion          *)
(* (QueueExpanded, and the queue of a push, expanded or not), and          *)
(* QueueExpand the emit after a signal (Reemit), which changes no uri.     *)
(* Their entries have nothing else in common, uris and ids here and        *)
(* metadata there; so a behaviour runs the one that part names.            *)
(***************************************************************************)
EXTENDS QueueResolver, QueueExpand

CONSTANTS a, b

VARIABLE part

MCQueueLengths == {<<0, 0>>, <<2, 0>>, <<1, 1>>}
MCShipped == {Nothing}
MCListed == {Nothing}
MCAnswers == {[text |-> TRUE, cover |-> FALSE]}
MCPreviews == {<<>>, <<a>>, <<b>>, <<a, b>>}
MCLists == {<<a, b, a>>, <<b>>}

vars == <<resolverVars, expandVars, part>>

Init == part \in {"resolver", "expand"} /\ ResolverInit /\ ExpandInit

Next ==
    \/ part = "resolver" /\ ResolverNext /\ UNCHANGED <<expandVars, part>>
    \/ part = "expand" /\ ExpandNext /\ UNCHANGED <<resolverVars, part>>

\* Nothing is enabled at the start that these conditions ask for, so the part
\* that does not run meets them.
Spec == Init /\ [][Next]_vars /\ ResolverFairness /\ ExpandFairness

TypeOK == ResolverTypeOK /\ ExpandTypeOK
=============================================================================
