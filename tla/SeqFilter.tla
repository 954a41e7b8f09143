------------------------------ MODULE SeqFilter ------------------------------
(***************************************************************************)
(* The elements of a sequence that are in a set: what the loops that keep  *)
(* some of a slice do.  It is SelectSeq with a set for the test, defined   *)
(* by a recursive function, so that it can be proved about.                *)
(***************************************************************************)
EXTENDS Naturals, Sequences

Filter(s, T) ==
    LET kept[n \in 0 .. Len(s)] ==
            IF n = 0 THEN <<>>
            ELSE IF s[n] \in T THEN Append(kept[n - 1], s[n]) ELSE kept[n - 1]
    IN  kept[Len(s)]
=============================================================================
