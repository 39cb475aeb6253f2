------------------------------ MODULE Filtering ------------------------------
(***************************************************************************)
(* What a loop keeps that goes through a sequence and appends what is in a *)
(* set.  It is SelectSeq, in a form that can be reasoned about.            *)
(***************************************************************************)
EXTENDS Integers, Sequences

\* The elements of s that are in T, in their order.
Only(s, T) ==
    LET kept[i \in 0..Len(s)] ==
            IF i = 0 THEN <<>>
            ELSE IF s[i] \in T THEN Append(kept[i - 1], s[i]) ELSE kept[i - 1]
    IN  kept[Len(s)]
=============================================================================
