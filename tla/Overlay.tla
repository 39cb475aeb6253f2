------------------------------- MODULE Overlay -------------------------------
(***************************************************************************)
(* Which of the matches of a message stay where they overlap.  The rules'  *)
(* matches come in the order of the rules; two passes go over them, each   *)
(* adding one match after the other to what is left of those before it.    *)
(* Positions count from 0 and an end is exclusive.                         *)
(***************************************************************************)
EXTENDS Integers, Sequences, SequencesExt, Filtering

\* GetLevel of the rules, without the levels of single rules.
Level == [date |-> 20, week |-> 20, today |-> 20, time |-> 20, range |-> 30, moment |-> 10]

Same(m, n) == m.b = n.b /\ m.e = n.e
Crosses(m, n) == m.b < n.b /\ n.b < m.e /\ m.e < n.e
Within(m, n) == n.b <= m.b /\ m.e <= n.e

Clash(m, n) == Same(m, n) \/ Crosses(m, n) \/ Crosses(n, m)
Wins(m, n) == Level[m.rule] >= Level[n.rule]

-----------------------------------------------------------------------------
\* Of two that are equal or cross, the one of the higher level stays, and the earlier
\* of two of the same.  What a match drives out is gone though a third drives out it.
AddFirst(kept, m) ==
    LET rest == Only(kept, {k \in ToSet(kept) : Clash(k, m) => Wins(k, m)})
    IN  IF \E k \in ToSet(kept) : Clash(k, m) /\ Wins(k, m) THEN rest ELSE Append(rest, m)

FilterOverlayFirst(list) ==
    LET kept[i \in 0..Len(list)] == IF i = 0 THEN <<>> ELSE AddFirst(kept[i - 1], list[i])
    IN  kept[Len(list)]

\* What is within another goes.
AddSecond_StartsApart(kept, m) ==
    LET rest == Only(kept, {k \in ToSet(kept) : ~(k.b > m.b /\ Within(k, m))})
    IN  IF \E k \in ToSet(kept) : Within(m, k) THEN rest ELSE Append(rest, m)
AddSecond(kept, m) ==
    LET rest == Only(kept, {k \in ToSet(kept) : Same(k, m) \/ ~Within(k, m)})
    IN  IF \E k \in ToSet(kept) : Within(m, k) THEN rest ELSE Append(rest, m)

FilterOverlaySecond(list) ==
    LET kept[i \in 0..Len(list)] == IF i = 0 THEN <<>> ELSE AddSecond(kept[i - 1], list[i])
    IN  kept[Len(list)]
=============================================================================
