------------------------ MODULE MCPhoneNumberFormat ------------------------
(***************************************************************************)
(* Two digits and a plus, and texts with and without it pasted; no         *)
(* letters: with them DigitsKept does not hold (a letter shown as its      *)
(* digit and typed on is taken for a digit that was there before).         *)
(***************************************************************************)
EXTENDS PhoneNumberFormat, TLC

MCKeyOf == [l \in {} |-> 0]
MCPastes == UNION {[1..n -> Digits] : n \in 1..3}
                \cup {<<Plus>> \o digits : digits \in UNION {[1..n -> Digits] : n \in 1..2}}
ThreadSymmetry == Permutations(Threads)
=============================================================================
