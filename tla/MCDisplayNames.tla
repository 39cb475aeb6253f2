--------------------------- MODULE MCDisplayNames ---------------------------
(***************************************************************************)
(* Two display locales that share a file of taboo data, two names each.    *)
(***************************************************************************)
EXTENDS DisplayNames, TLC

CONSTANTS taboo

MCTabooOf == [l \in Locales |-> taboo]
ThreadSymmetry == Permutations(Threads)
=============================================================================
