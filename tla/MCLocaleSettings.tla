-------------------------- MODULE MCLocaleSettings --------------------------
(***************************************************************************)
(* Small instances of LocaleSettings: two languages, of which Arabic has   *)
(* digits of its own, two regions, of which DE has a 24-hour clock, and one*)
(* extension key of each class.                                            *)
(***************************************************************************)
EXTENDS LocaleSettingsRefinement, TLC

CONSTANTS ar, en, EG, DE, nu, mu, nl, arab, latn

MCLanguages == {ar, en}
MCRegions == {EG, DE}
MCRegions24 == {DE}
MCLanguageValues == [l \in {ar, en} |-> IF l = ar THEN {arab, latn} ELSE {latn}]
MCLocalDigit == [l \in {ar, en} |-> IF l = ar THEN arab ELSE None]

\* The date patterns of a language and region; one value serves as two patterns.
MCCustValues == [p \in {ar, en} \X {EG, DE} |-> IF p = <<ar, EG>> THEN {arab} ELSE {latn}]

\* Languages that support the same single value and have no digits of their own.
MCOneLanguageValue == [l \in {ar, en} |-> {latn}]
MCNoLocalDigit == [l \in {ar, en} |-> None]
MCOneCustValue == [p \in {ar, en} \X {EG, DE} |-> {latn}]
MCOneRegionValue == [p \in {ar, en} \X {DE} |-> {latn}]

UserSymmetry == Permutations(Users)
=============================================================================
