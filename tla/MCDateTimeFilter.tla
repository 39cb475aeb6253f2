-------------------------- MODULE MCDateTimeFilter --------------------------
(***************************************************************************)
(* All short messages, and longer ones of fewer characters, that do not    *)
(* begin with a blank and in which a time is followed by no brackets but   *)
(* its own (NextTo): DealBrackets misplaces a match otherwise (see the     *)
(* README).                                                                *)
(***************************************************************************)
EXTENDS DateTimeFilter

CONSTANTS MaxLength, MaxLengthFew, MaxNoisyFew

MCFew == {"date", "week", "time", Blank, Open, Close}
MCChars == MCFew \cup {"today", "range", Comma, At, Dash}

\* The first pair of brackets behind a time stands next to it, or another name is between
\* and what the brackets hold is not.
NextTo(s, i) ==
    LET rest == SubSeq(s, i + 1, Len(s))
        inside == Brackets(rest).inside
        gap == 1..Min({j \in DOMAIN rest : rest[j] = Open}) - 1
    IN  inside # <<>> =>
            \/ \A j \in gap : rest[j] = Blank
            \/ /\ \E j \in gap : rest[j] \in Rules
               /\ \A j \in gap : SubSeq(rest, j, j + Len(inside) - 1) # inside

MCMessages ==
    {s \in BoundedSeq(MCChars, MaxLength) \cup BoundedSeq(MCFew, MaxLengthFew) :
        s # <<>> /\ s[1] # Blank /\ \A i \in DOMAIN s : s[i] = "time" => NextTo(s, i)}
MCNoisy ==
    {s \in MCMessages : Len(s) <= 3 \/ (Len(s) <= MaxNoisyFew /\ ToSet(s) \subseteq MCFew)}
MCNoiseRules == {"date", "range", "moment"}
MCNoiseKinds == {"first", "last", "clear", "pastBefore", "pastAfter"}

=============================================================================
