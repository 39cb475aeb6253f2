--------------------------- MODULE DateTimeFilter ---------------------------
(***************************************************************************)
(* DateTimeFilter: what the rules of the entity recognition matched in a   *)
(* message is thinned out where it overlaps, joined to dates, moments and  *)
(* periods by what stands between, and thinned out again by the rules that *)
(* clear and by those of the past.  Each step reads positions the steps    *)
(* before it moved.                                                        *)
(*                                                                         *)
(* A message is a sequence of characters.  A rule matches any one          *)
(* character that is its name, and one rule, the noise, any one interval   *)
(* from a name to a name; what clears, any one interval.                   *)
(* Positions count from 0 and an end is exclusive, as in the code.         *)
(***************************************************************************)
EXTENDS Integers, Sequences, SequencesExt, FiniteSetsExt, Overlay

CONSTANTS
    Messages,      \* the messages: sequences of rules' names and the characters below
    Blank, Open, Close, Comma,
    At,            \* a word of the pattern "datetime"
    Dash,          \* a sign of the pattern "period"
    NoiseRules, NoiseKinds,   \* what the noise may be
    Noisy,         \* bound: the messages with noise
    CommaJoins     \* is "," among the relDates of the locale

\* GetType of the rules' numbers.
Type == [date |-> "date", week |-> "week", today |-> "today", time |-> "time",
         range |-> "period", moment |-> "datetime"]

Rules == DOMAIN Type

VARIABLES
    content,   \* the message
    raw,       \* what the rules matched, in their order
    noise,     \* the noise: "none", a match, or one of the clearMatches or pastMatches
    matches,   \* the vector that the steps rewrite
    stage      \* the steps done

vars == <<content, raw, noise, matches, stage>>

\* A match that a rule numbered 50000 to 59999 made is a period of times.
Match(b, e, rule) == [b |-> b, e |-> e, rule |-> rule, type |-> "null",
                      isTimePeriod |-> rule = "range"]

-----------------------------------------------------------------------------
(* Overlapping matches. *)

FilterOverlay ==
    /\ stage = "raw" /\ stage' = "apart"
    /\ matches' = SortSeq(FilterOverlaySecond(FilterOverlayFirst(matches)),
                          LAMBDA m, n : m.b < n.b)

-----------------------------------------------------------------------------
(* What stands between and around matches. *)

Trim(s) ==
    LET kept == {i \in DOMAIN s : s[i] # Blank}
    IN  IF kept = {} THEN <<>> ELSE SubSeq(s, Min(kept), Max(kept))

Text(m) == SubSeq(content, m.b + 1, m.e)
After(m) == SubSeq(content, m.e + 1, Len(content))
Between(m, n) == Trim(SubSeq(content, m.e + 1, n.b))

\* The first find of the pattern "brackets", blanks before it included, anywhere in s.
Brackets(s) ==
    LET closes(i) == {j \in i+1..Len(s) : s[j] = Close}
        opens == {i \in DOMAIN s : s[i] = Open /\ closes(i) # {}}
        open == Min(opens)
        close == Min(closes(open))
        blanks == {i \in 1..open : \A j \in i..open-1 : s[j] = Blank}
    IN  IF opens = {} THEN [inside |-> <<>>, length |-> 0]
        ELSE [inside |-> Trim(SubSeq(s, open + 1, close - 1)), length |-> close - Min(blanks) + 1]

-----------------------------------------------------------------------------
(* Dates, weekdays and words like today, next to each other. *)

Dated(m) == Type[m.rule] \in {"date", "today", "week"}

IsRelDates(s) == s = <<>> \/ (s = <<Comma>> /\ CommaJoins)

\* Can current and next be one date; three says that next and a third can be, ended by last.
GetResult(current, next, last) ==
    LET s == Between(current, next)
        brackets == Brackets(After(current)).inside
    IN  \/ IsRelDates(s)
        \/ /\ s = <<Open>> /\ brackets # <<>>
           /\ brackets = Trim(SubSeq(content, next.b + 1, last.e))

Different(current, next, preType) ==
    Dated(next) /\ Type[next.rule] \notin {Type[current.rule], preType}

\* How many of the matches after current are one date with it.
NestDealDate(current, sub) ==
    LET three == Len(sub) > 1 /\ Different(sub[1], sub[2], Type[current.rule])
                 /\ GetResult(sub[1], sub[2], sub[2])
        last == IF three THEN sub[2] ELSE sub[1]
    IN  IF sub = <<>> \/ ~Different(current, sub[1], "none") \/ ~GetResult(current, sub[1], last)
        THEN 0 ELSE IF three THEN 2 ELSE 1

\* The end of a date that ends with next, a bracket around next included.
DealMatchE(match, next) ==
    LET opened == \E i \in match.e+1..next.b : content[i] = Open
        closing == {i \in next.e+1..Len(content) : content[i] = Close}
        closed == closing # {} /\ Trim(SubSeq(content, next.e + 1, Min(closing))) = <<Close>>
    IN  IF opened /\ closed THEN Min(closing) ELSE next.e

DateOf(list, i) ==
    LET m == list[i]
        more == NestDealDate(m, SubSeq(list, i + 1, Min({i + 2, Len(list)})))
    IN  IF ~Dated(m) THEN [m |-> [m EXCEPT !.type = Type[m.rule]], more |-> 0]
        ELSE [m |-> [m EXCEPT !.type = "date",
                              !.e = IF more = 0 THEN @ ELSE DealMatchE(m, list[i + more])],
              more |-> more]

FilterDate_EndsSecond ==
    LET from[i \in 1..Len(matches)+1] ==
            IF i > Len(matches) THEN <<>>
            ELSE LET d == DateOf(matches, i) IN
                 <<[d.m EXCEPT !.e = IF d.more = 2 THEN matches[i + 1].e ELSE @]>> \o from[i + 1 + d.more]
    IN  stage = "apart" /\ stage' = "dates" /\ matches' = from[1]
FilterDate ==
    LET from[i \in 1..Len(matches)+1] ==
            IF i > Len(matches) THEN <<>>
            ELSE LET d == DateOf(matches, i) IN <<d.m>> \o from[i + 1 + d.more]
    IN  stage = "apart" /\ stage' = "dates" /\ matches' = from[1]

-----------------------------------------------------------------------------
(* A match and the next one, joined from the left: the joined one is tried with the  *)
(* match after.                                                                      *)

Sweep(list, Joins(_, _), Joined(_, _)) ==
    LET Add(kept, m) ==
            IF kept # <<>> /\ Joins(Last(kept), m)
            THEN Append(Front(kept), Joined(Last(kept), m))
            ELSE Append(kept, m)
    IN  FoldLeft(Add, <<>>, list)

PeriodOfTimes(m) == m.type = "period" /\ m.isTimePeriod

\* A date and a time, or a date and a period of times, in either order.
DateAndTime(m, n) ==
    \/ m.type = "date" /\ (n.type = "time" \/ PeriodOfTimes(n))
    \/ (m.type = "time" \/ PeriodOfTimes(m)) /\ n.type = "date"

JoinedType_Left(m, n) == m.type
JoinedType(m, n) == IF "time" \in {m.type, n.type} THEN "datetime" ELSE "period"

\* A time with its date in the brackets that follow; a date in brackets with its time.
\* The first is the next pair of brackets wherever it is, and the second begins at the
\* place of "(" in what is before it without the blanks at the start.
DateInBrackets(m, n) ==
    LET brackets == Brackets(After(m))
    IN  m.type = "time" /\ brackets.inside # <<>> /\ brackets.inside = Trim(Text(n))

InBrackets(m, n) ==
    LET before == Trim(SubSeq(content, 1, m.b))
    IN  /\ m.type = "date" /\ n.type = "time"
        /\ before # <<>> /\ Last(before) = Open /\ Between(m, n) = <<Close>>

DealBrackets(m, n) ==
    IF DateInBrackets(m, n)
    THEN [m EXCEPT !.e = @ + Brackets(After(m)).length, !.type = "datetime"]
    ELSE [m EXCEPT !.b = Len(Trim(SubSeq(content, 1, m.b))) - 1,
                   !.e = n.e, !.type = "datetime"]

FilterDateTime ==
    LET Near(m, n) == Between(m, n) \in {<<>>, <<At>>}
        Joins(m, n) == DateAndTime(m, n) /\ (Near(m, n) \/ DateInBrackets(m, n) \/ InBrackets(m, n))
        Joined(m, n) == IF Near(m, n) THEN [m EXCEPT !.e = n.e, !.type = JoinedType(m, n)]
                        ELSE DealBrackets(m, n)
    IN  /\ stage = "dates" /\ stage' = "datetimes"
        /\ matches' = Sweep(matches, Joins, Joined)

FilterPeriod ==
    LET Joins(m, n) ==
            /\ \/ m.type = n.type /\ m.type \in {"date", "time", "datetime"}
               \/ m.type = "datetime" /\ n.type = "time"
            /\ Between(m, n) = <<Dash>>
        Joined(m, n) == [m EXCEPT !.e = n.e, !.type = "period", !.isTimePeriod = (m.type = "time")]
    IN  /\ stage = "datetimes" /\ stage' = "periods"
        /\ matches' = Sweep(matches, Joins, Joined)

FilterDateTimePunc ==
    LET Joins(m, n) == DateAndTime(m, n) /\ Between(m, n) = <<Comma>>
        Joined(m, n) == [m EXCEPT !.e = n.e, !.type = JoinedType(m, n)]
    IN  /\ stage = "periods" /\ stage' = "joined"
        /\ matches' = Sweep(matches, Joins, Joined)

-----------------------------------------------------------------------------
(* The rules that clear, and the rules of the past, before a match or after it. *)

FilterByRules ==
    /\ stage = "joined" /\ stage' = "cleared"
    /\ matches' = SelectSeq(matches, LAMBDA m : ~(noise.kind = "clear" /\ Within(m, noise.m)))

FilterByPast ==
    LET past == {i \in DOMAIN matches :
                    \/ noise.kind = "pastBefore" /\ noise.m.e = matches[i].b
                    \/ noise.kind = "pastAfter" /\ noise.m.b = matches[i].e}
    IN  /\ stage = "cleared" /\ stage' = "done"
        /\ matches' = IF past = {} THEN matches ELSE RemoveAt(matches, Min(past))

-----------------------------------------------------------------------------
NoNoise == [kind |-> "none", m |-> Match(0, 0, "date")]

\* A match begins and ends with a name, not with what stands between two; what clears
\* begins and ends anywhere.
Noises(s) ==
    LET Kinds(b, e) ==
            {k \in NoiseKinds : k \in {"first", "last"} => {s[b + 1], s[e]} \subseteq Rules}
        Over(b, e) == {[kind |-> k, m |-> Match(b, e, r)] : k \in Kinds(b, e), r \in NoiseRules}
    IN  UNION {UNION {Over(b, e) : e \in b+1..Len(s)} : b \in 0..Len(s)-1}

Singles(s) ==
    LET at == SelectSeq([i \in 1..Len(s) |-> i], LAMBDA i : s[i] \in Rules)
    IN  [k \in 1..Len(at) |-> Match(at[k] - 1, at[k], s[at[k]])]

Init ==
    /\ content \in Messages
    /\ noise \in {NoNoise} \cup
          (IF content \in Noisy THEN Noises(content) ELSE {})
    /\ raw = CASE noise.kind = "first" -> <<noise.m>> \o Singles(content)
               [] noise.kind = "last" -> Append(Singles(content), noise.m)
               [] OTHER -> Singles(content)
    /\ matches = raw
    /\ stage = "raw"

\* Filter.
Next ==
    /\ \/ FilterOverlay \/ FilterDate \/ FilterDateTime \/ FilterPeriod
       \/ FilterDateTimePunc \/ FilterByRules \/ FilterByPast
    /\ UNCHANGED <<content, raw, noise>>

Spec == Init /\ [][Next]_vars

-----------------------------------------------------------------------------
(* Properties. *)

Stages == {"raw", "apart", "dates", "datetimes", "periods", "joined", "cleared", "done"}

\* The matches are matches, and the types are given by the step for the dates.
TypeOK ==
    /\ stage \in Stages
    /\ \A m \in ToSet(matches) :
          /\ m.rule \in Rules /\ m.isTimePeriod \in BOOLEAN
          /\ IF stage \in {"raw", "apart"} THEN m.type = "null"
             ELSE m.type \in {"date", "time", "datetime", "period"}

\* Whatever the rules matched, in whatever order, and however ends and beginnings are
\* moved, the matches left are in order, disjoint and inside the message.
Disjoint ==
    stage # "raw" =>
        \A i \in DOMAIN matches :
            /\ 0 <= matches[i].b /\ matches[i].b < matches[i].e /\ matches[i].e <= Len(content)
            /\ i > 1 => matches[i-1].e <= matches[i].b

\* What one rule only matched is in what is returned, alone or joined, if no rule
\* clears.
Kept ==
    noise.kind \in {"none", "first", "last"} =>
        \A m \in ToSet(raw) :
            (\A n \in ToSet(raw) \ {m} : n.e <= m.b \/ m.e <= n.b)
            => \E n \in ToSet(matches) : Within(m, n)

\* A date with a time is one date, of words of different kinds, and one time: the
\* joining from the left never takes in a second.
OneMoment ==
    \A m \in ToSet(matches) :
        LET words == SelectSeq(Text(m), LAMBDA c : c \in Rules)
        IN  m.type = "datetime" /\ m.rule # "moment" /\ noise.kind \notin {"first", "last"}
            => /\ IsInjective(words)
               /\ Len(SelectSeq(words, LAMBDA c : c = "time")) = 1
               /\ Len(words) > 1 /\ "range" \notin ToSet(words)

=============================================================================
