----------------------- MODULE PreferredLanguageProofs -----------------------
(***************************************************************************)
(* The list of preferred languages, for any languages, any requests and    *)
(* any number of threads: its types; that the way from every language to   *)
(* the root fits in the array; where the supported languages can be told   *)
(* apart, that the one chosen does not depend on their order; and, one     *)
(* call at a time, that no position is outside the list and that a call    *)
(* that succeeds leaves the list that was asked for.                       *)
(***************************************************************************)
EXTENDS PreferredMatching, FilteringProofs, SequenceTheorems

-----------------------------------------------------------------------------
(* The invariants. *)

\* An addition holds a tag; a language is written only from a list that has one.
Adding == {"find", "new_index", "new_list", "old_index", "old_find", "old_list"}

Holds(label, f) ==
    /\ label \in Adding => f.language \in Tags
    /\ label = "language" => f.list # << >>

MatchedOnce == matched = [x \in Tags |-> GetMatchedLanguage(x)]

TypeInv == TypeOK /\ MatchedOnce /\ \A t \in Threads : Holds(pc[t], frame[t])

\* The tags that match a supported language, and those that are one.
Known == {x \in Tags : GetMatchedLanguage(x) # NoLocale}
Fixed == {x \in Tags : GetMatchedLanguage(x) = x}

\* One call at a time.
OneByOne == ~Hasty /\ \A t, u \in Threads : t = u

\* The languages asked for and the default match a supported one: no list is empty.
Matching == Asked \subseteq Known /\ Default \in Known

\* The languages asked for are supported, those stored match a supported one.
Supporting == Asked \subseteq Fixed /\ \A list \in Stored : list \in Seq(Known)

List == GetPreferredLanguageList

\* What a call holds at each label while the list is as it found it.
Editing == Adding \cup {"remove"}

AtLabel(label, f) ==
    /\ label \in Adding => f.op = "Add" /\ f.language \in Asked
    /\ label = "remove" => f.op = "Remove"
    /\ label \in {"new_index", "new_list"} => ~Contains(List, f.language)
    /\ label \in {"old_index", "old_find", "old_list"} => Contains(List, f.language)
    /\ label = "new_list" => f.validIndex = NormalizeIndex(f.index, Len(List))
    /\ label \in {"old_find", "old_list"} =>
           f.validIndex = NormalizeIndex(f.index, Len(List) - 1)
    /\ label \in {"find", "new_index", "new_list"} => f.languageIdx = -1
    /\ label = "old_list" => f.languageIdx = FindLanguage(f.language)
    /\ label \in {"language", "store"} => f.list \in Seq(Known)

RangeInv ==
    /\ language \in Known
    /\ \A t \in Threads : AtLabel(pc[t], frame[t])
    /\ InRange

\* No language is listed twice.
Distinct(s) == \A i, j \in 1..Len(s) : s[i] = s[j] => i = j

\* The list that is about to be written is the one asked for, and one that the
\* filtering leaves as it is.
Edit(label, f) ==
    /\ label \in Editing => f.before = List
    /\ label \in {"language", "store"} =>
           /\ f.list \in Seq(Fixed) /\ f.list # << >> /\ Distinct(f.list)
           /\ f.list = Target(f)
    /\ label = "store" => Head(f.list) = language

EditInv ==
    /\ preferred \in Seq(Known) /\ language \in Fixed
    /\ \A t \in Threads : Edit(pc[t], frame[t])

-----------------------------------------------------------------------------
(* What the loops find. *)

\* GetBestMatchedLocale, candidate by candidate.
Best(best, c, request) ==
    /\ best[0] = c[1]
    /\ \A i \in 1..Len(c) - 1 :
          best[i] = IF IsMoreSuitable(best[i - 1], c[i + 1], request) < 0
                    THEN c[i + 1] ELSE best[i - 1]
    /\ GetBestMatchedLocale(request, c) = best[Len(c) - 1]

LEMMA BestIs ==
    ASSUME NEW C, NEW request, NEW c \in Seq(C), c # << >>
    PROVE  \E best \in [0..Len(c) - 1 -> C] : Best(best, c, request)
<1> DEFINE n == Len(c) - 1
           better(x, before) == IF IsMoreSuitable(before, x, request) < 0 THEN x ELSE before
           rec(g) == [i \in 0..n |-> IF i = 0 THEN c[1] ELSE better(c[i + 1], g[i - 1])]
           best == CHOOSE g : g = rec(g)
<1>1. n \in Nat /\ c[1] \in C /\ \A i \in 1..n : c[i + 1] \in C
  OBVIOUS
<1> DEFINE step == [p \in (1..n) \X C |-> better(c[p[1] + 1], p[2])]
<1>2. step \in [(1..n) \X C -> C]
  BY <1>1
<1>3. \A i \in 1..n, v \in C : step[<<i, v>>] = better(c[i + 1], v)
  OBVIOUS
<1>4. GetBestMatchedLocale(request, c) = best[n]
  BY DEF GetBestMatchedLocale
<1> HIDE DEF n, step, better
<1>5. PICK g \in [0..n -> C] : Recursive(g, c[1], step, n)
  BY <1>1, <1>2, RecursionExists
<1>6. ASSUME NEW i \in 0..n
      PROVE  g[i] = IF i = 0 THEN c[1] ELSE better(c[i + 1], g[i - 1])
  <2>1. CASE i = 0
    BY <1>5, <2>1 DEF Recursive
  <2>2. CASE i # 0
    <3>1. i \in 1..n /\ g[i - 1] \in C
      BY <1>1, <1>5, <2>2
    <3>2. g[i] = step[<<i, g[i - 1]>>]
      BY <1>5, <3>1 DEF Recursive
    <3> QED BY <1>3, <2>2, <3>1, <3>2
  <2> QED BY <2>1, <2>2
<1>7. g = rec(g)
  BY <1>5, <1>6
<1>8. best = rec(best)
  BY <1>7
<1> HIDE DEF best
<1>9. best[0] = c[1] /\ \A i \in 1..n : best[i] = better(c[i + 1], best[i - 1])
  BY <1>1, <1>8
<1> DEFINE A == {i \in 0..n : best[i] \in C}
<1>10. 0 \in A
  BY <1>1, <1>9
<1>11. ASSUME NEW i \in 1..n, i - 1 \in A PROVE i \in A
  BY <1>1, <1>9, <1>11 DEF better
<1>12. 0..n \subseteq A
  <2> HIDE DEF A
  <2> QED BY <1>1, <1>10, <1>11, UpToN
<1>13. best \in [0..n -> C]
  <2>1. best = [i \in 0..n |-> best[i]]
    BY <1>8
  <2> QED BY <1>12, <2>1
<1>14. Best(best, c, request)
  BY <1>4, <1>9 DEF Best, better, n
<1> QED BY <1>13, <1>14 DEF n

\* The best of some candidates is one of them, if there are any.
LEMMA BestAmong ==
    ASSUME NEW C, NEW request, NEW c \in Seq(C)
    PROVE  GetBestMatchedLocale(request, c) \in C \cup {NoLocale}
<1>1. CASE c = << >>
  BY <1>1 DEF GetBestMatchedLocale
<1>2. CASE c # << >>
  <2>1. PICK best \in [0..Len(c) - 1 -> C] : Best(best, c, request)
    BY <1>2, BestIs
  <2>2. Len(c) - 1 \in 0..Len(c) - 1
    BY <1>2
  <2> QED BY <2>1, <2>2 DEF Best
<1> QED BY <1>1, <1>2

LEMMA MatchedAmong == \A x : GetMatchedLanguage(x) \in ToSet(Candidates) \cup {NoLocale}
<1> TAKE x
<1> DEFINE C == {y \in ToSet(Candidates) : Match(x, y)}
<1>1. Only(Candidates, C) \in Seq(C)
  BY TagsAssumption, OnlyTyped
<1>2. GetMatchedLanguage(x) \in C \cup {NoLocale}
  BY <1>1, BestAmong DEF GetMatchedLanguage
<1> QED BY <1>2

LEMMA CandidatesFixed ==
    /\ ToSet(Candidates) \subseteq Fixed /\ Fixed \subseteq Known /\ Known \subseteq Tags
    /\ \A x : GetMatchedLanguage(x) # NoLocale => GetMatchedLanguage(x) \in Fixed
<1>1. ToSet(Candidates) \subseteq Tags
  BY TagsAssumption DEF ToSet
<1>2. ToSet(Candidates) \subseteq Fixed
  BY <1>1, TagsAssumption DEF Fixed
<1> QED BY <1>2, TagsAssumption, MatchedAmong DEF Fixed, Known

\* What is found of a list, one by one.
FoundNext(g, list, i) ==
    g[i] = IF i = 0 THEN << >>
           ELSE IF Contains(g[i - 1], Listed(list[i])) THEN g[i - 1]
           ELSE Append(g[i - 1], Listed(list[i]))
Finds(g, list) == \A i \in 0..Len(list) : FoundNext(g, list, i)

\* FilterLanguages is what any function finds that goes through the list.
LEMMA FilterFinds ==
    ASSUME NEW K, NEW S, NEW list \in Seq(S), \A i \in 1..Len(list) : Listed(list[i]) \in K
    PROVE  \E g \in [0..Len(list) -> Seq(K)] :
               Finds(g, list) /\ FilterLanguages(list) = g[Len(list)]
<1> DEFINE n == Len(list)
           next(x, before) == IF Contains(before, x) THEN before ELSE Append(before, x)
           rec(g) == [i \in 0..n |-> IF i = 0 THEN << >> ELSE next(Listed(list[i]), g[i - 1])]
           found == CHOOSE g : g = rec(g)
           step == [p \in (1..n) \X Seq(K) |-> next(Listed(list[p[1]]), p[2])]
<1>1. n \in Nat /\ << >> \in Seq(K)
  OBVIOUS
<1>2. \A x \in K, before \in Seq(K) : next(x, before) \in Seq(K)
  OBVIOUS
<1>3. FilterLanguages(list) = found[n]
  BY DEF FilterLanguages
<1> HIDE DEF n, next
<1>4. step \in [(1..n) \X Seq(K) -> Seq(K)]
  BY <1>2 DEF n
<1>5. \A i \in 1..n, v \in Seq(K) : step[<<i, v>>] = next(Listed(list[i]), v)
  OBVIOUS
<1> HIDE DEF step
<1>6. PICK g \in [0..n -> Seq(K)] : Recursive(g, << >>, step, n)
  BY <1>1, <1>4, RecursionExists
<1>7. ASSUME NEW i \in 0..n
      PROVE  g[i] = IF i = 0 THEN << >> ELSE next(Listed(list[i]), g[i - 1])
  <2>1. CASE i = 0
    BY <1>6, <2>1 DEF Recursive
  <2>2. CASE i # 0
    <3>1. i \in 1..n /\ g[i - 1] \in Seq(K)
      BY <1>1, <1>6, <2>2
    <3>2. g[i] = step[<<i, g[i - 1]>>]
      BY <1>6, <3>1 DEF Recursive
    <3> QED BY <1>5, <2>2, <3>1, <3>2
  <2> QED BY <2>1, <2>2
<1>8. g = rec(g)
  BY <1>6, <1>7
<1>9. found = rec(found)
  BY <1>8
<1> HIDE DEF found
<1>10. ASSUME NEW i \in 0..n
       PROVE  found[i] = IF i = 0 THEN << >> ELSE next(Listed(list[i]), found[i - 1])
  BY <1>9
<1>11. found \in [0..n -> Seq(K)]
  <2> DEFINE A == {i \in 0..n : found[i] \in Seq(K)}
  <2>1. 0 \in A
    <3>1. 0 \in 0..n
      BY <1>1
    <3>2. found[0] = << >>
      BY <1>10, <3>1
    <3> QED BY <1>1, <3>1, <3>2
  <2>2. ASSUME NEW i \in 1..n, i - 1 \in A PROVE i \in A
    <3>1. i \in 0..n /\ i # 0 /\ Listed(list[i]) \in K
      BY <1>1 DEF n
    <3> QED BY <1>2, <1>10, <2>2, <3>1
  <2>3. 0..n \subseteq A
    <3> HIDE DEF A
    <3> QED BY <1>1, <2>1, <2>2, UpToN
  <2>4. \A i \in 0..n : found[i] \in Seq(K)
    BY <2>3
  <2> QED BY <1>9, <2>4
<1>12. Finds(found, list)
  BY <1>10 DEF Finds, FoundNext, next, n
<1> QED BY <1>3, <1>11, <1>12 DEF n

LEMMA FilterTyped ==
    ASSUME NEW K, NEW S, NEW list \in Seq(S), \A i \in 1..Len(list) : Listed(list[i]) \in K
    PROVE  FilterLanguages(list) \in Seq(K)
<1>1. PICK g \in [0..Len(list) -> Seq(K)] :
         Finds(g, list) /\ FilterLanguages(list) = g[Len(list)]
  BY FilterFinds
<1> QED BY <1>1

\* No language is found twice.
LEMMA FilterDistinct ==
    ASSUME NEW K, NEW S, NEW list \in Seq(S), \A i \in 1..Len(list) : Listed(list[i]) \in K
    PROVE  Distinct(FilterLanguages(list))
<1> DEFINE n == Len(list)
<1>1. PICK g \in [0..n -> Seq(K)] : Finds(g, list) /\ FilterLanguages(list) = g[n]
  BY FilterFinds
<1> DEFINE A == {i \in 0..n : Distinct(g[i])}
<1>2. n \in Nat
  OBVIOUS
<1>3. 0 \in A
  <2>1. FoundNext(g, list, 0)
    BY <1>1, <1>2 DEF Finds
  <2>2. g[0] = << >>
    BY <2>1 DEF FoundNext
  <2>3. Distinct(<< >>)
    BY DEF Distinct
  <2> QED BY <1>2, <2>2, <2>3
<1>4. ASSUME NEW i \in 1..n, i - 1 \in A PROVE i \in A
  <2> DEFINE x == Listed(list[i])
             s == g[i - 1]
  <2>1. i \in 0..n /\ i # 0 /\ i - 1 \in 0..n /\ x \in K
    BY <1>2
  <2>2. s \in Seq(K) /\ Distinct(s)
    BY <1>4, <2>1
  <2>3. g[i] = IF Contains(s, x) THEN s ELSE Append(s, x)
    BY <1>1, <2>1 DEF Finds, FoundNext
  <2> HIDE DEF s, x
  <2>4. ASSUME ~Contains(s, x) PROVE Distinct(Append(s, x))
    <3>1. \A j \in 1..Len(s) : s[j] # x /\ Append(s, x)[j] = s[j]
      BY <2>1, <2>2, <2>4 DEF Contains
    <3>2. Len(Append(s, x)) = Len(s) + 1 /\ Append(s, x)[Len(s) + 1] = x /\ Len(s) \in Nat
      BY <2>1, <2>2
    <3>3. \A j \in 1..Len(s) + 1 : j \in 1..Len(s) \/ j = Len(s) + 1
      BY <3>2
    <3> QED BY <2>2, <3>1, <3>2, <3>3 DEF Distinct
  <2> QED BY <2>1, <2>2, <2>3, <2>4
<1>5. 0..n \subseteq A
  <2> HIDE DEF A
  <2> QED BY <1>2, <1>3, <1>4, UpToN
<1> QED BY <1>1, <1>2, <1>5

\* A list of supported languages, each once, is left as it is.
LEMMA FilterFixed ==
    ASSUME NEW K, NEW list \in Seq(K), Distinct(list), \A x \in K : Listed(x) = x
    PROVE  FilterLanguages(list) = list
<1> DEFINE n == Len(list)
<1>1. PICK g \in [0..n -> Seq(K)] : Finds(g, list) /\ FilterLanguages(list) = g[n]
  BY FilterFinds
<1> DEFINE A == {i \in 0..n : g[i] = SubSeq(list, 1, i)}
<1>2. n \in Nat /\ SubSeq(list, 1, 0) = << >> /\ SubSeq(list, 1, n) = list
  OBVIOUS
<1>3. 0 \in A
  BY <1>1, <1>2 DEF Finds, FoundNext
<1>4. ASSUME NEW i \in 1..n, i - 1 \in A PROVE i \in A
  <2> DEFINE s == SubSeq(list, 1, i - 1)
  <2>1. i \in 0..n /\ i # 0 /\ i - 1 \in 0..n /\ list[i] \in K
    BY <1>2
  <2>2. g[i] = IF Contains(s, list[i]) THEN s ELSE Append(s, list[i])
    BY <1>1, <1>4, <2>1 DEF Finds, FoundNext
  <2>3. ~Contains(s, list[i])
    <3>1. Len(s) = i - 1 /\ \A j \in 1..i - 1 : s[j] = list[j] /\ j \in 1..n /\ j # i
      BY <1>2, <2>1
    <3> QED BY <2>1, <3>1 DEF Contains, Distinct
  <2>4. SubSeq(list, 1, i) = Append(s, list[i])
    BY <2>1
  <2> QED BY <2>1, <2>2, <2>3, <2>4
<1>5. 0..n \subseteq A
  <2> HIDE DEF A
  <2> QED BY <1>2, <1>3, <1>4, UpToN
<1> QED BY <1>1, <1>2, <1>5

-----------------------------------------------------------------------------
(* Lists. *)

LEMMA FirstTyped ==
    ASSUME NEW K, K \subseteq Tags, NEW list \in Seq(K), NEW x \in K
    PROVE  LET rest == Only(list, Tags \ {x})
           IN  /\ WithFirst(list, x) \in Seq(K)
               /\ Len(WithFirst(list, x)) = Len(rest) + 1
               /\ WithFirst(list, x)[1] = x
<1> DEFINE rest == Only(list, Tags \ {x})
<1>1. rest = Only(list, K \ {x})
  <2>1. K \cap (Tags \ {x}) = K \cap (K \ {x})
    OBVIOUS
  <2> QED BY <2>1, OnlyOfThese
<1>2. rest \in Seq(K \ {x})
  BY <1>1, OnlyTyped
<1>3. rest \in Seq(K)
  BY <1>2
<1> HIDE DEF rest
<1>4. WithFirst(list, x) = <<x>> \o rest
  BY DEF WithFirst, rest
<1>5. <<x>> \o rest \in Seq(K) /\ Len(<<x>> \o rest) = Len(rest) + 1 /\ (<<x>> \o rest)[1] = x
  BY <1>3
<1> QED BY <1>4, <1>5 DEF rest

\* The list holds what is listed for the languages stored, and is not empty if a
\* language is for the system language.
LEMMA ListTyped ==
    ASSUME NEW K, K \subseteq Tags, NEW S, preferred \in Seq(S), \A x \in S : Listed(x) \in K,
           matched[language] = NoLocale \/ matched[language] \in K
    PROVE  /\ List \in Seq(K)
           /\ matched[language] # NoLocale =>
                  Len(List) \in Nat \ {0} /\ List[1] = matched[language]
<1> DEFINE list == FilterLanguages(preferred)
<1>1. list \in Seq(K)
  BY FilterTyped
<1> HIDE DEF list
<1>2. CASE matched[language] = NoLocale
  <2>1. List = list
    BY <1>2 DEF List, GetPreferredLanguageList, list
  <2> QED BY <1>1, <1>2, <2>1
<1>3. CASE matched[language] # NoLocale
  <2>1. List = WithFirst(list, matched[language])
    BY <1>3 DEF List, GetPreferredLanguageList, list
  <2>2. List \in Seq(K) /\ Len(List) # 0 /\ List[1] = matched[language]
    <3>1. Only(list, Tags \ {matched[language]}) \in Seq(Tags \ {matched[language]})
      BY <1>1, OnlyTyped
    <3>2. Len(Only(list, Tags \ {matched[language]})) \in Nat
      BY <3>1
    <3> QED BY <1>1, <1>3, <2>1, <3>2, FirstTyped
  <2> QED BY <2>2
<1> QED BY <1>2, <1>3

\* The elements of a concatenation.
LEMMA Joined ==
    ASSUME NEW K, NEW a \in Seq(K), NEW b \in Seq(K)
    PROVE  /\ a \o b \in Seq(K) /\ Len(a \o b) = Len(a) + Len(b)
           /\ \A j \in 1..Len(a) + Len(b) :
                  (a \o b)[j] = IF j <= Len(a) THEN a[j] ELSE b[j - Len(a)]
BY ConcatProperties

LEMMA InsertTyped ==
    ASSUME NEW K, NEW s \in Seq(K), NEW i \in 0..Len(s), NEW x \in K
    PROVE  /\ Insert(s, i, x) \in Seq(K) /\ Len(Insert(s, i, x)) = Len(s) + 1
           /\ \A j \in 1..Len(s) + 1 : Insert(s, i, x)[j] =
                  IF j <= i THEN s[j] ELSE IF j = i + 1 THEN x ELSE s[j - 1]
<1> DEFINE a == SubSeq(s, 1, i)
           b == SubSeq(s, i + 1, Len(s))
<1>1. /\ a \in Seq(K) /\ Len(a) = i /\ \A j \in 1..i : a[j] = s[j]
      /\ b \in Seq(K) /\ Len(b) = Len(s) - i /\ \A j \in 1..Len(b) : b[j] = s[j + i]
      /\ i \in Nat /\ Len(s) \in Nat
  OBVIOUS
<1>2. Insert(s, i, x) = a \o <<x>> \o b
  <2>1. (i + 1) - 1 = i
    OBVIOUS
  <2> QED BY <2>1 DEF Insert, InsertAt
<1> HIDE DEF a, b
<1> DEFINE c == a \o <<x>>
<1>3. c \in Seq(K) /\ Len(c) = i + 1 /\ \A j \in 1..i + 1 : c[j] = IF j <= i THEN a[j] ELSE x
  <2> DEFINE d == <<x>>
  <2>1. d \in Seq(K) /\ Len(d) = 1 /\ d[1] = x
    OBVIOUS
  <2> HIDE DEF d
  <2>2. /\ a \o d \in Seq(K) /\ Len(a \o d) = i + 1
        /\ \A j \in 1..i + 1 : (a \o d)[j] = IF j <= i THEN a[j] ELSE d[j - i]
    <3>1. a \in Seq(K) /\ d \in Seq(K)
      BY <1>1, <2>1
    <3>2. /\ a \o d \in Seq(K) /\ Len(a \o d) = Len(a) + Len(d)
          /\ \A j \in 1..Len(a) + Len(d) :
                 (a \o d)[j] = IF j <= Len(a) THEN a[j] ELSE d[j - Len(a)]
      BY <3>1, Joined
    <3> QED BY <1>1, <2>1, <3>2
  <2>3. \A j \in 1..i + 1 : j <= i \/ j - i = 1
    BY <1>1
  <2>4. \A j \in 1..i + 1 : (a \o d)[j] = IF j <= i THEN a[j] ELSE x
    BY <2>1, <2>2, <2>3
  <2> QED BY <2>2, <2>4 DEF d
<1> HIDE DEF c
<1>4. /\ c \o b \in Seq(K) /\ Len(c \o b) = Len(s) + 1
      /\ \A j \in 1..Len(s) + 1 : (c \o b)[j] = IF j <= i + 1 THEN c[j] ELSE b[j - (i + 1)]
  <2>1. Len(c) + Len(b) = Len(s) + 1
    BY <1>1, <1>3
  <2>2. b \in Seq(K) /\ c \in Seq(K)
    BY <1>1, <1>3
  <2>3. /\ c \o b \in Seq(K) /\ Len(c \o b) = Len(c) + Len(b)
        /\ \A j \in 1..Len(c) + Len(b) :
               (c \o b)[j] = IF j <= Len(c) THEN c[j] ELSE b[j - Len(c)]
    BY <2>2, Joined
  <2> QED BY <1>3, <2>1, <2>3
<1>5. Insert(s, i, x) = c \o b
  BY <1>2 DEF c
<1>6. \A j \in 1..Len(s) + 1 : (c \o b)[j] =
          IF j <= i THEN s[j] ELSE IF j = i + 1 THEN x ELSE s[j - 1]
  <2> TAKE j \in 1..Len(s) + 1
  <2>1. CASE j <= i
    <3>1. j \in 1..i /\ j \in 1..i + 1 /\ j <= i + 1
      BY <1>1, <2>1
    <3>2. (c \o b)[j] = c[j] /\ c[j] = a[j] /\ a[j] = s[j]
      BY <1>1, <1>3, <1>4, <2>1, <3>1
    <3> QED BY <2>1, <3>2
  <2>2. CASE j = i + 1
    <3>1. j \in 1..i + 1 /\ j <= i + 1 /\ ~(j <= i)
      BY <1>1, <2>2
    <3>2. (c \o b)[j] = c[j] /\ c[j] = x
      BY <1>3, <1>4, <3>1
    <3> QED BY <2>2, <3>1, <3>2
  <2>3. CASE j > i + 1
    <3>1. /\ j - (i + 1) \in 1..Len(b) /\ (j - (i + 1)) + i = j - 1
          /\ ~(j <= i + 1) /\ ~(j <= i) /\ j # i + 1
      BY <1>1, <2>3
    <3>2. (c \o b)[j] = b[j - (i + 1)]
      BY <1>4, <3>1
    <3>3. b[j - (i + 1)] = s[j - 1]
      BY <1>1, <3>1
    <3> QED BY <3>1, <3>2, <3>3
  <2>4. j <= i \/ j = i + 1 \/ j > i + 1
    BY <1>1
  <2> QED BY <2>1, <2>2, <2>3, <2>4
<1> QED BY <1>4, <1>5, <1>6

LEMMA InsertMembers ==
    ASSUME NEW K, NEW s \in Seq(K)
    PROVE  \A i \in 0..Len(s), x \in K : Insert(s, i, x) \in Seq(K)
BY InsertTyped

LEMMA InsertLength ==
    ASSUME NEW K, NEW s \in Seq(K)
    PROVE  \A i \in 0..Len(s), x \in K : Len(Insert(s, i, x)) = Len(s) + 1
BY InsertTyped

\* What is not inserted first leaves the first where it is.
LEMMA InsertFirst ==
    ASSUME NEW K, NEW s \in Seq(K)
    PROVE  \A i \in 1..Len(s), x \in K : Insert(s, i, x)[1] = s[1]
<1> TAKE i \in 1..Len(s), x \in K
<1>1. i \in 0..Len(s) /\ 1 \in 1..Len(s) + 1 /\ 1 <= i
  OBVIOUS
<1>2. \A j \in 1..Len(s) + 1 : Insert(s, i, x)[j] =
          IF j <= i THEN s[j] ELSE IF j = i + 1 THEN x ELSE s[j - 1]
  BY <1>1, InsertTyped
<1> QED BY <1>1, <1>2

LEMMA EraseTyped ==
    ASSUME NEW K, NEW s \in Seq(K), NEW i \in 0..Len(s) - 1
    PROVE  /\ Erase(s, i) \in Seq(K) /\ Len(Erase(s, i)) = Len(s) - 1
           /\ \A j \in 1..Len(s) - 1 : Erase(s, i)[j] = IF j <= i THEN s[j] ELSE s[j + 1]
<1> DEFINE a == SubSeq(s, 1, i)
           b == SubSeq(s, i + 2, Len(s))
<1>1. /\ a \in Seq(K) /\ Len(a) = i /\ \A j \in 1..i : a[j] = s[j]
      /\ b \in Seq(K) /\ Len(b) = Len(s) - i - 1 /\ \A j \in 1..Len(b) : b[j] = s[j + i + 1]
      /\ i \in Nat /\ Len(s) \in Nat
  OBVIOUS
<1>2. Erase(s, i) = a \o b
  <2>1. (i + 1) - 1 = i /\ (i + 1) + 1 = i + 2
    OBVIOUS
  <2> QED BY <2>1 DEF Erase, RemoveAt
<1> HIDE DEF a, b
<1>3. /\ a \o b \in Seq(K) /\ Len(a \o b) = Len(s) - 1
      /\ \A j \in 1..Len(s) - 1 : (a \o b)[j] = IF j <= i THEN a[j] ELSE b[j - i]
  <2>1. Len(a) + Len(b) = Len(s) - 1
    BY <1>1
  <2>2. a \in Seq(K) /\ b \in Seq(K)
    BY <1>1
  <2>3. /\ a \o b \in Seq(K) /\ Len(a \o b) = Len(a) + Len(b)
        /\ \A j \in 1..Len(a) + Len(b) :
               (a \o b)[j] = IF j <= Len(a) THEN a[j] ELSE b[j - Len(a)]
    BY <2>2, Joined
  <2> QED BY <1>1, <2>1, <2>3
<1>4. \A j \in 1..Len(s) - 1 : (a \o b)[j] = IF j <= i THEN s[j] ELSE s[j + 1]
  <2> TAKE j \in 1..Len(s) - 1
  <2>1. CASE j <= i
    BY <1>1, <1>3, <2>1
  <2>2. CASE j > i
    <3>1. j - i \in 1..Len(b) /\ (j - i) + i + 1 = j + 1
      BY <1>1, <2>2
    <3> QED BY <1>1, <1>3, <2>2, <3>1
  <2> QED BY <1>1, <2>1, <2>2
<1> QED BY <1>2, <1>3, <1>4

LEMMA NormalizeTyped ==
    ASSUME NEW index \in Int, NEW max \in Int
    PROVE  /\ NormalizeIndex(index, max) \in Int
           /\ max >= 0 => NormalizeIndex(index, max) \in 0..max
BY DEF NormalizeIndex

LEMMA FindTyped ==
    ASSUME NEW K, List \in Seq(K), NEW x
    PROVE  /\ FindLanguage(x) \in Int
           /\ ~Contains(List, x) => FindLanguage(x) = -1
           /\ Contains(List, x) =>
                  FindLanguage(x) \in 0..Len(List) - 1 /\ List[FindLanguage(x) + 1] = x
<1>1. FindLanguage(x) = IF Contains(List, x) THEN (CHOOSE i \in DOMAIN List : List[i] = x) - 1
                        ELSE -1
  BY DEF FindLanguage, List
<1> DEFINE k == CHOOSE i \in DOMAIN List : List[i] = x
<1>2. DOMAIN List = 1..Len(List) /\ Len(List) \in Nat
  OBVIOUS
<1>3. Contains(List, x) => k \in 1..Len(List) /\ List[k] = x
  BY <1>2 DEF Contains
<1> HIDE DEF k, List
<1> QED BY <1>1, <1>2, <1>3 DEF k

-----------------------------------------------------------------------------
(* Types. *)

LEMMA TypeListed == TypeInv => List \in Seq(Tags)
<1> SUFFICES ASSUME TypeInv PROVE List \in Seq(Tags)
  OBVIOUS
<1>1. \A x \in Tags : matched[x] \in Tags \cup {NoLocale}
  BY TagsAssumption DEF TypeInv, TypeOK, ToSet
<1>2. \A x \in Tags : Listed(x) \in Tags
  BY <1>1, TagsAssumption DEF Listed
<1>3. preferred \in Seq(Tags) /\ matched[language] \in Tags \cup {NoLocale}
  BY <1>1 DEF TypeInv, TypeOK
<1> QED BY <1>2, <1>3, ListTyped

LEMMA NoFrameTyped == NoFrame \in Frame
BY DEF NoFrame, Frame

\* A step of one thread.
LEMMA ThreadTyped ==
    ASSUME TypeInv, NEW t \in Threads, NEW label \in Labels, NEW f \in Frame,
           Goto(t, label), Keep(t, f), Holds(label, f)
    PROVE  /\ pc' \in [Threads -> Labels] /\ frame' \in [Threads -> Frame]
           /\ \A u \in Threads : Holds(pc'[u], frame'[u])
<1>1. pc' \in [Threads -> Labels] /\ frame' \in [Threads -> Frame]
  BY DEF TypeInv, TypeOK, Goto, Keep
<1>2. \A u \in Threads : pc'[u] = (IF u = t THEN label ELSE pc[u])
                      /\ frame'[u] = (IF u = t THEN f ELSE frame[u])
  BY DEF TypeInv, TypeOK, Goto, Keep
<1> QED BY <1>1, <1>2 DEF TypeInv

\* A step that writes nothing but what the thread holds.
LEMMA HeldTyped ==
    ASSUME TypeInv, NEW t \in Threads, NEW label \in Labels, NEW f \in Frame,
           Goto(t, label), Keep(t, f), Unwritten, Holds(label, f)
    PROVE  TypeInv'
<1>1. /\ pc' \in [Threads -> Labels] /\ frame' \in [Threads -> Frame]
      /\ \A u \in Threads : Holds(pc'[u], frame'[u])
  BY ThreadTyped
<1> QED BY <1>1 DEF Unwritten, TypeInv, TypeOK, MatchedOnce, Holds

LEMMA MovedTyped ==
    ASSUME TypeInv, NEW t \in Threads, NEW label \in Labels,
           Goto(t, label), UNCHANGED frame, Unwritten, Holds(label, frame[t])
    PROVE  TypeInv'
<1>1. frame[t] \in Frame /\ Keep(t, frame[t])
  BY DEF TypeInv, TypeOK, Keep
<1> QED BY <1>1, HeldTyped

LEMMA ReturnTyped ==
    ASSUME TypeInv, NEW t \in Threads, Return(t), Unwritten
    PROVE  TypeInv'
BY HeldTyped, NoFrameTyped DEF Return, Holds, Labels, Adding

\* Where an edited list goes.
LEMMA EditedTyped ==
    ASSUME TypeInv, NEW t \in Threads, NEW f \in Frame, f.list # << >>,
           NEW label \in {"language", "store"}, Goto(t, label), Keep(t, f), Unwritten
    PROVE  TypeInv'
BY HeldTyped DEF Holds, Labels, Adding

LEMMA StepTyped == ASSUME TypeInv, NEW t \in Threads, Step(t) PROVE TypeInv'
<1> DEFINE f == frame[t]
<1>1. /\ List \in Seq(Tags) /\ Len(List) \in Int /\ Len(List) - 1 \in Int
      /\ f \in Frame /\ f.index \in Int /\ f.validIndex \in Int /\ f.list \in Seq(Tags)
      /\ pc[t] \in Adding => f.language \in Tags
  <2>1. List \in Seq(Tags)
    BY TypeListed
  <2> QED BY <2>1 DEF TypeInv, TypeOK, Frame, Holds
<1>2. CASE AddFind(t)
  BY <1>1, <1>2, MovedTyped DEF AddFind, Labels, Holds, Adding
<1>3. CASE NewIndex(t)
  <2> DEFINE g == [f EXCEPT !.validIndex = NormalizeIndex(f.index, Len(List))]
  <2>1. NormalizeIndex(f.index, Len(List)) \in Int
    BY <1>1, NormalizeTyped
  <2>2. g \in Frame /\ g.language = f.language
    BY <1>1, <2>1 DEF Frame
  <2>3. Goto(t, "new_list") /\ Keep(t, g) /\ Unwritten /\ f.language \in Tags
    BY <1>1, <1>3 DEF NewIndex, List, Adding
  <2> QED BY <2>2, <2>3, HeldTyped DEF Labels, Holds
<1>4. CASE NewList(t)
  <2> DEFINE list == Insert(List, f.validIndex, f.language)
             g == [f EXCEPT !.list = list]
  <2>1. CASE Insertable(List, f.validIndex)
    <3>1. list \in Seq(Tags) /\ list # << >>
      <4>1. f.language \in Tags /\ f.validIndex \in 0..Len(List) /\ List \in Seq(Tags)
        BY <1>1, <1>4, <2>1 DEF NewList, Adding, Insertable
      <4>2. \A i \in 0..Len(List), x \in Tags : Insert(List, i, x) \in Seq(Tags)
        BY <4>1, InsertMembers
      <4>3. \A i \in 0..Len(List), x \in Tags : Len(Insert(List, i, x)) = Len(List) + 1
        BY <4>1, InsertLength
      <4>4. list \in Seq(Tags) /\ Len(list) = Len(List) + 1
        BY <4>1, <4>2, <4>3
      <4> HIDE DEF list
      <4>5. Len(List) \in Nat
        BY <4>1
      <4> QED BY <4>4, <4>5
    <3>2. g \in Frame /\ g.list = list
      BY <1>1, <3>1 DEF Frame
    <3>3. Goto(t, Edited(f)) /\ Keep(t, g) /\ Unwritten
      BY <1>4, <2>1 DEF NewList, List
    <3> QED BY <3>1, <3>2, <3>3, EditedTyped DEF Edited
  <2>2. CASE ~Insertable(List, f.validIndex)
    BY <1>4, <2>2, MovedTyped DEF NewList, List, Labels, Holds, Adding
  <2> QED BY <2>1, <2>2
<1>5. CASE OldIndex(t)
  <2> DEFINE g == [f EXCEPT !.validIndex = NormalizeIndex(f.index, Len(List) - 1)]
  <2>1. NormalizeIndex(f.index, Len(List) - 1) \in Int
    BY <1>1, NormalizeTyped
  <2>2. g \in Frame /\ g.language = f.language
    BY <1>1, <2>1 DEF Frame
  <2>3. Goto(t, "old_find") /\ Keep(t, g) /\ Unwritten /\ f.language \in Tags
    BY <1>1, <1>5 DEF OldIndex, List, Adding
  <2> QED BY <2>2, <2>3, HeldTyped DEF Labels, Holds
<1>6. CASE OldFind(t)
  <2> DEFINE idx == FindLanguage(f.language)
             g == [f EXCEPT !.languageIdx = idx]
  <2>1. CASE idx = f.validIndex
    BY <1>6, <2>1, ReturnTyped DEF OldFind
  <2>2. CASE idx # f.validIndex
    <3>1. idx \in Int
      BY <1>1, FindTyped
    <3>2. g \in Frame /\ g.language = f.language
      BY <1>1, <3>1 DEF Frame
    <3>3. Goto(t, "old_list") /\ Keep(t, g) /\ Unwritten /\ f.language \in Tags
      BY <1>1, <1>6, <2>2 DEF OldFind, Adding
    <3> QED BY <3>2, <3>3, HeldTyped DEF Labels, Holds
  <2> QED BY <2>1, <2>2
<1>7. CASE OldList(t)
  <2> DEFINE erased == Erase(List, f.languageIdx)
             list == Insert(erased, f.validIndex, f.language)
             g == [f EXCEPT !.list = list]
  <2>1. CASE Erasable(List, f.languageIdx) /\ Insertable(erased, f.validIndex)
    <3>1. erased \in Seq(Tags)
      BY <1>1, <2>1, EraseTyped DEF Erasable
    <3>2. list \in Seq(Tags) /\ list # << >>
      <4>1. f.language \in Tags /\ f.validIndex \in 0..Len(erased)
        BY <1>1, <1>7, <2>1 DEF OldList, Adding, Insertable
      <4> HIDE DEF erased
      <4>2. \A i \in 0..Len(erased), x \in Tags : Insert(erased, i, x) \in Seq(Tags)
        BY <3>1, InsertMembers
      <4>3. \A i \in 0..Len(erased), x \in Tags :
               Len(Insert(erased, i, x)) = Len(erased) + 1
        BY <3>1, InsertLength
      <4>4. list \in Seq(Tags) /\ Len(list) = Len(erased) + 1
        BY <4>1, <4>2, <4>3
      <4> HIDE DEF list
      <4>5. Len(erased) \in Nat
        BY <3>1
      <4> QED BY <4>4, <4>5
    <3>3. g \in Frame /\ g.list = list
      BY <1>1, <3>2 DEF Frame
    <3>4. Goto(t, Edited(f)) /\ Keep(t, g) /\ Unwritten
      BY <1>7, <2>1 DEF OldList, List
    <3> QED BY <3>2, <3>3, <3>4, EditedTyped DEF Edited
  <2>2. CASE ~(Erasable(List, f.languageIdx) /\ Insertable(erased, f.validIndex))
    BY <1>7, <2>2, MovedTyped DEF OldList, List, Labels, Holds, Adding
  <2> QED BY <2>1, <2>2
<1>8. CASE RemoveList(t)
  <2> DEFINE i == NormalizeIndex(f.index, Len(List) - 1)
             list == Erase(List, i)
             g == [f EXCEPT !.validIndex = i, !.list = list]
  <2>1. CASE Len(List) = 1
    BY <1>8, <2>1, ReturnTyped DEF RemoveList, List
  <2>2. CASE Len(List) # 1 /\ Erasable(List, i)
    <3>1. list \in Seq(Tags) /\ list # << >> /\ i \in Int
      <4>1. i \in 0..Len(List) - 1
        BY <2>2 DEF Erasable
      <4>2. list \in Seq(Tags) /\ Len(list) = Len(List) - 1
        BY <1>1, <4>1, EraseTyped
      <4>3. Len(list) # 0
        BY <1>1, <2>2, <4>1, <4>2
      <4> QED BY <4>1, <4>2, <4>3
    <3>2. g \in Frame /\ g.list = list
      BY <1>1, <3>1 DEF Frame
    <3>3. Goto(t, IF i = 0 THEN "language" ELSE "store") /\ Keep(t, g) /\ Unwritten
      BY <1>8, <2>2 DEF RemoveList, List
    <3> QED BY <3>1, <3>2, <3>3, EditedTyped
  <2>3. CASE Len(List) # 1 /\ ~Erasable(List, i)
    BY <1>8, <2>3, MovedTyped DEF RemoveList, List, Labels, Holds, Adding
  <2> QED BY <2>1, <2>2, <2>3
<1>9. CASE WriteLanguage(t)
  <2>1. CASE language' = Head(f.list) /\ Goto(t, "store") /\ UNCHANGED <<frame, faults>>
    <3>1. f.list # << >>
      BY <1>9 DEF WriteLanguage, TypeInv, Holds
    <3>2. language' \in Tags
      BY <1>1, <2>1, <3>1
    <3>3. Keep(t, f) /\ "store" \in Labels /\ Holds("store", f)
      BY <2>1 DEF Keep, TypeInv, TypeOK, Labels, Holds, Adding
    <3>4. /\ pc' \in [Threads -> Labels] /\ frame' \in [Threads -> Frame]
          /\ \A u \in Threads : Holds(pc'[u], frame'[u])
      BY <1>1, <2>1, <3>3, ThreadTyped
    <3> QED BY <1>9, <2>1, <3>2, <3>4 DEF WriteLanguage, TypeInv, TypeOK, MatchedOnce, Holds
  <2>2. CASE Fault("language") /\ Return(t) /\ UNCHANGED language
    <3>1. /\ pc' \in [Threads -> Labels] /\ frame' \in [Threads -> Frame]
          /\ \A u \in Threads : Holds(pc'[u], frame'[u])
      BY <2>2, ThreadTyped, NoFrameTyped DEF Return, Labels, Holds, Adding
    <3> QED BY <1>9, <2>2, <3>1, BoundsAssumption
            DEF WriteLanguage, Fault, TypeInv, TypeOK, MatchedOnce, Holds
  <2> QED BY <1>9, <2>1, <2>2 DEF WriteLanguage
<1>10. CASE WriteList(t)
  <2>1. /\ pc' \in [Threads -> Labels] /\ frame' \in [Threads -> Frame]
        /\ \A u \in Threads : Holds(pc'[u], frame'[u])
    BY <1>10, ThreadTyped, NoFrameTyped DEF WriteList, Return, Labels, Holds, Adding
  <2>2. preferred' \in Seq(Tags) /\ Len(preferred') <= MaxList /\ faults' \in 0..MaxFaults
    BY <1>1, <1>10, BoundsAssumption DEF WriteList, Fault, TypeInv, TypeOK
  <2> QED BY <1>10, <2>1, <2>2 DEF WriteList, TypeInv, TypeOK, MatchedOnce, Holds
<1> QED BY <1>2, <1>3, <1>4, <1>5, <1>6, <1>7, <1>8, <1>9, <1>10 DEF Step

LEMMA BeginTyped ==
    ASSUME TypeInv, NEW t \in Threads, NEW label \in Labels, NEW f \in Frame,
           Begin(t, label, f), label # "language", label \in Adding => f.language \in Tags
    PROVE  TypeInv'
<1> DEFINE g == [f EXCEPT !.before = List]
<1>1. g \in Frame /\ g.language = f.language
  BY TypeListed DEF Frame
<1>2. Goto(t, label) /\ Keep(t, g)
  BY DEF Begin, List
<1>3. Holds(label, g)
  BY <1>1 DEF Holds
<1>4. /\ pc' \in [Threads -> Labels] /\ frame' \in [Threads -> Frame]
      /\ \A u \in Threads : Holds(pc'[u], frame'[u])
  BY <1>1, <1>2, <1>3, ThreadTyped
<1> QED BY <1>4, BoundsAssumption DEF Begin, TypeInv, TypeOK, MatchedOnce, Holds

LEMMA NextTyped == TypeInv /\ [Next]_vars => TypeInv'
<1> SUFFICES ASSUME TypeInv, [Next]_vars PROVE TypeInv'
  OBVIOUS
<1>1. ASSUME NEW t \in Threads, NEW x \in Asked, NEW i \in Indices,
             AddPreferredLanguage(t, x, i)
      PROVE  TypeInv'
  <2> DEFINE f == [NoFrame EXCEPT !.op = "Add", !.language = x, !.index = i]
  <2>1. x \in Tags /\ i \in Int
    BY TagsAssumption, BoundsAssumption
  <2>2. f \in Frame /\ f.language = x
    BY <2>1, NoFrameTyped DEF Frame
  <2>3. Begin(t, "find", f)
    BY <1>1 DEF AddPreferredLanguage
  <2> QED BY <2>1, <2>2, <2>3, BeginTyped DEF Labels
<1>2. ASSUME NEW t \in Threads, NEW i \in Indices, RemovePreferredLanguage(t, i)
      PROVE  TypeInv'
  <2> DEFINE f == [NoFrame EXCEPT !.op = "Remove", !.index = i]
  <2>1. f \in Frame
    BY BoundsAssumption, NoFrameTyped DEF Frame
  <2>2. Begin(t, "remove", f)
    BY <1>2 DEF RemovePreferredLanguage
  <2> QED BY <2>1, <2>2, BeginTyped DEF Labels, Adding
<1>3. ASSUME NEW x \in Asked, SetSystemLanguage(x) PROVE TypeInv'
  BY <1>3, TagsAssumption, BoundsAssumption
     DEF SetSystemLanguage, TypeInv, TypeOK, MatchedOnce, Holds
<1>4. CASE UNCHANGED vars
  BY <1>4 DEF vars, TypeInv, TypeOK, MatchedOnce, Holds
<1> QED BY <1>1, <1>2, <1>3, <1>4, StepTyped DEF Next

LEMMA InitTyped == Init => TypeInv
<1> SUFFICES ASSUME Init PROVE TypeInv
  OBVIOUS
<1>1. matched \in [Tags -> ToSet(Candidates) \cup {NoLocale}]
  BY MatchedAmong DEF Init
<1>2. preferred \in Seq(Tags) /\ Len(preferred) <= MaxList /\ language \in Tags
  BY TagsAssumption DEF Init
<1>3. pc \in [Threads -> Labels] /\ frame \in [Threads -> Frame]
  BY NoFrameTyped DEF Init, Labels
<1> QED BY <1>1, <1>2, <1>3, BoundsAssumption DEF Init, TypeInv, TypeOK, MatchedOnce, Holds, Adding

\* For any tags, supported languages and ways to match them, any number of threads and
\* any failures: what is stored in PREFERRED_LANGUAGES are tags that fit the
\* parameter, the system language is a tag, and GetMatchedLanguage answers with
\* a supported language or none.
THEOREM TypeCorrect == Spec => []TypeOK
<1>1. TypeInv => TypeOK
  BY DEF TypeInv
<1> QED BY <1>1, InitTyped, NextTyped, PTL DEF Spec

-----------------------------------------------------------------------------
(* Positions. *)

LEMMA ListKept ==
    ASSUME UNCHANGED <<preferred, language, matched>>
    PROVE  List' = List /\ \A x : FindLanguage(x)' = FindLanguage(x)
<1>1. List' = List
  BY DEF List, GetPreferredLanguageList, FilterLanguages, Listed, WithFirst
<1> QED BY <1>1 DEF List, FindLanguage

\* What is listed matches a supported language, and there is always some.
LEMMA ListKnown ==
    ASSUME TypeInv, Matching, language \in Known
    PROVE  List \in Seq(Known) /\ Len(List) \in Nat \ {0} /\ List[1] = matched[language]
<1>1. \A x \in Tags : matched[x] = GetMatchedLanguage(x)
  BY DEF TypeInv, MatchedOnce
<1>2. \A x \in Tags : Listed(x) \in Known
  BY <1>1, CandidatesFixed DEF Listed, Matching
<1>3. matched[language] # NoLocale /\ matched[language] \in Known
  BY <1>1, CandidatesFixed DEF Known
<1>4. preferred \in Seq(Tags) /\ Known \subseteq Tags
  BY CandidatesFixed DEF TypeInv, TypeOK
<1> QED BY <1>2, <1>3, <1>4, ListTyped

\* The step of the only thread.
LEMMA ThreadInRange ==
    ASSUME TypeInv, OneByOne, NEW t \in Threads, NEW label \in Labels \ {"undefined"},
           NEW f \in Frame, Goto(t, label), Keep(t, f), language' \in Known,
           AtLabel(label, f)'
    PROVE  RangeInv'
<1>1. \A u \in Threads : u = t
  BY DEF OneByOne
<1>2. pc'[t] = label /\ frame'[t] = f
  BY DEF TypeInv, TypeOK, Goto, Keep
<1>3. AtLabel(pc[t], frame[t])'
  BY <1>2 DEF AtLabel
<1> QED BY <1>1, <1>2, <1>3 DEF RangeInv, InRange, AtLabel

LEMMA HeldInRange ==
    ASSUME TypeInv, RangeInv, OneByOne, NEW t \in Threads,
           NEW label \in Labels \ {"undefined"}, NEW f \in Frame,
           Goto(t, label), Keep(t, f), Unwritten, AtLabel(label, f)
    PROVE  RangeInv'
<1>1. List' = List /\ FindLanguage(f.language)' = FindLanguage(f.language)
  BY ListKept DEF Unwritten
<1>2. AtLabel(label, f)'
  BY <1>1 DEF AtLabel
<1>3. language' \in Known
  BY DEF Unwritten, RangeInv
<1> QED BY <1>2, <1>3, ThreadInRange

LEMMA ReturnInRange ==
    ASSUME TypeInv, RangeInv, OneByOne, NEW t \in Threads, Return(t), Unwritten
    PROVE  RangeInv'
BY HeldInRange, NoFrameTyped DEF Return, AtLabel, Adding, Labels

LEMMA StepInRange ==
    ASSUME TypeInv, RangeInv, OneByOne, Matching, NEW t \in Threads, Step(t)
    PROVE  RangeInv'
<1> DEFINE f == frame[t]
<1>1. f \in Frame /\ f.index \in Int /\ f.validIndex \in Int /\ f.languageIdx \in Int
  BY DEF TypeInv, TypeOK, Frame
<1>2. /\ List \in Seq(Known) /\ Len(List) \in Nat \ {0} /\ Known \subseteq Tags
      /\ Len(List) \in Int /\ Len(List) >= 0 /\ Len(List) - 1 \in Int /\ Len(List) - 1 >= 0
  <2>1. List \in Seq(Known) /\ Len(List) \in Nat \ {0} /\ Known \subseteq Tags
    BY ListKnown, CandidatesFixed DEF RangeInv
  <2> QED BY <2>1
<1>3. AtLabel(pc[t], f)
  BY DEF RangeInv
<1>4. CASE AddFind(t)
  <2> DEFINE label == IF FindLanguage(f.language) = -1 THEN "new_index" ELSE "old_index"
  <2>1. pc[t] = "find" /\ Goto(t, label) /\ Keep(t, f) /\ Unwritten
    BY <1>4 DEF AddFind, Keep, TypeInv, TypeOK
  <2>2. FindLanguage(f.language) = -1 <=> ~Contains(List, f.language)
    BY <1>2, FindTyped
  <2>3. AtLabel(label, f)
    BY <1>3, <2>1, <2>2 DEF AtLabel, Adding
  <2>4. label \in Labels \ {"undefined"}
    BY DEF Labels
  <2> HIDE DEF label
  <2> QED BY <1>1, <2>1, <2>3, <2>4, HeldInRange
<1>5. CASE NewIndex(t)
  <2> DEFINE i == NormalizeIndex(f.index, Len(List))
             g == [f EXCEPT !.validIndex = i]
  <2>1. pc[t] = "new_index" /\ Goto(t, "new_list") /\ Keep(t, g) /\ Unwritten
    BY <1>5 DEF NewIndex, List
  <2>2. i \in Int
    BY <1>1, <1>2, NormalizeTyped
  <2> HIDE DEF i
  <2>3. /\ g \in Frame /\ g.op = f.op /\ g.language = f.language /\ g.index = f.index
        /\ g.validIndex = i /\ g.languageIdx = f.languageIdx
    BY <1>1, <2>2 DEF Frame
  <2> HIDE DEF g
  <2>4. AtLabel("new_list", g)
    BY <1>3, <2>1, <2>3 DEF AtLabel, Adding, i
  <2> QED BY <2>1, <2>3, <2>4, HeldInRange DEF Labels
<1>6. CASE NewList(t)
  <2> DEFINE list == Insert(List, f.validIndex, f.language)
             g == [f EXCEPT !.list = list]
  <2>1. f.language \in Known /\ f.validIndex \in 0..Len(List)
    <3>1. f.language \in Known /\ f.validIndex = NormalizeIndex(f.index, Len(List))
      BY <1>3, <1>6 DEF NewList, AtLabel, Adding, Matching
    <3>2. NormalizeIndex(f.index, Len(List)) \in 0..Len(List)
      BY <1>1, <1>2, NormalizeTyped
    <3> QED BY <3>1, <3>2
  <2>2. Goto(t, Edited(f)) /\ Keep(t, g) /\ Unwritten
    BY <1>6, <2>1 DEF NewList, List, Insertable
  <2>3. list \in Seq(Known)
    <3>1. \A i \in 0..Len(List), x \in Known : Insert(List, i, x) \in Seq(Known)
      BY <1>2, InsertMembers
    <3> QED BY <2>1, <3>1
  <2> HIDE DEF list
  <2>4. list \in Seq(Tags)
    BY <1>2, <2>3
  <2>5. g \in Frame /\ g.list = list
    BY <1>1, <2>4 DEF Frame
  <2> HIDE DEF g
  <2>6. Edited(f) \in {"language", "store"}
    BY DEF Edited
  <2>7. AtLabel(Edited(f), g) /\ Edited(f) \in Labels \ {"undefined"}
    BY <2>3, <2>5, <2>6 DEF AtLabel, Adding, Labels
  <2> HIDE DEF f
  <2> QED BY <2>2, <2>5, <2>7, HeldInRange
<1>7. CASE OldIndex(t)
  <2> DEFINE i == NormalizeIndex(f.index, Len(List) - 1)
             g == [f EXCEPT !.validIndex = i]
  <2>1. pc[t] = "old_index" /\ Goto(t, "old_find") /\ Keep(t, g) /\ Unwritten
    BY <1>7 DEF OldIndex, List
  <2>2. i \in Int
    BY <1>1, <1>2, NormalizeTyped
  <2> HIDE DEF i
  <2>3. /\ g \in Frame /\ g.op = f.op /\ g.language = f.language /\ g.index = f.index
        /\ g.validIndex = i
    BY <1>1, <2>2 DEF Frame
  <2> HIDE DEF g
  <2>4. AtLabel("old_find", g)
    BY <1>3, <2>1, <2>3 DEF AtLabel, Adding, i
  <2> QED BY <2>1, <2>3, <2>4, HeldInRange DEF Labels
<1>8. CASE OldFind(t)
  <2> DEFINE idx == FindLanguage(f.language)
             g == [f EXCEPT !.languageIdx = idx]
  <2>1. CASE idx = f.validIndex
    BY <1>8, <2>1, ReturnInRange DEF OldFind
  <2>2. CASE idx # f.validIndex
    <3>1. pc[t] = "old_find" /\ Goto(t, "old_list") /\ Keep(t, g) /\ Unwritten
      BY <1>8, <2>2 DEF OldFind
    <3>2. idx \in Int
      BY <1>2, FindTyped
    <3> HIDE DEF idx
    <3>3. /\ g \in Frame /\ g.op = f.op /\ g.language = f.language /\ g.index = f.index
          /\ g.validIndex = f.validIndex /\ g.languageIdx = idx
      BY <1>1, <3>2 DEF Frame
    <3> HIDE DEF g
    <3>4. AtLabel("old_list", g)
      BY <1>3, <3>1, <3>3 DEF AtLabel, Adding, idx
    <3> QED BY <3>1, <3>3, <3>4, HeldInRange DEF Labels
  <2> QED BY <2>1, <2>2
<1>9. CASE OldList(t)
  <2> DEFINE erased == Erase(List, f.languageIdx)
             list == Insert(erased, f.validIndex, f.language)
             g == [f EXCEPT !.list = list]
  <2>1. /\ f.language \in Known /\ Contains(List, f.language)
        /\ f.validIndex = NormalizeIndex(f.index, Len(List) - 1)
        /\ f.languageIdx = FindLanguage(f.language)
    BY <1>3, <1>9 DEF OldList, AtLabel, Adding, Matching
  <2>2. f.validIndex \in 0..Len(List) - 1 /\ f.languageIdx \in 0..Len(List) - 1
    <3>1. f.validIndex \in 0..Len(List) - 1
      BY <1>1, <1>2, <2>1, NormalizeTyped
    <3> QED BY <1>2, <2>1, <3>1, FindTyped
  <2>3. erased \in Seq(Known) /\ Len(erased) = Len(List) - 1
    <3>1. \A i \in 0..Len(List) - 1 :
             Erase(List, i) \in Seq(Known) /\ Len(Erase(List, i)) = Len(List) - 1
      BY <1>2, EraseTyped
    <3> QED BY <2>2, <3>1
  <2>4. Goto(t, Edited(f)) /\ Keep(t, g) /\ Unwritten
    BY <1>9, <2>2, <2>3 DEF OldList, List, Erasable, Insertable
  <2> HIDE DEF erased
  <2>5. list \in Seq(Known)
    <3>1. \A i \in 0..Len(erased), x \in Known : Insert(erased, i, x) \in Seq(Known)
      BY <2>3, InsertMembers
    <3> QED BY <2>1, <2>2, <2>3, <3>1
  <2> HIDE DEF list
  <2>6. list \in Seq(Tags)
    BY <1>2, <2>5
  <2>7. g \in Frame /\ g.list = list
    BY <1>1, <2>6 DEF Frame
  <2> HIDE DEF g
  <2>8. Edited(f) \in {"language", "store"}
    BY DEF Edited
  <2>9. AtLabel(Edited(f), g) /\ Edited(f) \in Labels \ {"undefined"}
    BY <2>5, <2>7, <2>8 DEF AtLabel, Adding, Labels
  <2> HIDE DEF f
  <2> QED BY <2>4, <2>7, <2>9, HeldInRange
<1>10. CASE RemoveList(t)
  <2> DEFINE i == NormalizeIndex(f.index, Len(List) - 1)
             list == Erase(List, i)
             g == [f EXCEPT !.validIndex = i, !.list = list]
             label == IF i = 0 THEN "language" ELSE "store"
  <2>1. CASE Len(List) = 1
    BY <1>10, <2>1, ReturnInRange DEF RemoveList, List
  <2>2. CASE Len(List) # 1
    <3>1. i \in 0..Len(List) - 1
      BY <1>1, <1>2, NormalizeTyped
    <3>2. Goto(t, label) /\ Keep(t, g) /\ Unwritten
      BY <1>10, <2>2, <3>1 DEF RemoveList, List, Erasable
    <3>3. i \in Int /\ label \in {"language", "store"}
      BY <3>1
    <3> HIDE DEF i, label
    <3>4. list \in Seq(Known)
      <4>1. \A j \in 0..Len(List) - 1 : Erase(List, j) \in Seq(Known)
        BY <1>2, EraseTyped
      <4> QED BY <3>1, <4>1
    <3> HIDE DEF list
    <3>5. list \in Seq(Tags)
      BY <1>2, <3>4
    <3>6. g \in Frame /\ g.list = list
      BY <1>1, <3>3, <3>5 DEF Frame
    <3> HIDE DEF g
    <3>7. AtLabel(label, g) /\ label \in Labels \ {"undefined"}
      BY <3>3, <3>4, <3>6 DEF AtLabel, Adding, Labels
    <3> QED BY <3>2, <3>6, <3>7, HeldInRange
  <2> QED BY <2>1, <2>2
<1>11. CASE WriteLanguage(t)
  <2>1. CASE language' = Head(f.list) /\ Goto(t, "store") /\ UNCHANGED <<frame, faults>>
    <3>1. f.list \in Seq(Known) /\ f.list # << >>
      BY <1>3, <1>11 DEF WriteLanguage, AtLabel, TypeInv, Holds
    <3>2. language' \in Known
      BY <2>1, <3>1
    <3>3. pc'[t] = "store" /\ frame'[t] = f
      BY <2>1 DEF Goto, TypeInv, TypeOK
    <3>4. AtLabel(pc[t], frame[t])'
      BY <3>1, <3>3 DEF AtLabel, Adding
    <3> QED BY <3>2, <3>3, <3>4 DEF OneByOne, RangeInv, InRange
  <2>2. CASE Fault("language") /\ Return(t) /\ UNCHANGED language
    <3>1. language' \in Known
      BY <2>2 DEF RangeInv
    <3>2. AtLabel("idle", NoFrame)'
      BY DEF AtLabel, Adding
    <3> QED BY <2>2, <3>1, <3>2, NoFrameTyped, ThreadInRange DEF Return, Labels
  <2> QED BY <1>11, <2>1, <2>2 DEF WriteLanguage
<1>12. CASE WriteList(t)
  <2>1. language' \in Known
    BY <1>12 DEF WriteList, RangeInv
  <2>2. AtLabel("idle", NoFrame)'
    BY DEF AtLabel, Adding
  <2> QED BY <1>12, <2>1, <2>2, NoFrameTyped, ThreadInRange DEF WriteList, Return, Labels
<1> QED BY <1>4, <1>5, <1>6, <1>7, <1>8, <1>9, <1>10, <1>11, <1>12 DEF Step

\* A call begins: what the list is, is noted.
LEMMA BeginInRange ==
    ASSUME TypeInv, RangeInv, OneByOne, NEW t \in Threads, NEW f \in Frame,
           NEW label \in {"find", "remove"}, Begin(t, label, f), AtLabel(label, f)
    PROVE  RangeInv'
<1> DEFINE g == [f EXCEPT !.before = List]
<1>1. /\ g \in Frame /\ g.op = f.op /\ g.language = f.language
      /\ g.languageIdx = f.languageIdx
  BY TypeListed DEF Frame
<1>2. pc'[t] = label /\ frame'[t] = g /\ pc[t] = "idle"
  BY DEF Begin, List, Goto, Keep, TypeInv, TypeOK
<1> HIDE DEF g
<1>3. AtLabel(pc[t], frame[t])'
  BY <1>1, <1>2 DEF AtLabel, Adding
<1>4. language' \in Known
  BY DEF Begin, RangeInv
<1> QED BY <1>2, <1>3, <1>4 DEF OneByOne, RangeInv, InRange

LEMMA NextInRange == OneByOne /\ Matching /\ TypeInv /\ RangeInv /\ [Next]_vars => RangeInv'
<1> SUFFICES ASSUME OneByOne, Matching, TypeInv, RangeInv, [Next]_vars PROVE RangeInv'
  OBVIOUS
<1>1. ASSUME NEW t \in Threads, NEW x \in Asked, NEW i \in Indices,
             AddPreferredLanguage(t, x, i)
      PROVE  RangeInv'
  <2> DEFINE f == [NoFrame EXCEPT !.op = "Add", !.language = x, !.index = i]
  <2>1. x \in Tags /\ i \in Int
    BY TagsAssumption, BoundsAssumption
  <2>2. f \in Frame
    BY <2>1, NoFrameTyped DEF Frame
  <2>3. f.op = "Add" /\ f.language = x /\ f.languageIdx = -1
    BY DEF NoFrame
  <2>4. Begin(t, "find", f)
    BY <1>1 DEF AddPreferredLanguage
  <2> HIDE DEF f
  <2>5. AtLabel("find", f)
    BY <2>3 DEF AtLabel, Adding
  <2> QED BY <2>2, <2>4, <2>5, BeginInRange
<1>2. ASSUME NEW t \in Threads, NEW i \in Indices, RemovePreferredLanguage(t, i)
      PROVE  RangeInv'
  <2> DEFINE f == [NoFrame EXCEPT !.op = "Remove", !.index = i]
  <2>1. f \in Frame
    BY BoundsAssumption, NoFrameTyped DEF Frame
  <2>2. f.op = "Remove"
    BY DEF NoFrame
  <2>3. Begin(t, "remove", f)
    BY <1>2 DEF RemovePreferredLanguage
  <2> HIDE DEF f
  <2>4. AtLabel("remove", f)
    BY <2>2 DEF AtLabel, Adding
  <2> QED BY <2>1, <2>3, <2>4, BeginInRange
<1>3. ASSUME NEW x \in Asked, SetSystemLanguage(x) PROVE RangeInv'
  <2>1. language' \in Known /\ \A t \in Threads : pc[t] = "idle" /\ pc'[t] = "idle"
    BY <1>3 DEF SetSystemLanguage, OneByOne, Matching
  <2> QED BY <2>1 DEF RangeInv, InRange, AtLabel, Adding
<1>4. CASE UNCHANGED vars
  <2>1. List' = List /\ \A x : FindLanguage(x)' = FindLanguage(x)
    BY <1>4, ListKept DEF vars
  <2>2. \A t \in Threads : AtLabel(pc[t], frame[t])'
    BY <1>4, <2>1 DEF vars, RangeInv, AtLabel
  <2> QED BY <1>4, <2>2 DEF vars, RangeInv, InRange
<1> QED BY <1>1, <1>2, <1>3, <1>4, StepInRange DEF Next

LEMMA InitInRange == Matching /\ Init => RangeInv
BY DEF Matching, Init, RangeInv, InRange, AtLabel, Adding

\* One call at a time, with a default and requests that match a supported language,
\* whatever the languages, the indices, the failures and the list that is stored:
\* no call of AddPreferredLanguage or RemovePreferredLanguage passes erase or insert
\* a position outside the list.
THEOREM PositionsInRange == ASSUME OneByOne, Matching PROVE Spec => []InRange
<1>1. Init => TypeInv /\ RangeInv
  BY InitTyped, InitInRange
<1>2. TypeInv /\ RangeInv /\ [Next]_vars => (TypeInv /\ RangeInv)'
  BY NextTyped, NextInRange
<1>3. RangeInv => InRange
  BY DEF RangeInv
<1> QED BY <1>1, <1>2, <1>3, PTL DEF Spec

-----------------------------------------------------------------------------
(* Lists without repetitions. *)

LEMMA Prepended ==
    ASSUME NEW K, NEW s \in Seq(K), NEW x \in K
    PROVE  /\ <<x>> \o s \in Seq(K) /\ Len(<<x>> \o s) = Len(s) + 1
           /\ \A j \in 1..Len(s) + 1 : (<<x>> \o s)[j] = IF j = 1 THEN x ELSE s[j - 1]
<1> DEFINE d == <<x>>
<1>1. d \in Seq(K) /\ Len(d) = 1 /\ d[1] = x
  OBVIOUS
<1> HIDE DEF d
<1>2. /\ d \o s \in Seq(K) /\ Len(d \o s) = Len(d) + Len(s)
      /\ \A j \in 1..Len(d) + Len(s) : (d \o s)[j] = IF j <= Len(d) THEN d[j] ELSE s[j - Len(d)]
  <2>1. d \in Seq(K) /\ s \in Seq(K)
    BY <1>1
  <2> QED BY <2>1, Joined
<1>3. \A j \in 1..Len(s) + 1 : j <= 1 <=> j = 1
  OBVIOUS
<1>4. Len(s) \in Nat /\ 1 + Len(s) = Len(s) + 1
  OBVIOUS
<1>5. /\ d \o s \in Seq(K) /\ Len(d \o s) = Len(s) + 1
      /\ \A j \in 1..Len(s) + 1 : (d \o s)[j] = IF j <= 1 THEN d[j] ELSE s[j - 1]
  BY <1>1, <1>2, <1>4
<1>6. \A j \in 1..Len(s) + 1 : (d \o s)[j] = IF j = 1 THEN x ELSE s[j - 1]
  BY <1>1, <1>3, <1>5
<1> QED BY <1>5, <1>6 DEF d

LEMMA InsertDistinct ==
    ASSUME NEW K, NEW s \in Seq(K), NEW i \in 0..Len(s), NEW x \in K,
           Distinct(s), ~Contains(s, x)
    PROVE  Distinct(Insert(s, i, x))
<1> DEFINE r == Insert(s, i, x)
<1>1. /\ Len(r) = Len(s) + 1
      /\ \A j \in 1..Len(s) + 1 : r[j] = IF j <= i THEN s[j] ELSE IF j = i + 1 THEN x ELSE s[j - 1]
  BY InsertTyped
<1>2. \A j \in 1..Len(s) : s[j] # x
  BY DEF Contains
<1>3. Len(s) \in Nat /\ i \in Nat
  OBVIOUS
<1> HIDE DEF r
<1>4. ASSUME NEW j \in 1..Len(s) + 1, NEW k \in 1..Len(s) + 1, r[j] = r[k], j < k
      PROVE  FALSE
  <2> DEFINE at(m) == IF m <= i THEN m ELSE m - 1
  <2>1. \A m \in 1..Len(s) + 1 : m # i + 1 => at(m) \in 1..Len(s) /\ r[m] = s[at(m)]
    BY <1>1, <1>3
  <2>2. \A m \in 1..Len(s) + 1 : m = i + 1 => r[m] = x
    BY <1>1, <1>3
  <2>3. CASE j = i + 1
    BY <1>2, <1>3, <1>4, <2>1, <2>2, <2>3
  <2>4. CASE k = i + 1
    BY <1>2, <1>3, <1>4, <2>1, <2>2, <2>4
  <2>5. CASE j # i + 1 /\ k # i + 1
    <3>1. at(j) # at(k)
      BY <1>3, <1>4, <2>5
    <3> QED BY <1>4, <2>1, <2>5, <3>1 DEF Distinct
  <2> QED BY <2>3, <2>4, <2>5
<1> QED BY <1>1, <1>3, <1>4 DEF Distinct, r

LEMMA EraseDistinct ==
    ASSUME NEW K, NEW s \in Seq(K), NEW i \in 0..Len(s) - 1, Distinct(s)
    PROVE  Distinct(Erase(s, i)) /\ ~Contains(Erase(s, i), s[i + 1])
<1> DEFINE r == Erase(s, i)
           at(m) == IF m <= i THEN m ELSE m + 1
<1>1. Len(r) = Len(s) - 1 /\ \A j \in 1..Len(s) - 1 : r[j] = IF j <= i THEN s[j] ELSE s[j + 1]
  BY EraseTyped
<1>2. Len(s) \in Nat /\ i \in Nat /\ i + 1 \in 1..Len(s)
  OBVIOUS
<1> HIDE DEF r
<1>3. \A m \in 1..Len(s) - 1 : at(m) \in 1..Len(s) /\ r[m] = s[at(m)] /\ at(m) # i + 1
  BY <1>1, <1>2
<1>4. \A j, k \in 1..Len(s) - 1 : at(j) = at(k) => j = k
  BY <1>2
<1> HIDE DEF at
<1>5. Distinct(r)
  BY <1>1, <1>3, <1>4 DEF Distinct
<1>6. \A m \in 1..Len(r) : r[m] # s[i + 1]
  BY <1>1, <1>2, <1>3 DEF Distinct
<1> QED BY <1>5, <1>6 DEF r, Contains

\* Without one of its languages, a list is what is left when that one is erased.
LEMMA OnlyWithout ==
    ASSUME NEW K, K \subseteq Tags, NEW s \in Seq(K), NEW k \in 1..Len(s), Distinct(s)
    PROVE  Only(s, Tags \ {s[k]}) = Erase(s, k - 1)
<1> DEFINE T == Tags \ {s[k]}
           n == Len(s)
           a(i) == SubSeq(s, 1, i)
           b(i) == SubSeq(s, k + 1, i)
           h == [i \in 0..n |-> IF i < k THEN a(i) ELSE a(k - 1) \o b(i)]
<1>1. n \in Nat /\ k \in Nat \ {0} /\ k <= n /\ \A i \in 1..n : s[i] \in Tags /\ s[i] \in K
  OBVIOUS
<1>2. \A i \in 1..n : s[i] \in T <=> i # k
  BY <1>1 DEF Distinct
<1>3. /\ a(0) = << >> /\ \A i \in 1..n : a(i) = Append(a(i - 1), s[i])
      /\ b(k) = << >> /\ \A i \in k+1..n : b(i) = Append(b(i - 1), s[i])
  BY <1>1
<1>4. a(k - 1) \in Seq(K) /\ \A i \in k..n : b(i) \in Seq(K)
  BY <1>1
<1>5. \A i \in 0..n : (i < k => h[i] = a(i)) /\ (i >= k => h[i] = a(k - 1) \o b(i))
  BY <1>1
<1>6. h[n] = Erase(s, k - 1)
  <2>1. h[n] = a(k - 1) \o b(n)
    <3> HIDE DEF h, a, b, n
    <3>1. n \in 0..n /\ n >= k
      BY <1>1
    <3> QED BY <1>5, <3>1
  <2>2. (k - 1) + 1 = k /\ k \in Int
    BY <1>1
  <2> QED BY <2>1, <2>2 DEF Erase, RemoveAt
<1> HIDE DEF h, a, b, T, n
<1>7. ASSUME NEW i \in 0..n PROVE KeptNext(h, s, T, i)
  <2>1. CASE i = 0
    BY <1>1, <1>3, <1>5, <2>1 DEF KeptNext
  <2>2. CASE i # 0
    <3>1. i \in 1..n /\ i - 1 \in 0..n
      BY <1>1, <2>2
    <3>2. CASE i < k
      <4>1. h[i] = a(i) /\ h[i - 1] = a(i - 1) /\ s[i] \in T
        BY <1>1, <1>2, <1>5, <3>1, <3>2
      <4> QED BY <1>3, <3>1, <2>2, <4>1 DEF KeptNext
    <3>3. CASE i = k
      <4>1. h[i] = a(k - 1) \o b(k) /\ h[i - 1] = a(k - 1) /\ s[i] \notin T
        BY <1>1, <1>2, <1>5, <3>1, <3>3
      <4>2. h[i] = h[i - 1]
        BY <1>3, <1>4, <4>1
      <4> QED BY <2>2, <4>1, <4>2 DEF KeptNext
    <3>4. CASE i > k
      <4>1. i \in k+1..n /\ i - 1 \in k..n /\ i >= k /\ i - 1 >= k
        BY <1>1, <3>1, <3>4
      <4>2. h[i] = a(k - 1) \o b(i) /\ h[i - 1] = a(k - 1) \o b(i - 1) /\ s[i] \in T
        BY <1>1, <1>2, <1>5, <3>1, <3>4, <4>1
      <4>3. \A u, v \in Seq(K), c \in K : u \o Append(v, c) = Append(u \o v, c)
        OBVIOUS
      <4>4. a(k - 1) \in Seq(K) /\ b(i - 1) \in Seq(K) /\ s[i] \in K /\ b(i) = Append(b(i - 1), s[i])
        BY <1>1, <1>3, <1>4, <3>1, <4>1
      <4>5. a(k - 1) \o Append(b(i - 1), s[i]) = Append(a(k - 1) \o b(i - 1), s[i])
        BY <4>3, <4>4
      <4>6. h[i] = Append(h[i - 1], s[i])
        BY <4>2, <4>4, <4>5
      <4> QED BY <2>2, <4>2, <4>6 DEF KeptNext
    <3> QED BY <1>1, <3>1, <3>2, <3>3, <3>4
  <2> QED BY <2>1, <2>2
<1>8. Follows(h, s, T, Len(s))
  BY <1>7 DEF Follows, n
<1>9. Only(s, T) = h[Len(s)]
  BY <1>8, OnlyIs
<1> QED BY <1>6, <1>9 DEF T, n

LEMMA OnlyOthers ==
    ASSUME NEW K, K \subseteq Tags, NEW s \in Seq(K), NEW x, ~Contains(s, x)
    PROVE  Only(s, Tags \ {x}) = s
<1>1. \A i \in 1..Len(s) : s[i] \in Tags \ {x}
  BY DEF Contains
<1>2. s \in Seq(Tags \ {x})
  BY <1>1
<1> QED BY <1>2, OnlyAll

\* A list of languages, each once, with its first language put first again.
LEMMA FirstAgain ==
    ASSUME NEW K, K \subseteq Tags, NEW s \in Seq(K), s # << >>, Distinct(s)
    PROVE  WithFirst(s, s[1]) = s
<1>1. Len(s) \in Nat \ {0} /\ 1 \in 1..Len(s) /\ 0 \in 0..Len(s) - 1 /\ s[1] \in K
  OBVIOUS
<1> DEFINE r == Erase(s, 0)
<1>2. Only(s, Tags \ {s[1]}) = r
  <2>1. Only(s, Tags \ {s[1]}) = Erase(s, 1 - 1)
    BY <1>1, OnlyWithout
  <2> QED BY <2>1
<1>3. r \in Seq(K) /\ Len(r) = Len(s) - 1 /\ \A j \in 1..Len(s) - 1 : r[j] = s[j + 1]
  <2>1. r \in Seq(K) /\ Len(r) = Len(s) - 1
        /\ \A j \in 1..Len(s) - 1 : r[j] = IF j <= 0 THEN s[j] ELSE s[j + 1]
    BY <1>1, EraseTyped
  <2> QED BY <1>1, <2>1
<1> HIDE DEF r
<1>4. /\ <<s[1]>> \o r \in Seq(K) /\ Len(<<s[1]>> \o r) = Len(r) + 1
      /\ \A j \in 1..Len(r) + 1 : (<<s[1]>> \o r)[j] = IF j = 1 THEN s[1] ELSE r[j - 1]
  BY <1>1, <1>3, Prepended
<1> DEFINE q == <<s[1]>> \o r
<1> HIDE DEF q
<1>5. q \in Seq(K) /\ Len(q) = Len(s) /\ \A j \in 1..Len(s) : q[j] = s[j]
  <2>1. /\ q \in Seq(K) /\ Len(q) = Len(s)
        /\ \A j \in 1..Len(s) : q[j] = IF j = 1 THEN s[1] ELSE r[j - 1]
    BY <1>1, <1>3, <1>4 DEF q
  <2>2. \A j \in 1..Len(s) : j # 1 => j - 1 \in 1..Len(s) - 1 /\ (j - 1) + 1 = j
    BY <1>1
  <2> QED BY <1>3, <2>1, <2>2
<1>6. q = s
  BY <1>5, SeqEqual
<1> QED BY <1>2, <1>6 DEF WithFirst, q

-----------------------------------------------------------------------------
(* Edits. *)

LEMMA FixedMatched ==
    ASSUME TypeInv
    PROVE  /\ \A x \in Fixed : matched[x] = x /\ matched[x] # NoLocale /\ Listed(x) = x
           /\ \A x \in Known : matched[x] \in Fixed /\ Listed(x) \in Fixed
<1>1. \A x \in Tags : matched[x] = GetMatchedLanguage(x)
  BY DEF TypeInv, MatchedOnce
<1>2. \A x \in Fixed : matched[x] = x /\ matched[x] # NoLocale
  BY <1>1, TagsAssumption DEF Fixed
<1>3. \A x \in Known : matched[x] \in Fixed /\ matched[x] # NoLocale
  BY <1>1, CandidatesFixed DEF Known
<1> QED BY <1>2, <1>3 DEF Listed

\* The list starts with the system language, and has supported languages, each once.
LEMMA ListFixed ==
    ASSUME TypeInv, preferred \in Seq(Known), language \in Fixed
    PROVE  /\ List \in Seq(Fixed) /\ Len(List) \in Nat \ {0}
           /\ List[1] = language /\ Distinct(List)
<1> DEFINE s == FilterLanguages(preferred)
           rest == Only(s, Tags \ {language})
<1>1. Fixed \subseteq Tags /\ language \in Tags
  BY CandidatesFixed
<1>2. s \in Seq(Fixed) /\ Distinct(s)
  <2>1. \A i \in 1..Len(preferred) : Listed(preferred[i]) \in Fixed
    BY FixedMatched
  <2>2. FilterLanguages(preferred) \in Seq(Fixed)
    BY <2>1, FilterTyped
  <2>3. Distinct(FilterLanguages(preferred))
    BY <2>1, FilterDistinct
  <2> QED BY <2>2, <2>3
<1>3. List = <<language>> \o rest
  BY FixedMatched DEF List, GetPreferredLanguageList, WithFirst
<1> HIDE DEF s
<1>4. rest \in Seq(Fixed) /\ Distinct(rest) /\ ~Contains(rest, language)
  <2>1. CASE Contains(s, language)
    <3>1. PICK k \in 1..Len(s) : s[k] = language
      BY <1>2, <2>1 DEF Contains
    <3>2. rest = Erase(s, k - 1)
      BY <1>1, <1>2, <3>1, OnlyWithout
    <3>3. k - 1 \in 0..Len(s) - 1 /\ (k - 1) + 1 = k
      BY <1>2
    <3>4. Erase(s, k - 1) \in Seq(Fixed)
      BY <1>2, <3>3, EraseTyped
    <3>5. Distinct(Erase(s, k - 1)) /\ ~Contains(Erase(s, k - 1), s[(k - 1) + 1])
      BY <1>2, <3>3, EraseDistinct
    <3> QED BY <3>1, <3>2, <3>3, <3>4, <3>5
  <2>2. CASE ~Contains(s, language)
    <3>1. rest = s
      BY <1>1, <1>2, <2>2, OnlyOthers
    <3> QED BY <1>2, <2>2, <3>1
  <2> QED BY <2>1, <2>2
<1> HIDE DEF rest
<1>5. /\ List \in Seq(Fixed) /\ Len(List) = Len(rest) + 1
      /\ \A j \in 1..Len(rest) + 1 : List[j] = IF j = 1 THEN language ELSE rest[j - 1]
  BY <1>3, <1>4, Prepended
<1>6. Len(rest) \in Nat /\ \A j \in 1..Len(rest) : rest[j] # language
  BY <1>4 DEF Contains
<1>7. List[1] = language /\ \A j \in 2..Len(List) : List[j] = rest[j - 1] /\ j - 1 \in 1..Len(rest)
  BY <1>5, <1>6
<1>8. Distinct(List)
  <2>1. ASSUME NEW i \in 1..Len(List), NEW j \in 1..Len(List), List[i] = List[j], i < j
        PROVE  FALSE
    <3>1. j \in 2..Len(List) /\ (i = 1 \/ i \in 2..Len(List))
      BY <1>5, <1>6, <2>1
    <3>2. CASE i = 1
      BY <1>6, <1>7, <2>1, <3>1, <3>2
    <3>3. CASE i \in 2..Len(List)
      <4>1. i - 1 # j - 1
        BY <2>1
      <4> QED BY <1>4, <1>7, <2>1, <3>1, <3>3, <4>1 DEF Distinct
    <3> QED BY <3>1, <3>2, <3>3
  <2> QED BY <1>5, <1>6, <2>1 DEF Distinct
<1> QED BY <1>5, <1>6, <1>7, <1>8

\* Such a list, once it is stored and its first language set, is read as it is.
LEMMA ListStored ==
    ASSUME TypeInv, NEW L \in Seq(Fixed), L # << >>, Distinct(L), language = L[1],
           UNCHANGED <<language, matched>>, preferred' = L
    PROVE  List' = L
<1>1. Fixed \subseteq Tags /\ language \in Fixed
  BY CandidatesFixed
<1>2. List' = WithFirst(FilterLanguages(L), language)
  <2>1. matched[language] = language /\ language # NoLocale
    BY <1>1, FixedMatched
  <2>2. List' = IF matched[language] = NoLocale THEN FilterLanguages(L)
                ELSE WithFirst(FilterLanguages(L), matched[language])
    BY DEF List, GetPreferredLanguageList, FilterLanguages, Listed, WithFirst
  <2> QED BY <2>1, <2>2
<1>3. FilterLanguages(L) = L
  BY FixedMatched, FilterFixed
<1> QED BY <1>1, <1>2, <1>3, FirstAgain

\* What an addition asks for, if the language is not in the list.
LEMMA TargetNew ==
    ASSUME TypeInv, List \in Seq(Fixed), NEW f, f.op = "Add", f.language \in Fixed,
           f.before = List, f.index \in Int, ~Contains(List, f.language)
    PROVE  Target(f) = Insert(List, NormalizeIndex(f.index, Len(List)), f.language)
<1>1. matched[f.language] = f.language
  BY FixedMatched
<1>2. Only(List, Tags \ {f.language}) = List
  <2>1. Fixed \subseteq Tags
    BY CandidatesFixed
  <2> QED BY <2>1, OnlyOthers
<1> QED BY <1>1, <1>2 DEF Target, Insert, NormalizeIndex

\* And if it is.
LEMMA TargetOld ==
    ASSUME TypeInv, List \in Seq(Fixed), Distinct(List), NEW f, f.op = "Add",
           f.language \in Fixed, f.before = List, f.index \in Int,
           NEW i \in 0..Len(List) - 1, List[i + 1] = f.language
    PROVE  Target(f) =
               Insert(Erase(List, i), NormalizeIndex(f.index, Len(List) - 1), f.language)
<1>1. matched[f.language] = f.language
  BY FixedMatched
<1>2. i + 1 \in 1..Len(List) /\ (i + 1) - 1 = i /\ Fixed \subseteq Tags
  BY CandidatesFixed
<1>3. Only(List, Tags \ {f.language}) = Erase(List, i)
  BY <1>2, OnlyWithout
<1>4. Len(Erase(List, i)) = Len(List) - 1
  BY EraseTyped
<1> QED BY <1>1, <1>3, <1>4 DEF Target, Insert, NormalizeIndex

LEMMA TargetRemoved ==
    ASSUME NEW f, f.op = "Remove", f.before = List
    PROVE  Target(f) = Erase(List, NormalizeIndex(f.index, Len(List) - 1))
BY DEF Target, Erase, NormalizeIndex

\* The step of the only thread that writes nothing.
LEMMA HeldEdits ==
    ASSUME TypeInv, EditInv, OneByOne, NEW t \in Threads, NEW label, NEW f,
           Goto(t, label), Keep(t, f), Unwritten, Edit(label, f)
    PROVE  EditInv'
<1>1. \A u \in Threads : u = t
  BY DEF OneByOne
<1>2. pc'[t] = label /\ frame'[t] = f
  BY DEF TypeInv, TypeOK, Goto, Keep
<1>3. List' = List
  BY ListKept DEF Unwritten
<1>4. Target(f)' = Target(f)
  BY DEF Unwritten, Target
<1>5. Edit(pc[t], frame[t])'
  BY <1>2, <1>3, <1>4 DEF Unwritten, Edit
<1>6. (preferred \in Seq(Known) /\ language \in Fixed)'
  BY DEF Unwritten, EditInv
<1> QED BY <1>1, <1>5, <1>6 DEF EditInv

LEMMA ReturnEdits ==
    ASSUME TypeInv, EditInv, OneByOne, NEW t \in Threads, Return(t), Unwritten
    PROVE  EditInv'
BY HeldEdits DEF Return, Edit, Editing, Adding

\* A list that is the target is ready to be written.
LEMMA ReadyEdits ==
    ASSUME TypeInv, EditInv, OneByOne, NEW t \in Threads, NEW label \in {"language", "store"},
           NEW f, Goto(t, label), Keep(t, f), Unwritten,
           f.list \in Seq(Fixed), Len(f.list) \in Nat \ {0}, Distinct(f.list),
           f.list = Target(f), label = "store" => f.list[1] = language
    PROVE  EditInv'
<1>1. f.list # << >> /\ Head(f.list) = f.list[1]
  OBVIOUS
<1>2. Edit(label, f)
  BY <1>1 DEF Edit, Editing, Adding
<1> QED BY <1>2, HeldEdits

LEMMA StepEdits ==
    ASSUME TypeInv, RangeInv, EditInv, OneByOne, Supporting, NEW t \in Threads, Step(t)
    PROVE  EditInv'
<1> DEFINE f == frame[t]
<1>1. f \in Frame /\ f.index \in Int
  BY DEF TypeInv, TypeOK, Frame
<1>2. /\ List \in Seq(Fixed) /\ Len(List) \in Nat \ {0} /\ Len(List) \in Int
      /\ List[1] = language /\ Distinct(List)
      /\ Len(List) >= 0 /\ Len(List) - 1 \in Int /\ Len(List) - 1 >= 0
  <2>1. /\ List \in Seq(Fixed) /\ Len(List) \in Nat \ {0}
        /\ List[1] = language /\ Distinct(List)
    BY ListFixed DEF EditInv
  <2> QED BY <2>1
<1>3. AtLabel(pc[t], f) /\ Edit(pc[t], f) /\ Fixed \subseteq Tags
  BY CandidatesFixed DEF RangeInv, EditInv
<1>4. CASE AddFind(t)
  <2> DEFINE label == IF FindLanguage(f.language) = -1 THEN "new_index" ELSE "old_index"
  <2>1. pc[t] = "find" /\ Goto(t, label) /\ Keep(t, f) /\ Unwritten
    BY <1>4 DEF AddFind, Keep, TypeInv, TypeOK
  <2>2. Edit(label, f)
    BY <1>3, <2>1 DEF Edit, Editing, Adding
  <2> HIDE DEF label, f
  <2> QED BY <2>1, <2>2, HeldEdits
<1>5. CASE NewIndex(t)
  <2> DEFINE g == [f EXCEPT !.validIndex = NormalizeIndex(f.index, Len(List))]
  <2>1. pc[t] = "new_index" /\ Goto(t, "new_list") /\ Keep(t, g) /\ Unwritten
    BY <1>5 DEF NewIndex, List
  <2>2. g.before = f.before
    BY <1>1 DEF Frame
  <2> HIDE DEF g
  <2>3. Edit("new_list", g)
    BY <1>3, <2>1, <2>2 DEF Edit, Editing, Adding
  <2> QED BY <2>1, <2>3, HeldEdits
<1>6. CASE NewList(t)
  <2> DEFINE list == Insert(List, f.validIndex, f.language)
             g == [f EXCEPT !.list = list]
  <2>1. /\ f.language \in Fixed /\ f.op = "Add" /\ f.before = List
        /\ ~Contains(List, f.language)
        /\ f.validIndex = NormalizeIndex(f.index, Len(List)) /\ f.languageIdx = -1
    BY <1>3, <1>6 DEF NewList, AtLabel, Edit, Editing, Adding, Supporting
  <2>2. f.validIndex \in 0..Len(List)
    <3>1. NormalizeIndex(f.index, Len(List)) \in 0..Len(List)
      BY <1>1, <1>2, NormalizeTyped
    <3> QED BY <2>1, <3>1
  <2>3. Goto(t, Edited(f)) /\ Keep(t, g) /\ Unwritten
    BY <1>6, <2>2 DEF NewList, List, Insertable
  <2>4. /\ list \in Seq(Fixed) /\ Len(list) = Len(List) + 1
        /\ f.validIndex # 0 => list[1] = List[1]
    <3>1. /\ \A i \in 0..Len(List), x \in Fixed : Insert(List, i, x) \in Seq(Fixed)
          /\ \A i \in 0..Len(List), x \in Fixed : Len(Insert(List, i, x)) = Len(List) + 1
          /\ \A i \in 1..Len(List), x \in Fixed : Insert(List, i, x)[1] = List[1]
      <4>1. List \in Seq(Fixed)
        BY <1>2
      <4> HIDE DEF f
      <4>2. \A i \in 0..Len(List), x \in Fixed : Insert(List, i, x) \in Seq(Fixed)
        BY <4>1, InsertMembers
      <4>3. \A i \in 0..Len(List), x \in Fixed :
               Len(Insert(List, i, x)) = Len(List) + 1
        BY <4>1, InsertLength
      <4>4. \A i \in 1..Len(List), x \in Fixed : Insert(List, i, x)[1] = List[1]
        BY <4>1, InsertFirst
      <4> QED BY <4>2, <4>3, <4>4
    <3>2. f.validIndex # 0 => f.validIndex \in 1..Len(List)
      BY <1>2, <2>2
    <3> HIDE DEF f
    <3> QED BY <2>1, <2>2, <3>1, <3>2
  <2>5. Distinct(list)
    <3>1. \A i \in 0..Len(List), x \in Fixed :
             ~Contains(List, x) => Distinct(Insert(List, i, x))
      BY <1>2, InsertDistinct
    <3> HIDE DEF f
    <3> QED BY <2>1, <2>2, <3>1
  <2>6. /\ g.list = list /\ g.op = "Add" /\ g.before = List
        /\ g.language = f.language /\ g.index = f.index
    BY <1>1, <2>1 DEF Frame
  <2>7. list = Target(g)
    <3> HIDE DEF g
    <3>1. Target(g) = Insert(List, NormalizeIndex(g.index, Len(List)), g.language)
      BY <1>1, <1>2, <2>1, <2>6, TargetNew
    <3> QED BY <2>1, <2>6, <3>1
  <2>8. /\ Edited(f) \in {"language", "store"}
        /\ Edited(f) = "store" => f.validIndex # 0
    BY DEF Edited
  <2>9. Len(list) \in Nat \ {0}
    BY <1>2, <2>4
  <2> HIDE DEF list, g, f
  <2> QED BY <1>2, <2>3, <2>4, <2>5, <2>6, <2>7, <2>8, <2>9, ReadyEdits
<1>7. CASE OldIndex(t)
  <2> DEFINE g == [f EXCEPT !.validIndex = NormalizeIndex(f.index, Len(List) - 1)]
  <2>1. pc[t] = "old_index" /\ Goto(t, "old_find") /\ Keep(t, g) /\ Unwritten
    BY <1>7 DEF OldIndex, List
  <2>2. g.before = f.before
    BY <1>1 DEF Frame
  <2> HIDE DEF g
  <2>3. Edit("old_find", g)
    BY <1>3, <2>1, <2>2 DEF Edit, Editing, Adding
  <2> QED BY <2>1, <2>3, HeldEdits
<1>8. CASE OldFind(t)
  <2> DEFINE g == [f EXCEPT !.languageIdx = FindLanguage(f.language)]
  <2>1. CASE FindLanguage(f.language) = f.validIndex
    BY <1>8, <2>1, ReturnEdits DEF OldFind
  <2>2. CASE FindLanguage(f.language) # f.validIndex
    <3>1. pc[t] = "old_find" /\ Goto(t, "old_list") /\ Keep(t, g) /\ Unwritten
      BY <1>8, <2>2 DEF OldFind
    <3>2. g.before = f.before
      BY <1>1 DEF Frame
    <3> HIDE DEF g
    <3>3. Edit("old_list", g)
      BY <1>3, <3>1, <3>2 DEF Edit, Editing, Adding
    <3> QED BY <3>1, <3>3, HeldEdits
  <2> QED BY <2>1, <2>2
<1>9. CASE OldList(t)
  <2> DEFINE i == f.languageIdx
             erased == Erase(List, i)
             list == Insert(erased, f.validIndex, f.language)
             g == [f EXCEPT !.list = list]
  <2>1. /\ f.language \in Fixed /\ f.op = "Add" /\ f.before = List
        /\ Contains(List, f.language)
        /\ f.validIndex = NormalizeIndex(f.index, Len(List) - 1)
        /\ i = FindLanguage(f.language)
    BY <1>3, <1>9 DEF OldList, AtLabel, Edit, Editing, Adding, Supporting
  <2>2. f.validIndex \in 0..Len(List) - 1
    <3>1. NormalizeIndex(f.index, Len(List) - 1) \in 0..Len(List) - 1
      BY <1>1, <1>2, NormalizeTyped
    <3> QED BY <2>1, <3>1
  <2>3. i \in 0..Len(List) - 1 /\ List[i + 1] = f.language
    BY <1>2, <2>1, FindTyped
  <2> HIDE DEF i
  <2>4. /\ erased \in Seq(Fixed) /\ Len(erased) = Len(List) - 1
        /\ \A j \in 1..Len(List) - 1 : erased[j] = IF j <= i THEN List[j] ELSE List[j + 1]
    BY <1>2, <2>3, EraseTyped
  <2>5. Distinct(erased) /\ ~Contains(erased, f.language)
    <3>1. Distinct(erased) /\ ~Contains(erased, List[i + 1])
      BY <1>2, <2>3, EraseDistinct
    <3> QED BY <2>3, <3>1
  <2>6. Goto(t, Edited(f)) /\ Keep(t, g) /\ Unwritten
    BY <1>9, <2>2, <2>3, <2>4 DEF OldList, List, Erasable, Insertable, i
  <2>7. /\ g.list = list /\ g.op = "Add" /\ g.before = List
        /\ g.language = f.language /\ g.index = f.index
    BY <1>1, <2>1 DEF Frame
  <2>8. list = Target(g)
    <3> HIDE DEF g
    <3>1. Target(g) = Insert(erased, NormalizeIndex(g.index, Len(List) - 1), g.language)
      BY <1>1, <1>2, <2>1, <2>3, <2>7, TargetOld
    <3> QED BY <2>1, <2>7, <3>1
  <2> HIDE DEF erased
  <2>9. /\ list \in Seq(Fixed) /\ Len(list) = Len(List) /\ Distinct(list)
        /\ f.validIndex # 0 => list[1] = erased[1] /\ 1 \in 1..Len(List) - 1
    <3>1. /\ \A k \in 0..Len(erased), x \in Fixed : Insert(erased, k, x) \in Seq(Fixed)
          /\ \A k \in 0..Len(erased), x \in Fixed :
                 Len(Insert(erased, k, x)) = Len(erased) + 1
          /\ \A k \in 1..Len(erased), x \in Fixed : Insert(erased, k, x)[1] = erased[1]
      <4>1. erased \in Seq(Fixed)
        BY <2>4
      <4> HIDE DEF f
      <4>2. \A k \in 0..Len(erased), x \in Fixed : Insert(erased, k, x) \in Seq(Fixed)
        BY <4>1, InsertMembers
      <4>3. \A k \in 0..Len(erased), x \in Fixed :
               Len(Insert(erased, k, x)) = Len(erased) + 1
        BY <4>1, InsertLength
      <4>4. \A k \in 1..Len(erased), x \in Fixed : Insert(erased, k, x)[1] = erased[1]
        BY <4>1, InsertFirst
      <4> QED BY <4>2, <4>3, <4>4
    <3>2. \A k \in 0..Len(erased), x \in Fixed :
             ~Contains(erased, x) => Distinct(Insert(erased, k, x))
      BY <2>4, <2>5, InsertDistinct
    <3>3. /\ f.validIndex \in 0..Len(erased) /\ Len(erased) + 1 = Len(List)
          /\ 1 \in 1..Len(erased) + 1
          /\ f.validIndex # 0 => f.validIndex \in 1..Len(erased) /\ 1 \in 1..Len(List) - 1
      BY <1>2, <2>2, <2>4
    <3> HIDE DEF f
    <3> QED BY <2>1, <2>5, <3>1, <3>2, <3>3
  <2>10. /\ Edited(f) \in {"language", "store"}
         /\ Edited(f) = "store" => f.validIndex # 0 /\ i # 0
    BY DEF Edited, i
  <2>11. Edited(f) = "store" => list[1] = language
    <3>1. i # 0 => 1 <= i
      BY <2>3
    <3> HIDE DEF list, f
    <3> QED BY <1>2, <2>4, <2>9, <2>10, <3>1
  <2>12. Len(list) \in Nat \ {0}
    BY <1>2, <2>9
  <2> HIDE DEF list, g, f
  <2> QED BY <2>6, <2>7, <2>8, <2>9, <2>10, <2>11, <2>12, ReadyEdits
<1>10. CASE RemoveList(t)
  <2> DEFINE i == NormalizeIndex(f.index, Len(List) - 1)
             list == Erase(List, i)
             g == [f EXCEPT !.validIndex = i, !.list = list]
             label == IF i = 0 THEN "language" ELSE "store"
  <2>1. CASE Len(List) = 1
    BY <1>10, <2>1, ReturnEdits DEF RemoveList, List
  <2>2. CASE Len(List) # 1
    <3>1. i \in 0..Len(List) - 1
      BY <1>1, <1>2, NormalizeTyped
    <3>2. Goto(t, label) /\ Keep(t, g) /\ Unwritten
      BY <1>10, <2>2, <3>1 DEF RemoveList, List, Erasable
    <3>3. f.op = "Remove" /\ f.before = List
      BY <1>3, <1>10 DEF RemoveList, AtLabel, Edit, Editing
    <3>4. g.list = list /\ g.op = "Remove" /\ g.before = List /\ g.index = f.index
      BY <1>1, <3>3 DEF Frame
    <3>5. list = Target(g)
      <4> HIDE DEF g
      <4>1. Target(g) = Erase(List, NormalizeIndex(g.index, Len(List) - 1))
        BY <3>4, TargetRemoved
      <4> QED BY <3>4, <4>1
    <3>6. label \in {"language", "store"} /\ (label = "store" => i # 0)
      OBVIOUS
    <3> HIDE DEF i
    <3>7. /\ list \in Seq(Fixed) /\ Len(list) = Len(List) - 1
          /\ \A j \in 1..Len(List) - 1 : list[j] = IF j <= i THEN List[j] ELSE List[j + 1]
      BY <1>2, <3>1, EraseTyped
    <3>8. Distinct(list)
      BY <1>2, <3>1, EraseDistinct
    <3> HIDE DEF list, label
    <3>9. Len(list) \in Nat \ {0} /\ 1 \in 1..Len(List) - 1 /\ (i # 0 => 1 <= i)
      BY <1>2, <2>2, <3>1, <3>7
    <3>10. label = "store" => list[1] = language
      BY <1>2, <3>6, <3>7, <3>9
    <3> HIDE DEF g, f
    <3> QED BY <3>2, <3>4, <3>5, <3>6, <3>7, <3>8, <3>9, <3>10, ReadyEdits
  <2> QED BY <2>1, <2>2
<1>11. CASE WriteLanguage(t)
  <2>1. pc[t] = "language" /\ UNCHANGED <<preferred, matched>>
    BY <1>11 DEF WriteLanguage
  <2>2. CASE language' = Head(f.list) /\ Goto(t, "store") /\ UNCHANGED <<frame, faults>>
    <3>1. /\ f.list \in Seq(Fixed) /\ f.list # << >> /\ Distinct(f.list)
          /\ f.list = Target(f)
      BY <1>3, <2>1 DEF Edit
    <3>2. language' \in Fixed
      BY <2>2, <3>1
    <3>3. pc'[t] = "store" /\ frame' = frame
      BY <2>2 DEF Goto, TypeInv, TypeOK
    <3>4. Target(f)' = Target(f)
      BY <2>1, <3>3 DEF Target
    <3>5. Edit(pc[t], frame[t])'
      BY <2>2, <3>1, <3>3, <3>4 DEF Edit, Editing, Adding
    <3> QED BY <2>1, <3>2, <3>5 DEF OneByOne, EditInv
  <2>3. CASE Fault("language") /\ Return(t) /\ UNCHANGED language
    <3>1. pc'[t] = "idle"
      BY <2>3 DEF Return, Goto, TypeInv, TypeOK
    <3>2. Edit(pc[t], frame[t])'
      BY <3>1 DEF Edit, Editing, Adding
    <3> QED BY <2>1, <2>3, <3>2 DEF OneByOne, EditInv
  <2> QED BY <1>11, <2>2, <2>3 DEF WriteLanguage
<1>12. CASE WriteList(t)
  <2>1. pc'[t] = "idle" /\ language' = language
    BY <1>12 DEF WriteList, Return, Goto, TypeInv, TypeOK
  <2>2. Edit(pc[t], frame[t])'
    BY <2>1 DEF Edit, Editing, Adding
  <2>3. preferred' \in Seq(Known)
    <3>1. f.list \in Seq(Known)
      BY <1>3, <1>12 DEF WriteList, AtLabel
    <3> QED BY <1>12, <3>1 DEF WriteList, EditInv
  <2> QED BY <2>1, <2>2, <2>3 DEF OneByOne, EditInv
<1> QED BY <1>4, <1>5, <1>6, <1>7, <1>8, <1>9, <1>10, <1>11, <1>12 DEF Step

LEMMA BeginEdits ==
    ASSUME TypeInv, EditInv, OneByOne, NEW t \in Threads, NEW f \in Frame,
           NEW label \in {"find", "remove"}, Begin(t, label, f)
    PROVE  EditInv'
<1> DEFINE g == [f EXCEPT !.before = List]
<1>1. g.before = List
  BY DEF Frame
<1>2. pc'[t] = label /\ frame'[t] = g /\ List' = List
  BY ListKept DEF Begin, List, Goto, Keep, TypeInv, TypeOK
<1> HIDE DEF g
<1>3. Edit(pc[t], frame[t])'
  BY <1>1, <1>2 DEF Edit, Editing, Adding
<1>4. (preferred \in Seq(Known) /\ language \in Fixed)'
  BY DEF Begin, EditInv
<1> QED BY <1>3, <1>4 DEF OneByOne, EditInv

LEMMA NextEdits ==
    OneByOne /\ Supporting /\ TypeInv /\ RangeInv /\ EditInv /\ [Next]_vars => EditInv'
<1> SUFFICES ASSUME OneByOne, Supporting, TypeInv, RangeInv, EditInv, [Next]_vars
             PROVE  EditInv'
  OBVIOUS
<1>1. ASSUME NEW t \in Threads, NEW x \in Asked, NEW i \in Indices,
             AddPreferredLanguage(t, x, i)
      PROVE  EditInv'
  <2> DEFINE f == [NoFrame EXCEPT !.op = "Add", !.language = x, !.index = i]
  <2>1. x \in Tags /\ i \in Int
    BY TagsAssumption, BoundsAssumption
  <2>2. f \in Frame
    BY <2>1, NoFrameTyped DEF Frame
  <2>3. Begin(t, "find", f)
    BY <1>1 DEF AddPreferredLanguage
  <2> HIDE DEF f
  <2> QED BY <2>2, <2>3, BeginEdits
<1>2. ASSUME NEW t \in Threads, NEW i \in Indices, RemovePreferredLanguage(t, i)
      PROVE  EditInv'
  <2> DEFINE f == [NoFrame EXCEPT !.op = "Remove", !.index = i]
  <2>1. f \in Frame
    BY BoundsAssumption, NoFrameTyped DEF Frame
  <2>2. Begin(t, "remove", f)
    BY <1>2 DEF RemovePreferredLanguage
  <2> HIDE DEF f
  <2> QED BY <2>1, <2>2, BeginEdits
<1>3. ASSUME NEW x \in Asked, SetSystemLanguage(x) PROVE EditInv'
  <2>1. /\ (preferred \in Seq(Known) /\ language \in Fixed)'
        /\ \A t \in Threads : pc'[t] = "idle"
    BY <1>3 DEF SetSystemLanguage, OneByOne, Supporting, EditInv
  <2> QED BY <2>1 DEF EditInv, Edit, Editing, Adding
<1>4. CASE UNCHANGED vars
  <2>1. List' = List
    BY <1>4, ListKept DEF vars
  <2>2. \A t \in Threads : Target(frame[t])' = Target(frame[t])
    BY <1>4 DEF vars, Target
  <2>3. \A t \in Threads : Edit(pc[t], frame[t])'
    BY <1>4, <2>1, <2>2 DEF vars, EditInv, Edit
  <2> QED BY <1>4, <2>3 DEF vars, EditInv
<1> QED BY <1>1, <1>2, <1>3, <1>4, StepEdits DEF Next

LEMMA InitEdits == Supporting /\ Init => EditInv
BY DEF Supporting, Init, EditInv, Edit, Editing, Adding

\* Only the write of the list ends a call with success, and then the list is the
\* one that was asked for.
LEMMA SuccessEdits ==
    OneByOne /\ TypeInv /\ EditInv /\ [Next]_vars =>
        \A t \in Threads : Succeeds(t) => GetPreferredLanguageList' = Target(frame[t])
<1> SUFFICES ASSUME OneByOne, TypeInv, EditInv, [Next]_vars, NEW t \in Threads, Succeeds(t)
             PROVE  List' = Target(frame[t])
  BY DEF List
<1> DEFINE L == frame[t].list
<1>1. pc[t] = "store" /\ pc'[t] = "idle" /\ faults' = faults /\ faults \in Nat
  BY BoundsAssumption DEF Succeeds, TypeInv, TypeOK
<1>2. WriteList(t)
  <2>1. ASSUME NEW u \in Threads, NEW x \in Asked, NEW i \in Indices,
               AddPreferredLanguage(u, x, i)
        PROVE  FALSE
    BY <1>1, <2>1 DEF AddPreferredLanguage, Begin, OneByOne
  <2>2. ASSUME NEW u \in Threads, NEW i \in Indices, RemovePreferredLanguage(u, i)
        PROVE  FALSE
    BY <1>1, <2>2 DEF RemovePreferredLanguage, Begin, OneByOne
  <2>3. ASSUME NEW x \in Asked, SetSystemLanguage(x) PROVE FALSE
    BY <1>1, <2>3 DEF SetSystemLanguage
  <2>4. CASE UNCHANGED vars
    BY <1>1, <2>4 DEF vars
  <2>5. ASSUME NEW u \in Threads, Step(u) PROVE WriteList(t)
    <3>1. u = t
      BY DEF OneByOne
    <3> QED BY <1>1, <2>5, <3>1 DEF Step, AddFind, NewIndex, NewList, OldIndex, OldFind,
                                    OldList, RemoveList, WriteLanguage
  <2> QED BY <2>1, <2>2, <2>3, <2>4, <2>5 DEF Next
<1>3. preferred' = L /\ UNCHANGED <<language, matched>>
  <2>1. Len(L) <= MaxList /\ Len(L) \in Nat /\ MaxList \in Nat
    BY BoundsAssumption DEF Succeeds, TypeInv, TypeOK, Frame
  <2>2. faults' # faults + 1 /\ ~(Len(L) > MaxList)
    BY <1>1, <2>1
  <2> QED BY <1>2, <2>2 DEF WriteList, Fault
<1>4. /\ L \in Seq(Fixed) /\ L # << >> /\ Distinct(L) /\ L = Target(frame[t])
      /\ Head(L) = language
  BY <1>1 DEF EditInv, Edit
<1>5. language = L[1]
  BY <1>4
<1> HIDE DEF L
<1>6. List' = L
  BY <1>3, <1>4, <1>5, ListStored
<1> QED BY <1>4, <1>6

\* One call at a time, with requests that are supported languages, and with a default
\* and a stored list that match some, whatever the languages, the way they match, the
\* indices and the failures: a call of AddPreferredLanguage or
\* RemovePreferredLanguage that returns SUCCESS leaves the list that was asked for,
\* although it reads the list again for each of its parts and writes the system
\* language before the list.
THEOREM EditsTakeEffect ==
    ASSUME OneByOne, Matching, Supporting PROVE Spec => EditTakesEffect
<1>1. Init => TypeInv /\ RangeInv /\ EditInv
  BY InitTyped, InitInRange, InitEdits
<1>2. TypeInv /\ RangeInv /\ EditInv /\ [Next]_vars => (TypeInv /\ RangeInv /\ EditInv)'
  BY NextTyped, NextInRange, NextEdits
<1>3. TypeInv /\ EditInv /\ [Next]_vars =>
          [\A t \in Threads :
              Succeeds(t) => GetPreferredLanguageList' = Target(frame[t])]_vars
  BY SuccessEdits
<1> QED BY <1>1, <1>2, <1>3, PTL DEF Spec, EditTakesEffect

-----------------------------------------------------------------------------
(* The first comparison that tells. *)

LEMMA MinIs ==
    ASSUME NEW S \in SUBSET Int, NEW m \in S, \A n \in S : m <= n
    PROVE  Min(S) = m
<1>1. \E x \in S : \A y \in S : x =< y
  OBVIOUS
<1>2. Min(S) \in S /\ \A y \in S : Min(S) =< y
  BY <1>1 DEF Min
<1>3. Min(S) =< m /\ m =< Min(S)
  BY <1>2
<1>4. Min(S) \in Int /\ m \in Int
  BY <1>2
<1> QED BY <1>3, <1>4

\* The first of the comparisons that is not 0.
LEMMA DecideFirst ==
    ASSUME NEW s \in Seq(Int), NEW k \in 1..Len(s), s[k] # 0, \A i \in 1..k - 1 : s[i] = 0
    PROVE  Decide(s) = s[k]
<1> DEFINE T == {i \in DOMAIN s : s[i] # 0}
<1>1. T \in SUBSET Int /\ k \in T /\ \A n \in T : k <= n
  OBVIOUS
<1>2. Decide(s) = IF T = {} THEN 0 ELSE s[Min(T)]
  BY DEF Decide
<1> HIDE DEF T
<1> QED BY <1>1, <1>2, MinIs

LEMMA DecideNone ==
    ASSUME NEW s \in Seq(Int), \A i \in 1..Len(s) : s[i] = 0
    PROVE  Decide(s) = 0
BY DEF Decide

\* s follows x in t.
Follow(t, x, s) ==
    /\ t \in Seq(Int) /\ s \in Seq(Int) /\ Len(t) = Len(s) + 1
    /\ t[1] = x /\ \A i \in 1..Len(s) : t[i + 1] = s[i]

LEMMA DecideNext ==
    ASSUME NEW x \in Int, NEW s, NEW t, Follow(t, x, s)
    PROVE  Decide(t) = IF x # 0 THEN x ELSE Decide(s)
<1> DEFINE n == Len(s)
<1>1. /\ t \in Seq(Int) /\ s \in Seq(Int) /\ Len(t) = n + 1 /\ n \in Nat
      /\ t[1] = x /\ \A i \in 1..n : t[i + 1] = s[i]
  BY DEF Follow
<1> HIDE DEF n
<1>2. \A i \in 2..n + 1 : i - 1 \in 1..n /\ t[i] = s[i - 1]
  <2>1. \A i \in 2..n + 1 : i - 1 \in 1..n /\ (i - 1) + 1 = i
    BY <1>1
  <2> QED BY <1>1, <2>1
<1>3. CASE x # 0
  <2>1. 1 \in 1..Len(t) /\ \A i \in 1..1 - 1 : t[i] = 0
    BY <1>1
  <2> QED BY <1>1, <1>3, <2>1, DecideFirst
<1>4. CASE x = 0
  <2> DEFINE K == {i \in 1..n : s[i] # 0}
  <2>1. CASE K = {}
    <3>1. \A i \in 1..n : s[i] = 0
      BY <2>1
    <3>2. \A i \in 1..n + 1 : t[i] = 0
      <4>1. \A i \in 1..n + 1 : i = 1 \/ i \in 2..n + 1
        BY <1>1
      <4> QED BY <1>1, <1>2, <1>4, <3>1, <4>1
    <3>3. Decide(s) = 0
      BY <1>1, <3>1, DecideNone DEF n
    <3>4. Decide(t) = 0
      BY <1>1, <3>2, DecideNone
    <3> QED BY <1>4, <3>3, <3>4
  <2>2. CASE K # {}
    <3>1. K \in SUBSET Nat
      BY <1>1
    <3>2. PICK k \in K : \A i \in K : k <= i
      <4> HIDE DEF K
      <4> QED BY <2>2, <3>1, LeastNumber
    <3>3. k \in 1..n /\ s[k] # 0
      BY <3>2
    <3>4. \A i \in 1..k - 1 : s[i] = 0
      <4> SUFFICES ASSUME NEW i \in 1..k - 1, s[i] # 0 PROVE FALSE
        OBVIOUS
      <4>1. i \in 1..n /\ ~(k <= i)
        BY <1>1, <3>3
      <4> QED BY <3>2, <4>1
    <3> HIDE DEF K
    <3>5. Decide(s) = s[k]
      BY <1>1, <3>3, <3>4, DecideFirst DEF n
    <3>6. /\ k + 1 \in 1..Len(t) /\ t[k + 1] = s[k]
          /\ \A i \in 1..(k + 1) - 1 : t[i] = 0
      <4>1. \A i \in 1..(k + 1) - 1 : i = 1 \/ (i \in 2..n + 1 /\ i - 1 \in 1..k - 1)
        BY <1>1, <3>3
      <4>2. \A i \in 1..(k + 1) - 1 : t[i] = 0
        BY <1>1, <1>2, <1>4, <3>4, <4>1
      <4>3. k + 1 \in 1..n + 1
        BY <1>1, <3>3
      <4> QED BY <1>1, <3>3, <4>2, <4>3
    <3>7. Decide(t) = t[k + 1]
      BY <1>1, <3>3, <3>6, DecideFirst
    <3> QED BY <1>4, <3>5, <3>6, <3>7
  <2> QED BY <2>1, <2>2
<1> QED BY <1>3, <1>4

LEMMA DecideOfOne == ASSUME NEW x \in Int PROVE Decide(<<x>>) = x
<1> DEFINE s == <<x>>
<1>1. s \in Seq(Int) /\ Len(s) = 1 /\ s[1] = x
  OBVIOUS
<1> HIDE DEF s
<1>2. CASE x = 0
  <2>1. \A i \in 1..1 : s[i] = 0
    BY <1>1, <1>2
  <2>2. Decide(s) = 0
    BY <1>1, <2>1, DecideNone
  <2> QED BY <1>2, <2>2 DEF s
<1>3. CASE x # 0
  <2>1. 1 \in 1..Len(s) /\ \A i \in 1..1 - 1 : s[i] = 0
    BY <1>1
  <2>2. Decide(s) = s[1]
    BY <1>1, <1>3, <2>1, DecideFirst
  <2> QED BY <1>1, <2>2 DEF s
<1> QED BY <1>2, <1>3

LEMMA DecideOfTwo ==
    ASSUME NEW x \in Int, NEW y \in Int
    PROVE  Decide(<<x, y>>) =
             IF x # 0 THEN x ELSE y
<1> DEFINE t == <<x, y>>
           s == <<y>>
<1>1. /\ t \in Seq(Int) /\ Len(t) = 2 /\ s \in Seq(Int) /\ Len(s) = 1
      /\ t[1] = x /\ t[2] = y
      /\ s[1] = y
  OBVIOUS
<1> HIDE DEF s, t
<1>2. Follow(t, x, s)
  BY <1>1 DEF Follow
<1>3. Decide(t) = IF x # 0 THEN x ELSE Decide(s)
  BY <1>2, DecideNext
<1> QED BY <1>3, DecideOfOne DEF s, t

LEMMA DecideOfThree ==
    ASSUME NEW w \in Int, NEW x \in Int, NEW y \in Int
    PROVE  Decide(<<w, x, y>>) =
             IF w # 0 THEN w ELSE IF x # 0 THEN x ELSE y
<1> DEFINE t == <<w, x, y>>
           s == <<x, y>>
<1>1. /\ t \in Seq(Int) /\ Len(t) = 3 /\ s \in Seq(Int) /\ Len(s) = 2
      /\ t[1] = w /\ t[2] = x /\ t[3] = y
      /\ s[1] = x /\ s[2] = y
  OBVIOUS
<1> HIDE DEF s, t
<1>2. Follow(t, w, s)
  BY <1>1 DEF Follow
<1>3. Decide(t) = IF w # 0 THEN w ELSE Decide(s)
  BY <1>2, DecideNext
<1> QED BY <1>3, DecideOfTwo DEF s, t

LEMMA DecideOfFour ==
    ASSUME NEW v \in Int, NEW w \in Int, NEW x \in Int, NEW y \in Int
    PROVE  Decide(<<v, w, x, y>>) =
             IF v # 0 THEN v ELSE IF w # 0 THEN w ELSE IF x # 0 THEN x ELSE y
<1> DEFINE t == <<v, w, x, y>>
           s == <<w, x, y>>
<1>1. /\ t \in Seq(Int) /\ Len(t) = 4 /\ s \in Seq(Int) /\ Len(s) = 3
      /\ t[1] = v /\ t[2] = w /\ t[3] = x /\ t[4] = y
      /\ s[1] = w /\ s[2] = x /\ s[3] = y
  OBVIOUS
<1> HIDE DEF s, t
<1>2. Follow(t, v, s)
  BY <1>1 DEF Follow
<1>3. Decide(t) = IF v # 0 THEN v ELSE Decide(s)
  BY <1>2, DecideNext
<1> QED BY <1>3, DecideOfThree DEF s, t

LEMMA DecideOfFive ==
    ASSUME NEW u \in Int, NEW v \in Int, NEW w \in Int, NEW x \in Int, NEW y \in Int
    PROVE  Decide(<<u, v, w, x, y>>) =
             IF u # 0 THEN u ELSE IF v # 0 THEN v ELSE IF w # 0 THEN w ELSE IF x # 0 THEN x ELSE y
<1> DEFINE t == <<u, v, w, x, y>>
           s == <<v, w, x, y>>
<1>1. /\ t \in Seq(Int) /\ Len(t) = 5 /\ s \in Seq(Int) /\ Len(s) = 4
      /\ t[1] = u /\ t[2] = v /\ t[3] = w /\ t[4] = x /\ t[5] = y
      /\ s[1] = v /\ s[2] = w /\ s[3] = x /\ s[4] = y
  OBVIOUS
<1> HIDE DEF s, t
<1>2. Follow(t, u, s)
  BY <1>1 DEF Follow
<1>3. Decide(t) = IF u # 0 THEN u ELSE Decide(s)
  BY <1>2, DecideNext
<1> QED BY <1>3, DecideOfFour DEF s, t

-----------------------------------------------------------------------------
(* Comparisons that order a set. *)

\* g compares two of M: the signs of the two ways are opposite, and it is transitive.
Orders(M, g) ==
    /\ g \in [M \X M -> Int]
    /\ \A a, b \in M : g[<<a, b>>] = -g[<<b, a>>]
    /\ \A a, b, c \in M :
          g[<<a, b>>] >= 0 /\ g[<<b, c>>] >= 0 =>
              /\ g[<<a, c>>] >= 0
              /\ g[<<a, b>>] > 0 \/ g[<<b, c>>] > 0 => g[<<a, c>>] > 0

ByKey(M, k) == [p \in M \X M |-> k[p[1]] - k[p[2]]]
AndThen(M, g, h) == [p \in M \X M |-> IF g[p] # 0 THEN g[p] ELSE h[p]]

LEMMA KeyOrders ==
    ASSUME NEW M, NEW k \in [M -> Int]
    PROVE  Orders(M, ByKey(M, k))
<1> DEFINE g == ByKey(M, k)
<1>1. \A a, b \in M : g[<<a, b>>] = k[a] - k[b]
  BY DEF ByKey
<1>2. g \in [M \X M -> Int]
  BY DEF ByKey
<1>3. \A a \in M : k[a] \in Int
  OBVIOUS
<1> HIDE DEF g
<1>4. ASSUME NEW a \in M, NEW b \in M PROVE g[<<a, b>>] = -g[<<b, a>>]
  <2>1. k[a] \in Int /\ k[b] \in Int
    BY <1>3
  <2>2. g[<<a, b>>] = k[a] - k[b] /\ g[<<b, a>>] = k[b] - k[a]
    BY <1>1
  <2> QED BY <2>1, <2>2
<1>5. ASSUME NEW a \in M, NEW b \in M, NEW c \in M,
             g[<<a, b>>] >= 0 /\ g[<<b, c>>] >= 0
      PROVE  /\ g[<<a, c>>] >= 0
             /\ g[<<a, b>>] > 0 \/ g[<<b, c>>] > 0 => g[<<a, c>>] > 0
  <2>1. k[a] \in Int /\ k[b] \in Int /\ k[c] \in Int
    BY <1>3
  <2>2. g[<<a, b>>] = k[a] - k[b] /\ g[<<b, c>>] = k[b] - k[c] /\ g[<<a, c>>] = k[a] - k[c]
    BY <1>1
  <2> QED BY <1>5, <2>1, <2>2
<1>6. Orders(M, g)
  BY <1>2, <1>4, <1>5 DEF Orders
<1> QED BY <1>6 DEF g

LEMMA ThenOrders ==
    ASSUME NEW M, NEW g, NEW h, Orders(M, g), Orders(M, h)
    PROVE  Orders(M, AndThen(M, g, h))
<1> DEFINE f == AndThen(M, g, h)
<1>1. \A a, b \in M : f[<<a, b>>] = IF g[<<a, b>>] # 0 THEN g[<<a, b>>] ELSE h[<<a, b>>]
  BY DEF AndThen
<1>2. f \in [M \X M -> Int]
  BY DEF AndThen, Orders
<1>3. \A a, b \in M : /\ g[<<a, b>>] \in Int /\ g[<<a, b>>] = -g[<<b, a>>]
                      /\ h[<<a, b>>] \in Int /\ h[<<a, b>>] = -h[<<b, a>>]
  BY DEF Orders
<1> HIDE DEF f
<1>4. ASSUME NEW a \in M, NEW b \in M PROVE f[<<a, b>>] = -f[<<b, a>>]
  <2>1. /\ g[<<a, b>>] \in Int /\ g[<<b, a>>] \in Int /\ g[<<a, b>>] = -g[<<b, a>>]
        /\ h[<<a, b>>] \in Int /\ h[<<b, a>>] \in Int /\ h[<<a, b>>] = -h[<<b, a>>]
    BY <1>3
  <2>2. g[<<a, b>>] # 0 <=> g[<<b, a>>] # 0
    BY <2>1
  <2> QED BY <1>1, <2>1, <2>2
<1>5. ASSUME NEW a \in M, NEW b \in M, NEW c \in M,
             f[<<a, b>>] >= 0 /\ f[<<b, c>>] >= 0
      PROVE  /\ f[<<a, c>>] >= 0
             /\ f[<<a, b>>] > 0 \/ f[<<b, c>>] > 0 => f[<<a, c>>] > 0
  <2>1. /\ g[<<a, b>>] \in Int /\ g[<<b, c>>] \in Int /\ g[<<a, c>>] \in Int
        /\ g[<<b, a>>] \in Int /\ g[<<c, b>>] \in Int /\ g[<<c, a>>] \in Int
        /\ h[<<a, b>>] \in Int /\ h[<<b, c>>] \in Int /\ h[<<a, c>>] \in Int
    BY <1>3
  <2>2. /\ g[<<a, b>>] = -g[<<b, a>>] /\ g[<<b, c>>] = -g[<<c, b>>]
        /\ g[<<a, c>>] = -g[<<c, a>>]
    BY <1>3
  <2>3. /\ f[<<a, b>>] = IF g[<<a, b>>] # 0 THEN g[<<a, b>>] ELSE h[<<a, b>>]
        /\ f[<<b, c>>] = IF g[<<b, c>>] # 0 THEN g[<<b, c>>] ELSE h[<<b, c>>]
        /\ f[<<a, c>>] = IF g[<<a, c>>] # 0 THEN g[<<a, c>>] ELSE h[<<a, c>>]
    BY <1>1
  <2>4. g[<<a, b>>] >= 0 /\ g[<<b, c>>] >= 0
    BY <1>5, <2>1, <2>3
  <2>5. /\ g[<<a, c>>] >= 0
        /\ g[<<a, b>>] > 0 \/ g[<<b, c>>] > 0 => g[<<a, c>>] > 0
    BY <2>4 DEF Orders
  <2>6. CASE g[<<a, b>>] > 0 \/ g[<<b, c>>] > 0
    <3>1. g[<<a, c>>] > 0
      BY <2>5, <2>6
    <3> QED BY <2>1, <2>3, <3>1
  <2>7. CASE g[<<a, b>>] = 0 /\ g[<<b, c>>] = 0
    <3>1. g[<<c, b>>] >= 0 /\ g[<<b, a>>] >= 0
      BY <2>1, <2>2, <2>7
    <3>2. g[<<c, a>>] >= 0
      BY <3>1 DEF Orders
    <3>3. g[<<a, c>>] = 0
      BY <2>1, <2>2, <2>5, <3>2
    <3>4. /\ h[<<a, b>>] >= 0 /\ h[<<b, c>>] >= 0
          /\ f[<<a, b>>] = h[<<a, b>>] /\ f[<<b, c>>] = h[<<b, c>>]
          /\ f[<<a, c>>] = h[<<a, c>>]
      BY <1>5, <2>3, <2>7, <3>3
    <3>5. /\ h[<<a, c>>] >= 0
          /\ h[<<a, b>>] > 0 \/ h[<<b, c>>] > 0 => h[<<a, c>>] > 0
      BY <3>4 DEF Orders
    <3> QED BY <3>4, <3>5
  <2> QED BY <2>1, <2>4, <2>6, <2>7
<1>6. Orders(M, f)
  BY <1>2, <1>4, <1>5 DEF Orders
<1> QED BY <1>6 DEF f

-----------------------------------------------------------------------------
(* Regions and paths. *)

LEMMA MinTyped ==
    ASSUME NEW S \in SUBSET Nat, S # {}
    PROVE  Min(S) \in S /\ \A n \in S : Min(S) <= n
<1>1. \E x \in S : \A y \in S : x =< y
  BY LeastNumber
<1> QED BY <1>1 DEF Min

LEMMA RegionsNumbered == \A i \in DOMAIN RegionOrder : i \in Nat /\ i # 0
<1>1. DOMAIN RegionOrder = 1..Len(RegionOrder) /\ Len(RegionOrder) \in Nat
  BY CandidatesAssumption, LenProperties
<1>2. \A n \in Nat : \A i \in 1..n : i \in Nat /\ i # 0
  OBVIOUS
<1> QED BY <1>1, <1>2

LEMMA CodeIs ==
    ASSUME NEW x, x = "" \/ \E i \in DOMAIN RegionOrder : RegionOrder[i] = x
    PROVE  /\ Code(x) \in Nat
           /\ x = "" => Code(x) = 0
           /\ x # "" => Code(x) # 0 /\ RegionOrder[Code(x)] = x
<1>1. \A i \in DOMAIN RegionOrder : i \in Nat /\ i # 0
  BY RegionsNumbered
<1>2. CASE x = ""
  BY <1>2 DEF Code
<1>3. CASE x # ""
  <2>1. Code(x) = CHOOSE i \in DOMAIN RegionOrder : RegionOrder[i] = x
    BY <1>3 DEF Code
  <2>2. Code(x) \in DOMAIN RegionOrder /\ RegionOrder[Code(x)] = x
    BY <1>3, <2>1
  <2> QED BY <1>1, <1>3, <2>2
<1> QED BY <1>2, <1>3

\* The array of a path, place by place.
Path(f, x, request) ==
    /\ f \in [1..TRACKPATH_ARRAY_SIZE -> {f[i] : i \in 1..TRACKPATH_ARRAY_SIZE}]
    /\ f[1] = x
    /\ \A i \in 2..TRACKPATH_ARRAY_SIZE :
          f[i] = IF f[i - 1] = ROOT_LOCALE THEN ROOT_LOCALE
                 ELSE SearchParentLocale(f[i - 1], request)

LEMMA PathIs ==
    ASSUME NEW x, NEW request
    PROVE  Path(FindTrackPath(x, request), x, request)
<1> DEFINE up(y) == IF y = ROOT_LOCALE THEN ROOT_LOCALE ELSE SearchParentLocale(y, request)
           rec(g) == [i \in 1..TRACKPATH_ARRAY_SIZE |->
                        IF i = 1 THEN x
                        ELSE IF g[i - 1] = ROOT_LOCALE THEN ROOT_LOCALE
                        ELSE SearchParentLocale(g[i - 1], request)]
           path == CHOOSE g : g = rec(g)
           h == [i \in 1..5 |-> IF i = 1 THEN x ELSE IF i = 2 THEN up(x)
                               ELSE IF i = 3 THEN up(up(x)) ELSE IF i = 4 THEN up(up(up(x)))
                               ELSE up(up(up(up(x))))]
<1>1. FindTrackPath(x, request) = path
  BY DEF FindTrackPath
<1>2. h = rec(h)
  <2>1. ASSUME NEW i \in 1..5
        PROVE  h[i] = IF i = 1 THEN x ELSE up(h[i - 1])
    <3> HIDE DEF up
    <3>1. i = 1 \/ i = 2 \/ i = 3 \/ i = 4 \/ i = 5
      OBVIOUS
    <3>2. /\ h[1] = x /\ h[2] = up(x) /\ h[3] = up(up(x)) /\ h[4] = up(up(up(x)))
          /\ h[5] = up(up(up(up(x))))
      OBVIOUS
    <3> HIDE DEF h
    <3> QED BY <3>1, <3>2
  <2>2. h = [i \in 1..5 |-> h[i]]
    <3> HIDE DEF up
    <3> QED OBVIOUS
  <2> HIDE DEF h
  <2> QED BY <2>1, <2>2 DEF TRACKPATH_ARRAY_SIZE
<1>3. path = rec(path)
  <2> HIDE DEF h
  <2> QED BY <1>2
<1> HIDE DEF path, h
<1>4. \A i \in 1..TRACKPATH_ARRAY_SIZE :
         path[i] = IF i = 1 THEN x
                   ELSE IF path[i - 1] = ROOT_LOCALE THEN ROOT_LOCALE
                   ELSE SearchParentLocale(path[i - 1], request)
  BY <1>3
<1>5. path \in [1..TRACKPATH_ARRAY_SIZE -> {path[i] : i \in 1..TRACKPATH_ARRAY_SIZE}]
  BY <1>3
<1> HIDE DEF rec
<1>6. Path(path, x, request)
  BY <1>4, <1>5 DEF Path, TRACKPATH_ARRAY_SIZE
<1> QED BY <1>1, <1>6

LEMMA PathLength ==
    ASSUME NEW x, NEW request
    PROVE  Len(FindTrackPath(x, request)) = TRACKPATH_ARRAY_SIZE
<1> DEFINE f == FindTrackPath(x, request)
           S == {f[i] : i \in 1..TRACKPATH_ARRAY_SIZE}
<1>1. f \in [1..TRACKPATH_ARRAY_SIZE -> S]
  BY PathIs DEF Path
<1> HIDE DEF f, S
<1>2. f \in Seq(S)
  <2>1. TRACKPATH_ARRAY_SIZE \in Nat
    BY DEF TRACKPATH_ARRAY_SIZE
  <2> QED BY <1>1, <2>1, SeqDef
<1>3. DOMAIN f = 1..Len(f) /\ Len(f) \in Nat
  BY <1>2, LenProperties
<1>4. DOMAIN f = 1..5
  BY <1>1 DEF TRACKPATH_ARRAY_SIZE
<1>5. Len(f) = 5
  <2>1. \A n \in Nat : 1..n = 1..5 => n = 5
    OBVIOUS
  <2> QED BY <1>3, <1>4, <2>1
<1> QED BY <1>5 DEF f, TRACKPATH_ARRAY_SIZE

LEMMA SearchTyped ==
    ASSUME NEW x, NEW request, NEW y
    PROVE  SearchTrackPathDistance(FindTrackPath(x, request), y) \in Int
<1> DEFINE path == FindTrackPath(x, request)
           I == {i \in 1..Len(path) : path[i] \in {ROOT_LOCALE, y}}
<1>1. I \in SUBSET Nat
  BY PathLength DEF TRACKPATH_ARRAY_SIZE
<1>2. SearchTrackPathDistance(path, y) =
         LET at == IF I # {} THEN Min(I) ELSE 0
         IN  IF at = 0 THEN TRACKPATH_ARRAY_SIZE ELSE at - 1
  BY DEF SearchTrackPathDistance, SelectInSeq
<1> HIDE DEF path, I
<1>3. I # {} => Min(I) \in Nat
  BY <1>1, MinTyped
<1> QED BY <1>2, <1>3 DEF path, TRACKPATH_ARRAY_SIZE

LEMMA ComputeTyped ==
    ASSUME NEW x, NEW y, NEW request
    PROVE  ComputeTrackPathDistance(FindTrackPath(x, request), FindTrackPath(y, request)) \in Int
<1> DEFINE p == FindTrackPath(x, request)
           q == FindTrackPath(y, request)
           I == {i \in 1..Len(q) : q[i] = ROOT_LOCALE \/ Contains(p, q[i])}
           i == IF I # {} THEN Min(I) ELSE 0
           J == {j \in 1..Len(p) : p[j] = q[i]}
           j == IF J # {} THEN Min(J) ELSE 0
<1>1. I \in SUBSET Nat /\ J \in SUBSET Nat
  <2>1. Len(p) \in Nat /\ Len(q) \in Nat
    BY PathLength DEF TRACKPATH_ARRAY_SIZE
  <2> HIDE DEF p, q, i
  <2> QED BY <2>1
<1>2. ComputeTrackPathDistance(p, q) =
         IF i = 0 \/ q[i] = ROOT_LOCALE THEN 2 * TRACKPATH_ARRAY_SIZE
         ELSE i - 1 + j - 1
  BY DEF ComputeTrackPathDistance, SelectInSeq
<1> HIDE DEF I, J
<1>3. i \in Nat /\ j \in Nat
  BY <1>1, MinTyped
<1> HIDE DEF p, q, i, j
<1> QED BY <1>2, <1>3 DEF p, q, TRACKPATH_ARRAY_SIZE


-----------------------------------------------------------------------------
(* The comparisons of the code. *)

LEMMA ByKeyIs ==
    ASSUME NEW M, NEW k, NEW a \in M, NEW b \in M
    PROVE  ByKey(M, k)[<<a, b>>] = k[a] - k[b]
BY DEF ByKey

LEMMA AndThenIs ==
    ASSUME NEW M, NEW g, NEW h, NEW a \in M, NEW b \in M
    PROVE  AndThen(M, g, h)[<<a, b>>] = IF g[<<a, b>>] # 0 THEN g[<<a, b>>] ELSE h[<<a, b>>]
BY DEF AndThen

LEMMA TwoThen ==
    ASSUME NEW M, NEW a \in M, NEW b \in M,
           NEW g1, NEW g2,
           g1[<<a, b>>] \in Int, g2[<<a, b>>] \in Int
    PROVE  LET g == AndThen(M, g1, g2)
           IN  /\ g[<<a, b>>] = Decide(<<g1[<<a, b>>], g2[<<a, b>>]>>)
               /\ g[<<a, b>>] = 0 <=> g1[<<a, b>>] = 0 /\ g2[<<a, b>>] = 0
<1> DEFINE x1 == g1[<<a, b>>]
           x2 == g2[<<a, b>>]
           h1 == AndThen(M, g1, g2)
<1>1. x1 \in Int /\ x2 \in Int
  OBVIOUS
<1>2. h1[<<a, b>>] = IF x1 # 0 THEN x1 ELSE x2
  BY AndThenIs
<1> HIDE DEF h1
<1> HIDE DEF x1, x2
<1>3. Decide(<<x1, x2>>) =
         IF x1 # 0 THEN x1 ELSE x2
  BY <1>1, DecideOfTwo
<1>4. h1[<<a, b>>] = Decide(<<x1, x2>>)
  BY <1>2, <1>3
<1>5. h1[<<a, b>>] = 0 <=> x1 = 0 /\ x2 = 0
  BY <1>1, <1>2
<1> QED BY <1>4, <1>5 DEF x1, x2, h1

LEMMA ThreeThen ==
    ASSUME NEW M, NEW a \in M, NEW b \in M,
           NEW g1, NEW g2, NEW g3,
           g1[<<a, b>>] \in Int, g2[<<a, b>>] \in Int, g3[<<a, b>>] \in Int
    PROVE  LET g == AndThen(M, g1, AndThen(M, g2, g3))
           IN  /\ g[<<a, b>>] = Decide(<<g1[<<a, b>>], g2[<<a, b>>], g3[<<a, b>>]>>)
               /\ g[<<a, b>>] = 0 <=> g1[<<a, b>>] = 0 /\ g2[<<a, b>>] = 0 /\ g3[<<a, b>>] = 0
<1> DEFINE x1 == g1[<<a, b>>]
           x2 == g2[<<a, b>>]
           x3 == g3[<<a, b>>]
           h2 == AndThen(M, g2, g3)
           h1 == AndThen(M, g1, h2)
<1>1. x1 \in Int /\ x2 \in Int /\ x3 \in Int
  OBVIOUS
<1>2. h2[<<a, b>>] = IF x2 # 0 THEN x2 ELSE x3
  BY AndThenIs
<1> HIDE DEF h2
<1>3. h1[<<a, b>>] = IF x1 # 0 THEN x1 ELSE h2[<<a, b>>]
  BY AndThenIs
<1> HIDE DEF h1
<1> HIDE DEF x1, x2, x3
<1>4. Decide(<<x1, x2, x3>>) =
         IF x1 # 0 THEN x1 ELSE IF x2 # 0 THEN x2 ELSE x3
  BY <1>1, DecideOfThree
<1>5. h1[<<a, b>>] = Decide(<<x1, x2, x3>>)
  BY <1>2, <1>3, <1>4
<1>6. h1[<<a, b>>] = 0 <=> x1 = 0 /\ x2 = 0 /\ x3 = 0
  BY <1>1, <1>2, <1>3
<1> QED BY <1>5, <1>6 DEF x1, x2, x3, h1, h2

LEMMA FourThen ==
    ASSUME NEW M, NEW a \in M, NEW b \in M,
           NEW g1, NEW g2, NEW g3, NEW g4,
           g1[<<a, b>>] \in Int, g2[<<a, b>>] \in Int, g3[<<a, b>>] \in Int, g4[<<a, b>>] \in Int
    PROVE  LET g == AndThen(M, g1, AndThen(M, g2, AndThen(M, g3, g4)))
           IN  /\ g[<<a, b>>] = Decide(<<g1[<<a, b>>], g2[<<a, b>>], g3[<<a, b>>], g4[<<a, b>>]>>)
               /\ g[<<a, b>>] = 0 <=> g1[<<a, b>>] = 0 /\ g2[<<a, b>>] = 0 /\ g3[<<a, b>>] = 0 /\ g4[<<a, b>>] = 0
<1> DEFINE x1 == g1[<<a, b>>]
           x2 == g2[<<a, b>>]
           x3 == g3[<<a, b>>]
           x4 == g4[<<a, b>>]
           h3 == AndThen(M, g3, g4)
           h2 == AndThen(M, g2, h3)
           h1 == AndThen(M, g1, h2)
<1>1. x1 \in Int /\ x2 \in Int /\ x3 \in Int /\ x4 \in Int
  OBVIOUS
<1>2. h3[<<a, b>>] = IF x3 # 0 THEN x3 ELSE x4
  BY AndThenIs
<1> HIDE DEF h3
<1>3. h2[<<a, b>>] = IF x2 # 0 THEN x2 ELSE h3[<<a, b>>]
  BY AndThenIs
<1> HIDE DEF h2
<1>4. h1[<<a, b>>] = IF x1 # 0 THEN x1 ELSE h2[<<a, b>>]
  BY AndThenIs
<1> HIDE DEF h1
<1> HIDE DEF x1, x2, x3, x4
<1>5. Decide(<<x1, x2, x3, x4>>) =
         IF x1 # 0 THEN x1 ELSE IF x2 # 0 THEN x2 ELSE IF x3 # 0 THEN x3 ELSE x4
  BY <1>1, DecideOfFour
<1>6. h1[<<a, b>>] = Decide(<<x1, x2, x3, x4>>)
  BY <1>2, <1>3, <1>4, <1>5
<1>7. h1[<<a, b>>] = 0 <=> x1 = 0 /\ x2 = 0 /\ x3 = 0 /\ x4 = 0
  BY <1>1, <1>2, <1>3, <1>4
<1> QED BY <1>6, <1>7 DEF x1, x2, x3, x4, h1, h2, h3

LEMMA FiveThen ==
    ASSUME NEW M, NEW a \in M, NEW b \in M,
           NEW g1, NEW g2, NEW g3, NEW g4, NEW g5,
           g1[<<a, b>>] \in Int, g2[<<a, b>>] \in Int, g3[<<a, b>>] \in Int, g4[<<a, b>>] \in Int, g5[<<a, b>>] \in Int
    PROVE  LET g == AndThen(M, g1, AndThen(M, g2, AndThen(M, g3, AndThen(M, g4, g5))))
           IN  /\ g[<<a, b>>] = Decide(<<g1[<<a, b>>], g2[<<a, b>>], g3[<<a, b>>], g4[<<a, b>>], g5[<<a, b>>]>>)
               /\ g[<<a, b>>] = 0 <=> g1[<<a, b>>] = 0 /\ g2[<<a, b>>] = 0 /\ g3[<<a, b>>] = 0 /\ g4[<<a, b>>] = 0 /\ g5[<<a, b>>] = 0
<1> DEFINE x1 == g1[<<a, b>>]
           x2 == g2[<<a, b>>]
           x3 == g3[<<a, b>>]
           x4 == g4[<<a, b>>]
           x5 == g5[<<a, b>>]
           h4 == AndThen(M, g4, g5)
           h3 == AndThen(M, g3, h4)
           h2 == AndThen(M, g2, h3)
           h1 == AndThen(M, g1, h2)
<1>1. x1 \in Int /\ x2 \in Int /\ x3 \in Int /\ x4 \in Int /\ x5 \in Int
  OBVIOUS
<1>2. h4[<<a, b>>] = IF x4 # 0 THEN x4 ELSE x5
  BY AndThenIs
<1> HIDE DEF h4
<1>3. h3[<<a, b>>] = IF x3 # 0 THEN x3 ELSE h4[<<a, b>>]
  BY AndThenIs
<1> HIDE DEF h3
<1>4. h2[<<a, b>>] = IF x2 # 0 THEN x2 ELSE h3[<<a, b>>]
  BY AndThenIs
<1> HIDE DEF h2
<1>5. h1[<<a, b>>] = IF x1 # 0 THEN x1 ELSE h2[<<a, b>>]
  BY AndThenIs
<1> HIDE DEF h1
<1> HIDE DEF x1, x2, x3, x4, x5
<1>6. Decide(<<x1, x2, x3, x4, x5>>) =
         IF x1 # 0 THEN x1 ELSE IF x2 # 0 THEN x2 ELSE IF x3 # 0 THEN x3 ELSE IF x4 # 0 THEN x4 ELSE x5
  BY <1>1, DecideOfFive
<1>7. h1[<<a, b>>] = Decide(<<x1, x2, x3, x4, x5>>)
  BY <1>2, <1>3, <1>4, <1>5, <1>6
<1>8. h1[<<a, b>>] = 0 <=> x1 = 0 /\ x2 = 0 /\ x3 = 0 /\ x4 = 0 /\ x5 = 0
  BY <1>1, <1>2, <1>3, <1>4, <1>5
<1> QED BY <1>7, <1>8 DEF x1, x2, x3, x4, x5, h1, h2, h3, h4

LEMMA ThreeOrder ==
    ASSUME NEW M, NEW g1, NEW g2, NEW g3,
           Orders(M, g1), Orders(M, g2), Orders(M, g3)
    PROVE  Orders(M, AndThen(M, g1, AndThen(M, g2, g3)))
<1> DEFINE h2 == AndThen(M, g2, g3)
<1>1. Orders(M, h2)
  BY ThenOrders
<1> HIDE DEF h2
<1>2. Orders(M, AndThen(M, g1, h2))
  BY <1>1, ThenOrders
<1> QED BY <1>2 DEF h2

LEMMA FourOrder ==
    ASSUME NEW M, NEW g1, NEW g2, NEW g3, NEW g4,
           Orders(M, g1), Orders(M, g2), Orders(M, g3), Orders(M, g4)
    PROVE  Orders(M, AndThen(M, g1, AndThen(M, g2, AndThen(M, g3, g4))))
<1> DEFINE h3 == AndThen(M, g3, g4)
           h2 == AndThen(M, g2, h3)
<1>1. Orders(M, h3)
  BY ThenOrders
<1> HIDE DEF h3
<1>2. Orders(M, h2)
  BY <1>1, ThenOrders
<1> HIDE DEF h2
<1>3. Orders(M, AndThen(M, g1, h2))
  BY <1>2, ThenOrders
<1> QED BY <1>3 DEF h2, h3

LEMMA FiveOrder ==
    ASSUME NEW M, NEW g1, NEW g2, NEW g3, NEW g4, NEW g5,
           Orders(M, g1), Orders(M, g2), Orders(M, g3), Orders(M, g4), Orders(M, g5)
    PROVE  Orders(M, AndThen(M, g1, AndThen(M, g2, AndThen(M, g3, AndThen(M, g4, g5)))))
<1> DEFINE h4 == AndThen(M, g4, g5)
           h3 == AndThen(M, g3, h4)
           h2 == AndThen(M, g2, h3)
<1>1. Orders(M, h4)
  BY ThenOrders
<1> HIDE DEF h4
<1>2. Orders(M, h3)
  BY <1>1, ThenOrders
<1> HIDE DEF h3
<1>3. Orders(M, h2)
  BY <1>2, ThenOrders
<1> HIDE DEF h2
<1>4. Orders(M, AndThen(M, g1, h2))
  BY <1>3, ThenOrders
<1> QED BY <1>4 DEF h2, h3, h4

\* The region of a locale is none or one of RegionOrder.
Placed(region) == region = "" \/ \E i \in DOMAIN RegionOrder : RegionOrder[i] = region

LEMMA CodeTyped ==
    ASSUME NEW x, Placed(x)
    PROVE  Code(x) \in Nat
BY CodeIs DEF Placed

LEMMA CodeTells ==
    ASSUME NEW x, NEW y, Placed(x), Placed(y), Code(x) = Code(y)
    PROVE  x = y
<1>1. x = "" => Code(x) = 0
  BY CodeIs DEF Placed
<1>2. y = "" => Code(y) = 0
  BY CodeIs DEF Placed
<1>3. x # "" => Code(x) # 0 /\ RegionOrder[Code(x)] = x
  BY CodeIs DEF Placed
<1>4. y # "" => Code(y) # 0 /\ RegionOrder[Code(y)] = y
  BY CodeIs DEF Placed
<1>5. CASE x = ""
  BY <1>1, <1>4, <1>5
<1>6. CASE x # ""
  <2>1. y # ""
    BY <1>2, <1>3, <1>6
  <2>2. RegionOrder[Code(x)] = x /\ RegionOrder[Code(y)] = y
    BY <1>3, <1>4, <1>6, <2>1
  <2> QED BY <2>2
<1> QED BY <1>5, <1>6

\* What the order of the alphabet counts first.
Written(a) == Points(a.region # "")
Lettered(a) == Points(~Numeric(a.region))

ByAlphabet(a, b, p, q) ==
    IF Written(a) - Written(b) # 0 THEN Written(a) - Written(b)
    ELSE IF Lettered(a) - Lettered(b) # 0 THEN Lettered(a) - Lettered(b)
    ELSE Code(q) - Code(p)

LEMMA AlphabetIs ==
    ASSUME NEW a, NEW b, NEW x, NEW y, Placed(x.region), Placed(y.region),
           (x = y) <=> (x.region = y.region), (x = y) <=> (a.region = b.region)
    PROVE  AlphabeticallyCompare(a, x, b, y) = ByAlphabet(a, b, x.region, y.region)
<1> DEFINE p == x.region
           q == y.region
<1>1. /\ Written(a) \in Int /\ Written(b) \in Int /\ Lettered(a) \in Int /\ Lettered(b) \in Int
  BY DEF Written, Lettered, Points
<1>2. Code(p) \in Int /\ Code(q) \in Int
  BY CodeTyped
<1>3. (x = y <=> p = q) /\ (a.region = b.region <=> p = q)
  OBVIOUS
<1>4. AlphabeticallyCompare(a, x, b, y) =
        IF x = y THEN 0
        ELSE Decide(<<Written(a) - Written(b), Lettered(a) - Lettered(b), Code(q) - Code(p)>>)
  BY DEF AlphabeticallyCompare, Prefer, Closer, Written, Lettered
<1> HIDE DEF p, q
<1> DEFINE r == ByAlphabet(a, b, p, q)
<1>5. p = q => r = 0
  <2> SUFFICES ASSUME p = q PROVE r = 0
    OBVIOUS
  <2>1. Written(a) = Written(b) /\ Lettered(a) = Lettered(b) /\ Code(p) = Code(q)
    BY <1>3 DEF Written, Lettered
  <2> QED BY <1>1, <1>2, <2>1 DEF ByAlphabet
<1>6. Decide(<<Written(a) - Written(b), Lettered(a) - Lettered(b), Code(q) - Code(p)>>) = r
  <2>1. /\ Written(a) - Written(b) \in Int /\ Lettered(a) - Lettered(b) \in Int
        /\ Code(q) - Code(p) \in Int
    BY <1>1, <1>2
  <2> QED BY <2>1, DecideOfThree DEF ByAlphabet
<1> HIDE DEF r
<1>7. AlphabeticallyCompare(a, x, b, y) = r
  BY <1>3, <1>4, <1>5, <1>6
<1> QED BY <1>7 DEF r, p, q

\* The order of the alphabet as a function.
Alphabet(M, place) ==
    AndThen(M, ByKey(M, [a \in M |-> Written(a)]),
    AndThen(M, ByKey(M, [a \in M |-> Lettered(a)]),
               ByKey(M, [a \in M |-> -Code(place[a])])))

LEMMA AlphabetOrders ==
    ASSUME NEW M, NEW place, \A a \in M : Placed(place[a])
    PROVE  Orders(M, Alphabet(M, place))
<1> DEFINE k == [a \in M |-> Written(a)]
           l == [a \in M |-> Lettered(a)]
           m == [a \in M |-> -Code(place[a])]
<1>1. k \in [M -> Int] /\ l \in [M -> Int]
  BY DEF Written, Lettered, Points
<1>2. m \in [M -> Int]
  <2>1. \A a \in M : Code(place[a]) \in Nat
    BY CodeTyped
  <2>2. \A a \in M : -Code(place[a]) \in Int
    BY <2>1
  <2> QED BY <2>2
<1> HIDE DEF k, l, m
<1>3. Orders(M, ByKey(M, k)) /\ Orders(M, ByKey(M, l)) /\ Orders(M, ByKey(M, m))
  BY <1>1, <1>2, KeyOrders
<1>4. Orders(M, AndThen(M, ByKey(M, k), AndThen(M, ByKey(M, l), ByKey(M, m))))
  BY <1>3, ThenOrders
<1> QED BY <1>4 DEF k, l, m, Alphabet

LEMMA AlphabetCompares ==
    ASSUME NEW M, NEW place, NEW a \in M, NEW b \in M, NEW x, NEW y,
           Placed(place[a]), Placed(place[b]), a.region = b.region <=> place[a] = place[b],
           x.region = place[a], y.region = place[b], (x = y) <=> (x.region = y.region)
    PROVE  /\ AlphabeticallyCompare(a, x, b, y) = Alphabet(M, place)[<<a, b>>]
           /\ Alphabet(M, place)[<<a, b>>] \in Int
           /\ Alphabet(M, place)[<<a, b>>] = 0 <=> a.region = b.region
<1> DEFINE k == [c \in M |-> Written(c)]
           l == [c \in M |-> Lettered(c)]
           m == [c \in M |-> -Code(place[c])]
<1>1. k[a] = Written(a) /\ k[b] = Written(b) /\ l[a] = Lettered(a) /\ l[b] = Lettered(b)
  OBVIOUS
<1>2. m[a] = -Code(place[a]) /\ m[b] = -Code(place[b])
  OBVIOUS
<1>3. Written(a) \in Int /\ Written(b) \in Int /\ Lettered(a) \in Int /\ Lettered(b) \in Int
  BY DEF Written, Lettered, Points
<1>4. Code(place[a]) \in Int /\ Code(place[b]) \in Int
  BY CodeTyped
<1> HIDE DEF k, l, m
<1>5. /\ ByKey(M, k)[<<a, b>>] = Written(a) - Written(b)
      /\ ByKey(M, l)[<<a, b>>] = Lettered(a) - Lettered(b)
  BY <1>1, ByKeyIs
<1>6. ByKey(M, m)[<<a, b>>] = Code(place[b]) - Code(place[a])
  <2>1. ByKey(M, m)[<<a, b>>] = m[a] - m[b]
    BY ByKeyIs
  <2> QED BY <2>1, <1>2, <1>4
<1> DEFINE n == AndThen(M, ByKey(M, l), ByKey(M, m))
           g == AndThen(M, ByKey(M, k), n)
<1>7. Alphabet(M, place) = g
  BY DEF Alphabet, k, l, m
<1>8. n[<<a, b>>] = IF Lettered(a) - Lettered(b) # 0 THEN Lettered(a) - Lettered(b)
                    ELSE Code(place[b]) - Code(place[a])
  BY <1>5, <1>6, AndThenIs
<1> HIDE DEF n
<1>9. g[<<a, b>>] = IF Written(a) - Written(b) # 0 THEN Written(a) - Written(b)
                    ELSE IF Lettered(a) - Lettered(b) # 0 THEN Lettered(a) - Lettered(b)
                    ELSE Code(place[b]) - Code(place[a])
  BY <1>5, <1>8, AndThenIs
<1> HIDE DEF g
<1>10. AlphabeticallyCompare(a, x, b, y) = g[<<a, b>>]
  <2>1. g[<<a, b>>] = ByAlphabet(a, b, place[a], place[b])
    BY <1>9 DEF ByAlphabet
  <2>2. AlphabeticallyCompare(a, x, b, y) = ByAlphabet(a, b, x.region, y.region)
    BY AlphabetIs
  <2> QED BY <2>1, <2>2
<1>11. g[<<a, b>>] \in Int
  BY <1>3, <1>4, <1>9
<1>12. a.region = b.region => g[<<a, b>>] = 0
  <2> SUFFICES ASSUME a.region = b.region PROVE g[<<a, b>>] = 0
    OBVIOUS
  <2>1. Written(a) = Written(b) /\ Lettered(a) = Lettered(b) /\ Code(place[a]) = Code(place[b])
    BY DEF Written, Lettered
  <2> QED BY <1>3, <1>4, <1>9, <2>1
<1>13. g[<<a, b>>] = 0 => a.region = b.region
  <2> SUFFICES ASSUME g[<<a, b>>] = 0 PROVE a.region = b.region
    OBVIOUS
  <2>1. Code(place[a]) = Code(place[b])
    BY <1>3, <1>4, <1>9
  <2>2. place[a] = place[b]
    BY <2>1, CodeTells
  <2> QED BY <2>2
<1> QED BY <1>7, <1>10, <1>11, <1>12, <1>13

\* The candidates M that match a request r.
Among(M, r) ==
    /\ \A c \in M : Placed(c.region)
    /\ \A c \in M : r.lang = "en" => c.lang = "en"
    /\ \A c, d \in M : SpanishOf(r) => ~SamePlace(c, d)

British(M, r) ==
    [a \in M |-> IF IsQaag(r) THEN Points(a.lang = "en" /\ a.region = "GB") ELSE 0]

LEMMA BritishIs ==
    ASSUME NEW M, NEW r, Among(M, r)
    PROVE  /\ British(M, r) \in [M -> Int]
           /\ \A a, b \in M :
                /\ CompareRegionWhenQaag(a, b, r) = British(M, r)[a] - British(M, r)[b]
                /\ a.region = b.region => British(M, r)[a] = British(M, r)[b]
<1>1. British(M, r) \in [M -> Int]
  BY DEF British, Points
<1>2. ASSUME NEW a \in M, NEW b \in M
      PROVE  CompareRegionWhenQaag(a, b, r) = British(M, r)[a] - British(M, r)[b]
  BY DEF British, CompareRegionWhenQaag, Prefer, Points
<1>3. ASSUME NEW a \in M, NEW b \in M, a.region = b.region
      PROVE  British(M, r)[a] = British(M, r)[b]
  BY <1>3 DEF British, IsQaag, Among
<1> QED BY <1>1, <1>2, <1>3

\* g is how the regions of the candidates compare: it tells whenever they differ.
Realises(M, r, g) ==
    /\ Orders(M, g)
    /\ \A a, b \in M :
          /\ CompareRegion(a, b, r) = g[<<a, b>>]
          /\ g[<<a, b>>] = 0 <=> a.region = b.region

Regionless(r) == r.region = ""

LEMMA NullOrders ==
    ASSUME NEW M, NEW r, Among(M, r), Regionless(r)
    PROVE  \E g : Realises(M, r, g)
<1> DEFINE place == [a \in M |-> a.region]
           default == FindDefaultRegion(r.lang, r.script)
           k == [a \in M |-> Points(a.region = "")]
           q == British(M, r)
           l == [a \in M |-> Points(a.region = default)]
           alphabet == Alphabet(M, place)
<1>1. /\ \A a \in M : Placed(place[a])
      /\ \A a, b \in M : a.region = b.region <=> place[a] = place[b]
  BY DEF Among
<1>2. k \in [M -> Int] /\ l \in [M -> Int] /\ q \in [M -> Int]
  BY BritishIs DEF Points
<1>3. ASSUME NEW a \in M, NEW b \in M
      PROVE  /\ CompareRegion(a, b, r) =
                   Decide(<<k[a] - k[b], q[a] - q[b], l[a] - l[b], alphabet[<<a, b>>]>>)
             /\ a.region = b.region => k[a] = k[b] /\ q[a] = q[b] /\ l[a] = l[b]
             /\ alphabet[<<a, b>>] = 0 <=> a.region = b.region
  <2> DEFINE x == Locale(r.lang, "", a.region)
             y == Locale(r.lang, "", b.region)
  <2>1. k[a] = Points(a.region = "") /\ k[b] = Points(b.region = "")
    OBVIOUS
  <2>2. l[a] = Points(a.region = default) /\ l[b] = Points(b.region = default)
    OBVIOUS
  <2>3. /\ CompareRegionWhenQaag(a, b, r) = q[a] - q[b]
        /\ a.region = b.region => q[a] = q[b]
    BY BritishIs
  <2>4. place[a] = a.region /\ place[b] = b.region
    OBVIOUS
  <2> HIDE DEF k, q, l, alphabet, default, place
  <2>5. x.region = a.region /\ y.region = b.region /\ ((x = y) <=> (x.region = y.region))
    BY DEF Locale
  <2>6. CompareRegion(a, b, r) =
           Decide(<<k[a] - k[b], q[a] - q[b], l[a] - l[b], AlphabeticallyCompare(a, x, b, y)>>)
    BY <2>1, <2>2, <2>3
       DEF CompareRegion, Regionless, CompareWhenRegionIsNull, Prefer, default
  <2> HIDE DEF x, y
  <2>7. /\ AlphabeticallyCompare(a, x, b, y) = alphabet[<<a, b>>]
        /\ alphabet[<<a, b>>] = 0 <=> a.region = b.region
    BY <1>1, <2>4, <2>5, AlphabetCompares DEF alphabet
  <2>8. a.region = b.region => k[a] = k[b] /\ l[a] = l[b]
    BY <2>1, <2>2
  <2> QED BY <2>3, <2>6, <2>7, <2>8
<1>4. Orders(M, alphabet)
  BY <1>1, AlphabetOrders
<1> HIDE DEF k, q, l, alphabet, default, place
<1> DEFINE g1 == ByKey(M, k)
           g2 == ByKey(M, q)
           g3 == ByKey(M, l)
           g == AndThen(M, g1, AndThen(M, g2, AndThen(M, g3, alphabet)))
<1>5. Orders(M, g1) /\ Orders(M, g2) /\ Orders(M, g3)
  BY <1>2, KeyOrders
<1>6. ASSUME NEW a \in M, NEW b \in M
      PROVE  /\ g1[<<a, b>>] = k[a] - k[b]
             /\ g2[<<a, b>>] = q[a] - q[b]
             /\ g3[<<a, b>>] = l[a] - l[b]
  <2> HIDE DEF g
  <2> QED BY ByKeyIs
<1> HIDE DEF g1, g2, g3
<1>7. Orders(M, g)
  BY <1>4, <1>5, FourOrder
<1>8. ASSUME NEW a \in M, NEW b \in M
      PROVE  /\ CompareRegion(a, b, r) = g[<<a, b>>]
             /\ g[<<a, b>>] = 0 <=> a.region = b.region
  <2> HIDE DEF g
  <2>1. /\ g1[<<a, b>>] = k[a] - k[b]
        /\ g2[<<a, b>>] = q[a] - q[b]
        /\ g3[<<a, b>>] = l[a] - l[b]
    BY <1>6
  <2>2. /\ g1[<<a, b>>] \in Int /\ g2[<<a, b>>] \in Int /\ g3[<<a, b>>] \in Int
        /\ alphabet[<<a, b>>] \in Int
    BY <1>4, <1>5 DEF Orders
  <2>3. /\ g[<<a, b>>] = Decide(<<g1[<<a, b>>], g2[<<a, b>>], g3[<<a, b>>], alphabet[<<a, b>>]>>)
        /\ g[<<a, b>>] = 0 <=> /\ g1[<<a, b>>] = 0 /\ g2[<<a, b>>] = 0 /\ g3[<<a, b>>] = 0
                               /\ alphabet[<<a, b>>] = 0
    BY <2>2, FourThen DEF g
  <2>4. CompareRegion(a, b, r) = g[<<a, b>>]
    BY <1>3, <2>1, <2>3
  <2>5. a.region = b.region => g1[<<a, b>>] = 0 /\ g2[<<a, b>>] = 0 /\ g3[<<a, b>>] = 0
    <3>1. k[a] \in Int /\ q[a] \in Int /\ l[a] \in Int
      BY <1>2
    <3>2. a.region = b.region => k[a] = k[b] /\ q[a] = q[b] /\ l[a] = l[b]
      BY <1>3
    <3>3. \A m \in Int : m - m = 0
      OBVIOUS
    <3> QED BY <2>1, <3>1, <3>2, <3>3
  <2> QED BY <1>3, <2>3, <2>4, <2>5
<1> HIDE DEF g
<1>9. Realises(M, r, g)
  BY <1>7, <1>8 DEF Realises
<1> QED BY <1>9

\* Where the order of the alphabet puts a locale if the request has a region.
PlaceOf(M, r) ==
    [a \in M |-> IF r.lang = "es" /\ a.region = "US" THEN "419" ELSE a.region]

LEMMA PlaceTells ==
    ASSUME NEW M, NEW r, Among(M, r), ~Regionless(r)
    PROVE  /\ \A a \in M : Placed(PlaceOf(M, r)[a])
           /\ \A a, b \in M : a.region = b.region <=> PlaceOf(M, r)[a] = PlaceOf(M, r)[b]
<1>1. Placed("419")
  BY CandidatesAssumption DEF Placed
<1>2. \A a \in M : Placed(a.region)
  BY DEF Among
<1>3. ASSUME NEW a \in M PROVE Placed(PlaceOf(M, r)[a])
  <2>1. PlaceOf(M, r)[a] = "419" \/ PlaceOf(M, r)[a] = a.region
    BY DEF PlaceOf
  <2> QED BY <1>1, <1>2, <2>1
<1>4. ASSUME NEW a \in M, NEW b \in M
      PROVE  a.region = b.region <=> PlaceOf(M, r)[a] = PlaceOf(M, r)[b]
  <2>1. PlaceOf(M, r)[a] = IF r.lang = "es" /\ a.region = "US" THEN "419" ELSE a.region
    BY DEF PlaceOf
  <2>2. PlaceOf(M, r)[b] = IF r.lang = "es" /\ b.region = "US" THEN "419" ELSE b.region
    BY DEF PlaceOf
  <2>3. r.lang = "es" => {a.region, b.region} # {"US", "419"}
    BY DEF Among, Regionless, SpanishOf, SamePlace
  <2> QED BY <2>1, <2>2, <2>3
<1> QED BY <1>3, <1>4

LEMMA FarOrders ==
    ASSUME NEW M, NEW r, Among(M, r), ~Regionless(r)
    PROVE  \E g : Realises(M, r, g)
<1> DEFINE place == PlaceOf(M, r)
           default == FindDefaultRegion(r.lang, r.script)
           path == FindTrackPath(Locale(r.lang, "", r.region), r)
           plain(a) == Locale(r.lang, "", place[a])
           k == [a \in M |-> -SearchTrackPathDistance(path, plain(a))]
           l == [a \in M |-> -ComputeTrackPathDistance(path, FindTrackPath(plain(a), r))]
           q == British(M, r)
           t == [a \in M |-> Points(IsDefaultLocale(r.lang, r.script, a.region))]
           d == [a \in M |-> Points(a.region = default)]
           alphabet == Alphabet(M, place)
<1>1. /\ \A a \in M : Placed(place[a])
      /\ \A a, b \in M : a.region = b.region <=> place[a] = place[b]
  BY PlaceTells
<1> HIDE DEF place
<1>2. t \in [M -> Int] /\ d \in [M -> Int] /\ q \in [M -> Int]
  BY BritishIs DEF Points
<1>3. k \in [M -> Int] /\ l \in [M -> Int]
  <2>1. \A a \in M : /\ SearchTrackPathDistance(path, plain(a)) \in Int
                     /\ ComputeTrackPathDistance(path, FindTrackPath(plain(a), r)) \in Int
    BY SearchTyped, ComputeTyped
  <2> HIDE DEF path, plain
  <2>2. \A n \in Int : -n \in Int
    OBVIOUS
  <2>3. \A a \in M : /\ -SearchTrackPathDistance(path, plain(a)) \in Int
                     /\ -ComputeTrackPathDistance(path, FindTrackPath(plain(a), r)) \in Int
    BY <2>1, <2>2
  <2> QED BY <2>3
<1>4. ASSUME NEW a \in M, NEW b \in M
      PROVE  /\ CompareRegion(a, b, r) =
                   Decide(<<k[a] - k[b], l[a] - l[b], Decide(<<q[a] - q[b], t[a] - t[b]>>),
                            d[a] - d[b], alphabet[<<a, b>>]>>)
             /\ a.region = b.region => /\ k[a] = k[b] /\ l[a] = l[b] /\ q[a] = q[b]
                                       /\ t[a] = t[b] /\ d[a] = d[b]
             /\ alphabet[<<a, b>>] = 0 <=> a.region = b.region
  <2> DEFINE x == plain(a)
             y == plain(b)
             dx == SearchTrackPathDistance(path, x)
             dy == SearchTrackPathDistance(path, y)
             fx == ComputeTrackPathDistance(path, FindTrackPath(x, r))
             fy == ComputeTrackPathDistance(path, FindTrackPath(y, r))
  <2>1. k[a] = -dx /\ k[b] = -dy /\ l[a] = -fx /\ l[b] = -fy
    OBVIOUS
  <2>2. /\ t[a] = Points(IsDefaultLocale(r.lang, r.script, a.region))
        /\ t[b] = Points(IsDefaultLocale(r.lang, r.script, b.region))
        /\ d[a] = Points(a.region = default) /\ d[b] = Points(b.region = default)
    OBVIOUS
  <2>3. /\ CompareRegionWhenQaag(a, b, r) = q[a] - q[b]
        /\ a.region = b.region => q[a] = q[b]
    BY BritishIs
  <2>4. dx \in Int /\ dy \in Int /\ fx \in Int /\ fy \in Int
    BY SearchTyped, ComputeTyped
  <2>5. x.region = place[a] /\ y.region = place[b] /\ ((x = y) <=> (x.region = y.region))
    BY DEF Locale
  <2>6. place[a] = place[b] => x = y
    OBVIOUS
  <2> HIDE DEF k, l, q, t, d, alphabet
  <2>7. CompareRegion(a, b, r) =
          Decide(<<dy - dx, fy - fx, CompareDefaultRegion(a, b, r),
                   Points(a.region = default) - Points(b.region = default),
                   AlphabeticallyCompare(a, x, b, y)>>)
    BY DEF CompareRegion, Regionless, Closer, Prefer, place, PlaceOf
  <2>8. CompareDefaultRegion(a, b, r) = Decide(<<q[a] - q[b], t[a] - t[b]>>)
    BY <2>2, <2>3 DEF CompareDefaultRegion, Prefer
  <2>9. place[a] = place[b] => dx = dy /\ fx = fy
    BY <2>6
  <2> HIDE DEF path, plain, default, x, y, dx, dy, fx, fy
  <2>10. /\ AlphabeticallyCompare(a, x, b, y) = alphabet[<<a, b>>]
         /\ alphabet[<<a, b>>] = 0 <=> a.region = b.region
    BY <1>1, <2>5, AlphabetCompares DEF alphabet
  <2>11. dy - dx = k[a] - k[b] /\ fy - fx = l[a] - l[b]
    BY <2>1, <2>4
  <2>12. a.region = b.region => k[a] = k[b] /\ l[a] = l[b]
    BY <1>1, <2>1, <2>9
  <2>13. a.region = b.region => t[a] = t[b] /\ d[a] = d[b]
    BY <2>2
  <2>14. CompareRegion(a, b, r) =
           Decide(<<k[a] - k[b], l[a] - l[b], Decide(<<q[a] - q[b], t[a] - t[b]>>),
                    d[a] - d[b], alphabet[<<a, b>>]>>)
    BY <2>2, <2>7, <2>8, <2>10, <2>11
  <2> QED BY <2>3, <2>10, <2>12, <2>13, <2>14
<1>5. Orders(M, alphabet)
  BY <1>1, AlphabetOrders
<1> HIDE DEF k, l, q, t, d, alphabet, default, path, plain
<1> DEFINE g1 == ByKey(M, k)
           g2 == ByKey(M, l)
           h1 == ByKey(M, q)
           h2 == ByKey(M, t)
           g4 == ByKey(M, d)
<1>6. /\ Orders(M, g1) /\ Orders(M, g2) /\ Orders(M, g4) /\ Orders(M, h1) /\ Orders(M, h2)
  BY <1>2, <1>3, KeyOrders
<1>7. ASSUME NEW a \in M, NEW b \in M
      PROVE  /\ g1[<<a, b>>] = k[a] - k[b] /\ g2[<<a, b>>] = l[a] - l[b]
             /\ h1[<<a, b>>] = q[a] - q[b] /\ h2[<<a, b>>] = t[a] - t[b]
             /\ g4[<<a, b>>] = d[a] - d[b]
  BY ByKeyIs
<1> HIDE DEF g1, g2, h1, h2, g4
<1> DEFINE g3 == AndThen(M, h1, h2)
           g == AndThen(M, g1, AndThen(M, g2, AndThen(M, g3, AndThen(M, g4, alphabet))))
<1>8. Orders(M, g3)
  BY <1>6, ThenOrders
<1>9. ASSUME NEW a \in M, NEW b \in M
      PROVE  /\ g3[<<a, b>>] = Decide(<<h1[<<a, b>>], h2[<<a, b>>]>>)
             /\ g3[<<a, b>>] = 0 <=> h1[<<a, b>>] = 0 /\ h2[<<a, b>>] = 0
  <2>1. h1[<<a, b>>] \in Int /\ h2[<<a, b>>] \in Int
    BY <1>6 DEF Orders
  <2> QED BY <2>1, TwoThen
<1> HIDE DEF g3
<1>10. Orders(M, g)
  BY <1>5, <1>6, <1>8, FiveOrder
<1>11. ASSUME NEW a \in M, NEW b \in M
       PROVE  /\ CompareRegion(a, b, r) = g[<<a, b>>]
              /\ g[<<a, b>>] = 0 <=> a.region = b.region
  <2> DEFINE p1 == g1[<<a, b>>]
             p2 == g2[<<a, b>>]
             p3 == g3[<<a, b>>]
             p4 == g4[<<a, b>>]
             p5 == alphabet[<<a, b>>]
  <2> HIDE DEF g
  <2>1. /\ p1 = k[a] - k[b] /\ p2 = l[a] - l[b] /\ p4 = d[a] - d[b]
        /\ p3 = Decide(<<q[a] - q[b], t[a] - t[b]>>)
        /\ p3 = 0 <=> q[a] - q[b] = 0 /\ t[a] - t[b] = 0
    BY <1>7, <1>9
  <2>2. p1 \in Int /\ p2 \in Int /\ p3 \in Int /\ p4 \in Int /\ p5 \in Int
    BY <1>5, <1>6, <1>8 DEF Orders
  <2>3. /\ g[<<a, b>>] = Decide(<<p1, p2, p3, p4, p5>>)
        /\ g[<<a, b>>] = 0 <=> p1 = 0 /\ p2 = 0 /\ p3 = 0 /\ p4 = 0 /\ p5 = 0
    BY <2>2, FiveThen DEF g
  <2>4. CompareRegion(a, b, r) = Decide(<<p1, p2, p3, p4, p5>>)
    BY <1>4, <2>1
  <2>5. a.region = b.region => p1 = 0 /\ p2 = 0 /\ p3 = 0 /\ p4 = 0
    <3>1. k[a] \in Int /\ l[a] \in Int /\ q[a] \in Int /\ t[a] \in Int /\ d[a] \in Int
      BY <1>2, <1>3
    <3>2. a.region = b.region => /\ k[a] = k[b] /\ l[a] = l[b] /\ q[a] = q[b]
                                 /\ t[a] = t[b] /\ d[a] = d[b]
      BY <1>4
    <3>3. \A m \in Int : m - m = 0
      OBVIOUS
    <3> QED BY <2>1, <3>1, <3>2, <3>3
  <2>6. p5 = 0 <=> a.region = b.region
    BY <1>4
  <2> HIDE DEF p1, p2, p3, p4, p5
  <2> QED BY <2>3, <2>4, <2>5, <2>6
<1> HIDE DEF g
<1>12. Realises(M, r, g)
  BY <1>10, <1>11 DEF Realises
<1> QED BY <1>12

LEMMA RegionOrders ==
    ASSUME NEW M, NEW r, Among(M, r)
    PROVE  \E g : Realises(M, r, g)
BY NullOrders, FarOrders

\* g is how the candidates compare, and tells every two of them apart.
Chooses(M, r, g) ==
    /\ Orders(M, g)
    /\ \A a, b \in M : IsMoreSuitable(a, b, r) = g[<<a, b>>]
    /\ \A a, b \in M : a # b => g[<<a, b>>] # 0

\* Two candidates of one region differ in whether their language is the one asked for.
Telling(M, r) ==
    \A c, d \in M : c # d /\ c.region = d.region => (c.lang = r.lang <=> d.lang # r.lang)

LEMMA SuitableOrders ==
    ASSUME NEW M, NEW r, Among(M, r), Telling(M, r)
    PROVE  \E g : Chooses(M, r, g)
<1>1. PICK h : Realises(M, r, h)
  BY RegionOrders
<1> DEFINE k == [a \in M |-> Points(a.region = r.region)]
           l == [a \in M |-> Points(a.lang = r.lang)]
           g1 == ByKey(M, k)
           g3 == ByKey(M, l)
           g == AndThen(M, g1, AndThen(M, h, g3))
<1>2. k \in [M -> Int] /\ l \in [M -> Int]
  BY DEF Points
<1>3. ASSUME NEW a \in M, NEW b \in M
      PROVE  /\ a.region = b.region => /\ k[a] = k[b]
                                       /\ IsMoreSuitable(a, b, r) = l[a] - l[b]
             /\ a.region # b.region =>
                  IsMoreSuitable(a, b, r) = Decide(<<k[a] - k[b], h[<<a, b>>], l[a] - l[b]>>)
             /\ a.lang = r.lang /\ b.lang # r.lang => l[a] = 1 /\ l[b] = 0
             /\ a.lang # r.lang /\ b.lang = r.lang => l[a] = 0 /\ l[b] = 1
  <2>1. k[a] = Points(a.region = r.region) /\ k[b] = Points(b.region = r.region)
    OBVIOUS
  <2>2. l[a] = Points(a.lang = r.lang) /\ l[b] = Points(b.lang = r.lang)
    OBVIOUS
  <2>3. CompareRegion(a, b, r) = h[<<a, b>>]
    BY <1>1 DEF Realises
  <2> HIDE DEF k, l, g
  <2>4. a.region = b.region => k[a] = k[b] /\ IsMoreSuitable(a, b, r) = l[a] - l[b]
    BY <2>1, <2>2 DEF IsMoreSuitable, CompareLanguageIgnoreOldNewCode, Prefer
  <2>5. a.region # b.region =>
          IsMoreSuitable(a, b, r) = Decide(<<k[a] - k[b], h[<<a, b>>], l[a] - l[b]>>)
    BY <2>1, <2>2, <2>3 DEF IsMoreSuitable, CompareLanguageIgnoreOldNewCode, Prefer
  <2>6. /\ a.lang = r.lang /\ b.lang # r.lang => l[a] = 1 /\ l[b] = 0
        /\ a.lang # r.lang /\ b.lang = r.lang => l[a] = 0 /\ l[b] = 1
    BY <2>2 DEF Points
  <2> QED BY <2>4, <2>5, <2>6
<1> HIDE DEF k, l
<1>4. Orders(M, g1) /\ Orders(M, g3)
  BY <1>2, KeyOrders
<1>5. Orders(M, h)
  BY <1>1 DEF Realises
<1>6. ASSUME NEW a \in M, NEW b \in M
      PROVE  g1[<<a, b>>] = k[a] - k[b] /\ g3[<<a, b>>] = l[a] - l[b]
  <2> HIDE DEF g
  <2> QED BY ByKeyIs
<1> HIDE DEF g1, g3
<1>7. Orders(M, g)
  BY <1>4, <1>5, ThreeOrder
<1>8. ASSUME NEW a \in M, NEW b \in M
      PROVE  /\ IsMoreSuitable(a, b, r) = g[<<a, b>>]
             /\ a # b => g[<<a, b>>] # 0
  <2> DEFINE p1 == g1[<<a, b>>]
             p2 == h[<<a, b>>]
             p3 == g3[<<a, b>>]
  <2> HIDE DEF g
  <2>1. p1 = k[a] - k[b] /\ p3 = l[a] - l[b]
    BY <1>6
  <2>2. p1 \in Int /\ p2 \in Int /\ p3 \in Int
    BY <1>4, <1>5 DEF Orders
  <2>3. /\ g[<<a, b>>] = Decide(<<p1, p2, p3>>)
        /\ g[<<a, b>>] = 0 <=> p1 = 0 /\ p2 = 0 /\ p3 = 0
    BY <2>2, ThreeThen DEF g
  <2>4. p2 = 0 <=> a.region = b.region
    BY <1>1 DEF Realises
  <2>5. CASE a.region = b.region
    <3>1. k[a] = k[b] /\ k[a] \in Int /\ IsMoreSuitable(a, b, r) = p3
      BY <1>2, <1>3, <2>1, <2>5
    <3>2. p1 = 0
      BY <2>1, <3>1
    <3>3. a # b => p3 # 0
      <4> SUFFICES ASSUME a # b PROVE p3 # 0
        OBVIOUS
      <4>1. a.lang = r.lang <=> b.lang # r.lang
        BY <2>5 DEF Telling
      <4>2. (l[a] = 1 /\ l[b] = 0) \/ (l[a] = 0 /\ l[b] = 1)
        BY <1>3, <4>1
      <4> QED BY <2>1, <4>2
    <3>4. Decide(<<p1, p2, p3>>) = p3
      <4> HIDE DEF p1, p2, p3
      <4> QED BY <2>2, <2>4, <2>5, <3>2, DecideOfThree
    <3> HIDE DEF p1, p2, p3
    <3> QED BY <2>3, <3>1, <3>3, <3>4
  <2>6. CASE a.region # b.region
    <3>1. IsMoreSuitable(a, b, r) = Decide(<<p1, p2, p3>>)
      BY <1>3, <2>1, <2>6
    <3> HIDE DEF p1, p2, p3
    <3> QED BY <2>3, <2>4, <2>6, <3>1
  <2> QED BY <2>5, <2>6
<1> HIDE DEF g
<1>9. Chooses(M, r, g)
  BY <1>7, <1>8 DEF Chooses
<1> QED BY <1>9

-----------------------------------------------------------------------------
(* The best of the candidates. *)

\* Where the candidates are told apart, the best one is better than all the others.
LEMMA BestBeats ==
    ASSUME NEW M, NEW r, NEW g, Chooses(M, r, g), NEW c \in Seq(M), c # << >>
    PROVE  LET z == GetBestMatchedLocale(r, c)
           IN  z \in M /\ \A i \in 1..Len(c) : c[i] = z \/ g[<<z, c[i]>>] > 0
<1> DEFINE n == Len(c) - 1
<1>1. n \in Nat /\ Len(c) = n + 1 /\ \A i \in 1..n + 1 : c[i] \in M
  OBVIOUS
<1>2. PICK best \in [0..n -> M] : Best(best, c, r)
  BY BestIs
<1> HIDE DEF n
<1>3. \A a, b \in M : /\ g[<<a, b>>] \in Int /\ g[<<a, b>>] = -g[<<b, a>>]
                      /\ a # b => g[<<a, b>>] # 0
                      /\ IsMoreSuitable(a, b, r) = g[<<a, b>>]
  BY DEF Chooses, Orders
<1>4. \A a, b, d \in M : g[<<a, b>>] > 0 /\ g[<<b, d>>] > 0 => g[<<a, d>>] > 0
  <2> SUFFICES ASSUME NEW a \in M, NEW b \in M, NEW d \in M, g[<<a, b>>] > 0, g[<<b, d>>] > 0
               PROVE  g[<<a, d>>] > 0
    OBVIOUS
  <2>1. g[<<a, b>>] \in Int /\ g[<<b, d>>] \in Int
    BY <1>3
  <2>2. \A m \in Int : m > 0 => m >= 0
    OBVIOUS
  <2>3. g[<<a, b>>] >= 0 /\ g[<<b, d>>] >= 0
    BY <2>1, <2>2
  <2> QED BY <2>3 DEF Chooses, Orders
<1> DEFINE Beats(i) == \A j \in 1..i + 1 : c[j] = best[i] \/ g[<<best[i], c[j]>>] > 0
           A == {i \in 0..n : Beats(i)}
<1>5. 0 \in A
  BY <1>1, <1>2 DEF Best
<1>6. ASSUME NEW i \in 1..n, i - 1 \in A PROVE i \in A
  <2> DEFINE b == best[i - 1]
             x == c[i + 1]
  <2>1. i \in 0..n /\ b \in M /\ x \in M /\ \A j \in 1..i + 1 : c[j] \in M
    BY <1>1, <1>2
  <2>2. \A j \in 1..i : c[j] = b \/ g[<<b, c[j]>>] > 0
    <3>1. (i - 1) + 1 = i
      BY <1>1
    <3> QED BY <1>6, <3>1
  <2>3. best[i] = IF g[<<b, x>>] < 0 THEN x ELSE b
    <3>1. i \in 1..Len(c) - 1
      BY DEF n
    <3>2. best[i] = IF IsMoreSuitable(b, x, r) < 0 THEN x ELSE b
      BY <1>2, <3>1 DEF Best
    <3> HIDE DEF b, x
    <3>3. IsMoreSuitable(b, x, r) = g[<<b, x>>]
      BY <1>3, <2>1
    <3> QED BY <3>2, <3>3
  <2> HIDE DEF b, x
  <2>4. CASE g[<<b, x>>] < 0
    <3>1. best[i] = x /\ g[<<x, b>>] > 0
      BY <1>3, <2>1, <2>3, <2>4
    <3>2. ASSUME NEW j \in 1..i + 1 PROVE c[j] = x \/ g[<<x, c[j]>>] > 0
      <4>1. CASE j = i + 1
        BY <4>1 DEF x
      <4>2. CASE j # i + 1
        <5>1. j \in 1..i
          BY <1>1, <4>2
        <5>2. c[j] = b \/ g[<<b, c[j]>>] > 0
          BY <2>2, <5>1
        <5>3. c[j] \in M
          BY <2>1
        <5> QED BY <1>4, <2>1, <3>1, <5>2, <5>3
      <4> QED BY <4>1, <4>2
    <3> QED BY <2>1, <3>1, <3>2
  <2>5. CASE ~(g[<<b, x>>] < 0)
    <3>1. best[i] = b
      BY <2>3, <2>5
    <3>2. x = b \/ g[<<b, x>>] > 0
      <4>1. g[<<b, x>>] \in Int /\ (x # b => g[<<b, x>>] # 0)
        BY <1>3, <2>1
      <4> QED BY <2>5, <4>1
    <3>3. ASSUME NEW j \in 1..i + 1 PROVE c[j] = b \/ g[<<b, c[j]>>] > 0
      <4>1. CASE j = i + 1
        BY <3>2, <4>1 DEF x
      <4>2. CASE j # i + 1
        <5>1. j \in 1..i
          BY <1>1, <4>2
        <5> QED BY <2>2, <5>1
      <4> QED BY <4>1, <4>2
    <3> QED BY <2>1, <3>1, <3>3
  <2> QED BY <2>4, <2>5
<1>7. 0..n \subseteq A
  <2> HIDE DEF A
  <2> QED BY <1>1, <1>5, <1>6, UpToN
<1>8. n \in A
  BY <1>1, <1>7
<1>9. GetBestMatchedLocale(r, c) = best[n]
  BY <1>2 DEF Best, n
<1> QED BY <1>1, <1>2, <1>8, <1>9

LEMMA EnglishAlone ==
    ASSUME NEW x, NEW c, Match(x, c), x.lang = "en"
    PROVE  c.lang = "en"
<1>1. x.lang = c.lang \/ {x.lang, c.lang} \in LANGUAGES_CODES
  BY DEF Match, CompareLanguage
<1>2. \A S \in LANGUAGES_CODES : "en" \notin S
  BY DEF LANGUAGES_CODES
<1> QED BY <1>1, <1>2

LEMMA ChosenBeats ==
    ASSUME Apart, NEW x \in Tags, NEW c \in ToSet(Candidates), Match(x, c)
    PROVE  LET z == GetMatchedLanguage(x)
           IN  /\ z \in Tags
               /\ c # z => IsMoreSuitable(z, c, x) > 0 /\ IsMoreSuitable(c, z, x) < 0
<1> DEFINE M == {y \in ToSet(Candidates) : Match(x, y)}
           s == Only(Candidates, M)
           z == GetBestMatchedLocale(x, s)
<1>1. GetMatchedLanguage(x) = z
  BY DEF GetMatchedLanguage
<1>2. s \in Seq(M) /\ M \subseteq Tags /\ c \in M
  BY TagsAssumption, OnlyTyped DEF ToSet
<1>3. Among(M, x)
  <2>1. ASSUME NEW d \in M PROVE Placed(d.region)
    BY CandidatesAssumption DEF Placed, ToSet
  <2>2. ASSUME NEW d \in M, x.lang = "en" PROVE d.lang = "en"
    BY <2>2, EnglishAlone
  <2>3. ASSUME NEW d \in M, NEW e \in M, SpanishOf(x) PROVE ~SamePlace(d, e)
    <3>1. CASE d = e
      BY <3>1 DEF SamePlace
    <3>2. CASE d # e
      BY <2>3, <3>2 DEF Apart
    <3> QED BY <3>1, <3>2
  <2> HIDE DEF M
  <2> QED BY <2>1, <2>2, <2>3 DEF Among
<1>4. Telling(M, x)
  BY DEF Apart, Telling
<1>5. \E i \in 1..Len(s) : s[i] = c
  <2>1. PICK j \in 1..Len(Candidates) : Candidates[j] = c
    BY TagsAssumption DEF ToSet
  <2> HIDE DEF M
  <2> QED BY <1>2, <2>1, TagsAssumption, OnlyHas
<1> HIDE DEF M, s
<1>6. PICK i \in 1..Len(s) : s[i] = c
  BY <1>5
<1>7. s # << >>
  BY <1>2, <1>6
<1>8. PICK g : Chooses(M, x, g)
  BY <1>3, <1>4, SuitableOrders
<1>9. z \in M /\ (c = z \/ g[<<z, c>>] > 0)
  BY <1>2, <1>6, <1>7, <1>8, BestBeats
<1>10. ASSUME c # z PROVE IsMoreSuitable(z, c, x) > 0 /\ IsMoreSuitable(c, z, x) < 0
  <2> HIDE DEF z
  <2>1. IsMoreSuitable(z, c, x) = g[<<z, c>>] /\ IsMoreSuitable(c, z, x) = g[<<c, z>>]
    BY <1>2, <1>8, <1>9 DEF Chooses
  <2>2. g[<<z, c>>] = -g[<<c, z>>] /\ g[<<c, z>>] \in Int
    BY <1>2, <1>8, <1>9 DEF Chooses, Orders
  <2> QED BY <1>9, <1>10, <2>1, <2>2
<1> HIDE DEF z
<1> QED BY <1>1, <1>2, <1>9, <1>10

-----------------------------------------------------------------------------
(* The way to the root. *)

LEMMA LocaleFields ==
    \A l, c, r : /\ Locale(l, c, r).lang = l /\ Locale(l, c, r).script = c
                 /\ Locale(l, c, r).region = r
BY DEF Locale

WithScript(x, c) == [x EXCEPT !.script = c]
WithRegion(x, r) == [x EXCEPT !.region = r]

LEMMA ScriptReplaced == \A l, c, r, q : WithScript(Locale(l, c, r), q) = Locale(l, q, r)
BY DEF Locale, WithScript

LEMMA RegionReplaced == \A l, c, r, q : WithRegion(Locale(l, c, r), q) = Locale(l, c, q)
BY DEF Locale, WithRegion

\* A locale without a script, as all of a way are.
Base(l, r) == Locale(l, "", r)
Unscripted(x) == WithScript(x, "")
Clear(x) == WithRegion(x, "")
HongKong == Base("zh", "HK")
Macau == Locale("zh", "Hant", "MO")
Scripted(x) == x.script = "Hant"

LEMMA BaseFields ==
    ASSUME NEW l, NEW r
    PROVE  Base(l, r).lang = l /\ Base(l, r).region = r /\ ~Scripted(Base(l, r))
<1>1. \A c : Locale(l, c, r).lang = l
  BY LocaleFields
<1>2. \A c : Locale(l, c, r).region = r
  BY LocaleFields
<1>3. \A c : Locale(l, c, r).script = c
  BY LocaleFields
<1>4. Locale(l, "", r).script = ""
  BY <1>3, Zenon
<1>5. "" # "Hant"
  BY Zenon
<1> QED BY <1>1, <1>2, <1>4, <1>5, Zenon DEF Base, Scripted

LEMMA BaseExcept ==
    ASSUME NEW l, NEW r
    PROVE  /\ WithScript(Base(l, r), "Hant") = Locale(l, "Hant", r)
           /\ \A q : WithRegion(Base(l, r), q) = Base(l, q)
<1>1. \A c : WithScript(Locale(l, c, r), "Hant") = Locale(l, "Hant", r)
  BY ScriptReplaced
<1>2. \A c, q : WithRegion(Locale(l, c, r), q) = Locale(l, c, q)
  BY RegionReplaced
<1> QED BY <1>1, <1>2, Zenon DEF Base

LEMMA ClearIs ==
    ASSUME NEW l, NEW r
    PROVE  \E q : Clear(Base(l, r)) = Base(l, q) /\ Regionless(Base(l, q))
<1>1. WithRegion(Base(l, r), "") = Base(l, "")
  BY BaseExcept, Zenon
<1>2. Base(l, "").region = ""
  BY BaseFields, Zenon
<1> QED BY <1>1, <1>2, Zenon DEF Clear, Regionless

LEMMA RootIs == \E l, q : ROOT_LOCALE = Base(l, q) /\ Regionless(ROOT_LOCALE)
<1>1. ROOT_LOCALE = Base("", "")
  BY Zenon DEF ROOT_LOCALE, Base
<1>2. Base("", "").region = ""
  BY BaseFields, Zenon
<1> QED BY <1>1, <1>2, Zenon DEF Regionless

\* The regions that end the ways of the table.
Top(l, r) ==
    \/ l = "en" /\ r = "001"
    \/ l = "es" /\ r = "419"
    \/ l = "pt" /\ r = "PT"
    \/ l = "ar" /\ r = "015"
    \/ l = "zh" /\ r = "HK"

LEMMA TopsHaveNoParent ==
    /\ "001" \notin EN_001 /\ "001" \notin EN_150 /\ "419" \notin ES_419
    /\ "PT" \notin PT_PT /\ "015" \notin AR_015
BY DEF EN_001, EN_150, ES_419, PT_PT, AR_015

LEMMA Europe == "150" \notin EN_150 /\ "150" \in EN_001
BY DEF EN_001, EN_150

HasParent(l, r) ==
    \/ l = "en" /\ r \in EN_001 \cup EN_150
    \/ l = "es" /\ r \in ES_419
    \/ l = "pt" /\ r \in PT_PT
    \/ l = "ar" /\ r \in AR_015

LEMMA ParentsOf ==
    /\ \A x : x \in DOMAIN LOCALE_PARENTS <=>
                  x = Macau \/ \E l, r : HasParent(l, r) /\ x = Base(l, r)
    /\ \A x \in DOMAIN LOCALE_PARENTS :
          LOCALE_PARENTS[x] = WithRegion(x, ParentRegion(x))
<1> DEFINE Of(lang, regions) == {Base(lang, r) : r \in regions}
           D == Of("en", EN_001 \cup EN_150) \cup Of("es", ES_419) \cup Of("pt", PT_PT)
                \cup Of("ar", AR_015) \cup {Macau}
<1>1. LOCALE_PARENTS = [x \in D |-> WithRegion(x, ParentRegion(x))]
  BY Zenon DEF LOCALE_PARENTS, Base, Macau, WithRegion
<1>2. \A x : x \in D <=> x = Macau \/ \E l, r : HasParent(l, r) /\ x = Base(l, r)
  BY DEF HasParent
<1> HIDE DEF D
<1> QED BY <1>1, <1>2

\* One step on the way, from a locale without a script.
LEMMA SearchIs ==
    ASSUME NEW y, NEW request
    PROVE  LET keyed == IF Scripted(request) THEN WithScript(y, "Hant") ELSE y
           IN  SearchParentLocale(y, request) =
                 IF keyed = Macau THEN HongKong
                 ELSE IF Regionless(y) THEN ROOT_LOCALE
                 ELSE IF keyed \in DOMAIN LOCALE_PARENTS THEN LOCALE_PARENTS[keyed]
                 ELSE Clear(y)
BY Zenon DEF SearchParentLocale, Scripted, Macau, HongKong, Base, Regionless, Clear,
             WithScript, WithRegion

LEMMA BaseUp ==
    ASSUME NEW l, NEW r, NEW request
    PROVE  LET up == SearchParentLocale(Base(l, r), request)
           IN  \/ up = HongKong /\ l = "zh" /\ r = "MO"
               \/ Regionless(Base(l, r)) /\ up = ROOT_LOCALE
               \/ ~Regionless(Base(l, r)) /\ up = Clear(Base(l, r))
               \/ /\ ~Regionless(Base(l, r)) /\ HasParent(l, r)
                  /\ up = Base(l, ParentRegion(Base(l, r)))
<1> DEFINE y == Base(l, r)
           hant == WithScript(y, "Hant")
           keyed == IF Scripted(request) THEN hant ELSE y
           up == SearchParentLocale(y, request)
<1>1. up = IF keyed = Macau THEN HongKong
           ELSE IF Regionless(y) THEN ROOT_LOCALE
           ELSE IF keyed \in DOMAIN LOCALE_PARENTS THEN LOCALE_PARENTS[keyed]
           ELSE Clear(y)
  BY SearchIs
<1>2. y.lang = l /\ y.region = r /\ ~Scripted(y)
  BY BaseFields
<1>3. hant = Locale(l, "Hant", r)
  BY BaseExcept
<1>4. Scripted(hant) /\ Scripted(Macau)
  BY <1>3, LocaleFields DEF Scripted, Macau
<1>5. hant = Macau => l = "zh" /\ r = "MO"
  BY <1>3, LocaleFields DEF Macau
<1> HIDE DEF up, hant
<1>6. CASE Scripted(request)
  <2>1. keyed = hant
    BY <1>6
  <2>2. hant # Macau => hant \notin DOMAIN LOCALE_PARENTS
    BY <1>4, ParentsOf, BaseFields
  <2> HIDE DEF y, keyed
  <2> QED BY <1>1, <1>5, <2>1, <2>2 DEF up, y
<1>7. CASE ~Scripted(request)
  <2>1. keyed = y /\ y # Macau
    BY <1>2, <1>4, <1>7
  <2>2. y \in DOMAIN LOCALE_PARENTS => HasParent(l, r)
    <3> SUFFICES ASSUME y \in DOMAIN LOCALE_PARENTS PROVE HasParent(l, r)
      OBVIOUS
    <3>1. PICK m, q : HasParent(m, q) /\ y = Base(m, q)
      BY <2>1, ParentsOf
    <3>2. m = l /\ q = r
      BY <1>2, <3>1, BaseFields
    <3> QED BY <3>1, <3>2
  <2>3. y \in DOMAIN LOCALE_PARENTS => LOCALE_PARENTS[y] = Base(l, ParentRegion(y))
    <3>1. WithRegion(y, ParentRegion(y)) = Base(l, ParentRegion(y))
      BY BaseExcept
    <3> HIDE DEF y
    <3> QED BY <3>1, ParentsOf
  <2> HIDE DEF y, keyed
  <2> QED BY <1>1, <2>1, <2>2, <2>3 DEF up, y
<1> QED BY <1>6, <1>7

\* How near to the root a locale is: the whole way has at most four steps.
IsBase(y) == \E l, r : y = Base(l, r)
Bare(y) == IsBase(y) /\ Regionless(y)
NearTop(y) == Bare(y) \/ \E l, r : y = Base(l, r) /\ Top(l, r)
NearEurope(y) == NearTop(y) \/ y = Base("en", "150")

LEMMA BareUp ==
    ASSUME NEW y, NEW request, Bare(y)
    PROVE  SearchParentLocale(y, request) = ROOT_LOCALE
<1>1. PICK l, r : y = Base(l, r)
  BY DEF Bare, IsBase
<1>2. Regionless(Base(l, r))
  BY <1>1 DEF Bare
<1>3. r # "MO"
  <2>1. "" # "MO"
    BY Zenon
  <2>2. Base(l, r).region = r
    BY BaseFields
  <2> QED BY <1>2, <2>1, <2>2, Zenon DEF Regionless
<1> QED BY <1>1, <1>2, <1>3, BaseUp

LEMMA ClearBare ==
    ASSUME NEW l, NEW r
    PROVE  Bare(Clear(Base(l, r)))
BY ClearIs DEF Bare, IsBase

LEMMA TopUp ==
    ASSUME NEW l, NEW r, NEW request, Top(l, r), ~Regionless(Base(l, r))
    PROVE  Bare(SearchParentLocale(Base(l, r), request))
<1>1. ~HasParent(l, r)
  BY TopsHaveNoParent DEF Top, HasParent
<1>2. ~(l = "zh" /\ r = "MO")
  BY DEF Top
<1> QED BY <1>1, <1>2, BaseUp, ClearBare

LEMMA EuropeUp ==
    ASSUME NEW request, ~Regionless(Base("en", "150"))
    PROVE  NearTop(SearchParentLocale(Base("en", "150"), request))
<1> DEFINE y == Base("en", "150")
           up == SearchParentLocale(y, request)
<1>1. ParentRegion(y) = "001"
  BY BaseFields, Europe DEF ParentRegion
<1>2. up = Clear(y) \/ up = Base("en", "001")
  BY <1>1, BaseUp
<1>3. Top("en", "001")
  BY DEF Top
<1> QED BY <1>2, <1>3, ClearBare DEF NearTop

LEMMA AnyUp ==
    ASSUME NEW l, NEW r, NEW request, ~Regionless(Base(l, r))
    PROVE  NearEurope(SearchParentLocale(Base(l, r), request))
<1> DEFINE y == Base(l, r)
           up == SearchParentLocale(y, request)
           q == ParentRegion(y)
<1>1. NearEurope(HongKong)
  BY DEF NearEurope, NearTop, HongKong, Top
<1>2. NearEurope(Clear(y))
  BY ClearBare DEF NearEurope, NearTop
<1>3. ASSUME HasParent(l, r) PROVE NearEurope(Base(l, q))
  <2>1. \/ l = "en" /\ q = "001"
        \/ l = "en" /\ q = "150"
        \/ l = "es" /\ q = "419"
        \/ l = "pt" /\ q = "PT"
        \/ l = "ar" /\ q = "015"
    BY <1>3, BaseFields DEF HasParent, ParentRegion
  <2> HIDE DEF q
  <2>2. Top(l, q) \/ (l = "en" /\ q = "150")
    BY <2>1 DEF Top
  <2> QED BY <2>2 DEF NearEurope, NearTop
<1>4. up = HongKong \/ up = Clear(y) \/ (HasParent(l, r) /\ up = Base(l, q))
  BY BaseUp
<1> HIDE DEF up, y, q
<1>5. NearEurope(up)
  BY <1>1, <1>2, <1>3, <1>4
<1> QED BY <1>5 DEF up, y

LEMMA WayToRoot ==
    ASSUME NEW x, NEW request, IsBase(x)
    PROVE  FindTrackPath(x, request)[TRACKPATH_ARRAY_SIZE] = ROOT_LOCALE
<1> DEFINE f == FindTrackPath(x, request)
           up(y) == IF y = ROOT_LOCALE THEN ROOT_LOCALE ELSE SearchParentLocale(y, request)
<1>1. f[1] = x /\ \A i \in 2..5 : f[i] = up(f[i - 1])
  BY PathIs DEF Path, TRACKPATH_ARRAY_SIZE
<1>2. Bare(ROOT_LOCALE)
  BY RootIs DEF Bare, IsBase
<1>3. \A y : Bare(y) => up(y) = ROOT_LOCALE
  BY BareUp
<1>4. \A y : NearTop(y) => Bare(up(y))
  <2> SUFFICES ASSUME NEW y, NearTop(y) PROVE Bare(up(y))
    OBVIOUS
  <2>1. CASE Bare(y)
    BY <1>2, <1>3, <2>1
  <2>2. CASE ~Bare(y)
    <3>1. PICK l, r : y = Base(l, r) /\ Top(l, r)
      BY <2>2 DEF NearTop
    <3>2. ~Regionless(Base(l, r))
      BY <2>2, <3>1 DEF Bare, IsBase
    <3> QED BY <1>2, <3>1, <3>2, TopUp
  <2> QED BY <2>1, <2>2
<1>5. \A y : NearEurope(y) => NearTop(up(y))
  <2> SUFFICES ASSUME NEW y, NearEurope(y) PROVE NearTop(up(y))
    OBVIOUS
  <2>1. CASE NearTop(y)
    BY <1>4, <2>1 DEF NearTop
  <2>2. CASE ~NearTop(y)
    <3>1. y = Base("en", "150")
      BY <2>2 DEF NearEurope
    <3>2. ~Regionless(Base("en", "150"))
      BY <2>2, <3>1 DEF NearTop, Bare, IsBase
    <3>3. NearTop(ROOT_LOCALE)
      BY <1>2 DEF NearTop
    <3> QED BY <3>1, <3>2, <3>3, EuropeUp
  <2> QED BY <2>1, <2>2
<1>6. \A y : IsBase(y) => NearEurope(up(y))
  <2> SUFFICES ASSUME NEW y, IsBase(y) PROVE NearEurope(up(y))
    OBVIOUS
  <2>1. NearEurope(ROOT_LOCALE)
    BY <1>2 DEF NearEurope, NearTop
  <2>2. CASE Bare(y)
    BY <1>3, <2>1, <2>2
  <2>3. CASE ~Bare(y)
    <3>1. PICK l, r : y = Base(l, r)
      BY DEF IsBase
    <3>2. ~Regionless(Base(l, r))
      BY <2>3, <3>1 DEF Bare
    <3> QED BY <2>1, <3>1, <3>2, AnyUp
  <2> QED BY <2>2, <2>3
<1> HIDE DEF f, up
<1>7. f[2] = up(f[1]) /\ f[3] = up(f[2]) /\ f[4] = up(f[3]) /\ f[5] = up(f[4])
  <2>1. /\ 2 \in 2..5 /\ 3 \in 2..5 /\ 4 \in 2..5 /\ 5 \in 2..5
        /\ 2 - 1 = 1 /\ 3 - 1 = 2 /\ 4 - 1 = 3 /\ 5 - 1 = 4
    OBVIOUS
  <2> QED BY <1>1, <2>1
<1>8. NearEurope(f[2])
  BY <1>1, <1>6, <1>7
<1>9. NearTop(f[3]) /\ Bare(f[4]) /\ f[5] = ROOT_LOCALE
  BY <1>3, <1>4, <1>5, <1>7, <1>8
<1> QED BY <1>9 DEF f, TRACKPATH_ARRAY_SIZE

LEMMA TagsFit ==
    ASSUME NEW x \in Tags, NEW request
    PROVE  FindTrackPath([x EXCEPT !.script = ""], request)[TRACKPATH_ARRAY_SIZE]
             = ROOT_LOCALE
<1>1. x = Locale(x.lang, x.script, x.region)
  BY TagsAssumption
<1>2. \E l, c, r : x = Locale(l, c, r)
  BY <1>1
<1>3. \A l, c, r : Unscripted(Locale(l, c, r)) = Base(l, r)
  BY ScriptReplaced, Zenon DEF Base, Unscripted
<1>4. IsBase(Unscripted(x))
  BY <1>2, <1>3 DEF IsBase
<1>5. FindTrackPath(Unscripted(x), request)[TRACKPATH_ARRAY_SIZE] = ROOT_LOCALE
  BY <1>4, WayToRoot
<1> QED BY <1>5, Zenon DEF Unscripted, WithScript

-----------------------------------------------------------------------------
(* The matching, in every state. *)

LEMMA RequestsAreTags == TypeInv => Requests \subseteq Tags
BY DEF TypeInv, TypeOK, Requests, ToSet

\* Where the supported languages are told apart, the one that GetMatchedLanguage finds
\* for a language of the list beats every other that matches it, whichever of the two
\* IsMoreSuitable is given first: the order in which LocaleInfo's set is walked does not
\* show in the list.
THEOREM ChoiceOrderFree == ASSUME Apart PROVE Spec => []OrderFree
<1>1. TypeInv => OrderFree
  <2> SUFFICES ASSUME TypeInv, NEW x \in Requests, NEW c \in ToSet(Candidates),
                      Match(x, c), c # matched[x]
               PROVE  /\ matched[x] # NoLocale
                      /\ IsMoreSuitable(matched[x], c, x) > 0
                      /\ IsMoreSuitable(c, matched[x], x) < 0
    BY DEF OrderFree
  <2>1. x \in Tags
    BY RequestsAreTags
  <2>2. matched[x] = GetMatchedLanguage(x)
    BY <2>1 DEF TypeInv, MatchedOnce
  <2>3. matched[x] \in Tags
    BY <2>1, <2>2, ChosenBeats
  <2>4. IsMoreSuitable(matched[x], c, x) > 0 /\ IsMoreSuitable(c, matched[x], x) < 0
    BY <2>1, <2>2, ChosenBeats
  <2> QED BY <2>3, <2>4, TagsAssumption
<1> QED BY <1>1, InitTyped, NextTyped, PTL DEF Spec

\* The array of FindTrackPath, which is filled without a look at its size, holds the way
\* from every language of the list and every supported one to the root, the root included.
THEOREM TracksFit == Spec => []TrackPathFits
<1>1. TypeInv => TrackPathFits
  <2>1. ToSet(Candidates) \subseteq Tags
    BY TagsAssumption DEF ToSet
  <2> QED BY <2>1, RequestsAreTags, TagsFit DEF TrackPathFits
<1> QED BY <1>1, InitTyped, NextTyped, PTL DEF Spec

=============================================================================
