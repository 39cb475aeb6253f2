--------------------------- MODULE FilteringProofs ---------------------------
(***************************************************************************)
(* Induction over a bounded set of numbers, from the least number that is  *)
(* not in it; functions that are defined by recursion; what Only keeps of  *)
(* a sequence; and with these, what Overlay leaves of overlapping matches. *)
(***************************************************************************)
EXTENDS Overlay, WellFoundedInduction, TLAPS

\* A set of numbers that is not empty has a least one.
LEMMA LeastNumber ==
    ASSUME NEW N \in SUBSET Nat, N # {}
    PROVE  \E m \in N : \A n \in N : m <= n
<1> DEFINE R == {p \in Nat \X Nat : p[1] < p[2]}
<1>1. IsWellFoundedOn(R, Nat)
  <2>1. \A x, y \in Nat : <<x, y>> \in R <=> x < y
    OBVIOUS
  <2> QED BY NatLessThanWellFounded DEF OpToRel, IsWellFoundedOn
<1> HIDE DEF R
<1>2. PICK m \in N : \A n \in N : ~(<<n, m>> \in R)
  BY <1>1, WFMin
<1>3. \A n \in N : ~(n < m)
  BY <1>2 DEF R
<1> QED BY <1>3

\* A set that has 0, and each number up to n with the one before, has all of them.
LEMMA UpToN ==
    ASSUME NEW n \in Nat, NEW A, 0 \in A, \A i \in 1..n : i - 1 \in A => i \in A
    PROVE  0..n \subseteq A
<1> DEFINE N == {i \in 0..n : i \notin A}
<1>1. ASSUME N # {} PROVE FALSE
  <2>1. PICK m \in N : \A i \in N : m <= i
    <3>1. N \in SUBSET Nat
      OBVIOUS
    <3> HIDE DEF N
    <3> QED BY <1>1, <3>1, LeastNumber
  <2>2. m \in 1..n /\ m - 1 \in 0..n /\ ~(m <= m - 1) /\ m \notin A
    OBVIOUS
  <2>3. m - 1 \in A
    BY <2>1, <2>2
  <2> QED BY <2>2, <2>3
<1> QED BY <1>1

\* A function is defined by its first value and each value by the one before.
Recursive(g, b, step, n) == g[0] = b /\ \A i \in 1..n : g[i] = step[<<i, g[i - 1]>>]

LEMMA RecursionExists ==
    ASSUME NEW n \in Nat, NEW V, NEW b \in V, NEW step \in [(1..n) \X V -> V]
    PROVE  \E g \in [0..n -> V] : Recursive(g, b, step, n)
<1> DEFINE Upto(k) == \E g \in [0..k -> V] : Recursive(g, b, step, k)
           A == {k \in 0..n : Upto(k)}
<1>1. Upto(0)
  <2> DEFINE g == [i \in 0..0 |-> b]
  <2>1. g \in [0..0 -> V] /\ Recursive(g, b, step, 0)
    BY DEF Recursive
  <2> HIDE DEF g
  <2> QED BY <2>1
<1>2. ASSUME NEW k \in 1..n, Upto(k - 1) PROVE Upto(k)
  <2>1. PICK g \in [0..k-1 -> V] : Recursive(g, b, step, k - 1)
    BY <1>2
  <2> DEFINE e == step[<<k, g[k - 1]>>]
             h == [i \in 0..k |-> IF i = k THEN e ELSE g[i]]
  <2>2. g[k - 1] \in V /\ e \in V
    OBVIOUS
  <2>3. h \in [0..k -> V]
    <3> HIDE DEF e
    <3> QED BY <2>2
  <2>4. h[0] = b
    BY <2>1 DEF Recursive
  <2>5. ASSUME NEW i \in 1..k PROVE h[i] = step[<<i, h[i - 1]>>]
    <3>1. i - 1 \in 0..k-1 /\ h[i - 1] = g[i - 1]
      OBVIOUS
    <3>2. CASE i = k
      <4>1. h[i] = step[<<k, g[k - 1]>>]
        BY <3>2
      <4> HIDE DEF h
      <4> QED BY <3>1, <3>2, <4>1
    <3>3. CASE i # k
      <4>1. i \in 1..k-1 /\ h[i] = g[i]
        BY <3>3
      <4> HIDE DEF h
      <4> QED BY <2>1, <3>1, <4>1 DEF Recursive
    <3> QED BY <3>2, <3>3
  <2> HIDE DEF h
  <2>6. Recursive(h, b, step, k)
    BY <2>4, <2>5 DEF Recursive
  <2> QED BY <2>3, <2>6
<1> HIDE DEF Upto
<1>3. 0 \in A /\ \A i \in 1..n : i - 1 \in A => i \in A
  BY <1>1, <1>2
<1> HIDE DEF A
<1>4. 0..n \subseteq A
  BY <1>3, UpToN
<1> QED BY <1>4 DEF A, Upto

-----------------------------------------------------------------------------
(* The recursion of Only. *)

\* The i-th step keeps s[i] or not; g says what is kept after each of the first n.
KeptNext(g, s, T, i) ==
    g[i] = IF i = 0 THEN <<>>
           ELSE IF s[i] \in T THEN Append(g[i - 1], s[i]) ELSE g[i - 1]
Follows(g, s, T, n) == \A i \in 0..n : KeptNext(g, s, T, i)
Keeps(g, s, T) == g \in [0..Len(s) -> Seq(T)] /\ Follows(g, s, T, Len(s))

\* Two functions agree from j to n.
Agree(g, h, j, n) == \A i \in j..n : g[i] = h[i]

LEMMA KeepsExists ==
    ASSUME NEW S, NEW T, NEW s \in Seq(S)
    PROVE  \E g : Keeps(g, s, T)
<1> DEFINE n == Len(s)
           step == [p \in (1..n) \X Seq(T) |->
                      IF s[p[1]] \in T THEN Append(p[2], s[p[1]]) ELSE p[2]]
<1>1. n \in Nat /\ step \in [(1..n) \X Seq(T) -> Seq(T)] /\ <<>> \in Seq(T)
  OBVIOUS
<1>2. \A i \in 1..n, v \in Seq(T) :
         step[<<i, v>>] = IF s[i] \in T THEN Append(v, s[i]) ELSE v
  OBVIOUS
<1> HIDE DEF step, n
<1>3. PICK g \in [0..n -> Seq(T)] : Recursive(g, <<>>, step, n)
  BY <1>1, RecursionExists
<1>4. ASSUME NEW i \in 0..n PROVE KeptNext(g, s, T, i)
  <2>1. CASE i = 0
    BY <1>3, <2>1 DEF Recursive, KeptNext
  <2>2. CASE i # 0
    <3>1. i \in 1..n /\ g[i - 1] \in Seq(T)
      BY <1>1, <2>2
    <3>2. g[i] = step[<<i, g[i - 1]>>]
      BY <1>3, <3>1 DEF Recursive
    <3> QED BY <1>2, <2>2, <3>1, <3>2 DEF KeptNext
  <2> QED BY <2>1, <2>2
<1> QED BY <1>4 DEF Follows, Keeps, n

\* It keeps the same of two sequences as far as they agree.
LEMMA KeptSame ==
    ASSUME NEW n \in Nat, NEW s, NEW t, NEW T, NEW g, NEW h,
           Follows(g, s, T, n), Follows(h, t, T, n), Agree(s, t, 1, n)
    PROVE  Agree(g, h, 0, n)
<1> DEFINE A == {i \in 0..n : g[i] = h[i]}
<1>1. 0 \in A
  BY DEF Follows, KeptNext
<1>2. ASSUME NEW i \in 1..n, i - 1 \in A PROVE i \in A
  BY <1>2 DEF Follows, KeptNext, Agree
<1>3. 0..n \subseteq A
  <2> HIDE DEF A
  <2> QED BY <1>1, <1>2, UpToN
<1> QED BY <1>3 DEF Agree

LEMMA OnlyKeeps ==
    ASSUME NEW S, NEW T, NEW s \in Seq(S)
    PROVE  \E g : Keeps(g, s, T) /\ Only(s, T) = g[Len(s)]
<1> DEFINE rec(g) == [i \in 0..Len(s) |->
                        IF i = 0 THEN <<>>
                        ELSE IF s[i] \in T THEN Append(g[i - 1], s[i]) ELSE g[i - 1]]
           kept == CHOOSE g : g = rec(g)
<1>1. PICK g : Keeps(g, s, T)
  BY KeepsExists
<1>2. g = rec(g)
  BY <1>1 DEF Keeps, Follows, KeptNext
<1>3. kept = rec(kept)
  BY <1>2
<1>4. Only(s, T) = kept[Len(s)]
  BY DEF Only
<1> HIDE DEF kept
<1>5. Follows(kept, s, T, Len(s))
  BY <1>3 DEF Follows, KeptNext
<1> HIDE DEF rec
<1>6. kept[Len(s)] = g[Len(s)]
  <2>1. Len(s) \in Nat /\ Agree(s, s, 1, Len(s))
    BY DEF Agree
  <2>2. Agree(kept, g, 0, Len(s))
    BY <1>1, <1>5, <2>1, KeptSame DEF Keeps
  <2> QED BY <2>1, <2>2 DEF Agree
<1> QED BY <1>1, <1>4, <1>6

\* A function that follows the recursion says what Only keeps.
LEMMA OnlyIs ==
    ASSUME NEW S, NEW T, NEW s \in Seq(S), NEW h, Follows(h, s, T, Len(s))
    PROVE  Only(s, T) = h[Len(s)]
<1>1. PICK g : Keeps(g, s, T) /\ Only(s, T) = g[Len(s)]
  BY OnlyKeeps
<1>2. Len(s) \in Nat /\ Agree(s, s, 1, Len(s))
  BY DEF Agree
<1>3. Agree(g, h, 0, Len(s))
  BY <1>1, <1>2, KeptSame DEF Keeps
<1> QED BY <1>1, <1>2, <1>3 DEF Agree

-----------------------------------------------------------------------------
(* What Only keeps. *)

LEMMA OnlyTyped ==
    ASSUME NEW S, NEW T, NEW s \in Seq(S)
    PROVE  Only(s, T) \in Seq(T)
<1>1. PICK g : Keeps(g, s, T) /\ Only(s, T) = g[Len(s)]
  BY OnlyKeeps
<1> QED BY <1>1 DEF Keeps

LEMMA OnlyEmpty == \A T : Only(<<>>, T) = <<>>
<1> TAKE T
<1> DEFINE h == [i \in 0..0 |-> <<>>]
<1>1. <<>> \in Seq({}) /\ Len(<<>>) = 0
  OBVIOUS
<1>2. Follows(h, <<>>, T, Len(<<>>)) /\ h[0] = <<>>
  BY <1>1 DEF Follows, KeptNext
<1> HIDE DEF h
<1> QED BY <1>1, <1>2, OnlyIs

\* Only, by the last element.
LEMMA OnlyAppend ==
    ASSUME NEW S, NEW T, NEW s \in Seq(S), NEW c \in S
    PROVE  Only(Append(s, c), T) = IF c \in T THEN Append(Only(s, T), c) ELSE Only(s, T)
<1> DEFINE t == Append(s, c)
           n == Len(s)
<1>1. /\ t \in Seq(S) /\ Len(t) = n + 1 /\ n \in Nat
      /\ t[n + 1] = c /\ \A i \in 1..n : t[i] = s[i]
  OBVIOUS
<1>2. PICK g : Keeps(g, s, T) /\ Only(s, T) = g[n]
  BY OnlyKeeps
<1>3. PICK h : Keeps(h, t, T) /\ Only(t, T) = h[n + 1]
  <2> HIDE DEF t
  <2>1. PICK h : Keeps(h, t, T) /\ Only(t, T) = h[Len(t)]
    BY <1>1, OnlyKeeps
  <2> QED BY <1>1, <2>1
<1> HIDE DEF t, n
<1>4. g[n] = h[n]
  <2>1. Follows(g, s, T, n) /\ Follows(h, t, T, n)
    BY <1>1, <1>2, <1>3 DEF Keeps, Follows, n
  <2>2. Agree(s, t, 1, n)
    BY <1>1 DEF Agree
  <2>3. Agree(g, h, 0, n)
    BY <1>1, <2>1, <2>2, KeptSame
  <2> QED BY <1>1, <2>3 DEF Agree
<1>5. KeptNext(h, t, T, n + 1)
  BY <1>1, <1>3 DEF Keeps, Follows
<1>6. h[n + 1] = IF c \in T THEN Append(h[n], c) ELSE h[n]
  BY <1>1, <1>5 DEF KeptNext
<1> QED BY <1>2, <1>3, <1>4, <1>6 DEF t

\* It keeps everything of a sequence over the set.
LEMMA OnlyAll ==
    ASSUME NEW T, NEW s \in Seq(T)
    PROVE  Only(s, T) = s
<1> DEFINE h == [i \in 0..Len(s) |-> SubSeq(s, 1, i)]
<1>1. ASSUME NEW i \in 1..Len(s) PROVE SubSeq(s, 1, i) = Append(SubSeq(s, 1, i - 1), s[i])
  OBVIOUS
<1>2. SubSeq(s, 1, 0) = <<>> /\ SubSeq(s, 1, Len(s)) = s /\ \A i \in 1..Len(s) : s[i] \in T
  OBVIOUS
<1>3. Follows(h, s, T, Len(s))
  BY <1>1, <1>2 DEF Follows, KeptNext
<1>4. h[Len(s)] = s
  BY <1>2
<1> HIDE DEF h
<1> QED BY <1>3, <1>4, OnlyIs

\* It matters only which of the elements there are are in the set.
LEMMA OnlyOfThese ==
    ASSUME NEW S, NEW T, NEW U, NEW s \in Seq(S), S \cap T = S \cap U
    PROVE  Only(s, T) = Only(s, U)
<1>1. PICK g : Keeps(g, s, T) /\ Only(s, T) = g[Len(s)]
  BY OnlyKeeps
<1>2. \A i \in 1..Len(s) : s[i] \in T <=> s[i] \in U
  <2>1. \A i \in 1..Len(s) : s[i] \in S
    OBVIOUS
  <2> QED BY <2>1
<1>3. Follows(g, s, U, Len(s))
  BY <1>1, <1>2 DEF Keeps, Follows, KeptNext
<1> QED BY <1>1, <1>3, OnlyIs

\* An element that is in the set is kept.
LEMMA OnlyHas ==
    ASSUME NEW S, NEW T, NEW s \in Seq(S), NEW j \in 1..Len(s), s[j] \in T
    PROVE  \E i \in 1..Len(Only(s, T)) : Only(s, T)[i] = s[j]
<1> DEFINE n == Len(s)
           Has(q) == \E i \in 1..Len(q) : q[i] = s[j]
<1>1. PICK g : Keeps(g, s, T) /\ Only(s, T) = g[n]
  BY OnlyKeeps
<1>2. n \in Nat /\ j \in 1..n /\ \A i \in 0..n : g[i] \in Seq(T)
  BY <1>1 DEF Keeps
<1>3. \A q \in Seq(T), x \in T : Has(q) => Has(Append(q, x))
  OBVIOUS
<1>4. \A q \in Seq(T) : Has(Append(q, s[j]))
  <2> SUFFICES ASSUME NEW q \in Seq(T) PROVE Has(Append(q, s[j]))
    OBVIOUS
  <2>1. /\ Len(Append(q, s[j])) = Len(q) + 1 /\ Len(q) \in Nat
        /\ Append(q, s[j])[Len(q) + 1] = s[j]
    OBVIOUS
  <2>2. Len(q) + 1 \in 1..Len(q) + 1
    BY <2>1
  <2> QED BY <2>1, <2>2
<1> HIDE DEF Has, n
<1> DEFINE A == {i \in 0..n : i < j \/ Has(g[i])}
<1>5. 0 \in A
  BY <1>2
<1>6. ASSUME NEW i \in 1..n, i - 1 \in A PROVE i \in A
  <2>1. i \in 0..n /\ i - 1 \in 0..n /\ i # 0
    BY <1>2
  <2>2. g[i] = IF s[i] \in T THEN Append(g[i - 1], s[i]) ELSE g[i - 1]
    BY <1>1, <2>1 DEF Keeps, Follows, KeptNext, n
  <2>3. g[i - 1] \in Seq(T)
    BY <1>2, <2>1
  <2>4. CASE i < j
    BY <2>1, <2>4
  <2>5. CASE i = j
    BY <1>4, <2>1, <2>2, <2>3, <2>5
  <2>6. CASE i > j
    <3>1. Has(g[i - 1])
      BY <1>2, <1>6, <2>6
    <3>2. Has(g[i])
      BY <1>3, <2>2, <2>3, <3>1
    <3> QED BY <2>1, <3>2
  <2> QED BY <1>2, <2>1, <2>4, <2>5, <2>6
<1>7. n \in A
  <2>1. 0..n \subseteq A
    <3> HIDE DEF A
    <3> QED BY <1>2, <1>5, <1>6, UpToN
  <2> QED BY <1>2, <2>1
<1> QED BY <1>1, <1>2, <1>7 DEF Has

\* It keeps no more of a prefix than of the whole.
LEMMA OnlyOfPrefix ==
    ASSUME NEW S, NEW T, NEW s \in Seq(S), NEW k \in 0..Len(s)
    PROVE  Len(Only(SubSeq(s, 1, k), T)) <= Len(Only(s, T))
<1> DEFINE n == Len(s)
           p == SubSeq(s, 1, k)
<1>1. PICK g : Keeps(g, s, T) /\ Only(s, T) = g[n]
  BY OnlyKeeps
<1>2. p \in Seq(S) /\ Len(p) = k /\ k \in Nat /\ n \in Nat /\ \A i \in 1..k : p[i] = s[i]
  OBVIOUS
<1> HIDE DEF p
<1>3. Only(p, T) = g[k]
  <2>1. \A i \in 0..k : KeptNext(g, s, T, i) /\ (i # 0 => s[i] = p[i])
    BY <1>1, <1>2 DEF Keeps, Follows
  <2>2. Follows(g, p, T, Len(p))
    BY <1>2, <2>1 DEF Follows, KeptNext
  <2> QED BY <1>2, <2>2, OnlyIs
<1> DEFINE A == {j \in Nat : k + j <= n => Len(g[k]) <= Len(g[k + j])}
<1>4. 0 \in A
  <2>1. g[k] \in Seq(T)
    BY <1>1, <1>2 DEF Keeps
  <2> QED BY <1>2, <2>1
<1>5. ASSUME NEW j \in 1..(n - k), j - 1 \in A PROVE j \in A
  <2>1. k + j \in 1..n /\ k + (j - 1) \in 0..n /\ k + (j - 1) = (k + j) - 1 /\ j \in Nat
    BY <1>2
  <2>2. Len(g[k]) <= Len(g[k + (j - 1)])
    BY <1>5, <2>1
  <2>3. g[k] \in Seq(T) /\ g[k + (j - 1)] \in Seq(T)
    BY <1>1, <1>2, <2>1 DEF Keeps
  <2>4. KeptNext(g, s, T, k + j)
    BY <1>1, <2>1 DEF Keeps, Follows
  <2>5. g[k + j] = g[k + (j - 1)] \/ g[k + j] = Append(g[k + (j - 1)], s[k + j])
    BY <2>1, <2>4 DEF KeptNext
  <2>6. Len(g[k]) <= Len(g[k + j])
    <3>1. g[k + j] = Append(g[k + (j - 1)], s[k + j]) => Len(g[k + j]) = Len(g[k + (j - 1)]) + 1
      BY <2>3
    <3>2. Len(g[k]) \in Nat /\ Len(g[k + (j - 1)]) \in Nat
      BY <2>3
    <3> QED BY <2>2, <2>5, <3>1, <3>2
  <2> QED BY <2>1, <2>6
<1>6. n - k \in Nat /\ n - k \in 0..(n - k) /\ k + (n - k) = n
  BY <1>2
<1>7. n - k \in A
  <2> HIDE DEF A
  <2> QED BY <1>4, <1>5, <1>6, UpToN
<1>8. Len(g[k]) <= Len(g[n])
  BY <1>2, <1>6, <1>7
<1> QED BY <1>1, <1>3, <1>8 DEF p

\* What is kept stands in the same order: what holds of every two elements of the
\* sequence, the earlier one first, holds of every two that are kept.
Pairwise(s, R) == \A i, j \in 1..Len(s) : i < j => <<s[i], s[j]>> \in R

LEMMA AppendPairwise ==
    ASSUME NEW S, NEW R, NEW q \in Seq(S), NEW x \in S, Pairwise(q, R),
           \A i \in 1..Len(q) : <<q[i], x>> \in R
    PROVE  Pairwise(Append(q, x), R)
<1> SUFFICES ASSUME NEW i \in 1..Len(Append(q, x)), NEW j \in 1..Len(Append(q, x)), i < j
             PROVE  <<Append(q, x)[i], Append(q, x)[j]>> \in R
  BY DEF Pairwise
<1>1. /\ Len(q) \in Nat /\ Len(Append(q, x)) = Len(q) + 1
      /\ \A k \in 1..Len(q) : Append(q, x)[k] = q[k]
      /\ Append(q, x)[Len(q) + 1] = x
  OBVIOUS
<1>2. i \in 1..Len(q)
  BY <1>1
<1>3. CASE j = Len(q) + 1
  BY <1>1, <1>2, <1>3
<1>4. CASE j # Len(q) + 1
  <2>1. j \in 1..Len(q)
    BY <1>1, <1>4
  <2> QED BY <1>1, <1>2, <2>1 DEF Pairwise
<1> QED BY <1>3, <1>4

LEMMA OnlyPairs ==
    ASSUME NEW S, NEW T, NEW R, NEW s \in Seq(S), Pairwise(s, R)
    PROVE  Pairwise(Only(s, T), R)
<1> DEFINE n == Len(s)
           From(q, i) == \A k \in 1..Len(q) : \E p \in 1..i : q[k] = s[p]
<1>1. PICK g : Keeps(g, s, T) /\ Only(s, T) = g[n]
  BY OnlyKeeps
<1>2. n \in Nat /\ (\A i \in 0..n : g[i] \in Seq(T)) /\ \A i \in 1..n : s[i] \in S
  BY <1>1 DEF Keeps
<1> DEFINE A == {i \in 0..n : From(g[i], i) /\ Pairwise(g[i], R)}
<1>3. 0 \in A
  <2>1. g[0] = <<>>
    BY <1>1, <1>2 DEF Keeps, Follows, KeptNext
  <2> QED BY <1>2, <2>1 DEF Pairwise
<1>4. ASSUME NEW i \in 1..n, i - 1 \in A PROVE i \in A
  <2>1. i \in 0..n /\ i - 1 \in 0..n /\ i # 0
    BY <1>2
  <2>2. g[i] = IF s[i] \in T THEN Append(g[i - 1], s[i]) ELSE g[i - 1]
    BY <1>1, <2>1 DEF Keeps, Follows, KeptNext
  <2>3. g[i - 1] \in Seq(T) /\ From(g[i - 1], i - 1) /\ Pairwise(g[i - 1], R)
    BY <1>2, <1>4, <2>1
  <2>4. ASSUME NEW k \in 1..Len(g[i - 1]) PROVE <<g[i - 1][k], s[i]>> \in R
    <3>1. PICK p \in 1..i-1 : g[i - 1][k] = s[p]
      BY <2>3
    <3>2. p \in 1..n /\ p < i /\ i \in 1..n
      BY <1>2, <2>1
    <3> QED BY <3>1, <3>2 DEF Pairwise
  <2>5. From(g[i - 1], i)
    <3> SUFFICES ASSUME NEW k \in 1..Len(g[i - 1])
                 PROVE  \E p \in 1..i : g[i - 1][k] = s[p]
      OBVIOUS
    <3>1. PICK p \in 1..i-1 : g[i - 1][k] = s[p]
      BY <2>3
    <3>2. p \in 1..i
      BY <2>1
    <3> QED BY <3>1, <3>2
  <2>6. CASE s[i] \in T
    <3> DEFINE q == Append(g[i - 1], s[i])
    <3>1. Pairwise(q, R)
      BY <2>3, <2>4, <2>6, AppendPairwise
    <3>2. From(q, i)
      <4> SUFFICES ASSUME NEW k \in 1..Len(q) PROVE \E p \in 1..i : q[k] = s[p]
        OBVIOUS
      <4>1. /\ Len(g[i - 1]) \in Nat /\ Len(q) = Len(g[i - 1]) + 1
            /\ \A l \in 1..Len(g[i - 1]) : q[l] = g[i - 1][l]
            /\ q[Len(g[i - 1]) + 1] = s[i]
        BY <2>3, <2>6
      <4>2. CASE k = Len(g[i - 1]) + 1
        <5>1. i \in 1..i
          BY <2>1
        <5> QED BY <4>1, <4>2, <5>1
      <4>3. CASE k # Len(g[i - 1]) + 1
        <5>1. k \in 1..Len(g[i - 1])
          BY <4>1, <4>3
        <5> QED BY <2>5, <4>1, <5>1
      <4> QED BY <4>2, <4>3
    <3>3. g[i] = q
      BY <2>2, <2>6
    <3> QED BY <2>1, <3>1, <3>2, <3>3
  <2>7. CASE s[i] \notin T
    BY <2>1, <2>2, <2>3, <2>5, <2>7
  <2> QED BY <2>6, <2>7
<1>5. n \in A
  <2>1. 0..n \subseteq A
    <3> HIDE DEF A
    <3> QED BY <1>2, <1>3, <1>4, UpToN
  <2> QED BY <1>2, <2>1
<1> QED BY <1>1, <1>5

-----------------------------------------------------------------------------
(* Overlapping matches. *)

\* The matches of M are intervals, and their rules have levels.
Intervals(M) == \A m \in M : /\ m.b \in Int /\ m.e \in Int /\ m.b < m.e
                             /\ Level[m.rule] \in Int
Parted(m, n) == m.e <= n.b \/ n.e <= m.b

\* m overlaps no match of N but itself.
Alone(m, N) == \A n \in N : n = m \/ Parted(n, m)

NoClash(M) == {p \in M \X M : ~Clash(p[1], p[2])}
PartedIn(M) == {p \in M \X M : Parted(p[1], p[2])}

\* Of intervals, two that do not clash and of which none is within the other are parted.
LEMMA ClashOrWithin ==
    ASSUME NEW M, Intervals(M), NEW m \in M, NEW n \in M
    PROVE  /\ Parted(m, n) <=> ~Clash(m, n) /\ ~Within(m, n) /\ ~Within(n, m)
           /\ Parted(m, n) <=> Parted(n, m)
           /\ Clash(m, n) <=> Clash(n, m)
BY DEF Intervals, Parted, Clash, Same, Crosses, Within

LEMMA Elements ==
    ASSUME NEW S, NEW s \in Seq(S)
    PROVE  /\ ToSet(s) \in SUBSET S
           /\ \A i \in 1..Len(s) : s[i] \in ToSet(s)
           /\ \A x \in ToSet(s) : \E i \in 1..Len(s) : s[i] = x
           /\ s \in Seq(ToSet(s))
BY DEF ToSet

LEMMA ElementsOfAppend ==
    ASSUME NEW S, NEW s \in Seq(S), NEW x \in S
    PROVE  ToSet(Append(s, x)) = ToSet(s) \cup {x}
<1>1. /\ Len(s) \in Nat /\ Len(Append(s, x)) = Len(s) + 1 /\ Append(s, x) \in Seq(S)
      /\ \A k \in 1..Len(s) : Append(s, x)[k] = s[k]
      /\ Append(s, x)[Len(s) + 1] = x
  OBVIOUS
<1>2. Len(s) + 1 \in 1..Len(Append(s, x)) /\ 1..Len(s) \subseteq 1..Len(Append(s, x))
  BY <1>1
<1>3. \A k \in 1..Len(Append(s, x)) : k \in 1..Len(s) \/ k = Len(s) + 1
  BY <1>1
<1>0. \A k \in 1..Len(Append(s, x)) : Append(s, x)[k] \in ToSet(Append(s, x))
  BY <1>1, Elements
<1>4. ToSet(Append(s, x)) \subseteq ToSet(s) \cup {x}
  <2> SUFFICES ASSUME NEW y \in ToSet(Append(s, x)) PROVE y \in ToSet(s) \cup {x}
    OBVIOUS
  <2>1. PICK k \in 1..Len(Append(s, x)) : Append(s, x)[k] = y
    BY <1>1, Elements
  <2> QED BY <1>1, <1>3, <2>1, Elements
<1>5. ToSet(s) \cup {x} \subseteq ToSet(Append(s, x))
  <2>1. x \in ToSet(Append(s, x))
    BY <1>0, <1>1, <1>2
  <2>2. ASSUME NEW y \in ToSet(s) PROVE y \in ToSet(Append(s, x))
    <3>1. PICK k \in 1..Len(s) : s[k] = y
      BY Elements
    <3> QED BY <1>0, <1>1, <1>2, <3>1
  <2> QED BY <2>1, <2>2
<1> QED BY <1>4, <1>5

\* Only keeps the elements that are in the set.
LEMMA ElementsOfOnly ==
    ASSUME NEW S, NEW s \in Seq(S), NEW T \in SUBSET ToSet(s)
    PROVE  ToSet(Only(s, T)) = T
<1>1. Only(s, T) \in Seq(T)
  BY OnlyTyped
<1>2. ASSUME NEW x \in T PROVE x \in ToSet(Only(s, T))
  <2>1. PICK j \in 1..Len(s) : s[j] = x
    BY Elements
  <2>2. PICK i \in 1..Len(Only(s, T)) : Only(s, T)[i] = s[j]
    BY <2>1, OnlyHas
  <2> QED BY <1>1, <2>1, <2>2, Elements
<1> QED BY <1>1, <1>2, Elements

\* Adding a match: what is left of those before it, and whether it is added.
LEMMA AddFirstApart ==
    ASSUME NEW M, Intervals(M), NEW kept \in Seq(M), NEW m \in M, Pairwise(kept, NoClash(M))
    PROVE  /\ AddFirst(kept, m) \in Seq(ToSet(kept) \cup {m})
           /\ Pairwise(AddFirst(kept, m), NoClash(M))
           /\ \A x \in ToSet(kept) : Parted(x, m) \/ x = m => x \in ToSet(AddFirst(kept, m))
           /\ Alone(m, ToSet(kept)) => m \in ToSet(AddFirst(kept, m))
<1> DEFINE N == ToSet(kept)
           T == {k \in N : Clash(k, m) => Wins(k, m)}
           rest == Only(kept, T)
           lost == \E k \in N : Clash(k, m) /\ Wins(k, m)
<1>1. AddFirst(kept, m) = IF lost THEN rest ELSE Append(rest, m)
  BY DEF AddFirst
<1>2. N \in SUBSET M /\ T \in SUBSET N
  BY Elements
<1>3. rest \in Seq(T) /\ ToSet(rest) = T
  BY <1>2, OnlyTyped, ElementsOfOnly
<1>4. Pairwise(rest, NoClash(M))
  BY OnlyPairs
<1>5. ~lost => \A k \in T : ~Clash(k, m)
  OBVIOUS
<1>6. \A x \in N : Parted(x, m) \/ x = m => x \in T
  <2> SUFFICES ASSUME NEW x \in N, Parted(x, m) \/ x = m PROVE Clash(x, m) => Wins(x, m)
    OBVIOUS
  <2>1. Wins(m, m)
    BY DEF Intervals, Wins
  <2> QED BY <1>2, <2>1, ClashOrWithin
<1>7. ASSUME Alone(m, N), lost PROVE m \in T
  <2>1. PICK k \in N : Clash(k, m)
    BY <1>7
  <2>2. k = m
    BY <1>2, <1>7, <2>1, ClashOrWithin DEF Alone
  <2> QED BY <1>6, <2>2
<1> HIDE DEF lost, T, N
<1>8. CASE lost
  <2>1. rest \in Seq(N \cup {m})
    BY <1>2, <1>3
  <2> HIDE DEF rest
  <2> QED BY <1>1, <1>3, <1>4, <1>6, <1>7, <1>8, <2>1 DEF N
<1>9. CASE ~lost
  <2> HIDE DEF rest
  <2>1. rest \in Seq(M) /\ rest \in Seq(N \cup {m})
    BY <1>2, <1>3
  <2>2. Append(rest, m) \in Seq(N \cup {m})
    BY <2>1
  <2>3. ToSet(Append(rest, m)) = T \cup {m}
    BY <1>3, <2>1, ElementsOfAppend
  <2>4. Pairwise(Append(rest, m), NoClash(M))
    <3>1. ASSUME NEW i \in 1..Len(rest) PROVE <<rest[i], m>> \in NoClash(M)
      <4>1. rest[i] \in T /\ rest[i] \in M
        BY <1>3, <2>1
      <4> QED BY <1>5, <1>9, <4>1 DEF NoClash
    <3> QED BY <1>4, <2>1, <3>1, AppendPairwise
  <2> QED BY <1>1, <1>6, <1>9, <2>2, <2>3, <2>4 DEF N
<1> QED BY <1>8, <1>9

LEMMA AddSecondParted ==
    ASSUME NEW M, Intervals(M), NEW kept \in Seq(M), NEW m \in M, Pairwise(kept, PartedIn(M)),
           \A k \in ToSet(kept) : ~Clash(k, m)
    PROVE  /\ AddSecond(kept, m) \in Seq(ToSet(kept) \cup {m})
           /\ Pairwise(AddSecond(kept, m), PartedIn(M))
           /\ \A x \in ToSet(kept) : Parted(x, m) \/ x = m => x \in ToSet(AddSecond(kept, m))
           /\ Alone(m, ToSet(kept)) => m \in ToSet(AddSecond(kept, m))
<1> DEFINE N == ToSet(kept)
           T == {k \in N : Same(k, m) \/ ~Within(k, m)}
           rest == Only(kept, T)
           lost == \E k \in N : Within(m, k)
<1>1. AddSecond(kept, m) = IF lost THEN rest ELSE Append(rest, m)
  BY DEF AddSecond
<1>2. N \in SUBSET M /\ T \in SUBSET N
  BY Elements
<1>3. rest \in Seq(T) /\ ToSet(rest) = T
  BY <1>2, OnlyTyped, ElementsOfOnly
<1>4. Pairwise(rest, PartedIn(M))
  BY OnlyPairs
<1>5. ~lost => \A k \in T : Parted(k, m)
  <2> SUFFICES ASSUME ~lost, NEW k \in T PROVE Parted(k, m)
    OBVIOUS
  <2>1. ~Clash(k, m) /\ ~Within(m, k) /\ (Same(k, m) \/ ~Within(k, m))
    OBVIOUS
  <2>2. ~Same(k, m)
    BY <2>1 DEF Clash
  <2> QED BY <1>2, <2>1, <2>2, ClashOrWithin
<1>6. \A x \in N : Parted(x, m) \/ x = m => x \in T
  <2> SUFFICES ASSUME NEW x \in N, Parted(x, m) \/ x = m PROVE Same(x, m) \/ ~Within(x, m)
    OBVIOUS
  <2>1. Same(m, m)
    BY DEF Same
  <2> QED BY <1>2, <2>1, ClashOrWithin
<1>7. ASSUME Alone(m, N), lost PROVE m \in T
  <2>1. PICK k \in N : Within(m, k)
    BY <1>7
  <2>2. k = m
    BY <1>2, <1>7, <2>1, ClashOrWithin DEF Alone
  <2> QED BY <1>6, <2>2
<1> HIDE DEF lost, T, N
<1>8. CASE lost
  <2>1. rest \in Seq(N \cup {m})
    BY <1>2, <1>3
  <2> HIDE DEF rest
  <2> QED BY <1>1, <1>3, <1>4, <1>6, <1>7, <1>8, <2>1 DEF N
<1>9. CASE ~lost
  <2> HIDE DEF rest
  <2>1. rest \in Seq(M) /\ rest \in Seq(N \cup {m})
    BY <1>2, <1>3
  <2>2. Append(rest, m) \in Seq(N \cup {m})
    BY <2>1
  <2>3. ToSet(Append(rest, m)) = T \cup {m}
    BY <1>3, <2>1, ElementsOfAppend
  <2>4. Pairwise(Append(rest, m), PartedIn(M))
    <3>1. ASSUME NEW i \in 1..Len(rest) PROVE <<rest[i], m>> \in PartedIn(M)
      <4>1. rest[i] \in T /\ rest[i] \in M
        BY <1>3, <2>1
      <4> QED BY <1>5, <1>9, <4>1 DEF PartedIn
    <3> QED BY <1>4, <2>1, <3>1, AppendPairwise
  <2> QED BY <1>1, <1>6, <1>9, <2>2, <2>3, <2>4 DEF N
<1> QED BY <1>8, <1>9

\* What is left of the first i matches: some of them, every two in R, and those that
\* overlap no other.
Upto(list, i) == {list[k] : k \in 1..i}
LeftOf(q, list, i, R) ==
    /\ q \in Seq(Upto(list, i))
    /\ Pairwise(q, R)
    /\ \A m \in Upto(list, i) : Alone(m, ToSet(list)) => m \in ToSet(q)

\* The next match is added.
LEMMA LeftNext ==
    ASSUME NEW M, NEW list \in Seq(M), NEW R, NEW i \in 1..Len(list),
           NEW q, LeftOf(q, list, i - 1, R),
           NEW r \in Seq(ToSet(q) \cup {list[i]}), Pairwise(r, R),
           \A x \in ToSet(q) : Parted(x, list[i]) \/ x = list[i] => x \in ToSet(r),
           Alone(list[i], ToSet(q)) => list[i] \in ToSet(r)
    PROVE  LeftOf(r, list, i, R)
<1>1. Upto(list, i) = Upto(list, i - 1) \cup {list[i]}
  <2>1. Len(list) \in Nat
    OBVIOUS
  <2>2. i \in Nat /\ \A k : k \in 1..i <=> k \in 1..i-1 \/ k = i
    BY <2>1
  <2> QED BY <2>2 DEF Upto
<1>2. q \in Seq(Upto(list, i - 1)) /\ ToSet(q) \in SUBSET Upto(list, i - 1)
  BY Elements DEF LeftOf
<1>3. Upto(list, i - 1) \in SUBSET ToSet(list) /\ list[i] \in ToSet(list)
  <2>1. Len(list) \in Nat /\ \A k \in 1..i-1 : k \in 1..Len(list)
    OBVIOUS
  <2>2. \A k \in 1..Len(list) : list[k] \in ToSet(list)
    BY Elements
  <2> QED BY <2>1, <2>2 DEF Upto
<1>4. r \in Seq(Upto(list, i))
  <2>1. ToSet(q) \cup {list[i]} \in SUBSET Upto(list, i)
    BY <1>1, <1>2
  <2> QED BY <2>1
<1>5. ASSUME NEW m \in Upto(list, i), Alone(m, ToSet(list)) PROVE m \in ToSet(r)
  <2>1. CASE m = list[i]
    <3>1. Alone(m, ToSet(q))
      BY <1>2, <1>3, <1>5 DEF Alone
    <3> QED BY <2>1, <3>1
  <2>2. CASE m # list[i]
    <3>1. m \in ToSet(q)
      BY <1>1, <1>5, <2>2 DEF LeftOf
    <3>2. Parted(m, list[i])
      <4>1. Parted(list[i], m)
        BY <1>3, <1>5, <2>2 DEF Alone
      <4> QED BY <4>1 DEF Parted
    <3> QED BY <3>1, <3>2
  <2> QED BY <2>1, <2>2
<1> QED BY <1>4, <1>5 DEF LeftOf

LEMMA LeftOfNone ==
    ASSUME NEW list, NEW R
    PROVE  LeftOf(<<>>, list, 0, R)
BY DEF LeftOf, Upto, Pairwise

\* The matches left by the first pass do not clash.
LEMMA FirstApart ==
    ASSUME NEW M, Intervals(M), NEW list \in Seq(M)
    PROVE  LeftOf(FilterOverlayFirst(list), list, Len(list), NoClash(M))
<1> DEFINE n == Len(list)
           V == Seq(M)
           step == [p \in (1..n) \X V |-> AddFirst(p[2], list[p[1]])]
           rec(g) == [i \in 0..n |-> IF i = 0 THEN <<>> ELSE AddFirst(g[i - 1], list[i])]
           kept == CHOOSE g : g = rec(g)
<1>1. n \in Nat /\ <<>> \in V /\ \A i \in 1..n : list[i] \in M
  OBVIOUS
<1>2. ASSUME NEW q \in V, NEW m \in M PROVE AddFirst(q, m) \in V
  <2> DEFINE T == {k \in ToSet(q) : Clash(k, m) => Wins(k, m)}
             rest == Only(q, T)
  <2>1. T \in SUBSET M
    BY Elements
  <2>2. rest \in Seq(T)
    BY OnlyTyped
  <2>3. AddFirst(q, m) \in {rest, Append(rest, m)}
    BY DEF AddFirst
  <2> HIDE DEF rest, T
  <2>4. rest \in Seq(M)
    BY <2>1, <2>2
  <2>5. Append(rest, m) \in Seq(M)
    BY <2>4
  <2> QED BY <2>3, <2>4, <2>5
<1>3. step \in [(1..n) \X V -> V]
  <2>1. \A p \in (1..n) \X V : AddFirst(p[2], list[p[1]]) \in V
    BY <1>1, <1>2
  <2> HIDE DEF V, n
  <2> QED BY <2>1
<1>4. \A i \in 1..n, v \in V : step[<<i, v>>] = AddFirst(v, list[i])
  OBVIOUS
<1> HIDE DEF step, V
<1>5. PICK g \in [0..n -> V] : Recursive(g, <<>>, step, n)
  BY <1>1, <1>3, RecursionExists
<1>6. g = rec(g)
  <2>1. \A i \in 0..n : g[i] = IF i = 0 THEN <<>> ELSE AddFirst(g[i - 1], list[i])
    <3> TAKE i \in 0..n
    <3>1. CASE i = 0
      BY <1>5, <3>1 DEF Recursive
    <3>2. CASE i # 0
      <4>1. i \in 1..n /\ i - 1 \in 0..n
        BY <1>1, <3>2
      <4>2. g[i] = step[<<i, g[i - 1]>>] /\ g[i - 1] \in V
        BY <1>5, <4>1 DEF Recursive
      <4> QED BY <1>4, <3>2, <4>1, <4>2
    <3> QED BY <3>1, <3>2
  <2> QED BY <1>5, <2>1
<1>7. kept = rec(kept)
  BY <1>6
<1>8. FilterOverlayFirst(list) = kept[n]
  BY DEF FilterOverlayFirst
<1> HIDE DEF kept
<1>9. \A i \in 0..n : kept[i] = IF i = 0 THEN <<>> ELSE AddFirst(kept[i - 1], list[i])
  BY <1>7
<1> HIDE DEF rec
<1> DEFINE A == {i \in 0..n : LeftOf(kept[i], list, i, NoClash(M))}
<1>10. 0 \in A
  BY <1>1, <1>9, LeftOfNone
<1>11. ASSUME NEW i \in 1..n, i - 1 \in A PROVE i \in A
  <2>1. i \in 0..n /\ i # 0 /\ list[i] \in M
    BY <1>1
  <2>2. LeftOf(kept[i - 1], list, i - 1, NoClash(M)) /\ kept[i] = AddFirst(kept[i - 1], list[i])
    BY <1>9, <1>11, <2>1
  <2>3. kept[i - 1] \in Seq(M) /\ Pairwise(kept[i - 1], NoClash(M))
    <3>1. Upto(list, i - 1) \in SUBSET M
      BY <1>1 DEF Upto
    <3>2. kept[i - 1] \in Seq(Upto(list, i - 1)) /\ Pairwise(kept[i - 1], NoClash(M))
      BY <2>2 DEF LeftOf
    <3> QED BY <3>1, <3>2
  <2> DEFINE r == AddFirst(kept[i - 1], list[i])
  <2>4. /\ r \in Seq(ToSet(kept[i - 1]) \cup {list[i]})
        /\ Pairwise(r, NoClash(M))
        /\ \A x \in ToSet(kept[i - 1]) : Parted(x, list[i]) \/ x = list[i] => x \in ToSet(r)
        /\ Alone(list[i], ToSet(kept[i - 1])) => list[i] \in ToSet(r)
    BY <2>1, <2>3, AddFirstApart
  <2> HIDE DEF r
  <2>5. LeftOf(r, list, i, NoClash(M))
    BY <2>2, <2>4, LeftNext
  <2> QED BY <2>1, <2>2, <2>5 DEF r
<1>12. n \in A
  <2>1. 0..n \subseteq A
    <3> HIDE DEF A, n
    <3> QED BY <1>1, <1>10, <1>11, UpToN
  <2> QED BY <1>1, <2>1
<1> QED BY <1>8, <1>12

\* Of matches that do not clash the second pass leaves some that are parted.
LEMMA SecondParted ==
    ASSUME NEW M, Intervals(M), NEW list \in Seq(M), Pairwise(list, NoClash(M))
    PROVE  LeftOf(FilterOverlaySecond(list), list, Len(list), PartedIn(M))
<1> DEFINE n == Len(list)
           V == Seq(M)
           step == [p \in (1..n) \X V |-> AddSecond(p[2], list[p[1]])]
           rec(g) == [i \in 0..n |-> IF i = 0 THEN <<>> ELSE AddSecond(g[i - 1], list[i])]
           kept == CHOOSE g : g = rec(g)
<1>1. n \in Nat /\ <<>> \in V /\ \A i \in 1..n : list[i] \in M
  OBVIOUS
<1>2. ASSUME NEW q \in V, NEW m \in M PROVE AddSecond(q, m) \in V
  <2> DEFINE T == {k \in ToSet(q) : Same(k, m) \/ ~Within(k, m)}
             rest == Only(q, T)
  <2>1. T \in SUBSET M
    BY Elements
  <2>2. rest \in Seq(T)
    BY OnlyTyped
  <2>3. AddSecond(q, m) \in {rest, Append(rest, m)}
    BY DEF AddSecond
  <2> HIDE DEF rest, T
  <2>4. rest \in Seq(M)
    BY <2>1, <2>2
  <2>5. Append(rest, m) \in Seq(M)
    BY <2>4
  <2> QED BY <2>3, <2>4, <2>5
<1>3. step \in [(1..n) \X V -> V]
  <2>1. \A p \in (1..n) \X V : AddSecond(p[2], list[p[1]]) \in V
    BY <1>1, <1>2
  <2> HIDE DEF V, n
  <2> QED BY <2>1
<1>4. \A i \in 1..n, v \in V : step[<<i, v>>] = AddSecond(v, list[i])
  OBVIOUS
<1> HIDE DEF step, V
<1>5. PICK g \in [0..n -> V] : Recursive(g, <<>>, step, n)
  BY <1>1, <1>3, RecursionExists
<1>6. g = rec(g)
  <2>1. \A i \in 0..n : g[i] = IF i = 0 THEN <<>> ELSE AddSecond(g[i - 1], list[i])
    <3> TAKE i \in 0..n
    <3>1. CASE i = 0
      BY <1>5, <3>1 DEF Recursive
    <3>2. CASE i # 0
      <4>1. i \in 1..n /\ i - 1 \in 0..n
        BY <1>1, <3>2
      <4>2. g[i] = step[<<i, g[i - 1]>>] /\ g[i - 1] \in V
        BY <1>5, <4>1 DEF Recursive
      <4> QED BY <1>4, <3>2, <4>1, <4>2
    <3> QED BY <3>1, <3>2
  <2> QED BY <1>5, <2>1
<1>7. kept = rec(kept)
  BY <1>6
<1>8. FilterOverlaySecond(list) = kept[n]
  BY DEF FilterOverlaySecond
<1> HIDE DEF kept
<1>9. \A i \in 0..n : kept[i] = IF i = 0 THEN <<>> ELSE AddSecond(kept[i - 1], list[i])
  BY <1>7
<1> HIDE DEF rec
<1> DEFINE A == {i \in 0..n : LeftOf(kept[i], list, i, PartedIn(M))}
<1>10. 0 \in A
  BY <1>1, <1>9, LeftOfNone
<1>11. ASSUME NEW i \in 1..n, i - 1 \in A PROVE i \in A
  <2>1. i \in 0..n /\ i # 0 /\ list[i] \in M
    BY <1>1
  <2>2. LeftOf(kept[i - 1], list, i - 1, PartedIn(M)) /\ kept[i] = AddSecond(kept[i - 1], list[i])
    BY <1>9, <1>11, <2>1
  <2>3. kept[i - 1] \in Seq(M) /\ Pairwise(kept[i - 1], PartedIn(M))
    <3>1. Upto(list, i - 1) \in SUBSET M
      BY <1>1 DEF Upto
    <3>2. kept[i - 1] \in Seq(Upto(list, i - 1)) /\ Pairwise(kept[i - 1], PartedIn(M))
      BY <2>2 DEF LeftOf
    <3> QED BY <3>1, <3>2
  <2>0. ASSUME NEW k \in ToSet(kept[i - 1]) PROVE ~Clash(k, list[i])
    <3>1. k \in Upto(list, i - 1)
      BY <2>2, Elements DEF LeftOf
    <3>2. PICK j \in 1..i-1 : k = list[j]
      BY <3>1 DEF Upto
    <3>3. j \in 1..n /\ j < i
      BY <1>1, <2>1
    <3> QED BY <3>2, <3>3 DEF Pairwise, NoClash
  <2> DEFINE r == AddSecond(kept[i - 1], list[i])
  <2>4. /\ r \in Seq(ToSet(kept[i - 1]) \cup {list[i]})
        /\ Pairwise(r, PartedIn(M))
        /\ \A x \in ToSet(kept[i - 1]) : Parted(x, list[i]) \/ x = list[i] => x \in ToSet(r)
        /\ Alone(list[i], ToSet(kept[i - 1])) => list[i] \in ToSet(r)
    BY <2>0, <2>1, <2>3, AddSecondParted
  <2> HIDE DEF r
  <2>5. LeftOf(r, list, i, PartedIn(M))
    BY <2>2, <2>4, LeftNext
  <2> QED BY <2>1, <2>2, <2>5 DEF r
<1>12. n \in A
  <2>1. 0..n \subseteq A
    <3> HIDE DEF A, n
    <3> QED BY <1>1, <1>10, <1>11, UpToN
  <2> QED BY <1>1, <2>1
<1> QED BY <1>8, <1>12

\* Whatever the rules matched, any number of matches in any order: what FilterOverlay
\* leaves are some of them, every two of them disjoint, and among them is each match that
\* overlaps no other.  The list is changed by every match that is added, and a match may
\* drive out several that come before it.
THEOREM OverlaysResolved ==
    ASSUME NEW M, Intervals(M), NEW list \in Seq(M)
    PROVE  LET left == FilterOverlaySecond(FilterOverlayFirst(list))
           IN  /\ left \in Seq(ToSet(list))
               /\ \A i, j \in DOMAIN left : i # j => Parted(left[i], left[j])
               /\ \A m \in ToSet(list) : Alone(m, ToSet(list)) => m \in ToSet(left)
<1> DEFINE first == FilterOverlayFirst(list)
           left == FilterOverlaySecond(first)
<1>1. LeftOf(first, list, Len(list), NoClash(M))
  BY FirstApart
<1>2. ASSUME NEW s \in Seq(M) PROVE Upto(s, Len(s)) = ToSet(s)
  BY DEF Upto, ToSet
<1>3. first \in Seq(ToSet(list)) /\ Pairwise(first, NoClash(M)) /\ ToSet(list) \in SUBSET M
  BY <1>1, <1>2, Elements DEF LeftOf
<1>4. first \in Seq(M)
  <2> HIDE DEF first
  <2> QED BY <1>3
<1> HIDE DEF first
<1>5. LeftOf(left, first, Len(first), PartedIn(M))
  BY <1>3, <1>4, SecondParted
<1>6. left \in Seq(ToSet(first)) /\ Pairwise(left, PartedIn(M))
  BY <1>2, <1>4, <1>5 DEF LeftOf
<1>7. ToSet(first) \in SUBSET ToSet(list)
  BY <1>3, Elements
<1> HIDE DEF left
<1>8. left \in Seq(ToSet(list))
  BY <1>6, <1>7
<1>9. ASSUME NEW i \in DOMAIN left, NEW j \in DOMAIN left, i # j
      PROVE  Parted(left[i], left[j])
  <2>1. i \in 1..Len(left) /\ j \in 1..Len(left) /\ Len(left) \in Nat
    BY <1>6
  <2>2. CASE i < j
    BY <1>6, <2>1, <2>2 DEF Pairwise, PartedIn
  <2>3. CASE j < i
    <3>1. Parted(left[j], left[i])
      BY <1>6, <2>1, <2>3 DEF Pairwise, PartedIn
    <3> QED BY <3>1 DEF Parted
  <2> QED BY <1>9, <2>1, <2>2, <2>3
<1>10. ASSUME NEW m \in ToSet(list), Alone(m, ToSet(list)) PROVE m \in ToSet(left)
  <2>1. m \in ToSet(first)
    BY <1>1, <1>2, <1>10 DEF LeftOf
  <2>2. Alone(m, ToSet(first))
    BY <1>7, <1>10 DEF Alone
  <2> QED BY <1>2, <1>4, <1>5, <2>1, <2>2 DEF LeftOf
<1> QED BY <1>8, <1>9, <1>10 DEF left, first

=============================================================================
