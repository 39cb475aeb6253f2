----------------------- MODULE PhoneNumberFormatProofs -----------------------
(***************************************************************************)
(* The geocoding library, for any number of threads and openings; and what *)
(* is shown of a number as it is typed, changed and pasted over, of any    *)
(* length and in any order of the changes.                                 *)
(***************************************************************************)
EXTENDS PhoneNumberFormat, FilteringProofs, SequenceTheorems

\* The threads' labels and the flag have their types.
LabelsOK == handler \in BOOLEAN /\ pc \in [Threads -> {"idle", "open", "ask"}]

LibInv == LabelsOK /\ OpenedOnce

\* What the text field does leaves the library alone.
LEMMA TypingElsewhere ==
    ASSUME (\E c \in Chars : Type(c)) \/ Delete \/ (\E number \in Pastes : Paste(number))
    PROVE  UNCHANGED locating
BY DEF Type, Delete, Paste, Format

\* Every step keeps the count of openings and the flag together: dlopen is called
\* only where the flag was found unset under the mutex, dlclose only where it is set.
LEMMA LibraryKept == LibInv /\ [Next]_vars => LibInv'
<1> SUFFICES ASSUME LibInv, [Next]_vars PROVE LibInv'
    OBVIOUS
<1> USE DEF LibInv, LabelsOK, OpenedOnce
<1>1. CASE (\E c \in Chars : Type(c)) \/ Delete \/ (\E number \in Pastes : Paste(number))
    BY <1>1, TypingElsewhere DEF locating
<1>2. ASSUME NEW t \in Threads, GetPhoneLocationName(t) PROVE LibInv'
    BY <1>2 DEF GetPhoneLocationName, Goto
<1>3. ASSUME NEW t \in Threads, OpenHandler(t) PROVE LibInv'
    <2>1. LabelsOK'
        BY <1>3 DEF OpenHandler, Goto
    <2>2. CASE UNCHANGED <<handler, opened, opens>>
        BY <2>1, <2>2
    <2>3. CASE ~handler /\ handler' = TRUE /\ opened' = opened + 1
        <3>1. opened = 0
            BY <2>3
        <3>2. opened' = 1
            BY <3>1, <2>3
        <3> QED
            BY <2>1, <2>3, <3>2
    <2> QED
        BY <1>3, <2>2, <2>3 DEF OpenHandler
<1>4. ASSUME NEW t \in Threads, AskLibrary(t) PROVE LibInv'
    BY <1>4 DEF AskLibrary, Goto
<1>5. CASE CloseDynamicHandler
    <2>1. LabelsOK'
        BY <1>5 DEF CloseDynamicHandler
    <2>2. opened' = 0
        <3>1. CASE handler
            <4>1. opened = 1
                BY <3>1
            <4>2. opened' = opened - 1
                BY <1>5, <3>1 DEF CloseDynamicHandler
            <4> QED
                BY <4>1, <4>2
        <3>2. CASE ~handler
            BY <1>5, <3>2, Zenon DEF CloseDynamicHandler
        <3> QED
            BY <3>1, <3>2
    <2> QED
        BY <1>5, <2>1, <2>2, Zenon DEF CloseDynamicHandler
<1>6. CASE UNCHANGED vars
    BY <1>6 DEF vars, locating
<1> QED
    BY <1>1, <1>2, <1>3, <1>4, <1>5, <1>6 DEF Next

\* For any number of threads that look up locations and any number of destroyed addons,
\* PhoneNumberFormat::OpenHandler and CloseDynamicHandler leave the library open once
\* where dynamicHandler is set, and not at all where it is not: dlopen and dlclose match.
THEOREM LibraryOpenedOnce == Spec => []OpenedOnce
<1>1. Init => LibInv
    BY DEF Init, LibInv, LabelsOK, OpenedOnce
<1>2. LibInv => OpenedOnce
    BY DEF LibInv
<1> QED
    BY <1>1, <1>2, LibraryKept, PTL DEF Spec

-----------------------------------------------------------------------------
(* What the field's text keeps of what was typed. *)

FieldTyped ==
    /\ fed \in Seq(Chars) /\ last \in Seq(Digits)
    /\ text \in Seq(Chars) /\ answer \in Seq(Chars)

\* A number that only grew was fed as it was typed; one past the limit is returned as it is.
TypedFed ==
    /\ typed \in Seq(Digits)
    /\ grown /\ Len(text) <= MaxNumber => fed = typed /\ last = typed /\ answer = Shown(typed)
    /\ Len(text) > MaxNumber => answer = text

GroupedInv == FieldTyped /\ TypedFed

\* What is not a blank.
Kept(s) == Only(s, Chars \ {Blank})

\* The digit the formatter is given brings it to what the number keeps.
GivesRest(number) ==
    OnlyGrown(number) => Kept(number) = Append(Kept(fed), Last(Dialed(number)))

\* The formatter holds the digits of lastFormatNumber, and a plus only near the front.
FedLast ==
    /\ last = Dialed(fed)
    /\ \A i \in 1..Len(fed) : fed[i] = Plus => i <= MaxNumber

\* Up to the limit the text, the formatter and the answer keep the same.
ShortKept ==
    Len(text) <= MaxNumber =>
        /\ answer = Shown(fed)
        /\ Kept(fed) = Kept(text) /\ Dialed(text) = last

\* Past it the formatter rests: when the text gets short again, either it is fed anew
\* or the digit it is given is the one it does not have yet.
LongKept ==
    Len(text) > MaxNumber =>
        /\ answer = text
        /\ \A n \in 0..MaxNumber : GivesRest(SubSeq(text, 1, n))
        /\ Plain(SubSeq(text, 1, MaxNumber + 1)) => Kept(fed) = last

InStep == FedLast /\ ShortKept /\ LongKept

\* From a paste of or over a plus that the formatter is not fed, to when it is fed anew,
\* nothing is claimed.
KeptInv == FieldTyped /\ (~astray => InStep)

-----------------------------------------------------------------------------
(* The formatter. *)

LEMMA CharsDistinct ==
    /\ Digits \subseteq Chars /\ Plus \in Chars /\ Blank \in Chars
    /\ Plus \notin Digits /\ Blank \notin Digits /\ Plus # Blank
    /\ \A c \in Digits \cup {Plus, Blank} : Fed(c) = c
    /\ \A c \in Chars : Fed(c) \in Chars
BY PhoneAssumption DEF Chars, Fed

\* A text of two characters or more ends with its last two.
LEMMA LastTwo ==
    ASSUME NEW S, NEW s \in Seq(S), Len(s) >= 2
    PROVE  LET front == SubSeq(s, 1, Len(s) - 2)
               x == s[Len(s) - 1]
               y == s[Len(s)]
           IN  /\ front \in Seq(S) /\ Len(front) = Len(s) - 2 /\ x \in S /\ y \in S
               /\ \A i \in 1..Len(front) : front[i] = s[i]
               /\ s = Append(Append(front, x), y)
               /\ SubSeq(s, Len(s) - 1, Len(s)) = <<x, y>>
<1> DEFINE n == Len(s)
           front == SubSeq(s, 1, n - 2)
           x == s[n - 1]
           y == s[n]
<1>1. n \in Nat /\ n >= 2 /\ (\A i \in 1..n : s[i] \in S) /\ Len(s) = n
  OBVIOUS
<1> HIDE DEF n
<1>5. x \in S /\ y \in S
  BY <1>1
<1>2. /\ front \in Seq(S) /\ Len(front) = n - 2
      /\ \A i \in 1..Len(front) : front[i] = s[i]
  BY <1>1
<1>3. s = Append(Append(front, x), y)
  <2> DEFINE t == Append(Append(front, x), y)
  <2> HIDE DEF front
  <2> HIDE DEF x, y
  <2>1. t \in Seq(S) /\ Len(t) = n
    BY <1>1, <1>2, <1>5
  <2>2. ASSUME NEW i \in 1..n PROVE t[i] = s[i]
    <3>1. t[i] = IF i = n THEN y ELSE IF i = n - 1 THEN x ELSE front[i]
      BY <1>1, <1>2, <1>5
    <3> QED BY <1>1, <1>2, <3>1 DEF x, y
  <2> HIDE DEF t
  <2>3. Len(s) = Len(t) /\ \A i \in 1..Len(s) : s[i] = t[i]
    BY <1>1, <2>1, <2>2
  <2>4. s = t
    BY <2>1, <2>3, SeqEqual
  <2> QED BY <2>4 DEF t
<1>4. SubSeq(s, n - 1, n) = <<x, y>>
  <2> DEFINE p == SubSeq(s, n - 1, n)
             q == <<x, y>>
  <2>1. p \in Seq(S) /\ Len(p) = 2 /\ p[1] = s[n - 1] /\ p[2] = s[n]
    BY <1>1
  <2>2. q \in Seq(S) /\ Len(q) = 2 /\ q[1] = x /\ q[2] = y
    BY <1>5
  <2>3. \A i \in 1..2 : i = 1 \/ i = 2
    OBVIOUS
  <2>4. \A i \in 1..2 : p[i] = q[i]
    BY <2>1, <2>2, <2>3
  <2> HIDE DEF p, q
  <2> QED BY <2>1, <2>2, <2>4, SeqEqual DEF p, q
<1> QED BY <1>1, <1>2, <1>3, <1>4, <1>5 DEF n

\* Shown only adds a blank.
LEMMA ShownIs ==
    ASSUME NEW s \in Seq(Chars)
    PROVE  \/ Shown(s) = s
           \/ /\ Len(s) > 2
              /\ Shown(s) = Append(Append(Append(SubSeq(s, 1, Len(s) - 2), Blank),
                                          s[Len(s) - 1]), s[Len(s)])
<1>1. CASE Len(s) > 2
  <2> DEFINE front == SubSeq(s, 1, Len(s) - 2)
             x == s[Len(s) - 1]
             y == s[Len(s)]
  <2>1. /\ front \in Seq(Chars) /\ x \in Chars /\ y \in Chars
        /\ SubSeq(s, Len(s) - 1, Len(s)) = <<x, y>>
    BY <1>1, LastTwo
  <2>2. Shown(s) = s \/ Shown(s) = front \o <<Blank>> \o <<x, y>>
    BY <2>1 DEF Shown
  <2> HIDE DEF front, x, y
  <2>3. front \o <<Blank>> \o <<x, y>> = Append(Append(Append(front, Blank), x), y)
    BY <2>1, CharsDistinct
  <2> QED BY <1>1, <2>2, <2>3 DEF front, x, y
<1>2. CASE ~(Len(s) > 2)
  <2>1. Len(s) <= 2
    BY <1>2
  <2> QED BY <2>1 DEF Shown
<1> QED BY <1>1, <1>2

LEMMA ShownTyped == \A s \in Seq(Chars) : Shown(s) \in Seq(Chars)
<1> TAKE s \in Seq(Chars)
<1> DEFINE front == SubSeq(s, 1, Len(s) - 2)
           x == s[Len(s) - 1]
           y == s[Len(s)]
<1>1. Len(s) > 2 => front \in Seq(Chars) /\ x \in Chars /\ y \in Chars
  BY LastTwo
<1>2. \/ Shown(s) = s
      \/ Len(s) > 2 /\ Shown(s) = Append(Append(Append(front, Blank), x), y)
  BY ShownIs
<1> HIDE DEF front, x, y
<1> QED BY <1>1, <1>2, CharsDistinct

\* Only of a text with one more character.
LEMMA OnlyNext ==
    \A s \in Seq(Chars), c \in Chars : \A T :
        /\ Append(s, c) \in Seq(Chars)
        /\ c \in T => Only(Append(s, c), T) = Append(Only(s, T), c)
        /\ c \notin T => Only(Append(s, c), T) = Only(s, T)
<1> SUFFICES ASSUME NEW s \in Seq(Chars), NEW c \in Chars, NEW T
             PROVE  Only(Append(s, c), T) = IF c \in T THEN Append(Only(s, T), c) ELSE Only(s, T)
  OBVIOUS
<1> QED BY OnlyAppend

\* What is not a blank stays in its order.
LEMMA ShownKeeps ==
    ASSUME NEW s \in Seq(Chars), NEW T, Blank \notin T
    PROVE  Only(Shown(s), T) = Only(s, T)
<1> DEFINE front == SubSeq(s, 1, Len(s) - 2)
           x == s[Len(s) - 1]
           y == s[Len(s)]
<1>1. CASE Shown(s) = s
  BY <1>1
<1>2. CASE Len(s) > 2 /\ Shown(s) = Append(Append(Append(front, Blank), x), y)
  <2> DEFINE spaced == Append(front, Blank)
             frontx == Append(front, x)
             spacedx == Append(spaced, x)
  <2>1. /\ front \in Seq(Chars) /\ x \in Chars /\ y \in Chars /\ Blank \in Chars
        /\ s = Append(frontx, y)
    BY <1>2, LastTwo, CharsDistinct
  <2>2. Shown(s) = Append(spacedx, y)
    BY <1>2
  <2>7. spaced = Append(front, Blank) /\ frontx = Append(front, x) /\ spacedx = Append(spaced, x)
    OBVIOUS
  <2> HIDE DEF front, x, y, spaced, frontx, spacedx
  <2>3. spaced \in Seq(Chars) /\ Only(spaced, T) = Only(front, T)
    BY <2>1, <2>7, OnlyNext
  <2>4. /\ frontx \in Seq(Chars) /\ spacedx \in Seq(Chars)
        /\ Only(frontx, T) = Only(spacedx, T)
    <3>1. /\ frontx \in Seq(Chars)
          /\ x \in T => Only(frontx, T) = Append(Only(front, T), x)
          /\ x \notin T => Only(frontx, T) = Only(front, T)
      BY <2>1, <2>7, OnlyNext
    <3>2. /\ spacedx \in Seq(Chars)
          /\ x \in T => Only(spacedx, T) = Append(Only(spaced, T), x)
          /\ x \notin T => Only(spacedx, T) = Only(spaced, T)
      BY <2>1, <2>3, <2>7, OnlyNext
    <3> QED BY <2>3, <3>1, <3>2
  <2>5. /\ y \in T => Only(s, T) = Append(Only(frontx, T), y)
        /\ y \notin T => Only(s, T) = Only(frontx, T)
    BY <2>1, <2>4, OnlyNext
  <2>6. /\ y \in T => Only(Shown(s), T) = Append(Only(spacedx, T), y)
        /\ y \notin T => Only(Shown(s), T) = Only(spacedx, T)
    BY <2>1, <2>2, <2>4, OnlyNext
  <2> QED BY <2>4, <2>5, <2>6
<1> QED BY <1>1, <1>2, ShownIs

\* Where there is a plus it stays: only a first one lets the digits be grouped, behind it.
LEMMA ShownPlus ==
    ASSUME NEW s \in Seq(Chars), NEW i \in 1..Len(s), s[i] = Plus
    PROVE  Shown(s)[i] = Plus /\ i \in 1..Len(Shown(s))
<1>1. CASE Shown(s) = s
  BY <1>1
<1>2. CASE Shown(s) # s
  <2> DEFINE front == SubSeq(s, 1, Len(s) - 2)
  <2>1. Len(s) > 2 /\ i = 1
    <3>1. ~(Len(s) <= 2) /\ (s[i] \in Digits \/ ~(s[i] # Plus \/ i > 1))
      BY <1>2 DEF Shown
    <3> QED BY <3>1, CharsDistinct
  <2>2. front \in Seq(Chars) /\ Len(front) = Len(s) - 2 /\ front[1] = Plus
    BY <2>1, LastTwo
  <2>3. s[Len(s) - 1] \in Chars /\ s[Len(s)] \in Chars /\ Blank \in Chars
    BY <2>1, CharsDistinct
  <2>4. Shown(s) = Append(Append(Append(front, Blank), s[Len(s) - 1]), s[Len(s)])
    BY <1>2, ShownIs
  <2> HIDE DEF front
  <2> QED BY <2>1, <2>2, <2>3, <2>4
<1> QED BY <1>1, <1>2

LEMMA DialedTyped == \A s \in Seq(Chars) : Dialed(s) \in Seq(Digits)
BY OnlyTyped DEF Dialed

LEMMA DialedShown ==
    ASSUME NEW s \in Seq(Digits)
    PROVE  s \in Seq(Chars) /\ Dialed(Shown(s)) = s
<1>1. s \in Seq(Chars) /\ Blank \notin Digits
  BY CharsDistinct
<1>2. Only(Shown(s), Digits) = Only(s, Digits)
  BY <1>1, ShownKeeps
<1> QED BY <1>1, <1>2, OnlyAll DEF Dialed

LEMMA ShownEmpty == Shown(<<>>) = <<>>
BY DEF Shown

\* Past the limit nothing changes, up to it the formatter is given one digit or all.
LEMMA FormatCases ==
    ASSUME NEW number \in Seq(Chars), Format(number)
    PROVE  /\ text' = number
           /\ Len(number) > MaxNumber => answer' = number /\ UNCHANGED <<fed, last>>
           /\ Len(number) <= MaxNumber /\ OnlyGrown(number) => InputDigit(Dialed(number))
           /\ Len(number) <= MaxNumber /\ ~OnlyGrown(number) => FormatAllInputNumber(number)
<1>1. Len(number) > MaxNumber <=> ~(Len(number) <= MaxNumber)
  BY PhoneAssumption
<1> QED BY <1>1 DEF Format, GetAsYouTypeFormatResult, OnlyGrown

\* A text that the field passes holds characters, and so does what is left of it.
LEMMA FormatTyped ==
    ASSUME FieldTyped, NEW number \in Seq(Chars), Format(number)
    PROVE  FieldTyped'
<1> DEFINE digits == Dialed(number)
<1>1. digits \in Seq(Digits) /\ text' = number
  BY DialedTyped, FormatCases
<1>2. CASE answer' = number /\ UNCHANGED <<fed, last>>
  BY <1>1, <1>2 DEF FieldTyped
<1>3. CASE OnlyGrown(number) /\ InputDigit(digits)
  <2>1. digits[Len(digits)] \in Chars
    BY <1>1, <1>3, CharsDistinct DEF OnlyGrown, Grown, FieldTyped
  <2>2. fed' \in Seq(Chars) /\ last' \in Seq(Digits)
    BY <1>1, <1>3, <2>1 DEF InputDigit, Last, FieldTyped
  <2>3. answer' \in Seq(Chars)
    BY <1>3, <2>2, ShownTyped DEF InputDigit
  <2> QED BY <1>1, <2>2, <2>3 DEF FieldTyped
<1>4. CASE FormatAllInputNumber(number)
  <2>1. \A i \in 1..Len(number) : Fed(number[i]) \in Chars
    BY CharsDistinct
  <2>2. fed' \in Seq(Chars) /\ last' \in Seq(Digits)
    BY <1>1, <1>4, <2>1 DEF FormatAllInputNumber
  <2>3. answer' \in Seq(Chars)
    BY <1>4, <2>2, ShownTyped DEF FormatAllInputNumber
  <2> QED BY <1>1, <2>2, <2>3 DEF FieldTyped
<1>5. Len(number) > MaxNumber \/ Len(number) <= MaxNumber
  BY PhoneAssumption
<1> QED BY <1>2, <1>3, <1>4, <1>5, FormatCases

\* What the lookups do leaves the text field alone.
LEMMA LocatingElsewhere ==
    ASSUME NEW t \in Threads, GetPhoneLocationName(t) \/ OpenHandler(t) \/ AskLibrary(t)
    PROVE  UNCHANGED typing
BY DEF GetPhoneLocationName, OpenHandler, AskLibrary

-----------------------------------------------------------------------------
(* A number typed digit by digit. *)

\* Another digit.
LEMMA TypedOn ==
    ASSUME GroupedInv, NEW c \in Digits, grown, Type(c), Len(text') <= MaxNumber
    PROVE  fed' = typed' /\ last' = typed' /\ answer' = Shown(typed')
<1> DEFINE number == Append(answer, c)
<1>1. /\ number \in Seq(Chars) /\ Format(number) /\ typed' = Append(typed, c)
      /\ Len(number) <= MaxNumber
  BY CharsDistinct DEF Type, Format, GroupedInv, FieldTyped
<1>2. fed = typed /\ last = typed /\ answer = Shown(typed)
  <2>1. Len(text) > MaxNumber => FALSE
    BY <1>1, PhoneAssumption DEF GroupedInv, TypedFed, FieldTyped
  <2> QED BY <2>1, PhoneAssumption DEF GroupedInv, TypedFed, FieldTyped
<1>3. Dialed(number) = Append(typed, c)
  <2>1. typed \in Seq(Chars) /\ answer \in Seq(Chars) /\ c \in Chars /\ Dialed(answer) = typed
    BY <1>2, DialedShown, CharsDistinct DEF GroupedInv, TypedFed, FieldTyped
  <2> QED BY <2>1, OnlyNext DEF Dialed
<1>4. typed \in Seq(Digits) /\ Last(Append(typed, c)) = c /\ IsPrefix(typed, Append(typed, c))
  BY DEF GroupedInv, TypedFed, Last, IsPrefix
<1>5. CASE typed = <<>>
  <2>1. answer = <<>>
    BY <1>2, <1>5, ShownEmpty
  <2>2. number = <<c>> /\ typed' = <<c>> /\ Fed(c) = c
    BY <1>1, <1>5, <2>1, CharsDistinct
  <2>3. FormatAllInputNumber(number)
    BY <1>1, <1>2, <1>5, FormatCases DEF OnlyGrown, Grown
  <2> HIDE DEF number
  <2>4. fed' = <<c>>
    BY <2>2, <2>3 DEF FormatAllInputNumber
  <2> QED BY <1>1, <1>3, <2>2, <2>3, <2>4 DEF FormatAllInputNumber
<1>6. CASE typed # <<>>
  <2>1. InputDigit(Dialed(number))
    <3>1. OnlyGrown(number)
      BY <1>2, <1>3, <1>4, <1>6 DEF OnlyGrown, Grown
    <3> QED BY <1>1, <3>1, FormatCases
  <2> QED BY <1>1, <1>2, <1>3, <1>4, <2>1 DEF InputDigit
<1> QED BY <1>5, <1>6

LEMMA GroupedKept == GroupedInv /\ [Next]_vars => GroupedInv'
<1> SUFFICES ASSUME GroupedInv, [Next]_vars PROVE GroupedInv'
  OBVIOUS
<1> USE DEF GroupedInv
<1>1. ASSUME NEW c \in Chars, Type(c) PROVE GroupedInv'
  <2>1. Append(answer, c) \in Seq(Chars) /\ Format(Append(answer, c))
    BY <1>1 DEF Type, FieldTyped
  <2>2. FieldTyped'
    BY <2>1, FormatTyped
  <2>3. grown' => grown /\ c \in Digits
    BY <1>1, Zenon DEF Type
  <2>4. typed' \in Seq(Digits)
    BY <1>1 DEF Type, TypedFed
  <2>5. Len(text') > MaxNumber => answer' = text'
    BY <2>1, FormatCases
  <2> QED BY <1>1, <2>2, <2>3, <2>4, <2>5, TypedOn DEF TypedFed
<1>2. CASE Delete
  <2>1. Front(answer) \in Seq(Chars) /\ Format(Front(answer)) /\ typed' = <<>>
    BY <1>2 DEF Delete, Front, FieldTyped
  <2>4. grown' => Len(answer) = 1
    BY <1>2, Zenon DEF Delete
  <2>2. FieldTyped'
    BY <2>1, FormatTyped
  <2>3. ASSUME Len(answer) = 1 PROVE fed' = <<>> /\ last' = <<>> /\ answer' = <<>>
    <3>1. Front(answer) = <<>> /\ Len(<<>>) <= MaxNumber
      BY <2>3, PhoneAssumption DEF Front, FieldTyped
    <3>2. Dialed(<<>>) = <<>> /\ ~OnlyGrown(<<>>)
      BY OnlyEmpty DEF Dialed, OnlyGrown, Grown, FieldTyped
    <3>3. FormatAllInputNumber(<<>>)
      BY <2>1, <3>1, <3>2, FormatCases
    <3> QED BY <3>2, <3>3 DEF FormatAllInputNumber
  <2>5. Len(text') > MaxNumber => answer' = text'
    BY <2>1, FormatCases
  <2> QED BY <2>1, <2>2, <2>3, <2>4, <2>5, ShownEmpty DEF TypedFed
<1>3. ASSUME NEW number \in Pastes, Paste(number) PROVE GroupedInv'
  <2>1. number \in Seq(Chars) /\ Format(number) /\ typed' = <<>> /\ grown' = FALSE
    BY <1>3, PhoneAssumption DEF Paste
  <2>2. FieldTyped'
    BY <2>1, FormatTyped
  <2> QED BY <2>1, <2>2, FormatCases DEF TypedFed
<1>4. CASE UNCHANGED typing
  BY <1>4 DEF typing, FieldTyped, TypedFed
<1> QED BY <1>1, <1>2, <1>3, <1>4, LocatingElsewhere DEF Next, CloseDynamicHandler, vars

LEMMA GroupedInitial == Init => GroupedInv
BY ShownEmpty, PhoneAssumption DEF Init, GroupedInv, FieldTyped, TypedFed

\* For any digits and any number of them up to MAX_NUMBER_LENGTH, also after other
\* texts, pastes and deletions: a number typed digit by digit into an empty field is
\* shown grouped as PhoneNumberFormat::format groups the whole of it, although each
\* text passed to it holds the blanks of the one returned before.
THEOREM NumbersGrouped == Spec => []TypedGrouped
<1>1. GroupedInv => TypedGrouped
  BY DEF GroupedInv, TypedFed, TypedGrouped
<1> QED BY <1>1, GroupedInitial, GroupedKept, PTL DEF Spec

-----------------------------------------------------------------------------
(* What is kept of any text without letters. *)

LEMMA KeptPlain ==
    ASSUME NEW s \in Seq(Chars), Plain(s)
    PROVE  Kept(s) = Dialed(s)
<1> DEFINE S == Digits \cup {Blank}
<1>1. s \in Seq(S)
  BY DEF Plain
<1>2. S \cap (Chars \ {Blank}) = S \cap Digits
  BY CharsDistinct
<1> HIDE DEF S
<1> QED BY <1>1, <1>2, OnlyOfThese DEF Kept, Dialed

LEMMA KeptShown ==
    ASSUME NEW s \in Seq(Chars)
    PROVE  Kept(Shown(s)) = Kept(s) /\ Dialed(Shown(s)) = Dialed(s)
BY ShownKeeps, CharsDistinct DEF Kept, Dialed

LEMMA OneMore ==
    ASSUME NEW S, NEW s \in Seq(S), NEW t \in Seq(S), IsPrefix(s, t), Len(t) = Len(s) + 1
    PROVE  t = Append(s, Last(t))
<1> DEFINE d == t[Len(t)]
           u == Append(s, d)
<1>1. /\ Len(s) \in Nat /\ d \in S
      /\ \A i \in 1..Len(s) : SubSeq(s, 1, Len(s))[i] = s[i] /\ SubSeq(t, 1, Len(s))[i] = t[i]
  OBVIOUS
<1>2. \A i \in 1..Len(s) : s[i] = t[i]
  BY <1>1 DEF IsPrefix
<1>3. u \in Seq(S) /\ Len(u) = Len(t) /\ \A i \in 1..Len(t) : t[i] = u[i]
  BY <1>1, <1>2
<1> HIDE DEF u
<1>4. t = u
  BY <1>3, SeqEqual
<1> QED BY <1>4 DEF u, Last

\* A text without more digits than lastFormatNumber has not grown.
LEMMA PrefixRests ==
    ASSUME FieldTyped, NEW s \in Seq(Chars), Dialed(s) = last, NEW k \in 0..Len(s)
    PROVE  GivesRest(SubSeq(s, 1, k))
<1>1. Len(Dialed(SubSeq(s, 1, k))) <= Len(last)
  BY OnlyOfPrefix DEF Dialed
<1>2. Len(last) \in Nat
  BY DEF FieldTyped
<1> QED BY <1>1, <1>2 DEF GivesRest, OnlyGrown, Grown

\* Digits are what a formatter that holds only digits lacks.
LEMMA PlainGives ==
    ASSUME FieldTyped, Kept(fed) = last, NEW s \in Seq(Chars), Plain(s)
    PROVE  GivesRest(s)
<1> DEFINE digits == Dialed(s)
<1>1. Kept(s) = digits /\ digits \in Seq(Digits)
  BY KeptPlain, DialedTyped
<1> HIDE DEF digits
<1>2. Grown(digits) /\ IsPrefix(last, digits) => digits = Append(last, Last(digits))
  BY <1>1, OneMore DEF FieldTyped, Grown
<1> QED BY <1>1, <1>2 DEF GivesRest, OnlyGrown, digits

-----------------------------------------------------------------------------
(* The formatting of a text up to the limit, and past it. *)

\* Whatever it was fed before, the formatter is in step once it is fed all of a text.
LEMMA AnewKeeps ==
    ASSUME FieldTyped, Letters = {},
           NEW number \in Seq(Chars), Format(number), FedAnew(number)
    PROVE  InStep'
<1>1. text' = number /\ ~(Len(text') > MaxNumber)
  BY FormatCases, PhoneAssumption DEF FedAnew
<1>2. FormatAllInputNumber(number)
  BY FormatCases DEF FedAnew
<1>3. fed' = number
  BY <1>2 DEF FormatAllInputNumber, Fed
<1>4. last' = Dialed(fed') /\ answer' = Shown(fed')
  BY <1>2, <1>3, ShownEmpty DEF FormatAllInputNumber
<1>5. \A i \in 1..Len(fed') : fed'[i] = Plus => i <= MaxNumber
  BY <1>3, PhoneAssumption DEF FedAnew
<1> QED BY <1>1, <1>3, <1>4, <1>5 DEF InStep, FedLast, ShortKept, LongKept

LEMMA FormatKeeps ==
    ASSUME FieldTyped, FedLast, Letters = {},
           NEW number \in Seq(Chars), Format(number), Len(number) <= MaxNumber,
           GivesRest(number)
    PROVE  InStep'
<1> DEFINE digits == Dialed(number)
           d == Last(digits)
<1>1. text' = number /\ ~(Len(text') > MaxNumber)
  BY FormatCases, PhoneAssumption
<1>2. CASE OnlyGrown(number)
  <2>1. /\ last' = digits /\ fed' = Append(fed, d) /\ answer' = Shown(fed')
        /\ Kept(number) = Append(Kept(fed), d)
    BY <1>2, FormatCases DEF InputDigit, GivesRest
  <2>2. digits \in Seq(Digits) /\ d \in Digits /\ digits = Append(last, d)
    <3>1. digits \in Seq(Digits) /\ last \in Seq(Digits) /\ Len(digits) = Len(last) + 1
      BY <1>2, DialedTyped DEF OnlyGrown, Grown, FieldTyped
    <3>2. digits = Append(last, d)
      BY <1>2, <3>1, OneMore DEF OnlyGrown
    <3> QED BY <3>1, <3>2 DEF Last
  <2> HIDE DEF d, digits
  <2>3. fed \in Seq(Chars) /\ d \in Chars /\ d # Blank /\ d # Plus
    BY <2>2, CharsDistinct DEF FieldTyped
  <2>4. Dialed(Append(fed, d)) = Append(Dialed(fed), d)
    BY <2>2, <2>3, OnlyNext DEF Dialed
  <2>5. Kept(Append(fed, d)) = Append(Kept(fed), d)
    BY <2>2, <2>3, OnlyNext DEF Kept
  <2>6. \A i \in 1..Len(fed') : fed'[i] = Plus => i <= MaxNumber
    BY <2>1, <2>3 DEF FedLast
  <2> QED BY <1>1, <2>1, <2>2, <2>4, <2>5, <2>6 DEF InStep, FedLast, ShortKept, LongKept, digits
<1>3. CASE ~OnlyGrown(number)
  BY <1>3, AnewKeeps DEF FedAnew
<1> QED BY <1>2, <1>3

LEMMA LongRests ==
    ASSUME FieldTyped, FedLast,
           NEW number \in Seq(Chars), Format(number), Len(number) > MaxNumber,
           \A n \in 0..MaxNumber : GivesRest(SubSeq(number, 1, n)),
           Plain(SubSeq(number, 1, MaxNumber + 1)) => Kept(fed) = last
    PROVE  InStep'
<1>1. text' = number /\ answer' = number /\ fed' = fed /\ last' = last
  BY FormatCases
<1>2. ~(Len(text') <= MaxNumber)
  BY <1>1, PhoneAssumption
<1>3. \A n \in 0..MaxNumber : GivesRest(SubSeq(text, 1, n))'
  BY <1>1 DEF GivesRest, OnlyGrown, Grown
<1> QED BY <1>1, <1>2, <1>3 DEF InStep, FedLast, ShortKept, LongKept

\* The text past the limit begins with an answer of the formatter.
LEMMA AnswerRests ==
    ASSUME FieldTyped, FedLast, Letters = {}, answer = Shown(fed), Dialed(answer) = last,
           NEW number \in Seq(Chars), Format(number), Len(number) > MaxNumber,
           Len(answer) >= MaxNumber, \A i \in 1..MaxNumber : number[i] = answer[i]
    PROVE  InStep'
<1>1. ASSUME NEW n \in 0..MaxNumber PROVE GivesRest(SubSeq(number, 1, n))
  <2>1. n \in 0..Len(answer) /\ n \in 0..Len(number) /\ answer \in Seq(Chars)
    BY PhoneAssumption DEF FieldTyped
  <2>2. SubSeq(number, 1, n) = SubSeq(answer, 1, n)
    BY <2>1, PhoneAssumption
  <2> QED BY <2>1, <2>2, PrefixRests
<1>2. ASSUME Plain(SubSeq(number, 1, MaxNumber + 1)) PROVE Kept(fed) = last
  <2>1. ASSUME NEW i \in 1..Len(fed) PROVE fed[i] \in Digits \cup {Blank}
    <3>1. fed[i] \in Digits \cup {Blank, Plus} /\ fed \in Seq(Chars)
      BY DEF FieldTyped, Chars
    <3>2. ASSUME fed[i] = Plus PROVE FALSE
      <4>1. i \in 1..MaxNumber /\ answer[i] = Plus
        BY <3>1, <3>2, ShownPlus, PhoneAssumption DEF FedLast
      <4>2. SubSeq(number, 1, MaxNumber + 1)[i] = Plus /\ i \in 1..Len(SubSeq(number, 1, MaxNumber + 1))
        BY <4>1, PhoneAssumption
      <4> QED BY <1>2, <4>2, CharsDistinct DEF Plain
    <3> QED BY <3>1, <3>2
  <2> QED BY <2>1, KeptPlain DEF Plain, FieldTyped, FedLast
<1> QED BY <1>1, <1>2, LongRests

-----------------------------------------------------------------------------
(* The changes of a text. *)

LEMMA TypeKeeps ==
    ASSUME FieldTyped, InStep, Letters = {}, NEW c \in Chars, Type(c)
    PROVE  InStep'
<1> DEFINE number == Append(answer, c)
<1>1. /\ number \in Seq(Chars) /\ Format(number) /\ Len(number) = Len(answer) + 1
      /\ answer \in Seq(Chars) /\ \A i \in 1..Len(answer) : number[i] = answer[i]
      /\ Len(answer) \in Nat
  BY DEF Type, InStep, FieldTyped
<1>2. Len(number) > MaxNumber \/ Len(number) <= MaxNumber
  BY <1>1, PhoneAssumption
<1>3. CASE Len(text) <= MaxNumber
  <2>1. /\ answer = Shown(fed) /\ Dialed(answer) = last /\ Dialed(fed) = last
        /\ Kept(answer) = Kept(fed)
    BY <1>3, KeptShown DEF InStep, ShortKept, FedLast, FieldTyped
  <2>2. GivesRest(number)
    <3>1. CASE c \in Digits
      <4>1. Dialed(number) = Append(Dialed(answer), c)
        BY <1>1, <3>1, OnlyNext DEF Dialed
      <4>3. Kept(number) = Append(Kept(answer), c)
        BY <1>1, <3>1, CharsDistinct, OnlyNext DEF Kept
      <4>2. Last(Append(last, c)) = c
        BY <3>1 DEF Last, InStep, FieldTyped
      <4> QED BY <2>1, <4>1, <4>2, <4>3 DEF GivesRest
    <3>2. CASE c \notin Digits
      <4>1. Dialed(number) = last
        BY <1>1, <2>1, <3>2, OnlyNext DEF Dialed
      <4> QED BY <4>1 DEF GivesRest, OnlyGrown, Grown, InStep, FieldTyped
    <3> QED BY <3>1, <3>2
  <2>3. CASE Len(number) <= MaxNumber
    BY <1>1, <2>2, <2>3, FormatKeeps DEF InStep
  <2>4. CASE Len(number) > MaxNumber
    <3>1. Len(answer) >= MaxNumber /\ \A i \in 1..MaxNumber : number[i] = answer[i]
      BY <1>1, <2>4, PhoneAssumption
    <3> HIDE DEF number
    <3> QED BY <1>1, <2>1, <2>4, <3>1, AnswerRests DEF InStep
  <2> QED BY <1>2, <2>3, <2>4
<1>4. CASE Len(text) > MaxNumber
  <2>1. answer = text
    BY <1>4 DEF InStep, LongKept
  <2>2. Len(number) > MaxNumber
    BY <1>1, <1>4, <2>1, PhoneAssumption
  <2>3. \A n \in 0..MaxNumber + 1 : SubSeq(number, 1, n) = SubSeq(text, 1, n)
    BY <1>1, <1>4, <2>1, PhoneAssumption
  <2> HIDE DEF number
  <2>4. ASSUME NEW n \in 0..MaxNumber PROVE GivesRest(SubSeq(number, 1, n))
    <3>1. n \in 0..MaxNumber + 1
      BY PhoneAssumption
    <3>2. SubSeq(number, 1, n) = SubSeq(text, 1, n)
      BY <2>3, <3>1
    <3> QED BY <1>4, <3>2 DEF InStep, LongKept
  <2>5. Plain(SubSeq(number, 1, MaxNumber + 1)) => Kept(fed) = last
    <3>1. SubSeq(number, 1, MaxNumber + 1) = SubSeq(text, 1, MaxNumber + 1)
      BY <2>3, PhoneAssumption
    <3> QED BY <1>4, <3>1 DEF InStep, LongKept
  <2> QED BY <1>1, <2>2, <2>4, <2>5, LongRests DEF InStep
<1> QED BY <1>3, <1>4, PhoneAssumption DEF InStep, FieldTyped

LEMMA DeleteKeeps ==
    ASSUME FieldTyped, InStep, Letters = {}, Delete
    PROVE  InStep'
<1> DEFINE number == Front(answer)
           k == Len(answer) - 1
<1>1. /\ number = SubSeq(answer, 1, k) /\ k \in 0..Len(answer) /\ answer \in Seq(Chars)
      /\ number \in Seq(Chars) /\ Format(number) /\ Len(number) = k
      /\ \A i \in 1..k : number[i] = answer[i]
      /\ Len(answer) \in Nat
  <2>1. answer \in Seq(Chars) /\ answer # <<>> /\ Format(number)
    BY DEF Delete, InStep, FieldTyped
  <2>2. number = SubSeq(answer, 1, k) /\ k \in 0..Len(answer) /\ Len(answer) \in Nat
    BY <2>1 DEF Front
  <2> HIDE DEF number, k
  <2>3. number \in Seq(Chars) /\ Len(number) = k /\ \A i \in 1..k : number[i] = answer[i]
    BY <2>1, <2>2
  <2> QED BY <2>1, <2>2, <2>3
<1> HIDE DEF number
<1>2. Len(number) > MaxNumber \/ Len(number) <= MaxNumber
  BY <1>1, PhoneAssumption
<1>3. CASE Len(text) <= MaxNumber
  <2>1. answer = Shown(fed) /\ Dialed(answer) = last
    BY <1>3, KeptShown DEF InStep, ShortKept, FedLast, FieldTyped
  <2>2. CASE Len(number) <= MaxNumber
    <3>1. GivesRest(number)
      BY <1>1, <2>1, PrefixRests DEF InStep
    <3> QED BY <1>1, <2>2, <3>1, FormatKeeps DEF InStep
  <2>3. CASE Len(number) > MaxNumber
    <3>1. Len(answer) >= MaxNumber /\ \A i \in 1..MaxNumber : number[i] = answer[i]
      BY <1>1, <2>3, PhoneAssumption
    <3> QED BY <1>1, <2>1, <2>3, <3>1, AnswerRests DEF InStep
  <2> QED BY <1>2, <2>2, <2>3
<1>4. CASE Len(text) > MaxNumber
  <2>1. /\ answer = text
        /\ \A n \in 0..MaxNumber : GivesRest(SubSeq(text, 1, n))
        /\ Plain(SubSeq(text, 1, MaxNumber + 1)) => Kept(fed) = last
    BY <1>4 DEF InStep, LongKept
  <2>2. CASE Len(number) <= MaxNumber
    <3>1. k = MaxNumber
      BY <1>1, <1>4, <2>1, <2>2, PhoneAssumption
    <3>2. GivesRest(number)
      BY <1>1, <2>1, <3>1, PhoneAssumption
    <3> QED BY <1>1, <2>2, <3>2, FormatKeeps DEF InStep
  <2>3. CASE Len(number) > MaxNumber
    <3>1. \A n \in 0..MaxNumber + 1 : SubSeq(number, 1, n) = SubSeq(text, 1, n)
      BY <1>1, <2>1, <2>3, PhoneAssumption
    <3>2. ASSUME NEW n \in 0..MaxNumber PROVE GivesRest(SubSeq(number, 1, n))
      <4>1. n \in 0..MaxNumber + 1
        BY PhoneAssumption
      <4>2. SubSeq(number, 1, n) = SubSeq(text, 1, n)
        BY <3>1, <4>1
      <4> QED BY <2>1, <4>2
    <3>3. Plain(SubSeq(number, 1, MaxNumber + 1)) => Kept(fed) = last
      <4>1. SubSeq(number, 1, MaxNumber + 1) = SubSeq(text, 1, MaxNumber + 1)
        BY <3>1, PhoneAssumption
      <4> QED BY <2>1, <4>1
    <3> QED BY <1>1, <2>3, <3>2, <3>3, LongRests DEF InStep
  <2> QED BY <1>2, <2>2, <2>3
<1> QED BY <1>3, <1>4, PhoneAssumption DEF InStep, FieldTyped

LEMMA PasteKeeps ==
    ASSUME FieldTyped, InStep, Letters = {}, NEW number \in Pastes, Paste(number),
           Plain(text), Plain(number)
    PROVE  InStep'
<1>1. /\ number \in Seq(Chars) /\ Format(number) /\ text \in Seq(Chars) /\ Len(number) \in Nat
  BY PhoneAssumption DEF Paste, FieldTyped
<1>2. Kept(fed) = last
  <2>1. CASE Len(text) <= MaxNumber
    BY <1>1, <2>1, KeptPlain DEF InStep, ShortKept
  <2>2. CASE Len(text) > MaxNumber
    <3>1. Plain(SubSeq(text, 1, MaxNumber + 1))
      BY <1>1, <2>2, PhoneAssumption DEF Plain
    <3> QED BY <2>2, <3>1 DEF InStep, LongKept
  <2> QED BY <1>1, <2>1, <2>2, PhoneAssumption
<1>3. CASE Len(number) <= MaxNumber
  BY <1>1, <1>2, <1>3, PlainGives, FormatKeeps DEF InStep
<1>4. CASE Len(number) > MaxNumber
  <2>1. ASSUME NEW n \in 0..MaxNumber PROVE GivesRest(SubSeq(number, 1, n))
    <3>1. SubSeq(number, 1, n) \in Seq(Chars) /\ Plain(SubSeq(number, 1, n))
      BY <1>1, <1>4, PhoneAssumption DEF Plain
    <3> QED BY <1>2, <3>1, PlainGives
  <2> QED BY <1>1, <1>2, <1>4, <2>1, LongRests DEF InStep
<1> QED BY <1>1, <1>3, <1>4, PhoneAssumption

LEMMA KeptKept == ASSUME Letters = {}, KeptInv, [Next]_vars PROVE KeptInv'
<1> FieldTyped
  BY DEF KeptInv
<1>1. ASSUME NEW c \in Chars, Type(c) PROVE KeptInv'
  <2>1. Append(answer, c) \in Seq(Chars) /\ Format(Append(answer, c))
    BY <1>1 DEF Type, FieldTyped
  <2>2. ~astray' => FedAnew(Append(answer, c)) \/ ~astray
    BY <1>1, Zenon DEF Type
  <2>3. ~astray' => InStep'
    BY <1>1, <2>1, <2>2, AnewKeeps, TypeKeeps DEF KeptInv
  <2> QED BY <2>1, <2>3, FormatTyped DEF KeptInv
<1>2. CASE Delete
  <2>1. Front(answer) \in Seq(Chars) /\ Format(Front(answer))
    BY <1>2 DEF Delete, Front, FieldTyped
  <2>2. ~astray' => FedAnew(Front(answer)) \/ ~astray
    BY <1>2, Zenon DEF Delete
  <2>3. ~astray' => InStep'
    BY <1>2, <2>1, <2>2, AnewKeeps, DeleteKeeps DEF KeptInv
  <2> QED BY <2>1, <2>3, FormatTyped DEF KeptInv
<1>3. ASSUME NEW number \in Pastes, Paste(number) PROVE KeptInv'
  <2>1. number \in Seq(Chars) /\ Format(number)
    BY <1>3, PhoneAssumption DEF Paste
  <2>2. ~astray' => FedAnew(number) \/ (~astray /\ Plain(text) /\ Plain(number))
    BY <1>3, Zenon DEF Paste
  <2>3. ~astray' => InStep'
    BY <1>3, <2>1, <2>2, AnewKeeps, PasteKeeps DEF KeptInv
  <2> QED BY <2>1, <2>3, FormatTyped DEF KeptInv
<1>4. CASE UNCHANGED typing
  <2>1. UNCHANGED <<fed, last, text, answer>>
    BY <1>4 DEF typing
  <2>2. FieldTyped' /\ InStep' = InStep
    BY <2>1 DEF FieldTyped, InStep, FedLast, ShortKept, LongKept, GivesRest, OnlyGrown, Grown
  <2>3. astray' = astray
    BY <1>4 DEF typing
  <2> QED BY <2>2, <2>3, Zenon DEF KeptInv
<1> QED BY <1>1, <1>2, <1>3, <1>4, LocatingElsewhere DEF Next, CloseDynamicHandler, vars

LEMMA KeptInitial == Init => KeptInv
<1> SUFFICES ASSUME Init PROVE KeptInv
  OBVIOUS
<1>1. fed = <<>> /\ last = <<>> /\ text = <<>> /\ answer = <<>>
  BY DEF Init
<1>2. Dialed(<<>>) = <<>>
  BY OnlyEmpty DEF Dialed
<1>3. FieldTyped /\ FedLast
  BY <1>1, <1>2 DEF FieldTyped, FedLast
<1>4. ShortKept /\ LongKept
  BY <1>1, <1>2, ShownEmpty, PhoneAssumption DEF ShortKept, LongKept
<1> QED BY <1>3, <1>4 DEF KeptInv, InStep

LEMMA KeptAll == ASSUME Letters = {} PROVE KeptInv => DigitsKept
<1> SUFFICES ASSUME KeptInv, ~astray PROVE DigitsKept
  BY DEF DigitsKept
<1> InStep /\ FieldTyped
  BY DEF KeptInv
<1>1. [i \in 1..Len(text) |-> Fed(text[i])] = text
  <2>1. \A c : Fed(c) = c
    BY DEF Fed
  <2> QED BY <2>1 DEF FieldTyped
<1>2. Kept(answer) = Kept(text)
  <2>1. CASE Len(text) <= MaxNumber
    BY <2>1, KeptShown DEF InStep, ShortKept, FieldTyped
  <2>2. CASE Len(text) > MaxNumber
    BY <2>2 DEF InStep, LongKept
  <2> QED BY <2>1, <2>2, PhoneAssumption DEF FieldTyped
<1> QED BY <1>1, <1>2 DEF DigitsKept, Kept

\* Where no letters are typed: through any sequence of typed characters, deletions and
\* pastes, texts of any length, also ones that come back from more characters than
\* MAX_NUMBER_LENGTH, PhoneNumberFormat::format returns what was passed to it, but for
\* the blanks; the formatter and lastFormatNumber never drift from the text.  Excepted is
\* the time from a paste of or over a text with a plus that the code takes for one more
\* digit, or that is too long to be formatted, to the next text the formatter is fed whole.
THEOREM NumberKept == ASSUME Letters = {} PROVE Spec => []DigitsKept
<1>1. KeptInv /\ [Next]_vars => KeptInv'
  BY KeptKept
<1>2. KeptInv => DigitsKept
  BY KeptAll
<1> QED BY <1>1, <1>2, KeptInitial, PTL DEF Spec

=============================================================================
