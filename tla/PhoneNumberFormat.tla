------------------------- MODULE PhoneNumberFormat -------------------------
(***************************************************************************)
(* PhoneNumberFormat of the type TYPING: the text of an input field is     *)
(* formatted again after each change, and a text that only grew by one     *)
(* digit is formatted by giving that digit to the formatter, which still   *)
(* holds the ones before.  And the geocoding library, opened at the first  *)
(* lookup of a location by any thread, closed when an addon is destroyed.  *)
(*                                                                         *)
(* libphonenumber's formatter is taken for what it was fed since it was    *)
(* cleared: it groups digits, and stops to once it was fed anything else.  *)
(* A text is a sequence of characters; the field's owner shows what is     *)
(* returned, and the next change is a change of that.                      *)
(*                                                                         *)
(* An operator named X_Y, before X, is X with a slip Y: the properties are *)
(* checked to fail when it takes the place of X.                           *)
(***************************************************************************)
EXTENDS Integers, Sequences, SequencesExt, Filtering

CONSTANTS
    Digits, Plus, Blank,
    Letters,     \* the letters of the keys
    KeyOf,       \* the digit of a letter's key
    Pastes,      \* texts that are pasted over a text
    MaxNumber,   \* MAX_NUMBER_LENGTH, 30 in the code
    Threads, MaxOpens, MaxChanges   \* the last two are bounds

Chars == Digits \cup Letters \cup {Plus, Blank}

ASSUME PhoneAssumption ==
    /\ Plus \notin Digits \cup Letters /\ Blank \notin Digits \cup Letters
    /\ Plus # Blank /\ Digits \cap Letters = {}
    /\ KeyOf \in [Letters -> Digits]
    /\ Pastes \subseteq Seq(Chars)
    /\ MaxNumber \in Nat /\ MaxOpens \in Nat /\ MaxChanges \in Nat

VARIABLES
    fed,       \* what the AsYouTypeFormatter was fed since it was cleared
    last,      \* lastFormatNumber
    text,      \* the text passed last
    answer,    \* what format returned for it
    typed,     \* the digits, if an empty field only grew by digits since
    grown,     \* is it so
    astray,    \* was a plus pasted, or pasted over, since the formatter was fed anew
    changes,   \* bound
    handler,   \* is dynamicHandler set
    opened,    \* calls of dlopen that dlclose has not undone
    opens,     \* bound
    pc

typing == <<fed, last, text, answer, typed, grown, astray, changes>>
locating == <<handler, opened, opens, pc>>
vars == <<typing, locating>>

-----------------------------------------------------------------------------
(* The formatter. *)

\* The digits of a text, as they are dialed.
Dialed(s) == Only(s, Digits)

\* A blank before the last two digits: the groups move as the number grows.
Shown(s) ==
    IF Len(s) <= 2 \/ \E i \in 1..Len(s) : s[i] \notin Digits /\ (s[i] # Plus \/ i > 1)
    THEN s
    ELSE SubSeq(s, 1, Len(s) - 2) \o <<Blank>> \o SubSeq(s, Len(s) - 1, Len(s))

\* A character of VALID_PHONE_NUMBER_CHARS as it is fed.
Fed(c) == IF c \in Letters THEN KeyOf[c] ELSE c

FormatAllInputNumber(number) ==
    /\ fed' = [i \in 1..Len(number) |-> Fed(number[i])]
    /\ last' = Dialed(number)
    /\ answer' = IF number = <<>> THEN <<>> ELSE Shown(fed')

InputDigit(digits) ==
    /\ last' = digits
    /\ fed' = Append(fed, Last(digits))
    /\ answer' = Shown(fed')

Grown(digits) == last # <<>> /\ Len(digits) = Len(last) + 1
OnlyGrown(number) == Grown(Dialed(number)) /\ IsPrefix(last, Dialed(number))

GetAsYouTypeFormatResult_AnyDigits(number) ==
    LET digits == Dialed(number)
    IN  \/ Len(number) > MaxNumber /\ answer' = number /\ UNCHANGED <<fed, last>>
        \/ Len(number) <= MaxNumber /\ Grown(digits) /\ InputDigit(digits)
        \/ Len(number) <= MaxNumber /\ ~Grown(digits) /\ FormatAllInputNumber(number)
GetAsYouTypeFormatResult_AlwaysAll(number) ==
    IF Len(number) > MaxNumber THEN answer' = number /\ UNCHANGED <<fed, last>>
    ELSE FormatAllInputNumber(number)
GetAsYouTypeFormatResult(number) ==
    \/ Len(number) > MaxNumber /\ answer' = number /\ UNCHANGED <<fed, last>>
    \/ Len(number) <= MaxNumber /\ OnlyGrown(number) /\ InputDigit(Dialed(number))
    \/ Len(number) <= MaxNumber /\ ~OnlyGrown(number) /\ FormatAllInputNumber(number)

-----------------------------------------------------------------------------
(* Changes of the input field. *)

Format(number) ==
    /\ changes < MaxChanges /\ changes' = changes + 1
    /\ text' = number
    /\ GetAsYouTypeFormatResult(number)
    /\ UNCHANGED locating

\* The formatter is cleared and fed all of the text.
FedAnew(number) == Len(number) <= MaxNumber /\ ~OnlyGrown(number)

Type(c) ==
    /\ Format(Append(answer, c))
    /\ typed' = IF c \in Digits THEN Append(typed, c) ELSE <<>>
    /\ grown' = (grown /\ c \in Digits)
    /\ astray' = (astray /\ ~FedAnew(Append(answer, c)))

Delete ==
    /\ answer # <<>>
    /\ Format(Front(answer))
    /\ typed' = <<>> /\ grown' = (Len(answer) = 1)
    /\ astray' = (astray /\ ~FedAnew(Front(answer)))

Plain(s) == \A i \in 1..Len(s) : s[i] \in Digits \cup {Blank}

Paste(number) ==
    /\ Format(number)
    /\ typed' = <<>> /\ grown' = FALSE
    /\ astray' = (~FedAnew(number) /\ (astray \/ ~Plain(text) \/ ~Plain(number)))

-----------------------------------------------------------------------------
(* The library. *)

Goto(t, label) == pc' = [pc EXCEPT ![t] = label]

GetPhoneLocationName(t) ==
    /\ pc[t] = "idle"
    /\ Goto(t, IF handler THEN "ask" ELSE "open")
    /\ UNCHANGED <<typing, handler, opened, opens>>

OpenHandler_NoSecondTest(t) ==
    /\ pc[t] = "open"
    /\ Goto(t, "ask")
    /\ opens < MaxOpens /\ opens' = opens + 1
    /\ handler' = TRUE /\ opened' = opened + 1
    /\ UNCHANGED typing
OpenHandler(t) ==
    /\ pc[t] = "open"
    /\ Goto(t, "ask")
    /\ \/ handler /\ UNCHANGED <<handler, opened, opens>>
       \/ ~handler /\ UNCHANGED <<handler, opened, opens>>    \* dlopen fails
       \/ /\ ~handler /\ opens < MaxOpens /\ opens' = opens + 1
          /\ handler' = TRUE /\ opened' = opened + 1
    /\ UNCHANGED typing

\* With the mutex: the library is asked if it is open, otherwise there is no name.
AskLibrary(t) ==
    /\ pc[t] = "ask"
    /\ Goto(t, "idle")
    /\ UNCHANGED <<typing, handler, opened, opens>>

CloseDynamicHandler ==
    /\ handler' = FALSE
    /\ opened' = IF handler THEN opened - 1 ELSE opened
    /\ UNCHANGED <<typing, opens, pc>>

-----------------------------------------------------------------------------
Init ==
    /\ fed = <<>> /\ last = <<>> /\ text = <<>> /\ answer = <<>>
    /\ typed = <<>> /\ grown = TRUE /\ astray = FALSE /\ changes = 0
    /\ handler = FALSE /\ opened = 0 /\ opens = 0
    /\ pc = [t \in Threads |-> "idle"]

Next ==
    \/ \E c \in Chars : Type(c)
    \/ Delete
    \/ \E number \in Pastes : Paste(number)
    \/ \E t \in Threads : GetPhoneLocationName(t) \/ OpenHandler(t) \/ AskLibrary(t)
    \/ CloseDynamicHandler

Spec == Init /\ [][Next]_vars

-----------------------------------------------------------------------------
(* Properties. *)

\* Every variable holds a value of its type; dlclose undoes no more than was opened.
TypeOK ==
    /\ fed \in Seq(Chars) /\ last \in Seq(Digits)
    /\ text \in Seq(Chars) /\ answer \in Seq(Chars) /\ typed \in Seq(Digits)
    /\ grown \in BOOLEAN /\ astray \in BOOLEAN /\ handler \in BOOLEAN
    /\ changes \in 0..MaxChanges /\ opens \in 0..MaxOpens /\ opened \in Nat
    /\ pc \in [Threads -> {"idle", "open", "ask"}]

\* Without letters, the text returned has the plus and the digits of the text passed, in
\* its order, however the field was typed into, shortened and pasted over before.
\* Excepted is the time from a paste of or over a text with a plus that the formatter is
\* not fed whole (one that leaves the old digits and one more gives it that digit only,
\* and it keeps the old plus or misses the new one) to the next text it is fed whole.
DigitsKept ==
    ~astray =>
        Only(answer, Chars \ {Blank}) =
            Only([i \in 1..Len(text) |-> Fed(text[i])], Chars \ {Blank})

\* A number typed digit by digit is shown grouped, although each text passed holds
\* the blanks of the one returned before.
TypedGrouped == grown /\ Len(text) <= MaxNumber => answer = Shown(typed)

\* However openings by several threads and closings interleave, the library is
\* open once if dynamicHandler says so, and not at all otherwise.
OpenedOnce == opened = IF handler THEN 1 ELSE 0

=============================================================================
