-------------------------- MODULE PreferredLanguage -------------------------
(***************************************************************************)
(* PreferredLanguage: the list of preferred languages.  It has no variable *)
(* of its own.  GetPreferredLanguageList computes it from two system       *)
(* parameters, PREFERRED_LANGUAGES and the system language, which always   *)
(* comes first; AddPreferredLanguage and RemovePreferredLanguage compute   *)
(* it several times in one call, then write the system language and the    *)
(* list one after the other.  Several threads may do so at once.           *)
(*                                                                         *)
(* One step is one computation of the list or one write.  Indices count    *)
(* from 0 as in the code; the length limit of a parameter is a number of   *)
(* languages.                                                              *)
(*                                                                         *)
(* An operator named X_Y, before X, is X with a slip Y: the properties are *)
(* checked to fail when it takes the place of X.                           *)
(***************************************************************************)
EXTENDS Integers, SequencesExt, LocaleMatcher

CONSTANTS
    Threads,       \* threads that edit the list
    Tags,          \* valid language tags
    Asked,         \* those that callers add, or set as the system language
    Stored,        \* what PREFERRED_LANGUAGES may hold when the process begins
    Default,       \* DEFAULT_PREFERRED_LANGUAGE
    MaxList,       \* languages that fit in CONFIG_LEN characters
    Indices,       \* the indices callers pass
    Hasty,         \* may others set the system language during an edit
    Faults,        \* what may fail
    MaxFaults,     \* bound on the failures
    MaxOps         \* bound on the calls

AllFaults == {"language", "param"}

ASSUME TagsAssumption ==
    /\ NoLocale \notin Tags
    /\ \A x \in Tags : x = Locale(x.lang, x.script, x.region)
    /\ Candidates \in Seq(Tags)
    /\ \A x \in ToSet(Candidates) : GetMatchedLanguage(x) = x
    /\ Default \in Tags /\ Asked \subseteq Tags
    /\ \A list \in Stored : list \in Seq(Tags) /\ Len(list) <= MaxList
ASSUME BoundsAssumption ==
    /\ Indices \subseteq Int /\ Faults \subseteq AllFaults
    /\ Hasty \in BOOLEAN
    /\ MaxList \in Nat \ {0} /\ MaxFaults \in Nat /\ MaxOps \in Nat

VARIABLES
    preferred,   \* the parameter PREFERRED_LANGUAGES
    language,    \* the system language
    matched,     \* GetMatchedLanguage of every tag: it never changes
    pc, frame,   \* the threads
    ops, faults  \* bounds

vars == <<preferred, language, matched, pc, frame, ops, faults>>

(* The locals of a call.  "before" is the list when the call began; the code  *)
(* does not keep it.                                                          *)
Frame == [op : {"none", "Add", "Remove"}, language : Tags \cup {NoLocale}, index : Int,
          validIndex : Int, languageIdx : Int, list : Seq(Tags), before : Seq(Tags)]
NoFrame == [op |-> "none", language |-> NoLocale, index |-> 0, validIndex |-> 0,
            languageIdx |-> -1, list |-> << >>, before |-> << >>]
Labels == {"idle", "find", "new_index", "new_list", "old_index", "old_find", "old_list",
           "remove", "language", "store", "undefined"}

Goto(t, label) == pc' = [pc EXCEPT ![t] = label]
Keep(t, f) == frame' = [frame EXCEPT ![t] = f]
Return(t) == Goto(t, "idle") /\ Keep(t, NoFrame)
Fault(f) == f \in Faults /\ faults < MaxFaults /\ faults' = faults + 1

-----------------------------------------------------------------------------
(* The list. *)

\* The supported language that is listed for a tag.
Listed(x) == IF matched[x] = NoLocale THEN Default ELSE matched[x]

\* Each of them at its first place.
FilterLanguages(list) ==
    LET found[i \in 0..Len(list)] ==
            IF i = 0 THEN << >>
            ELSE LET x == Listed(list[i])
                     before == found[i - 1]
                 IN  IF Contains(before, x) THEN before ELSE Append(before, x)
    IN  found[Len(list)]

\* The system language goes to the front, from wherever it is in the list.
WithFirst(list, x) == <<x>> \o Only(list, Tags \ {x})

GetPreferredLanguageList ==
    LET list == FilterLanguages(preferred)
        systemLanguage == matched[language]
    IN  IF systemLanguage = NoLocale THEN list ELSE WithFirst(list, systemLanguage)

NormalizeIndex_PastEnd(index, max) ==
    IF index <= 0 THEN 0 ELSE IF index > max THEN max + 1 ELSE index
NormalizeIndex(index, max) ==
    IF index <= 0 THEN 0 ELSE IF index >= max THEN max ELSE index

\* The index of x in the list, or -1.
FindLanguage(x) ==
    LET list == GetPreferredLanguageList
    IN  IF Contains(list, x) THEN (CHOOSE i \in DOMAIN list : list[i] = x) - 1 ELSE -1

\* Positions erase and insert are defined for.
Erasable(list, i) == i \in 0..(Len(list) - 1)
Insertable(list, i) == i \in 0..Len(list)
Erase(list, i) == RemoveAt(list, i + 1)
Insert(list, i, x) == InsertAt(list, i + 1, x)

-----------------------------------------------------------------------------
(* The calls. *)

Begin(t, label, f) ==
    /\ pc[t] = "idle"
    /\ ops < MaxOps /\ ops' = ops + 1
    /\ Goto(t, label)
    /\ Keep(t, [f EXCEPT !.before = GetPreferredLanguageList])
    /\ UNCHANGED <<preferred, language, matched, faults>>

AddPreferredLanguage(t, x, i) ==
    Begin(t, "find", [NoFrame EXCEPT !.op = "Add", !.language = x, !.index = i])

RemovePreferredLanguage(t, i) ==
    Begin(t, "remove", [NoFrame EXCEPT !.op = "Remove", !.index = i])

\* Somebody sets the system language directly.
SetSystemLanguage(x) ==
    /\ ops < MaxOps /\ ops' = ops + 1
    /\ Hasty \/ \A t \in Threads : pc[t] = "idle"
    /\ language' = x
    /\ UNCHANGED <<preferred, matched, pc, frame, faults>>

-----------------------------------------------------------------------------
(* AddPreferredLanguage. *)

Unwritten == UNCHANGED <<preferred, language, matched, ops, faults>>

AddFind(t) ==
    /\ pc[t] = "find"
    /\ Goto(t, IF FindLanguage(frame[t].language) = -1 THEN "new_index" ELSE "old_index")
    /\ UNCHANGED frame /\ Unwritten

\* AddNonExistPreferredLanguage.
NewIndex(t) ==
    /\ pc[t] = "new_index"
    /\ Keep(t, [frame[t] EXCEPT !.validIndex =
                    NormalizeIndex(frame[t].index, Len(GetPreferredLanguageList))])
    /\ Goto(t, "new_list") /\ Unwritten

\* The label after the list was edited: the system language is set when another
\* language became the first.
Edited(f) ==
    IF f.validIndex = 0 \/ f.languageIdx = 0 THEN "language" ELSE "store"

NewList(t) ==
    LET f == frame[t]
        list == GetPreferredLanguageList
    IN  /\ pc[t] = "new_list"
        /\ IF Insertable(list, f.validIndex)
           THEN /\ Keep(t, [f EXCEPT !.list = Insert(list, f.validIndex, f.language)])
                /\ Goto(t, Edited(f))
           ELSE UNCHANGED frame /\ Goto(t, "undefined")
        /\ Unwritten

\* AddExistPreferredLanguage.
OldIndex(t) ==
    /\ pc[t] = "old_index"
    /\ Keep(t, [frame[t] EXCEPT !.validIndex =
                    NormalizeIndex(frame[t].index, Len(GetPreferredLanguageList) - 1)])
    /\ Goto(t, "old_find") /\ Unwritten

OldFind(t) ==
    LET idx == FindLanguage(frame[t].language)
    IN  /\ pc[t] = "old_find"
        /\ IF idx = frame[t].validIndex THEN Return(t)
           ELSE Goto(t, "old_list") /\ Keep(t, [frame[t] EXCEPT !.languageIdx = idx])
        /\ Unwritten

OldList(t) ==
    LET f == frame[t]
        list == GetPreferredLanguageList
    IN  /\ pc[t] = "old_list"
        /\ IF Erasable(list, f.languageIdx)
              /\ Insertable(Erase(list, f.languageIdx), f.validIndex)
           THEN /\ Keep(t, [f EXCEPT !.list =
                              Insert(Erase(list, f.languageIdx), f.validIndex, f.language)])
                /\ Goto(t, Edited(f))
           ELSE UNCHANGED frame /\ Goto(t, "undefined")
        /\ Unwritten

-----------------------------------------------------------------------------
(* RemovePreferredLanguage. *)

RemoveList(t) ==
    LET f == frame[t]
        list == GetPreferredLanguageList
        validIndex == NormalizeIndex(f.index, Len(list) - 1)
    IN  /\ pc[t] = "remove"
        /\ IF Len(list) = 1 THEN Return(t)
           ELSE IF Erasable(list, validIndex)
           THEN /\ Keep(t, [f EXCEPT !.validIndex = validIndex,
                                     !.list = Erase(list, validIndex)])
                /\ Goto(t, IF validIndex = 0 THEN "language" ELSE "store")
           ELSE UNCHANGED frame /\ Goto(t, "undefined")
        /\ Unwritten

-----------------------------------------------------------------------------
(* Writing: LocaleConfig::SetSystemLanguage, then SetPreferredLanguages. *)

WriteLanguage_Skipped(t) ==
    /\ pc[t] = "language"
    /\ Goto(t, "store") /\ UNCHANGED frame
    /\ UNCHANGED <<preferred, language, matched, ops, faults>>
WriteLanguage(t) ==
    /\ pc[t] = "language"
    /\ \/ /\ language' = Head(frame[t].list)
          /\ Goto(t, "store") /\ UNCHANGED <<frame, faults>>
       \/ Fault("language") /\ Return(t) /\ UNCHANGED language
    /\ UNCHANGED <<preferred, matched, ops>>

WriteList_Unchecked(t) ==
    /\ pc[t] = "store"
    /\ preferred' = frame[t].list
    /\ Return(t)
    /\ UNCHANGED <<language, matched, ops, faults>>
\* A list that is too long is refused, with the system language already set.
WriteList(t) ==
    /\ pc[t] = "store"
    /\ \/ /\ Len(frame[t].list) <= MaxList
          /\ preferred' = frame[t].list /\ UNCHANGED faults
       \/ Len(frame[t].list) > MaxList /\ UNCHANGED <<preferred, faults>>
       \/ Len(frame[t].list) <= MaxList /\ Fault("param") /\ UNCHANGED preferred
    /\ Return(t)
    /\ UNCHANGED <<language, matched, ops>>

-----------------------------------------------------------------------------
Init ==
    /\ preferred \in Stored
    /\ language \in Asked
    /\ matched = [x \in Tags |-> GetMatchedLanguage(x)]
    /\ pc = [t \in Threads |-> "idle"]
    /\ frame = [t \in Threads |-> NoFrame]
    /\ ops = 0 /\ faults = 0

Step(t) ==
    \/ AddFind(t) \/ NewIndex(t) \/ NewList(t)
    \/ OldIndex(t) \/ OldFind(t) \/ OldList(t)
    \/ RemoveList(t)
    \/ WriteLanguage(t) \/ WriteList(t)

Next ==
    \/ \E t \in Threads, x \in Asked, i \in Indices : AddPreferredLanguage(t, x, i)
    \/ \E t \in Threads, i \in Indices : RemovePreferredLanguage(t, i)
    \/ \E x \in Asked : SetSystemLanguage(x)
    \/ \E t \in Threads : Step(t)

Spec == Init /\ [][Next]_vars

-----------------------------------------------------------------------------
(* Properties. *)

\* Every variable holds a value of its type, and the stored list fits the parameter.
TypeOK ==
    /\ preferred \in Seq(Tags) /\ Len(preferred) <= MaxList
    /\ language \in Tags
    /\ matched \in [Tags -> ToSet(Candidates) \cup {NoLocale}]
    /\ pc \in [Threads -> Labels]
    /\ frame \in [Threads -> Frame]
    /\ ops \in 0..MaxOps /\ faults \in 0..MaxFaults

\* No call passes erase or insert a position outside the list, although it took
\* the index from an earlier computation of the list.
InRange == \A t \in Threads : pc[t] # "undefined"

\* What the list should be after a successful edit of the list "before": the
\* language, as it is listed, is at the normalised index, or the one at that index
\* is gone; the others keep their order.
Target(f) ==
    LET x == IF f.op = "Add" /\ matched[f.language] # NoLocale THEN matched[f.language]
             ELSE f.language
        others == Only(f.before, Tags \ {x})
        i == IF f.index <= 0 THEN 0
             ELSE IF f.index >= Len(f.before) - 1 THEN Len(f.before) - 1 ELSE f.index
        j == IF f.index <= 0 THEN 0
             ELSE IF f.index >= Len(others) THEN Len(others) ELSE f.index
    IN  IF f.op = "Add" THEN InsertAt(others, j + 1, x)
        ELSE RemoveAt(f.before, i + 1)

\* The call of t returns SUCCESS in this step.
Succeeds(t) ==
    /\ pc[t] = "store" /\ pc'[t] = "idle"
    /\ faults' = faults /\ Len(frame[t].list) <= MaxList

\* "Return SUCCESS indicates that the add operation was successful"
\* (preferred_language.h): when a call succeeds, the list is the one asked for.
EditTakesEffect ==
    [][\A t \in Threads : Succeeds(t) => GetPreferredLanguageList' = Target(frame[t])]_vars

=============================================================================
