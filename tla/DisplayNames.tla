---------------------------- MODULE DisplayNames ----------------------------
(***************************************************************************)
(* The names of languages, regions and cities in a display locale:         *)
(* LocaleConfig::GetDisplayLanguage and GetDisplayRegion,                  *)
(* I18nTimeZone::GetCityDisplayName, and Taboo, which replaces a name last.*)
(*                                                                         *)
(* Languages and regions have one table each, of the names in one locale:  *)
(* a call for another locale clears and refills it.  Each insertion takes  *)
(* a mutex, the call as a whole does not.  The table of the dialects is    *)
(* filled likewise at its first use.  The city names are looked up and     *)
(* refilled under one mutex, in one step here.  The other tables are       *)
(* InitOnce's.                                                             *)
(*                                                                         *)
(* A name is the locale of the file it was read from, None when the table  *)
(* has none: the caller falls back to ICU's name.                          *)
(***************************************************************************)
EXTENDS InitOnce

CONSTANTS
    Locales,     \* display locales, each with a file of names
    Items,       \* what is named
    None,
    Thrown,      \* std::out_of_range, thrown by map::at
    WhiteList, ZoneCities, CityLocales,   \* tables of InitOnce
    TabooOf,     \* the taboo data for a display locale, a table of InitOnce
    MaxCalls     \* bound on the calls

Kinds == {"language", "region"}

ASSUME NamesAssumption ==
    /\ {WhiteList, ZoneCities, CityLocales} \subseteq Tables
    /\ TabooOf \in [Locales -> Tables]
    /\ None \notin Locales \cup {Thrown} /\ Thrown \notin Locales
    /\ MaxCalls \in Nat

VARIABLES
    dialects,     \* supportedDialectLocales
    names,        \* locale2DisplayName and region2DisplayName
    current,      \* currentDialectLocale and currentOverrideRegion
    cityNames,    \* cityDisplayNameCache
    cityLocale,   \* cityDisplayNameCacheLocale
    pc, frame,    \* the threads of the process
    unread,       \* the tables whose last reading failed
    mixed,        \* history: the kinds with calls for different locales at one time
    calls         \* bound

tables == <<dialects, names, current, cityNames, cityLocale, unread>>
nameVars == <<tables, mixed>>
vars == <<onceVars, nameVars, pc, frame, calls>>

Nameless == [i \in Items |-> None]
NoFrame == [kind |-> "none", loc |-> None, todo |-> {}, item |-> None, found |-> None]

Goto(t, label) == pc' = [pc EXCEPT ![t] = label]
Keep(t, f) == frame' = [frame EXCEPT ![t] = f]
Answer(t, name) == Goto(t, "taboo") /\ Keep(t, [frame[t] EXCEPT !.found = name])
Fault(f) == f \in Faults /\ faults < MaxFaults /\ faults' = faults + 1
            /\ UNCHANGED <<flag, mutex, table, at, of, failed>>

-----------------------------------------------------------------------------
(* The calls. *)

Begin(t, kind, l, label) ==
    /\ pc[t] = "idle"
    /\ calls < MaxCalls /\ calls' = calls + 1
    /\ mixed' = IF \E s \in Threads : frame[s].kind = kind /\ frame[s].loc # l
                THEN mixed \cup ({kind} \cap Kinds) ELSE mixed
    /\ Goto(t, label)
    /\ Keep(t, [NoFrame EXCEPT !.kind = kind, !.loc = l])
    /\ UNCHANGED <<onceVars, tables>>

GetDisplayLanguage(t, l) == Begin(t, "language", l, "dialect_test")
GetDisplayRegion(t, l) == Begin(t, "region", l, "compare")
GetCityDisplayName(t, l) == Begin(t, "city", l, "cities")
IsSuggested(t) == Begin(t, "suggested", None, "white")

-----------------------------------------------------------------------------
(* ComputeLocale. *)

DialectTest(t) ==
    /\ pc[t] = "dialect_test"
    /\ IF dialects = {}
       THEN Goto(t, "dialect_fill") /\ Keep(t, [frame[t] EXCEPT !.todo = Locales])
       ELSE Goto(t, "dialect_find") /\ UNCHANGED frame
    /\ UNCHANGED <<onceVars, nameVars, calls>>

DialectFill(t) ==
    /\ pc[t] = "dialect_fill"
    /\ \/ \E l \in frame[t].todo :
            /\ dialects' = dialects \cup {l}
            /\ Keep(t, [frame[t] EXCEPT !.todo = @ \ {l}])
            /\ UNCHANGED <<pc, unread, onceVars>>
       \/ /\ frame[t].todo = {}
          /\ Goto(t, "dialect_find")
          /\ unread' = unread \ {"dialects"}
          /\ UNCHANGED <<dialects, frame, onceVars>>
       \/ /\ Fault("parse")
          /\ unread' = unread \cup {"dialects"}
          /\ IF frame[t].todo = Locales THEN Answer(t, None)
             ELSE Goto(t, "dialect_find") /\ UNCHANGED frame
          /\ UNCHANGED dialects
    /\ UNCHANGED <<names, current, cityNames, cityLocale, mixed, calls>>

DialectFind(t) ==
    /\ pc[t] = "dialect_find"
    /\ IF frame[t].loc \in dialects THEN Goto(t, "compare") /\ UNCHANGED frame
       ELSE Answer(t, None)
    /\ UNCHANGED <<onceVars, nameVars, calls>>

-----------------------------------------------------------------------------
(* GetDisplayLanguageWithDialect and GetDisplayOverrideRegion. *)

Compare(t) ==
    /\ pc[t] = "compare"
    /\ Goto(t, IF current[frame[t].kind] = frame[t].loc THEN "find" ELSE "clear")
    /\ UNCHANGED <<onceVars, nameVars, frame, calls>>

Clear_Forgotten(t) ==
    /\ pc[t] = "clear"
    /\ unread' = unread \ {frame[t].kind}
    /\ Goto(t, "load") /\ Keep(t, [frame[t] EXCEPT !.todo = Items])
    /\ UNCHANGED <<onceVars, dialects, names, current, cityNames, cityLocale, mixed, calls>>
Clear(t) ==
    /\ pc[t] = "clear"
    /\ names' = [names EXCEPT ![frame[t].kind] = Nameless]
    /\ unread' = unread \ {frame[t].kind}
    /\ Goto(t, "load") /\ Keep(t, [frame[t] EXCEPT !.todo = Items])
    /\ UNCHANGED <<onceVars, dialects, current, cityNames, cityLocale, mixed, calls>>

\* ReadLangData, ReadRegionData: map::insert keeps an entry that is there.
Load_Once(t) ==
    LET f == frame[t]
    IN  /\ pc[t] = "load"
        /\ \E i \in f.todo :
            /\ names' = [names EXCEPT ![f.kind][i] = IF @ = None THEN f.loc ELSE @]
            /\ Goto(t, "set")
        /\ UNCHANGED <<onceVars, dialects, current, cityNames, cityLocale, unread, mixed, frame,
                       calls>>
Load(t) ==
    LET f == frame[t]
    IN  /\ pc[t] = "load"
        /\ \/ \E i \in f.todo :
                /\ names' = [names EXCEPT ![f.kind][i] = IF @ = None THEN f.loc ELSE @]
                /\ Keep(t, [f EXCEPT !.todo = @ \ {i}])
                /\ UNCHANGED <<unread, pc, onceVars>>
           \/ f.todo = {} /\ Goto(t, "set") /\ UNCHANGED <<names, unread, frame, onceVars>>
           \/ /\ f.todo = Items /\ Fault("parse")
              /\ unread' = unread \cup {f.kind}
              /\ Goto(t, "set")
              /\ UNCHANGED <<names, frame>>
        /\ UNCHANGED <<dialects, current, cityNames, cityLocale, mixed, calls>>

\* The locale is noted whether its names could be read or not.
SetCurrent(t) ==
    /\ pc[t] = "set"
    /\ current' = [current EXCEPT ![frame[t].kind] = frame[t].loc]
    /\ Goto(t, "find") /\ Keep(t, [frame[t] EXCEPT !.todo = {}])
    /\ UNCHANGED <<onceVars, dialects, names, cityNames, cityLocale, unread, mixed, calls>>

Find(t) ==
    LET f == frame[t]
    IN  /\ pc[t] = "find"
        /\ \E i \in Items :
            IF names[f.kind][i] = None THEN Answer(t, None)
            ELSE Goto(t, "at") /\ Keep(t, [f EXCEPT !.item = i])
        /\ UNCHANGED <<onceVars, nameVars, calls>>

\* map::at throws when the entry is gone since it was found.
At(t) ==
    LET name == names[frame[t].kind][frame[t].item]
    IN  /\ pc[t] = "at"
        /\ IF name = None
           THEN Goto(t, "idle") /\ Keep(t, [NoFrame EXCEPT !.found = Thrown])
           ELSE Answer(t, name)
        /\ UNCHANGED <<onceVars, nameVars, calls>>

-----------------------------------------------------------------------------
(* FindCityDisplayNameFromXml, under cityDisplayNameMutex. *)

\* A file that cannot be parsed leaves the names of the locale before.
CityNames(t) ==
    LET l == frame[t].loc
    IN  /\ pc[t] = "city"
        /\ \/ /\ cityLocale = l
              /\ Answer(t, cityNames)
              /\ UNCHANGED <<cityNames, cityLocale, onceVars>>
           \/ /\ cityLocale # l /\ Fault("parse")
              /\ Answer(t, None)
              /\ UNCHANGED <<cityNames, cityLocale>>
           \/ /\ cityLocale # l
              /\ cityNames' = l /\ cityLocale' = l
              /\ Answer(t, l)
              /\ UNCHANGED onceVars
        /\ UNCHANGED <<dialects, names, current, unread, mixed, calls>>

-----------------------------------------------------------------------------
(* The tables of InitOnce. *)

Needs(t) == CASE pc[t] = "taboo" -> TabooOf[frame[t].loc]
              [] pc[t] = "cities" -> ZoneCities
              [] pc[t] = "locales" -> CityLocales
              [] pc[t] = "white" -> WhiteList

UseTable(t) ==
    /\ pc[t] \in {"taboo", "cities", "locales", "white"}
    /\ Use(t, Needs(t))
    /\ UNCHANGED <<nameVars, pc, frame, calls>>

FillTable(t) == Once(t) /\ UNCHANGED <<nameVars, pc, frame, calls>>

\* GetAvailableZoneCityIDs' failure is not noticed, only that the city is not there;
\* without the supported locales there is no city name; a taboo name, if there is
\* one, replaces the answer.
HaveTable(t) ==
    /\ Read(t)
    /\ CASE pc[t] = "cities" /\ table[of[t]] # {} ->
              Goto(t, "locales") /\ UNCHANGED frame
         [] pc[t] = "locales" /\ at[t] = "read" ->
              Goto(t, "city") /\ UNCHANGED frame
         [] OTHER -> Goto(t, "idle") /\ Keep(t, NoFrame)
    /\ UNCHANGED <<nameVars, calls>>

-----------------------------------------------------------------------------
Init ==
    /\ OnceInit
    /\ dialects = {}
    /\ names = [k \in Kinds |-> Nameless]
    /\ current = [k \in Kinds |-> None]
    /\ cityNames = None /\ cityLocale = None
    /\ pc = [t \in Threads |-> "idle"]
    /\ frame = [t \in Threads |-> NoFrame]
    /\ unread = {} /\ mixed = {}
    /\ calls = 0

Call(t) ==
    \/ \E l \in Locales : GetDisplayLanguage(t, l) \/ GetDisplayRegion(t, l)
                          \/ GetCityDisplayName(t, l)
    \/ IsSuggested(t)

Step(t) ==
    \/ DialectTest(t) \/ DialectFill(t) \/ DialectFind(t)
    \/ Compare(t) \/ Clear(t) \/ Load(t) \/ SetCurrent(t) \/ Find(t) \/ At(t)
    \/ CityNames(t)
    \/ UseTable(t) \/ FillTable(t) \/ HaveTable(t)

Next == \E t \in Threads : Call(t) \/ Step(t)

Spec == Init /\ [][Next]_vars

-----------------------------------------------------------------------------
(* Properties. *)

Labels == {"idle", "dialect_test", "dialect_fill", "dialect_find", "compare", "clear",
           "load", "set", "find", "at", "city", "taboo", "cities", "locales", "white"}

\* Every variable holds a value of its type; a thread at rest keeps no locale.
TypeOK ==
    /\ OnceTypeOK
    /\ dialects \subseteq Locales
    /\ names \in [Kinds -> [Items -> Locales \cup {None}]]
    /\ current \in [Kinds -> Locales \cup {None}]
    /\ cityNames \in Locales \cup {None} /\ cityLocale \in Locales \cup {None}
    /\ pc \in [Threads -> Labels]
    /\ \A t \in Threads : pc[t] = "idle" => frame[t].loc = None
    /\ unread \subseteq Kinds \cup {"dialects"} /\ mixed \subseteq Kinds
    /\ calls \in 0..MaxCalls

AllIdle == \A t \in Threads : pc[t] = "idle"

\* However calls for one locale clear and refill a table over each other, they leave
\* it complete and of the locale noted for it, unless its file could not be read.  Once
\* calls for different locales have overlapped nothing is said of the table any more:
\* it may keep names of one locale under the note of another.
NamesSettle ==
    AllIdle =>
        /\ \A k \in Kinds \ (unread \cup mixed), i \in Items : names[k][i] = current[k]
        /\ "dialects" \in unread \/ dialects \in {{}, Locales}

\* A call that gets a name gets one of the locale it asked for, also after a file that
\* could not be read: a city's always, whatever overlaps; a language's or a region's as
\* long as calls of that kind for different locales have not overlapped.  A call may get
\* no name, or end with map::at's exception, which any overlapping call can cause.
AnswerOfAsked ==
    \A t \in Threads :
        frame[t].found \in {None, Thrown, frame[t].loc} \/ frame[t].kind \in mixed

=============================================================================
