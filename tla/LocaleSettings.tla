--------------------------- MODULE LocaleSettings ---------------------------
(***************************************************************************)
(* The settings core of the i18n system ability: LocaleConfig's setters,   *)
(* which change the global system parameters, and MultiUsers, which keeps  *)
(* a copy of the three parameters per local account in a Preferences file  *)
(* and exchanges it with the parameters when accounts are added, removed   *)
(* or switched.                                                            *)
(*                                                                         *)
(* A thread of Threads is an IPC worker or the common-event thread of the  *)
(* service.  One step of a thread is one access to shared state: a system  *)
(* parameter, the Preferences, the application configuration or an event.  *)
(* Nothing in the code serialises the threads.                             *)
(*                                                                         *)
(* A locale tag is a record: language, region and extension parameters.    *)
(* Only what the setters do to an extension key is kept: LanguageKeys are  *)
(* the keys dropped when the language changes ("kf", "co", "nu"), CustKeys *)
(* those of the "-x-" part, dropped when language or region change ("np",  *)
(* "nl"); the others ("mu", "ms", "fw") survive both.  Validation of tags, *)
(* scripts and likely subtags are left out.                                *)
(*                                                                         *)
(* An operator named X_Y, before X, is X with a slip Y: the properties are  *)
(* checked to fail when it takes the place of X.                           *)
(***************************************************************************)
EXTENDS Naturals, Sequences, FiniteSets

CONSTANTS
    Threads,          \* threads of the service process
    Users,            \* local account ids (>= 100)
    Languages,        \* language tags the callers use
    Regions,          \* region tags
    Regions24,        \* regions whose ICU time pattern has an 'H'
    ExtKeys,          \* extension parameter keys
    ExtValues,        \* their values
    LanguageKeys,     \* keys that belong to a language (kf, co, nu)
    CustKeys,         \* keys of the "-x-" part (np, nl)
    NumberKey,        \* the numbering system key (nu)
    LanguageValues,   \* values of the LanguageKeys each language supports
    LocalDigit,       \* the local digits of a language, or None
    CustValues,       \* values of the CustKeys each language and region support
    Hour24, Hour12, HourAuto,   \* "true", "false" and "default" of HOUR_KEY
    None,             \* an empty string: a value that is not there
    InitialHours,     \* what HOUR_KEY may hold before the first start
    Operations,       \* the setters the clients use
    BackgroundCallers,\* may processes of other than the foreground account call
    Hasty,            \* may calls and account operations come before the
                      \* service has handled the previous account event
    Faults,           \* kinds of failures that may happen
    MaxFaults,        \* bound on the number of failures
    MaxOps            \* bound on the number of calls, account events and kills

AllOperations == {"SetSystemLanguage", "SetSystemRegion", "SetSystemLocale",
                  "SetExtParam", "SetUsingLocalDigit", "Set24HourClock"}

(* "param": SetParameter fails in a setter; "load": in LoadGlobalParam, which then  *)
(* ends the account switch half way; "open": the Preferences cannot be opened;     *)
(* "prefs": they cannot be written; "config": UpdateConfiguration fails; "event":  *)
(* the common event is not published; "account": the foreground account cannot be  *)
(* told; "kill": the process is killed.                                            *)
AllFaults == {"param", "load", "open", "prefs", "config", "event", "account", "kill"}

ASSUME ConstantsAssumption ==
    /\ Regions24 \subseteq Regions
    /\ LanguageKeys \subseteq ExtKeys
    /\ CustKeys \subseteq ExtKeys
    /\ NumberKey \in ExtKeys \ CustKeys
    /\ LanguageValues \in [Languages -> SUBSET ExtValues]
    /\ LocalDigit \in [Languages -> ExtValues \cup {None}]
    /\ \A l \in Languages : LocalDigit[l] \in LanguageValues[l] \cup {None}
    /\ CustValues \in [Languages \X Regions -> SUBSET ExtValues]
    /\ InitialHours \subseteq {Hour24, Hour12, HourAuto, None}
    /\ Operations \subseteq AllOperations
    /\ BackgroundCallers \in BOOLEAN
    /\ Hasty \in BOOLEAN
    /\ Faults \subseteq AllFaults
    /\ MaxFaults \in Nat
    /\ MaxOps \in Nat

ASSUME HoursAssumption == Hour24 # Hour12 /\ Hour24 # HourAuto /\ Hour12 # HourAuto

-----------------------------------------------------------------------------
(* Values. *)

Keys == {"language", "locale", "hour"}
Hours == {Hour24, Hour12, HourAuto}
Ext == [ExtKeys -> ExtValues \cup {None}]
Locale == [lang : Languages, region : Regions, ext : Ext]
Value == Languages \cup Locale \cup Hours \cup {None}
Domain(k) == CASE k = "language" -> Languages
               [] k = "locale" -> Locale
               [] k = "hour" -> Hours

ASSUME NoneAssumption == None \notin Users \cup ExtValues \cup Languages \cup Locale \cup Hours

NoExt == [k \in ExtKeys |-> None]
NoValues == [k \in Keys |-> None]
NoMap == [u \in Users |-> None]

(* The frame of the call or event a thread is working on. *)
Frame == [op : AllOperations \cup {"none", "SwitchUser", "AddUser", "RemoveUser",
                                   "InitMultiUser"},
          user : Users \cup {None},      \* localId / userId
          want : [Keys -> Value],          \* the values being set, saved or loaded
          old : Languages \cup {None},   \* oldLanguageTag
          ext : (ExtKeys \X (ExtValues \cup {None})) \cup {None},
          was24 : BOOLEAN, now24 : BOOLEAN,
          key : Keys,                    \* the parameter being read or written
          snap : [Users -> Value]]         \* the map read from the Preferences

NoFrame == [op |-> "none", user |-> None, want |-> NoValues, old |-> None,
            ext |-> None, was24 |-> FALSE, now24 |-> FALSE, key |-> "language",
            snap |-> NoMap]

Labels == {"idle", "lang_set", "lang_locale", "lang_undo", "loc_was", "loc_set",
           "loc_now", "loc_tell", "loc_event", "hour_set", "hour_tell", "hour_event",
           "save_load", "save_store", "sw_read", "sw_set", "sw_tell", "sw_event",
           "add_read", "init_mark"}

AccountEvent == [type : {"added", "switched", "removed"}, user : Users]

VARIABLES
    param,      \* the system parameters LANGUAGE_KEY, LOCALE_KEY, HOUR_KEY
    stored,     \* languageData, localeData, is24HourData of the Preferences
    initDone,   \* "init" of the Preferences
    opened,     \* MultiUsers::preferences is loaded in this process
    told,       \* the configuration each account's applications were last sent
    service,    \* "down", "starting" (OnStart) or "up" (published)
    pc, frame,  \* the threads of the service
    accounts, foreground, events,   \* the account service
    ops, faults                     \* bounds

mem == <<pc, frame>>
env == <<accounts, foreground, events>>
vars == <<param, stored, initDone, opened, told, service, pc, frame,
          accounts, foreground, events, ops, faults>>

-----------------------------------------------------------------------------
(* Helpers. *)

AllIdle == \A t \in Threads : pc[t] = "idle"
Goto(t, label) == pc' = [pc EXCEPT ![t] = label]
Keep(t, f) == frame' = [frame EXCEPT ![t] = f]
Return(t) == Goto(t, "idle") /\ Keep(t, NoFrame)
Fault(f) == f \in Faults /\ faults < MaxFaults /\ faults' = faults + 1
NoFault == UNCHANGED faults

\* LocaleConfig::Is24HourLocale and Is24HourClock.
Is24HourLocale(l) == l.region \in Regions24
Is24HourClock == \/ param["hour"] = Hour24
                 \/ param["hour"] = HourAuto /\ Is24HourLocale(param["locale"])

\* ModifyExtParam, and the two ways a locale is rebuilt around a new part.
Drop(e, ks) == [k \in ExtKeys |-> IF k \in ks THEN None ELSE e[k]]
ModifyExtParam_FirstOnly(l, k, v) ==
    IF l.ext[k] = None THEN [l EXCEPT !.ext = [@ EXCEPT ![k] = v]] ELSE l
ModifyExtParam(l, k, v) == [l EXCEPT !.ext = [@ EXCEPT ![k] = v]]
UpdateLanguageOfLocale_Failed(l) == param["locale"]
UpdateLanguageOfLocale_KeepsKeys(l) ==
    [param["locale"] EXCEPT !.lang = l, !.ext = Drop(@, CustKeys)]
UpdateLanguageOfLocale(l) ==
    [param["locale"] EXCEPT !.lang = l, !.ext = Drop(@, LanguageKeys \cup CustKeys)]
UpdateRegionOfLocale(r) ==
    [param["locale"] EXCEPT !.region = r, !.ext = Drop(@, CustKeys)]

\* InitPreferences: nothing to do once loaded, else the file is opened or not.
OpenPreferences(ok) ==
    \/ ok /\ opened' = TRUE /\ NoFault
    \/ ~ok /\ ~opened /\ opened' = FALSE /\ Fault("open")

\* ReadMultiUsersParameter, empty when the Preferences could not be opened.
ReadStored(ok, k, u) == IF ok THEN stored[k][u] ELSE None

\* MultiUsers::GetSystemLocaleFromUserId and GetSystemLanguageFromUserId.
Fallback(v, k) == IF v = None THEN param[k] ELSE v

-----------------------------------------------------------------------------
(* Entry points: the setters of I18nServiceAbility. *)

\* A caller of no account acts for the one in the foreground.  Where that cannot be asked
\* for it acts for USER_DEFAULT: a call for an account in the background.
MayCall(u) ==
    /\ service = "up"
    /\ u = foreground \/ (BackgroundCallers /\ u \in accounts)
    /\ Hasty \/ events = << >>

\* A free thread t takes operation op for user u and continues at label.
Begin(t, op, u, label, f) ==
    /\ op \in Operations
    /\ MayCall(u)
    /\ pc[t] = "idle"
    /\ ops < MaxOps /\ ops' = ops + 1
    /\ Goto(t, label)
    /\ Keep(t, [f EXCEPT !.op = op, !.user = u])
    /\ UNCHANGED <<param, stored, initDone, told, service, env>>

Wants(k, v) == [NoFrame EXCEPT !.want = [@ EXCEPT ![k] = v]]

\* SetSystemLanguage saves the old language tag before anything else.
CallSetSystemLanguage(t, u, l) ==
    /\ Begin(t, "SetSystemLanguage", u, "lang_set",
             [Wants("language", l) EXCEPT !.old = param["language"]])
    /\ UNCHANGED <<opened, faults>>

CallSetSystemRegion(t, u, r) ==
    /\ Begin(t, "SetSystemRegion", u, "loc_was", Wants("locale", UpdateRegionOfLocale(r)))
    /\ UNCHANGED <<opened, faults>>

CallSetSystemLocale(t, u, l, r) ==
    /\ Begin(t, "SetSystemLocale", u, "loc_was",
             Wants("locale", [lang |-> l, region |-> r, ext |-> NoExt]))
    /\ UNCHANGED <<opened, faults>>

\* The values a language, or a language and region, has to offer for a key.
LanguageSupports(l, k, v) == k \in LanguageKeys => v \in LanguageValues[l]
RegionSupports(l, k, v) == k \in CustKeys => v \in CustValues[<<l.lang, l.region>>]

\* SetTemperatureType, SetFirstDayOfWeek, SetSystemCollation,
\* SetSystemNumberingSystem, SetSystemNumberPattern, SetSystemMeasurement and
\* SetSystemNumericalDatePattern: one extension parameter of the caller's own
\* stored locale, after the check of the value against the caller's language, or
\* against the language and region of the caller's locale.  The two reads of the
\* Preferences are one step and fail together.
CallSetExtParam(t, u, k, v) ==
    \E ok \in BOOLEAN :
        LET language == Fallback(ReadStored(ok, "language", u), "language")
            locale == Fallback(ReadStored(ok, "locale", u), "locale")
        IN  /\ LanguageSupports(language, k, v) /\ RegionSupports(locale, k, v)
            /\ OpenPreferences(ok)
            /\ Begin(t, "SetExtParam", u, "loc_was",
                     [Wants("locale", ModifyExtParam(locale, k, v)) EXCEPT !.ext = <<k, v>>])

\* SetUsingLocalDigit works on the global locale, not on the caller's.
CallSetUsingLocalDigit(t, u, flag) ==
    LET digit == LocalDigit[param["locale"].lang]
        v == IF flag THEN digit ELSE None
    IN  /\ digit # None
        /\ Begin(t, "SetUsingLocalDigit", u, "loc_was",
                 [Wants("locale", ModifyExtParam(param["locale"], NumberKey, v))
                     EXCEPT !.ext = <<NumberKey, v>>])
        /\ UNCHANGED <<opened, faults>>

CallSet24HourClock(t, u, h) ==
    /\ Begin(t, "Set24HourClock", u, "hour_set", Wants("hour", h))
    /\ UNCHANGED <<opened, faults>>

-----------------------------------------------------------------------------
(* SetSystemLanguage around SetSystemLocale. *)

\* SetParameter: it takes effect, or fails and changes nothing.
SetParameter(k, v, ok) ==
    \/ ok /\ param' = [param EXCEPT ![k] = v] /\ NoFault
    \/ ~ok /\ Fault("param") /\ UNCHANGED param

LanguageSet(t) ==
    /\ pc[t] = "lang_set"
    /\ \E ok \in BOOLEAN :
        /\ SetParameter("language", frame[t].want["language"], ok)
        /\ IF ok THEN Goto(t, "lang_locale") /\ UNCHANGED frame ELSE Return(t)
    /\ UNCHANGED <<stored, initDone, opened, told, service, env, ops>>

LanguageLocale(t) ==
    /\ pc[t] = "lang_locale"
    /\ Keep(t, [frame[t] EXCEPT !.want["locale"] =
                    UpdateLanguageOfLocale(frame[t].want["language"])])
    /\ Goto(t, "loc_was")
    /\ UNCHANGED <<param, stored, initDone, opened, told, service, env, ops, faults>>

\* The old language tag is written back when SetSystemLocale failed.
LanguageUndo_Forgotten(t) ==
    /\ pc[t] = "lang_undo"
    /\ Return(t)
    /\ UNCHANGED <<param, stored, initDone, opened, told, service, env, ops, faults>>
LanguageUndo(t) ==
    /\ pc[t] = "lang_undo"
    /\ \E ok \in BOOLEAN : SetParameter("language", frame[t].old, ok)
    /\ Return(t)
    /\ UNCHANGED <<stored, initDone, opened, told, service, env, ops>>

-----------------------------------------------------------------------------
(* SetSystemLocale. *)

LocaleWas(t) ==
    /\ pc[t] = "loc_was"
    /\ Keep(t, [frame[t] EXCEPT !.was24 = Is24HourClock])
    /\ Goto(t, "loc_set")
    /\ UNCHANGED <<param, stored, initDone, opened, told, service, env, ops, faults>>

\* Where a failed SetSystemLocale leaves its caller.
LocaleFailed(t) ==
    IF frame[t].op = "SetSystemLanguage" THEN Goto(t, "lang_undo") /\ UNCHANGED frame
    ELSE Return(t)

LocaleSet(t) ==
    /\ pc[t] = "loc_set"
    /\ \E ok \in BOOLEAN :
        /\ SetParameter("locale", frame[t].want["locale"], ok)
        /\ IF ok THEN Goto(t, "loc_now") /\ UNCHANGED frame ELSE LocaleFailed(t)
    /\ UNCHANGED <<stored, initDone, opened, told, service, env, ops>>

LocaleNow(t) ==
    /\ pc[t] = "loc_now"
    /\ Keep(t, [frame[t] EXCEPT !.now24 = Is24HourClock, !.key = "locale"])
    /\ Goto(t, "save_load")
    /\ UNCHANGED <<param, stored, initDone, opened, told, service, env, ops, faults>>

\* AppMgrClient::UpdateConfiguration; a failure is logged and ignored.  An empty
\* item is not added to the configuration.
Tell(u, locale, hour) ==
    \/ /\ told' = [told EXCEPT ![u] =
                      [locale |-> IF locale = None THEN @.locale ELSE locale,
                       hour |-> IF hour = None THEN @.hour ELSE hour]]
       /\ NoFault
    \/ Fault("config") /\ UNCHANGED told

\* The hour is told when the new locale changed the clock.
ChangedHour_Old(f) ==
    IF f.was24 = f.now24 THEN None ELSE IF f.was24 THEN Hour24 ELSE Hour12
ChangedHour(f) ==
    IF f.was24 = f.now24 THEN None ELSE IF f.now24 THEN Hour24 ELSE Hour12

LocaleTell(t) ==
    /\ pc[t] = "loc_tell"
    /\ Tell(frame[t].user, frame[t].want["locale"], ChangedHour(frame[t]))
    /\ Goto(t, "loc_event")
    /\ UNCHANGED <<param, stored, initDone, opened, service, frame, env, ops>>

\* PublishCommonEvent decides the result of SetSystemLocale, although the locale
\* is set and saved by then; SetSystemLanguage goes on to save the language.
LocaleEvent(t) ==
    /\ pc[t] = "loc_event"
    /\ \/ /\ NoFault
          /\ IF frame[t].op = "SetSystemLanguage"
             THEN Goto(t, "save_load") /\ Keep(t, [frame[t] EXCEPT !.key = "language"])
             ELSE Return(t)
       \/ Fault("event") /\ LocaleFailed(t)
    /\ UNCHANGED <<param, stored, initDone, opened, told, service, env, ops>>

-----------------------------------------------------------------------------
(* Set24HourClock. *)

HourSet(t) ==
    /\ pc[t] = "hour_set"
    /\ \E ok \in BOOLEAN :
        /\ SetParameter("hour", frame[t].want["hour"], ok)
        /\ IF ok THEN Goto(t, "save_load") /\ Keep(t, [frame[t] EXCEPT !.key = "hour"])
           ELSE Return(t)
    /\ UNCHANGED <<stored, initDone, opened, told, service, env, ops>>

HourTell(t) ==
    /\ pc[t] = "hour_tell"
    /\ Tell(frame[t].user, None, frame[t].want["hour"])
    /\ Goto(t, "hour_event")
    /\ UNCHANGED <<param, stored, initDone, opened, service, frame, env, ops>>

HourEvent(t) ==
    /\ pc[t] = "hour_event"
    /\ NoFault \/ Fault("event")
    /\ Return(t)
    /\ UNCHANGED <<param, stored, initDone, opened, told, service, env, ops>>

-----------------------------------------------------------------------------
(* WriteMultiUsersParameter: read the whole map of the key, replace, add or  *)
(* delete the entry of the user, write the whole map back.                   *)

Deletes(f) == f.op = "RemoveUser"
NextKey_Skips(k) == "hour"
NextKey(k) == IF k = "language" THEN "locale" ELSE "hour"

\* The map to be written back, and the same without the other accounts.
Rewritten_Alone(snap, u, v) == [NoMap EXCEPT ![u] = v]
Rewritten(snap, u, v) == [snap EXCEPT ![u] = v]

SaveLoad(t) ==
    /\ pc[t] = "save_load"
    /\ \E ok \in BOOLEAN :
        /\ OpenPreferences(ok)
        /\ Keep(t, [frame[t] EXCEPT !.snap =
                        [u \in Users |-> ReadStored(ok, frame[t].key, u)]])
    /\ Goto(t, "save_store")
    /\ UNCHANGED <<param, stored, initDone, told, service, env, ops>>

\* What follows a save: the setters ignore its result, AddUser, InitMultiUser and
\* RemoveUser go on with the next key or stop at the first failure.
AfterSave(t, ok) ==
    LET f == frame[t]
        done == ~ok \/ f.key = "hour"
    IN  CASE f.op \in AllOperations ->
                IF f.key = "language" THEN Return(t)
                ELSE Goto(t, IF f.key = "hour" THEN "hour_tell" ELSE "loc_tell")
                     /\ UNCHANGED frame
          [] f.op = "InitMultiUser" /\ done -> Goto(t, "init_mark") /\ UNCHANGED frame
          [] f.op \in {"AddUser", "RemoveUser"} /\ done -> Return(t)
          [] OTHER -> Goto(t, "save_load")
                      /\ Keep(t, [f EXCEPT !.key = NextKey(@), !.snap = NoMap])

SaveStore(t) ==
    LET f == frame[t]
        entry == IF Deletes(f) THEN None ELSE f.want[f.key]
    IN  /\ pc[t] = "save_store"
        /\ \/ /\ stored' = [stored EXCEPT ![f.key] = Rewritten(f.snap, f.user, entry)]
              /\ OpenPreferences(TRUE)
              /\ AfterSave(t, TRUE)
           \/ /\ OpenPreferences(FALSE)
              /\ UNCHANGED stored
              /\ AfterSave(t, FALSE)
           \/ /\ opened' = TRUE
              /\ Fault("prefs")
              /\ UNCHANGED stored
              /\ AfterSave(t, FALSE)
        /\ UNCHANGED <<param, initDone, told, service, env, ops>>

-----------------------------------------------------------------------------
(* Account events: HandleMultiUser of the oldest undelivered event.  The      *)
(* subscriber handles one at a time; only OnStart, which handles the event   *)
(* that started the service, may overlap with it.                            *)

EventOperations == {"SwitchUser", "AddUser", "RemoveUser"}

HandleEvent(t) ==
    /\ service \in {"starting", "up"}
    /\ events # << >>
    /\ pc[t] = "idle"
    /\ service = "starting" \/ \A s \in Threads : frame[s].op \notin EventOperations
    /\ LET e == Head(events)
           f == [NoFrame EXCEPT !.user = e.user]
       IN  CASE e.type = "switched" ->
                  /\ Goto(t, "sw_read")
                  /\ Keep(t, [f EXCEPT !.op = "SwitchUser", !.key = "locale"])
             [] e.type = "added" ->
                  Goto(t, "add_read") /\ Keep(t, [f EXCEPT !.op = "AddUser"])
             [] e.type = "removed" ->
                  Goto(t, "save_load") /\ Keep(t, [f EXCEPT !.op = "RemoveUser"])
    /\ events' = Tail(events)
    /\ UNCHANGED <<param, stored, initDone, opened, told, service, accounts,
                   foreground, ops, faults>>

\* LoadGlobalParam: locale, then language, then hour; a parameter that was not
\* saved is skipped, a SetParameter that fails ends the switch: the parameters left
\* are the previous account's, and nobody is told.
SwitchRead(t) ==
    LET f == frame[t]
    IN  /\ pc[t] = "sw_read"
        /\ \E ok \in BOOLEAN :
            LET v == ReadStored(ok, f.key, f.user)
            IN  /\ OpenPreferences(ok)
                /\ Keep(t, [f EXCEPT !.want[f.key] = v])
        /\ Goto(t, "sw_set")
        /\ UNCHANGED <<param, stored, initDone, told, service, env, ops>>

NextSwitchKey_Skips(k) == "hour"
NextSwitchKey(k) == IF k = "locale" THEN "language" ELSE "hour"

SwitchGoOn(t) ==
    IF frame[t].key = "hour" THEN Goto(t, "sw_tell") /\ UNCHANGED frame
    ELSE Goto(t, "sw_read") /\ Keep(t, [frame[t] EXCEPT !.key = NextSwitchKey(@)])

SwitchSet_Unchecked(t) ==
    /\ pc[t] = "sw_set"
    /\ \E ok \in BOOLEAN :
        /\ SetParameter(frame[t].key, frame[t].want[frame[t].key], ok)
        /\ IF ok THEN SwitchGoOn(t) ELSE Return(t)
    /\ UNCHANGED <<stored, initDone, opened, told, service, env, ops>>
SwitchSet_Ignores(t) ==
    LET f == frame[t]
        v == f.want[f.key]
    IN  /\ pc[t] = "sw_set"
        /\ \/ v = None /\ UNCHANGED param /\ NoFault
           \/ v # None /\ SetParameter(f.key, v, TRUE)
           \/ v # None /\ Fault("load") /\ UNCHANGED param
        /\ SwitchGoOn(t)
        /\ UNCHANGED <<stored, initDone, opened, told, service, env, ops>>
SwitchSet(t) ==
    LET f == frame[t]
        v == f.want[f.key]
    IN  /\ pc[t] = "sw_set"
        /\ \/ v = None /\ UNCHANGED param /\ NoFault /\ SwitchGoOn(t)
           \/ v # None /\ SetParameter(f.key, v, TRUE) /\ SwitchGoOn(t)
           \/ v # None /\ Fault("load") /\ UNCHANGED param /\ Return(t)
        /\ UNCHANGED <<stored, initDone, opened, told, service, env, ops>>

SwitchTell(t) ==
    /\ pc[t] = "sw_tell"
    /\ Tell(frame[t].user, frame[t].want["locale"], frame[t].want["hour"])
    /\ Goto(t, "sw_event")
    /\ UNCHANGED <<param, stored, initDone, opened, service, frame, env, ops>>

SwitchEvent(t) ==
    /\ pc[t] = "sw_event"
    /\ NoFault \/ Fault("event")
    /\ Return(t)
    /\ UNCHANGED <<param, stored, initDone, opened, told, service, env, ops>>

\* SaveGlobalParam reads the three parameters one after the other and gives up
\* when the hour is not set.
AddRead(t) ==
    LET f == frame[t]
        g == [f EXCEPT !.want[f.key] = param[f.key]]
    IN  /\ pc[t] = "add_read"
        /\ CASE f.key # "hour" ->
                  Goto(t, "add_read") /\ Keep(t, [g EXCEPT !.key = NextKey(@)])
             [] f.key = "hour" /\ param["hour"] # None ->
                  Goto(t, "save_load") /\ Keep(t, [g EXCEPT !.key = "language"])
             [] f.key = "hour" /\ param["hour"] = None ->
                  IF f.op = "InitMultiUser" THEN Goto(t, "init_mark") /\ UNCHANGED frame
                  ELSE Return(t)
        /\ UNCHANGED <<param, stored, initDone, opened, told, service, env, ops, faults>>

-----------------------------------------------------------------------------
(* OnStart, as far as the settings are concerned, and the end of the process. *)

Start ==
    /\ service = "down"
    /\ service' = "starting"
    /\ UNCHANGED <<param, stored, initDone, opened, told, mem, env, ops, faults>>

\* InitMultiUser: the foreground account is saved once in the life of the device,
\* whether AddUser succeeds or not.
InitMultiUser(t) ==
    /\ service = "starting"
    /\ \A s \in Threads : frame[s].op # "InitMultiUser"
    /\ pc[t] = "idle"
    /\ \/ OpenPreferences(FALSE) /\ service' = "up" /\ UNCHANGED mem
       \/ opened' = TRUE /\ Fault("account") /\ service' = "up" /\ UNCHANGED mem
       \/ OpenPreferences(TRUE) /\ initDone /\ service' = "up" /\ UNCHANGED mem
       \/ /\ OpenPreferences(TRUE) /\ ~initDone
          /\ UNCHANGED service
          /\ Goto(t, "add_read")
          /\ Keep(t, [NoFrame EXCEPT !.op = "InitMultiUser", !.user = foreground])
    /\ UNCHANGED <<param, stored, initDone, told, env, ops>>

InitMark(t) ==
    /\ pc[t] = "init_mark"
    /\ \/ initDone' = TRUE /\ NoFault
       \/ UNCHANGED initDone /\ Fault("prefs")
    /\ service' = "up"
    /\ Return(t)
    /\ UNCHANGED <<param, stored, opened, told, env, ops>>

ProcessEnds ==
    /\ service' = "down" /\ opened' = FALSE
    /\ pc' = [t \in Threads |-> "idle"] /\ frame' = [t \in Threads |-> NoFrame]
    /\ UNCHANGED <<param, stored, initDone, told, env>>

Unload ==
    /\ service = "up" /\ AllIdle
    /\ ops < MaxOps /\ ops' = ops + 1 /\ UNCHANGED faults
    /\ ProcessEnds

Kill ==
    /\ service # "down"
    /\ ops < MaxOps /\ ops' = ops + 1 /\ Fault("kill")
    /\ ProcessEnds

-----------------------------------------------------------------------------
(* The account service (external). *)

\* Nothing is left to do of an earlier account event or start.
Settled == service # "starting" /\ AllIdle /\ events = << >>

Announce(type, u) ==
    /\ Hasty \/ Settled
    /\ events' = Append(events, [type |-> type, user |-> u])
    /\ ops < MaxOps /\ ops' = ops + 1
    /\ UNCHANGED <<param, stored, initDone, opened, told, service, mem, faults>>

AccountAdded(u) ==
    /\ u \notin accounts
    /\ accounts' = accounts \cup {u}
    /\ Announce("added", u) /\ UNCHANGED foreground

AccountSwitched(u) ==
    /\ u \in accounts \ {foreground}
    /\ foreground' = u
    /\ Announce("switched", u) /\ UNCHANGED accounts

AccountRemoved(u) ==
    /\ u \in accounts \ {foreground}
    /\ accounts' = accounts \ {u}
    /\ Announce("removed", u) /\ UNCHANGED foreground

-----------------------------------------------------------------------------
Init ==
    /\ \E l \in Languages, r \in Regions, h \in InitialHours :
        param = [k \in Keys |->
                    CASE k = "language" -> l
                      [] k = "locale" -> [lang |-> l, region |-> r, ext |-> NoExt]
                      [] k = "hour" -> h]
    /\ stored = [k \in Keys |-> NoMap]
    /\ initDone = FALSE
    /\ opened = FALSE
    /\ told = [u \in Users |-> [locale |-> param["locale"], hour |-> param["hour"]]]
    /\ service = "down"
    /\ pc = [t \in Threads |-> "idle"]
    /\ frame = [t \in Threads |-> NoFrame]
    /\ foreground \in Users
    /\ accounts = {foreground}
    /\ events = << >>
    /\ ops = 0
    /\ faults = 0

Call(t) ==
    \E u \in Users :
        \/ \E l \in Languages : CallSetSystemLanguage(t, u, l)
        \/ \E r \in Regions : CallSetSystemRegion(t, u, r)
        \/ \E l \in Languages, r \in Regions : CallSetSystemLocale(t, u, l, r)
        \/ \E k \in ExtKeys, v \in ExtValues : CallSetExtParam(t, u, k, v)
        \/ \E flag \in BOOLEAN : CallSetUsingLocalDigit(t, u, flag)
        \/ \E h \in Hours : CallSet24HourClock(t, u, h)

Step(t) ==
    \/ LanguageSet(t) \/ LanguageLocale(t) \/ LanguageUndo(t)
    \/ LocaleWas(t) \/ LocaleSet(t) \/ LocaleNow(t) \/ LocaleTell(t) \/ LocaleEvent(t)
    \/ HourSet(t) \/ HourTell(t) \/ HourEvent(t)
    \/ SaveLoad(t) \/ SaveStore(t)
    \/ SwitchRead(t) \/ SwitchSet(t) \/ SwitchTell(t) \/ SwitchEvent(t)
    \/ AddRead(t) \/ InitMark(t)

Account == \E u \in Users : AccountAdded(u) \/ AccountSwitched(u) \/ AccountRemoved(u)

Next ==
    \/ \E t \in Threads : Call(t) \/ HandleEvent(t) \/ InitMultiUser(t) \/ Step(t)
    \/ Start \/ Unload \/ Kill
    \/ Account

Spec == Init /\ [][Next]_vars

-----------------------------------------------------------------------------
(* Properties. *)

\* Every variable holds a value of its type: a parameter and a saved value belong
\* to the key they are kept under, a thread at rest has an empty frame.
TypeOK ==
    /\ param \in [Keys -> Value] /\ \A k \in Keys : param[k] \in Domain(k) \cup {None}
    /\ param["language"] \in Languages /\ param["locale"] \in Locale
    /\ stored \in [Keys -> [Users -> Value]]
    /\ \A k \in Keys, u \in Users : stored[k][u] \in Domain(k) \cup {None}
    /\ initDone \in BOOLEAN /\ opened \in BOOLEAN
    /\ told \in [Users -> [locale : Locale, hour : Hours \cup {None}]]
    /\ service \in {"down", "starting", "up"}
    /\ pc \in [Threads -> Labels]
    /\ frame \in [Threads -> Frame]
    /\ \A t \in Threads : pc[t] = "idle" => frame[t] = NoFrame
    /\ accounts \subseteq Users /\ foreground \in accounts
    /\ events \in Seq(AccountEvent)
    /\ ops \in 0..MaxOps /\ faults \in 0..MaxFaults

\* The service runs and has nothing left to do.
Quiet == service = "up" /\ Settled

\* SetSystemLanguage writes LANGUAGE_KEY and LOCALE_KEY one after the other and
\* takes the first back when the second fails; LoadGlobalParam writes what the
\* account saved of both.  As long as nobody calls SetSystemLocale, neither a setter,
\* failed ones included, nor a switch leaves them disagreeing, unless a SetParameter
\* fails in the switch itself.
LanguageAgrees == AllIdle => param["language"] = param["locale"].lang

\* The same of the copies saved for each account, which are written apart.
SavedLanguageAgrees ==
    AllIdle => \A u \in Users :
        \/ stored["language"][u] = None /\ stored["locale"][u] = None
        \/ stored["locale"][u] # None /\ stored["language"][u] = stored["locale"][u].lang

\* InitMultiUser, AddUser and RemoveUser: when every account event is handled,
\* exactly the existing accounts have saved settings, all three of them.
AccountsSaved ==
    Quiet => \A u \in Users, k \in Keys : stored[k][u] # None <=> u \in accounts

\* SwitchUser and the setters: when every account event is handled, the system
\* parameters are the settings saved for the foreground account, unless a
\* SetParameter fails in a switch ("load").
MirrorsForeground ==
    Quiet => \A k \in Keys : param[k] = stored[k][foreground]

\* The clock an application shows that was told hour h and locale l.
Clock(h, l) == h = Hour24 \/ (h = HourAuto /\ Is24HourLocale(l))

\* The applications of the foreground account were told the current locale, and
\* show the clock the system shows: a locale change that moves the default clock
\* is passed on, although HOUR_KEY did not change.  A switch that fails half way
\* ("load") tells nobody.
ForegroundTold ==
    Quiet => LET c == told[foreground]
             IN  c.locale = param["locale"] /\ Clock(c.hour, c.locale) = Is24HourClock

\* A language's own values stay with the language, a number or date pattern with
\* language and region: neither a setter nor an account switch combines a locale
\* with an extension parameter its language or region does not support.
Legal(l) ==
    /\ \A k \in LanguageKeys : l.ext[k] \in LanguageValues[l.lang] \cup {None}
    /\ \A k \in CustKeys : l.ext[k] \in CustValues[<<l.lang, l.region>>] \cup {None}
LegalExt ==
    /\ Legal(param["locale"])
    /\ \A u \in Users : stored["locale"][u] # None => Legal(stored["locale"][u])

\* WriteMultiUsersParameter rewrites the settings of all accounts; it changes
\* those of the account it was called for only.
UserIsolation ==
    [][\A k \in Keys, u \in Users : stored'[k][u] # stored[k][u] =>
          \E t \in Threads : pc[t] = "save_store" /\ frame[t].user = u]_vars

\* A setter of thread t returns SUCCESS in this step.
Succeeds(t) ==
    /\ frame[t].op \in AllOperations /\ pc'[t] = "idle" /\ service' = "up"
    /\ \/ pc[t] = "save_store"
       \/ pc[t] \in {"loc_event", "hour_event"} /\ faults' = faults

\* What the setter was asked to set is set.
InEffect(f) ==
    CASE f.op = "SetSystemLanguage" -> /\ param'["language"] = f.want["language"]
                                       /\ param'["locale"].lang = f.want["language"]
      [] f.op = "SetSystemRegion" -> param'["locale"].region = f.want["locale"].region
      [] f.op = "SetSystemLocale" -> param'["locale"] = f.want["locale"]
      [] f.op \in {"SetExtParam", "SetUsingLocalDigit"} ->
            param'["locale"].ext[f.ext[1]] = f.ext[2]
      [] f.op = "Set24HourClock" -> param'["hour"] = f.want["hour"]

\* "Return SUCCESS indicates that the setting was successful" (locale_config.h).
SuccessTakesEffect == [][\A t \in Threads : Succeeds(t) => InEffect(frame[t])]_vars

=============================================================================
