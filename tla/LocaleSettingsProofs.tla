----------------------- MODULE LocaleSettingsProofs -------------------------
(***************************************************************************)
(* What LocaleSettings promises for any accounts, languages, regions and   *)
(* extension keys and any bounds.  First its type invariant, and, while    *)
(* one thread writes at a time and the Preferences file opens, that saving *)
(* the settings of an account leaves those of the others alone.            *)
(*                                                                         *)
(* Then what the settings keep to while the service does one thing at a    *)
(* time.  A setter that reports success has set what it was asked to,      *)
(* whatever fails.  While only the foreground account calls, account       *)
(* events are handled before the next call, and nothing but one            *)
(* SetParameter fails, the system parameters, the Preferences and what the *)
(* applications were told agree; LocaleSettings implements UserSettings.   *)
(***************************************************************************)
EXTENDS LocaleSettingsRefinement, TLAPS

-----------------------------------------------------------------------------
(* The inductive invariant: TypeOK, and what a thread holds while it works:  *)
(* the values it is about to write are of the kind it will write them as.    *)

ThreadOK(label, f) ==
    /\ label \in Labels /\ f \in Frame
    /\ \A k \in Keys : f.want[k] \in Domain(k) \cup {None}
    /\ f.op = "SetSystemLanguage" => f.want["language"] \in Languages /\ f.old \in Languages
    /\ label \in {"lang_set", "lang_locale", "lang_undo"} => f.op = "SetSystemLanguage"
    /\ label \in {"loc_was", "loc_set"} => f.want["locale"] \in Locale
    /\ label = "hour_set" => f.want["hour"] \in Hours
    /\ label \in {"sw_read", "sw_set"} => f.op = "SwitchUser" /\ f.user \in Users
    /\ label = "save_store" => \A u \in Users : f.snap[u] \in Domain(f.key) \cup {None}
    /\ label = "idle" => f = NoFrame

ParamOK ==
    /\ param \in [Keys -> Value] /\ \A k \in Keys : param[k] \in Domain(k) \cup {None}
    /\ param["language"] \in Languages /\ param["locale"] \in Locale
StoredOK ==
    /\ stored \in [Keys -> [Users -> Value]]
    /\ \A k \in Keys, u \in Users : stored[k][u] \in Domain(k) \cup {None}
ToldOK == told \in [Users -> [locale : Locale, hour : Hours \cup {None}]]
MemOK ==
    /\ pc \in [Threads -> Labels] /\ frame \in [Threads -> Frame]
    /\ \A t \in Threads : ThreadOK(pc[t], frame[t])
FlagsOK == initDone \in BOOLEAN /\ opened \in BOOLEAN
           /\ service \in {"down", "starting", "up"}
EnvOK == accounts \subseteq Users /\ foreground \in accounts
         /\ events \in Seq(AccountEvent)
BoundsOK == ops \in 0..MaxOps /\ faults \in 0..MaxFaults

IInv == ParamOK /\ StoredOK /\ ToldOK /\ MemOK /\ FlagsOK /\ EnvOK /\ BoundsOK

LEMMA IInvImpliesTypeOK == IInv => TypeOK
BY DEF IInv, ParamOK, StoredOK, ToldOK, MemOK, ThreadOK, FlagsOK, EnvOK, BoundsOK, TypeOK

-----------------------------------------------------------------------------
(* Values. *)

\* A value of a key is a value, and nothing may be there.
LEMMA ValueOfKey == None \in Value /\ \A k \in Keys : Domain(k) \cup {None} \subseteq Value
BY DEF Keys, Domain, Value

LEMMA DomainOfKey ==
    Domain("language") = Languages /\ Domain("locale") = Locale /\ Domain("hour") = Hours
BY DEF Domain

\* The ways to rebuild a locale give locales.
LEMMA LocaleRebuilt ==
    ASSUME ParamOK
    PROVE  /\ \A l \in Languages : UpdateLanguageOfLocale(l) \in Locale
           /\ \A r \in Regions : UpdateRegionOfLocale(r) \in Locale
BY DEF ParamOK, UpdateLanguageOfLocale, UpdateRegionOfLocale, Drop, Locale, Ext

LEMMA ExtModified ==
    ASSUME NEW l \in Locale, NEW k \in ExtKeys, NEW v \in ExtValues \cup {None}
    PROVE  ModifyExtParam(l, k, v) \in Locale
BY DEF ModifyExtParam, Locale, Ext

\* Writing a value of the key keeps the parameters typed, as does a failure.
LEMMA ParameterSet ==
    ASSUME ParamOK, BoundsOK, NEW k \in Keys, NEW v \in Domain(k), NEW ok \in BOOLEAN,
           SetParameter(k, v, ok)
    PROVE  ParamOK' /\ faults' \in 0..MaxFaults
<1>1. faults' \in 0..MaxFaults
  BY ConstantsAssumption DEF SetParameter, BoundsOK, Fault, NoFault
<1>2. CASE param' = [param EXCEPT ![k] = v]
  <2>1. v \in Value
    BY ValueOfKey
  <2>2. "language" \in Keys /\ "locale" \in Keys
    BY DEF Keys
  <2>3. param' \in [Keys -> Value] /\ \A j \in Keys : param'[j] = IF j = k THEN v ELSE param[j]
    BY <1>2, <2>1 DEF ParamOK
  <2> QED BY <1>1, <2>2, <2>3, DomainOfKey DEF ParamOK
<1>3. CASE UNCHANGED param
  BY <1>1, <1>3 DEF ParamOK
<1> QED BY <1>1, <1>2, <1>3 DEF SetParameter

LEMMA PreferencesOpened ==
    ASSUME FlagsOK, BoundsOK, NEW ok \in BOOLEAN, OpenPreferences(ok)
    PROVE  opened' \in BOOLEAN /\ faults' \in 0..MaxFaults
<1>1. opened' \in BOOLEAN
  BY Zenon DEF FlagsOK, OpenPreferences
<1>2. faults' \in 0..MaxFaults
  BY ConstantsAssumption DEF BoundsOK, OpenPreferences, Fault, NoFault
<1> QED BY <1>1, <1>2

\* What is read from the Preferences is a value of its key, or nothing; a missing
\* value falls back to the parameter.
LEMMA StoredRead ==
    ASSUME StoredOK, NEW ok \in BOOLEAN, NEW k \in Keys, NEW u \in Users
    PROVE  ReadStored(ok, k, u) \in Domain(k) \cup {None}
BY DEF StoredOK, ReadStored

LEMMA FallbackLocale ==
    ASSUME ParamOK, StoredOK, NEW ok \in BOOLEAN, NEW u \in Users
    PROVE  Fallback(ReadStored(ok, "locale", u), "locale") \in Locale
<1>1. ReadStored(ok, "locale", u) \in Locale \cup {None}
  BY StoredRead, DomainOfKey DEF Keys
<1> QED BY <1>1 DEF Fallback, ParamOK

\* Telling an account's applications keeps what they were told typed.
LEMMA ApplicationsTold ==
    ASSUME ToldOK, BoundsOK, NEW u \in Users \cup {None}, NEW l \in Locale \cup {None},
           NEW h \in Hours \cup {None}, Tell(u, l, h)
    PROVE  ToldOK' /\ faults' \in 0..MaxFaults
<1>1. faults' \in 0..MaxFaults
  BY ConstantsAssumption DEF Tell, BoundsOK, Fault, NoFault
<1>2. CASE told' = [told EXCEPT ![u] = [locale |-> IF l = None THEN @.locale ELSE l,
                                        hour |-> IF h = None THEN @.hour ELSE h]]
  <2>1. ASSUME NEW w \in Users
        PROVE  told[w].locale \in Locale /\ told[w].hour \in Hours \cup {None}
    BY DEF ToldOK
  <2> QED BY <1>1, <1>2, <2>1 DEF ToldOK
<1>3. CASE UNCHANGED told
  BY <1>1, <1>3 DEF ToldOK
<1> QED BY <1>1, <1>2, <1>3 DEF Tell

-----------------------------------------------------------------------------
(* Threads. *)

LEMMA NoFrameOK == ThreadOK("idle", NoFrame)
BY DEF ThreadOK, NoFrame, Frame, Labels, Keys, NoValues, NoMap, Value, Domain

\* A step of one thread that leaves it well leaves all threads well.
LEMMA ThreadMoves ==
    ASSUME MemOK, NEW t \in Threads, NEW label, NEW f,
           Goto(t, label), Keep(t, f), ThreadOK(label, f)
    PROVE  MemOK'
<1>1. label \in Labels /\ f \in Frame
  BY DEF ThreadOK
<1>2. pc' = [pc EXCEPT ![t] = label] /\ frame' = [frame EXCEPT ![t] = f]
  BY DEF Goto, Keep
<1>3. pc' \in [Threads -> Labels] /\ frame' \in [Threads -> Frame]
  BY <1>1, <1>2 DEF MemOK
<1>4. ASSUME NEW s \in Threads PROVE ThreadOK(pc'[s], frame'[s])
  <2>1. CASE s = t
    BY <1>2, <2>1 DEF MemOK
  <2>2. CASE s # t
    BY <1>2, <2>2 DEF MemOK
  <2> QED BY <2>1, <2>2
<1> QED BY <1>3, <1>4 DEF MemOK

LEMMA ThreadStays ==
    ASSUME MemOK, NEW t \in Threads, NEW label, Goto(t, label), UNCHANGED frame,
           ThreadOK(label, frame[t])
    PROVE  MemOK'
<1>1. Keep(t, frame[t])
  BY DEF Keep, MemOK
<1> QED BY <1>1, ThreadMoves

LEMMA ThreadReturns ==
    ASSUME MemOK, NEW t \in Threads, Return(t)
    PROVE  MemOK'
BY ThreadMoves, NoFrameOK DEF Return

LEMMA ThreadNow ==
    ASSUME MemOK, NEW t \in Threads
    PROVE  ThreadOK(pc[t], frame[t])
BY DEF MemOK

-----------------------------------------------------------------------------
(* The setters. *)

\* A call begins well when its frame does.
LEMMA CallBegins ==
    ASSUME IInv, NEW t \in Threads, NEW u \in Users, NEW op \in AllOperations,
           NEW label, NEW f, Begin(t, op, u, label, f),
           ThreadOK(label, [f EXCEPT !.op = op, !.user = u]),
           opened' \in BOOLEAN, faults' \in 0..MaxFaults
    PROVE  IInv'
<1>1. MemOK'
  BY ThreadMoves DEF IInv, Begin
<1>2. ParamOK' /\ StoredOK' /\ ToldOK' /\ EnvOK'
  BY DEF IInv, Begin, ParamOK, StoredOK, ToldOK, EnvOK, env
<1>3. ops' \in 0..MaxOps
  BY ConstantsAssumption DEF IInv, BoundsOK, Begin
<1>4. initDone' \in BOOLEAN /\ service' \in {"down", "starting", "up"}
  BY DEF IInv, FlagsOK, Begin
<1> QED BY <1>1, <1>2, <1>3, <1>4 DEF IInv, FlagsOK, BoundsOK

\* The frame of a call that wants to set the locale l, or value v of another key.
LEMMA WantsLocale ==
    ASSUME NEW l \in Locale, NEW u \in Users, NEW e \in (ExtKeys \X (ExtValues \cup {None})) \cup {None},
           NEW op \in AllOperations \ {"SetSystemLanguage"}
    PROVE  ThreadOK("loc_was", [[Wants("locale", l) EXCEPT !.ext = e] EXCEPT !.op = op, !.user = u])
BY DEF ThreadOK, Wants, NoFrame, Frame, Labels, Keys, NoValues, NoMap, Value, Domain

LEMMA WantsLocaleOnly ==
    ASSUME NEW l \in Locale, NEW u \in Users,
           NEW op \in AllOperations \ {"SetSystemLanguage"}
    PROVE  ThreadOK("loc_was", [Wants("locale", l) EXCEPT !.op = op, !.user = u])
BY DEF ThreadOK, Wants, NoFrame, Frame, Labels, Keys, NoValues, NoMap, Value, Domain

LEMMA CallStep ==
    ASSUME IInv, NEW t \in Threads, Call(t)
    PROVE  IInv'
<1> USE DEF AllOperations
<1>1. ASSUME NEW u \in Users, NEW l \in Languages, CallSetSystemLanguage(t, u, l)
      PROVE  IInv'
  <2> DEFINE f == [Wants("language", l) EXCEPT !.old = param["language"]]
  <2>1. Begin(t, "SetSystemLanguage", u, "lang_set", f) /\ UNCHANGED <<opened, faults>>
    BY <1>1 DEF CallSetSystemLanguage
  <2>2. ThreadOK("lang_set", [f EXCEPT !.op = "SetSystemLanguage", !.user = u])
    BY DEF IInv, ParamOK, ThreadOK, Wants, NoFrame, Frame, Labels, Keys, NoValues, NoMap,
           Value, Domain
  <2> HIDE DEF f
  <2> QED BY <2>1, <2>2, CallBegins DEF IInv, FlagsOK, BoundsOK
<1>2. ASSUME NEW u \in Users, NEW r \in Regions, CallSetSystemRegion(t, u, r)
      PROVE  IInv'
  <2> DEFINE l == UpdateRegionOfLocale(r)
  <2>1. Begin(t, "SetSystemRegion", u, "loc_was", Wants("locale", l))
        /\ UNCHANGED <<opened, faults>>
    BY <1>2 DEF CallSetSystemRegion
  <2>2. l \in Locale
    BY LocaleRebuilt DEF IInv
  <2> HIDE DEF l
  <2>3. ThreadOK("loc_was", [Wants("locale", l) EXCEPT !.op = "SetSystemRegion", !.user = u])
    BY <2>2, WantsLocaleOnly
  <2> QED BY <2>1, <2>3, CallBegins DEF IInv, FlagsOK, BoundsOK
<1>3. ASSUME NEW u \in Users, NEW l \in Languages, NEW r \in Regions,
             CallSetSystemLocale(t, u, l, r)
      PROVE  IInv'
  <2> DEFINE loc == [lang |-> l, region |-> r, ext |-> NoExt]
  <2>1. Begin(t, "SetSystemLocale", u, "loc_was", Wants("locale", loc))
        /\ UNCHANGED <<opened, faults>>
    BY <1>3 DEF CallSetSystemLocale
  <2>2. loc \in Locale
    BY DEF Locale, NoExt, Ext
  <2> HIDE DEF loc
  <2>3. ThreadOK("loc_was", [Wants("locale", loc) EXCEPT !.op = "SetSystemLocale", !.user = u])
    BY <2>2, WantsLocaleOnly
  <2> QED BY <2>1, <2>3, CallBegins DEF IInv, FlagsOK, BoundsOK
<1>4. ASSUME NEW u \in Users, NEW k \in ExtKeys, NEW v \in ExtValues,
             CallSetExtParam(t, u, k, v)
      PROVE  IInv'
  <2>1. PICK ok \in BOOLEAN :
            LET locale == Fallback(ReadStored(ok, "locale", u), "locale")
            IN  /\ OpenPreferences(ok)
                /\ Begin(t, "SetExtParam", u, "loc_was",
                         [Wants("locale", ModifyExtParam(locale, k, v)) EXCEPT !.ext = <<k, v>>])
    BY <1>4 DEF CallSetExtParam
  <2> DEFINE l == ModifyExtParam(Fallback(ReadStored(ok, "locale", u), "locale"), k, v)
  <2>2. l \in Locale
    BY FallbackLocale, ExtModified DEF IInv
  <2>3. /\ OpenPreferences(ok)
        /\ Begin(t, "SetExtParam", u, "loc_was", [Wants("locale", l) EXCEPT !.ext = <<k, v>>])
    BY <2>1
  <2> HIDE DEF l
  <2>4. ThreadOK("loc_was", [[Wants("locale", l) EXCEPT !.ext = <<k, v>>]
                                EXCEPT !.op = "SetExtParam", !.user = u])
    BY <2>2, WantsLocale
  <2> QED BY <2>3, <2>4, PreferencesOpened, CallBegins DEF IInv
<1>5. ASSUME NEW u \in Users, NEW flag \in BOOLEAN, CallSetUsingLocalDigit(t, u, flag)
      PROVE  IInv'
  <2> DEFINE v == IF flag THEN LocalDigit[param["locale"].lang] ELSE None
             l == ModifyExtParam(param["locale"], NumberKey, v)
  <2>1. /\ Begin(t, "SetUsingLocalDigit", u, "loc_was",
                 [Wants("locale", l) EXCEPT !.ext = <<NumberKey, v>>])
        /\ UNCHANGED <<opened, faults>>
    BY <1>5 DEF CallSetUsingLocalDigit
  <2>2. v \in ExtValues \cup {None}
    BY ConstantsAssumption DEF IInv, ParamOK, Locale
  <2>3. l \in Locale
    BY <2>2, ExtModified, ConstantsAssumption DEF IInv, ParamOK
  <2> HIDE DEF v, l
  <2>4. ThreadOK("loc_was", [[Wants("locale", l) EXCEPT !.ext = <<NumberKey, v>>]
                                EXCEPT !.op = "SetUsingLocalDigit", !.user = u])
    BY <2>2, <2>3, WantsLocale, ConstantsAssumption
  <2> QED BY <2>1, <2>4, CallBegins DEF IInv, FlagsOK, BoundsOK
<1>6. ASSUME NEW u \in Users, NEW h \in Hours, CallSet24HourClock(t, u, h)
      PROVE  IInv'
  <2> DEFINE f == Wants("hour", h)
  <2>1. Begin(t, "Set24HourClock", u, "hour_set", f) /\ UNCHANGED <<opened, faults>>
    BY <1>6 DEF CallSet24HourClock
  <2>2. ThreadOK("hour_set", [f EXCEPT !.op = "Set24HourClock", !.user = u])
    BY DEF ThreadOK, Wants, NoFrame, Frame, Labels, Keys, NoValues, NoMap, Value, Domain
  <2> HIDE DEF f
  <2> QED BY <2>1, <2>2, CallBegins DEF IInv, FlagsOK, BoundsOK
<1> QED BY <1>1, <1>2, <1>3, <1>4, <1>5, <1>6 DEF Call

-----------------------------------------------------------------------------
(* The steps of a call. *)

\* The variables a step of a setter leaves alone.
LEMMA SettingsAlone ==
    ASSUME IInv, UNCHANGED <<initDone, service, env, ops>>
    PROVE  /\ EnvOK' /\ initDone' \in BOOLEAN /\ service' \in {"down", "starting", "up"}
           /\ ops' \in 0..MaxOps
BY DEF IInv, EnvOK, env, FlagsOK, BoundsOK

LEMMA LanguageStep ==
    ASSUME IInv, NEW t \in Threads, LanguageSet(t) \/ LanguageLocale(t) \/ LanguageUndo(t)
    PROVE  IInv'
<1> DEFINE f == frame[t]
<1>1. ThreadOK(pc[t], f)
  BY ThreadNow DEF IInv
<1>2. f.want["language"] \in Languages /\ f.old \in Languages
  BY <1>1 DEF ThreadOK, LanguageSet, LanguageLocale, LanguageUndo
<1>3. /\ EnvOK' /\ initDone' \in BOOLEAN /\ service' \in {"down", "starting", "up"}
      /\ ops' \in 0..MaxOps
  BY SettingsAlone DEF LanguageSet, LanguageLocale, LanguageUndo
<1>4. StoredOK' /\ ToldOK' /\ opened' \in BOOLEAN
  BY DEF IInv, StoredOK, ToldOK, FlagsOK, LanguageSet, LanguageLocale, LanguageUndo
<1>5. CASE LanguageSet(t)
  <2>1. PICK ok \in BOOLEAN :
            /\ SetParameter("language", f.want["language"], ok)
            /\ IF ok THEN Goto(t, "lang_locale") /\ UNCHANGED frame ELSE Return(t)
    BY <1>5 DEF LanguageSet
  <2>2. ParamOK' /\ faults' \in 0..MaxFaults
    BY <1>2, <2>1, ParameterSet, DomainOfKey DEF IInv, Keys
  <2>3. ThreadOK("lang_locale", f)
    BY <1>1, <1>5 DEF ThreadOK, Labels, LanguageSet
  <2>4. MemOK'
    BY <2>1, <2>3, ThreadStays, ThreadReturns DEF IInv
  <2> QED BY <1>3, <1>4, <2>2, <2>4 DEF IInv, FlagsOK, BoundsOK
<1>6. CASE LanguageLocale(t)
  <2> DEFINE l == UpdateLanguageOfLocale(f.want["language"])
  <2>1. l \in Locale
    BY <1>2, LocaleRebuilt DEF IInv
  <2>2. Keep(t, [f EXCEPT !.want["locale"] = l]) /\ Goto(t, "loc_was")
    BY <1>6 DEF LanguageLocale
  <2> HIDE DEF l
  <2>3. ThreadOK("loc_was", [f EXCEPT !.want["locale"] = l])
    BY <1>1, <1>2, <2>1 DEF ThreadOK, Frame, Labels, Keys, Value, Domain
  <2>4. MemOK'
    BY <2>2, <2>3, ThreadMoves DEF IInv
  <2>5. ParamOK' /\ faults' \in 0..MaxFaults
    BY <1>6 DEF IInv, ParamOK, BoundsOK, LanguageLocale
  <2> QED BY <1>3, <1>4, <2>4, <2>5 DEF IInv, FlagsOK, BoundsOK
<1>7. CASE LanguageUndo(t)
  <2>1. PICK ok \in BOOLEAN : SetParameter("language", f.old, ok)
    BY <1>7 DEF LanguageUndo
  <2>2. ParamOK' /\ faults' \in 0..MaxFaults
    BY <1>2, <2>1, ParameterSet, DomainOfKey DEF IInv, Keys
  <2>3. MemOK'
    BY <1>7, ThreadReturns DEF LanguageUndo, IInv
  <2> QED BY <1>3, <1>4, <2>2, <2>3 DEF IInv, FlagsOK, BoundsOK
<1> QED BY <1>5, <1>6, <1>7

\* The clock test in a thread's frame.
LEMMA ClockNoted ==
    ASSUME NEW f \in Frame
    PROVE  /\ [f EXCEPT !.was24 = Is24HourClock] \in Frame
           /\ [f EXCEPT !.now24 = Is24HourClock, !.key = "locale"] \in Frame
<1> DEFINE c == Is24HourClock
<1>1. c \in BOOLEAN
  BY DEF Is24HourClock, Is24HourLocale
<1> HIDE DEF c
<1>2. /\ [f EXCEPT !.was24 = c] \in Frame
      /\ [f EXCEPT !.now24 = c, !.key = "locale"] \in Frame
  BY <1>1 DEF Frame, Keys
<1> QED BY <1>2 DEF c

\* A failed SetSystemLocale leaves its thread well.
LEMMA LocaleFails ==
    ASSUME MemOK, NEW t \in Threads, LocaleFailed(t)
    PROVE  MemOK'
<1>1. ThreadOK(pc[t], frame[t])
  BY ThreadNow
<1>2. CASE frame[t].op = "SetSystemLanguage"
  <2>1. ThreadOK("lang_undo", frame[t])
    BY <1>1, <1>2 DEF ThreadOK, Labels, NoFrame
  <2> QED BY <1>2, <2>1, ThreadStays DEF LocaleFailed
<1>3. CASE frame[t].op # "SetSystemLanguage"
  BY <1>3, ThreadReturns DEF LocaleFailed
<1> QED BY <1>2, <1>3

LEMMA LocaleStep ==
    ASSUME IInv, NEW t \in Threads,
           LocaleWas(t) \/ LocaleSet(t) \/ LocaleNow(t) \/ LocaleTell(t) \/ LocaleEvent(t)
    PROVE  IInv'
<1> DEFINE f == frame[t]
<1>1. ThreadOK(pc[t], f) /\ f \in Frame
  BY ThreadNow DEF IInv, ThreadOK
<1>2. /\ EnvOK' /\ initDone' \in BOOLEAN /\ service' \in {"down", "starting", "up"}
      /\ ops' \in 0..MaxOps
  BY SettingsAlone DEF LocaleWas, LocaleSet, LocaleNow, LocaleTell, LocaleEvent
<1>3. StoredOK' /\ opened' \in BOOLEAN
  BY DEF IInv, StoredOK, FlagsOK, LocaleWas, LocaleSet, LocaleNow, LocaleTell, LocaleEvent
<1>4. CASE LocaleWas(t)
  <2>1. ThreadOK("loc_set", [f EXCEPT !.was24 = Is24HourClock])
    BY <1>1, <1>4, ClockNoted DEF LocaleWas, ThreadOK, Labels, Frame
  <2>2. MemOK'
    BY <1>4, <2>1, ThreadMoves DEF LocaleWas, IInv
  <2>3. ParamOK' /\ ToldOK' /\ faults' \in 0..MaxFaults
    BY <1>4 DEF IInv, ParamOK, ToldOK, BoundsOK, LocaleWas
  <2> QED BY <1>2, <1>3, <2>2, <2>3 DEF IInv, FlagsOK, BoundsOK
<1>5. CASE LocaleSet(t)
  <2>1. PICK ok \in BOOLEAN :
            /\ SetParameter("locale", f.want["locale"], ok)
            /\ IF ok THEN Goto(t, "loc_now") /\ UNCHANGED frame ELSE LocaleFailed(t)
    BY <1>5 DEF LocaleSet
  <2>2. f.want["locale"] \in Locale
    BY <1>1, <1>5 DEF ThreadOK, LocaleSet
  <2>3. ParamOK' /\ faults' \in 0..MaxFaults
    BY <2>1, <2>2, ParameterSet, DomainOfKey DEF IInv, Keys
  <2>4. ThreadOK("loc_now", f)
    BY <1>1, <1>5 DEF ThreadOK, Labels, LocaleSet
  <2>5. MemOK'
    BY <2>1, <2>4, ThreadStays, LocaleFails DEF IInv
  <2>6. ToldOK'
    BY <1>5 DEF IInv, ToldOK, LocaleSet
  <2> QED BY <1>2, <1>3, <2>3, <2>5, <2>6 DEF IInv, FlagsOK, BoundsOK
<1>6. CASE LocaleNow(t)
  <2>1. ThreadOK("save_load", [f EXCEPT !.now24 = Is24HourClock, !.key = "locale"])
    BY <1>1, <1>6, ClockNoted DEF LocaleNow, ThreadOK, Labels, Frame
  <2>2. MemOK'
    BY <1>6, <2>1, ThreadMoves DEF LocaleNow, IInv
  <2>3. ParamOK' /\ ToldOK' /\ faults' \in 0..MaxFaults
    BY <1>6 DEF IInv, ParamOK, ToldOK, BoundsOK, LocaleNow
  <2> QED BY <1>2, <1>3, <2>2, <2>3 DEF IInv, FlagsOK, BoundsOK
<1>7. CASE LocaleTell(t)
  <2>1. f.user \in Users \cup {None} /\ f.want["locale"] \in Locale \cup {None}
    BY <1>1, DomainOfKey DEF ThreadOK, Frame, Keys
  <2>2. ChangedHour(f) \in Hours \cup {None}
    BY DEF ChangedHour, Hours
  <2>3. ToldOK' /\ faults' \in 0..MaxFaults
    BY <1>7, <2>1, <2>2, ApplicationsTold DEF LocaleTell, IInv
  <2>4. ThreadOK("loc_event", f)
    BY <1>1, <1>7 DEF ThreadOK, Labels, LocaleTell
  <2>5. MemOK'
    BY <1>7, <2>4, ThreadStays DEF LocaleTell, IInv
  <2>6. ParamOK'
    BY <1>7 DEF IInv, ParamOK, LocaleTell
  <2> QED BY <1>2, <1>3, <2>3, <2>5, <2>6 DEF IInv, FlagsOK, BoundsOK
<1>8. CASE LocaleEvent(t)
  <2>1. ThreadOK("save_load", [f EXCEPT !.key = "language"])
    BY <1>1, <1>8 DEF ThreadOK, Labels, Frame, Keys, LocaleEvent
  <2>2. MemOK'
    BY <1>8, <2>1, ThreadMoves, ThreadReturns, LocaleFails DEF LocaleEvent, IInv
  <2>3. ParamOK' /\ ToldOK' /\ faults' \in 0..MaxFaults
    BY <1>8, ConstantsAssumption
    DEF IInv, ParamOK, ToldOK, BoundsOK, LocaleEvent, Fault, NoFault
  <2> QED BY <1>2, <1>3, <2>2, <2>3 DEF IInv, FlagsOK, BoundsOK
<1> QED BY <1>4, <1>5, <1>6, <1>7, <1>8

LEMMA HourStep ==
    ASSUME IInv, NEW t \in Threads, HourSet(t) \/ HourTell(t) \/ HourEvent(t)
    PROVE  IInv'
<1> DEFINE f == frame[t]
<1>1. ThreadOK(pc[t], f) /\ f \in Frame
  BY ThreadNow DEF IInv, ThreadOK
<1>2. /\ EnvOK' /\ initDone' \in BOOLEAN /\ service' \in {"down", "starting", "up"}
      /\ ops' \in 0..MaxOps
  BY SettingsAlone DEF HourSet, HourTell, HourEvent
<1>3. StoredOK' /\ opened' \in BOOLEAN
  BY DEF IInv, StoredOK, FlagsOK, HourSet, HourTell, HourEvent
<1>4. f.want["hour"] \in Hours \cup {None} /\ f.user \in Users \cup {None}
  BY <1>1, DomainOfKey DEF ThreadOK, Frame, Keys
<1>5. CASE HourSet(t)
  <2>1. PICK ok \in BOOLEAN :
            /\ SetParameter("hour", f.want["hour"], ok)
            /\ IF ok THEN Goto(t, "save_load") /\ Keep(t, [f EXCEPT !.key = "hour"])
               ELSE Return(t)
    BY <1>5 DEF HourSet
  <2>2. ParamOK' /\ faults' \in 0..MaxFaults
    <3>1. f.want["hour"] \in Hours
      BY <1>1, <1>5 DEF ThreadOK, HourSet
    <3> QED BY <2>1, <3>1, ParameterSet, DomainOfKey DEF IInv, Keys
  <2>3. ThreadOK("save_load", [f EXCEPT !.key = "hour"])
    BY <1>1, <1>5 DEF ThreadOK, Labels, Frame, Keys, HourSet
  <2>4. MemOK'
    BY <2>1, <2>3, ThreadMoves, ThreadReturns DEF IInv
  <2>5. ToldOK'
    BY <1>5 DEF IInv, ToldOK, HourSet
  <2> QED BY <1>2, <1>3, <2>2, <2>4, <2>5 DEF IInv, FlagsOK, BoundsOK
<1>6. CASE HourTell(t)
  <2>1. ToldOK' /\ faults' \in 0..MaxFaults
    BY <1>4, <1>6, ApplicationsTold DEF HourTell, IInv
  <2>2. ThreadOK("hour_event", f)
    BY <1>1, <1>6 DEF ThreadOK, Labels, HourTell
  <2>3. MemOK'
    BY <1>6, <2>2, ThreadStays DEF HourTell, IInv
  <2>4. ParamOK'
    BY <1>6 DEF IInv, ParamOK, HourTell
  <2> QED BY <1>2, <1>3, <2>1, <2>3, <2>4 DEF IInv, FlagsOK, BoundsOK
<1>7. CASE HourEvent(t)
  <2>1. MemOK'
    BY <1>7, ThreadReturns DEF HourEvent, IInv
  <2>2. ParamOK' /\ ToldOK' /\ faults' \in 0..MaxFaults
    BY <1>7, ConstantsAssumption
    DEF IInv, ParamOK, ToldOK, BoundsOK, HourEvent, Fault, NoFault
  <2> QED BY <1>2, <1>3, <2>1, <2>2 DEF IInv, FlagsOK, BoundsOK
<1> QED BY <1>5, <1>6, <1>7

-----------------------------------------------------------------------------
(* Saving. *)

\* The map that is written back has values of its key, if the one read had.
LEMMA MapRewritten ==
    ASSUME StoredOK, NEW k \in Keys, NEW snap \in [Users -> Value],
           \A w \in Users : snap[w] \in Domain(k) \cup {None},
           NEW u, NEW v \in Domain(k) \cup {None},
           stored' = [stored EXCEPT ![k] = Rewritten(snap, u, v)]
    PROVE  StoredOK'
<1>1. v \in Value
  BY ValueOfKey
<1>2. Rewritten(snap, u, v) \in [Users -> Value]
  BY <1>1 DEF Rewritten
<1>3. \A w \in Users : Rewritten(snap, u, v)[w] \in Domain(k) \cup {None}
  BY DEF Rewritten
<1> QED BY <1>2, <1>3 DEF StoredOK

\* Whatever follows a save, the thread is left well.
LEMMA SaveFollowed ==
    ASSUME MemOK, NEW t \in Threads, NEW ok \in BOOLEAN, pc[t] = "save_store",
           AfterSave(t, ok)
    PROVE  MemOK'
<1> DEFINE f == frame[t]
           done == ~ok \/ f.key = "hour"
<1>1. ThreadOK("save_store", f) /\ f \in Frame
  BY ThreadNow DEF ThreadOK
<1>2. f.op # "none" => ThreadOK("hour_tell", f) /\ ThreadOK("loc_tell", f) /\ ThreadOK("init_mark", f)
  BY <1>1 DEF ThreadOK, Labels
<1>3. ThreadOK("save_load", [f EXCEPT !.key = NextKey(@), !.snap = NoMap])
  <2>1. NextKey(f.key) \in Keys /\ NoMap \in [Users -> Value]
    BY DEF NextKey, Keys, NoMap, Value
  <2> QED BY <1>1, <2>1 DEF ThreadOK, Labels, Frame
<1>4. CASE f.op \in AllOperations
  <2>1. IF f.key = "language" THEN Return(t)
        ELSE Goto(t, IF f.key = "hour" THEN "hour_tell" ELSE "loc_tell") /\ UNCHANGED frame
    BY <1>4 DEF AfterSave, AllOperations
  <2>2. f.op # "none"
    BY <1>4 DEF AllOperations
  <2> QED BY <1>2, <2>1, <2>2, ThreadStays, ThreadReturns
<1>5. CASE f.op = "InitMultiUser" /\ done
  <2>1. Goto(t, "init_mark") /\ UNCHANGED frame
    BY <1>5 DEF AfterSave, AllOperations
  <2> QED BY <1>2, <1>5, <2>1, ThreadStays
<1>6. CASE f.op \in {"AddUser", "RemoveUser"} /\ done
  <2>1. Return(t)
    BY <1>6 DEF AfterSave, AllOperations
  <2> QED BY <2>1, ThreadReturns
<1>7. CASE /\ f.op \notin AllOperations /\ ~(f.op = "InitMultiUser" /\ done)
           /\ ~(f.op \in {"AddUser", "RemoveUser"} /\ done)
  <2>1. Goto(t, "save_load") /\ Keep(t, [f EXCEPT !.key = NextKey(@), !.snap = NoMap])
    BY <1>7 DEF AfterSave
  <2> QED BY <1>3, <2>1, ThreadMoves
<1> QED BY <1>4, <1>5, <1>6, <1>7

LEMMA SaveStep ==
    ASSUME IInv, NEW t \in Threads, SaveLoad(t) \/ SaveStore(t)
    PROVE  IInv'
<1> DEFINE f == frame[t]
<1>1. ThreadOK(pc[t], f) /\ f \in Frame /\ f.key \in Keys
  BY ThreadNow DEF IInv, ThreadOK, Frame
<1>2. /\ EnvOK' /\ initDone' \in BOOLEAN /\ service' \in {"down", "starting", "up"}
      /\ ops' \in 0..MaxOps
  BY SettingsAlone DEF SaveLoad, SaveStore
<1>3. ParamOK' /\ ToldOK'
  BY DEF IInv, ParamOK, ToldOK, SaveLoad, SaveStore
<1>4. CASE SaveLoad(t)
  <2>1. PICK ok \in BOOLEAN :
            /\ OpenPreferences(ok)
            /\ Keep(t, [f EXCEPT !.snap = [u \in Users |-> ReadStored(ok, f.key, u)]])
    BY <1>4 DEF SaveLoad
  <2> DEFINE snap == [u \in Users |-> ReadStored(ok, f.key, u)]
  <2>2. \A u \in Users : snap[u] \in Domain(f.key) \cup {None}
    BY <1>1, StoredRead DEF IInv
  <2>3. snap \in [Users -> Value]
    BY <1>1, <2>2, ValueOfKey
  <2>4. Keep(t, [f EXCEPT !.snap = snap]) /\ Goto(t, "save_store")
    BY <1>4, <2>1 DEF SaveLoad
  <2> HIDE DEF snap
  <2>5. ThreadOK("save_store", [f EXCEPT !.snap = snap])
    BY <1>1, <1>4, <2>2, <2>3 DEF ThreadOK, Labels, Frame, SaveLoad
  <2>6. MemOK'
    BY <2>4, <2>5, ThreadMoves DEF IInv
  <2>7. opened' \in BOOLEAN /\ faults' \in 0..MaxFaults
    BY <2>1, PreferencesOpened DEF IInv
  <2>8. StoredOK'
    BY <1>4 DEF IInv, StoredOK, SaveLoad
  <2> QED BY <1>2, <1>3, <2>6, <2>7, <2>8 DEF IInv, FlagsOK, BoundsOK
<1>5. CASE SaveStore(t)
  <2> DEFINE entry == IF Deletes(f) THEN None ELSE f.want[f.key]
  <2>1. entry \in Domain(f.key) \cup {None}
    BY <1>1 DEF ThreadOK
  <2>2. /\ f.snap \in [Users -> Value]
        /\ \A u \in Users : f.snap[u] \in Domain(f.key) \cup {None}
    BY <1>1, <1>5 DEF ThreadOK, Frame, SaveStore
  <2>3. \/ stored' = [stored EXCEPT ![f.key] = Rewritten(f.snap, f.user, entry)]
        \/ UNCHANGED stored
    BY <1>5 DEF SaveStore
  <2> HIDE DEF entry
  <2>4. UNCHANGED stored => StoredOK'
    BY DEF IInv, StoredOK
  <2>5. StoredOK'
    <3> DEFINE k == f.key
               snap == f.snap
               u == f.user
    <3>1. StoredOK /\ k \in Keys
      BY <1>1 DEF IInv
    <3>2. snap \in [Users -> Value] /\ \A w \in Users : snap[w] \in Domain(k) \cup {None}
      BY <2>2
    <3>3. stored' = [stored EXCEPT ![k] = Rewritten(snap, u, entry)] \/ UNCHANGED stored
      BY <2>3
    <3>4. entry \in Domain(k) \cup {None}
      BY <2>1
    <3> HIDE DEF k, snap, u
    <3> QED BY <2>4, <3>1, <3>2, <3>3, <3>4, MapRewritten
  <2>6. \E ok \in BOOLEAN : AfterSave(t, ok)
    BY <1>5 DEF SaveStore
  <2>7. MemOK'
    BY <1>5, <2>6, SaveFollowed DEF SaveStore, IInv
  <2>8. opened' \in BOOLEAN /\ faults' \in 0..MaxFaults
    <3>1. \/ \E ok \in BOOLEAN : OpenPreferences(ok)
          \/ opened' = TRUE /\ Fault("prefs")
      BY <1>5 DEF SaveStore
    <3>2. CASE opened' = TRUE /\ Fault("prefs")
      BY <3>2, ConstantsAssumption DEF IInv, BoundsOK, Fault
    <3> QED BY <3>1, <3>2, PreferencesOpened DEF IInv
  <2> QED BY <1>2, <1>3, <2>5, <2>7, <2>8 DEF IInv, FlagsOK, BoundsOK
<1> QED BY <1>4, <1>5

-----------------------------------------------------------------------------
(* Account events. *)

LEMMA EventTaken ==
    ASSUME IInv, NEW t \in Threads, HandleEvent(t)
    PROVE  IInv'
<1> DEFINE e == Head(events)
           f == [NoFrame EXCEPT !.user = e.user]
<1>1. /\ e \in AccountEvent /\ Tail(events) \in Seq(AccountEvent)
  BY DEF IInv, EnvOK, HandleEvent
<1>2. e.user \in Users /\ e.type \in {"added", "switched", "removed"}
  BY <1>1 DEF AccountEvent
<1>3. /\ ThreadOK("sw_read", [f EXCEPT !.op = "SwitchUser", !.key = "locale"])
      /\ ThreadOK("add_read", [f EXCEPT !.op = "AddUser"])
      /\ ThreadOK("save_load", [f EXCEPT !.op = "RemoveUser"])
  BY <1>2 DEF ThreadOK, NoFrame, Frame, Labels, Keys, NoValues, NoMap, Value, Domain
<1>4. \/ Goto(t, "sw_read") /\ Keep(t, [f EXCEPT !.op = "SwitchUser", !.key = "locale"])
      \/ Goto(t, "add_read") /\ Keep(t, [f EXCEPT !.op = "AddUser"])
      \/ Goto(t, "save_load") /\ Keep(t, [f EXCEPT !.op = "RemoveUser"])
  <2>1. CASE e.type = "switched"
    BY <2>1 DEF HandleEvent
  <2>2. CASE e.type = "added"
    BY <2>2 DEF HandleEvent
  <2>3. CASE e.type = "removed"
    BY <2>3 DEF HandleEvent
  <2> QED BY <1>2, <2>1, <2>2, <2>3
<1>5. MemOK'
  <2> HIDE DEF f
  <2> QED BY <1>3, <1>4, ThreadMoves DEF IInv
<1>6. EnvOK'
  BY <1>1 DEF HandleEvent, IInv, EnvOK
<1>7. ParamOK' /\ StoredOK' /\ ToldOK' /\ FlagsOK' /\ BoundsOK'
  BY DEF HandleEvent, IInv, ParamOK, StoredOK, ToldOK, FlagsOK, BoundsOK
<1> QED BY <1>5, <1>6, <1>7 DEF IInv

\* The switch goes on well to the next key or to the applications.
LEMMA SwitchGoesOn ==
    ASSUME MemOK, NEW t \in Threads, pc[t] = "sw_set", SwitchGoOn(t)
    PROVE  MemOK'
<1> DEFINE f == frame[t]
<1>1. ThreadOK("sw_set", f)
  BY ThreadNow
<1>2. ThreadOK("sw_tell", f)
  BY <1>1 DEF ThreadOK, Labels
<1>3. ThreadOK("sw_read", [f EXCEPT !.key = NextSwitchKey(@)])
  <2>1. NextSwitchKey(f.key) \in Keys
    BY DEF NextSwitchKey, Keys
  <2> QED BY <1>1, <2>1 DEF ThreadOK, Labels, Frame
<1> QED BY <1>2, <1>3, ThreadStays, ThreadMoves DEF SwitchGoOn

LEMMA SwitchStep ==
    ASSUME IInv, NEW t \in Threads,
           SwitchRead(t) \/ SwitchSet(t) \/ SwitchTell(t) \/ SwitchEvent(t)
    PROVE  IInv'
<1> DEFINE f == frame[t]
<1>1. ThreadOK(pc[t], f) /\ f \in Frame /\ f.key \in Keys
  BY ThreadNow DEF IInv, ThreadOK, Frame
<1>2. /\ EnvOK' /\ initDone' \in BOOLEAN /\ service' \in {"down", "starting", "up"}
      /\ ops' \in 0..MaxOps
  BY SettingsAlone DEF SwitchRead, SwitchSet, SwitchTell, SwitchEvent
<1>3. StoredOK'
  BY DEF IInv, StoredOK, SwitchRead, SwitchSet, SwitchTell, SwitchEvent
<1>4. CASE SwitchRead(t)
  <2>1. f.user \in Users
    BY <1>1, <1>4 DEF ThreadOK, SwitchRead
  <2>2. PICK ok \in BOOLEAN :
            /\ OpenPreferences(ok)
            /\ Keep(t, [f EXCEPT !.want[f.key] = ReadStored(ok, f.key, f.user)])
    BY <1>4 DEF SwitchRead
  <2> DEFINE v == ReadStored(ok, f.key, f.user)
  <2>3. v \in Domain(f.key) \cup {None} /\ v \in Value
    BY <1>1, <2>1, StoredRead, ValueOfKey DEF IInv
  <2>4. Keep(t, [f EXCEPT !.want[f.key] = v]) /\ Goto(t, "sw_set") /\ pc[t] = "sw_read"
    BY <1>4, <2>2 DEF SwitchRead
  <2> HIDE DEF v
  <2>5. ThreadOK("sw_set", [f EXCEPT !.want[f.key] = v])
    BY <1>1, <2>3, <2>4 DEF ThreadOK, Labels, Frame
  <2>6. MemOK'
    BY <2>4, <2>5, ThreadMoves DEF IInv
  <2>7. opened' \in BOOLEAN /\ faults' \in 0..MaxFaults
    BY <2>2, PreferencesOpened DEF IInv
  <2>8. ParamOK' /\ ToldOK'
    BY <1>4 DEF IInv, ParamOK, ToldOK, SwitchRead
  <2> QED BY <1>2, <1>3, <2>6, <2>7, <2>8 DEF IInv, FlagsOK, BoundsOK
<1>5. CASE SwitchSet(t)
  <2> DEFINE v == f.want[f.key]
  <2>1. v \in Domain(f.key) \cup {None}
    BY <1>1 DEF ThreadOK
  <2>2. \/ v = None /\ UNCHANGED param /\ NoFault /\ SwitchGoOn(t)
        \/ v # None /\ SetParameter(f.key, v, TRUE) /\ SwitchGoOn(t)
        \/ v # None /\ Fault("load") /\ UNCHANGED param /\ Return(t)
    BY <1>5 DEF SwitchSet
  <2>3. pc[t] = "sw_set"
    BY <1>5 DEF SwitchSet
  <2> HIDE DEF v
  <2>4. MemOK'
    BY <2>2, <2>3, SwitchGoesOn, ThreadReturns DEF IInv
  <2>5. ParamOK' /\ faults' \in 0..MaxFaults
    <3>1. CASE UNCHANGED param /\ NoFault
      BY <3>1 DEF IInv, ParamOK, BoundsOK, NoFault
    <3>2. CASE v # None /\ SetParameter(f.key, v, TRUE)
      BY <1>1, <2>1, <3>2, ParameterSet DEF IInv
    <3>3. CASE Fault("load") /\ UNCHANGED param
      BY <3>3, ConstantsAssumption DEF IInv, ParamOK, BoundsOK, Fault
    <3> QED BY <2>2, <3>1, <3>2, <3>3
  <2>6. ToldOK' /\ opened' \in BOOLEAN
    BY <1>5 DEF IInv, ToldOK, FlagsOK, SwitchSet
  <2> QED BY <1>2, <1>3, <2>4, <2>5, <2>6 DEF IInv, FlagsOK, BoundsOK
<1>6. CASE SwitchTell(t)
  <2>1. f.user \in Users \cup {None} /\ f.want["locale"] \in Locale \cup {None}
        /\ f.want["hour"] \in Hours \cup {None}
    BY <1>1, DomainOfKey DEF ThreadOK, Frame, Keys
  <2>2. ToldOK' /\ faults' \in 0..MaxFaults
    BY <1>6, <2>1, ApplicationsTold DEF SwitchTell, IInv
  <2>3. ThreadOK("sw_event", f)
    BY <1>1, <1>6 DEF ThreadOK, Labels, SwitchTell
  <2>4. MemOK'
    BY <1>6, <2>3, ThreadStays DEF SwitchTell, IInv
  <2>5. ParamOK' /\ opened' \in BOOLEAN
    BY <1>6 DEF IInv, ParamOK, FlagsOK, SwitchTell
  <2> QED BY <1>2, <1>3, <2>2, <2>4, <2>5 DEF IInv, FlagsOK, BoundsOK
<1>7. CASE SwitchEvent(t)
  <2>1. MemOK'
    BY <1>7, ThreadReturns DEF SwitchEvent, IInv
  <2>2. ParamOK' /\ ToldOK' /\ opened' \in BOOLEAN
    BY <1>7 DEF IInv, ParamOK, ToldOK, FlagsOK, SwitchEvent
  <2>3. faults' \in 0..MaxFaults
    BY <1>7, ConstantsAssumption DEF IInv, BoundsOK, SwitchEvent, Fault, NoFault
  <2> QED BY <1>2, <1>3, <2>1, <2>2, <2>3 DEF IInv, FlagsOK, BoundsOK
<1> QED BY <1>4, <1>5, <1>6, <1>7

LEMMA AddStep ==
    ASSUME IInv, NEW t \in Threads, AddRead(t)
    PROVE  IInv'
<1> DEFINE f == frame[t]
           v == param[f.key]
           g == [f EXCEPT !.want[f.key] = v]
<1>1. pc[t] = "add_read"
  BY DEF AddRead
<1>2. ThreadOK("add_read", f) /\ f \in Frame /\ f.key \in Keys
  BY <1>1, ThreadNow DEF IInv, ThreadOK, Frame
<1>3. v \in Domain(f.key) \cup {None} /\ v \in Value
  BY <1>2 DEF IInv, ParamOK
<1>4. \/ Goto(t, "add_read") /\ Keep(t, [g EXCEPT !.key = NextKey(@)])
      \/ Goto(t, "save_load") /\ Keep(t, [g EXCEPT !.key = "language"])
      \/ Goto(t, "init_mark") /\ UNCHANGED frame
      \/ Return(t)
  BY DEF AddRead
<1>5. ThreadOK("init_mark", f)
  BY <1>2 DEF ThreadOK, Labels
<1> HIDE DEF v
<1>6. g \in Frame /\ \A k \in Keys : g.want[k] \in Domain(k) \cup {None}
  BY <1>2, <1>3 DEF ThreadOK, Frame
<1>7. g.op = "SetSystemLanguage" => g.want["language"] \in Languages /\ g.old \in Languages
  BY <1>2, <1>3 DEF ThreadOK, Frame, v, IInv, ParamOK
<1> HIDE DEF g
<1>8. /\ ThreadOK("add_read", [g EXCEPT !.key = NextKey(@)])
      /\ ThreadOK("save_load", [g EXCEPT !.key = "language"])
  <2>1. NextKey(g.key) \in Keys /\ "language" \in Keys
    BY DEF NextKey, Keys
  <2> QED BY <1>6, <1>7, <2>1 DEF ThreadOK, Labels, Frame
<1>9. MemOK'
  BY <1>4, <1>5, <1>8, ThreadMoves, ThreadStays, ThreadReturns DEF IInv
<1>10. ParamOK' /\ StoredOK' /\ ToldOK' /\ FlagsOK' /\ EnvOK' /\ BoundsOK'
  BY DEF AddRead, IInv, ParamOK, StoredOK, ToldOK, FlagsOK, EnvOK, env, BoundsOK
<1> QED BY <1>9, <1>10 DEF IInv

-----------------------------------------------------------------------------
(* The service and the account service. *)

LEMMA ServiceStep ==
    ASSUME IInv, Start \/ Unload \/ Kill
    PROVE  IInv'
<1>1. CASE Start
  BY <1>1 DEF Start, IInv, ParamOK, StoredOK, ToldOK, MemOK, mem, FlagsOK, EnvOK, env, BoundsOK
<1>2. CASE Unload \/ Kill
  <2>1. ProcessEnds
    BY <1>2 DEF Unload, Kill
  <2>2. MemOK'
    <3>1. NoFrame \in Frame /\ "idle" \in Labels
      BY NoFrameOK DEF ThreadOK
    <3> QED BY <2>1, <3>1, NoFrameOK DEF ProcessEnds, MemOK
  <2>3. ParamOK' /\ StoredOK' /\ ToldOK' /\ EnvOK'
    BY <2>1 DEF ProcessEnds, IInv, ParamOK, StoredOK, ToldOK, EnvOK, env
  <2>4. initDone' \in BOOLEAN /\ service' \in {"down", "starting", "up"} /\ opened' \in BOOLEAN
    BY <2>1 DEF ProcessEnds, IInv, FlagsOK
  <2>5. BoundsOK'
    BY <1>2, ConstantsAssumption DEF Unload, Kill, IInv, BoundsOK, Fault
  <2> QED BY <2>2, <2>3, <2>4, <2>5 DEF IInv, FlagsOK
<1> QED BY <1>1, <1>2

LEMMA InitStep ==
    ASSUME IInv, NEW t \in Threads, InitMultiUser(t) \/ InitMark(t)
    PROVE  IInv'
<1>1. ParamOK' /\ StoredOK' /\ ToldOK' /\ EnvOK' /\ ops' \in 0..MaxOps
  BY DEF InitMultiUser, InitMark, IInv, ParamOK, StoredOK, ToldOK, EnvOK, env, BoundsOK
<1>2. service' \in {"down", "starting", "up"}
  BY DEF InitMultiUser, InitMark, IInv, FlagsOK
<1>3. CASE InitMultiUser(t)
  <2> DEFINE f == [NoFrame EXCEPT !.op = "InitMultiUser", !.user = foreground]
  <2>1. ThreadOK("add_read", f)
    BY DEF IInv, EnvOK, ThreadOK, NoFrame, Frame, Labels, Keys, NoValues, NoMap, Value, Domain
  <2>2. UNCHANGED mem \/ (Goto(t, "add_read") /\ Keep(t, f))
    BY <1>3 DEF InitMultiUser
  <2> HIDE DEF f
  <2>3. UNCHANGED mem => MemOK'
    BY DEF IInv, mem, MemOK
  <2>4. MemOK'
    BY <2>1, <2>2, <2>3, ThreadMoves DEF IInv
  <2>5. \/ \E ok \in BOOLEAN : OpenPreferences(ok)
        \/ opened' = TRUE /\ Fault("account")
    BY <1>3 DEF InitMultiUser
  <2>6. CASE opened' = TRUE /\ Fault("account")
    <3>1. opened' \in BOOLEAN /\ faults' \in 0..MaxFaults
      BY <2>6, ConstantsAssumption DEF IInv, BoundsOK, Fault
    <3>2. initDone' \in BOOLEAN
      BY <1>3 DEF InitMultiUser, IInv, FlagsOK
    <3> QED BY <1>1, <1>2, <2>4, <3>1, <3>2 DEF IInv, FlagsOK, BoundsOK
  <2>7. CASE \E ok \in BOOLEAN : OpenPreferences(ok)
    <3>1. opened' \in BOOLEAN /\ faults' \in 0..MaxFaults
      BY <2>7, PreferencesOpened DEF IInv
    <3>2. initDone' \in BOOLEAN
      BY <1>3 DEF InitMultiUser, IInv, FlagsOK
    <3> QED BY <1>1, <1>2, <2>4, <3>1, <3>2 DEF IInv, FlagsOK, BoundsOK
  <2> QED BY <2>5, <2>6, <2>7
<1>4. CASE InitMark(t)
  <2>1. MemOK'
    BY <1>4, ThreadReturns DEF InitMark, IInv
  <2>2. initDone' \in BOOLEAN /\ opened' \in BOOLEAN
    BY <1>4, Zenon DEF InitMark, IInv, FlagsOK
  <2>3. faults' \in 0..MaxFaults
    BY <1>4, ConstantsAssumption DEF InitMark, IInv, BoundsOK, Fault, NoFault
  <2> QED BY <1>1, <1>2, <2>1, <2>2, <2>3 DEF IInv, FlagsOK, BoundsOK
<1> QED BY <1>3, <1>4

LEMMA AccountStep ==
    ASSUME IInv, Account
    PROVE  IInv'
<1>1. PICK u \in Users : AccountAdded(u) \/ AccountSwitched(u) \/ AccountRemoved(u)
  BY DEF Account
<1>2. PICK type \in {"added", "switched", "removed"} : Announce(type, u)
  BY <1>1 DEF AccountAdded, AccountSwitched, AccountRemoved
<1>3. accounts' \subseteq Users /\ foreground' \in accounts'
  BY <1>1 DEF AccountAdded, AccountSwitched, AccountRemoved, IInv, EnvOK
<1>4. events' \in Seq(AccountEvent)
  <2>1. [type |-> type, user |-> u] \in AccountEvent
    BY DEF AccountEvent
  <2> QED BY <1>2, <2>1 DEF Announce, IInv, EnvOK
<1>5. ParamOK' /\ StoredOK' /\ ToldOK' /\ MemOK' /\ FlagsOK'
  BY <1>2 DEF Announce, IInv, ParamOK, StoredOK, ToldOK, MemOK, mem, FlagsOK
<1>6. BoundsOK'
  BY <1>2, ConstantsAssumption DEF Announce, IInv, BoundsOK
<1> QED BY <1>3, <1>4, <1>5, <1>6 DEF IInv, EnvOK

-----------------------------------------------------------------------------
LEMMA Initially == Init => IInv
<1> SUFFICES ASSUME Init PROVE IInv
  OBVIOUS
<1>1. ParamOK
  <2>1. PICK l \in Languages, r \in Regions, h \in InitialHours :
            param = [k \in Keys |->
                        CASE k = "language" -> l
                          [] k = "locale" -> [lang |-> l, region |-> r, ext |-> NoExt]
                          [] k = "hour" -> h]
    BY DEF Init
  <2>2. [lang |-> l, region |-> r, ext |-> NoExt] \in Locale
    BY DEF Locale, Ext, NoExt
  <2>3. h \in Hours \cup {None}
    BY ConstantsAssumption DEF Hours
  <2> QED BY <2>1, <2>2, <2>3 DEF ParamOK, Keys, Domain, Value
<1>2. StoredOK
  BY DEF Init, StoredOK, NoMap, Value
<1>3. ToldOK
  <2>1. param["locale"] \in Locale /\ param["hour"] \in Hours \cup {None}
    BY <1>1, DomainOfKey DEF ParamOK, Keys
  <2> QED BY <2>1 DEF Init, ToldOK
<1>4. MemOK
  <2>1. NoFrame \in Frame /\ "idle" \in Labels
    BY NoFrameOK DEF ThreadOK
  <2> QED BY <2>1, NoFrameOK DEF Init, MemOK
<1>5. FlagsOK /\ EnvOK
  <2>1. initDone \in BOOLEAN /\ opened \in BOOLEAN /\ service \in {"down", "starting", "up"}
    BY DEF Init
  <2>2. accounts \subseteq Users /\ foreground \in accounts /\ events = << >>
    BY DEF Init
  <2>3. events \in Seq(AccountEvent)
    BY <2>2
  <2> QED BY <2>1, <2>2, <2>3 DEF FlagsOK, EnvOK
<1>6. BoundsOK
  BY ConstantsAssumption DEF Init, BoundsOK
<1> QED BY <1>1, <1>2, <1>3, <1>4, <1>5, <1>6 DEF IInv

LEMMA Inductive == IInv /\ [Next]_vars => IInv'
<1> SUFFICES ASSUME IInv, [Next]_vars PROVE IInv'
  OBVIOUS
<1>1. ASSUME NEW t \in Threads, Step(t) PROVE IInv'
  BY <1>1, LanguageStep, LocaleStep, HourStep, SaveStep, SwitchStep, AddStep, InitStep DEF Step
<1>2. CASE UNCHANGED vars
  BY <1>2 DEF vars, IInv, ParamOK, StoredOK, ToldOK, MemOK, FlagsOK, EnvOK, BoundsOK
<1> QED
  BY <1>1, <1>2, CallStep, EventTaken, InitStep, ServiceStep, AccountStep DEF Next

\* Every variable keeps its type: whatever the threads, accounts and failures, a
\* parameter and a saved value belong to the key they are kept under.
THEOREM TypeCorrect == Spec => []TypeOK
<1>1. IInv => TypeOK
  BY IInvImpliesTypeOK
<1> QED BY <1>1, Initially, Inductive, PTL DEF Spec

-----------------------------------------------------------------------------
(* Isolation of the accounts.  WriteMultiUsersParameter writes back the map   *)
(* it read.  What it read is still what is stored, as long as no other thread *)
(* saves in between and the Preferences file could be opened.                 *)

SnapCurrent ==
    \A t \in Threads :
        pc[t] = "save_store" => \A u \in Users : frame[t].snap[u] = stored[frame[t].key][u]

OneThread == \A s, t \in Threads : s = t

\* The labels a step other than SaveLoad takes a thread to.
Elsewhere(t) == \E label \in Labels \ {"save_store"} : Goto(t, label)

LEMMA NotToStore ==
    ASSUME NEW t \in Threads, MemOK, OneThread, Elsewhere(t)
    PROVE  \A s \in Threads : pc'[s] # "save_store"
BY DEF Goto, MemOK, OneThread, Elsewhere

LEMMA StepsElsewhere ==
    ASSUME NEW t \in Threads, Step(t), ~SaveLoad(t), ~SaveStore(t)
    PROVE  UNCHANGED stored /\ Elsewhere(t)
<1> USE DEF Elsewhere, Labels, Return
<1>1. CASE LanguageSet(t) \/ LanguageLocale(t) \/ LanguageUndo(t)
  BY <1>1 DEF LanguageSet, LanguageLocale, LanguageUndo
<1>2. CASE LocaleWas(t) \/ LocaleSet(t) \/ LocaleNow(t) \/ LocaleTell(t) \/ LocaleEvent(t)
  BY <1>2 DEF LocaleWas, LocaleSet, LocaleNow, LocaleTell, LocaleEvent, LocaleFailed
<1>3. CASE HourSet(t) \/ HourTell(t) \/ HourEvent(t)
  BY <1>3 DEF HourSet, HourTell, HourEvent
<1>4. CASE SwitchRead(t) \/ SwitchSet(t) \/ SwitchTell(t) \/ SwitchEvent(t)
  BY <1>4 DEF SwitchRead, SwitchSet, SwitchTell, SwitchEvent, SwitchGoOn
<1>5. CASE AddRead(t) \/ InitMark(t)
  BY <1>5 DEF AddRead, InitMark
<1> QED BY <1>1, <1>2, <1>3, <1>4, <1>5 DEF Step

LEMMA CallsElsewhere ==
    ASSUME NEW t \in Threads, Call(t)
    PROVE  UNCHANGED stored /\ Elsewhere(t)
<1> USE DEF Begin, Elsewhere, Labels
<1>1. ASSUME NEW u \in Users, NEW k \in ExtKeys, NEW v \in ExtValues, CallSetExtParam(t, u, k, v)
      PROVE  UNCHANGED stored /\ Elsewhere(t)
  BY <1>1 DEF CallSetExtParam
<1>2. ASSUME NEW u \in Users, NEW flag \in BOOLEAN, CallSetUsingLocalDigit(t, u, flag)
      PROVE  UNCHANGED stored /\ Elsewhere(t)
  BY <1>2 DEF CallSetUsingLocalDigit
<1>3. ASSUME NEW u \in Users, NEW l \in Languages, CallSetSystemLanguage(t, u, l)
      PROVE  UNCHANGED stored /\ Elsewhere(t)
  BY <1>3 DEF CallSetSystemLanguage
<1>4. ASSUME NEW u \in Users, NEW r \in Regions, CallSetSystemRegion(t, u, r)
      PROVE  UNCHANGED stored /\ Elsewhere(t)
  BY <1>4 DEF CallSetSystemRegion
<1>5. ASSUME NEW u \in Users, NEW l \in Languages, NEW r \in Regions,
             CallSetSystemLocale(t, u, l, r)
      PROVE  UNCHANGED stored /\ Elsewhere(t)
  BY <1>5 DEF CallSetSystemLocale
<1>6. ASSUME NEW u \in Users, NEW h \in Hours, CallSet24HourClock(t, u, h)
      PROVE  UNCHANGED stored /\ Elsewhere(t)
  BY <1>6 DEF CallSet24HourClock
<1> QED BY <1>1, <1>2, <1>3, <1>4, <1>5, <1>6 DEF Call

LEMMA EventsElsewhere ==
    ASSUME NEW t \in Threads, IInv, HandleEvent(t)
    PROVE  UNCHANGED stored /\ Elsewhere(t)
<1> DEFINE e == Head(events)
<1>1. e.type \in {"added", "switched", "removed"}
  <2>1. e \in AccountEvent
    BY DEF HandleEvent, IInv, EnvOK
  <2> QED BY <2>1 DEF AccountEvent
<1>2. CASE e.type = "switched"
  BY <1>2 DEF HandleEvent, Elsewhere, Labels
<1>3. CASE e.type = "added"
  BY <1>3 DEF HandleEvent, Elsewhere, Labels
<1>4. CASE e.type = "removed"
  BY <1>4 DEF HandleEvent, Elsewhere, Labels
<1> QED BY <1>1, <1>2, <1>3, <1>4

\* Every step but those of a save leaves the Preferences alone, and takes no thread
\* to where it writes a map back.
LEMMA OtherSteps ==
    ASSUME IInv, OneThread, [Next]_vars,
           \A t \in Threads : ~SaveLoad(t) /\ ~SaveStore(t)
    PROVE  /\ UNCHANGED stored
           /\ UNCHANGED mem \/ \A s \in Threads : pc'[s] # "save_store"
<1>1. ASSUME NEW t \in Threads, Call(t) \/ HandleEvent(t) \/ Step(t)
      PROVE  UNCHANGED stored /\ \A s \in Threads : pc'[s] # "save_store"
  BY <1>1, CallsElsewhere, EventsElsewhere, StepsElsewhere, NotToStore DEF IInv
<1>2. ASSUME NEW t \in Threads, InitMultiUser(t)
      PROVE  UNCHANGED stored /\ (UNCHANGED mem \/ \A s \in Threads : pc'[s] # "save_store")
  <2>1. UNCHANGED stored /\ (UNCHANGED mem \/ Elsewhere(t))
    BY <1>2 DEF InitMultiUser, Elsewhere, Labels
  <2> QED BY <2>1, NotToStore DEF IInv
<1>3. CASE Unload \/ Kill
  BY <1>3 DEF Unload, Kill, ProcessEnds
<1>4. CASE Start \/ Account \/ UNCHANGED vars
  BY <1>4 DEF Start, Account, AccountAdded, AccountSwitched, AccountRemoved, Announce, vars, mem
<1> QED BY <1>1, <1>2, <1>3, <1>4 DEF Next

LEMMA SnapKept ==
    ASSUME IInv, SnapCurrent, OneThread, "open" \notin Faults, [Next]_vars
    PROVE  SnapCurrent'
<1>1. ASSUME NEW t \in Threads, SaveLoad(t) PROVE SnapCurrent'
  <2> DEFINE f == frame[t]
  <2>1. PICK ok \in BOOLEAN :
            /\ OpenPreferences(ok)
            /\ Keep(t, [f EXCEPT !.snap = [u \in Users |-> ReadStored(ok, f.key, u)]])
    BY <1>1 DEF SaveLoad
  <2>2. ok = TRUE
    BY <2>1 DEF OpenPreferences, Fault
  <2>3. frame'[t] = [f EXCEPT !.snap = [u \in Users |-> stored[f.key][u]]]
    BY <2>1, <2>2 DEF Keep, ReadStored, IInv, MemOK
  <2>4. f \in Frame
    BY DEF IInv, MemOK
  <2>5. frame'[t].key = f.key /\ \A u \in Users : frame'[t].snap[u] = stored[f.key][u]
    BY <2>3, <2>4 DEF Frame
  <2>6. UNCHANGED stored
    BY <1>1 DEF SaveLoad
  <2> QED BY <2>5, <2>6 DEF SnapCurrent, OneThread
<1>2. ASSUME NEW t \in Threads, SaveStore(t) PROVE SnapCurrent'
  <2>1. \E ok \in BOOLEAN : AfterSave(t, ok)
    BY <1>2 DEF SaveStore
  <2>2. Elsewhere(t)
    BY <2>1 DEF AfterSave, Return, Elsewhere, Labels
  <2> QED BY <2>2, NotToStore DEF SnapCurrent, IInv
<1>3. CASE \A t \in Threads : ~SaveLoad(t) /\ ~SaveStore(t)
  BY <1>3, OtherSteps DEF SnapCurrent, mem
<1> QED BY <1>1, <1>2, <1>3

\* While one thread serves at a time and the Preferences file opens, saving the
\* settings of one account, or deleting them, changes those of no other account,
\* whatever else fails and whenever the service is killed.
THEOREM AccountsIsolated ==
    ASSUME OneThread, "open" \notin Faults
    PROVE  Spec => UserIsolation
<1>1. Init => SnapCurrent
  BY DEF Init, SnapCurrent
<1>2. IInv /\ SnapCurrent /\ [Next]_vars => SnapCurrent'
  BY SnapKept
<1>3. IInv /\ SnapCurrent /\ [Next]_vars =>
        [\A k \in Keys, u \in Users : stored'[k][u] # stored[k][u] =>
            \E t \in Threads : pc[t] = "save_store" /\ frame[t].user = u]_vars
  <2> SUFFICES ASSUME IInv, SnapCurrent, [Next]_vars,
                      NEW k \in Keys, NEW u \in Users, stored'[k][u] # stored[k][u]
               PROVE  \E t \in Threads : pc[t] = "save_store" /\ frame[t].user = u
    OBVIOUS
  <2>1. CASE \A t \in Threads : ~SaveLoad(t) /\ ~SaveStore(t)
    BY <2>1, OtherSteps
  <2>2. ASSUME NEW t \in Threads, SaveLoad(t) PROVE FALSE
    BY <2>2 DEF SaveLoad
  <2>3. ASSUME NEW t \in Threads, SaveStore(t)
        PROVE  pc[t] = "save_store" /\ frame[t].user = u
    <3> DEFINE f == frame[t]
               entry == IF Deletes(f) THEN None ELSE f.want[f.key]
    <3>1. pc[t] = "save_store"
      BY <2>3 DEF SaveStore
    <3>2. stored' = [stored EXCEPT ![f.key] = Rewritten(f.snap, f.user, entry)]
      BY <2>3 DEF SaveStore
    <3> HIDE DEF entry
    <3>3. stored'[k][u] = Rewritten(f.snap, f.user, entry)[u] /\ k = f.key
      BY <3>2 DEF IInv, StoredOK
    <3>4. f.snap \in [Users -> Value]
      BY DEF IInv, MemOK, Frame
    <3>5. f.snap[u] = stored[f.key][u]
      BY <3>1 DEF SnapCurrent
    <3> QED BY <3>1, <3>3, <3>4, <3>5 DEF Rewritten
  <2> QED BY <2>1, <2>2, <2>3
<1> QED BY <1>1, <1>2, <1>3, Initially, Inductive, PTL DEF Spec, UserIsolation

-----------------------------------------------------------------------------
(* The service does one thing at a time. *)

\* One call or event at a time, from the foreground account, after the account
\* events before it.  The SetParameter of a setter may fail, but not the one that undoes
\* it too, and none in LoadGlobalParam ("load"), which would leave the account in the
\* foreground with parameters of the one before; nor does any other call fail.
Calm ==
    /\ OneThread /\ ~BackgroundCallers /\ ~Hasty
    /\ Faults \subseteq {"param"} /\ MaxFaults <= 1
    /\ InitialHours \subseteq Hours

-----------------------------------------------------------------------------
(* The invariant of one thread: what it has done at each of its steps. *)

LocaleSetters == {"SetSystemRegion", "SetSystemLocale", "SetExtParam", "SetUsingLocalDigit"}
LocaleLabels == {"loc_was", "loc_set", "loc_now", "loc_tell", "loc_event"}
Saving(label) == label \in {"save_load", "save_store"}

\* The labels of each operation, and the keys it saves.
Place(label, f) ==
    \/ f.op = "none" /\ label = "idle"
    \/ /\ f.op = "SetSystemLanguage"
       /\ \/ label \in LocaleLabels \cup {"lang_set", "lang_locale", "lang_undo"}
          \/ Saving(label) /\ f.key \in {"language", "locale"}
    \/ /\ f.op \in LocaleSetters
       /\ label \in LocaleLabels \/ (Saving(label) /\ f.key = "locale")
    \/ /\ f.op = "Set24HourClock"
       /\ label \in {"hour_set", "hour_tell", "hour_event"} \/ (Saving(label) /\ f.key = "hour")
    \/ f.op = "SwitchUser" /\ label \in {"sw_read", "sw_set", "sw_tell", "sw_event"}
    \/ f.op = "AddUser" /\ (label = "add_read" \/ Saving(label))
    \/ f.op = "InitMultiUser" /\ (label \in {"add_read", "init_mark"} \/ Saving(label))
    \/ f.op = "RemoveUser" /\ Saving(label)

\* The keys a setter has set at a label.
Done(label, f) ==
    CASE f.op = "SetSystemLanguage" ->
            IF label = "lang_set" THEN {}
            ELSE IF label \in {"lang_locale", "loc_was", "loc_set", "lang_undo"} THEN {"language"}
            ELSE {"language", "locale"}
      [] f.op \in LocaleSetters -> IF label \in {"loc_was", "loc_set"} THEN {} ELSE {"locale"}
      [] f.op = "Set24HourClock" -> IF label = "hour_set" THEN {} ELSE {"hour"}
      [] OTHER -> {}

\* What the locale a setter wants to set has of what it was asked for.
Asked(label, f) ==
    /\ f.op = "SetSystemLanguage" /\ label \notin {"lang_set", "lang_locale", "lang_undo"}
          => f.want["locale"].lang = f.want["language"]
    /\ f.op \in {"SetExtParam", "SetUsingLocalDigit"}
          => f.want["locale"].ext[f.ext[1]] = f.ext[2]

Progress ==
    \A t \in Threads :
        /\ Place(pc[t], frame[t]) /\ Asked(pc[t], frame[t])
        /\ pc[t] # "lang_undo" =>
              \A k \in Done(pc[t], frame[t]) : param[k] = frame[t].want[k]


\* The thread that moves is the only one there is.
LEMMA OnlyThread ==
    ASSUME MemOK, OneThread, NEW t \in Threads, NEW label, NEW f, Goto(t, label), Keep(t, f)
    PROVE  pc'[t] = label /\ frame'[t] = f /\ \A s \in Threads : s = t
BY DEF MemOK, OneThread, Goto, Keep

LEMMA OnlyThreadStays ==
    ASSUME MemOK, OneThread, NEW t \in Threads, NEW label, Goto(t, label), UNCHANGED frame
    PROVE  pc'[t] = label /\ frame'[t] = frame[t] /\ \A s \in Threads : s = t
BY DEF MemOK, OneThread, Goto

\* What is to be shown of a thread that has moved.
ProgressOf(label, f, p) ==
    /\ Place(label, f) /\ Asked(label, f)
    /\ label # "lang_undo" => \A k \in Done(label, f) : p[k] = f.want[k]

LEMMA ProgressMoves ==
    ASSUME MemOK, OneThread, NEW t \in Threads, NEW label, NEW f,
           Goto(t, label), Keep(t, f) \/ (UNCHANGED frame /\ f = frame[t]),
           ProgressOf(label, f, param')
    PROVE  Progress'
<1>1. pc'[t] = label /\ frame'[t] = f /\ \A s \in Threads : s = t
  BY OnlyThread, OnlyThreadStays
<1> QED BY <1>1 DEF Progress, ProgressOf

LEMMA ProgressReturns ==
    ASSUME MemOK, OneThread, NEW t \in Threads, Return(t)
    PROVE  Progress'
<1>1. ProgressOf("idle", NoFrame, param')
  BY DEF ProgressOf, Place, Asked, Done, NoFrame, LocaleSetters
<1> QED BY <1>1, ProgressMoves DEF Return

LEMMA ProgressNow ==
    ASSUME IInv, Progress, NEW t \in Threads
    PROVE  /\ ProgressOf(pc[t], frame[t], param) /\ ThreadOK(pc[t], frame[t])
           /\ frame[t] \in Frame /\ MemOK
BY ThreadNow DEF IInv, Progress, ProgressOf, ThreadOK

LEMMA ProgressCall ==
    ASSUME IInv, Progress, OneThread, NEW t \in Threads, Call(t)
    PROVE  Progress'
<1> USE DEF Begin, ProgressOf, Place, Asked, Done, LocaleSetters, LocaleLabels, Wants, NoFrame
<1>0. MemOK
  BY DEF IInv
<1>1. ASSUME NEW u \in Users, NEW l \in Languages, CallSetSystemLanguage(t, u, l)
      PROVE  Progress'
  BY <1>0, <1>1, ProgressMoves DEF CallSetSystemLanguage
<1>2. ASSUME NEW u \in Users, NEW r \in Regions, CallSetSystemRegion(t, u, r)
      PROVE  Progress'
  BY <1>0, <1>2, ProgressMoves DEF CallSetSystemRegion
<1>3. ASSUME NEW u \in Users, NEW l \in Languages, NEW r \in Regions,
             CallSetSystemLocale(t, u, l, r)
      PROVE  Progress'
  BY <1>0, <1>3, ProgressMoves DEF CallSetSystemLocale
<1>4. ASSUME NEW l \in Locale, NEW k \in ExtKeys, NEW v \in ExtValues \cup {None}, NEW u,
             NEW op \in {"SetExtParam", "SetUsingLocalDigit"},
             Begin(t, op, u, "loc_was",
                   [Wants("locale", ModifyExtParam(l, k, v)) EXCEPT !.ext = <<k, v>>])
      PROVE  Progress'
  <2> DEFINE m == ModifyExtParam(l, k, v)
             f == [[Wants("locale", m) EXCEPT !.ext = <<k, v>>] EXCEPT !.op = op, !.user = u]
  <2>1. m.ext[k] = v
    BY DEF ModifyExtParam, Locale, Ext
  <2> HIDE DEF m
  <2>2. f.op = op /\ f.want["locale"] = m /\ f.ext = <<k, v>>
    BY DEF NoValues, Keys
  <2>3. Goto(t, "loc_was") /\ Keep(t, f)
    BY <1>4 DEF m
  <2> HIDE DEF f
  <2>4. ProgressOf("loc_was", f, param')
    BY <2>1, <2>2
  <2> QED BY <1>0, <2>3, <2>4, ProgressMoves
<1>5. ASSUME NEW u \in Users, NEW k \in ExtKeys, NEW v \in ExtValues, CallSetExtParam(t, u, k, v)
      PROVE  Progress'
  <2>1. PICK ok \in BOOLEAN :
            LET locale == Fallback(ReadStored(ok, "locale", u), "locale")
            IN  Begin(t, "SetExtParam", u, "loc_was",
                      [Wants("locale", ModifyExtParam(locale, k, v)) EXCEPT !.ext = <<k, v>>])
    BY <1>5 DEF CallSetExtParam
  <2> DEFINE l == Fallback(ReadStored(ok, "locale", u), "locale")
  <2>2. l \in Locale
    BY FallbackLocale DEF IInv
  <2>3. Begin(t, "SetExtParam", u, "loc_was",
              [Wants("locale", ModifyExtParam(l, k, v)) EXCEPT !.ext = <<k, v>>])
    BY <2>1
  <2> HIDE DEF l
  <2> QED BY ONLY <1>4, <2>2, <2>3
<1>6. ASSUME NEW u \in Users, NEW flag \in BOOLEAN, CallSetUsingLocalDigit(t, u, flag)
      PROVE  Progress'
  <2> DEFINE l == param["locale"]
             v == IF flag THEN LocalDigit[l.lang] ELSE None
  <2>1. l \in Locale /\ v \in ExtValues \cup {None}
    BY ConstantsAssumption DEF IInv, ParamOK, Locale
  <2>2. Begin(t, "SetUsingLocalDigit", u, "loc_was",
              [Wants("locale", ModifyExtParam(l, NumberKey, v)) EXCEPT !.ext = <<NumberKey, v>>])
    BY <1>6 DEF CallSetUsingLocalDigit
  <2> HIDE DEF l, v
  <2> QED BY <1>4, <2>1, <2>2, ConstantsAssumption
<1>7. ASSUME NEW u \in Users, NEW h \in Hours, CallSet24HourClock(t, u, h)
      PROVE  Progress'
  BY <1>0, <1>7, ProgressMoves DEF CallSet24HourClock
<1> QED BY <1>1, <1>2, <1>3, <1>5, <1>6, <1>7 DEF Call

\* The setters, step by step.
LEMMA ProgressSetter ==
    ASSUME IInv, Progress, OneThread, NEW t \in Threads,
           \/ LanguageSet(t) \/ LanguageLocale(t) \/ LanguageUndo(t)
           \/ LocaleWas(t) \/ LocaleSet(t) \/ LocaleNow(t) \/ LocaleTell(t) \/ LocaleEvent(t)
           \/ HourSet(t) \/ HourTell(t) \/ HourEvent(t)
    PROVE  Progress'
<1> DEFINE f == frame[t]
<1> USE DEF ProgressOf, Place, Asked, Done, LocaleSetters, LocaleLabels, Saving
<1>1. ProgressOf(pc[t], f, param) /\ f \in Frame /\ MemOK /\ ThreadOK(pc[t], f)
      /\ param \in [Keys -> Value] /\ f.want \in [Keys -> Value]
  BY ProgressNow DEF IInv, ParamOK, Frame
<1>2. CASE LanguageSet(t)
  <2>1. CASE Return(t)
    BY <1>1, <2>1, ProgressReturns
  <2>2. CASE param' = [param EXCEPT !["language"] = f.want["language"]] /\ Goto(t, "lang_locale")
             /\ UNCHANGED frame
    <3>1. ProgressOf("lang_locale", f, param')
      BY <1>1, <1>2, <2>2 DEF LanguageSet, Keys
    <3> QED BY <1>1, <2>2, <3>1, ProgressMoves
  <2> QED BY <1>2, <2>1, <2>2 DEF LanguageSet, SetParameter
<1>3. CASE LanguageLocale(t)
  <2> DEFINE l == UpdateLanguageOfLocale(f.want["language"])
             g == [f EXCEPT !.want["locale"] = l]
  <2>1. l.lang = f.want["language"]
    BY DEF UpdateLanguageOfLocale, IInv, ParamOK, Locale
  <2> HIDE DEF l
  <2>2. g.op = f.op /\ g.want = [f.want EXCEPT !["locale"] = l]
    BY <1>1 DEF Frame
  <2>3. pc[t] = "lang_locale" /\ Goto(t, "loc_was") /\ Keep(t, g) /\ UNCHANGED param
    BY <1>3 DEF LanguageLocale, l
  <2> HIDE DEF g
  <2>4. ProgressOf("loc_was", g, param')
    BY <1>1, <2>1, <2>2, <2>3 DEF Keys
  <2> QED BY <1>1, <2>3, <2>4, ProgressMoves
<1>4. CASE LanguageUndo(t) \/ HourEvent(t)
  BY <1>1, <1>4, ProgressReturns DEF LanguageUndo, HourEvent
<1>5. CASE LocaleWas(t) \/ LocaleNow(t)
  <2> DEFINE c == Is24HourClock
             g == [f EXCEPT !.was24 = c]
             h == [f EXCEPT !.now24 = c, !.key = "locale"]
  <2>1. CASE LocaleWas(t)
    <3>1. Goto(t, "loc_set") /\ Keep(t, g) /\ UNCHANGED param /\ pc[t] = "loc_was"
      BY <2>1 DEF LocaleWas
    <3>2. g.op = f.op /\ g.want = f.want /\ g.ext = f.ext
      BY <1>1 DEF Frame
    <3> HIDE DEF g
    <3> QED BY <1>1, <3>1, <3>2, ProgressMoves
  <2>2. CASE LocaleNow(t)
    <3>1. Goto(t, "save_load") /\ Keep(t, h) /\ UNCHANGED param /\ pc[t] = "loc_now"
      BY <2>2 DEF LocaleNow
    <3>2. h.op = f.op /\ h.want = f.want /\ h.ext = f.ext /\ h.key = "locale"
      BY <1>1 DEF Frame
    <3> HIDE DEF h
    <3> QED BY <1>1, <3>1, <3>2, ProgressMoves
  <2> QED BY <1>5, <2>1, <2>2
<1>6. CASE LocaleSet(t)
  <2>1. CASE param' = [param EXCEPT !["locale"] = f.want["locale"]] /\ Goto(t, "loc_now")
             /\ UNCHANGED frame
    <3>1. ProgressOf("loc_now", f, param')
      BY <1>1, <1>6, <2>1 DEF LocaleSet, Keys
    <3> QED BY <1>1, <2>1, <3>1, ProgressMoves
  <2>2. CASE LocaleFailed(t)
    <3>1. ProgressOf("lang_undo", f, param') \/ f.op # "SetSystemLanguage"
      BY <1>1, <1>6 DEF LocaleSet
    <3> QED BY <1>1, <2>2, <3>1, ProgressMoves, ProgressReturns DEF LocaleFailed
  <2> QED BY <1>6, <2>1, <2>2 DEF LocaleSet, SetParameter
<1>7. CASE LocaleTell(t) \/ HourTell(t)
  <2>1. CASE LocaleTell(t)
    <3>1. ProgressOf("loc_event", f, param')
      BY <1>1, <2>1 DEF LocaleTell
    <3> QED BY <1>1, <2>1, <3>1, ProgressMoves DEF LocaleTell
  <2>2. CASE HourTell(t)
    <3>1. ProgressOf("hour_event", f, param')
      BY <1>1, <2>2 DEF HourTell
    <3> QED BY <1>1, <2>2, <3>1, ProgressMoves DEF HourTell
  <2> QED BY <1>7, <2>1, <2>2
<1>8. CASE LocaleEvent(t)
  <2>1. CASE f.op = "SetSystemLanguage" /\ Goto(t, "save_load")
             /\ Keep(t, [f EXCEPT !.key = "language"])
    <3> DEFINE g == [f EXCEPT !.key = "language"]
    <3>1. g.op = f.op /\ g.want = f.want /\ g.key = "language"
      BY <1>1 DEF Frame
    <3> HIDE DEF g
    <3>2. ProgressOf("save_load", g, param')
      BY <1>1, <1>8, <2>1, <3>1 DEF LocaleEvent
    <3> QED BY <1>1, <2>1, <3>2, ProgressMoves DEF g
  <2>2. CASE LocaleFailed(t)
    <3>1. ProgressOf("lang_undo", f, param') \/ f.op # "SetSystemLanguage"
      BY <1>1, <1>8 DEF LocaleEvent
    <3> QED BY <1>1, <2>2, <3>1, ProgressMoves, ProgressReturns DEF LocaleFailed
  <2>3. CASE Return(t)
    BY <1>1, <2>3, ProgressReturns
  <2> QED BY <1>8, <2>1, <2>2, <2>3 DEF LocaleEvent
<1>9. CASE HourSet(t)
  <2>1. CASE Return(t)
    BY <1>1, <2>1, ProgressReturns
  <2>2. CASE /\ param' = [param EXCEPT !["hour"] = f.want["hour"]] /\ Goto(t, "save_load")
             /\ Keep(t, [f EXCEPT !.key = "hour"])
    <3> DEFINE g == [f EXCEPT !.key = "hour"]
    <3>1. g.op = f.op /\ g.want = f.want /\ g.key = "hour"
      BY <1>1 DEF Frame
    <3> HIDE DEF g
    <3>2. ProgressOf("save_load", g, param')
      BY <1>1, <1>9, <2>2, <3>1 DEF HourSet, Keys
    <3> QED BY <1>1, <2>2, <3>2, ProgressMoves DEF g
  <2> QED BY <1>9, <2>1, <2>2 DEF HourSet, SetParameter
<1> QED BY <1>2, <1>3, <1>4, <1>5, <1>6, <1>7, <1>8, <1>9

\* Saving, and the account events.
LEMMA ProgressSave ==
    ASSUME IInv, Progress, OneThread, NEW t \in Threads, SaveLoad(t) \/ SaveStore(t)
    PROVE  Progress'
<1> DEFINE f == frame[t]
<1> USE DEF ProgressOf, Place, Asked, Done, LocaleSetters, LocaleLabels, Saving
<1>1. ProgressOf(pc[t], f, param) /\ f \in Frame /\ MemOK /\ UNCHANGED param
  BY ProgressNow DEF SaveLoad, SaveStore
<1>2. CASE SaveLoad(t)
  <2>1. PICK snap : Goto(t, "save_store") /\ Keep(t, [f EXCEPT !.snap = snap])
                    /\ pc[t] = "save_load"
    BY <1>2 DEF SaveLoad
  <2> DEFINE g == [f EXCEPT !.snap = snap]
  <2>2. g.op = f.op /\ g.want = f.want /\ g.ext = f.ext /\ g.key = f.key
    BY <1>1 DEF Frame
  <2>3. Goto(t, "save_store") /\ Keep(t, g)
    BY <2>1
  <2> HIDE DEF g
  <2>4. ProgressOf("save_store", g, param')
    BY <1>1, <2>1, <2>2
  <2> QED BY <1>1, <2>3, <2>4, ProgressMoves
<1>3. CASE SaveStore(t)
  <2>1. PICK ok \in BOOLEAN : AfterSave(t, ok)
    BY <1>3 DEF SaveStore
  <2>2. pc[t] = "save_store"
    BY <1>3 DEF SaveStore
  <2>3. CASE Return(t)
    BY <1>1, <2>3, ProgressReturns
  <2>4. CASE f.op \in AllOperations /\ f.key # "language" /\ UNCHANGED frame
             /\ Goto(t, IF f.key = "hour" THEN "hour_tell" ELSE "loc_tell")
    <3>1. ProgressOf(IF f.key = "hour" THEN "hour_tell" ELSE "loc_tell", f, param')
      BY <1>1, <2>2, <2>4 DEF AllOperations
    <3> QED BY <1>1, <2>4, <3>1, ProgressMoves
  <2>5. CASE f.op = "InitMultiUser" /\ Goto(t, "init_mark") /\ UNCHANGED frame
    <3>1. ProgressOf("init_mark", f, param')
      BY <1>1, <2>2, <2>5
    <3> QED BY <1>1, <2>5, <3>1, ProgressMoves
  <2>6. CASE f.op \notin AllOperations /\ Goto(t, "save_load")
             /\ Keep(t, [f EXCEPT !.key = NextKey(@), !.snap = NoMap])
    <3> DEFINE g == [f EXCEPT !.key = NextKey(@), !.snap = NoMap]
    <3>1. g.op = f.op /\ g.want = f.want /\ g.ext = f.ext
      BY <1>1 DEF Frame
    <3>2. Goto(t, "save_load") /\ Keep(t, g)
      BY <2>6
    <3> HIDE DEF g
    <3>3. ProgressOf("save_load", g, param')
      BY <1>1, <2>2, <2>6, <3>1 DEF AllOperations
    <3> QED BY <1>1, <3>2, <3>3, ProgressMoves
  <2> QED BY <2>1, <2>3, <2>4, <2>5, <2>6 DEF AfterSave
<1> QED BY <1>2, <1>3

LEMMA ProgressEvent ==
    ASSUME IInv, Progress, OneThread, NEW t \in Threads,
           \/ HandleEvent(t) \/ InitMultiUser(t) \/ AddRead(t) \/ InitMark(t)
           \/ SwitchRead(t) \/ SwitchSet(t) \/ SwitchTell(t) \/ SwitchEvent(t)
    PROVE  Progress'
<1> DEFINE f == frame[t]
<1> USE DEF ProgressOf, Place, Asked, Done, LocaleSetters, LocaleLabels, Saving
<1>1. ProgressOf(pc[t], f, param) /\ f \in Frame /\ MemOK
  BY ProgressNow
<1>2. ASSUME NEW label, NEW g, Goto(t, label), Keep(t, g) \/ (UNCHANGED frame /\ g = f),
             \/ g.op = "SwitchUser" /\ label \in {"sw_read", "sw_set", "sw_tell", "sw_event"}
             \/ g.op = "AddUser" /\ (label = "add_read" \/ Saving(label))
             \/ g.op = "InitMultiUser" /\ (label \in {"add_read", "init_mark"} \/ Saving(label))
             \/ g.op = "RemoveUser" /\ Saving(label)
      PROVE  Progress'
  <2>1. ProgressOf(label, g, param')
    BY <1>2
  <2> QED BY <1>1, <1>2, <2>1, ProgressMoves
<1>3. CASE HandleEvent(t)
  <2> DEFINE e == Head(events)
  <2>1. e.type \in {"added", "switched", "removed"}
    <3>1. e \in AccountEvent
      BY <1>3 DEF HandleEvent, IInv, EnvOK
    <3> QED BY <3>1 DEF AccountEvent
  <2>2. CASE e.type = "switched"
    BY <1>2, <1>3, <2>2 DEF HandleEvent, NoFrame
  <2>3. CASE e.type = "added"
    BY <1>2, <1>3, <2>3 DEF HandleEvent, NoFrame
  <2>4. CASE e.type = "removed"
    BY <1>2, <1>3, <2>4 DEF HandleEvent, NoFrame
  <2> QED BY <2>1, <2>2, <2>3, <2>4
<1>4. CASE InitMultiUser(t)
  <2>1. CASE UNCHANGED mem
    BY <1>4, <2>1 DEF InitMultiUser, mem, Progress
  <2>2. CASE Goto(t, "add_read")
             /\ Keep(t, [NoFrame EXCEPT !.op = "InitMultiUser", !.user = foreground])
    BY <1>2, <2>2 DEF NoFrame
  <2> QED BY <1>4, <2>1, <2>2 DEF InitMultiUser
<1>5. CASE AddRead(t)
  <2>1. pc[t] = "add_read" /\ f.op \in {"AddUser", "InitMultiUser"}
    BY <1>1, <1>5 DEF AddRead
  <2>2. CASE Return(t)
    BY <1>1, <2>2, ProgressReturns
  <2>3. CASE Goto(t, "init_mark") /\ UNCHANGED frame /\ f.op = "InitMultiUser"
    BY <1>2, <2>3
  <2>4. ASSUME NEW label \in {"add_read", "save_load"}, NEW k,
               Goto(t, label), Keep(t, [f EXCEPT !.want[f.key] = param[f.key], !.key = k])
        PROVE  Progress'
    <3> DEFINE g == [f EXCEPT !.want[f.key] = param[f.key], !.key = k]
    <3>1. g.op = f.op
      BY <1>1 DEF Frame
    <3>2. Goto(t, label) /\ Keep(t, g)
      BY <2>4
    <3> HIDE DEF g
    <3> QED BY <1>2, <2>1, <2>4, <3>1, <3>2
  <2>5. CASE \E k : Goto(t, "add_read")
                    /\ Keep(t, [[f EXCEPT !.want[f.key] = param[f.key]] EXCEPT !.key = k])
    BY <2>4, <2>5
  <2>6. CASE Goto(t, "save_load")
             /\ Keep(t, [[f EXCEPT !.want[f.key] = param[f.key]] EXCEPT !.key = "language"])
    BY <2>4, <2>6
  <2> QED BY <1>5, <2>2, <2>3, <2>5, <2>6 DEF AddRead
<1>6. CASE InitMark(t) \/ SwitchEvent(t)
  BY <1>1, <1>6, ProgressReturns DEF InitMark, SwitchEvent
<1>7. CASE SwitchRead(t)
  <2>1. PICK v : Goto(t, "sw_set") /\ Keep(t, [f EXCEPT !.want[f.key] = v])
    BY <1>7 DEF SwitchRead
  <2> DEFINE g == [f EXCEPT !.want[f.key] = v]
  <2>2. g.op = f.op
    BY <1>1 DEF Frame
  <2>3. Goto(t, "sw_set") /\ Keep(t, g) /\ f.op = "SwitchUser"
    BY <1>1, <1>7, <2>1 DEF SwitchRead
  <2> HIDE DEF g
  <2> QED BY <1>2, <2>2, <2>3
<1>8. CASE SwitchSet(t)
  <2>1. f.op = "SwitchUser"
    BY <1>1, <1>8 DEF SwitchSet
  <2>2. CASE Return(t)
    BY <1>1, <2>2, ProgressReturns
  <2>3. CASE Goto(t, "sw_tell") /\ UNCHANGED frame
    BY <1>2, <2>1, <2>3
  <2>4. CASE Goto(t, "sw_read") /\ Keep(t, [f EXCEPT !.key = NextSwitchKey(@)])
    <3> DEFINE g == [f EXCEPT !.key = NextSwitchKey(@)]
    <3>1. g.op = f.op
      BY <1>1 DEF Frame
    <3>2. Goto(t, "sw_read") /\ Keep(t, g)
      BY <2>4
    <3> HIDE DEF g
    <3> QED BY <1>2, <2>1, <3>1, <3>2
  <2> QED BY <1>8, <2>2, <2>3, <2>4 DEF SwitchSet, SwitchGoOn
<1>9. CASE SwitchTell(t)
  BY <1>1, <1>2, <1>9 DEF SwitchTell
<1> QED BY <1>3, <1>4, <1>5, <1>6, <1>7, <1>8, <1>9

LEMMA ProgressInitial == Init => Progress
BY DEF Init, Progress, Place, Asked, Done, NoFrame, LocaleSetters

LEMMA ProgressKept ==
    ASSUME IInv, Progress, OneThread, [Next]_vars
    PROVE  Progress'
<1>1. ASSUME NEW t \in Threads, Call(t) \/ HandleEvent(t) \/ InitMultiUser(t) \/ Step(t)
      PROVE  Progress'
  BY <1>1, ProgressCall, ProgressSetter, ProgressSave, ProgressEvent DEF Step
<1>2. CASE Unload \/ Kill
  BY <1>2 DEF Unload, Kill, ProcessEnds, Progress, Place, Asked, Done, NoFrame, LocaleSetters
<1>3. CASE Start \/ Account \/ UNCHANGED vars
  <2>1. UNCHANGED <<param, pc, frame>>
    BY <1>3
    DEF Start, Account, AccountAdded, AccountSwitched, AccountRemoved, Announce, vars, mem
  <2> QED BY <2>1 DEF Progress
<1> QED BY <1>1, <1>2, <1>3 DEF Next

\* A call is taken by a free thread, for an account that may call.
LEMMA CallsIdle ==
    ASSUME NEW t \in Threads, Call(t)
    PROVE  pc[t] = "idle" /\ \E u \in Users : MayCall(u)
<1>1. \E u \in Users : \E op, label, f : Begin(t, op, u, label, f)
  <2>1. PICK u \in Users :
            \/ \E l \in Languages : CallSetSystemLanguage(t, u, l)
            \/ \E r \in Regions : CallSetSystemRegion(t, u, r)
            \/ \E l \in Languages, r \in Regions : CallSetSystemLocale(t, u, l, r)
            \/ \E k \in ExtKeys, v \in ExtValues : CallSetExtParam(t, u, k, v)
            \/ \E flag \in BOOLEAN : CallSetUsingLocalDigit(t, u, flag)
            \/ \E h \in Hours : CallSet24HourClock(t, u, h)
    BY DEF Call
  <2> QED BY <2>1
          DEF CallSetSystemLanguage, CallSetSystemRegion, CallSetSystemLocale,
              CallSetExtParam, CallSetUsingLocalDigit, CallSet24HourClock
<1> QED BY <1>1 DEF Begin

\* The steps that report success set no parameter any more.
LEMMA Reports ==
    ASSUME IInv, Progress, OneThread, Next, NEW t \in Threads, Succeeds(t)
    PROVE  UNCHANGED param /\ (pc[t] = "save_store" => frame[t].key = "language")
<1> DEFINE last == {"save_store", "loc_event", "hour_event"}
<1>1. pc[t] \in last /\ pc'[t] = "idle" /\ service' = "up" /\ frame[t].op \in AllOperations
  BY DEF Succeeds
<1>2. pc \in [Threads -> Labels] /\ \A s \in Threads : s = t
  BY DEF IInv, MemOK, OneThread
<1>3. ~Unload /\ ~Kill /\ ~Start /\ ~Account
  BY <1>1, <1>2
  DEF Unload, Kill, ProcessEnds, Start, Account, AccountAdded, AccountSwitched,
      AccountRemoved, Announce, mem
<1>4. ~Call(t) /\ ~HandleEvent(t) /\ ~InitMultiUser(t)
  <2>1. Call(t) => pc[t] = "idle"
    BY CallsIdle
  <2> QED BY <1>1, <2>1 DEF HandleEvent, InitMultiUser
<1>5. Step(t)
  BY <1>2, <1>3, <1>4 DEF Next
<1>6. SaveStore(t) \/ LocaleEvent(t) \/ HourEvent(t)
  <2>1. ~LanguageSet(t) /\ ~LanguageLocale(t) /\ ~LanguageUndo(t)
    BY <1>1 DEF LanguageSet, LanguageLocale, LanguageUndo
  <2>2. ~LocaleWas(t) /\ ~LocaleSet(t) /\ ~LocaleNow(t) /\ ~LocaleTell(t)
    BY <1>1 DEF LocaleWas, LocaleSet, LocaleNow, LocaleTell
  <2>3. ~HourSet(t) /\ ~HourTell(t) /\ ~SaveLoad(t)
    BY <1>1 DEF HourSet, HourTell, SaveLoad
  <2>4. ~SwitchRead(t) /\ ~SwitchSet(t) /\ ~SwitchTell(t) /\ ~SwitchEvent(t)
    BY <1>1 DEF SwitchRead, SwitchSet, SwitchTell, SwitchEvent
  <2>5. ~AddRead(t) /\ ~InitMark(t)
    BY <1>1 DEF AddRead, InitMark
  <2> QED BY <1>5, <2>1, <2>2, <2>3, <2>4, <2>5 DEF Step
<1>7. UNCHANGED param
  BY <1>6 DEF SaveStore, LocaleEvent, HourEvent
<1>8. ASSUME pc[t] = "save_store" PROVE frame[t].key = "language"
  <2>1. PICK ok \in BOOLEAN : AfterSave(t, ok)
    BY <1>6, <1>8 DEF SaveStore, LocaleEvent, HourEvent
  <2> QED BY <1>1, <1>2, <2>1 DEF AfterSave, Goto, AllOperations
<1> QED BY <1>7, <1>8

\* A setter that reports success has set what it was asked to set: whatever failed
\* on the way to the report, was told to applications or came between the calls.
THEOREM SuccessMeansSet == ASSUME OneThread PROVE Spec => SuccessTakesEffect
<1>1. IInv /\ Progress /\ [Next]_vars => Progress'
  BY ProgressKept
<1>2. IInv /\ Progress /\ [Next]_vars =>
        [\A t \in Threads : Succeeds(t) => InEffect(frame[t])]_vars
  <2> SUFFICES ASSUME IInv, Progress, Next, NEW t \in Threads, Succeeds(t)
               PROVE  InEffect(frame[t])
    OBVIOUS
  <2>1. ProgressOf(pc[t], frame[t], param)
    BY ProgressNow
  <2>2. UNCHANGED param /\ (pc[t] = "save_store" => frame[t].key = "language")
    BY Reports
  <2> QED BY <2>1, <2>2
      DEF Succeeds, InEffect, ProgressOf, Place, Asked, Done, LocaleSetters,
          LocaleLabels, Saving, AllOperations
<1> QED BY <1>1, <1>2, ProgressInitial, Initially, Inductive, PTL DEF Spec, SuccessTakesEffect

-----------------------------------------------------------------------------
(* The invariant of a calm service. *)

Announced(type, u) == events = <<[type |-> type, user |-> u]>>
Serves(op, u) == \E t \in Threads : frame[t].op = op /\ frame[t].user = u
Awaits(type, op, u) == Announced(type, u) \/ Serves(op, u)

\* At most one account event waits, and it is the last thing that happened to the
\* accounts.
EventsInOrder ==
    \/ events = << >>
    \/ \E u \in accounts \ {foreground} : Announced("added", u)
    \/ initDone /\ Announced("switched", foreground)
    \/ initDone /\ \E u \in Users \ accounts : Announced("removed", u)

\* Whom a thread works for, and when.
ServesWhom(f) ==
    /\ f.op \in AllOperations => service = "up" /\ f.user = foreground
    /\ f.op = "InitMultiUser" => service = "starting" /\ ~initDone /\ f.user = foreground
    /\ f.op = "SwitchUser" => initDone /\ f.user = foreground
    /\ f.op = "AddUser" => f.user \in accounts \ {foreground}
    /\ f.op = "RemoveUser" => initDone /\ f.user \in Users \ accounts
    /\ f.op # "none" => service # "down"
    /\ f.op \notin {"none", "InitMultiUser"} => events = << >>

Order ==
    /\ EventsInOrder
    /\ \A t \in Threads : ServesWhom(frame[t])
    /\ service = "up" => initDone
    /\ service = "down" /\ ~initDone /\ events = << >> => accounts = {foreground}

\* The keys saved, or loaded by a switch, before k.
SavedBefore(k) == CASE k = "language" -> {}
                    [] k = "locale" -> {"language"}
                    [] k = "hour" -> {"language", "locale"}
LoadedBefore(k) == CASE k = "locale" -> {}
                     [] k = "language" -> {"locale"}
                     [] k = "hour" -> {"locale", "language"}

\* How far AddUser, InitMultiUser, RemoveUser and SwitchUser have come.
KeysRead(label, f) == IF label = "add_read" THEN SavedBefore(f.key) ELSE Keys
KeysSaved(label, f) == IF label = "add_read" THEN {}
                       ELSE IF label = "init_mark" THEN Keys ELSE SavedBefore(f.key)
KeysLoaded(label, f) == IF label \in {"sw_tell", "sw_event"} THEN Keys ELSE LoadedBefore(f.key)

Exchange(label, f) ==
    /\ f.op \in {"AddUser", "InitMultiUser"} =>
          /\ \A k \in KeysRead(label, f) : f.want[k] = param[k]
          /\ \A k \in KeysSaved(label, f) : stored[k][f.user] = param[k]
    /\ f.op = "RemoveUser" => \A k \in SavedBefore(f.key) : stored[k][f.user] = None
    /\ f.op = "SwitchUser" =>
          /\ \A k \in KeysLoaded(label, f) :
                param[k] = stored[k][foreground] /\ f.want[k] = stored[k][foreground]
          /\ label = "sw_set" => f.want[f.key] = stored[f.key][foreground]

Exchanges == \A t \in Threads : Exchange(pc[t], frame[t])

\* A setter that has set a key and not saved it yet.
Unsaved(label, f, k) ==
    \/ k = "language" /\ f.op = "SetSystemLanguage" /\ label # "lang_set"
    \/ /\ k = "locale" /\ f.op \in AllOperations
       /\ label = "loc_now" \/ (Saving(label) /\ f.key = "locale")
    \/ k = "hour" /\ f.op \in AllOperations /\ Saving(label) /\ f.key = "hour"

\* Every account has its settings saved, but for the first account before the first
\* start and one whose event is not handled; a removed account has none.
AllSaved ==
    \A k \in Keys, u \in Users :
        /\ u \in accounts /\ (u = foreground => initDone) /\ ~Awaits("added", "AddUser", u)
              => stored[k][u] # None
        /\ u \notin accounts /\ ~Awaits("removed", "RemoveUser", u) => stored[k][u] = None

\* The parameters are the settings saved for the foreground account.
Mirrored ==
    /\ param["hour"] # None
    /\ initDone /\ ~Awaits("switched", "SwitchUser", foreground) =>
          \A k \in Keys :
              \/ param[k] = stored[k][foreground]
              \/ \E t \in Threads : Unsaved(pc[t], frame[t], k)

\* The language a failed SetSystemLanguage goes back to is the one that is saved, and
\* there is no failure left for the way back.
WayBack ==
    \A t \in Threads : frame[t].op = "SetSystemLanguage" =>
        /\ frame[t].old = stored["language"][foreground]
        /\ pc[t] = "lang_undo" => faults = MaxFaults

\* The locale that will be set is the current one with one part replaced.
Replaces(label, f) ==
    label \in {"loc_was", "loc_set"} =>
        /\ f.op = "SetSystemLanguage" =>
              f.want["locale"] = UpdateLanguageOfLocale(f.want["language"])
        /\ f.op = "SetSystemRegion" =>
              \E r \in Regions : f.want["locale"] = UpdateRegionOfLocale(r)
        /\ f.op = "SetSystemLocale" =>
              \E l \in Languages, r \in Regions :
                  f.want["locale"] = [lang |-> l, region |-> r, ext |-> NoExt]
        /\ f.op \in {"SetExtParam", "SetUsingLocalDigit"} =>
              \E k \in ExtKeys, v \in ExtValues \cup {None} :
                  f.want["locale"] = ModifyExtParam(param["locale"], k, v)

Replacing == \A t \in Threads : Replaces(pc[t], frame[t])

\* The applications show the locale and the clock of the system.
ShownClock == Clock(told[foreground].hour, told[foreground].locale)
HourFits == told[foreground].hour = HourAuto => param["hour"] = HourAuto
Shown == told[foreground].locale = param["locale"] /\ ShownClock = Is24HourClock /\ HourFits

LocaleUntold(label, f) ==
    /\ f.op \in LocaleSetters \cup {"SetSystemLanguage"}
    /\ label \in {"loc_now", "loc_tell"} \/ (Saving(label) /\ f.key = "locale")
HourUntold(label, f) == f.op = "Set24HourClock" /\ label \notin {"hour_set", "hour_event"}
SwitchUntold(label, f) == f.op = "SwitchUser" /\ label # "sw_event"

Telling(label, f) ==
    /\ label = "loc_set" => f.was24 = Is24HourClock
    /\ LocaleUntold(label, f) =>
          /\ ShownClock = f.was24 /\ HourFits
          /\ label # "loc_now" => f.now24 = Is24HourClock
    /\ HourUntold(label, f) => told[foreground].locale = param["locale"]

ToldInTime ==
    /\ \A t \in Threads : Telling(pc[t], frame[t])
    /\ \/ Shown
       \/ Announced("switched", foreground)
       \/ \E t \in Threads : \/ LocaleUntold(pc[t], frame[t])
                             \/ HourUntold(pc[t], frame[t])
                             \/ SwitchUntold(pc[t], frame[t])

CalmInv ==
    /\ IInv /\ SnapCurrent /\ Progress /\ Order /\ Exchanges
    /\ AllSaved /\ Mirrored /\ WayBack /\ Replacing /\ ToldInTime

\* What there is to know of the only thread before its step.
LEMMA CalmNow ==
    ASSUME CalmInv, Calm, NEW t \in Threads
    PROVE  /\ ProgressOf(pc[t], frame[t], param) /\ ThreadOK(pc[t], frame[t])
           /\ frame[t] \in Frame /\ frame[t].want \in [Keys -> Value] /\ frame[t].key \in Keys
           /\ ServesWhom(frame[t]) /\ Exchange(pc[t], frame[t])
           /\ Replaces(pc[t], frame[t]) /\ Telling(pc[t], frame[t])
           /\ MemOK /\ OneThread /\ \A s \in Threads : s = t
<1>1. MemOK /\ OneThread /\ \A s \in Threads : s = t
  BY DEF CalmInv, IInv, Calm, OneThread
<1>2. ProgressOf(pc[t], frame[t], param) /\ ThreadOK(pc[t], frame[t]) /\ frame[t] \in Frame
  BY ProgressNow DEF CalmInv
<1> QED BY <1>1, <1>2 DEF CalmInv, Order, Exchanges, Replacing, ToldInTime, Frame

\* Only a SetParameter of a setter can fail, and the Preferences open.
LEMMA FewFaults ==
    ASSUME Calm
    PROVE  /\ \A f : Fault(f) => f = "param"
           /\ \A ok \in BOOLEAN : OpenPreferences(ok) => ok = TRUE
BY DEF Calm, Fault, OpenPreferences

-----------------------------------------------------------------------------
(* The order of events. *)

\* A thread at work changes its frame only within the operation, or ends it.
LEMMA SameOperation ==
    ASSUME CalmInv, Calm, NEW t \in Threads, Step(t)
    PROVE  /\ \/ frame'[t].op = frame[t].op /\ frame'[t].user = frame[t].user
              \/ frame'[t] = NoFrame
           /\ UNCHANGED <<accounts, foreground, events, ops>>
           /\ ~InitMark(t) => UNCHANGED <<service, initDone>>
<1> DEFINE f == frame[t]
<1>1. f \in Frame /\ MemOK
  BY CalmNow
<1>2. /\ Return(t) => frame'[t] = NoFrame
      /\ UNCHANGED frame => frame'[t] = f
      /\ \A g : Keep(t, g) => frame'[t] = g
  BY <1>1 DEF Return, Keep, MemOK
<1> USE DEF env, Frame
<1>4. CASE LanguageSet(t) \/ LanguageUndo(t)
  BY <1>2, <1>4 DEF LanguageSet, LanguageUndo
<1>5. CASE LanguageLocale(t)
  BY <1>1, <1>2, <1>5 DEF LanguageLocale
<1>6. CASE LocaleWas(t) \/ LocaleNow(t)
  BY <1>1, <1>2, <1>6 DEF LocaleWas, LocaleNow
<1>7. CASE LocaleSet(t) \/ LocaleTell(t)
  BY <1>2, <1>7 DEF LocaleSet, LocaleTell, LocaleFailed
<1>8. CASE LocaleEvent(t)
  BY <1>1, <1>2, <1>8 DEF LocaleEvent, LocaleFailed
<1>9. CASE HourSet(t) \/ HourTell(t) \/ HourEvent(t)
  BY <1>1, <1>2, <1>9 DEF HourSet, HourTell, HourEvent
<1>10. CASE SaveLoad(t)
  BY <1>1, <1>2, <1>10 DEF SaveLoad
<1>11. CASE SaveStore(t)
  <2>1. PICK ok \in BOOLEAN : AfterSave(t, ok)
    BY <1>11 DEF SaveStore
  <2>2. \/ Return(t) \/ UNCHANGED frame
        \/ Keep(t, [f EXCEPT !.key = NextKey(@), !.snap = NoMap])
    BY <2>1 DEF AfterSave
  <2> QED BY <1>1, <1>2, <1>11, <2>2 DEF SaveStore
<1>12. CASE SwitchRead(t)
  BY <1>1, <1>2, <1>12 DEF SwitchRead
<1>13. CASE SwitchSet(t)
  BY <1>1, <1>2, <1>13 DEF SwitchSet, SwitchGoOn
<1>14. CASE SwitchTell(t) \/ SwitchEvent(t)
  BY <1>1, <1>2, <1>14 DEF SwitchTell, SwitchEvent
<1>15. CASE AddRead(t)
  BY <1>1, <1>2, <1>15 DEF AddRead
<1>16. CASE InitMark(t)
  BY <1>2, <1>16 DEF InitMark
<1> QED BY <1>4, <1>5, <1>6, <1>7, <1>8, <1>9, <1>10, <1>11, <1>12, <1>13, <1>14, <1>15, <1>16
        DEF Step

\* What a call begins with.
Begins(t, op, label, f) ==
    /\ Goto(t, label) /\ Keep(t, f) /\ f.op = op /\ f.user = foreground
    /\ op \in Operations

LEMMA CallBegun ==
    ASSUME CalmInv, Calm, NEW t \in Threads, Call(t)
    PROVE  /\ pc[t] = "idle" /\ service = "up" /\ events = << >>
           /\ UNCHANGED <<param, stored, initDone, told, service, env, faults>>
           /\ \E f :
                \/ /\ Begins(t, "SetSystemLanguage", "lang_set", f)
                   /\ f.old = param["language"]
                \/ /\ Begins(t, "SetSystemRegion", "loc_was", f)
                   /\ \E r \in Regions : f.want["locale"] = UpdateRegionOfLocale(r)
                \/ /\ Begins(t, "SetSystemLocale", "loc_was", f)
                   /\ \E l \in Languages, r \in Regions :
                         f.want["locale"] = [lang |-> l, region |-> r, ext |-> NoExt]
                \/ /\ Begins(t, "SetExtParam", "loc_was", f)
                   /\ \E k \in ExtKeys, v \in ExtValues :
                         LET locale == Fallback(stored["locale"][foreground], "locale")
                         IN  /\ LanguageSupports(
                                   Fallback(stored["language"][foreground], "language"), k, v)
                             /\ RegionSupports(locale, k, v)
                             /\ f.want["locale"] = ModifyExtParam(locale, k, v)
                \/ /\ Begins(t, "SetUsingLocalDigit", "loc_was", f)
                   /\ \E v \in {None, LocalDigit[param["locale"].lang]} :
                         /\ LocalDigit[param["locale"].lang] # None
                         /\ f.want["locale"] = ModifyExtParam(param["locale"], NumberKey, v)
                \/ Begins(t, "Set24HourClock", "hour_set", f)
<1>1. PICK u \in Users :
          \/ \E l \in Languages : CallSetSystemLanguage(t, u, l)
          \/ \E r \in Regions : CallSetSystemRegion(t, u, r)
          \/ \E l \in Languages, r \in Regions : CallSetSystemLocale(t, u, l, r)
          \/ \E k \in ExtKeys, v \in ExtValues : CallSetExtParam(t, u, k, v)
          \/ \E flag \in BOOLEAN : CallSetUsingLocalDigit(t, u, flag)
          \/ \E h \in Hours : CallSet24HourClock(t, u, h)
  BY DEF Call
<1>2. ASSUME NEW op, NEW label, NEW f, Begin(t, op, u, label, f)
      PROVE  /\ pc[t] = "idle" /\ service = "up" /\ events = << >> /\ u = foreground
             /\ UNCHANGED <<param, stored, initDone, told, service, env>>
             /\ Goto(t, label) /\ Keep(t, [f EXCEPT !.op = op, !.user = foreground])
             /\ op \in Operations
  BY <1>2 DEF Begin, MayCall, Calm
<1>3. ASSUME NEW l \in Languages, CallSetSystemLanguage(t, u, l)
      PROVE  \E f : /\ Begins(t, "SetSystemLanguage", "lang_set", f)
                    /\ f.old = param["language"]
  <2> DEFINE f == [[Wants("language", l) EXCEPT !.old = param["language"]]
                     EXCEPT !.op = "SetSystemLanguage", !.user = foreground]
  <2>1. f.op = "SetSystemLanguage" /\ f.user = foreground /\ f.old = param["language"]
    BY DEF Wants, NoFrame
  <2>2. Goto(t, "lang_set") /\ Keep(t, f) /\ "SetSystemLanguage" \in Operations
    BY <1>2, <1>3 DEF CallSetSystemLanguage
  <2> HIDE DEF f
  <2> QED BY <2>1, <2>2 DEF Begins
<1>4. ASSUME NEW op \in LocaleSetters, NEW l, NEW f, f.want = [NoValues EXCEPT !["locale"] = l],
             Begin(t, op, u, "loc_was", f), f = [NoFrame EXCEPT !.want = f.want, !.ext = f.ext]
      PROVE  \E g : Begins(t, op, "loc_was", g) /\ g.want["locale"] = l
  <2> DEFINE g == [f EXCEPT !.op = op, !.user = foreground]
  <2>1. g.op = op /\ g.user = foreground /\ g.want["locale"] = l
    BY <1>4 DEF NoFrame, NoValues, Keys
  <2>2. Goto(t, "loc_was") /\ Keep(t, g) /\ op \in Operations
    BY <1>2, <1>4
  <2> HIDE DEF g
  <2> QED BY <2>1, <2>2 DEF Begins
<1>5. ASSUME NEW r \in Regions, CallSetSystemRegion(t, u, r)
      PROVE  \E g : /\ Begins(t, "SetSystemRegion", "loc_was", g)
                    /\ g.want["locale"] = UpdateRegionOfLocale(r)
  <2> DEFINE l == UpdateRegionOfLocale(r)
             f == Wants("locale", l)
  <2>1. /\ f.want = [NoValues EXCEPT !["locale"] = l]
        /\ f = [NoFrame EXCEPT !.want = f.want, !.ext = f.ext]
    BY DEF Wants, NoFrame
  <2>2. Begin(t, "SetSystemRegion", u, "loc_was", f)
    BY <1>5 DEF CallSetSystemRegion
  <2> HIDE DEF f, l
  <2>3. \E g : Begins(t, "SetSystemRegion", "loc_was", g) /\ g.want["locale"] = l
    BY <1>4, <2>1, <2>2 DEF LocaleSetters
  <2> QED BY <2>3 DEF l
<1>6. ASSUME NEW l \in Languages, NEW r \in Regions, CallSetSystemLocale(t, u, l, r)
      PROVE  \E g : /\ Begins(t, "SetSystemLocale", "loc_was", g)
                    /\ g.want["locale"] = [lang |-> l, region |-> r, ext |-> NoExt]
  <2> DEFINE m == [lang |-> l, region |-> r, ext |-> NoExt]
             f == Wants("locale", m)
  <2>1. /\ f.want = [NoValues EXCEPT !["locale"] = m]
        /\ f = [NoFrame EXCEPT !.want = f.want, !.ext = f.ext]
    BY DEF Wants, NoFrame
  <2>2. Begin(t, "SetSystemLocale", u, "loc_was", f)
    BY <1>6 DEF CallSetSystemLocale
  <2> HIDE DEF f, m
  <2>3. \E g : Begins(t, "SetSystemLocale", "loc_was", g) /\ g.want["locale"] = m
    BY <1>4, <2>1, <2>2 DEF LocaleSetters
  <2> QED BY <2>3 DEF m
<1>7. ASSUME NEW k \in ExtKeys, NEW v \in ExtValues, CallSetExtParam(t, u, k, v)
      PROVE  LET locale == Fallback(stored["locale"][foreground], "locale")
             IN  /\ LanguageSupports(Fallback(stored["language"][foreground], "language"), k, v)
                 /\ RegionSupports(locale, k, v)
                 /\ UNCHANGED faults
                 /\ \E g : /\ Begins(t, "SetExtParam", "loc_was", g)
                           /\ g.want["locale"] = ModifyExtParam(locale, k, v)
  <2> DEFINE locale == Fallback(stored["locale"][u], "locale")
             m == ModifyExtParam(locale, k, v)
             f == [Wants("locale", m) EXCEPT !.ext = <<k, v>>]
  <2>1. /\ f.want = [NoValues EXCEPT !["locale"] = m]
        /\ f = [NoFrame EXCEPT !.want = f.want, !.ext = f.ext]
    BY DEF Wants, NoFrame
  <2>2. /\ LanguageSupports(Fallback(stored["language"][u], "language"), k, v)
        /\ RegionSupports(locale, k, v)
        /\ OpenPreferences(TRUE) /\ Begin(t, "SetExtParam", u, "loc_was", f)
    BY <1>7, FewFaults DEF CallSetExtParam, ReadStored
  <2>3. u = foreground /\ UNCHANGED faults
    BY <1>2, <2>2 DEF OpenPreferences, NoFault
  <2> HIDE DEF f, m
  <2>4. \E g : Begins(t, "SetExtParam", "loc_was", g) /\ g.want["locale"] = m
    BY <1>4, <2>1, <2>2 DEF LocaleSetters
  <2> QED BY <2>2, <2>3, <2>4 DEF m
<1>8. ASSUME NEW flag \in BOOLEAN, CallSetUsingLocalDigit(t, u, flag)
      PROVE  /\ LocalDigit[param["locale"].lang] # None
             /\ \E v \in {None, LocalDigit[param["locale"].lang]} : \E g :
                    /\ Begins(t, "SetUsingLocalDigit", "loc_was", g)
                    /\ g.want["locale"] = ModifyExtParam(param["locale"], NumberKey, v)
  <2> DEFINE v == IF flag THEN LocalDigit[param["locale"].lang] ELSE None
             m == ModifyExtParam(param["locale"], NumberKey, v)
             f == [Wants("locale", m) EXCEPT !.ext = <<NumberKey, v>>]
  <2>1. /\ f.want = [NoValues EXCEPT !["locale"] = m]
        /\ f = [NoFrame EXCEPT !.want = f.want, !.ext = f.ext]
    BY DEF Wants, NoFrame
  <2>2. LocalDigit[param["locale"].lang] # None /\ Begin(t, "SetUsingLocalDigit", u, "loc_was", f)
    BY <1>8 DEF CallSetUsingLocalDigit
  <2>3. v \in {None, LocalDigit[param["locale"].lang]}
    OBVIOUS
  <2> HIDE DEF f, m
  <2>4. \E g : Begins(t, "SetUsingLocalDigit", "loc_was", g) /\ g.want["locale"] = m
    BY <1>4, <2>1, <2>2 DEF LocaleSetters
  <2> QED BY <2>2, <2>3, <2>4 DEF m
<1>9. ASSUME NEW h \in Hours, CallSet24HourClock(t, u, h)
      PROVE  \E f : Begins(t, "Set24HourClock", "hour_set", f)
  <2> DEFINE f == [Wants("hour", h) EXCEPT !.op = "Set24HourClock", !.user = foreground]
  <2>1. f.op = "Set24HourClock" /\ f.user = foreground
    BY DEF Wants, NoFrame
  <2>2. Goto(t, "hour_set") /\ Keep(t, f) /\ "Set24HourClock" \in Operations
    BY <1>2, <1>9 DEF CallSet24HourClock
  <2> HIDE DEF f
  <2> QED BY <2>1, <2>2 DEF Begins
<1>10. UNCHANGED faults
  BY <1>1, <1>7
  DEF CallSetSystemLanguage, CallSetSystemRegion, CallSetSystemLocale,
      CallSetUsingLocalDigit, CallSet24HourClock
<1>11. \E op, label, f : Begin(t, op, u, label, f)
  BY <1>1
  DEF CallSetSystemLanguage, CallSetSystemRegion, CallSetSystemLocale,
      CallSetExtParam, CallSetUsingLocalDigit, CallSet24HourClock
<1>12. /\ pc[t] = "idle" /\ service = "up" /\ events = << >>
       /\ UNCHANGED <<param, stored, initDone, told, service, env>>
  BY <1>2, <1>11
<1>13. CASE \E l \in Languages : CallSetSystemLanguage(t, u, l)
  BY <1>3, <1>10, <1>12, <1>13
<1>14. CASE \E r \in Regions : CallSetSystemRegion(t, u, r)
  BY <1>5, <1>10, <1>12, <1>14
<1>15. CASE \E l \in Languages, r \in Regions : CallSetSystemLocale(t, u, l, r)
  BY <1>6, <1>10, <1>12, <1>15
<1>16. CASE \E k \in ExtKeys, v \in ExtValues : CallSetExtParam(t, u, k, v)
  BY <1>7, <1>10, <1>12, <1>16
<1>17. CASE \E flag \in BOOLEAN : CallSetUsingLocalDigit(t, u, flag)
  BY <1>8, <1>10, <1>12, <1>17
<1>18. CASE \E h \in Hours : CallSet24HourClock(t, u, h)
  BY <1>9, <1>10, <1>12, <1>18
<1> QED BY <1>1, <1>13, <1>14, <1>15, <1>16, <1>17, <1>18

-----------------------------------------------------------------------------
(* The setters, in a calm service. *)

\* What holds of the only thread while it works for a setter.
SetterInv(t) ==
    /\ param["hour"] # None
    /\ \A k \in Keys : param[k] = stored[k][foreground] \/ Unsaved(pc[t], frame[t], k)
    /\ frame[t].op = "SetSystemLanguage" =>
          /\ frame[t].old = stored["language"][foreground]
          /\ pc[t] = "lang_undo" => faults = MaxFaults
    /\ Replaces(pc[t], frame[t]) /\ Telling(pc[t], frame[t])
    /\ Shown \/ LocaleUntold(pc[t], frame[t]) \/ HourUntold(pc[t], frame[t])

CalmRest == Exchanges /\ AllSaved /\ Mirrored /\ WayBack /\ Replacing /\ ToldInTime

LEMMA SetterNow ==
    ASSUME CalmInv, Calm, NEW t \in Threads, frame[t].op \in AllOperations
    PROVE  /\ SetterInv(t) /\ service = "up" /\ initDone /\ events = << >>
           /\ frame[t].user = foreground /\ foreground \in accounts /\ accounts \subseteq Users
<1>1. /\ service = "up" /\ initDone /\ events = << >>
      /\ frame[t].user = foreground /\ foreground \in accounts /\ accounts \subseteq Users
  BY CalmNow DEF CalmInv, Order, ServesWhom, IInv, EnvOK, AllOperations
<1>2. \A s \in Threads : s = t
  BY CalmNow
<1>3. ~Awaits("switched", "SwitchUser", foreground) /\ ~Announced("switched", foreground)
      /\ ~SwitchUntold(pc[t], frame[t])
  BY <1>1, <1>2 DEF Awaits, Announced, Serves, SwitchUntold, AllOperations
<1>4. Replaces(pc[t], frame[t]) /\ Telling(pc[t], frame[t])
  BY CalmNow
<1>5. param["hour"] # None
      /\ \A k \in Keys : param[k] = stored[k][foreground] \/ Unsaved(pc[t], frame[t], k)
  BY <1>1, <1>2, <1>3 DEF CalmInv, Mirrored
<1>6. Shown \/ LocaleUntold(pc[t], frame[t]) \/ HourUntold(pc[t], frame[t])
  BY <1>2, <1>3 DEF CalmInv, ToldInTime
<1>7. frame[t].op = "SetSystemLanguage" =>
          /\ frame[t].old = stored["language"][foreground]
          /\ pc[t] = "lang_undo" => faults = MaxFaults
  BY DEF CalmInv, WayBack
<1> QED BY <1>1, <1>4, <1>5, <1>6, <1>7 DEF SetterInv

\* A step of a setter, the first one included, disturbs nothing but what SetterInv says.
LEMMA SetterMoves ==
    ASSUME CalmInv, Calm, NEW t \in Threads,
           \/ frame[t].op \in AllOperations /\ frame'[t].op \in {frame[t].op, "none"}
           \/ frame[t].op = "none" /\ events = << >> /\ frame'[t].op \in AllOperations,
           UNCHANGED <<env, initDone>>,
           \A k \in Keys, u \in Users :
               \/ stored'[k][u] = stored[k][u]
               \/ u = foreground /\ stored'[k][u] # None,
           SetterInv(t)'
    PROVE  CalmRest'
<1>1. /\ events = << >> /\ foreground \in accounts /\ accounts \subseteq Users
      /\ \A s \in Threads : s = t
  BY SetterNow, CalmNow DEF CalmInv, IInv, EnvOK
<1>2. Exchanges'
  BY <1>1 DEF Exchanges, Exchange, AllOperations
<1>3. AllSaved'
  <2>1. \A u \in Users : /\ ~Awaits("added", "AddUser", u)
                         /\ ~Awaits("removed", "RemoveUser", u)
    BY <1>1 DEF Awaits, Announced, Serves, AllOperations
  <2> QED BY <1>1, <2>1 DEF AllSaved, CalmInv, env
<1>4. Mirrored' /\ WayBack' /\ Replacing' /\ ToldInTime'
  BY <1>1 DEF SetterInv, Mirrored, WayBack, Replacing, ToldInTime
<1> QED BY <1>2, <1>3, <1>4 DEF CalmRest

\* A setter that returns leaves parameters, saved settings and applications agreed.
LEMMA SetterReturns ==
    ASSUME CalmInv, Calm, NEW t \in Threads, frame[t].op \in AllOperations, Return(t),
           UNCHANGED <<env, initDone>>,
           \A k \in Keys, u \in Users :
               \/ stored'[k][u] = stored[k][u]
               \/ u = foreground /\ stored'[k][u] # None,
           param'["hour"] # None, \A k \in Keys : param'[k] = stored'[k][foreground], Shown'
    PROVE  CalmRest'
<1>1. pc'[t] = "idle" /\ frame'[t].op = "none" /\ foreground' = foreground
  BY CalmNow, OnlyThread DEF Return, NoFrame, env
<1>2. SetterInv(t)'
  BY <1>1
  DEF SetterInv, Unsaved, Saving, Replaces, Telling, LocaleUntold, HourUntold, LocaleSetters
<1> QED BY <1>1, <1>2, SetterMoves

\* SetSystemLanguage around SetSystemLocale.
LEMMA LanguageCalm ==
    ASSUME CalmInv, Calm, NEW t \in Threads,
           LanguageSet(t) \/ LanguageLocale(t) \/ LanguageUndo(t)
    PROVE  CalmRest'
<1> DEFINE f == frame[t]
<1>1. /\ f.op = "SetSystemLanguage" /\ MemOK /\ OneThread /\ f \in Frame
      /\ f.want \in [Keys -> Value] /\ param \in [Keys -> Value] /\ f.want["hour"] = f.want["hour"]
  BY CalmNow DEF LanguageSet, LanguageLocale, LanguageUndo, ThreadOK, CalmInv, IInv, ParamOK
<1>2. SetterInv(t) /\ f.op \in AllOperations
  BY <1>1, SetterNow DEF AllOperations
<1>3. f.want["language"] \in Languages
  BY <1>1, CalmNow DEF ThreadOK
<1> USE DEF SetterInv, Unsaved, Saving, Replaces, Telling, Shown, ShownClock, HourFits,
            Is24HourClock, LocaleUntold, HourUntold, LocaleSetters, Keys
<1>4. CASE LanguageSet(t)
  <2>1. CASE Return(t) /\ UNCHANGED param
    <3>1. Shown /\ \A k \in Keys : param[k] = stored[k][foreground]
      BY <1>1, <1>2, <1>4 DEF LanguageSet
    <3>2. UNCHANGED <<stored, told, env, initDone>>
      BY <1>4 DEF LanguageSet
    <3>3. Shown'
      BY <2>1, <3>1, <3>2 DEF env
    <3> QED BY <1>2, <2>1, <3>1, <3>2, <3>3, SetterReturns DEF env
  <2>2. CASE param' = [param EXCEPT !["language"] = f.want["language"]] /\ Goto(t, "lang_locale")
             /\ UNCHANGED frame
    <3>1. pc'[t] = "lang_locale" /\ frame'[t] = f
      BY <1>1, <2>2, OnlyThreadStays
    <3>2. SetterInv(t)'
      BY <1>1, <1>2, <1>4, <2>2, <3>1 DEF LanguageSet, env
    <3> QED BY <1>2, <1>4, <3>1, <3>2, SetterMoves DEF LanguageSet
  <2> QED BY <1>4, <2>1, <2>2 DEF LanguageSet, SetParameter
<1>5. CASE LanguageLocale(t)
  <2> DEFINE l == UpdateLanguageOfLocale(f.want["language"])
             g == [f EXCEPT !.want["locale"] = l]
  <2>1. g.op = f.op /\ g.old = f.old /\ g.want = [f.want EXCEPT !["locale"] = l]
    BY <1>1 DEF Frame
  <2>2. /\ pc[t] = "lang_locale" /\ Goto(t, "loc_was") /\ Keep(t, g)
        /\ UNCHANGED <<param, stored, told, env, faults, initDone>>
    BY <1>5 DEF LanguageLocale, l
  <2> HIDE DEF g, l
  <2>3. /\ pc'[t] = "loc_was" /\ frame'[t].op = f.op /\ frame'[t].old = f.old
        /\ frame'[t].want["locale"] = l /\ frame'[t].want["language"] = f.want["language"]
    BY <1>1, <2>1, <2>2, OnlyThread
  <2>4. l = UpdateLanguageOfLocale(f.want["language"])'
    BY <1>1, <2>2, <2>3 DEF l, UpdateLanguageOfLocale
  <2>5. SetterInv(t)'
    BY <1>1, <1>2, <2>2, <2>3, <2>4 DEF env
  <2> QED BY <1>2, <2>2, <2>3, <2>5, SetterMoves
<1>6. CASE LanguageUndo(t)
  <2>1. Return(t) /\ pc[t] = "lang_undo" /\ UNCHANGED <<stored, told, env, initDone>>
    BY <1>6 DEF LanguageUndo
  <2>2. faults = MaxFaults /\ f.old = stored["language"][foreground]
    BY <1>1, <1>2, <2>1
  <2>3. ~Fault("param")
    BY <2>2, ConstantsAssumption DEF Fault
  <2>4. param' = [param EXCEPT !["language"] = f.old]
    BY <1>6, <2>3 DEF LanguageUndo, SetParameter
  <2>5. Shown /\ \A k \in Keys : k # "language" => param[k] = stored[k][foreground]
    BY <1>1, <1>2, <2>1
  <2>6. Shown'
    BY <1>1, <2>1, <2>4, <2>5 DEF env
  <2>7. param'["hour"] # None /\ \A k \in Keys : param'[k] = stored'[k][foreground]
    BY <1>1, <1>2, <2>1, <2>2, <2>4, <2>5
  <2> QED BY <1>2, <2>1, <2>6, <2>7, SetterReturns
<1> QED BY <1>4, <1>5, <1>6

\* SetSystemLocale.
LEMMA LocaleSetterNow ==
    ASSUME CalmInv, Calm, NEW t \in Threads, pc[t] \in LocaleLabels
    PROVE  /\ frame[t].op \in LocaleSetters \cup {"SetSystemLanguage"}
           /\ frame[t].op \in AllOperations /\ SetterInv(t) /\ frame[t] \in Frame
           /\ frame[t].want \in [Keys -> Value] /\ param \in [Keys -> Value]
           /\ MemOK /\ OneThread /\ \A s \in Threads : s = t
           /\ pc[t] \in {"loc_was", "loc_set"} =>
                  frame[t].want["locale"] # None /\ frame[t].want["locale"] \in Locale
           /\ pc[t] \in {"loc_now", "loc_tell", "loc_event"} =>
                  param["locale"] = frame[t].want["locale"]
<1>1. /\ ProgressOf(pc[t], frame[t], param) /\ ThreadOK(pc[t], frame[t]) /\ MemOK /\ OneThread
      /\ frame[t] \in Frame /\ frame[t].want \in [Keys -> Value] /\ \A s \in Threads : s = t
  BY CalmNow
<1>2. /\ frame[t].op \in LocaleSetters \cup {"SetSystemLanguage"}
      /\ frame[t].op \in AllOperations
  <2>1. Place(pc[t], frame[t]) /\ ~Saving(pc[t])
    BY <1>1 DEF ProgressOf, LocaleLabels, Saving
  <2>2. frame[t].op \in LocaleSetters \cup {"SetSystemLanguage"}
    BY <2>1 DEF Place, LocaleLabels
  <2> QED BY <2>2 DEF LocaleSetters, AllOperations
<1>3. pc[t] \in {"loc_now", "loc_tell", "loc_event"} => param["locale"] = frame[t].want["locale"]
  BY <1>1, <1>2 DEF ProgressOf, Done, LocaleSetters
<1>4. pc[t] \in {"loc_was", "loc_set"} => frame[t].want["locale"] \in Locale
  BY <1>1 DEF ThreadOK
<1>5. param \in [Keys -> Value]
  BY DEF CalmInv, IInv, ParamOK
<1>6. None \notin Locale
  BY NoneAssumption
<1> QED BY <1>1, <1>2, <1>3, <1>4, <1>5, <1>6, SetterNow

LEMMA LocaleCalm ==
    ASSUME CalmInv, Calm, NEW t \in Threads,
           LocaleWas(t) \/ LocaleSet(t) \/ LocaleNow(t) \/ LocaleTell(t) \/ LocaleEvent(t)
    PROVE  CalmRest'
<1> DEFINE f == frame[t]
<1>0. pc[t] \in LocaleLabels
  BY DEF LocaleWas, LocaleSet, LocaleNow, LocaleTell, LocaleEvent, LocaleLabels
<1>1. /\ f.op \in LocaleSetters \cup {"SetSystemLanguage"} /\ f.op \in AllOperations
      /\ f \in Frame /\ f.want \in [Keys -> Value] /\ param \in [Keys -> Value]
      /\ MemOK /\ OneThread /\ \A s \in Threads : s = t
  BY <1>0, LocaleSetterNow
<1>2. SetterInv(t)
  BY <1>1, SetterNow
<1> USE DEF SetterInv, Unsaved, Saving, Replaces, Telling, LocaleUntold, HourUntold, LocaleSetters
<1>3. CASE LocaleWas(t)
  <2>1. /\ pc[t] = "loc_was" /\ Goto(t, "loc_set")
        /\ Keep(t, [f EXCEPT !.was24 = Is24HourClock])
        /\ UNCHANGED <<param, stored, told, env, initDone, faults>>
    BY <1>3 DEF LocaleWas
  <2>2. /\ pc'[t] = "loc_set" /\ frame'[t].was24 = Is24HourClock /\ frame'[t].op = f.op
        /\ frame'[t].old = f.old /\ frame'[t].want = f.want
    <3>1. pc'[t] = "loc_set" /\ frame'[t] = [f EXCEPT !.was24 = Is24HourClock]
      BY ONLY <1>1, <2>1, OnlyThread
    <3> QED BY ONLY <1>1, <3>1 DEF Frame
  <2>3. (Shown => Shown') /\ Is24HourClock' = Is24HourClock
        /\ \A l : UpdateLanguageOfLocale(l)' = UpdateLanguageOfLocale(l)
        /\ \A r : UpdateRegionOfLocale(r)' = UpdateRegionOfLocale(r)
    BY <2>1 DEF Shown, ShownClock, HourFits, Is24HourClock, env, UpdateLanguageOfLocale,
                UpdateRegionOfLocale
  <2>4. Replaces(pc[t], frame[t])'
    <3>1. Replaces("loc_was", f)
      BY <1>2, <2>1
    <3>2. param' = param
      BY <2>1
    <3> QED BY ONLY <2>2, <2>3, <3>1, <3>2 DEF Replaces
  <2>5. SetterInv(t)'
    BY <1>1, <1>2, <2>1, <2>2, <2>3, <2>4 DEF env
  <2> QED BY <1>1, <2>1, <2>2, <2>5, SetterMoves
<1>4. CASE LocaleSet(t)
  <2>1. pc[t] = "loc_set" /\ UNCHANGED <<stored, told, env, initDone>>
    BY <1>4 DEF LocaleSet
  <2>2. Shown /\ f.was24 = Is24HourClock
    BY <1>1, <1>2, <2>1
  <2>3. CASE param' = [param EXCEPT !["locale"] = f.want["locale"]] /\ Goto(t, "loc_now")
             /\ UNCHANGED frame
    <3>1. pc'[t] = "loc_now" /\ frame'[t] = f
      BY <1>1, <2>3, OnlyThreadStays
    <3>2. ShownClock' = f.was24 /\ HourFits'
      BY <1>1, <2>1, <2>2, <2>3 DEF Shown, ShownClock, HourFits, env, Keys
    <3>3. SetterInv(t)'
      BY <1>1, <1>2, <2>1, <2>3, <3>1, <3>2 DEF env, Keys
    <3> QED BY <1>1, <2>1, <3>1, <3>3, SetterMoves
  <2>4. CASE LocaleFailed(t) /\ UNCHANGED param /\ Fault("param")
    <3>1. Shown'
      BY <2>1, <2>2, <2>4 DEF Shown, ShownClock, HourFits, Is24HourClock, env
    <3>2. CASE f.op = "SetSystemLanguage"
      <4>1. pc'[t] = "lang_undo" /\ frame'[t] = f
        BY <1>1, <2>4, <3>2, OnlyThreadStays DEF LocaleFailed
      <4>2. faults' = MaxFaults /\ UNCHANGED MaxFaults
        BY <2>4, ConstantsAssumption DEF Fault, Calm, CalmInv, IInv, BoundsOK
      <4>3. SetterInv(t)'
        BY <1>1, <1>2, <2>1, <2>4, <3>1, <3>2, <4>1, <4>2 DEF env, Keys
      <4> QED BY <1>1, <2>1, <4>1, <4>3, SetterMoves
    <3>3. CASE f.op # "SetSystemLanguage"
      <4>1. Return(t)
        BY <2>4, <3>3 DEF LocaleFailed
      <4>2. param'["hour"] # None /\ \A k \in Keys : param'[k] = stored'[k][foreground]
        BY <1>1, <1>2, <2>1, <2>4, <3>3
      <4> QED BY <1>1, <2>1, <3>1, <4>1, <4>2, SetterReturns
    <3> QED BY <3>2, <3>3
  <2> QED BY <1>4, <2>3, <2>4 DEF LocaleSet, SetParameter
<1>5. CASE LocaleNow(t)
  <2>1. /\ pc[t] = "loc_now" /\ Goto(t, "save_load")
        /\ Keep(t, [f EXCEPT !.now24 = Is24HourClock, !.key = "locale"])
        /\ UNCHANGED <<param, stored, told, env, initDone, faults>>
    BY <1>5 DEF LocaleNow
  <2>2. /\ pc'[t] = "save_load" /\ frame'[t].now24 = Is24HourClock /\ frame'[t].op = f.op
        /\ frame'[t].old = f.old /\ frame'[t].was24 = f.was24 /\ frame'[t].key = "locale"
    <3>1. /\ pc'[t] = "save_load"
          /\ frame'[t] = [f EXCEPT !.now24 = Is24HourClock, !.key = "locale"]
      BY ONLY <1>1, <2>1, OnlyThread
    <3> QED BY ONLY <1>1, <3>1 DEF Frame
  <2>3. ShownClock' = f.was24 /\ HourFits' /\ Is24HourClock' = Is24HourClock
    BY <1>1, <1>2, <2>1 DEF ShownClock, HourFits, Is24HourClock, env
  <2>5. SetterInv(t)'
    BY <1>1, <1>2, <2>1, <2>2, <2>3 DEF env
  <2> QED BY <1>1, <2>1, <2>2, <2>5, SetterMoves
<1>6. CASE LocaleTell(t)
  <2>1. /\ pc[t] = "loc_tell" /\ Goto(t, "loc_event")
        /\ UNCHANGED <<param, stored, frame, env, initDone>>
    BY <1>6 DEF LocaleTell
  <2>2. pc'[t] = "loc_event" /\ frame'[t] = f
    BY <1>1, <2>1, OnlyThreadStays
  <2>3. f.user = foreground /\ foreground \in Users
    BY <1>1, SetterNow
  <2>4. told' = [told EXCEPT ![foreground] =
                    [locale |-> IF f.want["locale"] = None THEN @.locale ELSE f.want["locale"],
                     hour |-> IF ChangedHour(f) = None THEN @.hour ELSE ChangedHour(f)]]
    BY <1>6, <2>3, FewFaults DEF LocaleTell, Tell
  <2>5. param["locale"] = f.want["locale"] /\ param["locale"] # None
    BY <2>1, LocaleSetterNow, NoneAssumption DEF LocaleLabels, CalmInv, IInv, ParamOK
  <2>6. /\ told'[foreground].locale = param["locale"]
        /\ told'[foreground].hour = IF ChangedHour(f) = None THEN told[foreground].hour
                                    ELSE ChangedHour(f)
    BY <2>3, <2>4, <2>5 DEF CalmInv, IInv, ToldOK
  <2>7. ShownClock = f.was24 /\ HourFits /\ f.now24 = Is24HourClock /\ f.was24 \in BOOLEAN
    BY <1>1, <1>2, <2>1 DEF Frame
  <2>8. Shown'
    BY <2>1, <2>5, <2>6, <2>7, HoursAssumption, NoneAssumption
    DEF Shown, ShownClock, HourFits, Is24HourClock, Clock, ChangedHour, env, Hours
  <2>9. SetterInv(t)'
    BY <1>1, <1>2, <2>1, <2>2, <2>8 DEF env
  <2> QED BY <1>1, <2>1, <2>2, <2>9, SetterMoves
<1>7. CASE LocaleEvent(t)
  <2>1. pc[t] = "loc_event" /\ UNCHANGED <<param, stored, told, env, initDone>>
    BY <1>7 DEF LocaleEvent
  <2>2. Shown /\ \A k \in Keys : f.op # "SetSystemLanguage" \/ k # "language"
                                     => param[k] = stored[k][foreground]
    BY <1>1, <1>2, <2>1
  <2>3. Shown'
    BY <2>1, <2>2 DEF Shown, ShownClock, HourFits, Is24HourClock, env
  <2>4. CASE f.op = "SetSystemLanguage" /\ Goto(t, "save_load")
             /\ Keep(t, [f EXCEPT !.key = "language"])
    <3>1. /\ pc'[t] = "save_load" /\ frame'[t].op = f.op /\ frame'[t].old = f.old
          /\ frame'[t].key = "language"
      BY <1>1, <2>4, OnlyThread DEF Frame
    <3>2. SetterInv(t)'
      BY <1>1, <1>2, <2>1, <2>2, <2>3, <3>1 DEF env
    <3> QED BY <1>1, <2>1, <3>1, <3>2, SetterMoves
  <2>5. CASE f.op # "SetSystemLanguage" /\ Return(t)
    <3>1. param'["hour"] # None /\ \A k \in Keys : param'[k] = stored'[k][foreground]
      BY <1>2, <2>1, <2>2, <2>5
    <3> QED BY <1>1, <2>1, <2>3, <2>5, <3>1, SetterReturns
  <2> QED BY <1>7, <2>4, <2>5, FewFaults DEF LocaleEvent
<1> QED BY <1>3, <1>4, <1>5, <1>6, <1>7

\* Set24HourClock.
LEMMA HourCalm ==
    ASSUME CalmInv, Calm, NEW t \in Threads, HourSet(t) \/ HourTell(t) \/ HourEvent(t)
    PROVE  CalmRest'
<1> DEFINE f == frame[t]
<1>1. /\ ProgressOf(pc[t], f, param) /\ ThreadOK(pc[t], f) /\ MemOK /\ OneThread
      /\ f \in Frame /\ f.want \in [Keys -> Value] /\ param \in [Keys -> Value]
      /\ \A s \in Threads : s = t
  BY CalmNow DEF CalmInv, IInv, ParamOK
<1>2. f.op = "Set24HourClock" /\ f.op \in AllOperations
  <2>1. pc[t] \in {"hour_set", "hour_tell", "hour_event"}
    BY DEF HourSet, HourTell, HourEvent
  <2>2. f.op = "Set24HourClock"
    BY <1>1, <2>1 DEF ProgressOf, Place, LocaleLabels, Saving
  <2> QED BY <2>2 DEF AllOperations
<1>3. SetterInv(t)
  BY <1>2, SetterNow
<1> USE DEF SetterInv, Unsaved, Saving, Replaces, Telling, LocaleUntold, HourUntold, LocaleSetters
<1>4. CASE HourSet(t)
  <2>1. pc[t] = "hour_set" /\ UNCHANGED <<stored, told, env, initDone>>
    BY <1>4 DEF HourSet
  <2>2. Shown /\ \A k \in Keys : param[k] = stored[k][foreground]
    BY <1>2, <1>3, <2>1
  <2>3. CASE /\ param' = [param EXCEPT !["hour"] = f.want["hour"]] /\ Goto(t, "save_load")
             /\ Keep(t, [f EXCEPT !.key = "hour"])
    <3>1. pc'[t] = "save_load" /\ frame'[t].op = f.op /\ frame'[t].key = "hour"
      BY <1>1, <2>3, OnlyThread DEF Frame
    <3>2. f.want["hour"] # None
      BY <1>1, <2>1, NoneAssumption DEF ThreadOK
    <3>3. SetterInv(t)'
      BY <1>1, <1>2, <1>3, <2>1, <2>2, <2>3, <3>1, <3>2 DEF env, Keys, Shown
    <3> QED BY <1>2, <2>1, <3>1, <3>3, SetterMoves
  <2>4. CASE Return(t) /\ UNCHANGED param
    <3>1. Shown'
      BY <2>1, <2>2, <2>4 DEF Shown, ShownClock, HourFits, Is24HourClock, env
    <3> QED BY <1>2, <1>3, <2>1, <2>2, <2>4, <3>1, SetterReturns DEF env
  <2> QED BY <1>4, <2>3, <2>4 DEF HourSet, SetParameter
<1>5. CASE HourTell(t)
  <2>1. /\ pc[t] = "hour_tell" /\ Goto(t, "hour_event")
        /\ UNCHANGED <<param, stored, frame, env, initDone>>
    BY <1>5 DEF HourTell
  <2>2. pc'[t] = "hour_event" /\ frame'[t] = f
    BY <1>1, <2>1, OnlyThreadStays
  <2>3. f.user = foreground /\ foreground \in Users
    BY <1>2, SetterNow
  <2>4. told' = [told EXCEPT ![foreground] =
                    [locale |-> @.locale,
                     hour |-> IF f.want["hour"] = None THEN @.hour ELSE f.want["hour"]]]
    BY <1>5, <2>3, FewFaults DEF HourTell, Tell
  <2>5. param["hour"] = f.want["hour"] /\ param["hour"] # None
    BY <1>1, <1>2, <1>3, <2>1 DEF ProgressOf, Done
  <2>6. told'[foreground].locale = param["locale"] /\ told'[foreground].hour = param["hour"]
    BY <1>2, <1>3, <2>1, <2>3, <2>4, <2>5 DEF CalmInv, IInv, ToldOK
  <2>7. Shown'
    BY <2>1, <2>6 DEF Shown, ShownClock, HourFits, Is24HourClock, Clock, env
  <2>8. SetterInv(t)'
    BY <1>1, <1>2, <1>3, <2>1, <2>2, <2>7 DEF env
  <2> QED BY <1>2, <2>1, <2>2, <2>8, SetterMoves
<1>6. CASE HourEvent(t)
  <2>1. pc[t] = "hour_event" /\ Return(t) /\ UNCHANGED <<param, stored, told, env, initDone>>
    BY <1>6 DEF HourEvent
  <2>2. Shown /\ \A k \in Keys : param[k] = stored[k][foreground]
    BY <1>2, <1>3, <2>1
  <2>3. Shown'
    BY <2>1, <2>2 DEF Shown, ShownClock, HourFits, Is24HourClock, env
  <2> QED BY <1>2, <1>3, <2>1, <2>2, <2>3, SetterReturns DEF env
<1> QED BY <1>4, <1>5, <1>6

-----------------------------------------------------------------------------
(* Saving, in a calm service. *)

\* A save changes the entry of its account and key, or deletes it.
LEMMA EntryStored ==
    ASSUME CalmInv, Calm, NEW t \in Threads, SaveStore(t)
    PROVE  /\ pc[t] = "save_store" /\ AfterSave(t, TRUE)
           /\ UNCHANGED <<param, initDone, told, service, env, faults>>
           /\ \A k \in Keys, u \in Users :
                 stored'[k][u] = IF k = frame[t].key /\ u = frame[t].user
                                 THEN IF frame[t].op = "RemoveUser" THEN None
                                      ELSE frame[t].want[k]
                                 ELSE stored[k][u]
<1> DEFINE f == frame[t]
           entry == IF Deletes(f) THEN None ELSE f.want[f.key]
<1>1. f.key \in Keys /\ f.snap \in [Users -> Value]
  BY CalmNow DEF Frame
<1>2. pc[t] = "save_store" /\ \A u \in Users : f.snap[u] = stored[f.key][u]
  BY DEF SaveStore, CalmInv, SnapCurrent
<1>3. /\ stored' = [stored EXCEPT ![f.key] = Rewritten(f.snap, f.user, entry)]
      /\ OpenPreferences(TRUE) /\ AfterSave(t, TRUE)
      /\ UNCHANGED <<param, initDone, told, service, env, ops>>
  BY FewFaults DEF SaveStore
<1>4. UNCHANGED faults
  BY <1>3 DEF OpenPreferences, NoFault
<1>5. stored \in [Keys -> [Users -> Value]]
  BY DEF CalmInv, IInv, StoredOK
<1> HIDE DEF f
<1>6. ASSUME NEW k \in Keys, NEW u \in Users
      PROVE  stored'[k][u] = IF k = f.key /\ u = f.user THEN entry ELSE stored[k][u]
  <2> HIDE DEF entry
  <2>1. Rewritten(f.snap, f.user, entry)[u] = IF u = f.user THEN entry ELSE stored[f.key][u]
    BY <1>1, <1>2, <1>6 DEF Rewritten
  <2> HIDE DEF f
  <2> QED BY <1>1, <1>3, <1>5, <1>6, <2>1
<1>7. entry = IF frame[t].op = "RemoveUser" THEN None ELSE frame[t].want[frame[t].key]
  BY DEF f, Deletes
<1> HIDE DEF entry
<1>8. ASSUME NEW k \in Keys, NEW u \in Users
      PROVE  stored'[k][u] = IF k = frame[t].key /\ u = frame[t].user
                             THEN IF frame[t].op = "RemoveUser" THEN None
                                  ELSE frame[t].want[k]
                             ELSE stored[k][u]
  BY <1>6, <1>7 DEF f
<1> QED BY <1>2, <1>3, <1>4, <1>8 DEF f

\* The setters save what they have set.
LEMMA SetterSaveCalm ==
    ASSUME CalmInv, Calm, NEW t \in Threads, frame[t].op \in AllOperations,
           SaveLoad(t) \/ SaveStore(t)
    PROVE  CalmRest'
<1> DEFINE f == frame[t]
<1>1. /\ ProgressOf(pc[t], f, param) /\ ThreadOK(pc[t], f) /\ MemOK /\ OneThread
      /\ f \in Frame /\ f.want \in [Keys -> Value] /\ f.key \in Keys
      /\ \A s \in Threads : s = t
  BY CalmNow
<1>2. SetterInv(t) /\ f.user = foreground /\ foreground \in Users
  BY SetterNow
<1> USE DEF SetterInv, Unsaved, Saving, Replaces, Telling, LocaleUntold, HourUntold, LocaleSetters
<1>3. CASE SaveLoad(t)
  <2>1. PICK snap : /\ pc[t] = "save_load" /\ Goto(t, "save_store")
                    /\ Keep(t, [f EXCEPT !.snap = snap])
    BY <1>3 DEF SaveLoad
  <2>2. /\ pc'[t] = "save_store" /\ frame'[t].op = f.op /\ frame'[t].old = f.old
        /\ frame'[t].was24 = f.was24 /\ frame'[t].now24 = f.now24 /\ frame'[t].key = f.key
    BY <1>1, <2>1, OnlyThread DEF Frame
  <2>3. UNCHANGED <<param, stored, initDone, told, env>>
    BY <1>3 DEF SaveLoad
  <2>4. /\ Shown' = Shown /\ ShownClock' = ShownClock /\ HourFits' = HourFits
        /\ Is24HourClock' = Is24HourClock /\ foreground' = foreground
    BY <2>3 DEF Shown, ShownClock, HourFits, Is24HourClock, env
  <2>5. SetterInv(t)'
    BY <1>1, <1>2, <2>1, <2>2, <2>3, <2>4
  <2> QED BY <2>2, <2>3, <2>5, SetterMoves
<1>4. CASE SaveStore(t)
  <2>1. /\ pc[t] = "save_store" /\ AfterSave(t, TRUE)
        /\ UNCHANGED <<param, initDone, told, service, env, faults>>
        /\ \A k \in Keys, u \in Users :
              stored'[k][u] = IF k = f.key /\ u = foreground THEN f.want[k] ELSE stored[k][u]
    <3>1. f.op # "RemoveUser"
      BY DEF AllOperations
    <3>2. f.user = foreground
      BY <1>2
    <3>3. /\ pc[t] = "save_store" /\ AfterSave(t, TRUE)
          /\ UNCHANGED <<param, initDone, told, service, env, faults>>
          /\ \A k \in Keys, u \in Users :
                stored'[k][u] = IF k = frame[t].key /\ u = frame[t].user
                                THEN IF frame[t].op = "RemoveUser" THEN None
                                     ELSE frame[t].want[k]
                                ELSE stored[k][u]
      BY ONLY <1>4, EntryStored, CalmInv, Calm
    <3> QED BY ONLY <3>1, <3>2, <3>3
  <2>2. f.want[f.key] = param[f.key] /\ param[f.key] # None
    <3>1. f.key \in Done("save_store", f)
      BY <1>1, <2>1 DEF ProgressOf, Place, Done, AllOperations, LocaleLabels
    <3>2. param["language"] # None /\ param["locale"] # None
      BY NoneAssumption DEF CalmInv, IInv, ParamOK
    <3> QED BY <1>1, <1>2, <2>1, <3>1, <3>2 DEF ProgressOf, Keys
  <2>3. /\ Shown' = Shown /\ ShownClock' = ShownClock /\ HourFits' = HourFits
        /\ Is24HourClock' = Is24HourClock /\ foreground' = foreground
    BY <2>1 DEF Shown, ShownClock, HourFits, Is24HourClock, env
  <2>4. \A k \in Keys : k = f.key \/ param[k] = stored[k][foreground]
                        \/ (k = "language" /\ f.op = "SetSystemLanguage")
    BY <1>2, <2>1
  <2>5. CASE f.key = "language" /\ Return(t)
    <3>1. Shown
      BY <1>2, <2>1, <2>5, <1>1 DEF ProgressOf, Place
    <3>2. \A k \in Keys : param'[k] = stored'[k][foreground]
      BY <1>2, <2>1, <2>2, <2>4, <2>5
    <3> QED BY <1>2, <2>1, <2>2, <2>3, <2>5, <3>1, <3>2, SetterReturns
  <2>6. CASE f.key # "language" /\ UNCHANGED frame
             /\ Goto(t, IF f.key = "hour" THEN "hour_tell" ELSE "loc_tell")
    <3>1. pc'[t] = (IF f.key = "hour" THEN "hour_tell" ELSE "loc_tell") /\ frame'[t] = f
      BY <1>1, <2>6, OnlyThreadStays
    <3>2. stored'["language"][foreground] = stored["language"][foreground]
      BY <1>2, <2>1, <2>6 DEF Keys
    <3>3. SetterInv(t)'
      <4>1. \A k \in Keys : param'[k] = stored'[k][foreground]
                            \/ (k = "language" /\ f.op = "SetSystemLanguage")
        BY <1>2, <2>1, <2>2, <2>4
      <4>2. (f.key = "hour" /\ f.op = "Set24HourClock")
            \/ (f.key = "locale" /\ f.op \in LocaleSetters \cup {"SetSystemLanguage"})
        BY <1>1, <2>1, <2>6 DEF ProgressOf, Place, AllOperations, LocaleLabels
      <4>3. ~Shown => LocaleUntold(pc[t], f) \/ HourUntold(pc[t], f)
        BY <1>2
      <4>4. /\ LocaleUntold(pc'[t], frame'[t]) <=> LocaleUntold(pc[t], f)
            /\ HourUntold(pc'[t], frame'[t]) <=> HourUntold(pc[t], f)
        BY <2>1, <3>1, <4>2
      <4>5. Telling(pc[t], frame[t])'
        BY <1>2, <2>1, <2>3, <3>1, <4>4
      <4>6. (Shown \/ LocaleUntold(pc[t], frame[t]) \/ HourUntold(pc[t], frame[t]))'
        BY <2>3, <4>3, <4>4
      <4>7. frame[t].op = "SetSystemLanguage" => frame[t].old = stored'["language"][foreground]
        BY <1>2, <3>2
      <4>8. pc'[t] \in {"hour_tell", "loc_tell"} /\ frame'[t] = f
        BY <3>1
      <4>9. Replaces(pc[t], frame[t])' /\ param'["hour"] # None
        BY <1>2, <2>1, <4>8
      <4>10. \A k \in Keys : (param[k] = stored[k][foreground] \/ Unsaved(pc[t], frame[t], k))'
        BY <2>3, <4>1, <4>8
      <4> HIDE DEF Unsaved, LocaleUntold, HourUntold
      <4> QED BY <2>3, <4>5, <4>6, <4>7, <4>8, <4>9, <4>10
    <3> QED BY <1>2, <2>1, <2>2, <3>1, <3>3, SetterMoves
  <2>7. IF f.key = "language" THEN Return(t)
        ELSE UNCHANGED frame /\ Goto(t, IF f.key = "hour" THEN "hour_tell" ELSE "loc_tell")
    <3>1. AfterSave(t, TRUE) /\ f.op \in AllOperations
      BY <2>1
    <3> QED BY ONLY <3>1 DEF AfterSave, AllOperations
  <2> QED BY <2>5, <2>6, <2>7
<1> QED BY <1>3, <1>4

-----------------------------------------------------------------------------
(* The first start and the coming and going of accounts. *)

KeepsAccounts == {"AddUser", "InitMultiUser", "RemoveUser"}

\* None of this concerns the applications or a setter.
LEMMA OthersUndisturbed ==
    ASSUME CalmInv, Calm, NEW t \in Threads, frame[t].op \in KeepsAccounts,
           frame'[t].op \in {frame[t].op, "none"}, pc'[t] \notin {"loc_was", "loc_set"},
           UNCHANGED <<param, told, env>>
    PROVE  WayBack' /\ Replacing' /\ ToldInTime'
<1>1. \A s \in Threads : s = t
  BY CalmNow
<1>2. frame'[t].op \notin LocaleSetters \cup {"SetSystemLanguage", "Set24HourClock", "SwitchUser"}
      /\ frame[t].op \notin LocaleSetters \cup {"SetSystemLanguage", "Set24HourClock", "SwitchUser"}
  BY DEF KeepsAccounts, LocaleSetters
<1>3. WayBack' /\ Replacing'
  BY <1>1, <1>2 DEF WayBack, Replacing, Replaces
<1>4. Shown' = Shown /\ Announced("switched", foreground)' = Announced("switched", foreground)
  BY DEF Shown, ShownClock, HourFits, Is24HourClock, Announced, env
<1>5. Shown \/ Announced("switched", foreground)
  BY <1>1, <1>2 DEF CalmInv, ToldInTime, LocaleUntold, HourUntold, SwitchUntold
<1>6. Telling(pc[t], frame[t])'
  BY <1>2 DEF Telling, LocaleUntold, HourUntold
<1>7. ToldInTime'
  BY <1>1, <1>4, <1>5, <1>6 DEF ToldInTime
<1> QED BY <1>3, <1>7

\* SaveGlobalParam reads the three parameters.
LEMMA ReadCalm ==
    ASSUME CalmInv, Calm, NEW t \in Threads, AddRead(t)
    PROVE  CalmRest'
<1> DEFINE f == frame[t]
<1>1. /\ ProgressOf(pc[t], f, param) /\ MemOK /\ OneThread /\ f \in Frame /\ f.key \in Keys
      /\ f.want \in [Keys -> Value] /\ Exchange(pc[t], f) /\ \A s \in Threads : s = t
      /\ pc[t] = "add_read" /\ param["hour"] # None
      /\ UNCHANGED <<param, stored, initDone, told, service, env>>
  BY CalmNow DEF AddRead, CalmInv, Mirrored
<1>2. f.op \in {"AddUser", "InitMultiUser"}
  BY <1>1 DEF ProgressOf, Place, LocaleLabels, Saving
<1>3. PICK label, key : /\ Goto(t, label)
                        /\ Keep(t, [f EXCEPT !.want[f.key] = param[f.key], !.key = key])
                        /\ \/ f.key # "hour" /\ label = "add_read" /\ key = NextKey(f.key)
                           \/ f.key = "hour" /\ label = "save_load" /\ key = "language"
  <2>1. CASE f.key # "hour"
    <3>1. /\ Goto(t, "add_read")
          /\ Keep(t, [[f EXCEPT !.want[f.key] = param[f.key]] EXCEPT !.key = NextKey(f.key)])
      BY <1>1, <2>1 DEF AddRead, Frame
    <3> QED BY <2>1, <3>1
  <2>2. CASE f.key = "hour"
    <3>1. /\ Goto(t, "save_load")
          /\ Keep(t, [[f EXCEPT !.want[f.key] = param[f.key]] EXCEPT !.key = "language"])
      BY <1>1, <2>2 DEF AddRead
    <3> QED BY <2>2, <3>1
  <2> QED BY <2>1, <2>2
<1>4. /\ pc'[t] = label /\ frame'[t].op = f.op /\ frame'[t].user = f.user
      /\ frame'[t].key = key /\ frame'[t].want = [f.want EXCEPT ![f.key] = param[f.key]]
  <2>1. /\ pc'[t] = label
        /\ frame'[t] = [f EXCEPT !.want[f.key] = param[f.key], !.key = key]
    BY <1>1, <1>3, OnlyThread
  <2> QED BY <1>1, <2>1 DEF Frame
<1>5. Exchanges'
  <2>1. \A k \in KeysRead(label, frame'[t]) : frame'[t].want[k] = param[k]
    BY <1>1, <1>2, <1>3, <1>4 DEF Exchange, KeysRead, SavedBefore, NextKey, Keys
  <2>2. KeysSaved(label, frame'[t]) = {}
    BY <1>3, <1>4 DEF KeysSaved, SavedBefore
  <2> QED BY <1>1, <1>2, <1>4, <2>1, <2>2 DEF Exchanges, Exchange
<1>6. AllSaved' /\ Mirrored'
  <2>1. ASSUME NEW type, NEW op, NEW u PROVE Awaits(type, op, u)' = Awaits(type, op, u)
    BY <1>1, <1>4 DEF Awaits, Announced, Serves, env
  <2>2. AllSaved'
    BY <1>1, <2>1 DEF AllSaved, CalmInv, env
  <2>3. \A k \in Keys : ~Unsaved(pc[t], f, k)
    BY <1>1, <1>2 DEF Unsaved, AllOperations
  <2>4. Mirrored'
    BY <1>1, <2>1, <2>3 DEF Mirrored, CalmInv, env
  <2> QED BY <2>2, <2>4
<1>7. WayBack' /\ Replacing' /\ ToldInTime'
  BY <1>1, <1>2, <1>3, <1>4, OthersUndisturbed DEF KeepsAccounts
<1> QED BY <1>5, <1>6, <1>7 DEF CalmRest

\* Of a thread that saves all settings of an account, or deletes them.
LEMMA SaverNow ==
    ASSUME CalmInv, Calm, NEW t \in Threads, frame[t].op \in KeepsAccounts
    PROVE  /\ frame[t].user \in Users /\ foreground \in accounts /\ accounts \subseteq Users
           /\ param["hour"] # None /\ \A k \in Keys : param[k] # None
           /\ frame[t].op = "AddUser" => frame[t].user \in accounts \ {foreground}
           /\ frame[t].op = "RemoveUser" => frame[t].user \notin accounts /\ initDone
           /\ frame[t].op = "InitMultiUser" => frame[t].user = foreground /\ ~initDone
           /\ frame[t].op # "InitMultiUser" => events = << >>
           /\ frame[t].op # "InitMultiUser" /\ initDone =>
                  \A k \in Keys : param[k] = stored[k][foreground]
<1>1. /\ frame[t].op = "AddUser" => frame[t].user \in accounts \ {foreground}
      /\ frame[t].op = "RemoveUser" => frame[t].user \in Users \ accounts /\ initDone
      /\ frame[t].op = "InitMultiUser" => frame[t].user = foreground /\ ~initDone
      /\ frame[t].op # "InitMultiUser" => events = << >>
      /\ foreground \in accounts /\ accounts \subseteq Users
  BY CalmNow DEF ServesWhom, KeepsAccounts, CalmInv, IInv, EnvOK
<1>2. param["hour"] # None /\ \A k \in Keys : param[k] # None
  BY NoneAssumption DEF CalmInv, Mirrored, IInv, ParamOK, Keys
<1>3. ASSUME frame[t].op # "InitMultiUser", initDone
      PROVE  \A k \in Keys : param[k] = stored[k][foreground]
  <2>1. \A k \in Keys : ~Unsaved(pc[t], frame[t], k)
    BY DEF Unsaved, KeepsAccounts, AllOperations
  <2>2. ~Awaits("switched", "SwitchUser", foreground) /\ \A s \in Threads : s = t
    BY <1>1, <1>3, CalmNow DEF Awaits, Announced, Serves, KeepsAccounts
  <2> QED BY <1>3, <2>1, <2>2 DEF CalmInv, Mirrored
<1> QED BY <1>1, <1>2, <1>3 DEF KeepsAccounts

\* What is saved or deleted of one account leaves the others' settings saved.
LEMMA SaverKeeps ==
    ASSUME CalmInv, Calm, NEW t \in Threads, frame[t].op \in KeepsAccounts,
           \/ frame'[t].op = frame[t].op /\ frame'[t].user = frame[t].user
           \/ frame'[t].op = "none",
           UNCHANGED <<param, env, initDone>>,
           \A k \in Keys, u \in Users \ {frame[t].user} : stored'[k][u] = stored[k][u],
           frame'[t].op = "none" =>
               \A k \in Keys :
                   /\ frame[t].op = "AddUser" => stored'[k][frame[t].user] # None
                   /\ frame[t].op = "RemoveUser" => stored'[k][frame[t].user] = None
    PROVE  AllSaved' /\ Mirrored'
<1> DEFINE f == frame[t]
<1>1. \A s \in Threads : s = t
  BY CalmNow
<1>2. ASSUME NEW k \in Keys, NEW u \in Users
      PROVE  /\ u \in accounts /\ (u = foreground => initDone) /\ ~Awaits("added", "AddUser", u)'
                   => stored'[k][u] # None
             /\ u \notin accounts /\ ~Awaits("removed", "RemoveUser", u)' => stored'[k][u] = None
  <2>1. CASE u # f.user
    <3>1. Awaits("added", "AddUser", u)' = Awaits("added", "AddUser", u)
          /\ Awaits("removed", "RemoveUser", u)' = Awaits("removed", "RemoveUser", u)
      BY <1>1, <2>1 DEF Awaits, Announced, Serves, env
    <3> QED BY <2>1, <3>1 DEF CalmInv, AllSaved
  <2>2. CASE u = f.user
    <3>1. frame'[t].op = f.op => /\ f.op = "AddUser" => Awaits("added", "AddUser", u)'
                                 /\ f.op = "RemoveUser" => Awaits("removed", "RemoveUser", u)'
      BY <2>2 DEF Awaits, Serves, KeepsAccounts
    <3>2. /\ f.op = "AddUser" => u \in accounts
          /\ f.op = "RemoveUser" => u \notin accounts
          /\ f.op = "InitMultiUser" => u \in accounts /\ u = foreground /\ ~initDone
      BY <2>2, SaverNow
    <3> QED BY <2>2, <3>1, <3>2 DEF KeepsAccounts
  <2> QED BY <2>1, <2>2
<1>3. AllSaved'
  BY <1>2 DEF AllSaved, env
<1>4. Mirrored'
  <2>1. param["hour"] # None
    BY SaverNow
  <2>2. CASE f.op = "InitMultiUser"
    BY <2>1, <2>2, SaverNow DEF Mirrored, env
  <2>3. CASE f.op # "InitMultiUser"
    <3>1. f.user # foreground /\ foreground \in Users
      BY <2>3, SaverNow DEF KeepsAccounts
    <3>2. initDone => \A k \in Keys : param[k] = stored'[k][foreground]
      BY <2>3, <3>1, SaverNow
    <3> QED BY <2>1, <3>2 DEF Mirrored, env
  <2> QED BY <2>2, <2>3
<1> QED BY <1>3, <1>4

LEMMA AccountSaveCalm ==
    ASSUME CalmInv, Calm, NEW t \in Threads, frame[t].op \in KeepsAccounts,
           SaveLoad(t) \/ SaveStore(t)
    PROVE  CalmRest'
<1> DEFINE f == frame[t]
<1>1. /\ Exchange(pc[t], f) /\ MemOK /\ OneThread /\ f \in Frame /\ f.key \in Keys
      /\ \A s \in Threads : s = t
  BY CalmNow
<1>2. CASE SaveLoad(t)
  <2>1. PICK snap : /\ pc[t] = "save_load" /\ Goto(t, "save_store")
                    /\ Keep(t, [f EXCEPT !.snap = snap])
    BY <1>2 DEF SaveLoad
  <2>2. pc'[t] = "save_store" /\ frame'[t] = [f EXCEPT !.snap = snap]
    BY <1>1, <2>1, OnlyThread
  <2>3. frame'[t].op = f.op /\ frame'[t].user = f.user /\ frame'[t].key = f.key
        /\ frame'[t].want = f.want
    BY <1>1, <2>2 DEF Frame
  <2>4. UNCHANGED <<param, stored, initDone, told, env>>
    BY <1>2 DEF SaveLoad
  <2>5. Exchanges'
    <3>1. pc[t] = "save_load" /\ pc'[t] = "save_store"
      BY <2>1, <2>2
    <3>2. Exchange(pc[t], frame[t])'
      BY <1>1, <2>3, <2>4, <3>1 DEF Exchange, KeysRead, KeysSaved, KeepsAccounts, env
    <3> QED BY <1>1, <3>2 DEF Exchanges
  <2>6. AllSaved' /\ Mirrored'
    BY <2>3, <2>4, SaverKeeps DEF KeepsAccounts
  <2>7. WayBack' /\ Replacing' /\ ToldInTime'
    BY <2>2, <2>3, <2>4, OthersUndisturbed
  <2> QED BY <2>5, <2>6, <2>7 DEF CalmRest
<1>3. CASE SaveStore(t)
  <2>1. /\ pc[t] = "save_store" /\ AfterSave(t, TRUE)
        /\ UNCHANGED <<param, initDone, told, service, env, faults>>
        /\ \A k \in Keys, u \in Users :
              stored'[k][u] = IF k = f.key /\ u = f.user
                              THEN IF f.op = "RemoveUser" THEN None ELSE f.want[k]
                              ELSE stored[k][u]
    BY <1>3, EntryStored
  <2>2. f.user \in Users
    BY SaverNow
  <2>3. /\ f.op \in {"AddUser", "InitMultiUser"} =>
              /\ \A k \in Keys : f.want[k] = param[k]
              /\ \A k \in SavedBefore(f.key) \cup {f.key} : stored'[k][f.user] = param[k]
        /\ f.op = "RemoveUser" =>
              \A k \in SavedBefore(f.key) \cup {f.key} : stored'[k][f.user] = None
    BY <1>1, <2>1, <2>2 DEF Exchange, KeysRead, KeysSaved, SavedBefore, Keys
  <2>4. AfterSave(t, TRUE) /\ f.op \in KeepsAccounts
    BY <2>1
  <2>5. \/ f.key = "hour" /\ f.op = "InitMultiUser" /\ Goto(t, "init_mark") /\ UNCHANGED frame
        \/ f.key = "hour" /\ f.op # "InitMultiUser" /\ Return(t)
        \/ /\ f.key # "hour" /\ Goto(t, "save_load")
           /\ Keep(t, [f EXCEPT !.key = NextKey(@), !.snap = NoMap])
    BY ONLY <2>4 DEF AfterSave, KeepsAccounts, AllOperations
  <2>6. \/ /\ f.key = "hour" /\ f.op = "InitMultiUser"
           /\ pc'[t] = "init_mark" /\ frame'[t] = f
        \/ /\ f.key = "hour" /\ f.op # "InitMultiUser"
           /\ pc'[t] = "idle" /\ frame'[t].op = "none"
        \/ /\ f.key # "hour" /\ pc'[t] = "save_load"
           /\ frame'[t].op = f.op /\ frame'[t].user = f.user /\ frame'[t].want = f.want
           /\ frame'[t].key = NextKey(f.key)
    <3>1. CASE f.key = "hour" /\ f.op = "InitMultiUser" /\ Goto(t, "init_mark") /\ UNCHANGED frame
      BY <1>1, <3>1, OnlyThreadStays
    <3>2. CASE f.key = "hour" /\ f.op # "InitMultiUser" /\ Return(t)
      BY <1>1, <3>2, OnlyThread DEF Return, NoFrame
    <3>3. CASE /\ f.key # "hour" /\ Goto(t, "save_load")
               /\ Keep(t, [f EXCEPT !.key = NextKey(@), !.snap = NoMap])
      <4>1. pc'[t] = "save_load" /\ frame'[t] = [f EXCEPT !.key = NextKey(@), !.snap = NoMap]
        BY <1>1, <3>3, OnlyThread
      <4> QED BY <1>1, <3>3, <4>1 DEF Frame
    <3> QED BY <2>5, <3>1, <3>2, <3>3
  <2>7. SavedBefore("hour") \cup {"hour"} = Keys
        /\ (f.key # "hour" => SavedBefore(NextKey(f.key)) = SavedBefore(f.key) \cup {f.key})
    BY <1>1 DEF SavedBefore, NextKey, Keys
  <2>8. Exchanges'
    <3>1. Exchange(pc[t], frame[t])'
      BY <2>1, <2>3, <2>6, <2>7 DEF Exchange, KeysRead, KeysSaved, KeepsAccounts, env
    <3> QED BY <1>1, <3>1 DEF Exchanges
  <2>9. AllSaved' /\ Mirrored'
    <3>1. frame'[t].op = "none" =>
              \A k \in Keys : /\ f.op = "AddUser" => stored'[k][f.user] # None
                              /\ f.op = "RemoveUser" => stored'[k][f.user] = None
      BY <2>3, <2>6, <2>7, SaverNow DEF KeepsAccounts
    <3>2. \A k \in Keys, u \in Users \ {f.user} : stored'[k][u] = stored[k][u]
      BY <2>1
    <3> QED BY <2>1, <2>6, <3>1, <3>2, SaverKeeps
  <2>10. WayBack' /\ Replacing' /\ ToldInTime'
    BY <2>1, <2>6, OthersUndisturbed
  <2> QED BY <2>8, <2>9, <2>10 DEF CalmRest
<1> QED BY <1>2, <1>3

\* The end of the first start.
LEMMA MarkCalm ==
    ASSUME CalmInv, Calm, NEW t \in Threads, InitMark(t)
    PROVE  CalmRest'
<1> DEFINE f == frame[t]
<1>1. /\ pc[t] = "init_mark" /\ initDone' = TRUE /\ Return(t)
      /\ UNCHANGED <<param, stored, told, env>>
  BY FewFaults DEF InitMark
<1>2. /\ ProgressOf(pc[t], f, param) /\ Exchange(pc[t], f) /\ MemOK /\ OneThread
      /\ \A s \in Threads : s = t
  BY CalmNow
<1>3. f.op = "InitMultiUser"
  BY <1>1, <1>2 DEF ProgressOf, Place, LocaleLabels, Saving
<1>4. pc'[t] = "idle" /\ frame'[t].op = "none"
  BY <1>1, <1>2, OnlyThread DEF Return, NoFrame
<1>5. f.user = foreground /\ \A k \in Keys : stored[k][foreground] = param[k] /\ param[k] # None
  BY <1>1, <1>2, <1>3, SaverNow DEF Exchange, KeysSaved, KeepsAccounts
<1>6. Exchanges'
  BY <1>2, <1>4 DEF Exchanges, Exchange
<1>7. AllSaved'
  <2>1. ASSUME NEW type \in {"added", "removed"}, NEW op \in {"AddUser", "RemoveUser"}, NEW u
        PROVE  Awaits(type, op, u)' = Awaits(type, op, u)
    BY <1>1, <1>2, <1>3, <1>4 DEF Awaits, Announced, Serves, env
  <2> QED BY <1>1, <1>5, <2>1 DEF CalmInv, AllSaved, env
<1>8. Mirrored'
  BY <1>1, <1>5 DEF Mirrored, env, Keys
<1>9. WayBack' /\ Replacing' /\ ToldInTime'
  BY <1>1, <1>3, <1>4, OthersUndisturbed DEF KeepsAccounts
<1> QED BY <1>6, <1>7, <1>8, <1>9 DEF CalmRest

-----------------------------------------------------------------------------
(* An account switch, in a calm service. *)

LEMMA SwitchNow ==
    ASSUME CalmInv, Calm, NEW t \in Threads, frame[t].op = "SwitchUser"
    PROVE  /\ frame[t].user = foreground /\ foreground \in Users /\ initDone /\ events = << >>
           /\ param["hour"] # None /\ \A k \in Keys : stored[k][foreground] # None
<1>1. /\ frame[t].user = foreground /\ initDone /\ events = << >>
      /\ foreground \in Users /\ foreground \in accounts
  BY CalmNow DEF ServesWhom, CalmInv, IInv, EnvOK
<1>2. ~Awaits("added", "AddUser", foreground)
  BY <1>1, CalmNow DEF Awaits, Announced, Serves
<1> QED BY <1>1, <1>2 DEF CalmInv, AllSaved, Mirrored

\* As long as the switch goes on, nothing is to be shown but how far it has come.
LEMMA SwitchMoves ==
    ASSUME CalmInv, Calm, NEW t \in Threads, frame[t].op = "SwitchUser",
           frame'[t].op = "SwitchUser", frame'[t].user = foreground,
           pc'[t] \notin {"loc_was", "loc_set"},
           UNCHANGED <<stored, env, initDone>>, param'["hour"] # None,
           Exchange(pc[t], frame[t])', pc'[t] = "sw_event" => Shown'
    PROVE  CalmRest'
<1>1. \A s \in Threads : s = t
  BY CalmNow
<1>2. Exchanges' /\ WayBack' /\ Replacing'
  BY <1>1 DEF Exchanges, WayBack, Replacing, Replaces
<1>3. AllSaved'
  <2>1. ASSUME NEW type, NEW op \in {"AddUser", "RemoveUser"}, NEW u
        PROVE  Awaits(type, op, u)' = Awaits(type, op, u)
    BY <1>1 DEF Awaits, Announced, Serves, env
  <2> QED BY <2>1 DEF CalmInv, AllSaved, env
<1>4. Awaits("switched", "SwitchUser", foreground)'
  BY DEF Awaits, Serves, env
<1>5. Mirrored'
  BY <1>4 DEF Mirrored
<1>6. ToldInTime'
  BY <1>1
  DEF ToldInTime, Telling, LocaleUntold, HourUntold, SwitchUntold, LocaleSetters
<1> QED BY <1>2, <1>3, <1>5, <1>6 DEF CalmRest

LEMMA SwitchCalm ==
    ASSUME CalmInv, Calm, NEW t \in Threads,
           SwitchRead(t) \/ SwitchSet(t) \/ SwitchTell(t) \/ SwitchEvent(t)
    PROVE  CalmRest'
<1> DEFINE f == frame[t]
<1>1. /\ ProgressOf(pc[t], f, param) /\ Exchange(pc[t], f) /\ MemOK /\ OneThread
      /\ f \in Frame /\ f.key \in Keys /\ f.want \in [Keys -> Value]
      /\ param \in [Keys -> Value] /\ \A s \in Threads : s = t
  BY CalmNow DEF CalmInv, IInv, ParamOK
<1>2. f.op = "SwitchUser"
  <2>1. pc[t] \in {"sw_read", "sw_set", "sw_tell", "sw_event"}
    BY DEF SwitchRead, SwitchSet, SwitchTell, SwitchEvent
  <2> QED BY <1>1, <2>1 DEF ProgressOf, Place, LocaleLabels, Saving
<1>3. /\ f.user = foreground /\ foreground \in Users /\ initDone /\ events = << >>
      /\ param["hour"] # None /\ \A k \in Keys : stored[k][foreground] # None
  BY <1>2, SwitchNow
<1>4. /\ \A k \in KeysLoaded(pc[t], f) :
            param[k] = stored[k][foreground] /\ f.want[k] = stored[k][foreground]
      /\ pc[t] = "sw_set" => f.want[f.key] = stored[f.key][foreground]
  BY <1>1, <1>2 DEF Exchange
<1>5. CASE SwitchRead(t)
  <2>1. PICK ok \in BOOLEAN :
            /\ OpenPreferences(ok)
            /\ Keep(t, [f EXCEPT !.want[f.key] = ReadStored(ok, f.key, f.user)])
    BY <1>5 DEF SwitchRead
  <2>2. ok = TRUE
    BY <2>1, FewFaults
  <2>3. pc[t] = "sw_read" /\ Goto(t, "sw_set") /\ UNCHANGED <<param, stored, initDone, told, env>>
    BY <1>5 DEF SwitchRead
  <2> DEFINE v == stored[f.key][foreground]
  <2>4. Keep(t, [f EXCEPT !.want[f.key] = v])
    BY <1>3, <2>1, <2>2 DEF ReadStored
  <2> HIDE DEF v
  <2>5. pc'[t] = "sw_set" /\ frame'[t] = [f EXCEPT !.want[f.key] = v]
    BY <1>1, <2>3, <2>4, OnlyThread
  <2>6. frame'[t].op = f.op /\ frame'[t].user = f.user /\ frame'[t].key = f.key
        /\ frame'[t].want = [f.want EXCEPT ![f.key] = v]
    BY <1>1, <2>5 DEF Frame
  <2>7. \A k \in LoadedBefore(f.key) : k \in Keys /\ k # f.key
    BY <1>1 DEF LoadedBefore, Keys
  <2>8. Exchange(pc[t], frame[t])'
    <3>1. KeysLoaded("sw_set", frame'[t]) = LoadedBefore(f.key)
          /\ KeysLoaded(pc[t], f) = LoadedBefore(f.key)
      BY <2>3, <2>6 DEF KeysLoaded
    <3>2. pc'[t] = "sw_set"
      BY <2>5
    <3>3. \A k \in LoadedBefore(f.key) :
              param[k] = stored[k][foreground] /\ frame'[t].want[k] = stored[k][foreground]
      BY <1>1, <1>4, <2>6, <2>7, <3>1
    <3>4. frame'[t].want[f.key] = stored[f.key][foreground]
      BY <1>1, <2>6 DEF v
    <3> QED BY <1>2, <2>3, <2>6, <3>1, <3>2, <3>3, <3>4 DEF Exchange, env
  <2> QED BY <1>2, <1>3, <2>3, <2>5, <2>6, <2>8, SwitchMoves
<1>6. CASE SwitchSet(t)
  <2>1. pc[t] = "sw_set" /\ UNCHANGED <<stored, initDone, told, env>>
    BY <1>6 DEF SwitchSet
  <2>2. f.want[f.key] # None /\ f.want[f.key] = stored[f.key][foreground]
    BY <1>1, <1>3, <1>4, <2>1
  <2>3. param' = [param EXCEPT ![f.key] = f.want[f.key]] /\ SwitchGoOn(t)
    BY <1>6, <2>2, FewFaults DEF SwitchSet, SetParameter
  <2>4. \A k \in LoadedBefore(f.key) \cup {f.key} :
            param'[k] = stored[k][foreground] /\ f.want[k] = stored[k][foreground]
    <3>1. KeysLoaded(pc[t], f) = LoadedBefore(f.key) /\ LoadedBefore(f.key) \subseteq Keys
      BY <1>1, <2>1 DEF KeysLoaded, LoadedBefore, Keys
    <3> QED BY <1>1, <1>4, <2>2, <2>3, <3>1
  <2>5. param'["hour"] # None
    BY <1>1, <1>3, <2>2, <2>3
  <2>6. CASE f.key = "hour" /\ Goto(t, "sw_tell") /\ UNCHANGED frame
    <3>1. pc'[t] = "sw_tell" /\ frame'[t] = f
      BY <1>1, <2>6, OnlyThreadStays
    <3>2. KeysLoaded("sw_tell", f) = LoadedBefore(f.key) \cup {f.key}
      BY <2>6 DEF KeysLoaded, LoadedBefore, Keys
    <3>3. Exchange(pc[t], frame[t])'
      BY <1>2, <2>1, <2>4, <3>1, <3>2 DEF Exchange, env
    <3> QED BY <1>2, <1>3, <2>1, <2>5, <3>1, <3>3, SwitchMoves
  <2>7. CASE f.key # "hour" /\ Goto(t, "sw_read") /\ Keep(t, [f EXCEPT !.key = NextSwitchKey(@)])
    <3>1. pc'[t] = "sw_read" /\ frame'[t] = [f EXCEPT !.key = NextSwitchKey(@)]
      BY <1>1, <2>7, OnlyThread
    <3>2. frame'[t].op = f.op /\ frame'[t].user = f.user /\ frame'[t].want = f.want
          /\ frame'[t].key = NextSwitchKey(f.key)
      BY <1>1, <3>1 DEF Frame
    <3>3. KeysLoaded("sw_read", frame'[t]) = LoadedBefore(f.key) \cup {f.key}
      BY <1>1, <2>7, <3>2 DEF KeysLoaded, LoadedBefore, NextSwitchKey, Keys
    <3>4. pc'[t] = "sw_read"
      BY <3>1
    <3>5. Exchange(pc[t], frame[t])'
      BY <1>2, <2>1, <2>4, <3>2, <3>3, <3>4 DEF Exchange, env
    <3> QED BY <1>2, <1>3, <2>1, <2>5, <3>2, <3>4, <3>5, SwitchMoves
  <2> QED BY <2>3, <2>6, <2>7 DEF SwitchGoOn
<1>7. CASE SwitchTell(t)
  <2>1. /\ pc[t] = "sw_tell" /\ Goto(t, "sw_event")
        /\ UNCHANGED <<param, stored, frame, env, initDone>>
    BY <1>7 DEF SwitchTell
  <2>2. pc'[t] = "sw_event" /\ frame'[t] = f
    BY <1>1, <2>1, OnlyThreadStays
  <2>3. \A k \in Keys : param[k] = f.want[k] /\ f.want[k] # None
    BY <1>3, <1>4, <2>1 DEF KeysLoaded
  <2>4. told' = [told EXCEPT ![foreground] =
                    [locale |-> IF f.want["locale"] = None THEN @.locale ELSE f.want["locale"],
                     hour |-> IF f.want["hour"] = None THEN @.hour ELSE f.want["hour"]]]
    BY <1>3, <1>7, FewFaults DEF SwitchTell, Tell
  <2>5. told'[foreground].locale = param["locale"] /\ told'[foreground].hour = param["hour"]
    BY <1>3, <2>3, <2>4 DEF CalmInv, IInv, ToldOK, Keys
  <2>6. Shown'
    BY <2>1, <2>5 DEF Shown, ShownClock, HourFits, Is24HourClock, Clock, env
  <2>7. Exchange(pc[t], frame[t])'
    BY <1>2, <1>4, <2>1, <2>2 DEF Exchange, KeysLoaded, env
  <2> QED BY <1>2, <1>3, <2>1, <2>2, <2>6, <2>7, SwitchMoves
<1>8. CASE SwitchEvent(t)
  <2>1. /\ pc[t] = "sw_event" /\ Return(t)
        /\ UNCHANGED <<param, stored, told, env, initDone>>
    BY <1>8 DEF SwitchEvent
  <2>2. pc'[t] = "idle" /\ frame'[t].op = "none"
    BY <1>1, <2>1, OnlyThread DEF Return, NoFrame
  <2>3. \A k \in Keys : param[k] = stored[k][foreground]
    BY <1>4, <2>1 DEF KeysLoaded
  <2>4. Shown
    BY <1>1, <1>2, <1>3, <2>1
    DEF CalmInv, ToldInTime, LocaleUntold, HourUntold, SwitchUntold, LocaleSetters, Announced
  <2>5. Shown'
    BY <2>1, <2>4 DEF Shown, ShownClock, HourFits, Is24HourClock, env
  <2>6. Exchanges' /\ WayBack' /\ Replacing'
    BY <1>1, <2>2 DEF Exchanges, Exchange, WayBack, Replacing, Replaces
  <2>7. AllSaved'
    <3>1. ASSUME NEW type, NEW op \in {"AddUser", "RemoveUser"}, NEW u
          PROVE  Awaits(type, op, u)' = Awaits(type, op, u)
      BY <1>1, <1>2, <2>1, <2>2 DEF Awaits, Announced, Serves, env
    <3> QED BY <2>1, <3>1 DEF CalmInv, AllSaved, env
  <2>8. Mirrored'
    BY <1>3, <2>1, <2>3 DEF Mirrored, env
  <2>9. ToldInTime'
    BY <1>1, <2>2, <2>5
    DEF ToldInTime, Telling, LocaleUntold, HourUntold, LocaleSetters
  <2> QED BY <2>6, <2>7, <2>8, <2>9 DEF CalmRest
<1> QED BY <1>5, <1>6, <1>7, <1>8

-----------------------------------------------------------------------------
(* What begins while the threads rest. *)

LEMMA IdleNow ==
    ASSUME CalmInv, Calm, AllIdle
    PROVE  /\ \A s \in Threads : frame[s] = NoFrame /\ frame[s].op = "none"
           /\ \A type, op, u : op # "none" => (Awaits(type, op, u) <=> Announced(type, u))
           /\ Shown \/ Announced("switched", foreground)
           /\ param["hour"] # None
           /\ initDone /\ ~Announced("switched", foreground) =>
                  \A k \in Keys : param[k] = stored[k][foreground]
<1>1. \A s \in Threads : frame[s] = NoFrame /\ frame[s].op = "none"
  BY DEF AllIdle, CalmInv, IInv, MemOK, ThreadOK, NoFrame
<1>2. \A type, op, u : op # "none" => (Awaits(type, op, u) <=> Announced(type, u))
  BY <1>1 DEF Awaits, Serves
<1>3. Shown \/ Announced("switched", foreground)
  BY <1>1 DEF CalmInv, ToldInTime, LocaleUntold, HourUntold, SwitchUntold, LocaleSetters
<1>4. \A k : \A s \in Threads : ~Unsaved(pc[s], frame[s], k)
  BY <1>1 DEF Unsaved, AllOperations
<1> QED BY <1>1, <1>2, <1>3, <1>4 DEF CalmInv, Mirrored

LEMMA StaysIdle ==
    ASSUME CalmInv, Calm, AllIdle,
           UNCHANGED mem \/ \A s \in Threads : pc'[s] = "idle" /\ frame'[s] = NoFrame
    PROVE  /\ \A s \in Threads : frame'[s].op = "none"
           /\ Exchanges' /\ WayBack' /\ Replacing' /\ ((\A t \in Threads : Telling(pc[t], frame[t]))')
<1>1. \A s \in Threads : frame'[s].op = "none" /\ pc'[s] = "idle"
  BY IdleNow DEF mem, NoFrame, AllIdle
<1>2. Exchanges' /\ WayBack' /\ Replacing'
  BY <1>1 DEF Exchanges, Exchange, WayBack, Replacing, Replaces
<1>3. (\A t \in Threads : Telling(pc[t], frame[t]))'
  BY <1>1 DEF Telling, LocaleUntold, HourUntold, LocaleSetters
<1> QED BY <1>1, <1>2, <1>3

\* A call begins.
LEMMA CallCalm ==
    ASSUME CalmInv, Calm, NEW t \in Threads, Call(t)
    PROVE  CalmRest'
<1>1. /\ pc[t] = "idle" /\ service = "up" /\ events = << >>
      /\ UNCHANGED <<param, stored, initDone, told, service, env, faults>>
  BY CallBegun
<1>2. /\ MemOK /\ OneThread /\ \A s \in Threads : s = t
      /\ param["locale"] \in Locale /\ initDone
      /\ foreground \in accounts /\ foreground \in Users
  BY <1>1, CalmNow DEF CalmInv, IInv, ParamOK, EnvOK, Order
<1>3. AllIdle /\ frame[t].op = "none"
  BY <1>1, <1>2, IdleNow DEF AllIdle
<1>4. Shown /\ param["hour"] # None /\ \A k \in Keys : param[k] = stored[k][foreground]
  BY <1>1, <1>2, <1>3, IdleNow DEF Announced
<1>5. Shown'
  BY <1>1, <1>4 DEF Shown, ShownClock, HourFits, Is24HourClock, env
<1>6. ASSUME NEW label \in {"lang_set", "loc_was", "hour_set"}, NEW op, NEW f,
             Begins(t, op, label, f), op \in AllOperations,
             label = "hour_set" <=> op = "Set24HourClock",
             label = "lang_set" <=> op = "SetSystemLanguage",
             op = "SetSystemLanguage" => f.old = param["language"],
             Replaces(label, f)
      PROVE  CalmRest'
  <2>1. pc'[t] = label /\ frame'[t] = f /\ f.op = op
    BY <1>2, <1>6, OnlyThread DEF Begins
  <2>2. (\A l : UpdateLanguageOfLocale(l)' = UpdateLanguageOfLocale(l))
        /\ (\A r : UpdateRegionOfLocale(r)' = UpdateRegionOfLocale(r))
    BY <1>1 DEF UpdateLanguageOfLocale, UpdateRegionOfLocale
  <2>3. Replaces(pc[t], frame[t])'
    BY <1>1, <1>6, <2>1, <2>2 DEF Replaces
  <2>4. Telling(pc[t], frame[t])'
    BY <1>6, <2>1 DEF Telling, LocaleUntold, HourUntold, Saving, LocaleSetters
  <2>5. param'["hour"] # None /\ foreground' = foreground
        /\ \A k \in Keys : param'[k] = stored'[k][foreground']
    BY <1>1, <1>4 DEF env
  <2>6. frame'[t].op = "SetSystemLanguage" =>
            frame'[t].old = stored'["language"][foreground'] /\ pc'[t] # "lang_undo"
    BY <1>4, <1>6, <2>1, <2>5, <1>1 DEF Keys
  <2>7. SetterInv(t)'
    BY <1>5, <2>3, <2>4, <2>5, <2>6 DEF SetterInv
  <2> QED BY <1>1, <1>3, <1>6, <2>1, <2>7, SetterMoves
<1>7. PICK f :
        \/ /\ Begins(t, "SetSystemLanguage", "lang_set", f)
           /\ f.old = param["language"]
        \/ /\ Begins(t, "SetSystemRegion", "loc_was", f)
           /\ \E r \in Regions : f.want["locale"] = UpdateRegionOfLocale(r)
        \/ /\ Begins(t, "SetSystemLocale", "loc_was", f)
           /\ \E l \in Languages, r \in Regions :
                 f.want["locale"] = [lang |-> l, region |-> r, ext |-> NoExt]
        \/ /\ Begins(t, "SetExtParam", "loc_was", f)
           /\ \E k \in ExtKeys, v \in ExtValues :
                 LET locale == Fallback(stored["locale"][foreground], "locale")
                 IN  /\ LanguageSupports(
                           Fallback(stored["language"][foreground], "language"), k, v)
                     /\ RegionSupports(locale, k, v)
                     /\ f.want["locale"] = ModifyExtParam(locale, k, v)
        \/ /\ Begins(t, "SetUsingLocalDigit", "loc_was", f)
           /\ \E v \in {None, LocalDigit[param["locale"].lang]} :
                 /\ LocalDigit[param["locale"].lang] # None
                 /\ f.want["locale"] = ModifyExtParam(param["locale"], NumberKey, v)
        \/ Begins(t, "Set24HourClock", "hour_set", f)
  BY CallBegun
<1>8. CASE Begins(t, "SetSystemLanguage", "lang_set", f) /\ f.old = param["language"]
  BY <1>6, <1>8 DEF Replaces, AllOperations
<1>9. CASE /\ Begins(t, "SetSystemRegion", "loc_was", f)
           /\ \E r \in Regions : f.want["locale"] = UpdateRegionOfLocale(r)
  <2>1. Replaces("loc_was", f)
    BY <1>9 DEF Replaces, Begins
  <2> QED BY <1>6, <1>9, <2>1 DEF AllOperations
<1>10. CASE /\ Begins(t, "SetSystemLocale", "loc_was", f)
            /\ \E l \in Languages, r \in Regions :
                  f.want["locale"] = [lang |-> l, region |-> r, ext |-> NoExt]
  <2>1. Replaces("loc_was", f)
    BY <1>10 DEF Replaces, Begins
  <2> QED BY <1>6, <1>10, <2>1 DEF AllOperations
<1>11. CASE /\ Begins(t, "SetExtParam", "loc_was", f)
            /\ \E k \in ExtKeys, v \in ExtValues :
                  f.want["locale"]
                    = ModifyExtParam(Fallback(stored["locale"][foreground], "locale"), k, v)
  <2>1. Fallback(stored["locale"][foreground], "locale") = param["locale"]
    BY <1>4 DEF Fallback, Keys
  <2>2. Replaces("loc_was", f)
    BY <1>11, <2>1 DEF Replaces, Begins
  <2> QED BY <1>6, <1>11, <2>2 DEF AllOperations
<1>12. CASE /\ Begins(t, "SetUsingLocalDigit", "loc_was", f)
            /\ \E v \in {None, LocalDigit[param["locale"].lang]} :
                  f.want["locale"] = ModifyExtParam(param["locale"], NumberKey, v)
  <2>1. LocalDigit[param["locale"].lang] \in ExtValues \cup {None}
    BY <1>2, ConstantsAssumption DEF Locale
  <2>2. Replaces("loc_was", f)
    BY <1>12, <2>1, ConstantsAssumption DEF Replaces, Begins
  <2> QED BY <1>6, <1>12, <2>2 DEF AllOperations
<1>13. CASE Begins(t, "Set24HourClock", "hour_set", f)
  BY <1>6, <1>13 DEF Replaces, AllOperations
<1> QED BY <1>7, <1>8, <1>9, <1>10, <1>11, <1>12, <1>13

\* The account event that has waited is being handled.
LEMMA HandleCalm ==
    ASSUME CalmInv, Calm, NEW t \in Threads, HandleEvent(t)
    PROVE  /\ CalmRest' /\ events' = << >>
           /\ \E type, op, u :
                 /\ events = <<[type |-> type, user |-> u]>>
                 /\ frame'[t].op = op /\ frame'[t].user = u
                 /\ <<type, op>> \in {<<"switched", "SwitchUser">>, <<"added", "AddUser">>,
                                      <<"removed", "RemoveUser">>}
           /\ \A w : /\ Awaits("switched", "SwitchUser", w)' <=> Awaits("switched", "SwitchUser", w)
                     /\ Awaits("added", "AddUser", w)' <=> Awaits("added", "AddUser", w)
<1>1. /\ MemOK /\ OneThread /\ \A s \in Threads : s = t
      /\ pc[t] = "idle" /\ events # << >> /\ events' = Tail(events)
      /\ UNCHANGED <<param, stored, initDone, told, service, accounts, foreground, faults>>
  BY CalmNow DEF HandleEvent
<1>2. AllIdle /\ frame[t].op = "none"
  BY <1>1, IdleNow DEF AllIdle
<1>3. PICK type, u : type \in {"switched", "added", "removed"} /\ Announced(type, u)
                     /\ (type = "switched" => initDone /\ u = foreground)
  BY <1>1 DEF CalmInv, Order, EventsInOrder
<1>4. Head(events) = [type |-> type, user |-> u] /\ events' = << >>
  BY <1>1, <1>3 DEF Announced
<1> DEFINE op == IF type = "switched" THEN "SwitchUser"
                 ELSE IF type = "added" THEN "AddUser" ELSE "RemoveUser"
           label == IF type = "switched" THEN "sw_read"
                    ELSE IF type = "added" THEN "add_read" ELSE "save_load"
           key == IF type = "switched" THEN "locale" ELSE "language"
<1>5. PICK f : Goto(t, label) /\ Keep(t, f) /\ f.op = op /\ f.user = u /\ f.key = key
  <2>1. CASE type = "switched"
    <3> DEFINE g == [[NoFrame EXCEPT !.user = u] EXCEPT !.op = "SwitchUser", !.key = "locale"]
    <3>0. Head(events).type = "switched" /\ Head(events).user = u
      BY <1>4, <2>1
    <3>1. Goto(t, "sw_read") /\ Keep(t, g)
      BY <3>0 DEF HandleEvent, NoFrame
    <3>2. g.op = "SwitchUser" /\ g.user = u /\ g.key = "locale"
      BY DEF NoFrame
    <3> HIDE DEF g
    <3> QED BY <2>1, <3>1, <3>2
  <2>2. CASE type = "added"
    <3> DEFINE g == [[NoFrame EXCEPT !.user = u] EXCEPT !.op = "AddUser"]
    <3>0. Head(events).type = "added" /\ Head(events).user = u
      BY <1>4, <2>2
    <3>1. Goto(t, "add_read") /\ Keep(t, g)
      BY <3>0 DEF HandleEvent, NoFrame
    <3>2. g.op = "AddUser" /\ g.user = u /\ g.key = "language"
      BY DEF NoFrame
    <3> HIDE DEF g
    <3> QED BY <2>2, <3>1, <3>2
  <2>3. CASE type = "removed"
    <3> DEFINE g == [[NoFrame EXCEPT !.user = u] EXCEPT !.op = "RemoveUser"]
    <3>0. Head(events).type = "removed" /\ Head(events).user = u
      BY <1>4, <2>3
    <3>1. Goto(t, "save_load") /\ Keep(t, g)
      BY <3>0 DEF HandleEvent, NoFrame
    <3>2. g.op = "RemoveUser" /\ g.user = u /\ g.key = "language"
      BY DEF NoFrame
    <3> HIDE DEF g
    <3> QED BY <2>3, <3>1, <3>2
  <2> QED BY <1>3, <2>1, <2>2, <2>3
<1>6. pc'[t] = label /\ frame'[t].op = op /\ frame'[t].user = u /\ frame'[t].key = key
  BY <1>1, <1>5, OnlyThread
<1>7. Exchange(pc[t], frame[t])'
  BY <1>3, <1>6 DEF Exchange, KeysRead, KeysSaved, KeysLoaded, SavedBefore, LoadedBefore
<1>8. Exchanges' /\ WayBack' /\ Replacing'
  BY <1>1, <1>3, <1>6, <1>7 DEF Exchanges, WayBack, Replacing, Replaces
<1>9. ASSUME NEW ty, NEW o, NEW w,
             <<ty, o>> \in {<<"switched", "SwitchUser">>, <<"added", "AddUser">>,
                            <<"removed", "RemoveUser">>}
      PROVE  Awaits(ty, o, w)' <=> Awaits(ty, o, w)
  <2>1. Awaits(ty, o, w) <=> ty = type /\ w = u
    <3>1. o # "none"
      BY <1>9
    <3>2. Awaits(ty, o, w) <=> events = <<[type |-> ty, user |-> w]>>
      BY <1>2, <3>1, IdleNow DEF Announced
    <3>3. Head(events) = [type |-> type, user |-> u] /\ events = <<Head(events)>>
      BY <1>3 DEF Announced
    <3>4. events = <<[type |-> ty, user |-> w]>> <=> Head(events) = [type |-> ty, user |-> w]
      BY <3>3
    <3> QED BY <3>2, <3>3, <3>4
  <2>2. Awaits(ty, o, w)' <=> o = op /\ w = u
    BY <1>1, <1>4, <1>6 DEF Awaits, Announced, Serves
  <2>3. ty = type <=> o = op
    BY <1>3, <1>9
  <2> QED BY <2>1, <2>2, <2>3
<1>10. AllSaved'
  BY <1>1, <1>9 DEF CalmInv, AllSaved
<1>11. Mirrored'
  <2>1. Awaits("switched", "SwitchUser", foreground)'
        <=> Awaits("switched", "SwitchUser", foreground)
    BY <1>1, <1>9
  <2>2. Awaits("switched", "SwitchUser", foreground) <=> Announced("switched", foreground)
    BY <1>2, IdleNow
  <2> QED BY <1>1, <1>2, <2>1, <2>2, IdleNow DEF Mirrored
<1>12. ToldInTime'
  <2>1. Telling(pc[t], frame[t])'
    BY <1>3, <1>6 DEF Telling, LocaleUntold, HourUntold, LocaleSetters
  <2>2. CASE type = "switched"
    <3>1. SwitchUntold(pc'[t], frame'[t])
      BY <1>6, <2>2 DEF SwitchUntold
    <3> QED BY <1>1, <2>1, <3>1 DEF ToldInTime
  <2>3. CASE type # "switched"
    <3>1. Shown
      BY <1>2, <1>3, <2>3, IdleNow DEF Announced
    <3>2. Shown'
      BY <1>1, <3>1 DEF Shown, ShownClock, HourFits, Is24HourClock
    <3> QED BY <1>1, <2>1, <3>2 DEF ToldInTime
  <2> QED BY <2>2, <2>3
<1>13. \A w : /\ Awaits("switched", "SwitchUser", w)' <=> Awaits("switched", "SwitchUser", w)
              /\ Awaits("added", "AddUser", w)' <=> Awaits("added", "AddUser", w)
  BY <1>9
<1> QED BY <1>3, <1>4, <1>6, <1>8, <1>10, <1>11, <1>12, <1>13 DEF CalmRest, Announced

\* The service starts, is unloaded, or saves the settings of the first account.
LEMMA ServiceCalm ==
    ASSUME CalmInv, Calm,
           Start \/ Unload \/ UNCHANGED vars \/ \E t \in Threads : InitMultiUser(t)
    PROVE  CalmRest'
<1>1. CASE (Start \/ UNCHANGED vars)
  <2>1. UNCHANGED <<param, stored, initDone, told, pc, frame, accounts, foreground, events, faults>>
    BY <1>1 DEF Start, vars, mem, env
  <2>2. Exchanges' /\ WayBack'
    BY <2>1 DEF CalmInv, Exchanges, Exchange, WayBack
  <2>3. \A type, op, u : Awaits(type, op, u)' <=> Awaits(type, op, u)
    BY <2>1 DEF Awaits, Announced, Serves
  <2>4. AllSaved' /\ Mirrored'
    BY <2>1, <2>3 DEF CalmInv, AllSaved, Mirrored
  <2>5. Replacing'
    <3>1. (\A l : UpdateLanguageOfLocale(l)' = UpdateLanguageOfLocale(l))
          /\ (\A r : UpdateRegionOfLocale(r)' = UpdateRegionOfLocale(r))
      BY <2>1 DEF UpdateLanguageOfLocale, UpdateRegionOfLocale
    <3>2. SUFFICES ASSUME NEW t \in Threads PROVE Replaces(pc[t], frame[t])'
      BY DEF Replacing
    <3>3. Replaces(pc[t], frame[t])
      BY DEF CalmInv, Replacing
    <3> QED BY <2>1, <3>1, <3>3 DEF Replaces
  <2>6. ToldInTime'
    BY <2>1
    DEF CalmInv, ToldInTime, Telling, Shown, ShownClock, HourFits, Is24HourClock, Announced
  <2> QED BY <2>2, <2>4, <2>5, <2>6 DEF CalmRest
<1>2. ASSUME AllIdle, UNCHANGED <<param, stored, initDone, told, env>>,
             UNCHANGED mem \/ \A s \in Threads : pc'[s] = "idle" /\ frame'[s] = NoFrame
      PROVE  CalmRest'
  <2>1. \A type, op, u : op # "none" => (Awaits(type, op, u)' <=> Awaits(type, op, u))
    <3>1. \A type, op, u : op # "none" => (Awaits(type, op, u)' <=> Announced(type, u)')
      BY <1>2, StaysIdle DEF Awaits, Serves
    <3> QED BY <1>2, <3>1, IdleNow DEF Announced, env
  <2>2. AllSaved'
    BY <1>2, <2>1 DEF CalmInv, AllSaved, env
  <2>3. Mirrored'
    BY <1>2, <2>1, IdleNow DEF Mirrored, env
  <2>4. Shown' = Shown /\ Announced("switched", foreground)' = Announced("switched", foreground)
    BY <1>2 DEF Shown, ShownClock, HourFits, Is24HourClock, Announced, env
  <2>5. ToldInTime'
    BY <1>2, <2>4, IdleNow, StaysIdle DEF ToldInTime
  <2> QED BY <1>2, <2>2, <2>3, <2>5, StaysIdle DEF CalmRest
<1>3. CASE Unload
  <2>1. /\ AllIdle /\ UNCHANGED <<param, stored, initDone, told, env>>
        /\ \A s \in Threads : pc'[s] = "idle" /\ frame'[s] = NoFrame
    BY <1>3 DEF Unload, ProcessEnds
  <2> QED BY <1>2, <2>1
<1>4. ASSUME NEW t \in Threads, InitMultiUser(t)
      PROVE  CalmRest'
  <2>1. /\ pc[t] = "idle" /\ MemOK /\ OneThread /\ \A s \in Threads : s = t
        /\ UNCHANGED <<param, stored, initDone, told, env>>
    BY <1>4, CalmNow DEF InitMultiUser
  <2>2. AllIdle
    BY <2>1 DEF AllIdle
  <2>3. CASE UNCHANGED mem
    BY <1>2, <2>1, <2>2, <2>3
  <2>4. CASE /\ ~initDone /\ Goto(t, "add_read")
             /\ Keep(t, [NoFrame EXCEPT !.op = "InitMultiUser", !.user = foreground])
    <3>1. pc'[t] = "add_read" /\ frame'[t].op = "InitMultiUser" /\ frame'[t].key = "language"
          /\ frame'[t].user = foreground
      <4>1. /\ pc'[t] = "add_read"
            /\ frame'[t] = [NoFrame EXCEPT !.op = "InitMultiUser", !.user = foreground]
        BY <2>1, <2>4, OnlyThread
      <4> QED BY <4>1 DEF NoFrame
    <3>2. Exchanges' /\ WayBack' /\ Replacing'
      BY <2>1, <3>1
      DEF Exchanges, Exchange, WayBack, Replacing, Replaces, KeysRead, KeysSaved, SavedBefore
    <3>3. \A type, u : \A op \in {"AddUser", "RemoveUser", "SwitchUser"} :
              Awaits(type, op, u)' <=> Awaits(type, op, u)
      <4>1. \A type, u : \A op \in {"AddUser", "RemoveUser", "SwitchUser"} :
                Awaits(type, op, u)' <=> Announced(type, u)'
        BY <2>1, <3>1 DEF Awaits, Serves
      <4>2. \A type, u : \A op \in {"AddUser", "RemoveUser", "SwitchUser"} :
                Awaits(type, op, u) <=> Announced(type, u)
        BY <2>2, IdleNow
      <4> QED BY <2>1, <4>1, <4>2 DEF Announced, env
    <3>4. AllSaved'
      BY <2>1, <3>3 DEF CalmInv, AllSaved, env
    <3>5. Mirrored'
      BY <2>1, <2>2, <2>4, IdleNow DEF Mirrored
    <3>6. Shown' = Shown /\ Announced("switched", foreground)' = Announced("switched", foreground)
      BY <2>1 DEF Shown, ShownClock, HourFits, Is24HourClock, Announced, env
    <3>7. Telling(pc[t], frame[t])'
      BY <3>1 DEF Telling, LocaleUntold, HourUntold, LocaleSetters
    <3>8. ToldInTime'
      BY <2>1, <2>2, <3>6, <3>7, IdleNow DEF ToldInTime
    <3> QED BY <3>2, <3>4, <3>5, <3>8 DEF CalmRest
  <2> QED BY <1>4, <2>3, <2>4, FewFaults DEF InitMultiUser
<1> QED BY <1>1, <1>3, <1>4

\* An account comes, goes or takes the foreground: the event says so.
LEMMA AccountCalm ==
    ASSUME CalmInv, Calm, Account
    PROVE  /\ CalmRest' /\ Settled
           /\ \E u \in Users : \/ /\ u \notin accounts /\ accounts' = accounts \cup {u}
                                  /\ UNCHANGED foreground /\ Announced("added", u)'
                               \/ /\ u \in accounts \ {foreground} /\ foreground' = u
                                  /\ UNCHANGED accounts /\ Announced("switched", u)'
                               \/ /\ u \in accounts \ {foreground} /\ accounts' = accounts \ {u}
                                  /\ UNCHANGED foreground /\ Announced("removed", u)'
<1>1. PICK u \in Users : AccountAdded(u) \/ AccountSwitched(u) \/ AccountRemoved(u)
  BY DEF Account
<1>2. /\ Settled /\ UNCHANGED <<param, stored, initDone, told, service, mem>>
  BY <1>1 DEF AccountAdded, AccountSwitched, AccountRemoved, Announce, Calm
<1>3. \/ /\ u \notin accounts /\ accounts' = accounts \cup {u}
         /\ UNCHANGED foreground /\ Announced("added", u)'
      \/ /\ u \in accounts \ {foreground} /\ foreground' = u
         /\ UNCHANGED accounts /\ Announced("switched", u)'
      \/ /\ u \in accounts \ {foreground} /\ accounts' = accounts \ {u}
         /\ UNCHANGED foreground /\ Announced("removed", u)'
  BY <1>1, <1>2 DEF AccountAdded, AccountSwitched, AccountRemoved, Announce, Announced, Settled
<1>4. AllIdle /\ events = << >> /\ service # "starting"
  BY <1>2 DEF Settled
<1>5. Exchanges' /\ WayBack' /\ Replacing' /\ ((\A t \in Threads : Telling(pc[t], frame[t]))')
  BY <1>2, <1>4, StaysIdle
<1>6. \A type, w : \A op \in {"AddUser", "RemoveUser", "SwitchUser"} :
          /\ ~Awaits(type, op, w)
          /\ Awaits(type, op, w)' <=> Announced(type, w)'
  BY <1>2, <1>4, IdleNow, StaysIdle DEF Awaits, Announced, Serves
<1>7. foreground \in accounts /\ accounts \subseteq Users
  BY DEF CalmInv, IInv, EnvOK
<1>8. u \in accounts \ {foreground} => initDone
  BY <1>4, <1>7 DEF CalmInv, Order, IInv, FlagsOK
<1>9. \A k \in Keys, w \in Users :
          /\ w \in accounts /\ (w = foreground => initDone) => stored[k][w] # None
          /\ w \notin accounts => stored[k][w] = None
  BY <1>6 DEF CalmInv, AllSaved
<1>10. CASE /\ u \notin accounts /\ accounts' = accounts \cup {u}
            /\ UNCHANGED foreground /\ Announced("added", u)'
  <2>1. AllSaved'
    BY <1>2, <1>6, <1>9, <1>10 DEF AllSaved
  <2>2. Shown
    BY <1>4, IdleNow DEF Announced
  <2>3. Shown'
    BY <1>2, <1>10, <2>2 DEF Shown, ShownClock, HourFits, Is24HourClock
  <2>4. Mirrored' /\ ToldInTime'
    BY <1>2, <1>4, <1>5, <1>10, <2>3, IdleNow DEF Mirrored, ToldInTime, Announced
  <2> QED BY <1>2, <1>3, <1>5, <2>1, <2>4 DEF CalmRest
<1>11. CASE /\ u \in accounts \ {foreground} /\ foreground' = u
            /\ UNCHANGED accounts /\ Announced("switched", u)'
  <2>1. AllSaved'
    BY <1>2, <1>8, <1>9, <1>11 DEF AllSaved
  <2>2. Awaits("switched", "SwitchUser", foreground)'
    BY <1>6, <1>11
  <2>3. Mirrored' /\ ToldInTime'
    BY <1>2, <1>4, <1>5, <1>11, <2>2, IdleNow DEF Mirrored, ToldInTime
  <2> QED BY <1>2, <1>3, <1>5, <2>1, <2>3 DEF CalmRest
<1>12. CASE /\ u \in accounts \ {foreground} /\ accounts' = accounts \ {u}
            /\ UNCHANGED foreground /\ Announced("removed", u)'
  <2>1. AllSaved'
    BY <1>2, <1>6, <1>9, <1>12 DEF AllSaved
  <2>2. Shown
    BY <1>4, IdleNow DEF Announced
  <2>3. Shown'
    BY <1>2, <1>12, <2>2 DEF Shown, ShownClock, HourFits, Is24HourClock
  <2>4. Mirrored' /\ ToldInTime'
    BY <1>2, <1>4, <1>5, <1>12, <2>3, IdleNow DEF Mirrored, ToldInTime, Announced
  <2> QED BY <1>2, <1>3, <1>5, <2>1, <2>4 DEF CalmRest
<1> QED BY <1>3, <1>10, <1>11, <1>12

-----------------------------------------------------------------------------
(* The invariant holds, and what follows from it. *)

LEMMA OrderKept ==
    ASSUME CalmInv, Calm, [Next]_vars
    PROVE  Order'
<1>0. /\ EventsInOrder /\ \A s \in Threads : ServesWhom(frame[s])
      /\ service = "up" => initDone
      /\ service = "down" /\ ~initDone /\ events = << >> => accounts = {foreground}
      /\ service \in {"down", "starting", "up"} /\ initDone \in BOOLEAN
      /\ foreground \in accounts /\ accounts \subseteq Users
  BY DEF CalmInv, Order, IInv, FlagsOK, EnvOK
<1>1. ASSUME NEW t \in Threads, Step(t) PROVE Order'
  <2>1. /\ \/ frame'[t].op = frame[t].op /\ frame'[t].user = frame[t].user
           \/ frame'[t] = NoFrame
        /\ UNCHANGED <<accounts, foreground, events, ops>>
        /\ ~InitMark(t) => UNCHANGED <<service, initDone>>
    BY <1>1, SameOperation
  <2>2. (\A s \in Threads : s = t) /\ MemOK /\ OneThread
    BY CalmNow
  <2>3. CASE ~InitMark(t)
    <3>1. ServesWhom(frame[t])'
      BY <1>0, <2>1, <2>3 DEF ServesWhom, NoFrame, AllOperations
    <3>2. EventsInOrder'
      BY <1>0, <2>1, <2>3 DEF EventsInOrder, Announced
    <3> QED BY <1>0, <2>1, <2>2, <2>3, <3>1, <3>2 DEF Order
  <2>4. CASE InitMark(t)
    <3>1. Return(t) /\ initDone' = TRUE /\ service' = "up"
      BY <2>4, FewFaults DEF InitMark
    <3>2. frame'[t].op = "none"
      BY <2>2, <3>1, OnlyThread DEF Return, NoFrame
    <3>3. ServesWhom(frame[t])'
      BY <3>2 DEF ServesWhom, AllOperations
    <3>4. EventsInOrder'
      BY <1>0, <2>1, <3>1 DEF EventsInOrder, Announced
    <3> QED BY <2>2, <3>1, <3>3, <3>4 DEF Order
  <2> QED BY <2>3, <2>4
<1>2. ASSUME NEW t \in Threads, Call(t) PROVE Order'
  <2>1. /\ service = "up" /\ events = << >> /\ UNCHANGED <<service, initDone, env>>
        /\ \E f : Keep(t, f) /\ f.user = foreground /\ f.op \in AllOperations
    <3>1. \E op \in AllOperations : \E label, f : Begins(t, op, label, f)
      BY <1>2, CallBegun DEF AllOperations
    <3> QED BY <1>2, <3>1, CallBegun DEF Begins
  <2>2. (\A s \in Threads : s = t) /\ MemOK
    BY CalmNow
  <2>3. frame'[t].user = foreground /\ frame'[t].op \in AllOperations
    BY <2>1, <2>2 DEF Keep, MemOK
  <2>4. ServesWhom(frame[t])'
    BY <2>1, <2>3 DEF ServesWhom, AllOperations, env
  <2>5. EventsInOrder'
    BY <2>1 DEF EventsInOrder, env
  <2> QED BY <1>0, <2>1, <2>2, <2>4, <2>5 DEF Order, env
<1>3. ASSUME NEW t \in Threads, HandleEvent(t) PROVE Order'
  <2>1. \A s \in Threads : s = t
    BY CalmNow
  <2>2. PICK type, op, u :
            /\ events = <<[type |-> type, user |-> u]>>
            /\ frame'[t].op = op /\ frame'[t].user = u
            /\ <<type, op>> \in {<<"switched", "SwitchUser">>, <<"added", "AddUser">>,
                                 <<"removed", "RemoveUser">>}
    BY <1>3, HandleCalm
  <2>3. events' = << >> /\ service # "down"
        /\ UNCHANGED <<service, initDone, accounts, foreground>>
    BY <1>0, <1>3, HandleCalm DEF HandleEvent
  <2>4. /\ op = "SwitchUser" => initDone /\ u = foreground
        /\ op = "AddUser" => u \in accounts \ {foreground}
        /\ op = "RemoveUser" => initDone /\ u \in Users \ accounts
    <3>1. Head(events) = [type |-> type, user |-> u] /\ events # << >>
      BY <2>2
    <3>2. \/ \E w \in accounts \ {foreground} : Head(events) = [type |-> "added", user |-> w]
          \/ initDone /\ Head(events) = [type |-> "switched", user |-> foreground]
          \/ initDone /\ \E w \in Users \ accounts :
                              Head(events) = [type |-> "removed", user |-> w]
      BY <1>0, <3>1 DEF EventsInOrder, Announced
    <3>3. \/ type = "added" /\ u \in accounts \ {foreground}
          \/ type = "switched" /\ initDone /\ u = foreground
          \/ type = "removed" /\ initDone /\ u \in Users \ accounts
      <4>1. Head(events).type = type /\ Head(events).user = u
        BY <3>1
      <4> QED BY <3>2, <4>1
    <3> QED BY <2>2, <3>3
  <2>5. ServesWhom(frame[t])'
    BY <2>2, <2>3, <2>4 DEF ServesWhom, AllOperations
  <2>6. EventsInOrder'
    BY <2>3 DEF EventsInOrder
  <2> QED BY <1>0, <2>1, <2>3, <2>5, <2>6 DEF Order
<1>4. ASSUME NEW t \in Threads, InitMultiUser(t) PROVE Order'
  <2>1. (\A s \in Threads : s = t) /\ MemOK /\ service = "starting"
        /\ UNCHANGED <<initDone, env>>
    BY <1>4, CalmNow DEF InitMultiUser
  <2>2. EventsInOrder'
    BY <1>0, <2>1 DEF EventsInOrder, Announced, env
  <2>3. CASE initDone /\ service' = "up" /\ UNCHANGED mem
    <3>1. ServesWhom(frame[t])'
      BY <1>0, <2>1, <2>3 DEF ServesWhom, mem, env
    <3> QED BY <2>1, <2>2, <2>3, <3>1 DEF Order
  <2>4. CASE /\ ~initDone /\ UNCHANGED service
             /\ Keep(t, [NoFrame EXCEPT !.op = "InitMultiUser", !.user = foreground])
    <3>1. frame'[t].op = "InitMultiUser" /\ frame'[t].user = foreground
      BY <2>1, <2>4 DEF Keep, MemOK, NoFrame
    <3>2. ServesWhom(frame[t])'
      BY <2>1, <2>4, <3>1 DEF ServesWhom, AllOperations, env
    <3> QED BY <2>1, <2>2, <2>4, <3>2 DEF Order
  <2> QED BY <1>4, <2>3, <2>4, FewFaults DEF InitMultiUser
<1>5. CASE Start
  <2>1. service' = "starting" /\ UNCHANGED <<initDone, frame, accounts, foreground, events>>
        /\ service = "down"
    BY <1>5 DEF Start, mem, env
  <2>2. \A s \in Threads : frame[s].op \notin AllOperations
    BY <1>0, <2>1 DEF ServesWhom, AllOperations
  <2> QED BY <1>0, <2>1, <2>2 DEF Order, ServesWhom, EventsInOrder, Announced
<1>6. CASE Unload
  <2>1. service' = "down" /\ UNCHANGED <<initDone, accounts, foreground, events>> /\ initDone
    BY <1>0, <1>6 DEF Unload, ProcessEnds, env
  <2>2. \A s \in Threads : frame'[s].op = "none"
    BY <1>6 DEF Unload, ProcessEnds, NoFrame
  <2> QED BY <1>0, <2>1, <2>2 DEF Order, ServesWhom, EventsInOrder, Announced, AllOperations
<1>7. CASE Account
  <2>1. Settled /\ UNCHANGED <<service, initDone, frame>>
    BY <1>7, AccountCalm
    DEF Account, AccountAdded, AccountSwitched, AccountRemoved, Announce, mem
  <2>2. \A s \in Threads : frame'[s].op = "none"
    BY <2>1, IdleNow DEF Settled
  <2>3. PICK u \in Users :
           \/ /\ u \notin accounts /\ accounts' = accounts \cup {u}
              /\ UNCHANGED foreground /\ Announced("added", u)'
           \/ /\ u \in accounts \ {foreground} /\ foreground' = u
              /\ UNCHANGED accounts /\ Announced("switched", u)'
           \/ /\ u \in accounts \ {foreground} /\ accounts' = accounts \ {u}
              /\ UNCHANGED foreground /\ Announced("removed", u)'
    BY <1>7, AccountCalm
  <2>4. u \in accounts \ {foreground} => initDone
    BY <1>0, <2>1 DEF Settled
  <2>5. EventsInOrder' /\ events' # << >>
    <3>1. events' # << >>
      BY <2>3 DEF Announced
    <3>2. CASE /\ u \notin accounts /\ accounts' = accounts \cup {u}
               /\ UNCHANGED foreground /\ Announced("added", u)'
      <4>1. u \in accounts' \ {foreground'}
        BY <1>0, <3>2
      <4> QED BY <3>1, <3>2, <4>1 DEF EventsInOrder
    <3>3. CASE /\ u \in accounts \ {foreground} /\ foreground' = u
               /\ UNCHANGED accounts /\ Announced("switched", u)'
      <4>1. Announced("switched", foreground)' /\ initDone'
        BY <2>1, <2>4, <3>3 DEF Announced
      <4> QED BY <3>1, <4>1 DEF EventsInOrder
    <3>4. CASE /\ u \in accounts \ {foreground} /\ accounts' = accounts \ {u}
               /\ UNCHANGED foreground /\ Announced("removed", u)'
      <4>1. u \in Users \ accounts' /\ initDone'
        BY <2>1, <2>4, <3>4
      <4> QED BY <3>1, <3>4, <4>1 DEF EventsInOrder
    <3> QED BY <2>3, <3>1, <3>2, <3>3, <3>4
  <2>6. \A s \in Threads : ServesWhom(frame[s])'
    BY <2>2 DEF ServesWhom, AllOperations
  <2> QED BY <1>0, <2>1, <2>5, <2>6 DEF Order
<1>8. CASE UNCHANGED vars
  BY <1>0, <1>8 DEF Order, ServesWhom, EventsInOrder, Announced, vars
<1>9. ~Kill
  BY FewFaults DEF Kill
<1> QED BY <1>1, <1>2, <1>3, <1>4, <1>5, <1>6, <1>7, <1>8, <1>9 DEF Next

LEMMA CalmStep ==
    ASSUME CalmInv, Calm, NEW t \in Threads, Step(t)
    PROVE  CalmRest'
<1>1. SaveLoad(t) \/ SaveStore(t) => frame[t].op \in AllOperations \cup KeepsAccounts
  <2>1. Place(pc[t], frame[t])
    BY CalmNow DEF ProgressOf
  <2> QED BY <2>1
      DEF Place, LocaleLabels, Saving, SaveLoad, SaveStore, AllOperations, KeepsAccounts,
          LocaleSetters
<1> QED BY <1>1, LanguageCalm, LocaleCalm, HourCalm, SetterSaveCalm, AccountSaveCalm,
           SwitchCalm, ReadCalm, MarkCalm DEF Step

LEMMA CalmKept ==
    ASSUME CalmInv, Calm, [Next]_vars
    PROVE  CalmInv'
<1>1. IInv'
  BY Inductive DEF CalmInv
<1>2. SnapCurrent'
  BY SnapKept DEF CalmInv, Calm
<1>3. Progress'
  BY ProgressKept DEF CalmInv, Calm
<1>4. CalmRest'
  <2>1. ~Kill
    BY FewFaults DEF Kill
  <2> QED BY <2>1, CalmStep, CallCalm, HandleCalm, ServiceCalm, AccountCalm DEF Next
<1> QED BY <1>1, <1>2, <1>3, <1>4, OrderKept DEF CalmInv, CalmRest

LEMMA CalmInitial == ASSUME Calm PROVE Init => CalmInv
<1> SUFFICES ASSUME Init PROVE CalmInv
  OBVIOUS
<1>1. IInv /\ Progress
  BY Initially, ProgressInitial
<1>2. SnapCurrent
  BY DEF Init, SnapCurrent
<1>3. /\ \A t \in Threads : pc[t] = "idle" /\ frame[t].op = "none"
      /\ events = << >> /\ initDone = FALSE /\ service = "down" /\ accounts = {foreground}
      /\ foreground \in Users
  BY DEF Init, NoFrame
<1>4. Order
  BY <1>3 DEF Order, EventsInOrder, ServesWhom, AllOperations
<1>5. Exchanges /\ WayBack /\ Replacing
  BY <1>3 DEF Exchanges, Exchange, WayBack, Replacing, Replaces
<1>6. AllSaved
  <2>1. \A k \in Keys, u \in Users : stored[k][u] = None
    BY DEF Init, NoMap
  <2> QED BY <1>3, <2>1 DEF AllSaved
<1>7. Mirrored
  <2>1. param["hour"] \in Hours
    BY DEF Init, Calm, Keys
  <2> QED BY <1>3, <2>1, NoneAssumption DEF Mirrored
<1>8. ToldInTime
  <2>1. told[foreground].locale = param["locale"] /\ told[foreground].hour = param["hour"]
    BY <1>3 DEF Init
  <2>2. Shown
    BY <2>1 DEF Shown, ShownClock, HourFits, Is24HourClock, Clock
  <2> QED BY <1>3, <2>2 DEF ToldInTime, Telling, LocaleUntold, HourUntold, LocaleSetters
<1> QED BY <1>1, <1>2, <1>4, <1>5, <1>6, <1>7, <1>8 DEF CalmInv

\* While the service is calm: when every account event is handled, exactly the existing
\* accounts have saved settings, all three of them (InitMultiUser, AddUser, RemoveUser).
THEOREM EveryAccountSaved == ASSUME Calm PROVE Spec => []AccountsSaved
<1>1. CalmInv => AccountsSaved
  <2> SUFFICES ASSUME CalmInv, Quiet PROVE AccountsSaved
    BY DEF AccountsSaved
  <2>1. initDone /\ AllIdle /\ events = << >>
    BY DEF Quiet, Settled, CalmInv, Order
  <2>2. \A type, op, u : op # "none" => ~Awaits(type, op, u)
    BY <2>1, IdleNow DEF Announced
  <2> QED BY <2>1, <2>2 DEF AccountsSaved, AllSaved, CalmInv
<1> QED BY <1>1, CalmInitial, CalmKept, PTL DEF Spec

\* While the service is calm, so that no switch fails half way: when every account event
\* is handled, the system parameters are the settings saved for the foreground account.
THEOREM ForegroundMirrored == ASSUME Calm PROVE Spec => []MirrorsForeground
<1>1. CalmInv => MirrorsForeground
  BY IdleNow DEF MirrorsForeground, Quiet, Settled, CalmInv, Order, Announced
<1> QED BY <1>1, CalmInitial, CalmKept, PTL DEF Spec

\* While the service is calm: when every account event is handled, the applications of
\* the foreground account were told the current locale and show the system's clock.
THEOREM ForegroundInformed == ASSUME Calm PROVE Spec => []ForegroundTold
<1>1. CalmInv => ForegroundTold
  BY IdleNow DEF ForegroundTold, Quiet, Settled, Announced, Shown, ShownClock
<1> QED BY <1>1, CalmInitial, CalmKept, PTL DEF Spec

-----------------------------------------------------------------------------
(* The languages, as long as nobody calls SetSystemLocale. *)

SwitchesLanguage(label, f) ==
    f.op = "SwitchUser" /\ label \in {"sw_read", "sw_set"} /\ f.key = "language"

ParamAgree ==
    \/ param["language"] = param["locale"].lang
    \/ \E t \in Threads : HalfSet(t) \/ SwitchesLanguage(pc[t], frame[t])

\* Thread t saves the language and the locale of its account, and has saved one.
HalfSaved(label, f) ==
    \/ /\ f.op = "SetSystemLanguage"
       /\ label \in {"loc_tell", "loc_event"} \/ (Saving(label) /\ f.key = "language")
    \/ f.op \in {"AddUser", "InitMultiUser", "RemoveUser"} /\ Saving(label) /\ f.key = "locale"

Agree(u) ==
    \/ stored["language"][u] = None /\ stored["locale"][u] = None
    \/ stored["locale"][u] # None /\ stored["language"][u] = stored["locale"][u].lang

SavedAgree ==
    \A u \in Users :
        Agree(u) \/ \E t \in Threads : frame[t].user = u /\ HalfSaved(pc[t], frame[t])

\* The locale that will be set is legal.
WantsLegal ==
    \A t \in Threads : pc[t] \in {"loc_was", "loc_set"} => Legal(frame[t].want["locale"])

NotCalled == \A t \in Threads : frame[t].op # "SetSystemLocale"

LanguageInv == ParamAgree /\ SavedAgree /\ LegalExt /\ WantsLegal /\ NotCalled

\* The same of the only thread.
LanguageOf(t) ==
    /\ \/ param["language"] = param["locale"].lang
       \/ HalfSet(t) \/ SwitchesLanguage(pc[t], frame[t])
    /\ \A u \in Users : Agree(u) \/ (frame[t].user = u /\ HalfSaved(pc[t], frame[t]))
    /\ LegalExt
    /\ pc[t] \in {"loc_was", "loc_set"} => Legal(frame[t].want["locale"])
    /\ frame[t].op # "SetSystemLocale"

LEMMA LanguageNow ==
    ASSUME CalmInv, Calm, LanguageInv, NEW t \in Threads
    PROVE  LanguageOf(t)
<1>1. \A s \in Threads : s = t
  BY CalmNow
<1> QED BY <1>1
        DEF LanguageInv, LanguageOf, ParamAgree, SavedAgree, WantsLegal, NotCalled

LEMMA LanguageMoves ==
    ASSUME CalmInv, Calm, NEW t \in Threads, LanguageOf(t)'
    PROVE  LanguageInv'
<1>1. \A s \in Threads : s = t
  BY CalmNow
<1> QED BY <1>1
        DEF LanguageInv, LanguageOf, ParamAgree, SavedAgree, WantsLegal, NotCalled

\* A step that writes neither parameters nor Preferences.
LEMMA LanguageKeeps ==
    ASSUME CalmInv, Calm, LanguageInv, NEW t \in Threads, UNCHANGED <<param, stored>>,
           HalfSet(t) => HalfSet(t)',
           SwitchesLanguage(pc[t], frame[t]) => SwitchesLanguage(pc[t], frame[t])',
           HalfSaved(pc[t], frame[t]) =>
               frame'[t].user = frame[t].user /\ HalfSaved(pc[t], frame[t])',
           pc'[t] \in {"loc_was", "loc_set"} => Legal(frame'[t].want["locale"]),
           frame'[t].op # "SetSystemLocale"
    PROVE  LanguageInv'
<1>1. LanguageOf(t)
  BY LanguageNow
<1>2. LegalExt'
  BY <1>1 DEF LanguageOf, LegalExt
<1>3. \A u \in Users : Agree(u)' <=> Agree(u)
  BY DEF Agree
<1>4. LanguageOf(t)'
  BY <1>1, <1>2, <1>3 DEF LanguageOf
<1> QED BY <1>4, LanguageMoves

LEMMA LegalUpdated ==
    ASSUME CalmInv, Legal(param["locale"])
    PROVE  /\ \A l \in Languages : Legal(UpdateLanguageOfLocale(l))
           /\ \A r \in Regions : Legal(UpdateRegionOfLocale(r))
<1>1. param["locale"] \in Locale
  BY DEF CalmInv, IInv, ParamOK
<1>2. LanguageKeys \subseteq ExtKeys /\ CustKeys \subseteq ExtKeys
  BY ConstantsAssumption
<1>3. ASSUME NEW l \in Languages PROVE Legal(UpdateLanguageOfLocale(l))
  <2>1. \A k \in LanguageKeys \cup CustKeys : UpdateLanguageOfLocale(l).ext[k] = None
    BY <1>1, <1>2 DEF UpdateLanguageOfLocale, Drop, Locale
  <2> QED BY <2>1 DEF Legal
<1>4. ASSUME NEW r \in Regions PROVE Legal(UpdateRegionOfLocale(r))
  <2> DEFINE l == UpdateRegionOfLocale(r)
  <2>1. /\ l.lang = param["locale"].lang
        /\ \A k \in ExtKeys : l.ext[k] = IF k \in CustKeys THEN None ELSE param["locale"].ext[k]
    BY <1>1 DEF UpdateRegionOfLocale, Drop, Locale
  <2> HIDE DEF l
  <2>2. \A k \in LanguageKeys : l.ext[k] \in LanguageValues[l.lang] \cup {None}
    BY <1>2, <2>1 DEF Legal
  <2>3. \A k \in CustKeys : l.ext[k] = None
    BY <1>2, <2>1
  <2> QED BY <2>2, <2>3 DEF Legal, l
<1> QED BY <1>3, <1>4

\* One extension parameter of a legal locale set to a value that is supported.
LEMMA LegalModified ==
    ASSUME CalmInv, Legal(param["locale"]), NEW k \in ExtKeys, NEW v,
           k \in LanguageKeys => v \in LanguageValues[param["locale"].lang] \cup {None},
           k \in CustKeys =>
               v \in CustValues[<<param["locale"].lang, param["locale"].region>>] \cup {None}
    PROVE  Legal(ModifyExtParam(param["locale"], k, v))
<1> DEFINE l == ModifyExtParam(param["locale"], k, v)
<1>1. param["locale"] \in Locale
  BY DEF CalmInv, IInv, ParamOK
<1>2. LanguageKeys \subseteq ExtKeys /\ CustKeys \subseteq ExtKeys
  BY ConstantsAssumption
<1>3. /\ l.lang = param["locale"].lang /\ l.region = param["locale"].region
      /\ \A j \in ExtKeys : l.ext[j] = IF j = k THEN v ELSE param["locale"].ext[j]
  BY <1>1 DEF ModifyExtParam, Locale, Ext
<1> HIDE DEF l
<1>4. Legal(l)
  BY <1>2, <1>3 DEF Legal
<1> QED BY <1>4 DEF l

\* A step that writes parameters: no thread is saving then.
LEMMA LanguageWritten ==
    ASSUME CalmInv, Calm, LanguageInv, NEW t \in Threads, UNCHANGED stored,
           ~HalfSaved(pc[t], frame[t]), Legal(param'["locale"]),
           \/ param'["language"] = param'["locale"].lang
           \/ HalfSet(t)' \/ SwitchesLanguage(pc[t], frame[t])',
           pc'[t] \notin {"loc_was", "loc_set"},
           frame'[t].op # "SetSystemLocale"
    PROVE  LanguageInv'
<1>1. LanguageOf(t)
  BY LanguageNow
<1>2. LegalExt'
  BY <1>1 DEF LanguageOf, LegalExt
<1>3. \A u \in Users : Agree(u)' /\ Agree(u)
  BY <1>1 DEF LanguageOf, Agree
<1>4. LanguageOf(t)'
  BY <1>2, <1>3 DEF LanguageOf
<1> QED BY <1>4, LanguageMoves

\* The foreground account's saved language is that of its saved locale.
LEMMA ForegroundAgrees ==
    ASSUME CalmInv, Calm, LanguageInv, NEW t \in Threads,
           frame[t].op \in AllOperations \cup {"SwitchUser"}, ~HalfSaved(pc[t], frame[t])
    PROVE  /\ stored["locale"][foreground] # None
           /\ stored["language"][foreground] = stored["locale"][foreground].lang
<1>1. foreground \in accounts /\ foreground \in Users /\ initDone /\ events = << >>
  BY SetterNow, SwitchNow DEF CalmInv, IInv, EnvOK
<1>2. Agree(foreground)
  BY <1>1, LanguageNow DEF LanguageOf
<1>3. ~Awaits("added", "AddUser", foreground)
  BY <1>1, CalmNow DEF Awaits, Announced, Serves, AllOperations
<1>4. stored["locale"][foreground] # None
  BY <1>1, <1>3 DEF CalmInv, AllSaved, Keys
<1> QED BY <1>2, <1>4 DEF Agree

\* SetSystemLanguage around SetSystemLocale.
LEMMA LanguageAgreed ==
    ASSUME CalmInv, Calm, LanguageInv, NEW t \in Threads,
           LanguageSet(t) \/ LanguageLocale(t) \/ LanguageUndo(t)
    PROVE  LanguageInv'
<1> DEFINE f == frame[t]
<1>1. /\ f.op = "SetSystemLanguage" /\ MemOK /\ OneThread /\ f \in Frame
      /\ f.want \in [Keys -> Value] /\ param \in [Keys -> Value] /\ ThreadOK(pc[t], f)
  BY CalmNow DEF LanguageSet, LanguageLocale, LanguageUndo, ThreadOK, CalmInv, IInv, ParamOK
<1>2. SetterInv(t) /\ f.op \in AllOperations
  BY <1>1, SetterNow DEF AllOperations
<1>3. LanguageOf(t) /\ Legal(param["locale"])
  BY LanguageNow DEF LanguageOf, LegalExt
<1>4. ~HalfSaved(pc[t], f)
  BY <1>1 DEF HalfSaved, Saving, LanguageSet, LanguageLocale, LanguageUndo
<1>5. CASE LanguageSet(t)
  <2>1. CASE Return(t) /\ UNCHANGED param
    <3>1. pc'[t] = "idle" /\ frame'[t].op = "none"
      BY <1>1, <2>1, OnlyThread DEF Return, NoFrame
    <3>2. param["language"] = param["locale"].lang /\ UNCHANGED stored
      BY <1>1, <1>3, <1>5 DEF LanguageOf, HalfSet, SwitchesLanguage, LanguageSet
    <3> QED BY <1>3, <1>4, <2>1, <3>1, <3>2, LanguageWritten
  <2>2. CASE param' = [param EXCEPT !["language"] = f.want["language"]] /\ Goto(t, "lang_locale")
             /\ UNCHANGED frame
    <3>1. pc'[t] = "lang_locale" /\ frame'[t] = f
      BY <1>1, <2>2, OnlyThreadStays
    <3>2. HalfSet(t)' /\ UNCHANGED stored /\ param'["locale"] = param["locale"]
      BY <1>1, <1>5, <2>2, <3>1 DEF HalfSet, LanguageSet, Keys
    <3> QED BY <1>1, <1>3, <1>4, <3>1, <3>2, LanguageWritten
  <2> QED BY <1>5, <2>1, <2>2 DEF LanguageSet, SetParameter
<1>6. CASE LanguageLocale(t)
  <2> DEFINE l == UpdateLanguageOfLocale(f.want["language"])
             g == [f EXCEPT !.want["locale"] = l]
  <2>1. g.op = f.op /\ g.want = [f.want EXCEPT !["locale"] = l]
    BY <1>1 DEF Frame
  <2>2. /\ pc[t] = "lang_locale" /\ Goto(t, "loc_was") /\ Keep(t, g)
        /\ UNCHANGED <<param, stored>>
    BY <1>6 DEF LanguageLocale, l
  <2>3. Legal(l)
    BY <1>1, <1>3, <2>2, LegalUpdated DEF ThreadOK
  <2> HIDE DEF g, l
  <2>4. pc'[t] = "loc_was" /\ frame'[t].op = f.op /\ frame'[t].want["locale"] = l
    BY <1>1, <2>1, <2>2, OnlyThread DEF Keys
  <2>5. HalfSet(t)' /\ ~SwitchesLanguage(pc[t], f)
    BY <1>1, <2>4 DEF HalfSet, SwitchesLanguage
  <2> QED BY <1>1, <1>4, <2>2, <2>3, <2>4, <2>5, LanguageKeeps
<1>7. CASE LanguageUndo(t)
  <2>1. Return(t) /\ pc[t] = "lang_undo" /\ UNCHANGED stored
    BY <1>7 DEF LanguageUndo
  <2>2. faults = MaxFaults /\ f.old = stored["language"][foreground]
        /\ param["locale"] = stored["locale"][foreground]
    BY <1>1, <1>2, <2>1 DEF SetterInv, Unsaved, Saving, Keys
  <2>3. ~Fault("param")
    BY <2>2, ConstantsAssumption DEF Fault
  <2>4. param' = [param EXCEPT !["language"] = f.old]
    BY <1>7, <2>3 DEF LanguageUndo, SetParameter
  <2>5. f.old = param["locale"].lang
    BY <1>2, <1>4, <2>2, ForegroundAgrees
  <2>6. pc'[t] = "idle" /\ frame'[t].op = "none"
    BY <1>1, <2>1, OnlyThread DEF Return, NoFrame
  <2>7. param'["language"] = param'["locale"].lang /\ param'["locale"] = param["locale"]
    BY <1>1, <2>4, <2>5 DEF Keys
  <2> QED BY <1>3, <1>4, <2>1, <2>6, <2>7, LanguageWritten
<1> QED BY <1>5, <1>6, <1>7

\* SetSystemLocale: the new locale has the language it is asked to have.
LEMMA LocaleAgreed ==
    ASSUME CalmInv, Calm, LanguageInv, NEW t \in Threads,
           LocaleWas(t) \/ LocaleSet(t) \/ LocaleNow(t) \/ LocaleTell(t) \/ LocaleEvent(t)
    PROVE  LanguageInv'
<1> DEFINE f == frame[t]
<1>0. pc[t] \in LocaleLabels
  BY DEF LocaleWas, LocaleSet, LocaleNow, LocaleTell, LocaleEvent, LocaleLabels
<1>1. /\ f.op \in LocaleSetters \cup {"SetSystemLanguage"} /\ f.op \in AllOperations
      /\ f \in Frame /\ f.want \in [Keys -> Value] /\ param \in [Keys -> Value]
      /\ MemOK /\ OneThread
  BY <1>0, LocaleSetterNow
<1>2. LanguageOf(t) /\ Legal(param["locale"]) /\ f.op # "SetSystemLocale"
  BY LanguageNow DEF LanguageOf, LegalExt
<1>3. ~SwitchesLanguage(pc[t], f) /\ (HalfSaved(pc[t], f) => f.op = "SetSystemLanguage")
  BY <1>1 DEF SwitchesLanguage, HalfSaved, LocaleSetters
<1>4. CASE LocaleWas(t)
  <2>1. /\ pc[t] = "loc_was" /\ Goto(t, "loc_set")
        /\ Keep(t, [f EXCEPT !.was24 = Is24HourClock]) /\ UNCHANGED <<param, stored>>
    BY <1>4 DEF LocaleWas
  <2>2. pc'[t] = "loc_set" /\ frame'[t] = [f EXCEPT !.was24 = Is24HourClock]
    BY ONLY <1>1, <2>1, OnlyThread
  <2>3. frame'[t].op = f.op /\ frame'[t].user = f.user /\ frame'[t].want = f.want
    BY ONLY <1>1, <2>2 DEF Frame
  <2>4. HalfSet(t) => HalfSet(t)'
    BY <2>2, <2>3 DEF HalfSet
  <2>5. ~HalfSaved(pc[t], f) /\ Legal(frame'[t].want["locale"])
    BY <1>2, <2>1, <2>3 DEF LanguageOf, HalfSaved, Saving
  <2> QED BY <1>2, <1>3, <2>1, <2>3, <2>4, <2>5, LanguageKeeps
<1>5. CASE LocaleSet(t)
  <2>1. pc[t] = "loc_set" /\ UNCHANGED stored /\ ~HalfSaved(pc[t], f)
    BY <1>5 DEF LocaleSet, HalfSaved, Saving
  <2>2. CASE param' = [param EXCEPT !["locale"] = f.want["locale"]] /\ Goto(t, "loc_now")
             /\ UNCHANGED frame
    <3>1. pc'[t] = "loc_now" /\ frame'[t] = f
      BY <1>1, <2>2, OnlyThreadStays
    <3>2. param'["language"] = param["language"] /\ param'["locale"] = f.want["locale"]
      BY <1>1, <2>2 DEF Keys
    <3>3. Legal(param'["locale"])
      BY <1>2, <2>1, <3>2 DEF LanguageOf
    <3>4. param["language"] = f.want["locale"].lang
      <4>1. CASE f.op = "SetSystemLanguage"
        BY <2>1, <4>1, CalmNow DEF ProgressOf, Asked, Done, LocaleSetters
      <4>2. CASE f.op # "SetSystemLanguage"
        <5>1. param["language"] = param["locale"].lang
          BY <1>2, <1>3, <4>2 DEF LanguageOf, HalfSet
        <5>2. param["locale"] \in Locale
          BY DEF CalmInv, IInv, ParamOK
        <5>3. f.want["locale"].lang = param["locale"].lang
          BY <1>1, <1>2, <2>1, <4>2, <5>2, CalmNow
          DEF Replaces, LocaleSetters, UpdateRegionOfLocale, ModifyExtParam, Locale
        <5> QED BY <5>1, <5>3
      <4> QED BY <4>1, <4>2
    <3> QED BY <1>2, <2>1, <3>1, <3>2, <3>3, <3>4, LanguageWritten
  <2>3. CASE LocaleFailed(t) /\ UNCHANGED param
    <3>1. CASE f.op = "SetSystemLanguage"
      <4>1. pc'[t] = "lang_undo" /\ frame'[t] = f
        BY <1>1, <2>3, <3>1, OnlyThreadStays DEF LocaleFailed
      <4>2. HalfSet(t)'
        BY <3>1, <4>1 DEF HalfSet
      <4> QED BY <1>2, <2>1, <2>3, <4>1, <4>2, LanguageWritten
    <3>2. CASE f.op # "SetSystemLanguage"
      <4>1. Return(t)
        BY <2>3, <3>2 DEF LocaleFailed
      <4>2. pc'[t] = "idle" /\ frame'[t].op = "none"
        BY <1>1, <4>1, OnlyThread DEF Return, NoFrame
      <4>3. param["language"] = param["locale"].lang
        BY <1>2, <1>3, <3>2 DEF LanguageOf, HalfSet
      <4> QED BY <1>2, <2>1, <2>3, <4>2, <4>3, LanguageWritten
    <3> QED BY <3>1, <3>2
  <2> QED BY <1>5, <2>2, <2>3 DEF LocaleSet, SetParameter
<1>6. CASE LocaleNow(t)
  <2>1. /\ pc[t] = "loc_now" /\ Goto(t, "save_load") /\ UNCHANGED <<param, stored>>
        /\ Keep(t, [f EXCEPT !.now24 = Is24HourClock, !.key = "locale"])
    BY <1>6 DEF LocaleNow
  <2>2. /\ pc'[t] = "save_load"
        /\ frame'[t] = [f EXCEPT !.now24 = Is24HourClock, !.key = "locale"]
    BY ONLY <1>1, <2>1, OnlyThread
  <2>3. frame'[t].op = f.op
    BY ONLY <1>1, <2>2 DEF Frame
  <2>4. ~HalfSaved(pc[t], f) /\ ~HalfSet(t)
    BY <2>1 DEF HalfSaved, Saving, HalfSet
  <2> QED BY <1>2, <1>3, <2>1, <2>2, <2>3, <2>4, LanguageKeeps
<1>7. CASE LocaleTell(t)
  <2>1. pc[t] = "loc_tell" /\ Goto(t, "loc_event") /\ UNCHANGED <<param, stored, frame>>
    BY <1>7 DEF LocaleTell
  <2>2. pc'[t] = "loc_event" /\ frame'[t] = f
    BY <1>1, <2>1, OnlyThreadStays
  <2>3. (HalfSaved(pc[t], f) => HalfSaved(pc[t], frame[t])') /\ ~HalfSet(t)
    BY <1>3, <2>1, <2>2 DEF HalfSaved, HalfSet
  <2> QED BY <1>2, <1>3, <2>1, <2>2, <2>3, LanguageKeeps
<1>8. CASE LocaleEvent(t)
  <2>1. pc[t] = "loc_event" /\ UNCHANGED <<param, stored>> /\ ~HalfSet(t)
    BY <1>8 DEF LocaleEvent, HalfSet
  <2>2. CASE f.op = "SetSystemLanguage" /\ Goto(t, "save_load")
             /\ Keep(t, [f EXCEPT !.key = "language"])
    <3>1. pc'[t] = "save_load" /\ frame'[t].op = f.op /\ frame'[t].user = f.user
          /\ frame'[t].key = "language"
      BY <1>1, <2>2, OnlyThread DEF Frame
    <3>2. HalfSaved(pc[t], frame[t])'
      BY <2>2, <3>1 DEF HalfSaved, Saving
    <3> QED BY <1>2, <1>3, <2>1, <3>1, <3>2, LanguageKeeps
  <2>3. CASE f.op # "SetSystemLanguage" /\ Return(t)
    <3>1. pc'[t] = "idle" /\ frame'[t].op = "none"
      BY <1>1, <2>3, OnlyThread DEF Return, NoFrame
    <3> QED BY <1>3, <2>1, <2>3, <3>1, LanguageKeeps
  <2> QED BY <1>8, <2>2, <2>3, FewFaults DEF LocaleEvent
<1> QED BY <1>4, <1>5, <1>6, <1>7, <1>8

\* Set24HourClock, and the last steps of the others, leave languages and locales alone.
LEMMA OthersAgreed ==
    ASSUME CalmInv, Calm, LanguageInv, NEW t \in Threads,
           \/ HourSet(t) \/ HourTell(t) \/ HourEvent(t)
           \/ SwitchTell(t) \/ SwitchEvent(t) \/ InitMark(t)
    PROVE  LanguageInv'
<1> DEFINE f == frame[t]
<1>1. /\ f \in Frame /\ f.want \in [Keys -> Value] /\ param \in [Keys -> Value]
      /\ MemOK /\ OneThread /\ LanguageOf(t) /\ LegalExt
  BY CalmNow, LanguageNow DEF CalmInv, IInv, ParamOK, LanguageOf
<1>2. ~HalfSaved(pc[t], f) /\ ~HalfSet(t) /\ ~SwitchesLanguage(pc[t], f) /\ UNCHANGED stored
  BY DEF HourSet, HourTell, HourEvent, SwitchTell, SwitchEvent, InitMark,
         HalfSaved, Saving, HalfSet, SwitchesLanguage
<1>3. param["language"] = param["locale"].lang /\ f.op # "SetSystemLocale"
  BY <1>1, <1>2 DEF LanguageOf
<1>4. ASSUME Return(t) PROVE pc'[t] = "idle" /\ frame'[t].op = "none"
  BY <1>1, <1>4, OnlyThread DEF Return, NoFrame
<1>5. CASE HourSet(t)
  <2>1. CASE /\ param' = [param EXCEPT !["hour"] = f.want["hour"]] /\ Goto(t, "save_load")
             /\ Keep(t, [f EXCEPT !.key = "hour"])
    <3>1. pc'[t] = "save_load" /\ frame'[t].op = f.op
      BY <1>1, <2>1, OnlyThread DEF Frame
    <3>2. param'["language"] = param["language"] /\ param'["locale"] = param["locale"]
      BY <1>1, <2>1 DEF Keys
    <3> QED BY <1>1, <1>2, <1>3, <3>1, <3>2, LanguageWritten DEF LegalExt
  <2>2. CASE Return(t) /\ UNCHANGED param
    BY <1>2, <1>4, <2>2, LanguageKeeps
  <2> QED BY <1>5, <2>1, <2>2 DEF HourSet, SetParameter
<1>6. CASE HourTell(t) \/ SwitchTell(t)
  <2>1. pc'[t] \in {"hour_event", "sw_event"} /\ frame'[t] = f /\ UNCHANGED param
    BY <1>1, <1>6, OnlyThreadStays DEF HourTell, SwitchTell
  <2> QED BY <1>2, <1>3, <2>1, LanguageKeeps
<1>7. CASE HourEvent(t) \/ SwitchEvent(t) \/ InitMark(t)
  <2>1. Return(t) /\ UNCHANGED param
    BY <1>7 DEF HourEvent, SwitchEvent, InitMark
  <2> QED BY <1>2, <1>4, <2>1, LanguageKeeps
<1> QED BY <1>5, <1>6, <1>7

\* SaveGlobalParam, and the reading of the map before a save.
LEMMA ReadAgreed ==
    ASSUME CalmInv, Calm, LanguageInv, NEW t \in Threads, AddRead(t) \/ SaveLoad(t)
    PROVE  LanguageInv'
<1> DEFINE f == frame[t]
<1>1. /\ f \in Frame /\ MemOK /\ OneThread /\ UNCHANGED <<param, stored>>
      /\ f.op # "SetSystemLocale"
  BY CalmNow, LanguageNow DEF LanguageOf, AddRead, SaveLoad
<1>2. ~HalfSet(t) /\ ~SwitchesLanguage(pc[t], f)
  BY DEF AddRead, SaveLoad, HalfSet, SwitchesLanguage
<1>3. CASE AddRead(t)
  <2>1. ~HalfSaved(pc[t], f)
    BY <1>3 DEF AddRead, HalfSaved, Saving
  <2>2. frame'[t].op \in {f.op, "none"}
    BY <1>3, SameOperation DEF Step, NoFrame
  <2>3. \E label \in {"add_read", "save_load", "init_mark", "idle"} : Goto(t, label)
    BY <1>1, <1>3, CalmNow DEF AddRead, Return, Keys
  <2>4. pc'[t] \in {"add_read", "save_load", "init_mark", "idle"}
    BY <1>1, <2>3 DEF Goto, MemOK
  <2> QED BY <1>1, <1>2, <2>1, <2>2, <2>4, LanguageKeeps
<1>4. CASE SaveLoad(t)
  <2>1. PICK snap : /\ pc[t] = "save_load" /\ Goto(t, "save_store")
                    /\ Keep(t, [f EXCEPT !.snap = snap])
    BY <1>4 DEF SaveLoad
  <2>2. pc'[t] = "save_store" /\ frame'[t] = [f EXCEPT !.snap = snap]
    BY <1>1, <2>1, OnlyThread
  <2>3. frame'[t].op = f.op /\ frame'[t].user = f.user /\ frame'[t].key = f.key
    BY <1>1, <2>2 DEF Frame
  <2>4. HalfSaved(pc[t], f) => HalfSaved(pc[t], frame[t])'
    BY <2>1, <2>2, <2>3 DEF HalfSaved, Saving
  <2> QED BY <1>1, <1>2, <2>2, <2>3, <2>4, LanguageKeeps
<1> QED BY <1>3, <1>4

\* What is saved is what is set, unless it is deleted.
LEMMA SavesCurrent ==
    ASSUME CalmInv, Calm, NEW t \in Threads, SaveStore(t), frame[t].op # "RemoveUser"
    PROVE  frame[t].want[frame[t].key] = param[frame[t].key]
<1> DEFINE f == frame[t]
<1>1. ProgressOf(pc[t], f, param) /\ Exchange(pc[t], f) /\ f.key \in Keys /\ pc[t] = "save_store"
  BY CalmNow DEF SaveStore
<1>2. CASE f.op \in {"AddUser", "InitMultiUser"}
  BY <1>1, <1>2 DEF Exchange, KeysRead
<1>3. CASE f.op \notin {"AddUser", "InitMultiUser"}
  <2>1. f.key \in Done(pc[t], f)
    BY <1>1, <1>3 DEF ProgressOf, Place, Done, LocaleSetters, LocaleLabels, Saving
  <2> QED BY <1>1, <2>1 DEF ProgressOf
<1> QED BY <1>2, <1>3

\* Where a save leads to.
LEMMA SaveLeads ==
    ASSUME CalmInv, Calm, NEW t \in Threads, SaveStore(t)
    PROVE  /\ pc[t] = "save_store" /\ frame[t].op \in AllOperations \cup KeepsAccounts
           /\ \/ /\ pc'[t] \in {"idle", "init_mark"} /\ frame'[t].op \in {frame[t].op, "none"}
                 /\ frame[t].op \in AllOperations <=> frame[t].key = "language"
                 /\ frame[t].op \in KeepsAccounts <=> frame[t].key = "hour"
              \/ /\ frame[t].op \in AllOperations /\ frame[t].key = "locale"
                 /\ pc'[t] = "loc_tell" /\ frame'[t] = frame[t]
              \/ /\ frame[t].op \in AllOperations /\ frame[t].key = "hour"
                 /\ pc'[t] = "hour_tell" /\ frame'[t] = frame[t]
              \/ /\ frame[t].op \in KeepsAccounts /\ frame[t].key # "hour"
                 /\ pc'[t] = "save_load" /\ frame'[t].op = frame[t].op
                 /\ frame'[t].user = frame[t].user /\ frame'[t].key = NextKey(frame[t].key)
<1> DEFINE f == frame[t]
<1>1. /\ ProgressOf(pc[t], f, param) /\ f.key \in Keys /\ pc[t] = "save_store"
      /\ f \in Frame /\ MemOK /\ OneThread /\ AfterSave(t, TRUE)
  BY CalmNow, EntryStored
<1>2. f.op \in AllOperations \cup KeepsAccounts
  BY <1>1 DEF ProgressOf, Place, LocaleLabels, Saving, AllOperations, KeepsAccounts, LocaleSetters
<1>3. ASSUME Return(t) PROVE pc'[t] = "idle" /\ frame'[t].op = "none"
  BY <1>1, <1>3, OnlyThread DEF Return, NoFrame
<1>4. CASE f.op \in AllOperations
  <2>0. AfterSave(t, TRUE) /\ f.op \in AllOperations
    BY <1>1, <1>4
  <2>1. \/ f.key = "language" /\ Return(t)
        \/ f.key # "language" /\ UNCHANGED frame
           /\ Goto(t, IF f.key = "hour" THEN "hour_tell" ELSE "loc_tell")
    BY ONLY <2>0 DEF AfterSave, AllOperations
  <2>2. f.op \notin KeepsAccounts
    BY <1>4 DEF AllOperations, KeepsAccounts
  <2>3. CASE f.key = "language" /\ Return(t)
    BY <1>1, <1>3, <1>4, <2>2, <2>3
  <2>4. CASE f.key # "language" /\ UNCHANGED frame
             /\ Goto(t, IF f.key = "hour" THEN "hour_tell" ELSE "loc_tell")
    BY <1>1, <1>4, <2>4, OnlyThreadStays DEF Keys
  <2> QED BY <2>1, <2>3, <2>4
<1>5. CASE f.op \in KeepsAccounts
  <2>0. AfterSave(t, TRUE) /\ f.op \in KeepsAccounts
    BY <1>1, <1>5
  <2>1. \/ f.key = "hour" /\ Goto(t, "init_mark") /\ UNCHANGED frame
        \/ f.key = "hour" /\ Return(t)
        \/ /\ f.key # "hour" /\ Goto(t, "save_load")
           /\ Keep(t, [f EXCEPT !.key = NextKey(@), !.snap = NoMap])
    BY ONLY <2>0 DEF AfterSave, KeepsAccounts, AllOperations
  <2>2. f.op \notin AllOperations
    BY <1>5 DEF AllOperations, KeepsAccounts
  <2>3. CASE f.key = "hour" /\ Goto(t, "init_mark") /\ UNCHANGED frame
    BY <1>1, <1>5, <2>2, <2>3, OnlyThreadStays
  <2>4. CASE f.key = "hour" /\ Return(t)
    BY <1>1, <1>3, <1>5, <2>2, <2>4
  <2>5. CASE /\ f.key # "hour" /\ Goto(t, "save_load")
             /\ Keep(t, [f EXCEPT !.key = NextKey(@), !.snap = NoMap])
    <3>1. pc'[t] = "save_load" /\ frame'[t] = [f EXCEPT !.key = NextKey(@), !.snap = NoMap]
      BY <1>1, <2>5, OnlyThread
    <3>2. frame'[t].op = f.op /\ frame'[t].user = f.user /\ frame'[t].key = NextKey(f.key)
      BY <1>1, <3>1 DEF Frame
    <3> QED BY <1>1, <1>5, <2>5, <3>1, <3>2
  <2> QED BY <2>1, <2>3, <2>4, <2>5
<1> QED BY <1>2, <1>4, <1>5

\* A save of one key of an account, after which its language and locale agree, or one
\* of the two is still to be saved.
LEMMA SaveAgreed ==
    ASSUME CalmInv, Calm, LanguageInv, NEW t \in Threads, SaveStore(t)
    PROVE  LanguageInv'
<1> DEFINE f == frame[t]
<1>1. /\ pc[t] = "save_store" /\ f.key \in Keys /\ UNCHANGED param /\ Exchange(pc[t], f)
      /\ LanguageOf(t) /\ LegalExt /\ f.op \in AllOperations \cup KeepsAccounts
      /\ Place(pc[t], f) /\ param["locale"] \in Locale
  BY CalmNow, LanguageNow, EntryStored, SaveLeads
  DEF LanguageOf, ProgressOf, CalmInv, IInv, ParamOK
<1>2. \A k \in Keys, u \in Users :
          stored'[k][u] = IF k = f.key /\ u = f.user
                          THEN IF f.op = "RemoveUser" THEN None ELSE param[k]
                          ELSE stored[k][u]
  <2>1. \A k \in Keys, u \in Users :
            stored'[k][u] = IF k = f.key /\ u = f.user
                            THEN IF f.op = "RemoveUser" THEN None ELSE f.want[k]
                            ELSE stored[k][u]
    BY EntryStored
  <2>2. f.op # "RemoveUser" => f.want[f.key] = param[f.key]
    BY SavesCurrent
  <2> QED BY ONLY <2>1, <2>2
<1>3. param["language"] = param["locale"].lang /\ param["locale"] # None
      /\ Legal(param["locale"]) /\ f.op # "SetSystemLocale"
  BY <1>1, NoneAssumption DEF LanguageOf, HalfSet, SwitchesLanguage, LegalExt
<1>4. LegalExt'
  <2>1. ASSUME NEW u \in Users, stored'["locale"][u] # None PROVE Legal(stored'["locale"][u])
    <3>1. stored'["locale"][u] \in {stored["locale"][u], param["locale"]}
      BY <1>2, <2>1 DEF Keys
    <3> QED BY <1>1, <1>3, <2>1, <3>1 DEF LegalExt
  <2>2. Legal(param'["locale"])
    BY <1>1, <1>3
  <2> QED BY <2>1, <2>2 DEF LegalExt
<1>5. ASSUME NEW u \in Users
      PROVE  Agree(u)' \/ (frame'[t].user = u /\ HalfSaved(pc[t], frame[t])')
  <2>1. CASE u # f.user \/ f.key = "hour"
    <3>1. Agree(u)
      BY <1>1, <2>1 DEF LanguageOf, HalfSaved, Saving
    <3>2. stored'["language"][u] = stored["language"][u]
          /\ stored'["locale"][u] = stored["locale"][u]
      BY <1>2, <2>1 DEF Keys
    <3> QED BY <3>1, <3>2 DEF Agree
  <2>2. CASE u = f.user /\ f.key # "hour" /\ f.op \in AllOperations
    <3>1. u = foreground /\ SetterInv(t)
      BY <2>2, SetterNow
    <3>2. CASE f.key = "language"
      <4>1. stored'["language"][u] = param["language"]
            /\ stored'["locale"][u] = stored["locale"][u]
        BY <1>2, <2>2, <3>2 DEF Keys, AllOperations
      <4>2. stored["locale"][u] = param["locale"]
        BY <1>1, <3>1, <3>2 DEF SetterInv, Unsaved, Saving, Keys
      <4> QED BY <1>3, <4>1, <4>2 DEF Agree
    <3>3. CASE f.key = "locale" /\ f.op = "SetSystemLanguage"
      <4>1. pc'[t] = "loc_tell" /\ frame'[t] = f
        BY <1>1, <2>2, <3>3, SaveLeads DEF KeepsAccounts
      <4> QED BY <2>2, <3>3, <4>1 DEF HalfSaved
    <3>4. CASE f.key = "locale" /\ f.op # "SetSystemLanguage"
      <4>1. stored'["language"][u] = stored["language"][u]
            /\ stored'["locale"][u] = param["locale"]
        BY <1>2, <2>2, <3>4 DEF Keys, AllOperations
      <4>2. stored["language"][u] = param["language"]
        BY <1>1, <3>1, <3>4 DEF SetterInv, Unsaved, Saving, Keys
      <4> QED BY <1>3, <4>1, <4>2 DEF Agree
    <3> QED BY <1>1, <2>2, <3>2, <3>3, <3>4 DEF Keys
  <2>3. CASE u = f.user /\ f.key # "hour" /\ f.op \in KeepsAccounts
    <3>1. CASE f.key = "language"
      <4>1. /\ pc'[t] = "save_load" /\ frame'[t].op = f.op /\ frame'[t].user = u
            /\ frame'[t].key = "locale"
        BY <2>3, <3>1, SaveLeads DEF KeepsAccounts, AllOperations, NextKey
      <4> QED BY <2>3, <4>1 DEF HalfSaved, Saving, KeepsAccounts
    <3>2. CASE f.key = "locale"
      <4>1. stored'["language"][u] = stored["language"][u]
            /\ stored'["locale"][u] = IF f.op = "RemoveUser" THEN None ELSE param["locale"]
        BY <1>2, <2>3, <3>2 DEF Keys
      <4>2. stored["language"][u] = IF f.op = "RemoveUser" THEN None ELSE param["language"]
        BY <1>1, <2>3, <3>2 DEF Exchange, KeysSaved, SavedBefore, KeepsAccounts
      <4> QED BY <1>3, <4>1, <4>2 DEF Agree
    <3> QED BY <1>1, <2>3, <3>1, <3>2 DEF Keys
  <2> QED BY <1>1, <2>1, <2>2, <2>3
<1>6. pc'[t] \notin {"loc_was", "loc_set"} /\ frame'[t].op # "SetSystemLocale"
  BY <1>3, SaveLeads
<1>7. LanguageOf(t)'
  BY <1>1, <1>3, <1>4, <1>5, <1>6 DEF LanguageOf
<1> QED BY <1>7, LanguageMoves

\* An account switch: between the locale and the language the two may disagree.
LEMMA SwitchAgreed ==
    ASSUME CalmInv, Calm, LanguageInv, NEW t \in Threads, SwitchRead(t) \/ SwitchSet(t)
    PROVE  LanguageInv'
<1> DEFINE f == frame[t]
<1>1. /\ f \in Frame /\ f.want \in [Keys -> Value] /\ f.key \in Keys /\ MemOK /\ OneThread
      /\ Exchange(pc[t], f) /\ LanguageOf(t) /\ LegalExt /\ param \in [Keys -> Value]
      /\ UNCHANGED stored
  BY CalmNow, LanguageNow DEF LanguageOf, SwitchRead, SwitchSet, CalmInv, IInv, ParamOK
<1>2. f.op = "SwitchUser" /\ ~HalfSet(t) /\ ~HalfSaved(pc[t], f)
  BY CalmNow
  DEF ProgressOf, Place, SwitchRead, SwitchSet, LocaleLabels, Saving, HalfSet, HalfSaved
<1>3. CASE SwitchRead(t)
  <2>1. PICK v : /\ pc[t] = "sw_read" /\ Goto(t, "sw_set") /\ UNCHANGED param
                 /\ Keep(t, [f EXCEPT !.want[f.key] = v])
    BY <1>3 DEF SwitchRead
  <2>2. pc'[t] = "sw_set" /\ frame'[t] = [f EXCEPT !.want[f.key] = v]
    BY <1>1, <2>1, OnlyThread
  <2>3. frame'[t].op = f.op /\ frame'[t].key = f.key
    BY <1>1, <2>2 DEF Frame
  <2>4. SwitchesLanguage(pc[t], f) => SwitchesLanguage(pc[t], frame[t])'
    BY <2>2, <2>3 DEF SwitchesLanguage
  <2> QED BY <1>1, <1>2, <2>1, <2>2, <2>3, <2>4, LanguageKeeps
<1>4. CASE SwitchSet(t)
  <2>1. /\ pc[t] = "sw_set" /\ f.want[f.key] = stored[f.key][foreground]
        /\ f.want[f.key] # None /\ foreground \in Users
    BY <1>1, <1>2, <1>4, SwitchNow DEF SwitchSet, Exchange
  <2>2. param' = [param EXCEPT ![f.key] = f.want[f.key]] /\ SwitchGoOn(t)
    BY <1>4, <2>1, FewFaults DEF SwitchSet, SetParameter
  <2>3. \/ f.key = "hour" /\ pc'[t] = "sw_tell" /\ frame'[t].op = f.op
        \/ /\ f.key # "hour" /\ pc'[t] = "sw_read" /\ frame'[t].op = f.op
           /\ frame'[t].key = NextSwitchKey(f.key)
    <3>1. CASE f.key = "hour"
      BY <1>1, <2>2, <3>1, OnlyThreadStays DEF SwitchGoOn
    <3>2. CASE f.key # "hour"
      <4>1. pc'[t] = "sw_read" /\ frame'[t] = [f EXCEPT !.key = NextSwitchKey(@)]
        BY <1>1, <2>2, <3>2, OnlyThread DEF SwitchGoOn
      <4> QED BY <1>1, <3>2, <4>1 DEF Frame
    <3> QED BY <3>1, <3>2
  <2>4. CASE f.key = "locale"
    <3>1. param'["locale"] = stored["locale"][foreground] /\ stored["locale"][foreground] # None
      BY <1>1, <2>1, <2>2, <2>4
    <3>2. Legal(param'["locale"])
      BY <1>1, <2>1, <3>1 DEF LegalExt
    <3>3. SwitchesLanguage(pc[t], frame[t])'
      BY <1>2, <2>3, <2>4 DEF SwitchesLanguage, NextSwitchKey
    <3> QED BY <1>1, <1>2, <2>3, <3>2, <3>3, LanguageWritten
  <2>5. CASE f.key = "language"
    <3>1. param["locale"] = stored["locale"][foreground]
      BY <1>1, <1>2, <2>1, <2>5 DEF Exchange, KeysLoaded, LoadedBefore
    <3>2. param'["language"] = stored["language"][foreground] /\ param'["locale"] = param["locale"]
      BY <1>1, <2>1, <2>2, <2>5 DEF Keys
    <3>3. param'["language"] = param'["locale"].lang
      BY <1>2, <3>1, <3>2, ForegroundAgrees
    <3> QED BY <1>1, <1>2, <2>3, <3>2, <3>3, LanguageWritten DEF LegalExt
  <2>6. CASE f.key = "hour"
    <3>1. param["language"] = param["locale"].lang
      BY <1>1, <1>2, <2>6 DEF LanguageOf, SwitchesLanguage
    <3>2. param'["language"] = param["language"] /\ param'["locale"] = param["locale"]
      BY <1>1, <2>2, <2>6 DEF Keys
    <3> QED BY <1>1, <1>2, <2>3, <3>1, <3>2, LanguageWritten DEF LegalExt
  <2> QED BY <1>1, <2>4, <2>5, <2>6 DEF Keys
<1> QED BY <1>3, <1>4

\* A call begins with a legal locale, and the service has nothing else to do.
LEMMA CallAgreed ==
    ASSUME CalmInv, Calm, LanguageInv, "SetSystemLocale" \notin Operations,
           NEW t \in Threads, Call(t)
    PROVE  LanguageInv'
<1>1. pc[t] = "idle" /\ service = "up" /\ events = << >> /\ UNCHANGED <<param, stored>>
  BY CallBegun
<1>2. /\ MemOK /\ OneThread /\ LanguageOf(t) /\ Legal(param["locale"]) /\ initDone
      /\ param["locale"] \in Locale /\ AllIdle
  BY <1>1, CalmNow, LanguageNow
  DEF LanguageOf, LegalExt, CalmInv, Order, IInv, ParamOK, AllIdle
<1>3. ~HalfSet(t) /\ ~SwitchesLanguage(pc[t], frame[t]) /\ ~HalfSaved(pc[t], frame[t])
  BY <1>1 DEF HalfSet, SwitchesLanguage, HalfSaved, Saving
<1>4. \A k \in Keys : param[k] = stored[k][foreground]
  BY <1>1, <1>2, IdleNow DEF Announced
<1>5. param["language"] = param["locale"].lang
  BY <1>2, <1>3 DEF LanguageOf
<1>6. ASSUME NEW op \in Operations, NEW label \in {"lang_set", "loc_was", "hour_set"}, NEW f,
             Begins(t, op, label, f), label = "loc_was" => Legal(f.want["locale"])
      PROVE  LanguageInv'
  <2>1. pc'[t] = label /\ frame'[t] = f /\ frame'[t].op = op
    BY <1>2, <1>6, OnlyThread DEF Begins
  <2> QED BY <1>1, <1>3, <1>6, <2>1, LanguageKeeps
<1>7. PICK f :
        \/ Begins(t, "SetSystemLanguage", "lang_set", f)
        \/ /\ Begins(t, "SetSystemRegion", "loc_was", f)
           /\ \E r \in Regions : f.want["locale"] = UpdateRegionOfLocale(r)
        \/ Begins(t, "SetSystemLocale", "loc_was", f)
        \/ /\ Begins(t, "SetExtParam", "loc_was", f)
           /\ \E k \in ExtKeys, v \in ExtValues :
                 LET locale == Fallback(stored["locale"][foreground], "locale")
                 IN  /\ LanguageSupports(
                           Fallback(stored["language"][foreground], "language"), k, v)
                     /\ RegionSupports(locale, k, v)
                     /\ f.want["locale"] = ModifyExtParam(locale, k, v)
        \/ /\ Begins(t, "SetUsingLocalDigit", "loc_was", f)
           /\ \E v \in {None, LocalDigit[param["locale"].lang]} :
                 /\ LocalDigit[param["locale"].lang] # None
                 /\ f.want["locale"] = ModifyExtParam(param["locale"], NumberKey, v)
        \/ Begins(t, "Set24HourClock", "hour_set", f)
  BY CallBegun
<1>8. CASE Begins(t, "SetSystemLanguage", "lang_set", f)
  BY <1>6, <1>8 DEF Begins
<1>9. CASE /\ Begins(t, "SetSystemRegion", "loc_was", f)
           /\ \E r \in Regions : f.want["locale"] = UpdateRegionOfLocale(r)
  <2>1. Legal(f.want["locale"])
    BY <1>2, <1>9, LegalUpdated
  <2> QED BY <1>6, <1>9, <2>1 DEF Begins
<1>10. CASE /\ Begins(t, "SetExtParam", "loc_was", f)
            /\ \E k \in ExtKeys, v \in ExtValues :
                  LET locale == Fallback(stored["locale"][foreground], "locale")
                  IN  /\ LanguageSupports(
                            Fallback(stored["language"][foreground], "language"), k, v)
                      /\ RegionSupports(locale, k, v)
                      /\ f.want["locale"] = ModifyExtParam(locale, k, v)
  <2>1. /\ Fallback(stored["locale"][foreground], "locale") = param["locale"]
        /\ Fallback(stored["language"][foreground], "language") = param["locale"].lang
    BY <1>4, <1>5 DEF Fallback, Keys
  <2>2. PICK k \in ExtKeys, v \in ExtValues :
            /\ LanguageSupports(param["locale"].lang, k, v)
            /\ RegionSupports(param["locale"], k, v)
            /\ f.want["locale"] = ModifyExtParam(param["locale"], k, v)
    BY <1>10, <2>1
  <2>3. Legal(ModifyExtParam(param["locale"], k, v))
    BY <1>2, <2>2, LegalModified DEF LanguageSupports, RegionSupports
  <2>4. Legal(f.want["locale"])
    BY <2>2, <2>3
  <2> QED BY <1>6, <1>10, <2>4 DEF Begins
<1>11. CASE /\ Begins(t, "SetUsingLocalDigit", "loc_was", f)
            /\ \E v \in {None, LocalDigit[param["locale"].lang]} :
                  f.want["locale"] = ModifyExtParam(param["locale"], NumberKey, v)
  <2>1. PICK v \in {None, LocalDigit[param["locale"].lang]} :
            f.want["locale"] = ModifyExtParam(param["locale"], NumberKey, v)
    BY <1>11
  <2>2. /\ v \in LanguageValues[param["locale"].lang] \cup {None}
        /\ NumberKey \in ExtKeys /\ NumberKey \notin CustKeys
    BY <1>2, <2>1, ConstantsAssumption DEF Locale
  <2>3. Legal(ModifyExtParam(param["locale"], NumberKey, v))
    BY <1>2, <2>2, LegalModified
  <2>4. Legal(f.want["locale"])
    BY <2>1, <2>3
  <2> QED BY <1>6, <1>11, <2>4 DEF Begins
<1>12. CASE Begins(t, "SetSystemLocale", "loc_was", f)
  BY <1>12 DEF Begins
<1>13. CASE Begins(t, "Set24HourClock", "hour_set", f)
  BY <1>6, <1>13 DEF Begins
<1> QED BY <1>7, <1>8, <1>9, <1>10, <1>11, <1>12, <1>13

LEMMA LanguageKept ==
    ASSUME CalmInv, Calm, LanguageInv, "SetSystemLocale" \notin Operations, [Next]_vars
    PROVE  LanguageInv'
<1>1. ASSUME NEW t \in Threads, pc[t] = "idle", UNCHANGED <<param, stored>>,
             pc'[t] \notin {"loc_was", "loc_set"}, frame'[t].op # "SetSystemLocale"
      PROVE  LanguageInv'
  <2>1. ~HalfSet(t) /\ ~SwitchesLanguage(pc[t], frame[t]) /\ ~HalfSaved(pc[t], frame[t])
    BY <1>1 DEF HalfSet, SwitchesLanguage, HalfSaved, Saving
  <2> QED BY <1>1, <2>1, LanguageKeeps
<1>0. ASSUME ~ \E t \in Threads : TRUE, UNCHANGED <<param, stored>> PROVE LanguageInv'
  BY <1>0 DEF LanguageInv, ParamAgree, SavedAgree, Agree, LegalExt, WantsLegal, NotCalled
<1>2. CASE UNCHANGED <<param, stored, pc, frame>>
  <2>1. ASSUME NEW t \in Threads PROVE LanguageInv'
    <3>1. /\ HalfSet(t) => HalfSet(t)'
          /\ SwitchesLanguage(pc[t], frame[t]) => SwitchesLanguage(pc[t], frame[t])'
          /\ HalfSaved(pc[t], frame[t]) => HalfSaved(pc[t], frame[t])'
      BY <1>2 DEF HalfSet, SwitchesLanguage, HalfSaved
    <3>2. pc[t] \in {"loc_was", "loc_set"} => Legal(frame[t].want["locale"])
      BY LanguageNow DEF LanguageOf
    <3>3. frame[t].op # "SetSystemLocale"
      BY LanguageNow DEF LanguageOf
    <3> QED BY <1>2, <3>1, <3>2, <3>3, LanguageKeeps
  <2> QED BY <1>0, <1>2, <2>1
<1>3. ASSUME NEW t \in Threads, Step(t) PROVE LanguageInv'
  BY <1>3, LanguageAgreed, LocaleAgreed, OthersAgreed, ReadAgreed, SaveAgreed, SwitchAgreed
     DEF Step
<1>4. ASSUME NEW t \in Threads, HandleEvent(t) PROVE LanguageInv'
  <2>1. pc[t] = "idle" /\ UNCHANGED <<param, stored>> /\ MemOK
    BY <1>4, CalmNow DEF HandleEvent
  <2>2. frame'[t].op # "SetSystemLocale"
    BY <1>4, HandleCalm
  <2>3. \E label \in {"sw_read", "add_read", "save_load"} : Goto(t, label)
    <3>1. Head(events).type \in {"switched", "added", "removed"}
      <4>1. PICK type, u : type \in {"switched", "added", "removed"} /\ Announced(type, u)
        BY <1>4 DEF HandleEvent, CalmInv, Order, EventsInOrder
      <4>2. Head(events) = [type |-> type, user |-> u]
        BY <4>1 DEF Announced
      <4> QED BY <4>1, <4>2
    <3> QED BY <1>4, <3>1 DEF HandleEvent
  <2>4. pc'[t] \in {"sw_read", "add_read", "save_load"}
    BY <2>1, <2>3 DEF Goto, MemOK
  <2> QED BY <1>1, <2>1, <2>2, <2>4
<1>5. ASSUME NEW t \in Threads, InitMultiUser(t) PROVE LanguageInv'
  <2>1. pc[t] = "idle" /\ UNCHANGED <<param, stored>> /\ MemOK /\ OneThread
    BY <1>5, CalmNow DEF InitMultiUser
  <2>2. CASE UNCHANGED mem
    BY <1>2, <2>1, <2>2 DEF mem
  <2>3. CASE /\ Goto(t, "add_read")
             /\ Keep(t, [NoFrame EXCEPT !.op = "InitMultiUser", !.user = foreground])
    <3>1. /\ pc'[t] = "add_read"
          /\ frame'[t] = [NoFrame EXCEPT !.op = "InitMultiUser", !.user = foreground]
      BY <2>1, <2>3, OnlyThread
    <3>2. frame'[t].op = "InitMultiUser"
      BY <3>1 DEF NoFrame
    <3> QED BY <1>1, <2>1, <3>1, <3>2
  <2> QED BY <1>5, <2>2, <2>3 DEF InitMultiUser
<1>6. CASE Unload
  <2>1. UNCHANGED <<param, stored>>
    BY <1>6 DEF Unload, ProcessEnds
  <2>2. ASSUME NEW t \in Threads PROVE LanguageInv'
    <3>1. pc[t] = "idle" /\ pc'[t] = "idle" /\ frame'[t] = NoFrame
      BY <1>6 DEF Unload, ProcessEnds, AllIdle
    <3> QED BY <1>1, <2>1, <3>1 DEF NoFrame
  <2> QED BY <1>0, <2>1, <2>2
<1>7. CASE Start \/ Account \/ UNCHANGED vars
  BY <1>2, <1>7
  DEF Start, Account, AccountAdded, AccountSwitched, AccountRemoved, Announce, mem, vars
<1>8. ~Kill
  BY FewFaults DEF Kill
<1> QED BY <1>3, <1>4, <1>5, <1>6, <1>7, <1>8, CallAgreed DEF Next

LEMMA LanguageInitial == Init => LanguageInv
<1> SUFFICES ASSUME Init PROVE LanguageInv
  OBVIOUS
<1>1. PICK l \in Languages, r \in Regions :
          param["language"] = l /\ param["locale"] = [lang |-> l, region |-> r, ext |-> NoExt]
  BY DEF Init, Keys
<1>2. Legal(param["locale"])
  BY <1>1, ConstantsAssumption DEF Legal, NoExt
<1>3. \A k \in Keys, u \in Users : stored[k][u] = None
  BY DEF Init, NoMap
<1>4. \A t \in Threads : pc[t] = "idle" /\ frame[t].op = "none"
  BY DEF Init, NoFrame
<1> QED BY <1>1, <1>2, <1>3, <1>4
        DEF LanguageInv, ParamAgree, SavedAgree, Agree, LegalExt, WantsLegal, NotCalled, Keys

LEMMA LanguageInvariant ==
    ASSUME Calm, "SetSystemLocale" \notin Operations
    PROVE  Spec => [](CalmInv /\ LanguageInv)
BY CalmInitial, LanguageInitial, CalmKept, LanguageKept, PTL DEF Spec

\* While the service is calm and nobody calls SetSystemLocale: neither a setter nor an
\* account switch combines a locale with an extension parameter that its language, or its
\* language and region, does not support, in the parameters or the Preferences.
THEOREM ExtensionsLegal ==
    ASSUME Calm, "SetSystemLocale" \notin Operations PROVE Spec => []LegalExt
<1>1. LanguageInv => LegalExt
  BY DEF LanguageInv
<1> QED BY <1>1, LanguageInvariant, PTL

\* While the service is calm and nobody calls SetSystemLocale: between the calls and
\* events LANGUAGE_KEY is the language of LOCALE_KEY, also after a SetSystemLanguage
\* whose SetParameter failed for either key, and after switches none of whose own
\* SetParameter failed.
THEOREM LanguagesAgree ==
    ASSUME Calm, "SetSystemLocale" \notin Operations PROVE Spec => []LanguageAgrees
<1>1. CalmInv /\ LanguageInv => LanguageAgrees
  BY DEF LanguageInv, LanguageAgrees, ParamAgree, AllIdle, HalfSet, SwitchesLanguage
<1> QED BY <1>1, LanguageInvariant, PTL

\* While the service is calm and nobody calls SetSystemLocale: between the calls and
\* events the language saved for an account is that of the locale saved for it.
THEOREM SavedLanguagesAgree ==
    ASSUME Calm, "SetSystemLocale" \notin Operations PROVE Spec => []SavedLanguageAgrees
<1>1. CalmInv /\ LanguageInv => SavedLanguageAgrees
  BY DEF LanguageInv, SavedLanguageAgrees, SavedAgree, Agree, AllIdle, HalfSaved, Saving
<1> QED BY <1>1, LanguageInvariant, PTL

-----------------------------------------------------------------------------
(* LocaleSettings implements UserSettings: where an account's settings are. *)

\* Nothing is loaded or saved for an account: the foreground account's settings are the
\* parameters, those of the others are in the Preferences.
Undisturbed ==
    events = << >> /\ \A t \in Threads : frame[t].op \notin {"SwitchUser", "AddUser"}

LEMMA ForegroundOnly ==
    /\ Undisturbed => \A u : InParameters(u) <=> u = foreground
    /\ Undisturbed' => \A u : InParameters(u)' <=> u = foreground'
BY DEF Undisturbed, InParameters, Pending

\* What is pending is what is announced or served.
LEMMA PendingNow ==
    ASSUME CalmInv
    PROVE  \A type, op, u : Pending(type, op, u) <=> Awaits(type, op, u)
<1>1. events = << >> \/ \E ty, w : events = <<[type |-> ty, user |-> w]>>
  BY DEF CalmInv, Order, EventsInOrder, Announced
<1> QED BY <1>1 DEF Pending, Awaits, Announced, Serves

LEMMA PendingNext ==
    ASSUME CalmInv'
    PROVE  \A type, op, u : Pending(type, op, u)' <=> Awaits(type, op, u)'
<1>1. events' = << >> \/ \E ty, w : events' = <<[type |-> ty, user |-> w]>>
  BY DEF CalmInv, Order, EventsInOrder, Announced
<1> QED BY <1>1 DEF Pending, Awaits, Announced, Serves

\* The settings in force, seen from the only thread.
LEMMA ForceNow ==
    ASSUME Calm, NEW t \in Threads
    PROVE  /\ InForce = [language |-> IF HalfSet(t) THEN frame[t].old ELSE param["language"],
                         locale |-> param["locale"], hour |-> param["hour"]]
           /\ InForce' = [language |-> IF HalfSet(t)' THEN frame'[t].old ELSE param'["language"],
                          locale |-> param'["locale"], hour |-> param'["hour"]]
<1>1. \A s \in Threads : s = t
  BY DEF Calm, OneThread
<1>2. HalfSet(t) => (CHOOSE s \in Threads : HalfSet(s)) = t
  BY <1>1
<1>3. HalfSet(t)' => (CHOOSE s \in Threads : HalfSet(s)') = t
  BY <1>1
<1>4. (\E s \in Threads : HalfSet(s)) <=> HalfSet(t)
  BY <1>1
<1>5. (\E s \in Threads : HalfSet(s)') <=> HalfSet(t)'
  BY <1>1
<1> QED BY <1>2, <1>3, <1>4, <1>5 DEF InForce

LEMMA ForceWhole ==
    /\ (\A s \in Threads : ~HalfSet(s)) =>
           InForce = [language |-> param["language"], locale |-> param["locale"],
                      hour |-> param["hour"]]
    /\ (\A s \in Threads : ~HalfSet(s)') =>
           InForce' = [language |-> param'["language"], locale |-> param'["locale"],
                       hour |-> param'["hour"]]
BY DEF InForce

\* A step that changes the settings of no account.
LEMMA Stutters ==
    ASSUME UNCHANGED <<accounts, foreground>>,
           \A u \in accounts \cap Users : SettingsOf(u)' = SettingsOf(u)
    PROVE  UNCHANGED Abstract!vars
<1>1. AccountSettings' = AccountSettings
  BY DEF AccountSettings
<1> QED BY <1>1 DEF Abstract!vars

\* A step that changes those of the foreground account.
LEMMA Changes ==
    ASSUME foreground \in accounts, accounts \subseteq Users,
           UNCHANGED <<accounts, foreground>>, NEW s, SettingsOf(foreground)' = s,
           \A u \in accounts \ {foreground} : SettingsOf(u)' = SettingsOf(u)
    PROVE  Abstract!Change(s) /\ Abstract!Own = SettingsOf(foreground)
<1>1. AccountSettings' = [AccountSettings EXCEPT ![foreground] = s]
  BY DEF AccountSettings
<1>2. Abstract!Own = SettingsOf(foreground)
  BY DEF AccountSettings, Abstract!Own
<1> QED BY <1>1, <1>2 DEF Abstract!Change

LEMMA ForceSame ==
    ASSUME Calm, NEW t \in Threads, UNCHANGED param, HalfSet(t)' <=> HalfSet(t),
           HalfSet(t) => frame'[t].old = frame[t].old
    PROVE  InForce' = InForce
BY ForceNow

-----------------------------------------------------------------------------
(* The setters, as steps of UserSettings. *)

\* A call changes the settings of no account but the foreground's.
LEMMA SetterView ==
    ASSUME CalmInv, Calm, NEW t \in Threads, events = << >>, UNCHANGED env,
           frame[t].op \in AllOperations \cup {"none"},
           frame'[t].op \in AllOperations \cup {"none"},
           \A k \in Keys, u \in Users \ {foreground} : stored'[k][u] = stored[k][u]
    PROVE  /\ foreground \in accounts /\ accounts \subseteq Users
           /\ SettingsOf(foreground) = InForce /\ SettingsOf(foreground)' = InForce'
           /\ \A u \in accounts \ {foreground} : SettingsOf(u)' = SettingsOf(u)
           /\ InForce' = InForce => UNCHANGED Abstract!vars
<1>1. /\ foreground \in accounts /\ accounts \subseteq Users /\ \A s \in Threads : s = t
  BY CalmNow DEF CalmInv, IInv, EnvOK
<1>2. Undisturbed /\ Undisturbed'
  BY <1>1 DEF Undisturbed, AllOperations, env
<1>3. SettingsOf(foreground) = InForce /\ SettingsOf(foreground)' = InForce'
  BY <1>2, ForegroundOnly DEF SettingsOf
<1>4. ASSUME NEW u \in accounts \ {foreground} PROVE SettingsOf(u)' = SettingsOf(u)
  <2>1. SettingsOf(u) = Saved(u) /\ SettingsOf(u)' = Saved(u)'
    BY <1>2, ForegroundOnly DEF SettingsOf, env
  <2>2. Saved(u)' = Saved(u)
    BY <1>1 DEF Saved, Keys
  <2> QED BY <2>1, <2>2
<1>5. ASSUME InForce' = InForce PROVE UNCHANGED Abstract!vars
  BY <1>3, <1>4, <1>5, Stutters DEF env
<1> QED BY <1>1, <1>3, <1>4, <1>5

\* SetSystemLanguage before it sets the locale, and taking the language back.
LEMMA LanguageRefines ==
    ASSUME CalmInv, Calm, NEW t \in Threads,
           LanguageSet(t) \/ LanguageLocale(t) \/ LanguageUndo(t)
    PROVE  UNCHANGED Abstract!vars
<1> DEFINE f == frame[t]
<1>1. /\ f.op = "SetSystemLanguage" /\ MemOK /\ OneThread /\ f \in Frame
      /\ f.want \in [Keys -> Value] /\ param \in [Keys -> Value]
      /\ UNCHANGED <<stored, env>>
  BY CalmNow DEF LanguageSet, LanguageLocale, LanguageUndo, ThreadOK, CalmInv, IInv, ParamOK
<1>2. SetterInv(t) /\ f.op \in AllOperations /\ events = << >>
  BY <1>1, SetterNow DEF AllOperations
<1>3. frame'[t].op \in AllOperations \cup {"none"}
  BY <1>2, SameOperation DEF Step, NoFrame
<1>4. ASSUME Return(t) PROVE ~HalfSet(t)'
  BY <1>1, <1>4, OnlyThread DEF Return, HalfSet
<1>5. CASE LanguageSet(t)
  <2>1. pc[t] = "lang_set" /\ ~HalfSet(t)
    BY <1>5 DEF LanguageSet, HalfSet
  <2>2. InForce' = InForce
    <3>1. CASE Return(t) /\ UNCHANGED param
      BY <1>4, <2>1, <3>1, ForceSame
    <3>2. CASE /\ param' = [param EXCEPT !["language"] = f.want["language"]]
               /\ Goto(t, "lang_locale") /\ UNCHANGED frame
      <4>1. pc'[t] = "lang_locale" /\ frame'[t] = f
        BY <1>1, <3>2, OnlyThreadStays
      <4>2. HalfSet(t)'
        BY <1>1, <4>1 DEF HalfSet
      <4>3. f.old = param["language"]
        BY <1>1, <1>2, <2>1 DEF SetterInv, Unsaved, Saving, Keys
      <4>4. param'["locale"] = param["locale"] /\ param'["hour"] = param["hour"]
        BY <1>1, <3>2 DEF Keys
      <4> QED BY <2>1, <4>1, <4>2, <4>3, <4>4, ForceNow
    <3> QED BY <1>5, <3>1, <3>2 DEF LanguageSet, SetParameter
  <2> QED BY <1>1, <1>2, <1>3, <2>2, SetterView
<1>6. CASE LanguageLocale(t)
  <2> DEFINE g == [f EXCEPT !.want["locale"] = UpdateLanguageOfLocale(f.want["language"])]
  <2>1. pc[t] = "lang_locale" /\ Goto(t, "loc_was") /\ Keep(t, g) /\ UNCHANGED param
    BY <1>6 DEF LanguageLocale
  <2>2. g.op = f.op /\ g.old = f.old
    BY <1>1 DEF Frame
  <2> HIDE DEF g
  <2>3. HalfSet(t) /\ HalfSet(t)' /\ frame'[t].old = f.old
    BY <1>1, <2>1, <2>2, OnlyThread DEF HalfSet
  <2>4. InForce' = InForce
    BY <2>1, <2>3, ForceSame
  <2> QED BY <1>1, <1>2, <1>3, <2>4, SetterView
<1>7. CASE LanguageUndo(t)
  <2>1. Return(t) /\ pc[t] = "lang_undo" /\ HalfSet(t)
    BY <1>1, <1>7 DEF LanguageUndo, HalfSet
  <2>2. ~Fault("param")
    BY <1>1, <1>2, <2>1, ConstantsAssumption DEF Fault, SetterInv
  <2>3. param' = [param EXCEPT !["language"] = f.old]
    BY <1>7, <2>2 DEF LanguageUndo, SetParameter
  <2>4. /\ param'["language"] = f.old /\ param'["locale"] = param["locale"]
        /\ param'["hour"] = param["hour"]
    BY <1>1, <2>3 DEF Keys
  <2>5. InForce' = InForce
    BY <1>4, <2>1, <2>4, ForceNow
  <2> QED BY <1>1, <1>2, <1>3, <2>5, SetterView
<1> QED BY <1>5, <1>6, <1>7

\* Every other step of a setter that writes no parameter.
LEMMA SetterStutters ==
    ASSUME CalmInv, Calm, NEW t \in Threads,
           frame[t].op \in AllOperations,
           LocaleWas(t) \/ LocaleNow(t) \/ LocaleTell(t) \/ LocaleEvent(t)
              \/ HourTell(t) \/ HourEvent(t) \/ SaveLoad(t) \/ SaveStore(t)
    PROVE  UNCHANGED Abstract!vars
<1> DEFINE f == frame[t]
<1>1. /\ MemOK /\ OneThread /\ f \in Frame /\ f.user = foreground /\ events = << >>
      /\ UNCHANGED <<param, env>>
  BY CalmNow, SetterNow
  DEF LocaleWas, LocaleNow, LocaleTell, LocaleEvent, HourTell, HourEvent, SaveLoad, SaveStore
<1>2. frame'[t].op \in AllOperations \cup {"none"}
  BY SameOperation DEF Step, NoFrame
<1>3. \A k \in Keys, u \in Users \ {foreground} : stored'[k][u] = stored[k][u]
  <2>1. CASE SaveStore(t)
    <3>1. \A k \in Keys, u \in Users :
              stored'[k][u] = IF k = f.key /\ u = f.user
                              THEN IF f.op = "RemoveUser" THEN None ELSE f.want[k]
                              ELSE stored[k][u]
      BY <2>1, EntryStored
    <3> QED BY <1>1, <3>1
  <2>2. CASE ~SaveStore(t)
    BY <2>2
    DEF LocaleWas, LocaleNow, LocaleTell, LocaleEvent, HourTell, HourEvent, SaveLoad
  <2> QED BY <2>1, <2>2
<1>4. InForce' = InForce
  <2>1. CASE LocaleWas(t)
    <3>1. /\ pc[t] = "loc_was" /\ Goto(t, "loc_set")
          /\ Keep(t, [f EXCEPT !.was24 = Is24HourClock])
      BY <2>1 DEF LocaleWas
    <3>2. pc'[t] = "loc_set" /\ frame'[t] = [f EXCEPT !.was24 = Is24HourClock]
      BY ONLY <1>1, <3>1, OnlyThread
    <3>3. frame'[t].op = f.op /\ frame'[t].old = f.old
      BY ONLY <1>1, <3>2 DEF Frame
    <3> QED BY <1>1, <3>1, <3>2, <3>3, ForceSame DEF HalfSet
  <2>2. CASE ~LocaleWas(t)
    <3>1. ~HalfSet(t)
      BY <2>2
      DEF LocaleNow, LocaleTell, LocaleEvent, HourTell, HourEvent, SaveLoad, SaveStore, HalfSet
    <3>2. pc'[t] \notin {"lang_locale", "loc_was", "loc_set", "lang_undo"}
      <4>1. CASE SaveStore(t)
        BY <4>1, SaveLeads
      <4>2. CASE ~SaveStore(t)
        <5>1. \E label \in {"save_load", "loc_event", "hour_event", "idle", "save_store"} :
                  Goto(t, label)
          BY <2>2, <4>2, FewFaults
          DEF LocaleNow, LocaleTell, LocaleEvent, HourTell, HourEvent, SaveLoad, Return
        <5> QED BY <1>1, <5>1 DEF Goto, MemOK
      <4> QED BY <4>1, <4>2
    <3> QED BY <1>1, <3>1, <3>2, ForceSame DEF HalfSet
  <2> QED BY <2>1, <2>2
<1> QED BY <1>1, <1>2, <1>3, <1>4, SetterView

\* The step that counts: SetSystemLocale sets the locale of the foreground account, and
\* its language with it if SetSystemLanguage asked for that.
LEMMA LocaleRefines ==
    ASSUME CalmInv, Calm, NEW t \in Threads, LocaleSet(t)
    PROVE  [Abstract!Next]_Abstract!vars
<1> DEFINE f == frame[t]
<1>1. /\ f.op \in LocaleSetters \cup {"SetSystemLanguage"} /\ f.op \in AllOperations
      /\ f \in Frame /\ f.want \in [Keys -> Value] /\ param \in [Keys -> Value]
      /\ MemOK /\ OneThread /\ pc[t] = "loc_set" /\ UNCHANGED <<stored, env>>
      /\ events = << >>
  BY LocaleSetterNow, SetterNow DEF LocaleSet, LocaleLabels
<1>2. frame'[t].op \in AllOperations \cup {"none"}
  BY <1>1, SameOperation DEF Step, NoFrame
<1>3. HalfSet(t) <=> f.op = "SetSystemLanguage"
  BY <1>1 DEF HalfSet
<1>4. InForce = [language |-> IF HalfSet(t) THEN f.old ELSE param["language"],
                 locale |-> param["locale"], hour |-> param["hour"]]
  BY ForceNow
<1>5. CASE LocaleFailed(t) /\ UNCHANGED param
  <2>1. HalfSet(t)' <=> HalfSet(t)
    <3>1. CASE f.op = "SetSystemLanguage"
      <4>1. pc'[t] = "lang_undo" /\ frame'[t] = f
        BY <1>1, <1>5, <3>1, OnlyThreadStays DEF LocaleFailed
      <4> QED BY <1>3, <3>1, <4>1 DEF HalfSet
    <3>2. CASE f.op # "SetSystemLanguage"
      <4>1. pc'[t] = "idle"
        BY <1>1, <1>5, <3>2, OnlyThread DEF LocaleFailed, Return
      <4> QED BY <1>3, <3>2, <4>1 DEF HalfSet
    <3> QED BY <3>1, <3>2
  <2>2. HalfSet(t) => frame'[t].old = f.old
    BY <1>3, <1>5 DEF LocaleFailed
  <2>3. InForce' = InForce
    BY <1>5, <2>1, <2>2, ForceSame
  <2> QED BY <1>1, <1>2, <2>3, SetterView
<1>6. CASE param' = [param EXCEPT !["locale"] = f.want["locale"]] /\ Goto(t, "loc_now")
           /\ UNCHANGED frame
  <2> DEFINE l == f.want["locale"]
             own == InForce
             new == InForce'
  <2>1. pc'[t] = "loc_now"
    BY <1>1, <1>6, OnlyThreadStays
  <2>2. InForce' = [language |-> param["language"], locale |-> l, hour |-> param["hour"]]
    <3>1. /\ param'["language"] = param["language"] /\ param'["hour"] = param["hour"]
          /\ param'["locale"] = l
      BY <1>1, <1>6 DEF Keys
    <3> QED BY <2>1, <3>1, ForceNow DEF HalfSet
  <2>3. Abstract!Change(InForce') /\ Abstract!Own = InForce
    BY <1>1, <1>2, SetterView, Changes DEF env
  <2>4. Replaces("loc_set", f) /\ ThreadOK("loc_set", f) /\ ProgressOf("loc_set", f, param)
        /\ param["locale"] \in Locale
    BY <1>1, CalmNow DEF CalmInv, IInv, ParamOK
  <2>5. CASE f.op = "SetSystemLanguage"
    <3>1. param["language"] = f.want["language"] /\ f.want["language"] \in Languages
      BY <2>4, <2>5 DEF ProgressOf, Done, ThreadOK, LocaleSetters
    <3>2. l = UpdateLanguageOfLocale(param["language"])
      BY <2>4, <2>5, <3>1 DEF Replaces
    <3>3. InForce' = [language |-> param["language"],
              locale |-> [InForce.locale EXCEPT !.lang = param["language"],
                  !.ext = Abstract!Without(InForce.locale.ext, LanguageKeys \cup CustKeys)],
              hour |-> InForce.hour]
      BY <1>4, <2>2, <3>2 DEF UpdateLanguageOfLocale, Drop, Abstract!Without
    <3>4. Abstract!SetSystemLanguage(param["language"])
      BY <2>3, <3>3 DEF Abstract!SetSystemLanguage
    <3> QED BY <3>1, <3>4 DEF Abstract!Next
  <2>6. CASE f.op = "SetSystemRegion"
    <3>1. PICK r \in Regions : l = UpdateRegionOfLocale(r)
      BY <2>4, <2>6 DEF Replaces
    <3>2. InForce' = [InForce EXCEPT !.locale =
              [InForce.locale EXCEPT !.region = r,
                  !.ext = Abstract!Without(InForce.locale.ext, CustKeys)]]
      BY <1>3, <1>4, <2>2, <2>4, <2>6, <3>1
      DEF UpdateRegionOfLocale, Drop, Abstract!Without, Locale
    <3>3. Abstract!SetSystemRegion(r)
      BY <2>3, <3>2 DEF Abstract!SetSystemRegion
    <3> QED BY <3>3 DEF Abstract!Next
  <2>7. CASE f.op = "SetSystemLocale"
    <3>1. PICK a \in Languages, r \in Regions : l = [lang |-> a, region |-> r, ext |-> NoExt]
      BY <2>4, <2>7 DEF Replaces
    <3>2. InForce' = [InForce EXCEPT !.locale = [lang |-> a, region |-> r,
                                                 ext |-> [k \in ExtKeys |-> None]]]
      BY <1>3, <1>4, <2>2, <2>7, <3>1 DEF NoExt
    <3>3. Abstract!SetSystemLocale(a, r)
      BY <2>3, <3>2 DEF Abstract!SetSystemLocale
    <3> QED BY <3>3 DEF Abstract!Next
  <2>8. CASE f.op \in {"SetExtParam", "SetUsingLocalDigit"}
    <3>1. PICK k \in ExtKeys, v \in ExtValues \cup {None} :
              l = ModifyExtParam(param["locale"], k, v)
      BY <2>4, <2>8 DEF Replaces
    <3>2. InForce' = [InForce EXCEPT !.locale.ext[k] = v]
      BY <1>3, <1>4, <2>2, <2>4, <2>8, <3>1 DEF ModifyExtParam, Locale
    <3>3. Abstract!SetExtension(k, v)
      BY <2>3, <3>2 DEF Abstract!SetExtension
    <3> QED BY <3>3 DEF Abstract!Next
  <2> QED BY <1>1, <2>5, <2>6, <2>7, <2>8 DEF LocaleSetters
<1> QED BY <1>5, <1>6 DEF LocaleSet, SetParameter

\* Set24HourClock sets the hour.
LEMMA HourRefines ==
    ASSUME CalmInv, Calm, NEW t \in Threads, HourSet(t)
    PROVE  [Abstract!Next]_Abstract!vars
<1> DEFINE f == frame[t]
           h == f.want["hour"]
<1>1. /\ pc[t] = "hour_set" /\ f \in Frame /\ f.want \in [Keys -> Value]
      /\ param \in [Keys -> Value] /\ MemOK /\ OneThread /\ UNCHANGED <<stored, env>>
      /\ h \in Hours /\ Place(pc[t], f)
  BY CalmNow DEF HourSet, CalmInv, IInv, ParamOK, ThreadOK, ProgressOf
<1>2. f.op \in AllOperations /\ events = << >>
  <2>1. f.op = "Set24HourClock"
    BY <1>1 DEF Place, LocaleLabels, Saving
  <2>2. f.op \in AllOperations
    BY <2>1 DEF AllOperations
  <2> QED BY <2>2, SetterNow
<1>3. frame'[t].op \in AllOperations \cup {"none"}
  BY <1>2, SameOperation DEF Step, NoFrame
<1>4. pc'[t] \in {"idle", "save_load"}
  <2>1. Goto(t, "idle") \/ Goto(t, "save_load")
    BY DEF HourSet, Return
  <2> QED BY <1>1, <2>1 DEF Goto, MemOK
<1>5. ~HalfSet(t) /\ ~HalfSet(t)'
  BY <1>1, <1>4 DEF HalfSet
<1>6. CASE UNCHANGED param
  <2>1. InForce' = InForce
    BY <1>5, <1>6, ForceSame
  <2> QED BY <1>1, <1>2, <1>3, <2>1, SetterView
<1>7. CASE param' = [param EXCEPT !["hour"] = h]
  <2>1. /\ param'["language"] = param["language"] /\ param'["locale"] = param["locale"]
        /\ param'["hour"] = h
    BY <1>1, <1>7 DEF Keys
  <2>2. InForce' = [InForce EXCEPT !.hour = h]
    BY <1>5, <2>1, ForceNow
  <2>3. Abstract!Change(InForce') /\ Abstract!Own = InForce
    BY <1>1, <1>2, <1>3, SetterView, Changes DEF env
  <2>4. Abstract!Set24HourClock(h)
    BY <2>2, <2>3 DEF Abstract!Set24HourClock
  <2> QED BY <1>1, <2>4 DEF Abstract!Next
<1> QED BY <1>6, <1>7 DEF HourSet, SetParameter

-----------------------------------------------------------------------------
(* The account events and the life of the service, as steps of UserSettings. *)

\* Where the settings of an account are, by what it awaits.
LEMMA Sources ==
    ASSUME CalmInv, CalmInv'
    PROVE  /\ \A u : InParameters(u) <=> IF u = foreground
                                         THEN ~Awaits("switched", "SwitchUser", u)
                                         ELSE Awaits("added", "AddUser", u)
           /\ \A u : InParameters(u)' <=> IF u = foreground'
                                          THEN ~Awaits("switched", "SwitchUser", u)'
                                          ELSE Awaits("added", "AddUser", u)'
BY PendingNow, PendingNext DEF InParameters

\* The settings of an account move between the parameters and the Preferences, when
\* they are the same in both.
LEMMA SettingsMove ==
    ASSUME UNCHANGED <<accounts, foreground>>,
           \A u \in accounts \cap Users :
              \/ InParameters(u) /\ InParameters(u)' /\ InForce' = InForce
              \/ ~InParameters(u) /\ ~InParameters(u)' /\ Saved(u)' = Saved(u)
              \/ InParameters(u) /\ ~InParameters(u)' /\ Saved(u)' = InForce
              \/ ~InParameters(u) /\ InParameters(u)' /\ Saved(u) = InForce'
    PROVE  UNCHANGED Abstract!vars
<1>1. \A u \in accounts \cap Users : SettingsOf(u)' = SettingsOf(u)
  BY DEF SettingsOf
<1> QED BY <1>1, Stutters

\* With no setter at work the parameters are in force as they are.
LEMMA ForceIdle ==
    ASSUME \A s \in Threads : frame[s].op \notin AllOperations
    PROVE  InForce = [language |-> param["language"], locale |-> param["locale"],
                      hour |-> param["hour"]]
<1>1. \A s \in Threads : ~HalfSet(s)
  BY DEF HalfSet, AllOperations
<1> QED BY <1>1, ForceWhole

LEMMA ForceIdleNext ==
    ASSUME \A s \in Threads : frame'[s].op \notin AllOperations
    PROVE  InForce' = [language |-> param'["language"], locale |-> param'["locale"],
                       hour |-> param'["hour"]]
<1>1. \A s \in Threads : ~HalfSet(s)'
  BY DEF HalfSet, AllOperations
<1> QED BY <1>1, ForceWhole

\* What a thread that saves all settings of an account does to the saved ones.
LEMMA SaverStores ==
    ASSUME CalmInv, CalmInv', Calm, NEW t \in Threads, frame[t].op \in KeepsAccounts,
           AddRead(t) \/ SaveLoad(t) \/ SaveStore(t) \/ InitMark(t)
    PROVE  /\ UNCHANGED <<param, env>>
           /\ \/ frame'[t].op = frame[t].op /\ frame'[t].user = frame[t].user
              \/ frame'[t].op = "none"
           /\ \A k \in Keys, u \in Users \ {frame[t].user} : stored'[k][u] = stored[k][u]
           /\ frame[t].op = "AddUser" /\ frame'[t].op = "none" =>
                  \A k \in Keys : stored'[k][frame[t].user] = param[k]
<1> DEFINE f == frame[t]
<1>1. UNCHANGED <<param, env>>
  BY DEF AddRead, SaveLoad, SaveStore, InitMark
<1>2. \/ frame'[t].op = f.op /\ frame'[t].user = f.user
      \/ frame'[t].op = "none"
  BY SameOperation DEF Step, NoFrame
<1>3. CASE ~SaveStore(t)
  <2>1. UNCHANGED stored
    BY <1>3 DEF AddRead, SaveLoad, InitMark
  <2>2. ASSUME f.op = "AddUser" PROVE frame'[t].op # "none"
    <3>1. pc[t] # "init_mark"
      BY <2>2, CalmNow DEF ProgressOf, Place, LocaleLabels, Saving
    <3>2. Goto(t, "add_read") \/ Goto(t, "save_load") \/ Goto(t, "save_store")
      <4>1. param["hour"] # None /\ f.key \in Keys
        BY SaverNow, CalmNow
      <4> QED BY <1>3, <3>1, <4>1 DEF AddRead, SaveLoad, InitMark
    <3>3. pc'[t] \in {"add_read", "save_load", "save_store"}
      BY <3>2, CalmNow DEF Goto, MemOK
    <3>4. Place(pc[t], frame[t])'
      BY DEF CalmInv, Progress
    <3>5. pc'[t] # "idle"
      BY <3>3
    <3> QED BY ONLY <3>4, <3>5 DEF Place, LocaleSetters
  <2> QED BY <1>1, <1>2, <2>1, <2>2
<1>4. CASE SaveStore(t)
  <2>1. \A k \in Keys, u \in Users :
            stored'[k][u] = IF k = f.key /\ u = f.user
                            THEN IF f.op = "RemoveUser" THEN None ELSE f.want[k]
                            ELSE stored[k][u]
    BY <1>4, EntryStored
  <2>2. ASSUME f.op = "AddUser", frame'[t].op = "none", NEW k \in Keys
        PROVE  stored'[k][f.user] = param[k]
    <3>1. f.key = "hour" /\ pc[t] = "save_store"
      BY <1>4, <2>2, SaveLeads DEF AllOperations, KeepsAccounts
    <3>2. f.want[k] = param[k] /\ (k # "hour" => stored[k][f.user] = param[k])
      BY <2>2, <3>1, CalmNow DEF Exchange, KeysRead, KeysSaved, SavedBefore, Keys
    <3>3. f.user \in Users
      BY SaverNow
    <3>4. stored'[k][f.user] = IF k = f.key /\ f.user = f.user
                               THEN IF f.op = "RemoveUser" THEN None ELSE f.want[k]
                               ELSE stored[k][f.user]
      BY <2>1, <3>3
    <3> QED BY <2>2, <3>1, <3>2, <3>4
  <2>3. \A k \in Keys, u \in Users \ {f.user} : stored'[k][u] = stored[k][u]
    BY <2>1
  <2> QED BY <1>1, <1>2, <2>2, <2>3
<1> QED BY <1>3, <1>4

\* Saving the settings of an account changes those of none: they are saved as they are
\* in the parameters, to which they belong until then.
LEMMA SaverStutters ==
    ASSUME CalmInv, CalmInv', Calm, NEW t \in Threads, frame[t].op \in KeepsAccounts,
           AddRead(t) \/ SaveLoad(t) \/ SaveStore(t) \/ InitMark(t)
    PROVE  UNCHANGED Abstract!vars
<1> DEFINE f == frame[t]
<1>1. /\ UNCHANGED <<param, env>>
      /\ \/ frame'[t].op = f.op /\ frame'[t].user = f.user
         \/ frame'[t].op = "none"
      /\ \A k \in Keys, u \in Users \ {f.user} : stored'[k][u] = stored[k][u]
      /\ f.op = "AddUser" /\ frame'[t].op = "none" =>
             \A k \in Keys : stored'[k][f.user] = param[k]
  BY SaverStores
<1>2. \A s \in Threads : s = t
  BY CalmNow
<1>3. /\ InForce = [language |-> param["language"], locale |-> param["locale"],
                    hour |-> param["hour"]]
      /\ InForce' = InForce
  BY <1>1, <1>2, ForceIdle, ForceIdleNext DEF KeepsAccounts, AllOperations
<1>4. \A u : Awaits("switched", "SwitchUser", u)' <=> Awaits("switched", "SwitchUser", u)
  BY <1>1, <1>2 DEF Awaits, Announced, Serves, KeepsAccounts, env
<1>5. ASSUME NEW u, u # f.user \/ f.op # "AddUser"
      PROVE  Awaits("added", "AddUser", u)' <=> Awaits("added", "AddUser", u)
  BY <1>1, <1>2, <1>5 DEF Awaits, Announced, Serves, KeepsAccounts, env
<1>6. ASSUME NEW u \in Users, u # f.user PROVE Saved(u)' = Saved(u)
  BY <1>1, <1>6 DEF Saved, Keys
<1>7. ASSUME NEW u \in accounts \cap Users
      PROVE  \/ InParameters(u) /\ InParameters(u)' /\ InForce' = InForce
             \/ ~InParameters(u) /\ ~InParameters(u)' /\ Saved(u)' = Saved(u)
             \/ InParameters(u) /\ ~InParameters(u)' /\ Saved(u)' = InForce
  <2>1. foreground' = foreground
    BY <1>1 DEF env
  <2>2. CASE u # f.user
    <3>1. InParameters(u)' <=> InParameters(u)
      BY <1>4, <1>5, <2>1, <2>2, Sources
    <3> QED BY <1>3, <1>6, <2>2, <3>1
  <2>3. CASE u = f.user /\ f.op = "AddUser"
    <3>1. u # foreground /\ Awaits("added", "AddUser", u)
      BY <2>3, SaverNow DEF Awaits, Serves
    <3>2. InParameters(u)
      BY <3>1, Sources
    <3>3. CASE frame'[t].op = f.op /\ frame'[t].user = f.user
      <4>1. Awaits("added", "AddUser", u)'
        BY <2>3, <3>3 DEF Awaits, Serves
      <4> QED BY <1>3, <2>1, <3>1, <3>2, <4>1, Sources
    <3>4. CASE frame'[t].op = "none"
      <4>1. Saved(u)' = InForce
        BY <1>1, <1>3, <2>3, <3>4 DEF Saved, Keys
      <4> QED BY <1>3, <3>2, <4>1
    <3> QED BY <1>1, <3>3, <3>4
  <2>4. CASE u = f.user /\ f.op = "InitMultiUser"
    <3>1. u = foreground /\ ~initDone
      BY <2>4, SaverNow
    <3>2. ~Awaits("switched", "SwitchUser", foreground)
      <4>1. ~Announced("switched", foreground)
        <5>1. EventsInOrder
          BY DEF CalmInv, Order
        <5>2. ASSUME Announced("switched", foreground) PROVE FALSE
          <6>1. Head(events).type = "switched" /\ events # << >>
            BY <5>2 DEF Announced
          <6> QED BY <3>1, <5>1, <6>1 DEF EventsInOrder, Announced
        <5> QED BY <5>2
      <4> QED BY <1>2, <2>4, <4>1 DEF Awaits, Serves
    <3>3. InParameters(u) /\ InParameters(u)'
      BY <1>4, <2>1, <3>1, <3>2, Sources
    <3> QED BY <1>3, <3>3
  <2>5. CASE u = f.user /\ f.op = "RemoveUser"
    BY <2>5, SaverNow
  <2> QED BY <2>2, <2>3, <2>4, <2>5 DEF KeepsAccounts
<1> QED BY <1>1, <1>7, SettingsMove DEF env

\* A switch loads the saved settings of the new foreground account into the parameters.
LEMMA SwitchStutters ==
    ASSUME CalmInv, CalmInv', Calm, NEW t \in Threads,
           SwitchRead(t) \/ SwitchSet(t) \/ SwitchTell(t) \/ SwitchEvent(t)
    PROVE  UNCHANGED Abstract!vars
<1> DEFINE f == frame[t]
<1>1. \A s \in Threads : s = t
  BY CalmNow
<1>2. f.op = "SwitchUser"
  <2>1. pc[t] \in {"sw_read", "sw_set", "sw_tell", "sw_event"}
    BY DEF SwitchRead, SwitchSet, SwitchTell, SwitchEvent
  <2> QED BY <2>1, CalmNow DEF ProgressOf, Place, LocaleLabels, Saving
<1>3. f.user = foreground /\ initDone /\ events = << >>
  BY <1>2, SwitchNow
<1>4. UNCHANGED <<stored, initDone, env>>
  BY DEF SwitchRead, SwitchSet, SwitchTell, SwitchEvent
<1>5. \/ frame'[t].op = "SwitchUser" /\ frame'[t].user = foreground
      \/ frame'[t].op = "none"
  <2>1. Step(t)
    BY DEF Step
  <2>2. \/ frame'[t].op = f.op /\ frame'[t].user = f.user
        \/ frame'[t] = NoFrame
    BY <2>1, SameOperation
  <2> QED BY <1>2, <1>3, <2>2 DEF NoFrame
<1>6. \A u : Saved(u)' = Saved(u)
  BY <1>4 DEF Saved
<1>7. \A u : ~Awaits("added", "AddUser", u) /\ ~Awaits("added", "AddUser", u)'
  BY <1>1, <1>2, <1>3, <1>4, <1>5 DEF Awaits, Announced, Serves, env
<1>8. ~InParameters(foreground)
  BY <1>2, <1>3, Sources DEF Awaits, Serves
<1>9. ASSUME NEW u \in accounts \cap Users
      PROVE  \/ ~InParameters(u) /\ ~InParameters(u)' /\ Saved(u)' = Saved(u)
             \/ ~InParameters(u) /\ InParameters(u)' /\ Saved(u) = InForce'
  <2>1. CASE u # foreground
    BY <1>4, <1>6, <1>7, <2>1, Sources DEF env
  <2>2. CASE u = foreground /\ frame'[t].op = "SwitchUser" /\ frame'[t].user = foreground
    <3>1. Awaits("switched", "SwitchUser", u)'
      BY <2>2 DEF Awaits, Serves
    <3> QED BY <1>4, <1>6, <1>8, <2>2, <3>1, Sources DEF env
  <2>3. CASE u = foreground /\ frame'[t].op = "none"
    <3>1. ~Awaits("switched", "SwitchUser", foreground)'
      BY <1>1, <1>3, <1>4, <2>3 DEF Awaits, Announced, Serves, env
    <3>2. \A k \in Keys : ~Unsaved(pc[t], frame[t], k)'
      BY <2>3 DEF Unsaved, AllOperations
    <3>3. \A k \in Keys : param'[k] = stored'[k][foreground]
      BY <1>1, <1>3, <1>4, <3>1, <3>2 DEF CalmInv, Mirrored, env
    <3>4. InForce' = [language |-> param'["language"], locale |-> param'["locale"],
                      hour |-> param'["hour"]]
      BY <1>1, <2>3, ForceIdleNext DEF AllOperations
    <3>5. Saved(u)' = InForce'
      BY <2>3, <3>3, <3>4 DEF Saved, Keys
    <3>6. InParameters(u)'
      BY <1>4, <2>3, <3>1, Sources DEF env
    <3> QED BY <1>6, <1>8, <2>3, <3>5, <3>6
  <2> QED BY <1>5, <2>1, <2>2, <2>3
<1> QED BY <1>4, <1>9, SettingsMove DEF env

\* A call begins, and nothing has changed yet.
LEMMA CallStutters ==
    ASSUME CalmInv, Calm, NEW t \in Threads, Call(t)
    PROVE  UNCHANGED Abstract!vars
<1>1. /\ pc[t] = "idle" /\ events = << >> /\ UNCHANGED <<param, stored, env>>
  BY CallBegun
<1>2. PICK op \in AllOperations, label \in {"lang_set", "loc_was", "hour_set"} :
          \E f : Begins(t, op, label, f) /\ (op = "SetSystemLanguage" => label = "lang_set")
  BY CallBegun DEF AllOperations
<1>3. pc'[t] = label /\ frame'[t].op = op
  BY <1>2, CalmNow, OnlyThread DEF Begins
<1>4. frame[t].op = "none" /\ ~HalfSet(t)
  BY <1>1, CalmNow DEF ThreadOK, NoFrame, HalfSet
<1>5. ~HalfSet(t)'
  BY <1>2, <1>3 DEF HalfSet
<1>6. InForce' = InForce
  BY <1>1, <1>4, <1>5, ForceSame
<1> QED BY <1>1, <1>2, <1>3, <1>4, <1>6, SetterView

\* The service starts, stops, begins to save the first account or to handle an event.
LEMMA RestStutters ==
    ASSUME CalmInv, CalmInv', Calm, UNCHANGED <<param, stored, accounts, foreground>>,
           \A s \in Threads : frame[s].op \notin AllOperations,
           \A s \in Threads : frame'[s].op \notin AllOperations,
           \A u : /\ Awaits("switched", "SwitchUser", u)' <=> Awaits("switched", "SwitchUser", u)
                  /\ Awaits("added", "AddUser", u)' <=> Awaits("added", "AddUser", u)
    PROVE  UNCHANGED Abstract!vars
<1>1. InForce' = InForce
  BY ForceIdle, ForceIdleNext
<1>2. \A u : Saved(u)' = Saved(u)
  BY DEF Saved
<1>3. \A u : InParameters(u)' <=> InParameters(u)
  BY Sources
<1> QED BY <1>1, <1>2, <1>3, SettingsMove

LEMMA HandleStutters ==
    ASSUME CalmInv, CalmInv', Calm, NEW t \in Threads, HandleEvent(t)
    PROVE  UNCHANGED Abstract!vars
<1>1. /\ \A s \in Threads : s = t
      /\ pc[t] = "idle" /\ UNCHANGED <<param, stored, accounts, foreground>>
  BY CalmNow DEF HandleEvent
<1>2. \A s \in Threads : frame[s].op \notin AllOperations
  BY <1>1, IdleNow DEF AllIdle, AllOperations
<1>3. frame'[t].op \in {"SwitchUser", "AddUser", "RemoveUser"}
  BY HandleCalm
<1>4. \A s \in Threads : frame'[s].op \notin AllOperations
  BY <1>1, <1>3 DEF AllOperations
<1>5. \A u : /\ Awaits("switched", "SwitchUser", u)' <=> Awaits("switched", "SwitchUser", u)
             /\ Awaits("added", "AddUser", u)' <=> Awaits("added", "AddUser", u)
  BY HandleCalm
<1>6. UNCHANGED <<param, stored, accounts, foreground>>
  BY <1>1
<1> QED BY <1>2, <1>4, <1>5, <1>6, RestStutters

LEMMA ServiceStutters ==
    ASSUME CalmInv, CalmInv', Calm,
           Start \/ Unload \/ (\E t \in Threads : InitMultiUser(t))
    PROVE  UNCHANGED Abstract!vars
<1>1. UNCHANGED <<param, stored, env>>
  BY DEF Start, Unload, ProcessEnds, InitMultiUser
<1>2. CASE Start
  <2>1. UNCHANGED frame /\ service = "down"
    BY <1>2 DEF Start, mem
  <2>2. \A s \in Threads : frame[s].op \notin AllOperations
    BY <2>1 DEF CalmInv, Order, ServesWhom, AllOperations
  <2>3. \A type, op, u : Awaits(type, op, u)' <=> Awaits(type, op, u)
    BY <1>1, <2>1 DEF Awaits, Announced, Serves, env
  <2> QED BY <1>1, <2>1, <2>2, <2>3, RestStutters DEF env
<1>3. ASSUME AllIdle, \A s \in Threads : frame'[s].op \in {"none", "InitMultiUser"}
      PROVE  UNCHANGED Abstract!vars
  <2>1. \A s \in Threads : frame[s].op = "none"
    BY <1>3, IdleNow
  <2>2. /\ \A s \in Threads : frame[s].op \notin AllOperations
        /\ \A s \in Threads : frame'[s].op \notin AllOperations
    BY <1>3, <2>1 DEF AllOperations
  <2>3. ASSUME NEW type, NEW op \in {"SwitchUser", "AddUser"}, NEW u
        PROVE  Awaits(type, op, u)' <=> Awaits(type, op, u)
    BY <1>1, <1>3, <2>1 DEF Awaits, Announced, Serves, env
  <2> QED BY <1>1, <2>2, <2>3, RestStutters DEF env
<1>4. CASE Unload
  <2>1. AllIdle /\ \A s \in Threads : frame'[s].op = "none"
    BY <1>4 DEF Unload, ProcessEnds, NoFrame
  <2> QED BY <1>3, <2>1
<1>5. ASSUME NEW t \in Threads, InitMultiUser(t) PROVE UNCHANGED Abstract!vars
  <2>1. AllIdle /\ \A s \in Threads : s = t
    BY <1>5, CalmNow DEF InitMultiUser, AllIdle
  <2>2. \/ UNCHANGED frame
        \/ Keep(t, [NoFrame EXCEPT !.op = "InitMultiUser", !.user = foreground])
    BY <1>5 DEF InitMultiUser, mem
  <2>3. frame'[t].op \in {"none", "InitMultiUser"}
    <3>1. CASE UNCHANGED frame
      BY <2>1, <3>1, IdleNow
    <3>2. CASE Keep(t, [NoFrame EXCEPT !.op = "InitMultiUser", !.user = foreground])
      BY <3>2, CalmNow DEF Keep, MemOK, NoFrame
    <3> QED BY <2>2, <3>1, <3>2
  <2> QED BY <1>3, <2>1, <2>3
<1> QED BY <1>2, <1>4, <1>5

\* An account comes, goes or takes the foreground, and no settings change with it.
LEMMA AccountRefines ==
    ASSUME CalmInv, CalmInv', Calm, Account
    PROVE  Abstract!Next
<1>1. /\ Settled /\ UNCHANGED <<param, stored, initDone, mem>>
  BY AccountCalm
  DEF Account, AccountAdded, AccountSwitched, AccountRemoved, Announce
<1>2. AllIdle /\ events = << >> /\ service # "starting"
  BY <1>1 DEF Settled
<1>3. /\ foreground \in accounts /\ accounts \subseteq Users
      /\ \A s \in Threads : frame[s].op = "none" /\ frame'[s].op = "none"
  BY <1>1, <1>2, IdleNow DEF CalmInv, IInv, EnvOK, mem
<1>4. InForce' = InForce
      /\ InForce = [language |-> param["language"], locale |-> param["locale"],
                    hour |-> param["hour"]]
  BY <1>1, <1>3, ForceIdle, ForceIdleNext DEF AllOperations
<1>5. \A u : Saved(u)' = Saved(u)
  BY <1>1 DEF Saved
<1>6. \A u : InParameters(u) <=> u = foreground
  BY <1>2, <1>3, ForegroundOnly DEF Undisturbed
<1>7. Abstract!Own = InForce
  BY <1>3, <1>6 DEF Abstract!Own, AccountSettings, SettingsOf
<1>8. ASSUME NEW type, NEW u, Announced(type, u)'
      PROVE  \A ty, w : \A op \in {"AddUser", "SwitchUser"} :
                 Awaits(ty, op, w)' <=> ty = type /\ w = u
  <2>1. Head(events') = [type |-> type, user |-> u] /\ events' = <<Head(events')>>
    BY <1>8 DEF Announced
  <2>2. \A ty, w : Announced(ty, w)' <=> ty = type /\ w = u
    <3>1. ASSUME NEW ty, NEW w, Announced(ty, w)' PROVE ty = type /\ w = u
      <4>1. Head(events') = [type |-> ty, user |-> w]
        BY <3>1 DEF Announced
      <4> QED BY <2>1, <4>1
    <3> QED BY <1>8, <3>1
  <2> QED BY <1>3, <2>2 DEF Awaits, Serves
<1>9. PICK u \in Users :
          \/ /\ u \notin accounts /\ accounts' = accounts \cup {u}
             /\ UNCHANGED foreground /\ Announced("added", u)'
          \/ /\ u \in accounts \ {foreground} /\ foreground' = u
             /\ UNCHANGED accounts /\ Announced("switched", u)'
          \/ /\ u \in accounts \ {foreground} /\ accounts' = accounts \ {u}
             /\ UNCHANGED foreground /\ Announced("removed", u)'
  BY AccountCalm
<1>10. CASE /\ u \notin accounts /\ accounts' = accounts \cup {u}
            /\ UNCHANGED foreground /\ Announced("added", u)'
  <2>1. \A w : InParameters(w)' <=> w = foreground \/ w = u
    BY <1>3, <1>8, <1>10, Sources
  <2>2. SettingsOf(u)' = InForce /\ \A w \in accounts : SettingsOf(w)' = SettingsOf(w)
    BY <1>4, <1>5, <1>6, <1>10, <2>1 DEF SettingsOf
  <2>3. AccountSettings' = [AccountSettings EXCEPT ![u] = InForce]
    BY <1>10, <2>2 DEF AccountSettings
  <2>4. Abstract!AddUser(u)
    BY <1>7, <1>10, <2>3 DEF Abstract!AddUser
  <2> QED BY <2>4 DEF Abstract!Next
<1>11. CASE /\ u \in accounts \ {foreground} /\ foreground' = u
            /\ UNCHANGED accounts /\ Announced("switched", u)'
  <2>1. initDone
    BY <1>2, <1>3, <1>11 DEF CalmInv, Order, IInv, FlagsOK
  <2>2. InForce = Saved(foreground)
    <3>1. \A k \in Keys : param[k] = stored[k][foreground]
      BY <1>2, <2>1, IdleNow DEF Announced
    <3> QED BY <1>4, <3>1 DEF Saved, Keys
  <2>3. \A w : ~InParameters(w)'
    BY <1>8, <1>11, Sources
  <2>4. \A w : SettingsOf(w)' = SettingsOf(w)
    BY <1>5, <1>6, <2>2, <2>3 DEF SettingsOf
  <2>5. UNCHANGED AccountSettings
    BY <1>11, <2>4 DEF AccountSettings
  <2>6. Abstract!SwitchUser(u)
    BY <1>11, <2>5 DEF Abstract!SwitchUser
  <2> QED BY <2>6 DEF Abstract!Next
<1>12. CASE /\ u \in accounts \ {foreground} /\ accounts' = accounts \ {u}
            /\ UNCHANGED foreground /\ Announced("removed", u)'
  <2>1. \A w : InParameters(w)' <=> w = foreground
    BY <1>8, <1>12, Sources
  <2>2. \A w : SettingsOf(w)' = SettingsOf(w)
    BY <1>4, <1>5, <1>6, <1>12, <2>1 DEF SettingsOf
  <2>3. AccountSettings' = [AccountSettings EXCEPT ![u] = None]
    BY <1>12, <2>2 DEF AccountSettings
  <2>4. Abstract!RemoveUser(u)
    BY <1>12, <2>3 DEF Abstract!RemoveUser
  <2> QED BY <2>4 DEF Abstract!Next
<1> QED BY <1>9, <1>10, <1>11, <1>12

-----------------------------------------------------------------------------
(* The refinement. *)

LEMMA StepRefines ==
    ASSUME CalmInv, CalmInv', Calm, NEW t \in Threads, Step(t)
    PROVE  [Abstract!Next]_Abstract!vars
<1>1. Place(pc[t], frame[t])
  BY CalmNow DEF ProgressOf
<1>2. ASSUME LocaleWas(t) \/ LocaleNow(t) \/ LocaleTell(t) \/ LocaleEvent(t)
                \/ HourTell(t) \/ HourEvent(t)
      PROVE  frame[t].op \in AllOperations
  <2>1. pc[t] \in {"loc_was", "loc_now", "loc_tell", "loc_event", "hour_tell", "hour_event"}
    BY <1>2 DEF LocaleWas, LocaleNow, LocaleTell, LocaleEvent, HourTell, HourEvent
  <2> QED BY <1>1, <2>1 DEF Place, LocaleLabels, Saving, AllOperations, LocaleSetters
<1>3. ASSUME SaveLoad(t) \/ SaveStore(t)
      PROVE  frame[t].op \in AllOperations \cup KeepsAccounts
  <2>1. pc[t] \in {"save_load", "save_store"}
    BY <1>3 DEF SaveLoad, SaveStore
  <2> QED BY <1>1, <2>1
      DEF Place, LocaleLabels, Saving, AllOperations, LocaleSetters, KeepsAccounts
<1>4. ASSUME AddRead(t) \/ InitMark(t)
      PROVE  frame[t].op \in KeepsAccounts
  <2>1. pc[t] \in {"add_read", "init_mark"}
    BY <1>4 DEF AddRead, InitMark
  <2> QED BY <1>1, <2>1 DEF Place, LocaleLabels, Saving, LocaleSetters, KeepsAccounts
<1>5. CASE LanguageSet(t) \/ LanguageLocale(t) \/ LanguageUndo(t)
  BY <1>5, LanguageRefines
<1>6. CASE LocaleSet(t)
  BY <1>6, LocaleRefines
<1>7. CASE HourSet(t)
  BY <1>7, HourRefines
<1>8. CASE LocaleWas(t) \/ LocaleNow(t) \/ LocaleTell(t) \/ LocaleEvent(t)
              \/ HourTell(t) \/ HourEvent(t)
  BY <1>2, <1>8, SetterStutters
<1>9. CASE SaveLoad(t) \/ SaveStore(t)
  BY <1>3, <1>9, SetterStutters, SaverStutters
<1>10. CASE AddRead(t) \/ InitMark(t)
  BY <1>4, <1>10, SaverStutters
<1>11. CASE SwitchRead(t) \/ SwitchSet(t) \/ SwitchTell(t) \/ SwitchEvent(t)
  BY <1>11, SwitchStutters
<1> QED BY <1>5, <1>6, <1>7, <1>8, <1>9, <1>10, <1>11 DEF Step

LEMMA NextRefines ==
    ASSUME CalmInv, CalmInv', Calm, [Next]_vars
    PROVE  [Abstract!Next]_Abstract!vars
<1>1. CASE UNCHANGED vars
  <2>1. AccountSettings' = AccountSettings
    BY <1>1
    DEF vars, mem, AccountSettings, SettingsOf, InParameters, Pending, InForce, HalfSet, Saved
  <2> QED BY <1>1, <2>1 DEF Abstract!vars, vars
<1>2. ~Kill
  BY FewFaults DEF Kill
<1> QED BY <1>1, <1>2, StepRefines, CallStutters, HandleStutters, ServiceStutters,
           AccountRefines DEF Next

LEMMA InitRefines ==
    ASSUME Calm, Init
    PROVE  Abstract!Init
<1>1. PICK l \in Languages, r \in Regions, h \in InitialHours :
          param = [k \in Keys |->
                      CASE k = "language" -> l
                        [] k = "locale" -> [lang |-> l, region |-> r, ext |-> NoExt]
                        [] k = "hour" -> h]
  BY DEF Init
<1>2. /\ param["language"] = l /\ param["hour"] = h /\ h \in Hours
      /\ param["locale"] = [lang |-> l, region |-> r, ext |-> NoExt]
  BY <1>1 DEF Keys, Calm
<1>3. /\ \A s \in Threads : frame[s].op = "none"
      /\ events = << >> /\ foreground \in Users /\ accounts = {foreground}
  BY DEF Init, NoFrame
<1>4. SettingsOf(foreground) = InForce
  BY <1>3, ForegroundOnly DEF Undisturbed, SettingsOf
<1>5. InForce = [language |-> l, hour |-> h,
                 locale |-> [lang |-> l, region |-> r, ext |-> [k \in ExtKeys |-> None]]]
  BY <1>2, <1>3, ForceIdle DEF AllOperations, NoExt
<1>6. AccountSettings = [u \in Users |-> IF u = foreground THEN InForce ELSE None]
  BY <1>3, <1>4 DEF AccountSettings
<1> QED BY <1>2, <1>3, <1>5, <1>6 DEF Abstract!Init

\* While the service is calm, LocaleSettings implements UserSettings: a setter changes
\* the settings of the foreground account, all at once or not at all, whether or not its
\* SetParameter fails half way; AddUser gives a new account the settings in force; and
\* an account finds its settings as it left them, however often the others were switched
\* to and changed theirs, and the service was unloaded and started again.
THEOREM ImplementsUserSettings == ASSUME Calm PROVE Spec => RefinesUserSettings
<1>1. Init => Abstract!Init
  BY InitRefines
<1>2. CalmInv /\ CalmInv' /\ [Next]_vars => [Abstract!Next]_Abstract!vars
  BY NextRefines
<1>3. Init => CalmInv
  BY CalmInitial
<1>4. CalmInv /\ [Next]_vars => CalmInv'
  BY CalmKept
<1> QED BY <1>1, <1>2, <1>3, <1>4, PTL DEF Spec, RefinesUserSettings, Abstract!Spec

=============================================================================
