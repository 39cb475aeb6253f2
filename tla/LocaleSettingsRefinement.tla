----------------------- MODULE LocaleSettingsRefinement -----------------------
(***************************************************************************)
(* LocaleSettings implements UserSettings.  The settings of an account are *)
(* where the service would find them next: in the system parameters for    *)
(* the account they were loaded for, in the Preferences for the others.    *)
(*                                                                         *)
(* Sound for one service thread, callers in the foreground, and setters    *)
(* whose SetParameter may fail: SetSystemLanguage undoes its first half.   *)
(* Not for an account switch whose SetParameter fails ("load"): the new    *)
(* account is left with parameters of the old one.                         *)
(***************************************************************************)
EXTENDS LocaleSettings

\* Account event type, announced or being handled as operation op, concerns u.
Pending(type, op, u) ==
    \/ \E i \in DOMAIN events : events[i] = [type |-> type, user |-> u]
    \/ \E t \in Threads : frame[t].op = op /\ frame[t].user = u

\* A thread that has written LANGUAGE_KEY and not LOCALE_KEY: until it has, the old
\* language counts, which it writes back if it fails.
HalfSet(t) ==
    /\ frame[t].op = "SetSystemLanguage"
    /\ pc[t] \in {"lang_locale", "loc_was", "loc_set", "lang_undo"}

InForce ==
    [language |-> IF \E t \in Threads : HalfSet(t)
                  THEN frame[CHOOSE t \in Threads : HalfSet(t)].old
                  ELSE param["language"],
     locale |-> param["locale"],
     hour |-> param["hour"]]

Saved(u) == [language |-> stored["language"][u],
             locale |-> stored["locale"][u],
             hour |-> stored["hour"][u]]

\* The system parameters are the foreground account's once they are loaded for it, and
\* those of a new account until they are saved for it.
InParameters(u) ==
    IF u = foreground THEN ~Pending("switched", "SwitchUser", u)
    ELSE Pending("added", "AddUser", u)

SettingsOf(u) == IF InParameters(u) THEN InForce ELSE Saved(u)

AccountSettings == [u \in Users |-> IF u \in accounts THEN SettingsOf(u) ELSE None]

Abstract == INSTANCE UserSettings WITH settings <- AccountSettings

\* The language, the locale and the hour of an account change together and only by
\* the account's own calls; they survive the setters' failures, being in the
\* background, the switches of the others and the unloading of the service.
RefinesUserSettings == Abstract!Spec

=============================================================================
