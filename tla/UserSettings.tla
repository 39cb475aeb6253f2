---------------------------- MODULE UserSettings ----------------------------
(***************************************************************************)
(* What the i18n service promises of the settings of the local accounts:   *)
(* every account has a language, a locale and an hour setting of its own;  *)
(* a setter changes those of the foreground account, at once or not at     *)
(* all; a new account starts with the settings then in force; an account   *)
(* that comes back to the foreground finds its settings as it left them.   *)
(*                                                                         *)
(* LocaleSettings implements this with one global copy, a saved copy per   *)
(* account and a rollback (module LocaleSettingsRefinement).               *)
(***************************************************************************)
CONSTANTS
    Users, Languages, Regions,
    ExtKeys, ExtValues,
    LanguageKeys, CustKeys,   \* the extension keys tied to a language, and to a
                              \* language and region
    Hours,
    None

VARIABLES
    accounts,    \* the existing accounts
    foreground,  \* the one whose settings are in force
    settings     \* the settings of each account, None when it does not exist

vars == <<accounts, foreground, settings>>

Own == settings[foreground]

Change(s) ==
    /\ settings' = [settings EXCEPT ![foreground] = s]
    /\ UNCHANGED <<accounts, foreground>>

Without(ext, keys) == [k \in ExtKeys |-> IF k \in keys THEN None ELSE ext[k]]

\* The language tag and the language of the locale change together; what the old
\* language supported is dropped, the region and the rest stay.
SetSystemLanguage(l) ==
    Change([language |-> l,
            locale |-> [Own.locale EXCEPT !.lang = l,
                !.ext = Without(Own.locale.ext, LanguageKeys \cup CustKeys)],
            hour |-> Own.hour])

SetSystemRegion(r) ==
    Change([Own EXCEPT !.locale = [Own.locale EXCEPT
        !.region = r, !.ext = Without(Own.locale.ext, CustKeys)]])

SetSystemLocale(l, r) ==
    Change([Own EXCEPT !.locale = [lang |-> l, region |-> r,
                                   ext |-> [k \in ExtKeys |-> None]]])

SetExtension(k, v) == Change([Own EXCEPT !.locale.ext[k] = v])

Set24HourClock(h) == Change([Own EXCEPT !.hour = h])

AddUser(u) ==
    /\ u \notin accounts
    /\ accounts' = accounts \cup {u}
    /\ settings' = [settings EXCEPT ![u] = Own]
    /\ UNCHANGED foreground

SwitchUser(u) ==
    /\ u \in accounts
    /\ foreground' = u
    /\ UNCHANGED <<accounts, settings>>

RemoveUser(u) ==
    /\ u \in accounts \ {foreground}
    /\ accounts' = accounts \ {u}
    /\ settings' = [settings EXCEPT ![u] = None]
    /\ UNCHANGED foreground

Init ==
    /\ foreground \in Users
    /\ accounts = {foreground}
    /\ \E l \in Languages, r \in Regions, h \in Hours :
        settings = [u \in Users |->
            IF u = foreground
            THEN [language |-> l, hour |-> h,
                  locale |-> [lang |-> l, region |-> r, ext |-> [k \in ExtKeys |-> None]]]
            ELSE None]

Next ==
    \/ \E l \in Languages : SetSystemLanguage(l)
    \/ \E r \in Regions : SetSystemRegion(r)
    \/ \E l \in Languages, r \in Regions : SetSystemLocale(l, r)
    \/ \E k \in ExtKeys, v \in ExtValues \cup {None} : SetExtension(k, v)
    \/ \E h \in Hours : Set24HourClock(h)
    \/ \E u \in Users : AddUser(u) \/ SwitchUser(u) \/ RemoveUser(u)

Spec == Init /\ [][Next]_vars

=============================================================================
