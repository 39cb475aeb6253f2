# Formal models of global_i18n

TLA+ models, model-checking runs and machine-checked proofs about this repository:
the i18n system ability (SA 1602, `services/`) and the settings code it runs
(`locale_config.cpp`, `multi_users.cpp`, `preferred_language.cpp`), and the parts of
`frameworks/intl` that keep state, share it between threads, survive failures, or
decide by many rules at once: the tables filled at first use, the matching of locales,
the formatting of phone numbers as they are typed, the recognition of dates in a
message, the upgrade of the data files. What is left is mostly wrappers of ICU, tables
of data and language bindings; see sections 1 and 5.

Run a check in this directory with `tlc -config <Run>.cfg <Module>.tla`, a proof
with `tlapm <Module>.tla`. `PROJECT.json` lists the runs, the source lines behind
every definition, the hazards, the findings and the theorems.

## 1. The system

### Parts, their state and their operations

| part | state | operations | who calls it |
|---|---|---|---|
| LocaleConfig (`locale_config.cpp`) | the system parameters `persist.global.language`, `.locale`, `.is24Hour`; lazily filled static maps | `SetSystemLanguage`, `SetSystemRegion`, `SetSystemLocale`, `Set24HourClock`, `SetUsingLocalDigit`, `SetTemperatureType`, `SetFirstDayOfWeek`, `SetSystemCollation`, `SetSystemNumberingSystem`, `SetSystemNumberPattern`, `SetSystemMeasurement`, `SetSystemNumericalDatePattern`; many getters | I18nServiceAbility on an IPC thread; PreferredLanguage |
| MultiUsers (`multi_users.cpp`) | a Preferences file: `languageData`, `localeData`, `is24HourData`, each one string `id:value;id:value...`, and `init` | `InitMultiUser`, `AddUser`, `SwitchUser`, `RemoveUser`, `SaveLanguage`, `SaveLocale`, `SaveIs24Hour`, reads per account | LocaleConfig's setters, I18nServiceEvent, `OnStart` |
| I18nServiceEvent | the subscription | `CheckStartReason`, `OnReceiveEvent` | `OnStart`; the event thread |
| I18nServiceAbility | `taskNumber`, `handler` and its delayed `UNLOAD_TASK` | one entry point per setting, `OnStart`, `OnStop`, `OnIdle`, `StartTask`, `FinishTask` | clients by IPC; samgr |
| I18nServiceAbilityLoadManager, ...LoadCallback | `loadState`, a condition variable | `GetI18nServiceAbility`, `UnloadI18nService`, the two callbacks | the client library; the unload task |
| I18nServiceAbilityClient | none | one proxy call per setting | applications |
| PreferredLanguage | the parameter `persist.global.preferredLanguages`; the application's Preferences | `AddPreferredLanguage`, `RemovePreferredLanguage`, the getters | I18nServiceAbility; applications |
| Tables filled at first use: `ExtendWhiteLanguages`, `InitLocaleTabooData`, `GetAvailableZoneCityIDs`, `GetSupportedLocales`, `ReadISO4217Datas`, `GetAvailableLocales`, `GetAllValidLocalesTag` | static or member containers, a flag and a mutex each | the getters that need them | any thread |
| Display names: `GetDisplayLanguage`, `GetDisplayRegion`, `GetCityDisplayName`, Taboo | the names in one display locale each, refilled for another | getters | any thread |
| LocaleMatcher, LocaleInfo, LocaleData | constant tables | `GetBestMatchedLocale` | PreferredLanguage, applications |
| PhoneNumberFormat | the formatter, `lastFormatNumber`; the handle of the geocoding library, of all objects | `format`, `getPhoneLocationName`, `CloseDynamicHandler` | applications |
| DateTimeFilter | the vector of matches | `Filter` and its seven steps | EntityRecognizer |
| Parameter upgrade (`UpgradeUtils`) | the safe directory, the mounts | verify, copy, mount | a process that is not in the repository |
| Formatting, calendars, time zone rules, text utilities, language bindings | none that outlives an object | - | applications |

### How they interact

A client library loads the ability on demand and calls it. An IPC thread marks
the process critical, counts the request, restarts the ten-second unload task,
checks the permission and runs a setter of LocaleConfig. The setter writes
system parameters, has MultiUsers save the values for the calling account,
sends the new configuration to the account's applications and publishes a common
event. Common events of the account service make MultiUsers save the parameters
for a new account, load those of the account that came to the foreground, or
drop those of an account that is gone. When the unload task fires, samgr asks
`OnIdle` and stops the process. The next request or account event starts it
again. System parameters and Preferences outlive the process.

### What is hard here

* The IPC threads, the event thread and `OnStart` share parameters and
  Preferences, and nothing serialises them. A setter is a dozen separate writes.
* All accounts share one string per setting, rewritten as a whole.
* Each write may fail; some failures are undone, some returned, some logged only.
* The process is stopped and started all the time and may be killed at any step.
* Account switches and calls race: the global parameters belong to whichever
  account's event was handled last.
* The unload task, the requests that restart it and samgr's question race.
* The preferred list is recomputed, matched and deduplicated on every access,
  several times in a call; the supported languages come in no particular order.
* Tables are tested and read without the mutex under which they are filled.
* The formatter of phone numbers remembers what it was fed, the text may have changed.
* The filter of dates moves ends by positions in substrings, and the next step reads
  what stands between two moved ends.
* An upgrade may stop, fail or be restarted between any two files.

`PROJECT.json` lists the hazards one by one, at the line where each bites, with
the properties that cover it or the reason none does yet.

### What makes each part correct

* **Setters**: success means the setting is in effect; failure leaves language and
  locale consistent (but for its last step, see `RollbackDiverges`); a locale holds no extension parameter its language or region
  does not support; applications are told what they cannot see otherwise.
* **MultiUsers**: exactly the existing accounts have saved settings; the parameters
  are those of the foreground account, and after failures again with the next switch;
  an account's settings change only on its behalf.
* **Service**: the request count is exact; an unload is always scheduled; an idle
  service is unloaded; one that counts a request when samgr asks is not; it is not left
  critical.
* **Client**: without a failure, a call fails only when others have reset the flag as
  often as it makes attempts; a failure that passes is not seen by a caller that is alone; every call returns.
* **Preferred list**: no position outside the list; a successful edit gives the
  list that was asked for; it does not depend on the order of the supported languages.
* **Tables and names**: a table is complete and fixed for whoever finds its flag set;
  a name is one of the locale asked for, where calls for different ones do not overlap.
* **Phone numbers**: the text shown has the plus and the digits of the text passed.
* **Dates**: matches are disjoint; nothing is lost or joined twice.
* **Upgrade**: what is mounted has all files of one package, not older than the built-in
  data; a retry repairs.

## 2. The modules

| module | models | run by |
|---|---|---|
| `UserSettings` | abstract: what the service promises of the settings of each account | (refined) |
| `LocaleSettings` | LocaleConfig's setters, MultiUsers, I18nServiceEvent, the settings half of `OnStart`, the account service | `MCLocaleSettings` |
| `LocaleSettingsRefinement` | the mapping from `LocaleSettings` to `UserSettings` | `MCLocaleSettings` |
| `SwitchRepairs` | `LocaleSettings` with a history of its failures | `MCSwitchRepairs` |
| `ServiceLifecycle` | I18nServiceAbility's start, request counting and unloading, with samgr and the memory manager | itself |
| `LoadManager` | I18nServiceAbilityLoadManager and GetProxy of the client, with samgr | itself |
| `LocaleData`, `LocaleMatcher` | the tables, and the matching of a locale with the supported ones | through `PreferredLanguage` |
| `PreferredLanguage`, `PreferredMatching` | the system's preferred language list; what the matching must be for it | `MCPreferredLanguage` |
| `InitOnce` | the tables filled at first use | through `DisplayNames` |
| `DisplayNames` | names of languages, regions and cities, Taboo, composed with `InitOnce` | `MCDisplayNames` |
| `PhoneNumberFormat` | formatting as the user types; the geocoding library | `MCPhoneNumberFormat` |
| `Overlay`, `DateTimeFilter` | the filter of recognised dates and times; its first part, which of overlapping matches stay, alone | `MCDateTimeFilter` |
| `DataUpgrade` | UpgradeUtils, with the caller it is taken to have | `MCDataUpgrade` |
| `Filtering` | a loop that appends what is in a set, in a form that can be reasoned about | through `PreferredLanguage`, `PhoneNumberFormat`, `Overlay` |
| `FilteringProofs` | lemmas: induction over numbers, functions defined by recursion, what is kept of a sequence; the theorem about `Overlay` | tlapm |
| `LocaleSettingsProofs`, `ServiceLifecycleProofs`, `LoadManagerProofs`, `PreferredLanguageProofs`, `DisplayNamesProofs`, `PhoneNumberFormatProofs`, `DataUpgradeProofs` | theorems | tlapm |

### LocaleSettings

One step of a thread is one access to shared state: reading or setting a system
parameter, reading or writing the Preferences, sending the configuration,
publishing an event. `pc[t]` is the next access of thread `t`, `frame[t]` holds
the locals of its call. Between any two steps another thread, an account event or
the end of the process may come.

* A locale tag is `[lang, region, ext]`. What setters do to an extension key
  depends only on its class: keys of the language (`kf`, `co`, `nu`: dropped when
  the language changes), keys of the `-x-` part (`np`, `nl`: dropped when
  language or region changes), and the rest (`mu`, `ms`, `fw`: kept). `ModifyExtParam`,
  `UpdateLanguageOfLocale` and `UpdateRegionOfLocale` are the code's functions of
  those names at that level. Validation of tags, scripts and likely subtags are
  left out: every tag is a valid one.
* `CallX` is the entry of setter X up to its first write. `LanguageSet` to
  `LanguageUndo` are the writes of `SetSystemLanguage` around `SetSystemLocale`
  (`LocaleWas` ... `LocaleEvent`); the seven setters of an extension parameter and
  `SetSystemRegion` end in `SetSystemLocale` too. `HourX` is `Set24HourClock`.
* `SaveLoad` and `SaveStore` are `WriteMultiUsersParameter`: read the map of all
  accounts, write it back changed. Setters, `AddUser`, `InitMultiUser` and
  `RemoveUser` share them; `AfterSave` says how each goes on, with or without
  success.
* `SwitchX` is `LoadGlobalParam`. `AddRead` is the reading half of
  `SaveGlobalParam`.
* Failures are the constants in `Faults`: `param` (SetParameter, in a setter), `load`
  (SetParameter in an account switch: `LoadGlobalParam` ends there), `open` (the
  Preferences cannot be loaded; tried again at the next access), `prefs` (PutString),
  `config` (the application manager), `event` (publishing), `account` (the account
  service does not say who is in the foreground), `kill`. The two reads of
  `SetExtParam`, language and locale of the account, are one step, and fail
  together.
* `Hasty` lets calls and account operations come before the service has handled
  the previous account event; `BackgroundCallers` lets accounts call that are not
  in the foreground (or stand for none: a caller for whom `GetForegroundOsAccountLocalId`
  fails becomes `USER_DEFAULT`, which the model has as such a call). With both FALSE the environment is the ordinary one: the user
  in front of the device changes settings, now and then somebody switches.

### UserSettings and LocaleSettingsRefinement

The abstract specification has three variables: the accounts, the one in the foreground,
and a record of settings for each. A setter changes the foreground's, at once or not at
all; a new account gets a copy; a switch changes nothing but the foreground. The
refinement (`AccountSettings`, put in the place of `settings` by `INSTANCE ... WITH`) says
where the code keeps the settings of an account: in the parameters, for the account they
were loaded for; in the Preferences, for the others; in the parameters still, for an
account that is announced and not saved yet. A thread between LANGUAGE_KEY
and LOCALE_KEY is at its commit point when it writes the second: until then the old
language counts, which it writes back if it fails. The step that fails is so a stutter.

It is checked on two instances, and proved, for one thread, callers in the foreground and
one failing SetParameter of a setter (`param`).
With the other failures, a SetParameter that fails in an account switch among them, kills,
two threads or hasty callers the code does not implement `UserSettings`; the hazards say
how each goes wrong.

### SwitchRepairs

`LocaleSettings` with the variable `astray`: has anything failed since an account switch
last loaded all three settings. `LoadGlobalParam` is the only place where the code brings
parameters and saved settings together again, and does so without looking for a
difference. `SwitchPutsRight` says what that achieves under every failure.

### ServiceLifecycle

`start` is how far `OnStart` is, `pc[t]` what IPC thread `t` does next. `StartTask`
is four steps (critical, count, remove the task, post the task), `FinishTask` two,
the request itself (`Work`) one, since its content is LocaleSettings' matter.
`timer[p]` is the task that thread `p` posted; `RemoveTask` removes everybody's, so
that two posts between two removals leave two tasks, as in the code. The task that is due
leaves the queue (`TakeTask`) and asks samgr (`UnloadI18nService`) in two steps: a request
between the two finds nothing to remove, and may be served while samgr asks. Time passes in
ticks, `Delay` of them are the ten seconds. `OnIdle` answers from the count; after
a delay samgr stops the ability without asking again.

### LoadManager

`pc[t]` is the next critical section of `loadStateMutex`, or the next call to samgr,
of client thread `t`: `InitLoadState`, `LoadSystemAbility`, `Wait`, `GetSystemAbility`.
A thread whose test of the flag fails is `blocked` until `NotifyOne` picks it or its
`Timeout` comes; both test the flag once more, as `wait_for` with a predicate does.
`times[t]` counts the attempts of `GetI18nServiceAbility`, `again[t]` says that
`GetProxy` is at its second call of it. `pending[t]` are the requests samgr has not
answered; the answers are the two callbacks and may come after the wait.

Time is not counted. A wait may time out freely once samgr has answered everything the
thread asked, and otherwise as the failure `slow`. The other failures: there is no
samgr (`samgr`), it refuses (`load`), it reports that the load failed (`fail`), the
service stops and the ability is gone (`unload`, what ServiceLifecycle ends in).
`resets` and `alone` are history: how often others have reset the flag during the thread's
call, and whether no other call was there at the same time.

### LocaleMatcher, PreferredLanguage and PreferredMatching

`LocaleMatcher` has the comparisons of the code as functions to 1, 0 and -1 on records of
subtags; `GetBestMatchedLocale` goes over the candidates in the order the loop
meets them. A chain of comparisons with early returns is `Decide` of their results: the
first that is not 0. The loop of `FindTrackPath` writes until it is at the root; here it fills
the array, so that the last place tells whether it had room. `LocaleData` has the parents
of all locales with a region; likely subtags and typical codes are those of eight
languages that exercise every branch: several scripts (zh, ug), regions with parents
(en, es), old and new codes (he, iw), languages without a script (bo).

`PreferredLanguage`: one step is one computation of the list or one write, because the
code recomputes the list with each use: the step before decides on an index, the next
applies it. `matched` holds `GetMatchedLanguage` of every tag: the
answer depends on constants only, so it is computed in `Init` and never changes. The length limit of a system parameter is a number of languages
(`MaxList`). `PreferredMatching` adds the two properties about the matching.

### InitOnce and DisplayNames

The seven tables share one shape, which `InitOnce` states for a set of tables: test the
flag, take the mutex, test again, fill entry by entry, set the flag, leave; read without
the mutex. They differ in what a failed filling does, given by `Marks` (the flag is set
all the same) and `Retries` (the function returns without it).

`DisplayNames` is the calls that use them and the tables that have no such shape:
`supportedDialectLocales` is tested for emptiness and filled by whoever finds it empty;
the names of languages and of regions are cleared and refilled when another display
locale is asked for, and the locale is noted after the names; the city names are cached
under one mutex, in one step here. `mixed` is history: the tables of names for which calls
for different locales have overlapped, of which the code promises nothing any more. A name is represented by the locale of the file it
came from. Flags that are plain variables are read as if memory were sequentially
consistent; the C++ standard calls it a data race.

### PhoneNumberFormat

The text field shows what `format` returned, and the user changes that: a character at
the end, one deletion, another text over it, with or without a plus. `astray` is history:
a plus was pasted, or pasted over, and the formatter was not fed the whole text since. The formatter of libphonenumber is
represented by what it was fed; `Shown` groups two digits, enough for a blank to move as
the number grows. The second half is `dynamicHandler`, shared by all threads, opened
under a mutex after a test outside, closed by any addon's destructor.

### DateTimeFilter

One step for each of the seven functions `Filter` calls, on the sequence of matches; the two
passes over overlapping matches are `Overlay`. A message is a sequence of characters, some
of which stand for a word that a rule matches; one more match, the noise, may cover any
interval from a word to a word, so that matches overlap, and a rule that clears any interval
at all. No rule matches a bracket by itself: `DealMatchE` takes the bracket behind a date
into it without asking whether another match has it. Types,
levels and conditions are the code's; regular expressions are external, except that
the pattern "brackets" is the first pair of brackets in the rest of the text.

### DataUpgrade

The caller is not in the repository. It is taken to check the version, verify, copy and
mount, each after the success of the step before, with an empty list of files; a package
is replaced only while the device is off, and mounts do not survive that. One step is
one file removed or copied, or one mount; each may fail, a copy may leave part of a file,
and the process or the device may stop at any of them. `LoadFileVersion` keeps the list
of parts of earlier lines, as the code does.

## 3. The runs

All runs end with the state space exhausted. `CHECK_DEADLOCK FALSE` is set
everywhere, because a bounded number of calls ends every behaviour.

| run | asks | bounds |
|---|---|---|
| `Accounts` | `AccountsSaved`, `MirrorsForeground`, `ForegroundTold`, `RefinesUserSettings` | 2 accounts, 2 languages, 2 regions (one with a 24-hour clock), 6 operations, one failing SetParameter of a setter |
| `Extensions` | `LegalExt`, `LanguageAgrees`, `SavedLanguageAgrees`, `SuccessTakesEffect`, `RefinesUserSettings` | one key of each class, 2 values, 2 accounts, 5 operations, one failing SetParameter of a setter |
| `Failures` | `SwitchPutsRight` | 2 accounts, 2 languages, 1 region, 5 operations, two failures of any of the eight kinds |
| `Isolation` | `TypeOK`, `UserIsolation` | 2 accounts, `Hasty`, `BackgroundCallers`, one failure or kill, 4 operations |
| `Lifecycle` | `TasksCounted`, `UnloadScheduled`, `CriticalReleased`, `UnloadAfterQuiet`, `Unloads` (fair) | 2 threads, 3 requests, 2 starts, a delay of 2 ticks, one failure of any kind |
| `Loading` | `TypeOK`, `FailsByResets`, `OneFaultMasked`, `Returns` (fair) | 2 threads, 3 calls, 4 attempts as in the code, 2 failures of any kind |
| `PreferredEdits` | `TypeOK`, `InRange`, `EditTakesEffect`, `OrderFree`, `TrackPathFits` | 14 supported languages, 22 requested tags, indices -1 to 3, room for 2, 3 calls, one failure |
| `Names` | `OnceComplete`, `StableOnceMarked`, `NamesSettle`, `AnswerOfAsked` | 2 threads, 4 tables of 2 entries, 2 display locales, 3 calls, for one locale or different ones at once, one unreadable file |
| `Phone` | `DigitsKept`, `TypedGrouped`, `OpenedOnce` | 2 digits, plus and blank and no letters, pastes of up to 3 digits or of a plus and up to 2, a limit of 5 characters, 6 changes; 2 threads, 2 openings |
| `Recognition` | `Disjoint`, `Kept`, `OneMoment` | messages of up to 5 characters of 11, and of up to 6 of 6, without those that begin with a blank and those where other brackets come behind a time (`MCMessages`, `NextTo`); noise anywhere in those of up to 3, and in those of 4 of 6 |
| `Upgrade` | `MountedWhole`, `NeverOlder`, `WritableOnlyIfStuck`, `RetryRepairs` | 5 packages, 3 files, 4 failures of any kind, 4 ends of the process or restarts |
| `RollbackDiverges` | `LanguageAgrees` when publishing fails | violated, see below |

Why the bounds are enough. Two accounts: the code treats "the other accounts" alike
and one at a time. Two languages and regions: a setter compares only with the
previous value, and two regions show both clocks. Six operations: add an account,
set in both, switch there and back, restart. Two threads: each hazard listed is a
race of two. Two ticks: a request can come before, at and after the tick that fires
the task. Room for two: insertion at the front, the middle, the end, and a list that
does not fit. One failure at a time, of a setter's parameter, where the promises are those of
every step: the code reacts to each on its own; two would reach the failure of an undo,
which nothing handles. `Failures` has two, so that one may follow upon another, and five
operations: add an account, make a difference, switch, and switch back. `Loading` has two, since with fewer
no call that is alone fails, and three calls: two that overlap, and one that finds what
they left behind. `Upgrade` has four, one for each of a verification, a removal, a copy
and a mount, in four attempts. Six changes of the phone number: past the limit, back, and
one more digit. Six characters of a message: a date and a time, in brackets and followed
by a third; the steps look at two neighbours, and at a third in `NestDealDate`. Noise in a
message of four: a date, another in brackets, and a match over any of them.

The type invariants of `ServiceLifecycle` (proved), `DisplayNames`,
`PhoneNumberFormat`, `DateTimeFilter` and `DataUpgrade` are in the modules and in no
configuration; the last is a part of what `DataUpgradeProofs` proves. The runs of the
last four check what could go wrong instead.

### What the passing runs show

*Settings.* With one request at a time, also when a setter cannot set a parameter, the code
keeps the promise of `UserSettings`: each account's language, locale and hour change
together and only by its own calls, and survive being in the background and the
unloading of the service. No value outlives its language. When an account *switch* cannot
set a parameter it ends half way (`multi_users.cpp:246`), and the parameters are a mixture
of two accounts' until a later switch: this and every other failure `SwitchPutsRight` is
about. For one thread the isolation of accounts holds under every failure of `Faults` but
`open`: when the Preferences cannot be *read* but can
be *written*, an empty map is written back (hazard at `multi_users.cpp:385`).

*Service.* The unload task is never lost to an interleaving; a service nobody calls is
unloaded, unless samgr refused and nobody called again; the asking begins after ten
quiet seconds, or beside a request that has just come, and `OnIdle` lets the service be
stopped only when no request is counted; the count is exact and the process not left
critical, under every failure.

*Client.* A single failure is hidden from a call that is alone in its process. Calls that
overlap are not that safe: each resets the flag of the others, so that a thread may sleep
through the answer it waits for and use up its attempts although nothing failed; that takes
as many resets by others as there are attempts in both of `GetProxy`'s calls, as
`FailsByResets` says.
`OneFaultMasked` is stated of calls alone. A late answer to an attempt that timed out does
set the flag for the next one: it is as good, since the ability is loaded, unless it
has stopped again. `Returns`
rests on the timeout alone: a load that samgr reports as failed does not end the wait,
although it notifies.

*Preferred list.* An edit that succeeds gives the list asked for, and the best match of a
tag is better than every other match, whichever is met first, so that the order of the
`unordered_set` does not matter. The way of every locale to the root, the root included,
fits in its array of five.

*Names.* With or without a failing file, whoever finds a table's flag set finds what will
stay. Threads that clear and refill the names of one locale over each other leave them
complete, and no caller gets a name of another locale, unless calls for different
locales have overlapped.

*Phone numbers.* Without letters, and but for the pastes of or over a plus described below,
the text shown has the plus and the digits of the text passed whatever is deleted or
pasted, and a number that was only typed is grouped.

*Recognition.* In messages of the shape of `MCMessages`, matches stay disjoint and in order, a match that overlaps none is not lost,
and a moment is one date and one time.

*Upgrade.* Nothing that fails or stops leaves a package mounted that lacks a file or has
one of another package in its place, an older version in use, or a directory in which the
next attempt cannot succeed. A file that could not be removed stays, see below.

### Known limits of the code, in the models

The properties are stated for what the code can promise. Outside of that the models reach
the following, each with the constant that lets it happen:

* two IPC threads set two extension parameters of one account, both succeed, one is lost
  (`Extensions` with two `Threads`, `SuccessTakesEffect`);
* an account switch whose SetParameter fails leaves the parameters of two accounts mixed,
  the language not that of the locale, and the applications not told (`Accounts` or
  `Extensions` with `"load"` in `Faults`: `MirrorsForeground`, `ForegroundTold`,
  `LanguageAgrees`, `RefinesUserSettings`);
* with two accounts and a Preferences file that cannot be opened, or no clock setting, a
  switch may load a language without its locale (`Extensions` with `"open"`, or with
  `InitialHours` that have the empty value, `LanguageAgrees`);
* a request that is not counted yet when `OnIdle` answers, or comes after the answer, is
  cut off when the service stops; one that comes after the unload task has left the queue
  is served while samgr asks;
* removing from an empty list erases at a position of an empty vector; the list is empty
  only when the system language matches no supported language and nothing was added
  (`PreferredEdits` with `Stored = {<<>>}` and a language without a match);
* a tag whose match is listed already is added with success and reads back as nothing
  new;
* `es-US` and `es-419` are equal to `CompareRegion`: with both supported, the first met
  wins (the supported languages of `MCPreferredLanguage` have one of them);
* calls for different display locales at the same time mix their names in one table and get
  names of the wrong locale (`Names`, with `mixed` left out of the properties); calls for
  one locale too may end with the exception of `map::at`;
* a letter typed into a phone number is fed as the digit of its key and not counted as
  one, so that the next digit is fed twice (`Phone` with `Letters`); `12` pasted over `+1`
  is shown as `+12`, and `+12` over `1` as `12`, since only the 2 is fed (`Phone`, with
  `astray` left out of `DigitsKept`);
* the beginning of a match in brackets is wrong when the message begins with a blank. A
  bracket farther away is taken for the one behind the time, but its length is counted from
  the end of the time: in `time   ) (date)` the date is lost, in `time, date) week      (date)`
  the moment reaches over the week. Messages of such a shape are those that `NextTo` of
  `MCDateTimeFilter` leaves out;
* a match that is only a bracket stays where the date before it is extended over it
  (`Noises` leaves it out);
* a version that is not in the first line of its file is not found;
* a file of an older package that could not be removed, which is only logged
  (`utils.cpp:346`), is mounted with a newer package that does not name it (`Upgrade`,
  `NothingElse`);
* `CheckFileIntegrity` adds the manifest's files to the caller's list also when it fails
  (`signature_verifier.cpp:158`): a caller that tried again with the same list would copy
  every file twice, and fail. The model's caller begins with an empty one.

### What the violated run shows

**RollbackDiverges**. `SetSystemLocale` reports the failure of its last step,
publishing the event, like a failure to set the locale. `SetSystemLanguage` then
restores the language "in case that system language is inconsist with system
locale's lanuage" and so makes them inconsistent: the new locale stays.

### Fairness

`Lifecycle` needs it for `Unloads`. Weak fairness of each IPC thread, of
`OnStart`, of a due task, of samgr's steps and of time: the kernel schedules
threads, the event runner runs due tasks, samgr carries out what it accepted.
Nothing is assumed of clients (`Arrive`), of new starts or of the memory manager.
The code does not retry an unload that samgr refused: `Unloads` allows a service that
stays for that reason, until the next request.

`Loading` needs it for `Returns`: weak fairness of each client thread, whose waits end
by the timeout if by nothing else, and of samgr's answers to each. Samgr may answer
with a failure; that it answers at all is not needed for the return of the call, only
for a timeout not to count as a failure.

## 4. The proofs

| theorem | states | for |
|---|---|---|
| `LocaleSettingsProofs!TypeCorrect` | `Spec => []TypeOK` | any threads, accounts, failures |
| `LocaleSettingsProofs!AccountsIsolated` | `Spec => UserIsolation` | one thread, no `open` failure |
| `LocaleSettingsProofs!SuccessMeansSet` | `Spec => SuccessTakesEffect` | one thread, any accounts, failures and kills |
| `LocaleSettingsProofs!EveryAccountSaved` | `Spec => []AccountsSaved` | `Calm`: any accounts, languages, regions, keys |
| `LocaleSettingsProofs!ForegroundMirrored` | `Spec => []MirrorsForeground` | `Calm` |
| `LocaleSettingsProofs!ForegroundInformed` | `Spec => []ForegroundTold` | `Calm` |
| `LocaleSettingsProofs!ExtensionsLegal` | `Spec => []LegalExt` | `Calm`, no `SetSystemLocale` |
| `LocaleSettingsProofs!LanguagesAgree` | `Spec => []LanguageAgrees` | `Calm`, no `SetSystemLocale` |
| `LocaleSettingsProofs!SavedLanguagesAgree` | `Spec => []SavedLanguageAgrees` | `Calm`, no `SetSystemLocale` |
| `LocaleSettingsProofs!ImplementsUserSettings` | `Spec => RefinesUserSettings` | `Calm` |
| `ServiceLifecycleProofs!TypeCorrect` | `Spec => []TypeOK` | any threads and failures |
| `ServiceLifecycleProofs!TaskNumberCounts` | `Spec => []TasksCounted` | any threads and failures |
| `ServiceLifecycleProofs!UnloadNeverLost` | `Spec => []UnloadScheduled` | any threads and failures |
| `ServiceLifecycleProofs!CriticalTakenBack` | `Spec => []CriticalReleased` | any threads and failures |
| `ServiceLifecycleProofs!UnloadsAfterQuiet` | `Spec => UnloadAfterQuiet` | any threads, delay, failures |
| `LoadManagerProofs!TypeCorrect` | `Spec => []TypeOK` | any threads, attempts, failures |
| `LoadManagerProofs!FailuresByResets` | `Spec => []FailsByResets` | any threads, attempts, failures |
| `LoadManagerProofs!FaultsMasked` | `Spec => []OneFaultMasked` | any threads, attempts, failures |
| `DisplayNamesProofs!CompleteWhenMarked` | `OnceSpec => []OnceComplete` | any threads, tables, entries |
| `DisplayNamesProofs!StableWhenMarked` | `OnceSpec => StableOnceMarked` | any threads, tables, entries |
| `DisplayNamesProofs!TablesSettle` | `Spec => []NamesSettle` | any threads, locales, items, failures |
| `DisplayNamesProofs!OwnLocaleAnswered` | `Spec => []AnswerOfAsked` | any threads, locales, items, failures |
| `PreferredLanguageProofs!TypeCorrect` | `Spec => []TypeOK` | any tags, matching, threads, failures |
| `PreferredLanguageProofs!PositionsInRange` | `Spec => []InRange` | `OneByOne`, `Matching`: any tags, lists, indices, failures |
| `PreferredLanguageProofs!EditsTakeEffect` | `Spec => EditTakesEffect` | `OneByOne`, `Matching`, `Supporting` |
| `PreferredLanguageProofs!ChoiceOrderFree` | `Spec => []OrderFree` | `Apart`: any supported languages, tags, orders of regions |
| `PreferredLanguageProofs!TracksFit` | `Spec => []TrackPathFits` | any supported languages, tags |
| `FilteringProofs!OverlaysResolved` | what the two passes of `Overlay` leave is disjoint, and has every match that overlaps no other | any matches, in any order |
| `PhoneNumberFormatProofs!LibraryOpenedOnce` | `Spec => []OpenedOnce` | any threads, digits, pastes |
| `PhoneNumberFormatProofs!NumbersGrouped` | `Spec => []TypedGrouped` | any digits, letters, pastes, limit |
| `PhoneNumberFormatProofs!NumberKept` | `Spec => []DigitsKept` | any digits, pastes, limit; no letters |
| `DataUpgradeProofs!WholeWhenMounted` | `Spec => []MountedWhole` | any packages, manifests, versions, failures |
| `DataUpgradeProofs!RetriesRepair` | `Spec => RetryRepairs` | any packages, manifests, versions, failures |
| `DataUpgradeProofs!NewestInUse` | `Spec => []NeverOlder` | any packages, manifests, versions, failures |
| `DataUpgradeProofs!WritableTakenBack` | `Spec => []WritableOnlyIfStuck` | any packages, manifests, versions, failures |
| `DataUpgradeProofs!FailuresCleared` | `Spec => FailureLeavesNothing` | any packages, manifests, versions, failures |

**TypeCorrect (LocaleSettings).** That the parameters keep their types is no triviality
of the shape: a switch writes whatever was saved, and a saved value may be empty.
The inductive invariant `IInv` has one part per group of variables (`ParamOK`,
`StoredOK`, `ToldOK`, `MemOK`, `FlagsOK`, `EnvOK`, `BoundsOK`). `MemOK` is the
strengthening: `ThreadOK(t)` says for each label what the frame holds by then, for
example that at `loc_set` the locale to be set is a locale, that at `save_store` the
snapshot is a map of values of the key being saved, and that `sw_set` writes nothing
when nothing was read. One lemma per action; the step combines them.

**AccountsIsolated.** `SaveStore` writes `[snap EXCEPT ![user] = v]`. That this changes
one entry needs the snapshot to be the stored map still, `SnapCurrent`: whenever a
thread is at `save_store`, `frame[t].snap` is `stored[frame[t].key]`. It is inductive
together with `IInv` when there is one thread, since only `SaveStore` changes
`stored` and its own next reading makes a new snapshot. With two threads it fails
(another thread's `SaveStore` in between), and so does the property. With the failure
`open` a snapshot may be empty although the map is not. Both assumptions are in the
theorem's statement; `OneThread` is the ordinary case of one request at a time.

**SuccessMeansSet.** One thread, any failures and kills. `Progress` says for each operation
at which labels it can be (`Place`), which parameters it has set by then (`Done`), and that
what it has set is still there; `Asked` relates the locale it sets to what it was asked
for. A setter that reports success is at a label where all its parameters are in `Done`.

**Calm.** The theorems that follow assume the ordinary environment of `Accounts` and
`Extensions`: one thread, callers in the foreground, no call before the last account event is
handled, at most one failure, of a SetParameter of a setter, and a device that is delivered with a
clock setting (`InitialHours` without the empty value). Each hypothesis is needed: with two
threads a setting is lost, a background caller and a hasty one write the parameters of
another account, a failing Preferences file leaves settings unsaved, a SetParameter
that fails in an account switch ends it half way, and two failures meet
in the undo of `SetSystemLanguage`, which nobody undoes; and while the clock setting is
empty, nothing at all is saved for an account that is added. Numbers of accounts,
languages, regions, extension keys, values and operations are arbitrary.

**EveryAccountSaved, ForegroundMirrored, ForegroundInformed.** The three properties speak
of a service at rest and say nothing of the steps in between, so the inductive invariant
`CalmInv` says for each of them what is outstanding and who will see to it:

* `Order`: at most one account event waits, it is the last thing that happened to the
  accounts, and each operation works for the account its event was about (`ServesWhom`);
* `AllSaved`: an account has its settings saved unless its event waits or is being handled,
  or the service has never been started; an account that is gone has none, likewise;
* `Exchanges`: how many of the three keys `AddUser`, `InitMultiUser`, `RemoveUser` and
  `SwitchUser` have read, saved or loaded, and that those agree with the parameters;
* `Mirrored`: a parameter is what is saved for the foreground account, unless a switch is
  outstanding or a setter has set it and not saved it yet (`Unsaved`);
* `WayBack`: the language that a failed `SetSystemLanguage` writes back is the saved one,
  and at the undo no failure is left;
* `Replacing`: the locale about to be set is the current one with one part replaced;
* `ToldInTime`: the applications show what the system shows, unless a setter or a switch is
  still to tell them; and until it is set and told, the setter's `was24` and `now24` are the
  clocks before and after. This is why a setter may keep silent: the locale reaches
  the applications in any case, the clock when it moved;
* with `SnapCurrent` and `Progress` from above.

Each action has a lemma that it keeps these parts (`LanguageCalm`, `LocaleCalm`, `HourCalm`,
`SetterSaveCalm`, `ReadCalm`, `AccountSaveCalm`, `SwitchCalm`, ...); `OrderKept` does `Order`.

**ExtensionsLegal, LanguagesAgree, SavedLanguagesAgree.** `LanguageInv`, on top of `CalmInv`:
language and locale agree in the parameters unless a setter or a switch is between the two
(`ParamAgree`), and in the Preferences unless the account's saves are (`SavedAgree`); the
locale about to be set is legal (`WantsLegal`). The lemmas `LegalUpdated` and `LegalModified`
are about `UpdateLanguageOfLocale`, `UpdateRegionOfLocale` and `ModifyExtParam`: dropping the
keys of a class, and taking a value only if the language has it, keeps a legal locale
legal. `SetSystemLocale` called by itself sets any language in the locale alone, as the code
does; the theorems assume that nobody does so, as the runs do.

**ImplementsUserSettings.** Step simulation with `CalmInv`. `Sources` says where an
account's settings are: in the parameters or in the Preferences, by what is announced or
served. A step that moves an account from one to the other is a stutter because they are
equal then (`SettingsMove`), which is what `AllSaved`, `Exchanges` and `Mirrored` say. The
setters have one step that is a step of `UserSettings`: setting LOCALE_KEY (`LocaleRefines`) or
HOUR_KEY (`HourRefines`), and `Replacing` says that it changes one part. Setting
LANGUAGE_KEY is a stutter by the definition of `InForce`, and so is writing it back
(`LanguageRefines`), by `WayBack`. A new account is the copy `UserSettings` promises,
because it is in the parameters until it is saved; the steps that save it are stutters.

**TaskNumberCounts.** `TasksCounted` with `TypeOK` is inductive: each step of a request
adds a thread to `Counted` or removes one, and changes the count alike. The
library's facts on cardinality of a finite set with one element more or less do the
arithmetic.

**UnloadNeverLost.** `UnloadScheduled` needs no strengthening but the types and that a
handler exists once `OnStart` is past it: whoever removes the tasks is then at
`post`, or `OnStart` is not done.

**CriticalTakenBack.** Only a thread between its `StartTask` and its `FinishTask` can
leave the mark set; the last one to finish takes it back, or is refused.

**UnloadsAfterQuiet.** `quiet` counts the ticks without a request. `WaitedInQuiet` is the
invariant: a pending task has waited no longer than it was quiet, unless a request has
just come; `NoTaskBefore` says that there is no task before there is a handler. A
task that is due has then waited the whole delay in quiet when it leaves the queue.
Of samgr's question, later, the theorem says only what `OnIdle` answers from.

**FailuresByResets.** `Paid` is the invariant, while nothing has failed: the flag stands for
a loaded ability, each failed attempt of a call has had a reset by another thread, and so
has the attempt under way once its answer is gone (it waits, samgr owes it nothing, and the
flag is not set). A wait that times out then counts an attempt that was paid for before.
The theorem counts the resets of a call, at least as many as its attempts; that they
were spread over the attempts is in `Paid`, not in the theorem.

**FaultsMasked.** `OneFaultMasked` speaks of the last state of a call. `MaskInv` says why
it is never reached: a call that is alone has had no failed attempt before the first
failure, and after one (`Spent`) it is `Healthy`, which means that its attempt can fail only
by another failure: a flag that is set stands for a loaded ability, and a flag that
is not for a request under way. `FailureCounts` is the step: the first failure leads
back to `init`, through the attempts or, with one attempt only, through GetProxy.

**CompleteWhenMarked, StableWhenMarked.** `OInv`: whoever is past the second test holds the
table's mutex (`HoldsMutex`), so that there is one such thread; the flag is not set yet
(`Unmarked`), and before the third step the table is complete or its failure remembered
(`ReadyToMark`). The two theorems are about `InitOnce`; in `DisplayNames` its
steps are taken as they are, between calls.

**TablesSettle, OwnLocaleAnswered.** Nothing but the caller's good manners keeps threads
apart here: until a table is `mixed` the threads that use it want the same locale
(`SameLocale`). The invariant `DInv` says what holds of a table although several clear and
refill it over each other: from its own clearing on, a thread finds names of its locale or
none (`OwnNames`); a table nobody refills has names of the locale noted for it
(`NotedNames`); a name that is missing is in some thread's `todo` (`NothingMissing`), which
is the part that a clearing by another thread could break and does not, because the other
then loads everything. `DialectsWhole` says the same of the dialects. `OInv` is
carried along for the tables of `InitOnce`.

**TypeCorrect, PositionsInRange, EditsTakeEffect (preferred list).** The prover has no rule for
induction over data, but the model's loops are recursive functions on `0..n`, and
`FilteringProofs` proves what is needed of those from the library's theorem that `<` is well
founded on the numbers: a set that has 0, and each number up to n with the one before, has all
of them (`UpToN`); a function that is given by its first value and by each value from the
one before exists (`RecursionExists`). Two functions that follow the same recursion agree,
so that a lemma may name the function a loop computes and check that it follows it (`OnlyIs`).
With these, `BestAmong` says of `GetBestMatchedLocale` that the best candidate is one of them, and
`FilterTyped`, `FilterDistinct` and `FilterFixed` say of `FilterLanguages` that it
gives supported languages, each once, and leaves such a list as it is.

`TypeInv` adds to `TypeOK` that a language is written from a list that has one. `RangeInv` says
for each label what the thread has found out about the list by then (`AtLabel`); with one
call at a time, `OneByOne`, the list is the same at the next step. If the requests and the
default match a supported language (`Matching`), the list is never empty and the
normalised index is a position. `EditInv` says that the list about to be written is the one
asked for (`Target`), has supported languages, each once, and that the system language is
its first (`Edit`). `ListStored` is then the point: such a list is read back as it is, because the
matching leaves supported languages alone, the filtering finds no repetition, and the system
language is first already. The lemmas `OnlyWithout`, `TargetNew`, `TargetOld` and
`TargetRemoved` relate the code's erase and insert to the target. `Supporting` is needed: the
code lists a tag that is no supported language and reads another back. `PreferredEdits`
satisfies the three hypotheses.

**ChoiceOrderFree.** The code keeps the best so far and compares it with the next, so that
the result is better than all only if the comparison is an order on what is compared. The
proof shows that it is. Each comparison of `IsMoreSuitable` is the difference of a key, such as
the distance of a region from the one asked for, or several of them in turn
(`ByKey`, `AndThen`, `Orders`): `KeyOrders` and `ThenOrders` say that these are
antisymmetric and transitive on the candidates that match one request. `Realises` ties the
functions of the code to them, branch by branch: `NullOrders` for a request without a
region, `FarOrders` for one with a region, which also needs the alphabetical rule
(`AlphabetOrders`) and that of British English (`BritishIs`); `SuitableOrders` puts the
languages' rule before. What remains is that two candidates never compare as equal. That is
the hypothesis `Apart`, as two places in the code ask for it: in one region there is exactly one
candidate that has the language asked for (of `he` and `iw`), and `es-US` and `es-419` do not
meet in a request for Spanish somewhere. TLC evaluates `Apart` for the supported languages
of the run (`ApartAssumption` in `MCPreferredLanguage`). `BestBeats` is then the induction over
the loop.

**TracksFit.** The way to the root has at most four steps whatever the region: from any
region to `en-150`, `en-001`, `es-419` and so on, from `en-150` to `en-001`, from these to the
bare language, and from that to the root. `AnyUp`, `EuropeUp`, `TopUp` and `BareUp` are the
steps, `TopsHaveNoParent` is what the table `LOCALE_PARENTS` must not have, and `WayToRoot` puts
them together, with the shortcuts `SearchParentLocale` has for the request. `PathLength` is the fact
that the array holds what the steps give.

**OverlaysResolved.** A match that is added to what is left of those before drives out some of
them, or is driven out. `AddFirstApart` and `AddSecondParted` say of one addition what it keeps
true: in the first pass that no two of those left are equal or cross, in the second, given that,
that no two overlap (`ClashOrWithin`). `LeftNext` adds them up: what is left of the first
`i` matches are some of these, and each that overlaps no other is there. The runs have one
overlapping match; the theorem has any number. What `DateTimeFilter` does with the list
afterwards is model-checked.

**LibraryOpenedOnce.** The count of openings changes with the flag in each action; what
the text field does leaves both alone.

**NumbersGrouped, NumberKept.** For `TypedGrouped` the strengthening is `TypedFed`: while the
field only grew by digits and is not past the limit, both the formatter and `lastFormatNumber`
hold what was typed; past it the text is returned as it is. For `DigitsKept` the three copies
of the number are related: the formatter was fed the digits of `lastFormatNumber` and a plus
only near the front (`FedLast`); up to the limit the text, the formatter and the answer keep
the same (`ShortKept`). Past the limit the formatter rests while the text changes, and
`LongKept` says of each shorter text that the field may come back to that it is either fed anew
or has one digit more than was fed (`GivesRest`). The lemmas on `Shown` say that it adds a
blank and nothing else. A text that the formatter is fed whole brings the three in step
again whatever they were (`AnewKeeps`); `KeptInv` therefore holds of any pastes, and says
nothing from a paste of or over a plus to the next such text. `NumberKept` has the
hypothesis that there are no letters; with them the property fails (see the limits in
section 3).

**WholeWhenMounted.** Before the mount the files of the manifest up to `next` are there
(`CopiedSoFar`), at the mount all (`Ready`). If no removal failed in the attempt, the
directory was empty before the copies and has files of the manifest only (`ListedMounted`,
with `RidKept` for the steps that remove). Once the directory is mounted nothing
writes to it (`QuietWhileMounted`): the version in use is then the package's own, which is
not newer than itself (`NotNewerThanItself`), so that no attempt begins. This is the
place where the proof needs that the version file is in the manifest, and that a package
is replaced only with the device off.

**RetriesRepair.** As long as nothing failed in an attempt, the directory holds only what
`ClearDir` has still to remove (`ClearedSoFar`) and what was copied in this attempt
(`OnlyCopied`). A copy that finds its file there would have copied it before, and the
manifest names no file twice.

**NewestInUse.** An attempt begins only when the package is newer than the data built in,
and the package stays until the device is off (`FoundNewer`). The data in use are then the
package's, by `WholeWhenMounted`. `NewerIsNotOlder` is the lemma about `CompareVersion`: it
decides at the first part that differs and fails on a part that is not a number, so that it
never finds two versions newer than each other.

**WritableTakenBack, FailuresCleared.** There is one mount while it is being changed
(`OneMount`), and one that can be written to is on its way or stuck. While a failed copy is
cleaned up, every file in the directory is still to be removed (`LeftToClean`).

The proofs use what a theorem states as its own and the modules' named assumptions on
constants, which TLC evaluates in every run: that `None` is no value of another kind
(`NoneAssumption`), that the three clock settings differ (`HoursAssumption`), that the
number key is not one of the `-x-` part (in `ConstantsAssumption`), that the first line of
a version file, of the packages and of the data built in, is a version or empty
(`VersionsAssumption`), that the regions of the supported languages and 419 have a number
in `RegionOrder` and tags are what `Locale` makes of their subtags (`CandidatesAssumption`,
`TagsAssumption`), bounds that are numbers, and finite sets where something is counted.

Only model-checked:

* liveness, which the prover has no rule for here: `Unloads`, `Returns`;
* `Disjoint`, `Kept` and `OneMoment` of the recognition, beyond what `OverlaysResolved` says of
  its first step: they hold for messages of a shape, since the positions of brackets are
  found by comparing texts, and the joining steps are folds of the community modules, which
  the provers cannot unfold;
* the properties of LocaleSettings for failures beyond those a theorem names.

## 5. What is not modelled, and what is assumed

* **Assumed of the outside.** SetParameter takes effect or changes nothing. PutString
  and the Flush after it are one. Account events reach a service that runs, in
  order, and start one that does not. Samgr stops the ability after the delay
  `OnIdle` asked for. A configuration update that succeeds reaches all applications
  of the account.
* **Assumed of the caller of the upgrade**: see DataUpgrade in section 2.
* **Assumed of memory**: sequential consistency, also for the flags that are plain
  variables; and that one operation on a container (`find`, `insert`, `clear`, `at`) is
  atomic, although the code also calls them on `std::map` and `std::unordered_map`
  without a lock while another thread changes the container, of which C++ says nothing.
* **Left out of the modelled parts.** Validation of tags and values; the permission
  checks, beyond letting a request end without effect; scripts and likely subtags in
  the setters; the upgrade locale that `SetSystemRegion` clears; the retries of the event
  subscription; the getters; that `GetAvailableZoneCityIDs` enters blocked cities and
  erases them again before it sets its flag (`Entries` are those that stay); what the rules
  of the recognition match, and what is
  computed from a match; the signatures and digests of a package.
* **Not modelled, and why.** Nearly half of the source is bindings (JavaScript, ArkTS,
  Cangjie) that convert the arguments and results of an engine on its one thread. Most of
  the rest wraps ICU: formatters, calendars, collators, break iterators, time zone rules
  are constructed, asked once and return text, so that a model would restate ICU, not this
  code. `locale_data.cpp` and the lunar calendar are tables. The models take the parts
  where this code itself decides, keeps or shares something, which is why they cover a
  small share of its lines.

## 6. The plan

Done: `LocaleSettings` with type correctness and isolation proved, `ServiceLifecycle` with
its proofs, `PreferredLanguage`, `LoadManager` with its proofs; then the abstract
`UserSettings` and its refinement, `LocaleMatcher` in the place of an assumed matching
function, the tables and names, the phone numbers, the filter of dates, the upgrade, and
the proofs about the service's unloading, the tables, the library and the upgrade; then
the proofs of the settings at rest, of the refinement, of the names, of the rest of
the upgrade, of the text field, of the preferred list and its matching, and of the matches
that overlap.

Left:

1. `ServiceOnDemand`: LoadManager composed with ServiceLifecycle, for a client that calls
   a service about to stop. Abstract specification: a call is served by a running
   service or reported as failed.
2. `ExtParams`: `ParseAllExtParam`, `GenerateAllExtParam`, `GetExtParamPositions` as
   operators over subtags, checked against the record view LocaleSettings takes.
3. The application's own preferred language; `LocaleCompare`.
4. Proofs: the joining steps of the filter of dates, as recursive functions and with the
   lemmas of `FilteringProofs`; `SwitchPutsRight`.
