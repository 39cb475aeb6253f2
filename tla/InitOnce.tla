------------------------------ MODULE InitOnce ------------------------------
(***************************************************************************)
(* The tables that are filled at their first use: a flag is tested without *)
(* the table's mutex, tested again under it, the table is filled entry by  *)
(* entry and the flag set last.  Readers then read without the mutex.  So  *)
(* do LocaleConfig::ExtendWhiteLanguages, Taboo::InitLocaleTabooData,      *)
(* I18nTimeZone::GetAvailableZoneCityIDs and GetSupportedLocales,          *)
(* NumberFormat::ReadISO4217Datas, IntlPluralRules::GetAvailableLocales    *)
(* and GetAllValidLocalesTag.                                              *)
(*                                                                         *)
(* They differ in what a failed filling leaves: those in Retries return    *)
(* without the flag, so that the next caller tries again; those in Marks   *)
(* set it all the same; some do either, by what fails.  The flags are      *)
(* plain variables; a thread that reads one before the mutex is taken to   *)
(* see the writes that came before it, and the operations on a table to be *)
(* atomic, although readers that gave up read it without the mutex.        *)
(*                                                                         *)
(* An operator named X_Y, before X, is X with a slip Y: the properties are *)
(* checked to fail when it takes the place of X.                           *)
(***************************************************************************)
EXTENDS Naturals, FiniteSets

CONSTANTS
    Threads,
    Tables,
    Entries,     \* the entries of a table's source
    Marks,       \* tables whose flag may be set after a failed filling
    Retries,     \* tables that may be left without the flag after one
    Empties,     \* tables that are emptied before they are filled
    Nobody,      \* holds no mutex
    Faults,      \* what may fail
    MaxFaults    \* bound on the failures

ASSUME TablesAssumption ==
    /\ Marks \subseteq Tables /\ Retries \subseteq Tables
    /\ Empties \subseteq Tables
    /\ Nobody \notin Threads
    /\ MaxFaults \in Nat

VARIABLES
    flag,     \* the table's init flag
    mutex,    \* the thread that holds the table's mutex
    table,    \* the entries in the table
    at, of,   \* where each thread is in the use of which table
    failed,   \* the tables whose last filling failed
    faults    \* bound

onceVars == <<flag, mutex, table, at, of, failed, faults>>

Stages == {"out", "test", "lock", "retest", "fill", "mark", "read", "gave_up"}

Move(t, stage) == at' = [at EXCEPT ![t] = stage]

-----------------------------------------------------------------------------
Use(t, o) ==
    /\ at[t] = "out"
    /\ Move(t, "test")
    /\ of' = [of EXCEPT ![t] = o]
    /\ UNCHANGED <<flag, mutex, table, failed, faults>>

Test(t) ==
    /\ at[t] = "test"
    /\ Move(t, IF flag[of[t]] THEN "read" ELSE "lock")
    /\ UNCHANGED <<flag, mutex, table, of, failed, faults>>

Lock(t) ==
    /\ at[t] = "lock" /\ mutex[of[t]] = Nobody
    /\ mutex' = [mutex EXCEPT ![of[t]] = t]
    /\ Move(t, "retest")
    /\ UNCHANGED <<flag, table, of, failed, faults>>

\* Leaving the scope of the lock_guard.
Leave(t, stage) ==
    /\ mutex' = [mutex EXCEPT ![of[t]] = Nobody]
    /\ Move(t, stage)

\* Another thread may have filled the table while this one waited.
Retest_Skipped(t) ==
    /\ at[t] = "retest"
    /\ Move(t, "fill")
    /\ table' = [table EXCEPT ![of[t]] = IF of[t] \in Empties THEN {} ELSE @]
    /\ UNCHANGED <<mutex, flag, of, failed, faults>>
Retest(t) ==
    /\ at[t] = "retest"
    /\ \/ flag[of[t]] /\ Leave(t, "read") /\ UNCHANGED table
       \/ /\ ~flag[of[t]]
          /\ Move(t, "fill")
          /\ table' = [table EXCEPT ![of[t]] = IF of[t] \in Empties THEN {} ELSE @]
          /\ UNCHANGED mutex
    /\ UNCHANGED <<flag, of, failed, faults>>

\* Entries are the ones that stay: GetAvailableZoneCityIDs also enters the cities that are
\* blocked, and erases them again in a second pass, under the mutex and before the flag.
Fill(t) ==
    /\ at[t] = "fill"
    /\ \E e \in Entries \ table[of[t]] :
        table' = [table EXCEPT ![of[t]] = @ \cup {e}]
    /\ UNCHANGED <<flag, mutex, at, of, failed, faults>>

Filled(t) ==
    /\ at[t] = "fill" /\ table[of[t]] = Entries
    /\ failed' = failed \ {of[t]}
    /\ Move(t, "mark")
    /\ UNCHANGED <<flag, mutex, table, of, faults>>

\* The source cannot be read, at the start or half way.
FillFails_NoReturn(t) ==
    /\ at[t] = "fill" /\ table[of[t]] # Entries
    /\ "fill" \in Faults /\ faults < MaxFaults /\ faults' = faults + 1
    /\ failed' = failed \cup {of[t]}
    /\ Move(t, "mark")
    /\ UNCHANGED <<flag, mutex, table, of>>
FillFails(t) ==
    /\ at[t] = "fill" /\ table[of[t]] # Entries
    /\ "fill" \in Faults /\ faults < MaxFaults /\ faults' = faults + 1
    /\ failed' = failed \cup {of[t]}
    /\ \/ of[t] \in Marks /\ Move(t, "mark") /\ UNCHANGED mutex
       \/ of[t] \in Retries /\ Leave(t, "gave_up")
    /\ UNCHANGED <<flag, table, of>>

Mark(t) ==
    /\ at[t] = "mark"
    /\ flag' = [flag EXCEPT ![of[t]] = TRUE]
    /\ Leave(t, "read")
    /\ UNCHANGED <<table, of, failed, faults>>

\* The table is read, without the mutex, also by the thread that could not fill it.
Read(t) ==
    /\ at[t] \in {"read", "gave_up"}
    /\ Move(t, "out")
    /\ UNCHANGED <<flag, mutex, table, of, failed, faults>>

-----------------------------------------------------------------------------
OnceInit ==
    /\ flag = [o \in Tables |-> FALSE]
    /\ mutex = [o \in Tables |-> Nobody]
    /\ table = [o \in Tables |-> {}]
    /\ at = [t \in Threads |-> "out"]
    /\ of \in [Threads -> Tables]
    /\ failed = {}
    /\ faults = 0

\* What a thread does until it has read the table.
Once(t) ==
    \/ Test(t) \/ Lock(t) \/ Retest(t)
    \/ Fill(t) \/ Filled(t) \/ FillFails(t) \/ Mark(t)

OnceNext == \E t \in Threads : (\E o \in Tables : Use(t, o)) \/ Once(t) \/ Read(t)

OnceSpec == OnceInit /\ [][OnceNext]_onceVars

-----------------------------------------------------------------------------
(* Properties. *)

\* Every variable holds a value of its type.
OnceTypeOK ==
    /\ flag \in [Tables -> BOOLEAN]
    /\ mutex \in [Tables -> Threads \cup {Nobody}]
    /\ table \in [Tables -> SUBSET Entries]
    /\ at \in [Threads -> Stages]
    /\ of \in [Threads -> Tables]
    /\ failed \subseteq Tables
    /\ faults \in 0..MaxFaults

\* Whoever finds the flag set, with or without the mutex, finds the table complete;
\* only where the code remembers a failure may it be incomplete.
OnceComplete ==
    \A o \in Tables : flag[o] => table[o] = Entries \/ (o \in failed /\ o \in Marks)

\* A table is read without its mutex once its flag is set: nothing changes it, or
\* the flag, any more.  No thread that waited for the mutex fills it again.
StableOnceMarked ==
    [][\A o \in Tables : flag[o] => flag'[o] /\ table'[o] = table[o]]_onceVars

=============================================================================
