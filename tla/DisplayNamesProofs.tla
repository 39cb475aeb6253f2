-------------------------- MODULE DisplayNamesProofs --------------------------
(***************************************************************************)
(* For any number of threads, tables, display locales and items, and       *)
(* whichever files cannot be read.  First the tables filled at their first *)
(* use: the flag means what its readers take it for, and what they read    *)
(* without the mutex does not change.  Then the names of languages,        *)
(* regions and cities: those tables stay whole under the calls that use    *)
(* them, and, as long as calls for different display locales do not        *)
(* overlap, the tables refilled for each locale end up whole and no call   *)
(* gets a name of another locale.                                          *)
(***************************************************************************)
EXTENDS DisplayNames, TLAPS

-----------------------------------------------------------------------------
(* The tables filled once: InitOnce. *)

\* The stages in which a thread holds the mutex of its table.
Inside == {"retest", "fill", "mark"}

HoldsMutex == \A t \in Threads : at[t] \in Inside => mutex[of[t]] = t

\* Past the second test the flag is not set yet; before the third step the table is
\* complete, or its failure remembered.
Unmarked == \A t \in Threads : at[t] \in {"fill", "mark"} => ~flag[of[t]]

ReadyToMark ==
    \A t \in Threads : at[t] = "mark" =>
        table[of[t]] = Entries \/ (of[t] \in failed /\ of[t] \in Marks)

OInv == OnceTypeOK /\ HoldsMutex /\ Unmarked /\ ReadyToMark /\ OnceComplete

LEMMA OnceInitial == OnceInit => OInv
BY TablesAssumption
   DEF OnceInit, OInv, OnceTypeOK, Stages, HoldsMutex, Inside, Unmarked, ReadyToMark,
       OnceComplete

LEMMA OnceTyped == ASSUME OInv, [OnceNext]_onceVars PROVE OnceTypeOK'
<1> USE TablesAssumption DEF OInv, OnceTypeOK, Stages
<1>1. ASSUME NEW t \in Threads, NEW o \in Tables, Use(t, o) PROVE OnceTypeOK'
  BY <1>1 DEF Use, Move
<1>2. ASSUME NEW t \in Threads, Once(t) PROVE OnceTypeOK'
  <2>1. CASE Test(t)
    BY <2>1 DEF Test, Move
  <2>2. CASE Lock(t)
    BY <2>2 DEF Lock, Move
  <2>3. CASE Retest(t)
    BY <2>3 DEF Retest, Leave, Move
  <2>4. CASE Fill(t)
    BY <2>4 DEF Fill
  <2>5. CASE Filled(t)
    BY <2>5 DEF Filled, Move
  <2>6. CASE FillFails(t)
    BY <2>6 DEF FillFails, Leave, Move
  <2>7. CASE Mark(t)
    BY <2>7 DEF Mark, Leave, Move
  <2> QED BY <1>2, <2>1, <2>2, <2>3, <2>4, <2>5, <2>6, <2>7 DEF Once
<1>3. ASSUME NEW t \in Threads, Read(t) PROVE OnceTypeOK'
  BY <1>3 DEF Read, Move
<1>4. CASE UNCHANGED onceVars
  BY <1>4 DEF onceVars
<1> QED BY <1>1, <1>2, <1>3, <1>4 DEF OnceNext

\* A step that only moves thread t outside the mutex.
LEMMA OutsideStep ==
    ASSUME OInv, NEW t \in Threads, NEW stage \in Stages \ Inside, Move(t, stage),
           at[t] \notin Inside, UNCHANGED <<flag, mutex, table, failed>>,
           \A u \in Threads \ {t} : of'[u] = of[u]
    PROVE  HoldsMutex' /\ Unmarked' /\ ReadyToMark' /\ OnceComplete'
<1>1. at'[t] = stage /\ \A u \in Threads \ {t} : at'[u] = at[u]
  BY DEF OInv, OnceTypeOK, Move
<1> QED BY <1>1 DEF OInv, HoldsMutex, Unmarked, ReadyToMark, OnceComplete, Inside, Stages

\* Only one thread at a time is between the lock and the unlock of a table.
LEMMA OneInside ==
    ASSUME OInv, NEW t \in Threads, at[t] \in Inside,
           NEW u \in Threads \ {t}, at[u] \in Inside
    PROVE  of[u] # of[t]
BY DEF OInv, HoldsMutex

LEMMA OnceStep ==
    ASSUME OInv, NEW t \in Threads, Once(t)
    PROVE  HoldsMutex' /\ Unmarked' /\ ReadyToMark' /\ OnceComplete'
<1> USE DEF OInv, HoldsMutex, Unmarked, ReadyToMark, OnceComplete, Inside
<1>1. CASE Test(t)
  <2>1. PICK stage \in {"read", "lock"} : Move(t, stage)
    BY <1>1 DEF Test
  <2> QED BY <1>1, <2>1, OutsideStep DEF Test, Stages
<1>2. CASE Lock(t)
  <2>1. at'[t] = "retest" /\ \A u \in Threads \ {t} : at'[u] = at[u]
    BY <1>2 DEF Lock, Move, OnceTypeOK
  <2>2. \A u \in Threads \ {t} : at[u] \in Inside => of[u] # of[t]
    BY <1>2, TablesAssumption DEF Lock
  <2>3. \A o \in Tables : mutex'[o] = IF o = of[t] THEN t ELSE mutex[o]
    BY <1>2 DEF Lock, OnceTypeOK
  <2> QED BY <1>2, <2>1, <2>2, <2>3 DEF Lock, OnceTypeOK
<1>3. CASE Retest(t)
  <2>1. \A u \in Threads \ {t} : at'[u] = at[u]
    BY <1>3 DEF Retest, Leave, Move, OnceTypeOK
  <2>2. \A u \in Threads \ {t} : at[u] \in Inside => of[u] # of[t]
    BY <1>3, OneInside DEF Retest
  <2>3. CASE flag[of[t]] /\ Leave(t, "read") /\ UNCHANGED table
    <3>1. at'[t] = "read"
      BY <2>3 DEF Leave, Move, OnceTypeOK
    <3>2. \A o \in Tables : o # of[t] => mutex'[o] = mutex[o]
      BY <2>3 DEF Leave, OnceTypeOK
    <3> QED BY <1>3, <2>1, <2>2, <2>3, <3>1, <3>2 DEF Retest, OnceTypeOK
  <2>4. CASE ~flag[of[t]] /\ Move(t, "fill") /\ UNCHANGED mutex
    <3>1. at'[t] = "fill"
      BY <2>4 DEF Move, OnceTypeOK
    <3>2. \A o \in Tables : o # of[t] => table'[o] = table[o]
      BY <1>3 DEF Retest, OnceTypeOK
    <3> QED BY <1>3, <2>1, <2>2, <2>4, <3>1, <3>2 DEF Retest, OnceTypeOK
  <2> QED BY <1>3, <2>3, <2>4 DEF Retest
<1>4. CASE Fill(t)
  <2>1. \A u \in Threads \ {t} : at[u] \in Inside => of[u] # of[t]
    BY <1>4, OneInside DEF Fill
  <2>2. \A o \in Tables : o # of[t] => table'[o] = table[o]
    BY <1>4 DEF Fill, OnceTypeOK
  <2> QED BY <1>4, <2>1, <2>2 DEF Fill, OnceTypeOK
<1>5. CASE Filled(t)
  <2>1. at'[t] = "mark" /\ \A u \in Threads \ {t} : at'[u] = at[u]
    BY <1>5 DEF Filled, Move, OnceTypeOK
  <2>2. \A u \in Threads \ {t} : at[u] \in Inside => of[u] # of[t]
    BY <1>5, OneInside DEF Filled
  <2> QED BY <1>5, <2>1, <2>2 DEF Filled, OnceTypeOK
<1>6. CASE FillFails(t)
  <2>1. at'[t] \in {"mark", "gave_up"} /\ \A u \in Threads \ {t} : at'[u] = at[u]
    BY <1>6 DEF FillFails, Leave, Move, OnceTypeOK
  <2>2. \A u \in Threads \ {t} : at[u] \in Inside => of[u] # of[t]
    BY <1>6, OneInside DEF FillFails
  <2>3. at'[t] = "mark" => of[t] \in Marks /\ UNCHANGED mutex
    BY <1>6 DEF FillFails, Leave, Move, OnceTypeOK
  <2>4. \A o \in Tables : o # of[t] => mutex'[o] = mutex[o]
    BY <1>6 DEF FillFails, Leave, OnceTypeOK
  <2> QED BY <1>6, <2>1, <2>2, <2>3, <2>4 DEF FillFails, OnceTypeOK
<1>7. CASE Mark(t)
  <2>1. at'[t] = "read" /\ \A u \in Threads \ {t} : at'[u] = at[u]
    BY <1>7 DEF Mark, Leave, Move, OnceTypeOK
  <2>2. \A u \in Threads \ {t} : at[u] \in Inside => of[u] # of[t]
    BY <1>7, OneInside DEF Mark
  <2>3. \A o \in Tables : o # of[t] => mutex'[o] = mutex[o] /\ flag'[o] = flag[o]
    BY <1>7 DEF Mark, Leave, OnceTypeOK
  <2> QED BY <1>7, <2>1, <2>2, <2>3 DEF Mark, OnceTypeOK
<1> QED BY <1>1, <1>2, <1>3, <1>4, <1>5, <1>6, <1>7 DEF Once

LEMMA OnceInductive == OInv /\ [OnceNext]_onceVars => OInv'
<1> SUFFICES ASSUME OInv, [OnceNext]_onceVars PROVE OInv'
  OBVIOUS
<1>1. OnceTypeOK'
  BY OnceTyped
<1>2. HoldsMutex' /\ Unmarked' /\ ReadyToMark' /\ OnceComplete'
  <2>1. ASSUME NEW t \in Threads, NEW o \in Tables, Use(t, o)
        PROVE  HoldsMutex' /\ Unmarked' /\ ReadyToMark' /\ OnceComplete'
    <3>1. \A u \in Threads \ {t} : of'[u] = of[u]
      BY <2>1 DEF Use, OInv, OnceTypeOK
    <3> QED BY <2>1, <3>1, OutsideStep DEF Use, Inside, Stages
  <2>2. ASSUME NEW t \in Threads, Read(t)
        PROVE  HoldsMutex' /\ Unmarked' /\ ReadyToMark' /\ OnceComplete'
    BY <2>2, OutsideStep DEF Read, Inside, Stages
  <2>3. CASE UNCHANGED onceVars
    BY <2>3 DEF onceVars, OInv, HoldsMutex, Unmarked, ReadyToMark, OnceComplete
  <2> QED BY <2>1, <2>2, <2>3, OnceStep DEF OnceNext
<1> QED BY <1>1, <1>2 DEF OInv

\* A set flag stands for a complete table, or for a failure the code remembers,
\* whatever the number of threads that come for it at once.
THEOREM CompleteWhenMarked == OnceSpec => []OnceComplete
<1>1. OInv => OnceComplete
  BY DEF OInv
<1> QED BY <1>1, OnceInitial, OnceInductive, PTL DEF OnceSpec

\* The readers that do not take the mutex read a table that no longer changes.
THEOREM StableWhenMarked == OnceSpec => StableOnceMarked
<1> DEFINE Stable == \A o \in Tables : flag[o] => flag'[o] /\ table'[o] = table[o]
<1>1. OInv /\ [OnceNext]_onceVars => [Stable]_onceVars
  <2> SUFFICES ASSUME OInv, OnceNext PROVE Stable
    OBVIOUS
  <2>1. ASSUME UNCHANGED <<flag, table>> PROVE Stable
    BY <2>1
  <2>2. ASSUME NEW t \in Threads, Once(t) PROVE Stable
    <3>1. CASE Test(t) \/ Lock(t) \/ Filled(t) \/ FillFails(t)
      BY <2>1, <3>1 DEF Test, Lock, Filled, FillFails
    <3>2. CASE Retest(t)
      BY <3>2 DEF Retest, OInv, OnceTypeOK
    <3>3. CASE Fill(t)
      BY <3>3 DEF Fill, OInv, OnceTypeOK, Unmarked
    <3>4. CASE Mark(t)
      BY <3>4 DEF Mark, OInv, OnceTypeOK
    <3> QED BY <2>2, <3>1, <3>2, <3>3, <3>4 DEF Once
  <2> QED BY <2>1, <2>2 DEF OnceNext, Use, Read
<1> QED BY <1>1, OnceInitial, OnceInductive, PTL DEF OnceSpec, StableOnceMarked

-----------------------------------------------------------------------------
(* The names: the inductive invariant. *)

Frame == [kind : Kinds \cup {"none", "city", "suggested"},
          loc : Locales \cup {None},
          todo : SUBSET (Items \cup Locales),
          item : Items \cup {None},
          found : Locales \cup {None, Thrown}]

\* What a thread holds at each label, and that a name it found is of its locale, unless
\* calls for different locales have overlapped.
FrameOK(label, f) ==
    /\ label \in Labels /\ f \in Frame
    /\ label \in {"dialect_test", "dialect_fill", "dialect_find"} => f.kind = "language"
    /\ label \in {"compare", "clear", "load", "set", "find", "at"} => f.kind \in Kinds
    /\ label \notin {"idle", "white"} => f.loc \in Locales
    /\ label = "idle" => f.kind = "none" /\ f.loc = None
    /\ label = "load" => f.todo \subseteq Items
    /\ label = "dialect_fill" => f.todo \subseteq Locales
    /\ label = "at" => f.item \in Items
    /\ f.found \in {None, Thrown, f.loc} \/ f.kind \in mixed

MemOK ==
    /\ pc \in [Threads -> Labels] /\ frame \in [Threads -> Frame]
    /\ \A t \in Threads : FrameOK(pc[t], frame[t])

NamesOK ==
    /\ names \in [Kinds -> [Items -> Locales \cup {None}]]
    /\ current \in [Kinds -> Locales \cup {None}]
    /\ cityNames \in Locales \cup {None} /\ cityNames = cityLocale

\* Calls for one kind of names are calls for one locale, until the kind is mixed.
SameLocale ==
    \A s, t \in Threads :
        frame[s].kind \in Kinds \ mixed /\ frame[s].kind = frame[t].kind => frame[s].loc = frame[t].loc

Loading(t, k) == frame[t].kind = k /\ pc[t] \in {"load", "set"}

\* From the clearing on, the table has names of the caller's locale only.
OwnNames ==
    \A t \in Threads : pc[t] \in {"load", "set", "find", "at"} /\ frame[t].kind \notin mixed =>
        \A i \in Items : names[frame[t].kind][i] \in {None, frame[t].loc}

\* While nobody refills a table, its names are of the locale noted for it.
NotedNames ==
    \A k \in Kinds \ mixed :
        \/ \E t \in Threads : Loading(t, k)
        \/ \A i \in Items : names[k][i] \in {None, current[k]}

\* A name that is missing is one somebody is about to load.
NothingMissing ==
    \A k \in Kinds \ unread, i \in Items : names[k][i] = None =>
        \/ \E t \in Threads : Loading(t, k) /\ pc[t] = "load" /\ i \in frame[t].todo
        \/ current[k] = None /\ \A t \in Threads : ~Loading(t, k)

DialectsSoFar ==
    \A t \in Threads : pc[t] = "dialect_fill" => Locales \ frame[t].todo \subseteq dialects

DialectsWhole ==
    \/ "dialects" \in unread
    \/ dialects \in {{}, Locales}
    \/ \E t \in Threads : pc[t] = "dialect_fill"

\* Whoever is in the use of a table is at a step that needs one.
AtTable ==
    \A t \in Threads : at[t] # "out" => pc[t] \in {"taboo", "cities", "locales", "white"}

DInv ==
    /\ OInv /\ AtTable
    /\ MemOK /\ NamesOK /\ SameLocale
    /\ OwnNames /\ NotedNames /\ NothingMissing
    /\ dialects \subseteq Locales /\ DialectsSoFar /\ DialectsWhole

-----------------------------------------------------------------------------
(* The tables of InitOnce under the calls. *)

\* A file of names that cannot be read leaves the tables alone.
LEMMA TablesKept ==
    ASSUME OInv, UNCHANGED <<flag, mutex, table, at, of, failed>>, faults' \in 0..MaxFaults
    PROVE  OInv'
BY DEF OInv, OnceTypeOK, HoldsMutex, Unmarked, ReadyToMark, OnceComplete

LEMMA FaultKeepsTables ==
    ASSUME OInv, NEW f, Fault(f)
    PROVE  OInv' /\ UNCHANGED <<flag, table, at>>
<1>1. faults' \in 0..MaxFaults
  BY TablesAssumption DEF Fault, OInv, OnceTypeOK
<1> QED BY <1>1, TablesKept DEF Fault

\* The table a call needs is one there is.
LEMMA TableNeeded ==
    ASSUME MemOK, NEW t \in Threads, pc[t] \in {"taboo", "cities", "locales", "white"}
    PROVE  Needs(t) \in Tables
<1>1. pc[t] = "taboo" => frame[t].loc \in Locales
  BY DEF MemOK, FrameOK
<1> QED BY <1>1, NamesAssumption DEF Needs

-----------------------------------------------------------------------------
(* Threads. *)

\* A step of one thread that leaves it well leaves all threads well.
LEMMA ThreadMoves ==
    ASSUME MemOK, NEW t \in Threads, NEW label, NEW f,
           Goto(t, label), Keep(t, f), FrameOK(label, f), mixed \subseteq mixed'
    PROVE  /\ MemOK' /\ pc'[t] = label /\ frame'[t] = f
           /\ \A s \in Threads \ {t} : pc'[s] = pc[s] /\ frame'[s] = frame[s]
<1>1. label \in Labels /\ f \in Frame
  BY DEF FrameOK
<1>2. /\ pc'[t] = label /\ frame'[t] = f
      /\ \A s \in Threads \ {t} : pc'[s] = pc[s] /\ frame'[s] = frame[s]
      /\ pc' \in [Threads -> Labels] /\ frame' \in [Threads -> Frame]
  BY <1>1 DEF Goto, Keep, MemOK
<1>3. ASSUME NEW l, NEW g, FrameOK(l, g)
      PROVE  /\ l \in Labels /\ g \in Frame
             /\ l \in {"dialect_test", "dialect_fill", "dialect_find"} => g.kind = "language"
             /\ l \in {"compare", "clear", "load", "set", "find", "at"} => g.kind \in Kinds
             /\ l \notin {"idle", "white"} => g.loc \in Locales
             /\ l = "idle" => g.kind = "none" /\ g.loc = None
             /\ l = "load" => g.todo \subseteq Items
             /\ l = "dialect_fill" => g.todo \subseteq Locales
             /\ l = "at" => g.item \in Items
             /\ g.found \in {None, Thrown, g.loc} \/ g.kind \in mixed'
  BY <1>3 DEF FrameOK
<1>4. \A s \in Threads : FrameOK(pc[s], frame[s])
  BY DEF MemOK
<1>5. ASSUME NEW s \in Threads PROVE FrameOK(pc[s], frame[s])'
  <2>1. CASE s = t
    BY <1>2, <1>3, <2>1 DEF FrameOK
  <2>2. CASE s # t
    <3>1. pc'[s] = pc[s] /\ frame'[s] = frame[s]
      BY <1>2, <2>2
    <3> QED BY <1>3, <1>4, <3>1 DEF FrameOK
  <2> QED BY <2>1, <2>2
<1> QED BY <1>2, <1>5 DEF MemOK

LEMMA NoFrameOK ==
    /\ FrameOK("idle", NoFrame)
    /\ FrameOK("idle", [NoFrame EXCEPT !.found = Thrown])
BY DEF FrameOK, NoFrame, Frame, Labels

\* An answer that is none, or a name of the locale asked for.
LEMMA AnswerOK ==
    ASSUME MemOK, NEW t \in Threads, frame[t].loc \in Locales,
           NEW name \in Locales \cup {None},
           name \in {None, frame[t].loc} \/ frame[t].kind \in mixed
    PROVE  FrameOK("taboo", [frame[t] EXCEPT !.found = name])
BY DEF MemOK, FrameOK, Frame, Labels

\* What a thread does outside the refilling, and without finding anything of its own.
LEMMA CallerMoves ==
    ASSUME DInv, NEW t \in Threads, NEW label, NEW f,
           Goto(t, label), Keep(t, f), FrameOK(label, f),
           UNCHANGED <<names, current>>,
           \A k \in Kinds : k \in unread => k \in unread',
           {pc[t], label} \cap {"load", "set"} = {}, mixed \subseteq mixed',
           \A s \in Threads \ {t} :
               f.kind \in Kinds \ mixed' /\ frame[s].kind = f.kind => frame[s].loc = f.loc,
           label \in {"find", "at"} /\ f.kind \notin mixed => \A i \in Items : names[f.kind][i] \in {None, f.loc}
    PROVE  MemOK' /\ SameLocale' /\ OwnNames' /\ NotedNames' /\ NothingMissing'
<1>1. /\ MemOK' /\ pc'[t] = label /\ frame'[t] = f
      /\ \A s \in Threads \ {t} : pc'[s] = pc[s] /\ frame'[s] = frame[s]
  BY ThreadMoves DEF DInv
<1>2. SameLocale'
  BY <1>1 DEF DInv, SameLocale
<1>3. OwnNames'
  BY <1>1 DEF DInv, OwnNames
<1>4. \A s \in Threads, k \in Kinds : Loading(s, k)' <=> Loading(s, k)
  BY <1>1 DEF Loading
<1>5. NotedNames'
  BY <1>4 DEF DInv, NotedNames
<1>6. \A s \in Threads, k \in Kinds : Loading(s, k) => pc'[s] = pc[s] /\ frame'[s] = frame[s]
  BY <1>1 DEF Loading
<1>7. NothingMissing'
  BY <1>4, <1>6 DEF DInv, NothingMissing
<1> QED BY <1>1, <1>2, <1>3, <1>5, <1>7

\* The same when the thread keeps its frame.
LEMMA CallerGoesOn ==
    ASSUME DInv, NEW t \in Threads, NEW label, Goto(t, label), UNCHANGED frame,
           FrameOK(label, frame[t]), UNCHANGED <<names, current>>,
           \A k \in Kinds : k \in unread => k \in unread',
           {pc[t], label} \cap {"load", "set"} = {}, UNCHANGED mixed,
           label \in {"find", "at"} /\ frame[t].kind \notin mixed =>
               \A i \in Items : names[frame[t].kind][i] \in {None, frame[t].loc}
    PROVE  MemOK' /\ SameLocale' /\ OwnNames' /\ NotedNames' /\ NothingMissing'
<1>1. Keep(t, frame[t])
  BY DEF Keep, DInv, MemOK
<1>2. \A s \in Threads \ {t} :
          frame[t].kind \in Kinds \ mixed' /\ frame[s].kind = frame[t].kind
              => frame[s].loc = frame[t].loc
  BY DEF DInv, SameLocale
<1> DEFINE f == frame[t]
<1>3. Keep(t, f) /\ FrameOK(label, f)
      /\ (label \in {"find", "at"} /\ f.kind \notin mixed
             => \A i \in Items : names[f.kind][i] \in {None, f.loc})
      /\ \A s \in Threads \ {t} :
            f.kind \in Kinds \ mixed' /\ frame[s].kind = f.kind => frame[s].loc = f.loc
  BY <1>1, <1>2
<1> HIDE DEF f
<1> QED BY <1>3, CallerMoves

\* A call that ends, or has its answer, is no caller of the tables of names any more.
LEMMA CallerAnswers ==
    ASSUME DInv, NEW t \in Threads, frame[t].loc \in Locales,
           NEW name \in Locales \cup {None},
           name \in {None, frame[t].loc} \/ frame[t].kind \in mixed, UNCHANGED mixed,
           Answer(t, name), UNCHANGED <<names, current>>,
           \A k \in Kinds : k \in unread => k \in unread',
           pc[t] \notin {"load", "set"}
    PROVE  MemOK' /\ SameLocale' /\ OwnNames' /\ NotedNames' /\ NothingMissing'
<1> DEFINE f == [frame[t] EXCEPT !.found = name]
<1>1. Goto(t, "taboo") /\ Keep(t, f)
  BY DEF Answer
<1>2. FrameOK("taboo", f)
  BY AnswerOK DEF DInv
<1>3. f.kind = frame[t].kind /\ f.loc = frame[t].loc
  BY DEF DInv, MemOK, Frame
<1>4. \A s \in Threads \ {t} :
          f.kind \in Kinds \ mixed' /\ frame[s].kind = f.kind => frame[s].loc = f.loc
  BY <1>3 DEF DInv, SameLocale
<1> HIDE DEF f
<1> QED BY <1>1, <1>2, <1>4, CallerMoves

-----------------------------------------------------------------------------
(* The parts of the invariant that a caller's step seldom touches. *)

LEMMA OnlyOneMoves ==
    ASSUME DInv, NEW t \in Threads, NEW label, Goto(t, label)
    PROVE  pc'[t] = label /\ \A s \in Threads \ {t} : pc'[s] = pc[s]
BY DEF Goto, DInv, MemOK

LEMMA OnlyOneFrame ==
    ASSUME DInv, NEW t \in Threads, NEW f, Keep(t, f)
    PROVE  frame'[t] = f /\ \A s \in Threads \ {t} : frame'[s] = frame[s]
BY DEF Keep, DInv, MemOK

Outside == Labels \ {"taboo", "cities", "locales", "white"}

LEMMA NotAtTable ==
    ASSUME DInv, NEW t \in Threads, pc[t] \in Outside, NEW label, Goto(t, label),
           UNCHANGED onceVars \/ \E f : Fault(f)
    PROVE  OInv' /\ AtTable'
<1>1. OInv' /\ UNCHANGED at
  <2>1. UNCHANGED onceVars => OInv'
    BY TablesKept DEF onceVars, DInv, OInv, OnceTypeOK
  <2> QED BY <2>1, FaultKeepsTables DEF onceVars, DInv
<1> QED BY <1>1, OnlyOneMoves DEF AtTable, DInv, Outside

LEMMA DialectsAlone ==
    ASSUME DInv, NEW t \in Threads, NEW label, Goto(t, label),
           \A s \in Threads \ {t} : frame'[s] = frame[s],
           "dialect_fill" \notin {pc[t], label},
           UNCHANGED dialects, "dialects" \in unread => "dialects" \in unread'
    PROVE  dialects' \subseteq Locales /\ DialectsSoFar' /\ DialectsWhole'
<1>1. pc'[t] = label /\ \A s \in Threads \ {t} : pc'[s] = pc[s]
  BY OnlyOneMoves
<1>2. DialectsSoFar'
  BY <1>1 DEF DInv, DialectsSoFar
<1>3. DialectsWhole'
  BY <1>1 DEF DInv, DialectsWhole
<1> QED BY <1>2, <1>3 DEF DInv

-----------------------------------------------------------------------------
(* The steps of a call. *)

LEMMA CallKeeps ==
    ASSUME DInv, NEW t \in Threads, Call(t)
    PROVE  DInv'
<1>1. PICK kind \in {"language", "region", "city", "suggested"}, l \in Locales \cup {None},
           label \in {"dialect_test", "compare", "cities", "white"} :
          /\ Begin(t, kind, l, label)
          /\ label = "dialect_test" => kind = "language"
          /\ label = "compare" => kind \in Kinds
          /\ label # "white" => l \in Locales
  BY DEF Call, GetDisplayLanguage, GetDisplayRegion, GetCityDisplayName, IsSuggested, Kinds
<1> DEFINE f == [NoFrame EXCEPT !.kind = kind, !.loc = l]
<1>2. Goto(t, label) /\ Keep(t, f) /\ UNCHANGED onceVars /\ UNCHANGED tables /\ pc[t] = "idle"
      /\ mixed \subseteq mixed' /\ mixed' \subseteq mixed \cup Kinds
  BY <1>1 DEF Begin
<1>3. FrameOK(label, f)
  BY <1>1 DEF FrameOK, NoFrame, Frame, Labels, Kinds
<1>4. \A s \in Threads \ {t} :
          f.kind \in Kinds \ mixed' /\ frame[s].kind = f.kind => frame[s].loc = f.loc
  BY <1>1 DEF Begin, NoFrame
<1> HIDE DEF f
<1>5. MemOK' /\ SameLocale' /\ OwnNames' /\ NotedNames' /\ NothingMissing'
  BY <1>2, <1>3, <1>4, CallerMoves DEF tables
<1>6. dialects' \subseteq Locales /\ DialectsSoFar' /\ DialectsWhole'
  BY <1>2, OnlyOneFrame, DialectsAlone DEF tables
<1>7. OInv' /\ AtTable'
  BY <1>2, NotAtTable DEF Outside, Labels
<1>8. NamesOK'
  BY <1>2 DEF tables, DInv, NamesOK
<1> QED BY <1>5, <1>6, <1>7, <1>8 DEF DInv

LEMMA DialectTestKeeps ==
    ASSUME DInv, NEW t \in Threads, DialectTest(t)
    PROVE  DInv'
<1> DEFINE f == frame[t]
           g == [f EXCEPT !.todo = Locales]
<1>1. FrameOK("dialect_test", f) /\ f \in Frame /\ UNCHANGED onceVars /\ UNCHANGED nameVars
      /\ pc[t] = "dialect_test"
  BY DEF DialectTest, DInv, MemOK
<1>2. FrameOK("dialect_fill", g) /\ FrameOK("dialect_find", f)
      /\ g.kind = f.kind /\ g.loc = f.loc /\ g.todo = Locales
  BY <1>1 DEF FrameOK, Frame, Labels
<1>3. OInv' /\ AtTable' /\ NamesOK'
  <2>1. \E label : Goto(t, label)
    BY DEF DialectTest
  <2> QED BY <1>1, <2>1, NotAtTable DEF Outside, Labels, nameVars, tables, DInv, NamesOK
<1>4. CASE dialects = {}
  <2>1. Goto(t, "dialect_fill") /\ Keep(t, g)
    BY <1>4 DEF DialectTest
  <2>2. \A s \in Threads \ {t} : g.kind \in Kinds \ mixed' /\ frame[s].kind = g.kind => frame[s].loc = g.loc
    BY <1>1, <1>2 DEF DInv, SameLocale, nameVars
  <2> HIDE DEF g
  <2>3. MemOK' /\ SameLocale' /\ OwnNames' /\ NotedNames' /\ NothingMissing'
    BY <1>1, <1>2, <2>1, <2>2, CallerMoves DEF nameVars, tables
  <2>4. dialects' \subseteq Locales /\ DialectsSoFar' /\ DialectsWhole'
    BY <1>1, <1>2, <2>1, OnlyOneMoves, OnlyOneFrame DEF nameVars, tables, DInv, DialectsSoFar, DialectsWhole
  <2> QED BY <1>3, <2>3, <2>4 DEF DInv
<1>5. CASE dialects # {}
  <2>1. Goto(t, "dialect_find") /\ UNCHANGED frame
    BY <1>5 DEF DialectTest
  <2>2. MemOK' /\ SameLocale' /\ OwnNames' /\ NotedNames' /\ NothingMissing'
    BY <1>1, <1>2, <2>1, CallerGoesOn DEF nameVars, tables
  <2>3. dialects' \subseteq Locales /\ DialectsSoFar' /\ DialectsWhole'
    BY <1>1, <2>1, DialectsAlone DEF nameVars, tables
  <2> QED BY <1>3, <2>2, <2>3 DEF DInv
<1> QED BY <1>4, <1>5

LEMMA DialectFindKeeps ==
    ASSUME DInv, NEW t \in Threads, DialectFind(t)
    PROVE  DInv'
<1> DEFINE f == frame[t]
<1>1. FrameOK("dialect_find", f) /\ UNCHANGED onceVars /\ UNCHANGED nameVars
      /\ pc[t] = "dialect_find" /\ f.loc \in Locales
  BY DEF DialectFind, DInv, MemOK, FrameOK
<1>2. FrameOK("compare", f)
  BY <1>1 DEF FrameOK, Labels, Kinds
<1>3. PICK label \in {"compare", "taboo"} :
          /\ Goto(t, label)
          /\ label = "compare" => UNCHANGED frame
          /\ label = "taboo" => Answer(t, None)
  BY DEF DialectFind, Answer
<1>4. OInv' /\ AtTable' /\ NamesOK'
  BY <1>1, <1>3, NotAtTable DEF Outside, Labels, nameVars, tables, DInv, NamesOK
<1>5. \A s \in Threads \ {t} : frame'[s] = frame[s]
  BY <1>3, OnlyOneFrame DEF Answer
<1>6. dialects' \subseteq Locales /\ DialectsSoFar' /\ DialectsWhole'
  BY <1>1, <1>3, <1>5, DialectsAlone DEF nameVars, tables
<1>7. MemOK' /\ SameLocale' /\ OwnNames' /\ NotedNames' /\ NothingMissing'
  BY <1>1, <1>2, <1>3, CallerGoesOn, CallerAnswers DEF nameVars, tables
<1> QED BY <1>4, <1>6, <1>7 DEF DInv

\* Whatever becomes of the reading of the dialects, those loaded stay, and they are all
\* there once nothing is left to do.
LEMMA DialectFillKeeps ==
    ASSUME DInv, NEW t \in Threads, DialectFill(t)
    PROVE  DInv'
<1> DEFINE f == frame[t]
<1>1. FrameOK("dialect_fill", f) /\ f \in Frame /\ pc[t] = "dialect_fill" /\ f.loc \in Locales
      /\ UNCHANGED <<names, current, cityNames, cityLocale, mixed>> /\ f.todo \subseteq Locales
  BY DEF DialectFill, DInv, MemOK, FrameOK
<1>2. NamesOK'
  BY <1>1 DEF DInv, NamesOK
<1>3. FrameOK("dialect_find", f)
  BY <1>1 DEF FrameOK, Labels
<1>4. Locales \ f.todo \subseteq dialects /\ dialects \subseteq Locales
  BY <1>1 DEF DInv, DialectsSoFar
<1>5. ASSUME NEW l \in f.todo, dialects' = dialects \cup {l},
             Keep(t, [f EXCEPT !.todo = @ \ {l}]), UNCHANGED <<pc, unread, onceVars>>
      PROVE  DInv'
  <2> DEFINE g == [f EXCEPT !.todo = @ \ {l}]
  <2>1. FrameOK("dialect_fill", g) /\ g.kind = f.kind /\ g.loc = f.loc /\ g.todo = f.todo \ {l}
    BY <1>1 DEF FrameOK, Frame
  <2>2. \A s \in Threads \ {t} : g.kind \in Kinds \ mixed' /\ frame[s].kind = g.kind => frame[s].loc = g.loc
    BY <1>1, <2>1 DEF DInv, SameLocale
  <2>3. Goto(t, "dialect_fill") /\ Keep(t, g)
    BY <1>1, <1>5 DEF Goto, DInv, MemOK
  <2> HIDE DEF g
  <2>4. MemOK' /\ SameLocale' /\ OwnNames' /\ NotedNames' /\ NothingMissing'
    BY <1>1, <1>5, <2>1, <2>2, <2>3, CallerMoves
  <2>5. OInv' /\ AtTable'
    BY <1>1, <1>5, <2>3, NotAtTable DEF Outside, Labels
  <2>6. DialectsSoFar'
    BY <1>4, <1>5, <2>1, <2>3, OnlyOneFrame DEF DialectsSoFar, DInv
  <2>7. dialects' \subseteq Locales /\ DialectsWhole'
    BY <1>1, <1>4, <1>5 DEF DialectsWhole
  <2> QED BY <1>2, <2>4, <2>5, <2>6, <2>7 DEF DInv
<1>6. ASSUME f.todo = {}, Goto(t, "dialect_find"), unread' = unread \ {"dialects"},
             UNCHANGED <<dialects, frame, onceVars>>
      PROVE  DInv'
  <2>1. MemOK' /\ SameLocale' /\ OwnNames' /\ NotedNames' /\ NothingMissing'
    BY <1>1, <1>3, <1>6, CallerGoesOn DEF Kinds
  <2>2. OInv' /\ AtTable'
    BY <1>1, <1>6, NotAtTable DEF Outside, Labels
  <2>3. DialectsSoFar'
    BY <1>6, OnlyOneMoves DEF DialectsSoFar, DInv
  <2>4. dialects' \subseteq Locales /\ DialectsWhole'
    BY <1>4, <1>6 DEF DialectsWhole
  <2> QED BY <1>2, <2>1, <2>2, <2>3, <2>4 DEF DInv
<1>7. ASSUME Fault("parse"), unread' = unread \cup {"dialects"}, UNCHANGED dialects,
             \/ Answer(t, None)
             \/ Goto(t, "dialect_find") /\ UNCHANGED frame
      PROVE  DInv'
  <2>1. MemOK' /\ SameLocale' /\ OwnNames' /\ NotedNames' /\ NothingMissing'
    BY <1>1, <1>3, <1>7, CallerGoesOn, CallerAnswers
  <2>2. PICK label \in {"taboo", "dialect_find"} : Goto(t, label)
    BY <1>7 DEF Answer
  <2>3. OInv' /\ AtTable'
    BY <1>1, <1>7, <2>2, NotAtTable DEF Outside, Labels
  <2>4. \A s \in Threads \ {t} : frame'[s] = frame[s]
    BY <1>7, OnlyOneFrame DEF Answer
  <2>5. DialectsSoFar'
    BY <1>7, <2>2, <2>4, OnlyOneMoves DEF DialectsSoFar, DInv
  <2>6. dialects' \subseteq Locales /\ DialectsWhole'
    BY <1>4, <1>7 DEF DialectsWhole
  <2> QED BY <1>2, <2>1, <2>3, <2>5, <2>6 DEF DInv
<1> QED BY <1>5, <1>6, <1>7 DEF DialectFill

\* A thread that finds its locale noted finds names of it, refilled or not.
LEMMA CompareKeeps ==
    ASSUME DInv, NEW t \in Threads, Compare(t)
    PROVE  DInv'
<1> DEFINE f == frame[t]
<1>1. FrameOK("compare", f) /\ UNCHANGED onceVars /\ UNCHANGED nameVars /\ UNCHANGED frame
      /\ pc[t] = "compare" /\ f.loc \in Locales /\ f.kind \in Kinds
  BY DEF Compare, DInv, MemOK, FrameOK
<1>2. FrameOK("find", f) /\ FrameOK("clear", f)
  BY <1>1 DEF FrameOK, Labels
<1>3. PICK label \in {"find", "clear"} :
          Goto(t, label) /\ (label = "find" => current[f.kind] = f.loc)
  BY DEF Compare
<1>4. ASSUME current[f.kind] = f.loc, f.kind \notin mixed, NEW i \in Items
      PROVE  names[f.kind][i] \in {None, f.loc}
  <2>1. CASE \E s \in Threads : Loading(s, f.kind)
    <3>1. PICK s \in Threads : Loading(s, f.kind)
      BY <2>1
    <3>2. frame[s].loc = f.loc
      BY <1>1, <1>4, <3>1 DEF Loading, DInv, SameLocale
    <3> QED BY <1>1, <1>4, <3>1, <3>2 DEF Loading, DInv, OwnNames
  <2> QED BY <1>1, <1>4, <2>1 DEF DInv, NotedNames
<1>5. MemOK' /\ SameLocale' /\ OwnNames' /\ NotedNames' /\ NothingMissing'
  BY <1>1, <1>2, <1>3, <1>4, CallerGoesOn DEF nameVars, tables
<1>6. OInv' /\ AtTable' /\ NamesOK'
  BY <1>1, <1>3, NotAtTable DEF Outside, Labels, nameVars, tables, DInv, NamesOK
<1>7. dialects' \subseteq Locales /\ DialectsSoFar' /\ DialectsWhole'
  BY <1>1, <1>3, DialectsAlone DEF nameVars, tables
<1> QED BY <1>5, <1>6, <1>7 DEF DInv

\* The table that is cleared is one its caller is about to load whole.
LEMMA ClearKeeps ==
    ASSUME DInv, NEW t \in Threads, Clear(t)
    PROVE  DInv'
<1> DEFINE f == frame[t]
           g == [f EXCEPT !.todo = Items]
<1>1. FrameOK("clear", f) /\ f \in Frame /\ pc[t] = "clear" /\ f.loc \in Locales
      /\ f.kind \in Kinds /\ UNCHANGED <<onceVars, dialects, current, cityNames, cityLocale, mixed>>
      /\ unread' = unread \ {f.kind} /\ Goto(t, "load") /\ Keep(t, g)
  BY DEF Clear, DInv, MemOK, FrameOK
<1>2. FrameOK("load", g) /\ g.kind = f.kind /\ g.loc = f.loc /\ g.todo = Items
  BY <1>1 DEF FrameOK, Frame, Labels
<1>3. /\ names' \in [Kinds -> [Items -> Locales \cup {None}]]
      /\ \A i \in Items : names'[f.kind][i] = None
      /\ \A k \in Kinds \ {f.kind} : names'[k] = names[k]
  BY <1>1 DEF Clear, Nameless, DInv, NamesOK
<1> HIDE DEF g
<1>4. /\ MemOK' /\ pc'[t] = "load" /\ frame'[t] = g
      /\ \A s \in Threads \ {t} : pc'[s] = pc[s] /\ frame'[s] = frame[s]
  BY <1>1, <1>2, ThreadMoves DEF DInv
<1>5. SameLocale'
  BY <1>1, <1>2, <1>4 DEF DInv, SameLocale
<1>6. OwnNames'
  <2> SUFFICES ASSUME NEW s \in Threads, (pc[s])' \in {"load", "set", "find", "at"}, NEW i \in Items,
                        (frame[s].kind)' \notin mixed
               PROVE  (names[frame[s].kind][i])' \in {None, (frame[s].loc)'}
    BY <1>1 DEF OwnNames
  <2>1. CASE s = t
    BY <1>2, <1>3, <1>4, <2>1
  <2>2. CASE s # t
    <3>1. frame[s].kind \in Kinds
      BY <1>4, <2>2 DEF DInv, MemOK, FrameOK
    <3> QED BY <1>3, <1>4, <2>2, <3>1 DEF DInv, OwnNames
  <2> QED BY <2>1, <2>2
<1>7. /\ Loading(t, f.kind)'
      /\ \A s \in Threads, k \in Kinds \ {f.kind} : Loading(s, k)' <=> Loading(s, k)
  BY <1>1, <1>2, <1>4 DEF Loading
<1>8. NotedNames'
  BY <1>1, <1>3, <1>7 DEF DInv, NotedNames
<1>9. \A s \in Threads, k \in Kinds : Loading(s, k) => pc'[s] = pc[s] /\ frame'[s] = frame[s]
  BY <1>1, <1>4 DEF Loading
<1>10. NothingMissing'
  BY <1>1, <1>2, <1>3, <1>4, <1>7, <1>9 DEF DInv, NothingMissing
<1>11. NamesOK'
  BY <1>1, <1>3 DEF DInv, NamesOK
<1>12. OInv' /\ AtTable'
  BY <1>1, NotAtTable DEF Outside, Labels
<1>13. dialects' \subseteq Locales /\ DialectsSoFar' /\ DialectsWhole'
  BY <1>1, <1>4, DialectsAlone DEF Kinds
<1> QED BY <1>4, <1>5, <1>6, <1>8, <1>10, <1>11, <1>12, <1>13 DEF DInv

\* A name that is loaded is of the locale its table is being loaded for.
LEMMA LoadKeeps ==
    ASSUME DInv, NEW t \in Threads, Load(t)
    PROVE  DInv'
<1> DEFINE f == frame[t]
<1>1. FrameOK("load", f) /\ f \in Frame /\ pc[t] = "load" /\ f.loc \in Locales
      /\ f.kind \in Kinds /\ f.todo \subseteq Items
      /\ UNCHANGED <<dialects, current, cityNames, cityLocale, mixed>>
  BY DEF Load, DInv, MemOK, FrameOK
<1>2. FrameOK("set", f) /\ Loading(t, f.kind)
  BY <1>1 DEF FrameOK, Labels, Loading
<1>3. ASSUME NEW i \in f.todo, Keep(t, [f EXCEPT !.todo = @ \ {i}]),
             names' = [names EXCEPT ![f.kind][i] = IF @ = None THEN f.loc ELSE @],
             UNCHANGED <<unread, pc, onceVars>>
      PROVE  DInv'
  <2> DEFINE g == [f EXCEPT !.todo = @ \ {i}]
  <2>1. FrameOK("load", g) /\ g.kind = f.kind /\ g.loc = f.loc /\ g.todo = f.todo \ {i}
    BY <1>1 DEF FrameOK, Frame
  <2>2. Goto(t, "load") /\ Keep(t, g) /\ i \in Items
    BY <1>1, <1>3 DEF Goto, DInv, MemOK
  <2>3. /\ names' \in [Kinds -> [Items -> Locales \cup {None}]]
        /\ names'[f.kind][i] = IF names[f.kind][i] = None THEN f.loc ELSE names[f.kind][i]
        /\ \A j \in Items \ {i} : names'[f.kind][j] = names[f.kind][j]
        /\ \A k \in Kinds \ {f.kind} : names'[k] = names[k]
    BY <1>1, <1>3, <2>2 DEF DInv, NamesOK
  <2> HIDE DEF g
  <2>4. /\ MemOK' /\ pc'[t] = "load" /\ frame'[t] = g
        /\ \A s \in Threads \ {t} : pc'[s] = pc[s] /\ frame'[s] = frame[s]
    BY <1>1, <2>1, <2>2, ThreadMoves DEF DInv
  <2>5. SameLocale'
    BY <1>1, <2>1, <2>4 DEF DInv, SameLocale
  <2>6. OwnNames'
    <3> SUFFICES ASSUME NEW s \in Threads, (pc[s])' \in {"load", "set", "find", "at"},
                        NEW j \in Items, (frame[s].kind)' \notin mixed
                 PROVE  (names[frame[s].kind][j])' \in {None, (frame[s].loc)'}
      BY <1>1 DEF OwnNames
    <3>1. (frame[s].kind)' = frame[s].kind /\ (frame[s].loc)' = frame[s].loc /\ pc'[s] = pc[s]
      BY <1>3, <2>1, <2>4
    <3>2. frame[s].kind \in Kinds /\ names[frame[s].kind][j] \in {None, frame[s].loc}
      BY <3>1 DEF DInv, MemOK, FrameOK, OwnNames
    <3>3. frame[s].kind = f.kind => frame[s].loc = f.loc
      BY <1>1, <3>1 DEF DInv, SameLocale
    <3> QED BY <2>3, <3>1, <3>2, <3>3
  <2>7. \A s \in Threads, k \in Kinds : Loading(s, k)' <=> Loading(s, k)
    BY <1>1, <2>1, <2>4 DEF Loading
  <2>8. NotedNames'
    BY <1>1, <1>2, <2>3, <2>7 DEF DInv, NotedNames
  <2>9. NothingMissing'
    <3> SUFFICES ASSUME NEW k \in Kinds \ unread, NEW j \in Items, names'[k][j] = None
                 PROVE  \/ \E s \in Threads : Loading(s, k)' /\ pc'[s] = "load" /\ j \in (frame[s].todo)'
                        \/ current'[k] = None /\ \A s \in Threads : ~Loading(s, k)'
      BY <1>3 DEF NothingMissing
    <3>1. names[k][j] = None /\ (k = f.kind => j # i)
      BY <1>1, <2>2, <2>3, NamesAssumption
    <3>2. CASE \E s \in Threads : Loading(s, k) /\ pc[s] = "load" /\ j \in frame[s].todo
      <4>1. PICK s \in Threads : Loading(s, k) /\ pc[s] = "load" /\ j \in frame[s].todo
        BY <3>2
      <4>2. s = t => k = f.kind
        BY <4>1 DEF Loading
      <4>3. pc'[s] = "load" /\ j \in (frame[s].todo)'
        BY <2>1, <2>4, <3>1, <4>1, <4>2
      <4> QED BY <2>7, <4>1, <4>3
    <3> QED BY <1>1, <2>7, <3>1, <3>2 DEF DInv, NothingMissing
  <2>10. NamesOK'
    BY <1>1, <2>3 DEF DInv, NamesOK
  <2>11. OInv' /\ AtTable'
    BY <1>1, <1>3, <2>2, NotAtTable DEF Outside, Labels
  <2>12. dialects' \subseteq Locales /\ DialectsSoFar' /\ DialectsWhole'
    BY <1>1, <1>3, <2>2, <2>4, DialectsAlone
  <2> QED BY <2>4, <2>5, <2>6, <2>8, <2>9, <2>10, <2>11, <2>12 DEF DInv
<1>4. ASSUME Goto(t, "set"), UNCHANGED <<names, frame>>,
             UNCHANGED onceVars \/ Fault("parse"),
             \/ f.todo = {} /\ UNCHANGED unread
             \/ unread' = unread \cup {f.kind}
      PROVE  DInv'
  <2>1. Keep(t, f)
    BY <1>4 DEF Keep, DInv, MemOK
  <2> HIDE DEF f
  <2>2. /\ MemOK' /\ pc'[t] = "set" /\ frame'[t] = f
        /\ \A s \in Threads \ {t} : pc'[s] = pc[s] /\ frame'[s] = frame[s]
    BY <1>1, <1>2, <1>4, <2>1, ThreadMoves DEF DInv
  <2>3. SameLocale'
    BY <1>1, <1>4 DEF DInv, SameLocale
  <2>4. OwnNames'
    BY <1>1, <1>4, <2>2 DEF DInv, OwnNames
  <2>5. \A s \in Threads, k \in Kinds : Loading(s, k)' <=> Loading(s, k)
    BY <1>1, <1>4, <2>2 DEF Loading
  <2>6. NotedNames'
    BY <1>1, <1>4, <2>5 DEF DInv, NotedNames
  <2>7. NothingMissing'
    <3> SUFFICES ASSUME NEW k \in Kinds \ unread', NEW j \in Items, names[k][j] = None
                 PROVE  \/ \E s \in Threads : Loading(s, k)' /\ pc'[s] = "load" /\ j \in (frame[s].todo)'
                        \/ current'[k] = None /\ \A s \in Threads : ~Loading(s, k)'
      BY <1>4 DEF NothingMissing
    <3>1. CASE \E s \in Threads : Loading(s, k) /\ pc[s] = "load" /\ j \in frame[s].todo
      <4>1. PICK s \in Threads : Loading(s, k) /\ pc[s] = "load" /\ j \in frame[s].todo
        BY <3>1
      <4>2. s # t
        BY <1>4, <4>1 DEF Loading, f
      <4>3. pc'[s] = "load" /\ j \in (frame[s].todo)'
        BY <1>4, <2>2, <4>1, <4>2
      <4> QED BY <2>5, <4>1, <4>3
    <3>2. k \in Kinds \ unread
      BY <1>4
    <3> QED BY <1>1, <2>5, <3>1, <3>2 DEF DInv, NothingMissing
  <2>8. NamesOK'
    BY <1>1, <1>4 DEF DInv, NamesOK
  <2>9. OInv' /\ AtTable'
    BY <1>1, <1>4, NotAtTable DEF Outside, Labels
  <2>10. dialects' \subseteq Locales /\ DialectsSoFar' /\ DialectsWhole'
    BY <1>1, <1>4, DialectsAlone
  <2> QED BY <2>2, <2>3, <2>4, <2>6, <2>7, <2>8, <2>9, <2>10 DEF DInv
<1> QED BY <1>3, <1>4 DEF Load

\* The locale that is noted is the one the table has names of.
LEMMA SetCurrentKeeps ==
    ASSUME DInv, NEW t \in Threads, SetCurrent(t)
    PROVE  DInv'
<1> DEFINE f == frame[t]
           g == [f EXCEPT !.todo = {}]
<1>1. FrameOK("set", f) /\ f \in Frame /\ pc[t] = "set" /\ f.loc \in Locales
      /\ f.kind \in Kinds /\ UNCHANGED <<onceVars, dialects, names, cityNames, cityLocale, unread, mixed>>
      /\ Goto(t, "find") /\ Keep(t, g) /\ Loading(t, f.kind)
  BY DEF SetCurrent, DInv, MemOK, FrameOK, Loading
<1>2. FrameOK("find", g) /\ g.kind = f.kind /\ g.loc = f.loc
  BY <1>1 DEF FrameOK, Frame, Labels
<1>3. /\ current' \in [Kinds -> Locales \cup {None}] /\ current'[f.kind] = f.loc
      /\ \A k \in Kinds \ {f.kind} : current'[k] = current[k]
  BY <1>1 DEF SetCurrent, DInv, NamesOK
<1> HIDE DEF g
<1>4. /\ MemOK' /\ pc'[t] = "find" /\ frame'[t] = g
      /\ \A s \in Threads \ {t} : pc'[s] = pc[s] /\ frame'[s] = frame[s]
  BY <1>1, <1>2, ThreadMoves DEF DInv
<1>5. SameLocale'
  BY <1>1, <1>2, <1>4 DEF DInv, SameLocale
<1>6. OwnNames'
  BY <1>1, <1>2, <1>4 DEF DInv, OwnNames
<1>7. \A s \in Threads, k \in Kinds \ {f.kind} : Loading(s, k)' <=> Loading(s, k)
  BY <1>1, <1>2, <1>4 DEF Loading
<1>8. NotedNames'
  <2>1. f.kind \notin mixed => \A i \in Items : names[f.kind][i] \in {None, f.loc}
    BY <1>1 DEF DInv, OwnNames
  <2> QED BY <1>1, <1>3, <1>7, <2>1 DEF DInv, NotedNames
<1>9. \A s \in Threads, k \in Kinds : Loading(s, k) /\ pc[s] = "load" =>
          pc'[s] = pc[s] /\ frame'[s] = frame[s] /\ Loading(s, k)'
  BY <1>1, <1>4 DEF Loading
<1>10. NothingMissing'
  BY <1>1, <1>3, <1>7, <1>9 DEF DInv, NothingMissing
<1>11. NamesOK'
  BY <1>1, <1>3 DEF DInv, NamesOK
<1>12. OInv' /\ AtTable'
  BY <1>1, NotAtTable DEF Outside, Labels
<1>13. dialects' \subseteq Locales /\ DialectsSoFar' /\ DialectsWhole'
  BY <1>1, <1>4, DialectsAlone
<1> QED BY <1>4, <1>5, <1>6, <1>8, <1>10, <1>11, <1>12, <1>13 DEF DInv

LEMMA FindKeeps ==
    ASSUME DInv, NEW t \in Threads, Find(t)
    PROVE  DInv'
<1> DEFINE f == frame[t]
<1>1. FrameOK("find", f) /\ f \in Frame /\ pc[t] = "find" /\ f.loc \in Locales
      /\ f.kind \in Kinds /\ UNCHANGED onceVars /\ UNCHANGED nameVars
  BY DEF Find, DInv, MemOK, FrameOK
<1>2. PICK i \in Items : IF names[f.kind][i] = None THEN Answer(t, None)
                         ELSE Goto(t, "at") /\ Keep(t, [f EXCEPT !.item = i])
  BY DEF Find
<1> DEFINE g == [f EXCEPT !.item = i]
<1>3. FrameOK("at", g) /\ g.kind = f.kind /\ g.loc = f.loc
  BY <1>1 DEF FrameOK, Frame, Labels
<1>4. \A s \in Threads \ {t} : g.kind \in Kinds \ mixed' /\ frame[s].kind = g.kind => frame[s].loc = g.loc
  BY <1>1, <1>3 DEF DInv, SameLocale, nameVars
<1>5. g.kind \notin mixed => \A j \in Items : names[g.kind][j] \in {None, g.loc}
  BY <1>1, <1>3 DEF DInv, OwnNames
<1>6. PICK label \in {"at", "taboo"} :
          /\ Goto(t, label)
          /\ label = "at" => Keep(t, g)
          /\ label = "taboo" => Answer(t, None)
  BY <1>2 DEF Answer
<1> HIDE DEF g
<1>7. MemOK' /\ SameLocale' /\ OwnNames' /\ NotedNames' /\ NothingMissing'
  BY <1>1, <1>3, <1>4, <1>5, <1>6, CallerMoves, CallerAnswers DEF nameVars, tables
<1>8. OInv' /\ AtTable' /\ NamesOK'
  BY <1>1, <1>6, NotAtTable DEF Outside, Labels, nameVars, tables, DInv, NamesOK
<1>9. \A s \in Threads \ {t} : frame'[s] = frame[s]
  BY <1>6, OnlyOneFrame DEF Answer
<1>10. dialects' \subseteq Locales /\ DialectsSoFar' /\ DialectsWhole'
  BY <1>1, <1>6, <1>9, DialectsAlone DEF nameVars, tables
<1> QED BY <1>7, <1>8, <1>10 DEF DInv

\* The name that is there is of the caller's locale; one that is gone is thrown for.
LEMMA AtKeeps ==
    ASSUME DInv, NEW t \in Threads, At(t)
    PROVE  DInv'
<1> DEFINE f == frame[t]
           name == names[f.kind][f.item]
           g == [NoFrame EXCEPT !.found = Thrown]
<1>1. FrameOK("at", f) /\ f \in Frame /\ pc[t] = "at" /\ f.loc \in Locales
      /\ f.kind \in Kinds /\ f.item \in Items /\ UNCHANGED onceVars /\ UNCHANGED nameVars
  BY DEF At, DInv, MemOK, FrameOK
<1>2. name \in Locales \cup {None} /\ (name \in {None, f.loc} \/ f.kind \in mixed)
  BY <1>1 DEF DInv, OwnNames, NamesOK
<1>3. FrameOK("idle", g) /\ g.kind \notin Kinds
  BY NoFrameOK DEF NoFrame, Kinds
<1>4. PICK label \in {"idle", "taboo"} :
          /\ Goto(t, label)
          /\ label = "idle" => Keep(t, g)
          /\ label = "taboo" => Answer(t, name)
  BY DEF At, Answer
<1> HIDE DEF g, name
<1>5. MemOK' /\ SameLocale' /\ OwnNames' /\ NotedNames' /\ NothingMissing'
  BY <1>1, <1>2, <1>3, <1>4, CallerMoves, CallerAnswers DEF nameVars, tables
<1>6. OInv' /\ AtTable' /\ NamesOK'
  BY <1>1, <1>4, NotAtTable DEF Outside, Labels, nameVars, tables, DInv, NamesOK
<1>7. \A s \in Threads \ {t} : frame'[s] = frame[s]
  BY <1>4, OnlyOneFrame DEF Answer
<1>8. dialects' \subseteq Locales /\ DialectsSoFar' /\ DialectsWhole'
  BY <1>1, <1>4, <1>7, DialectsAlone DEF nameVars, tables
<1> QED BY <1>5, <1>6, <1>8 DEF DInv

\* Under its mutex the cache of city names stays of the locale noted for it.
LEMMA CityNamesKeeps ==
    ASSUME DInv, NEW t \in Threads, CityNames(t)
    PROVE  DInv'
<1> DEFINE f == frame[t]
<1>1. FrameOK("city", f) /\ f \in Frame /\ pc[t] = "city" /\ f.loc \in Locales
      /\ UNCHANGED <<dialects, names, current, unread, mixed>>
  BY DEF CityNames, DInv, MemOK, FrameOK
<1>2. PICK name \in {None, f.loc} : Answer(t, name)
  BY DEF CityNames, DInv, NamesOK
<1>3. MemOK' /\ SameLocale' /\ OwnNames' /\ NotedNames' /\ NothingMissing'
  BY <1>1, <1>2, CallerAnswers
<1>4. NamesOK'
  BY <1>1 DEF CityNames, DInv, NamesOK
<1>5. OInv' /\ AtTable'
  <2>1. UNCHANGED onceVars \/ Fault("parse")
    BY DEF CityNames
  <2> QED BY <1>1, <1>2, <2>1, NotAtTable DEF Answer, Outside, Labels
<1>6. dialects' \subseteq Locales /\ DialectsSoFar' /\ DialectsWhole'
  BY <1>1, <1>2, OnlyOneFrame, DialectsAlone DEF Answer
<1> QED BY <1>3, <1>4, <1>5, <1>6 DEF DInv

-----------------------------------------------------------------------------
(* The steps that use a table of InitOnce. *)

\* What a step of InitOnce leaves alone.
LEMMA NamesAlone ==
    ASSUME DInv, UNCHANGED <<nameVars, pc, frame>>
    PROVE  /\ MemOK' /\ NamesOK' /\ SameLocale' /\ OwnNames' /\ NotedNames'
           /\ NothingMissing'
           /\ dialects' \subseteq Locales /\ DialectsSoFar' /\ DialectsWhole'
<1> USE DEF DInv, nameVars, tables
<1>1. MemOK' /\ NamesOK' /\ SameLocale'
  BY DEF MemOK, FrameOK, NamesOK, SameLocale
<1>2. OwnNames' /\ NotedNames' /\ NothingMissing'
  BY DEF OwnNames, NotedNames, NothingMissing, Loading
<1>3. dialects' \subseteq Locales /\ DialectsSoFar' /\ DialectsWhole'
  BY DEF DialectsSoFar, DialectsWhole
<1> QED BY <1>1, <1>2, <1>3

LEMMA UseTableKeeps ==
    ASSUME DInv, NEW t \in Threads, UseTable(t)
    PROVE  DInv'
<1>1. Needs(t) \in Tables
  BY TableNeeded DEF UseTable, DInv
<1>2. OInv'
  BY <1>1, OnceInductive DEF UseTable, DInv, OnceNext
<1>3. AtTable'
  BY DEF UseTable, Use, Move, DInv, OInv, OnceTypeOK, AtTable
<1> QED BY <1>2, <1>3, NamesAlone DEF UseTable, DInv

LEMMA FillTableKeeps ==
    ASSUME DInv, NEW t \in Threads, FillTable(t)
    PROVE  DInv'
<1>1. OInv'
  BY OnceInductive DEF FillTable, DInv, OnceNext
<1>2. at[t] # "out" /\ \A s \in Threads \ {t} : at'[s] = at[s]
  BY DEF FillTable, Once, Test, Lock, Retest, Fill, Filled, FillFails, Mark, Leave, Move,
         DInv, OInv, OnceTypeOK
<1>3. AtTable'
  BY <1>2 DEF FillTable, DInv, AtTable
<1> QED BY <1>1, <1>3, NamesAlone DEF FillTable, DInv

LEMMA HaveTableKeeps ==
    ASSUME DInv, NEW t \in Threads, HaveTable(t)
    PROVE  DInv'
<1> DEFINE f == frame[t]
<1>1. /\ FrameOK(pc[t], f) /\ pc[t] \in {"taboo", "cities", "locales", "white"}
      /\ UNCHANGED nameVars /\ Read(t)
  BY DEF HaveTable, Read, DInv, MemOK, AtTable
<1>2. PICK label \in {"locales", "city", "idle"} :
          /\ Goto(t, label)
          /\ label = "locales" => pc[t] = "cities" /\ UNCHANGED frame
          /\ label = "city" => pc[t] = "locales" /\ UNCHANGED frame
          /\ label = "idle" => Keep(t, NoFrame)
  BY DEF HaveTable
<1>3. OInv'
  BY <1>1, OnceInductive DEF DInv, OnceNext
<1>4. AtTable'
  BY <1>1, <1>2, OnlyOneMoves DEF Read, Move, DInv, OInv, OnceTypeOK, AtTable
<1>5. NamesOK'
  BY <1>1 DEF nameVars, tables, DInv, NamesOK
<1>6. CASE label = "idle"
  <2>1. MemOK' /\ SameLocale' /\ OwnNames' /\ NotedNames' /\ NothingMissing'
    BY <1>1, <1>2, <1>6, NoFrameOK, CallerMoves DEF nameVars, tables, NoFrame, Kinds
  <2>2. dialects' \subseteq Locales /\ DialectsSoFar' /\ DialectsWhole'
    BY <1>1, <1>2, <1>6, OnlyOneFrame, DialectsAlone DEF nameVars, tables
  <2> QED BY <1>3, <1>4, <1>5, <2>1, <2>2 DEF DInv
<1>7. CASE label # "idle"
  <2>1. FrameOK(label, f)
    BY <1>1, <1>2, <1>7 DEF FrameOK, Labels
  <2>2. MemOK' /\ SameLocale' /\ OwnNames' /\ NotedNames' /\ NothingMissing'
    BY <1>1, <1>2, <1>7, <2>1, CallerGoesOn DEF nameVars, tables
  <2>3. dialects' \subseteq Locales /\ DialectsSoFar' /\ DialectsWhole'
    BY <1>1, <1>2, <1>7, DialectsAlone DEF nameVars, tables
  <2> QED BY <1>3, <1>4, <1>5, <2>2, <2>3 DEF DInv
<1> QED BY <1>6, <1>7

-----------------------------------------------------------------------------
(* The theorems. *)

LEMMA NamesInitial == Init => DInv
<1> SUFFICES ASSUME Init PROVE DInv
  OBVIOUS
<1>1. OInv /\ AtTable
  BY OnceInitial DEF Init, OnceInit, AtTable
<1>2. MemOK
  <2>1. "idle" \in Labels /\ NoFrame \in Frame
    BY NoFrameOK DEF FrameOK
  <2> QED BY <2>1, NoFrameOK DEF Init, MemOK
<1>3. NamesOK
  BY DEF Init, NamesOK, Nameless
<1>4. SameLocale /\ OwnNames
  BY DEF Init, SameLocale, OwnNames
<1>5. NotedNames /\ NothingMissing
  BY DEF Init, NotedNames, NothingMissing, Nameless, Loading
<1>6. dialects \subseteq Locales /\ DialectsSoFar /\ DialectsWhole
  BY DEF Init, DialectsSoFar, DialectsWhole
<1> QED BY <1>1, <1>2, <1>3, <1>4, <1>5, <1>6 DEF DInv

LEMMA NamesInductive == DInv /\ [Next]_vars => DInv'
<1> SUFFICES ASSUME DInv, [Next]_vars PROVE DInv'
  OBVIOUS
<1>1. ASSUME NEW t \in Threads, Call(t) PROVE DInv'
  BY <1>1, CallKeeps
<1>2. ASSUME NEW t \in Threads, Step(t) PROVE DInv'
  <2>1. CASE DialectTest(t) \/ DialectFill(t) \/ DialectFind(t)
    BY <2>1, DialectTestKeeps, DialectFillKeeps, DialectFindKeeps
  <2>2. CASE Compare(t) \/ Clear(t) \/ Load(t) \/ SetCurrent(t)
    BY <2>2, CompareKeeps, ClearKeeps, LoadKeeps, SetCurrentKeeps
  <2>3. CASE Find(t) \/ At(t) \/ CityNames(t)
    BY <2>3, FindKeeps, AtKeeps, CityNamesKeeps
  <2>4. CASE UseTable(t) \/ FillTable(t) \/ HaveTable(t)
    BY <2>4, UseTableKeeps, FillTableKeeps, HaveTableKeeps
  <2> QED BY <1>2, <2>1, <2>2, <2>3, <2>4 DEF Step
<1>3. CASE UNCHANGED vars
  <2>1. OInv' /\ AtTable'
    BY <1>3, OnceInductive DEF vars, onceVars, DInv, AtTable
  <2> QED BY <1>3, <2>1, NamesAlone DEF vars, DInv
<1> QED BY <1>1, <1>2, <1>3 DEF Next

LEMMA SettledNames == DInv => NamesSettle
<1> SUFFICES ASSUME DInv, AllIdle PROVE NamesSettle
  BY DEF NamesSettle
<1>1. \A t \in Threads, k \in Kinds : ~Loading(t, k)
  BY DEF AllIdle, Loading
<1>2. ASSUME NEW k \in Kinds \ (unread \cup mixed), NEW i \in Items PROVE names[k][i] = current[k]
  BY <1>1 DEF DInv, NotedNames, NothingMissing
<1>3. "dialects" \in unread \/ dialects \in {{}, Locales}
  BY DEF DInv, DialectsWhole, AllIdle
<1> QED BY <1>2, <1>3 DEF NamesSettle

\* However many threads make them, calls leave each table whole and of the locale noted
\* for it, unless its file could not be read or calls for different display locales have
\* overlapped on it.
THEOREM TablesSettle == Spec => []NamesSettle
<1>1. DInv /\ [Next]_vars => DInv'
  BY NamesInductive
<1> QED BY <1>1, NamesInitial, SettledNames, PTL DEF Spec

\* A call gets no name of a locale it did not ask for: a city's never, a language's or
\* a region's unless calls of that kind for different locales have overlapped.
THEOREM OwnLocaleAnswered == Spec => []AnswerOfAsked
<1>1. DInv /\ [Next]_vars => DInv'
  BY NamesInductive
<1>2. DInv => AnswerOfAsked
  BY DEF DInv, MemOK, FrameOK, AnswerOfAsked
<1> QED BY <1>1, <1>2, NamesInitial, PTL DEF Spec

===============================================================================
