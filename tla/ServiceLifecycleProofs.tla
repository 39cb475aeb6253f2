----------------------- MODULE ServiceLifecycleProofs -----------------------
(***************************************************************************)
(* What ServiceLifecycle promises for any number of IPC threads, any delay *)
(* and any bounds: its type invariant, the request count OnIdle relies on, *)
(* and that a started service never loses its unload task.                 *)
(***************************************************************************)
EXTENDS ServiceLifecycle, FiniteSetTheorems, TLAPS

\* Every step of the service keeps every variable in its type.
THEOREM TypeCorrect == Spec => []TypeOK
<1>1. Init => TypeOK
  <2> SUFFICES ASSUME Init PROVE TypeOK
    OBVIOUS
  <2>1. published \in BOOLEAN /\ handler \in BOOLEAN /\ critical \in BOOLEAN /\ asking \in BOOLEAN
    BY Zenon DEF Init
  <2>2. timer \in [Posters -> Ticks \cup {Off}]
    BY DEF Init
  <2>3. 0 \in Ticks /\ 0 \in 0..MaxCalls /\ 0 \in 0..MaxStarts /\ 0 \in 0..MaxFaults
    BY DelayAssumption, BoundsAssumption DEF Ticks
  <2> QED BY <2>1, <2>2, <2>3 DEF Init, TypeOK, Phases, Labels
<1>2. TypeOK /\ [Next]_vars => TypeOK'
  <2> SUFFICES ASSUME TypeOK, [Next]_vars PROVE TypeOK'
    OBVIOUS
  <2> USE DelayAssumption, BoundsAssumption DEF TypeOK, Ticks, Phases, Labels
  <2>1. ASSUME NEW t \in Threads, Arrive(t) PROVE TypeOK'
    BY <2>1 DEF Arrive, Goto, unloading
  <2>2. ASSUME NEW t \in Threads, Serve(t) PROVE TypeOK'
    <3>1. CASE StartCritical(t)
      <4>1. critical' \in BOOLEAN /\ refused' \subseteq {"critical", "samgr"}
        BY <3>1, Zenon DEF StartCritical, SetCritical
      <4>2. calls' \in 0..MaxCalls /\ starts' \in 0..MaxStarts /\ faults' \in 0..MaxFaults
        BY <3>1 DEF StartCritical, SetCritical, Fault, bounds
      <4> QED BY <3>1, <4>1, <4>2 DEF StartCritical, Goto, unloading
    <3>2. CASE StartIncrease(t)
      BY <3>2 DEF StartIncrease, UpdateTaskNumber, Goto, unloading, unloading, bounds
    <3>3. CASE StartRemove(t)
      BY <3>3 DEF StartRemove, RemoveTask, Goto, unloading, unloading, bounds
    <3>4. CASE StartPost(t)
      BY <3>4 DEF StartPost, PostTask, MakeGood, Goto, unloading, unloading, bounds, Posters
    <3>5. CASE Work(t)
      BY <3>5 DEF Work, Goto, unloading, unloading, bounds
    <3>6. CASE FinishCritical(t)
      <4>1. critical' \in BOOLEAN /\ refused' \subseteq {"critical", "samgr"}
        BY <3>6, Zenon DEF FinishCritical, SetCritical
      <4>2. calls' \in 0..MaxCalls /\ starts' \in 0..MaxStarts /\ faults' \in 0..MaxFaults
        BY <3>6 DEF FinishCritical, SetCritical, Fault, bounds
      <4> QED BY <3>6, <4>1, <4>2 DEF FinishCritical, Goto, unloading
    <3>7. CASE FinishDecrease(t)
      BY <3>7 DEF FinishDecrease, UpdateTaskNumber, Goto, unloading, unloading, bounds
    <3> QED BY <2>2, <3>1, <3>2, <3>3, <3>4, <3>5, <3>6, <3>7 DEF Serve
  <2>3. CASE Start
    BY <2>3 DEF Start, process, samgr
  <2>4. CASE OnStart
    <3>1. CASE Publish
      <4>1. published' \in BOOLEAN
        BY <3>1, Zenon DEF Publish
      <4>2. calls' \in 0..MaxCalls /\ starts' \in 0..MaxStarts /\ faults' \in 0..MaxFaults
        BY <3>1 DEF Publish, Fault, bounds
      <4> QED BY <3>1, <4>1, <4>2 DEF Publish, process, samgr
    <3>2. CASE CreateHandler
      BY <3>2 DEF CreateHandler, samgr, unloading, bounds
    <3>3. CASE FirstRemove
      BY <3>3 DEF FirstRemove, RemoveTask, samgr, unloading, bounds
    <3>4. CASE FirstPost
      BY <3>4 DEF FirstPost, PostTask, MakeGood, samgr, unloading, bounds, Posters
    <3> QED BY <2>4, <3>1, <3>2, <3>3, <3>4 DEF OnStart
  <2>5. ASSUME NEW p \in Posters, TakeTask(p) PROVE TypeOK'
    <3>1. timer' \in [Posters -> Ticks \cup {Off}]
      BY <2>5 DEF TakeTask
    <3>2. asking' \in BOOLEAN
      BY <2>5, Zenon DEF TakeTask
    <3> QED BY <2>5, <3>1, <3>2 DEF TakeTask, samgr, unloading, bounds
  <2>11. CASE UnloadI18nService
    <3>1. asking' \in BOOLEAN
      BY <2>11, Zenon DEF UnloadI18nService
    <3>2. refused' \subseteq {"critical", "samgr"}
      BY <2>11, Zenon DEF UnloadI18nService
    <3>3. unload' \in {"none", "asked", "delayed", "stopping"}
      BY <2>11 DEF UnloadI18nService
    <3>4. calls' \in 0..MaxCalls /\ starts' \in 0..MaxStarts /\ faults' \in 0..MaxFaults
      BY <2>11 DEF UnloadI18nService, Fault, bounds
    <3> QED BY <2>11, <3>1, <3>2, <3>3, <3>4 DEF UnloadI18nService
  <2>6. CASE OnIdle
    BY <2>6 DEF OnIdle, process, bounds
  <2>7. CASE DelayOver
    BY <2>7 DEF DelayOver, process, bounds
  <2>8. CASE OnStop \/ Reclaim
    <3>1. ProcessEnds
      BY <2>8 DEF OnStop, Reclaim
    <3>2. published' \in BOOLEAN /\ handler' \in BOOLEAN /\ critical' \in BOOLEAN
           /\ asking' \in BOOLEAN
      BY <3>1, Zenon DEF ProcessEnds
    <3>3. timer' \in [Posters -> Ticks \cup {Off}]
      BY <3>1 DEF ProcessEnds
    <3>4. calls' \in 0..MaxCalls /\ starts' \in 0..MaxStarts /\ faults' \in 0..MaxFaults
      BY <2>8 DEF OnStop, Reclaim, Fault, bounds
    <3> QED BY <3>1, <3>2, <3>3, <3>4 DEF ProcessEnds
  <2>9. CASE Tick
    <3>1. timer' \in [Posters -> Ticks \cup {Off}]
      BY <2>9 DEF Tick
    <3>2. wait' \in Ticks /\ quiet' \in Ticks
      BY <2>9 DEF Tick
    <3> QED BY <2>9, <3>1, <3>2 DEF Tick, bounds
  <2>10. CASE UNCHANGED vars
    BY <2>10 DEF vars
  <2> QED
    BY <2>1, <2>2, <2>3, <2>4, <2>5, <2>6, <2>7, <2>8, <2>9, <2>10, <2>11 DEF Next
<1> QED BY <1>1, <1>2, PTL DEF Spec

-----------------------------------------------------------------------------
\* A thread counted in adds one to the count, a thread counted out takes one away.
LEMMA CountIn ==
    ASSUME NEW S, IsFiniteSet(S), NEW t, t \notin S
    PROVE  Cardinality(S \cup {t}) = Cardinality(S) + 1
BY FS_AddElement

LEMMA CountOut ==
    ASSUME NEW S, IsFiniteSet(S), NEW t \in S
    PROVE  Cardinality(S \ {t}) = Cardinality(S) - 1
BY FS_RemoveElement

LEMMA CountedFinite == IsFiniteSet(Counted)
<1>1. Counted \subseteq Threads
  BY DEF Counted
<1> QED BY <1>1, ThreadsAssumption, FS_Subset

\* A thread that moves between two counted, or two uncounted, labels.
LEMMA CountKept ==
    ASSUME TypeOK, NEW t \in Threads, NEW label \in Labels, Goto(t, label),
           UNCHANGED taskNumber, TasksCounted,
           LET in == {"remove", "post", "work", "finish", "decrease"}
           IN  pc[t] \in in <=> label \in in
    PROVE  TasksCounted'
<1>1. Counted' = Counted
  BY DEF TypeOK, Goto, Counted
<1> QED BY <1>1 DEF TasksCounted

\* UpdateTaskNumber under its mutex counts the requests between StartTask and
\* FinishTask exactly, whatever the number of threads, failures and restarts.
THEOREM TaskNumberCounts == Spec => []TasksCounted
<1>1. Init => TasksCounted
  <2> SUFFICES ASSUME Init PROVE TasksCounted
    OBVIOUS
  <2>1. Counted = {}
    BY DEF Init, Counted
  <2> QED BY <2>1, FS_EmptySet DEF Init, TasksCounted
<1>2. TypeOK /\ TasksCounted /\ [Next]_vars => TasksCounted'
  <2> SUFFICES ASSUME TypeOK, TasksCounted, [Next]_vars PROVE TasksCounted'
    OBVIOUS
  <2>1. ASSUME UNCHANGED <<pc, taskNumber>> PROVE TasksCounted'
    BY <2>1 DEF TasksCounted, Counted
  <2>2. ASSUME NEW t \in Threads, Arrive(t) PROVE TasksCounted'
    BY <2>2, CountKept DEF Arrive, Labels
  <2>3. ASSUME NEW t \in Threads, Serve(t) PROVE TasksCounted'
    <3>1. CASE StartIncrease(t)
      <4>1. t \notin Counted /\ Counted' = Counted \cup {t}
        BY <3>1 DEF StartIncrease, Goto, TypeOK, Counted
      <4> QED BY <3>1, <4>1, CountIn, CountedFinite
              DEF StartIncrease, UpdateTaskNumber, TasksCounted
    <3>2. CASE FinishDecrease(t)
      <4>1. t \in Counted /\ Counted' = Counted \ {t}
        BY <3>2 DEF FinishDecrease, Goto, TypeOK, Counted
      <4>2. taskNumber' = taskNumber - 1
        BY <3>2 DEF FinishDecrease, UpdateTaskNumber, TypeOK
      <4> QED BY <4>1, <4>2, CountOut, CountedFinite DEF TasksCounted
    <3>3. CASE StartCritical(t)
      BY <3>3, CountKept DEF StartCritical, Labels
    <3>4. CASE StartRemove(t)
      BY <3>4, CountKept DEF StartRemove, Labels
    <3>5. CASE StartPost(t)
      BY <3>5, CountKept DEF StartPost, Labels
    <3>6. CASE Work(t)
      BY <3>6, CountKept DEF Work, Labels
    <3>7. CASE FinishCritical(t)
      BY <3>7, CountKept DEF FinishCritical, Labels
    <3> QED BY <2>3, <3>1, <3>2, <3>3, <3>4, <3>5, <3>6, <3>7 DEF Serve
  <2>4. ASSUME ProcessEnds PROVE TasksCounted'
    <3>1. Counted' = {}
      BY <2>4 DEF ProcessEnds, Counted
    <3> QED BY <2>4, <3>1, FS_EmptySet DEF ProcessEnds, TasksCounted
  <2>5. CASE Start \/ OnStart \/ OnIdle \/ DelayOver \/ Tick
    BY <2>1, <2>5 DEF Start, OnStart, Publish, CreateHandler, FirstRemove, FirstPost,
                      OnIdle, DelayOver, Tick, process
  <2>6. ASSUME UnloadI18nService \/ \E p \in Posters : TakeTask(p) PROVE TasksCounted'
    BY <2>1, <2>6 DEF UnloadI18nService, TakeTask
  <2>7. CASE OnStop \/ Reclaim
    BY <2>4, <2>7 DEF OnStop, Reclaim
  <2>8. CASE UNCHANGED vars
    BY <2>1, <2>8 DEF vars
  <2> QED BY <2>2, <2>3, <2>5, <2>6, <2>7, <2>8 DEF Next
<1> QED BY <1>1, <1>2, TypeCorrect, PTL DEF Spec

-----------------------------------------------------------------------------
\* Once created the handler stays as long as the process; before it is created no
\* unload is under way.
HandlerKept == start \in {"remove", "post", "done"} => handler

UInv == TypeOK /\ HandlerKept /\ UnloadScheduled

\* A started service always has a pending unload task, a thread about to post one, an
\* unload under way, or a refusal by samgr that no new task has made good.
THEOREM UnloadNeverLost == Spec => []UnloadScheduled
<1>1. Init => HandlerKept /\ UnloadScheduled
  BY DEF Init, HandlerKept, UnloadScheduled
<1>2. UInv /\ [Next]_vars => HandlerKept' /\ UnloadScheduled'
  <2> SUFFICES ASSUME UInv, [Next]_vars PROVE HandlerKept' /\ UnloadScheduled'
    OBVIOUS
  <2> USE DEF UInv, HandlerKept, UnloadScheduled
  <2>1. ASSUME UNCHANGED <<start, handler, timer, asking, pc, refused>>,
               unload # "none" => unload' # "none"
        PROVE  HandlerKept' /\ UnloadScheduled'
    BY <2>1
  <2>2. ASSUME NEW t \in Threads, Arrive(t) PROVE HandlerKept' /\ UnloadScheduled'
    BY <2>2 DEF Arrive, Goto, TypeOK, unloading
  <2>3. ASSUME NEW t \in Threads, Serve(t) PROVE HandlerKept' /\ UnloadScheduled'
    <3>0. ASSUME NEW b, SetCritical(b) PROVE "samgr" \in refused => "samgr" \in refused'
      BY <3>0 DEF SetCritical
    <3>1. CASE StartCritical(t)
      BY <3>0, <3>1 DEF StartCritical, Goto, TypeOK, unloading
    <3>2. CASE StartIncrease(t)
      BY <3>2 DEF StartIncrease, Goto, TypeOK, unloading
    <3>3. CASE StartRemove(t)
      <4>1. pc'[t] = "post"
        BY <3>3 DEF StartRemove, Goto, TypeOK
      <4> QED BY <3>3, <4>1 DEF StartRemove
    <3>4. CASE StartPost(t)
      <4>1. handler => timer'[t] # Off
        BY <3>4, DelayAssumption DEF StartPost, PostTask, TypeOK, Posters
      <4> QED BY <3>4, <4>1 DEF StartPost, MakeGood, Posters
    <3>5. CASE Work(t)
      BY <3>5 DEF Work, Goto, TypeOK, unloading
    <3>6. CASE FinishCritical(t)
      BY <3>0, <3>6 DEF FinishCritical, Goto, TypeOK, unloading
    <3>7. CASE FinishDecrease(t)
      BY <3>7 DEF FinishDecrease, Goto, TypeOK, unloading
    <3> QED BY <2>3, <3>1, <3>2, <3>3, <3>4, <3>5, <3>6, <3>7 DEF Serve
  <2>4. CASE Start
    BY <2>4 DEF Start, process
  <2>5. CASE OnStart
    <3>1. CASE Publish
      BY <3>1 DEF Publish, process
    <3>2. CASE CreateHandler
      BY <3>2 DEF CreateHandler
    <3>3. CASE FirstRemove
      BY <3>3 DEF FirstRemove
    <3>4. CASE FirstPost
      <4>1. timer'[Starter] # Off
        BY <3>4, DelayAssumption DEF FirstPost, PostTask, TypeOK, Posters
      <4> QED BY <3>4, <4>1 DEF FirstPost, Posters
    <3> QED BY <2>5, <3>1, <3>2, <3>3, <3>4 DEF OnStart
  <2>6. ASSUME NEW p \in Posters, TakeTask(p) PROVE HandlerKept' /\ UnloadScheduled'
    BY <2>6 DEF TakeTask
  <2>11. CASE UnloadI18nService
    <3>1. unload' # "none" \/ "samgr" \in refused'
      BY <2>11 DEF UnloadI18nService, Fault
    <3> QED BY <2>11, <3>1 DEF UnloadI18nService
  <2>7. CASE OnIdle \/ DelayOver
    BY <2>1, <2>7 DEF OnIdle, DelayOver, process
  <2>8. CASE OnStop \/ Reclaim
    BY <2>8 DEF OnStop, Reclaim, ProcessEnds
  <2>9. CASE Tick
    <3>1. \A p \in Posters : timer[p] # Off => timer'[p] # Off
      <4> SUFFICES ASSUME NEW p \in Posters, timer[p] # Off PROVE timer'[p] # Off
        OBVIOUS
      <4>1. timer[p] \in 0..Delay
        BY DEF TypeOK, Ticks
      <4>2. timer'[p] = IF timer[p] = 0 THEN timer[p] ELSE timer[p] - 1
        BY <2>9 DEF Tick
      <4> QED BY <4>1, <4>2, DelayAssumption
    <3> QED BY <2>9, <3>1 DEF Tick
  <2>10. CASE UNCHANGED vars
    BY <2>1, <2>10 DEF vars
  <2> QED
    BY <2>2, <2>3, <2>4, <2>5, <2>6, <2>7, <2>8, <2>9, <2>10, <2>11 DEF Next
<1> QED BY <1>1, <1>2, TypeCorrect, PTL DEF Spec, UInv

-----------------------------------------------------------------------------
\* The requests that set the mark, or will not have taken it back yet.
Marking == {t \in Threads : pc[t] \in {"increase", "remove", "post", "work", "finish"}}

CriticalHeld == critical => Marking # {} \/ "critical" \in refused

\* However requests overlap and fail, an idle process is critical only because the
\* memory manager refused to take the mark back.
THEOREM CriticalTakenBack == Spec => []CriticalReleased
<1>1. Init => CriticalHeld
  BY DEF Init, CriticalHeld
<1>2. TypeOK /\ CriticalHeld /\ [Next]_vars => CriticalHeld'
  <2> SUFFICES ASSUME TypeOK, CriticalHeld, [Next]_vars PROVE CriticalHeld'
    OBVIOUS
  <2> USE DEF CriticalHeld
  <2>1. ASSUME UNCHANGED <<pc, critical>>, "critical" \in refused => "critical" \in refused'
        PROVE  CriticalHeld'
    BY <2>1 DEF Marking
  <2>2. ASSUME NEW t \in Threads, NEW label, Goto(t, label), UNCHANGED critical,
               "critical" \in refused => "critical" \in refused',
               t \in Marking => label \in {"increase", "remove", "post", "work", "finish"}
        PROVE  CriticalHeld'
    <3>1. Marking \subseteq Marking'
      BY <2>2 DEF Marking, Goto, TypeOK
    <3> QED BY <2>2, <3>1
  <2>3. ASSUME NEW t \in Threads, Arrive(t) PROVE CriticalHeld'
    BY <2>2, <2>3 DEF Arrive, Marking
  <2>4. ASSUME NEW t \in Threads, Serve(t) PROVE CriticalHeld'
    <3>1. CASE StartCritical(t)
      <4>1. t \in Marking'
        BY <3>1 DEF StartCritical, Goto, TypeOK, Marking
      <4> QED BY <4>1
    <3>2. CASE FinishCritical(t)
      <4>1. critical' = FALSE \/ "critical" \in refused'
        BY <3>2 DEF FinishCritical, SetCritical
      <4> QED BY <4>1
    <3>3. CASE StartPost(t)
      BY <2>2, <3>3 DEF StartPost, MakeGood, Marking
    <3>4. CASE StartIncrease(t) \/ StartRemove(t) \/ Work(t) \/ FinishDecrease(t)
      BY <2>2, <3>4 DEF StartIncrease, StartRemove, Work, FinishDecrease, Marking
    <3> QED BY <2>4, <3>1, <3>2, <3>3, <3>4 DEF Serve
  <2>5. CASE Start \/ OnIdle \/ DelayOver \/ Tick
    BY <2>1, <2>5 DEF Start, OnIdle, DelayOver, Tick, process
  <2>6. CASE OnStart
    BY <2>1, <2>6 DEF OnStart, Publish, CreateHandler, FirstRemove, FirstPost, MakeGood,
                      process
  <2>7. ASSUME UnloadI18nService \/ \E p \in Posters : TakeTask(p) PROVE CriticalHeld'
    BY <2>1, <2>7 DEF UnloadI18nService, TakeTask
  <2>8. CASE OnStop \/ Reclaim
    BY <2>8 DEF OnStop, Reclaim, ProcessEnds
  <2>9. CASE UNCHANGED vars
    BY <2>1, <2>9 DEF vars
  <2> QED BY <2>3, <2>4, <2>5, <2>6, <2>7, <2>8, <2>9 DEF Next
<1>3. CriticalHeld => CriticalReleased
  BY DEF CriticalHeld, CriticalReleased, Marking
<1> QED BY <1>1, <1>2, <1>3, TypeCorrect, PTL DEF Spec

-----------------------------------------------------------------------------
(* The delay. *)

NoTaskBefore == ~handler => \A p \in Posters : timer[p] = Off

\* What a pending task has waited, it has waited without a request.
WaitedInQuiet == \A p \in Posters : timer[p] # Off => Coming \/ quiet + timer[p] >= Delay

QInv == TypeOK /\ NoTaskBefore /\ WaitedInQuiet

LEMMA QuietKept == ASSUME QInv, [Next]_vars PROVE NoTaskBefore' /\ WaitedInQuiet'
<1> USE DelayAssumption DEF QInv, TypeOK, NoTaskBefore, WaitedInQuiet, Ticks
<1>1. ASSUME UNCHANGED <<pc, handler, timer, quiet>> PROVE NoTaskBefore' /\ WaitedInQuiet'
  BY <1>1 DEF Coming
<1>2. ASSUME NEW t \in Threads, Arrive(t) PROVE NoTaskBefore' /\ WaitedInQuiet'
  <2>1. Coming'
    BY <1>2 DEF Arrive, Goto, Coming
  <2> QED BY <2>1, <1>2 DEF Arrive
<1>3. ASSUME NEW t \in Threads, StartCritical(t) \/ StartIncrease(t)
      PROVE  NoTaskBefore' /\ WaitedInQuiet'
  <2>1. Coming'
    BY <1>3 DEF StartCritical, StartIncrease, Goto, Coming
  <2> QED BY <2>1, <1>3 DEF StartCritical, StartIncrease
<1>4. ASSUME \A p \in Posters : timer'[p] = Off PROVE NoTaskBefore' /\ WaitedInQuiet'
  BY <1>4
<1>5. ASSUME NEW t \in Threads, StartRemove(t) PROVE \A p \in Posters : timer'[p] = Off
  BY <1>5 DEF StartRemove, RemoveTask
<1>6. ASSUME NEW p \in Posters, PostTask(p), UNCHANGED <<handler, quiet>>, Coming => Coming'
      PROVE  NoTaskBefore' /\ WaitedInQuiet'
  <2>1. CASE handler
    <3>1. timer'[p] = Delay /\ \A q \in Posters \ {p} : timer'[q] = timer[q]
      BY <1>6, <2>1 DEF PostTask
    <3> QED BY <1>6, <2>1, <3>1
  <2>2. CASE ~handler
    BY <1>6, <2>2 DEF PostTask
  <2> QED BY <2>1, <2>2
<1>7. ASSUME NEW t \in Threads, StartPost(t) PROVE NoTaskBefore' /\ WaitedInQuiet'
  <2>1. Coming => Coming'
    BY <1>7 DEF StartPost, Goto, Coming
  <2> QED BY <1>6, <1>7, <2>1 DEF StartPost, Posters
<1>8. ASSUME NEW t \in Threads, Work(t) \/ FinishCritical(t) \/ FinishDecrease(t)
      PROVE  NoTaskBefore' /\ WaitedInQuiet'
  <2>1. Coming => Coming'
    BY <1>8 DEF Work, FinishCritical, FinishDecrease, Goto, Coming
  <2>2. UNCHANGED <<handler, timer, quiet>>
    BY <1>8 DEF Work, FinishCritical, FinishDecrease
  <2> QED BY <2>1, <2>2
<1>9. CASE OnStart
  <2>1. CASE Publish
    BY <1>1, <2>1 DEF Publish, process
  <2>2. CASE CreateHandler
    BY <2>2 DEF CreateHandler, Coming
  <2>3. CASE FirstRemove
    BY <1>4, <2>3 DEF FirstRemove, RemoveTask
  <2>4. CASE FirstPost
    BY <1>6, <2>4 DEF FirstPost, Posters, Coming
  <2> QED BY <1>9, <2>1, <2>2, <2>3, <2>4 DEF OnStart
<1>10. ASSUME NEW p \in Posters, TakeTask(p) PROVE NoTaskBefore' /\ WaitedInQuiet'
  BY <1>10 DEF TakeTask, Coming
<1>11. CASE OnStop \/ Reclaim
  BY <1>4, <1>11 DEF OnStop, Reclaim, ProcessEnds
<1>12. CASE Tick
  <2>1. \A p \in Posters : timer'[p] = IF timer[p] = Off \/ timer[p] = 0 THEN timer[p]
                                      ELSE timer[p] - 1
    BY <1>12 DEF Tick
  <2>2. quiet' = IF quiet = Delay THEN Delay ELSE quiet + 1
    BY <1>12 DEF Tick
  <2>3. UNCHANGED <<pc, handler>>
    BY <1>12 DEF Tick
  <2>4. NoTaskBefore'
    BY <2>1, <2>3
  <2>5. ASSUME NEW p \in Posters, timer'[p] # Off PROVE Coming' \/ quiet' + timer'[p] >= Delay
    <3>1. timer[p] # Off
      BY <2>1, <2>5
    <3>2. timer[p] \in 0..Delay /\ quiet \in 0..Delay
      BY <3>1
    <3>3. CASE Coming
      BY <2>3, <3>3 DEF Coming
    <3>4. CASE quiet + timer[p] >= Delay
      BY <2>1, <2>2, <3>1, <3>2, <3>4
    <3> QED BY <3>1, <3>3, <3>4
  <2> QED BY <2>4, <2>5
<1>13. CASE Start \/ UnloadI18nService \/ OnIdle \/ DelayOver
  BY <1>1, <1>13 DEF Start, UnloadI18nService, OnIdle, DelayOver, process
<1>14. CASE UNCHANGED vars
  BY <1>1, <1>14 DEF vars
<1> QED
  BY <1>2, <1>3, <1>4, <1>5, <1>7, <1>8, <1>9, <1>10, <1>11, <1>12, <1>13, <1>14
     DEF Next, Serve

\* For any number of threads, the task that asks samgr to unload is taken only after a
\* whole delay without requests, or while one has just begun; and whatever comes before
\* samgr calls OnIdle, it stops the ability at once only if no request is counted.
THEOREM UnloadsAfterQuiet == Spec => UnloadAfterQuiet
<1>1. Init => NoTaskBefore /\ WaitedInQuiet
  BY DEF Init, NoTaskBefore, WaitedInQuiet
<1>2. QInv /\ [Next]_vars => NoTaskBefore' /\ WaitedInQuiet'
  BY QuietKept
<1>3. QInv /\ TasksCounted /\ [Next]_vars
          => [ /\ ~asking /\ asking' => quiet = Delay \/ Coming
               /\ unload = "asked" /\ unload' = "stopping" => Counted = {} ]_vars
  <2> SUFFICES ASSUME QInv, TasksCounted, Next
               PROVE  /\ ~asking /\ asking' => quiet = Delay \/ Coming
                      /\ unload = "asked" /\ unload' = "stopping" => Counted = {}
    BY DEF vars
  <2> USE DEF Next, Arrive, Serve, StartCritical, StartIncrease, StartRemove, StartPost, Work,
              FinishCritical, FinishDecrease, Start, OnStart, Publish, CreateHandler,
              FirstRemove, FirstPost, DelayOver, OnStop, Reclaim, ProcessEnds, Tick,
              process, samgr, unloading
  <2>1. ASSUME ~asking, asking' PROVE quiet = Delay \/ Coming
    <3>1. PICK p \in Posters : TakeTask(p)
      BY <2>1 DEF UnloadI18nService, OnIdle
    <3>2. timer[p] = 0 /\ quiet \in 0..Delay
      BY <3>1 DEF TakeTask, QInv, TypeOK, Ticks
    <3> QED BY <3>2, DelayAssumption DEF QInv, WaitedInQuiet
  <2>2. ASSUME unload = "asked", unload' = "stopping" PROVE Counted = {}
    <3>1. OnIdle
      BY <2>2 DEF TakeTask, UnloadI18nService
    <3>2. taskNumber = 0
      BY <2>2, <3>1 DEF OnIdle
    <3> QED BY <3>2, CountedFinite, FS_EmptySet DEF TasksCounted
  <2> QED BY <2>1, <2>2
<1> QED
  BY <1>1, <1>2, <1>3, TypeCorrect, TaskNumberCounts, PTL DEF Spec, QInv, UnloadAfterQuiet

=============================================================================
