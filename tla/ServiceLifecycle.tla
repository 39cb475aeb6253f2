-------------------------- MODULE ServiceLifecycle --------------------------
(***************************************************************************)
(* When the i18n system ability lives.  I18nServiceAbility starts on       *)
(* demand, counts the requests its IPC threads are serving, tells the      *)
(* memory manager when it must not be reclaimed, and posts a task that     *)
(* asks the system ability manager (samgr) to unload it when no request    *)
(* came for DELAY_MILLISECONDS_FOR_UNLOAD_SA.  Samgr asks OnIdle before it *)
(* unloads: the answer is the delay after which it stops the ability.      *)
(*                                                                         *)
(* One step is one access to shared state.  Time passes in ticks.  What a  *)
(* request does between StartTask and FinishTask is LocaleSettings' matter.*)
(*                                                                         *)
(* An operator named X_Y, before X, is X with a slip Y: the properties are *)
(* checked to fail when it takes the place of X.                           *)
(***************************************************************************)
EXTENDS Integers, FiniteSets

CONSTANTS
    Threads,     \* IPC threads of the service process
    Starter,     \* the thread that runs OnStart
    Delay,       \* DELAY_MILLISECONDS_FOR_UNLOAD_SA, in ticks
    Off,         \* no task is pending
    Faults,      \* what may fail
    MaxFaults,   \* bound on the failures
    MaxCalls,    \* bound on the requests
    MaxStarts    \* bound on the starts of the process

AllFaults == {"publish", "critical", "samgr", "reclaim"}

ASSUME ThreadsAssumption == IsFiniteSet(Threads) /\ Starter \notin Threads
ASSUME DelayAssumption == Delay \in Nat \ {0} /\ Off \notin Int
ASSUME BoundsAssumption ==
    /\ Faults \subseteq AllFaults
    /\ MaxFaults \in Nat /\ MaxCalls \in Nat /\ MaxStarts \in Nat

VARIABLES
    start,       \* how far OnStart is; "off" when the process does not run
    published,   \* clients can reach the ability
    handler,     \* I18nServiceAbility::handler is set
    pc,          \* what each IPC thread does next
    taskNumber,  \* I18nServiceAbility::taskNumber
    critical,    \* the memory manager holds the process to be critical
    timer,       \* ticks until the UNLOAD_TASK each thread posted is due, or Off
    asking,      \* the handler's own thread has taken an UNLOAD_TASK and runs it
    unload,      \* samgr: "none", "asked", "delayed" or "stopping"
    wait,        \* ticks samgr still waits when "delayed"
    quiet,       \* ticks since the last request came, up to Delay
    refused,     \* refusals of other services that nothing has made good since
    calls, starts, faults   \* bounds

process == <<handler, pc, taskNumber, timer, asking>>
samgr == <<unload, wait>>
unloading == <<asking, unload, wait>>
bounds == <<calls, starts, faults>>
vars == <<start, published, handler, pc, taskNumber, critical, timer, asking, unload,
          wait, quiet, refused, calls, starts, faults>>

Posters == Threads \cup {Starter}
Phases == {"off", "publish", "handler", "remove", "post", "done"}
Labels == {"idle", "critical", "increase", "remove", "post", "work", "finish",
           "decrease"}

Fault(f) == f \in Faults /\ faults < MaxFaults /\ faults' = faults + 1
             /\ UNCHANGED <<calls, starts>>
Goto(t, label) == pc' = [pc EXCEPT ![t] = label]

-----------------------------------------------------------------------------
(* UpdateTaskNumber, under taskNumberMutex. *)

UpdateTaskNumber(n) == taskNumber' = taskNumber + n

(* SetCritical, which may fail: the service only logs it. *)
SetCritical(b) ==
    \/ critical' = b /\ refused' = refused \ {"critical"} /\ UNCHANGED bounds
    \/ /\ Fault("critical")
       /\ UNCHANGED critical
       /\ refused' = IF b THEN refused ELSE refused \cup {"critical"}

(* DelayUnloadI18nServiceAbility by p: RemoveTask drops every pending task, of *)
(* whatever thread; PostTask adds one.  Both need the handler.                 *)
RemoveTask_Never == timer' = timer
RemoveTask == timer' = IF handler THEN [p \in Posters |-> Off] ELSE timer
PostTask(p) == timer' = IF handler THEN [timer EXCEPT ![p] = Delay] ELSE timer
MakeGood == refused' = IF handler THEN refused \ {"samgr"} ELSE refused

-----------------------------------------------------------------------------
(* A request. *)

Arrive(t) ==
    /\ published /\ pc[t] = "idle"
    /\ calls < MaxCalls /\ calls' = calls + 1
    /\ quiet' = 0
    /\ Goto(t, "critical")
    /\ UNCHANGED <<start, published, handler, taskNumber, critical, timer, unloading,
                   refused, starts, faults>>

StartCritical(t) ==
    /\ pc[t] = "critical"
    /\ SetCritical(TRUE)
    /\ Goto(t, "increase")
    /\ UNCHANGED <<start, published, handler, taskNumber, timer, unloading, quiet>>

StartIncrease(t) ==
    /\ pc[t] = "increase"
    /\ UpdateTaskNumber(1)
    /\ Goto(t, "remove")
    /\ UNCHANGED <<start, published, handler, critical, timer, unloading, quiet, refused, bounds>>

StartRemove(t) ==
    /\ pc[t] = "remove"
    /\ RemoveTask
    /\ Goto(t, "post")
    /\ UNCHANGED <<start, published, handler, taskNumber, critical, unloading, quiet,
                   refused, bounds>>

StartPost(t) ==
    /\ pc[t] = "post"
    /\ PostTask(t) /\ MakeGood
    /\ Goto(t, "work")
    /\ UNCHANGED <<start, published, handler, taskNumber, critical, unloading, quiet, bounds>>

\* The caller lacks the permission, or the request is carried out: every return of
\* the entry points calls FinishTask.
Work_NoFinish(t) ==
    /\ pc[t] = "work"
    /\ Goto(t, "idle") \/ Goto(t, "finish")
    /\ UNCHANGED <<start, published, handler, taskNumber, critical, timer, unloading, quiet,
                   refused, bounds>>
Work(t) ==
    /\ pc[t] = "work"
    /\ Goto(t, "finish")
    /\ UNCHANGED <<start, published, handler, taskNumber, critical, timer, unloading, quiet,
                   refused, bounds>>

FinishCritical(t) ==
    /\ pc[t] = "finish"
    /\ SetCritical(FALSE)
    /\ Goto(t, "decrease")
    /\ UNCHANGED <<start, published, handler, taskNumber, timer, unloading, quiet>>

FinishDecrease(t) ==
    /\ pc[t] = "decrease"
    /\ UpdateTaskNumber(-1)
    /\ Goto(t, "idle")
    /\ UNCHANGED <<start, published, handler, critical, timer, unloading, quiet, refused, bounds>>

-----------------------------------------------------------------------------
(* OnStart.  The ability is published before the handler exists. *)

Start ==
    /\ start = "off"
    /\ starts < MaxStarts /\ starts' = starts + 1
    /\ start' = "publish"
    /\ UNCHANGED <<published, process, critical, samgr, quiet, refused, calls, faults>>

Publish ==
    /\ start = "publish"
    /\ start' = "handler"
    /\ \/ published' = TRUE /\ UNCHANGED bounds
       \/ Fault("publish") /\ UNCHANGED published
    /\ UNCHANGED <<process, critical, samgr, quiet, refused>>

CreateHandler_Only ==
    /\ start = "handler"
    /\ handler' = TRUE
    /\ start' = "done"
    /\ UNCHANGED <<published, pc, taskNumber, critical, timer, unloading, quiet, refused, bounds>>
CreateHandler ==
    /\ start = "handler"
    /\ handler' = TRUE
    /\ start' = "remove"
    /\ UNCHANGED <<published, pc, taskNumber, critical, timer, unloading, quiet, refused, bounds>>

FirstRemove ==
    /\ start = "remove"
    /\ RemoveTask
    /\ start' = "post"
    /\ UNCHANGED <<published, handler, pc, taskNumber, critical, unloading, quiet, refused>>
    /\ UNCHANGED bounds

FirstPost ==
    /\ start = "post"
    /\ PostTask(Starter) /\ MakeGood
    /\ start' = "done"
    /\ UNCHANGED <<published, handler, pc, taskNumber, critical, unloading, quiet, bounds>>

-----------------------------------------------------------------------------
(* Unloading. *)

\* The handler's thread takes the task of p when it is due.  From here on RemoveTask
\* finds it no more.
TakeTask(p) ==
    /\ timer[p] = 0 /\ ~asking
    /\ timer' = [timer EXCEPT ![p] = Off]
    /\ asking' = TRUE
    /\ UNCHANGED <<start, published, handler, pc, taskNumber, critical, samgr, quiet,
                   refused, bounds>>

\* The task asks samgr, once.  A request to unload an ability that is being unloaded
\* has no effect.
UnloadI18nService ==
    /\ asking /\ asking' = FALSE
    /\ \/ /\ unload' = IF unload = "none" THEN "asked" ELSE unload
          /\ refused' = refused \ {"samgr"}
          /\ UNCHANGED bounds
       \/ /\ Fault("samgr")
          /\ refused' = refused \cup {"samgr"}
          /\ UNCHANGED unload
    /\ UNCHANGED <<start, published, handler, pc, taskNumber, critical, timer, wait, quiet>>

\* Samgr calls OnIdle.
OnIdle ==
    /\ unload = "asked"
    /\ IF taskNumber = 0 THEN unload' = "stopping" /\ UNCHANGED wait
       ELSE unload' = "delayed" /\ wait' = Delay
    /\ UNCHANGED <<start, published, process, critical, quiet, refused, bounds>>

DelayOver ==
    /\ unload = "delayed" /\ wait = 0
    /\ unload' = "stopping"
    /\ UNCHANGED <<start, published, process, critical, wait, quiet, refused, bounds>>

\* The process is gone, with the requests it was serving.
ProcessEnds ==
    /\ start' = "off" /\ published' = FALSE /\ handler' = FALSE
    /\ pc' = [t \in Threads |-> "idle"] /\ taskNumber' = 0 /\ critical' = FALSE
    /\ timer' = [p \in Posters |-> Off] /\ asking' = FALSE
    /\ unload' = "none" /\ wait' = 0
    /\ refused' = {}
    /\ UNCHANGED quiet

OnStop ==
    /\ unload = "stopping"
    /\ ProcessEnds
    /\ UNCHANGED bounds

\* The memory manager reclaims a process that is not critical.
Reclaim ==
    /\ start # "off" /\ ~critical
    /\ ProcessEnds
    /\ Fault("reclaim")

Tick ==
    /\ start # "off"
    /\ \/ \E p \in Posters : timer[p] # Off /\ timer[p] > 0
       \/ wait > 0
       \/ quiet < Delay
    /\ timer' = [p \in Posters |-> IF timer[p] = Off \/ timer[p] = 0 THEN timer[p]
                                   ELSE timer[p] - 1]
    /\ wait' = IF wait = 0 THEN 0 ELSE wait - 1
    /\ quiet' = IF quiet = Delay THEN Delay ELSE quiet + 1
    /\ UNCHANGED <<start, published, handler, pc, taskNumber, critical, asking, unload,
                   refused, bounds>>

-----------------------------------------------------------------------------
Init ==
    /\ start = "off" /\ published = FALSE /\ handler = FALSE
    /\ pc = [t \in Threads |-> "idle"]
    /\ taskNumber = 0
    /\ critical = FALSE
    /\ timer = [p \in Posters |-> Off] /\ asking = FALSE
    /\ unload = "none" /\ wait = 0
    /\ quiet = 0 /\ refused = {}
    /\ calls = 0 /\ starts = 0 /\ faults = 0

Serve(t) ==
    \/ StartCritical(t) \/ StartIncrease(t) \/ StartRemove(t) \/ StartPost(t)
    \/ Work(t)
    \/ FinishCritical(t) \/ FinishDecrease(t)

OnStart == Publish \/ CreateHandler \/ FirstRemove \/ FirstPost

Next ==
    \/ \E t \in Threads : Arrive(t) \/ Serve(t)
    \/ Start \/ OnStart
    \/ \E p \in Posters : TakeTask(p)
    \/ UnloadI18nService
    \/ OnIdle \/ DelayOver \/ OnStop \/ Reclaim
    \/ Tick

Spec == Init /\ [][Next]_vars

\* Threads are scheduled, the event runner runs due tasks, samgr carries out what
\* it accepted, time passes.  Nobody has to call, start or reclaim the service.
Fairness ==
    /\ \A t \in Threads : WF_vars(Serve(t))
    /\ WF_vars(OnStart)
    /\ \A p \in Posters : WF_vars(TakeTask(p))
    /\ WF_vars(UnloadI18nService)
    /\ WF_vars(OnIdle) /\ WF_vars(DelayOver) /\ WF_vars(OnStop)
    /\ WF_vars(Tick)

FairSpec == Spec /\ Fairness

-----------------------------------------------------------------------------
(* Properties. *)

Ticks == 0..Delay

\* Every variable holds a value of its type.
TypeOK ==
    /\ start \in Phases /\ published \in BOOLEAN /\ handler \in BOOLEAN
    /\ pc \in [Threads -> Labels]
    /\ taskNumber \in Int
    /\ critical \in BOOLEAN
    /\ timer \in [Posters -> Ticks \cup {Off}] /\ asking \in BOOLEAN
    /\ unload \in {"none", "asked", "delayed", "stopping"}
    /\ wait \in Ticks /\ quiet \in Ticks
    /\ refused \subseteq {"critical", "samgr"}
    /\ calls \in 0..MaxCalls /\ starts \in 0..MaxStarts /\ faults \in 0..MaxFaults

\* The requests UpdateTaskNumber has counted in and not yet out.
Counted == {t \in Threads : pc[t] \in {"remove", "post", "work", "finish", "decrease"}}

\* However requests overlap and whichever way they return, taskNumber is the number
\* of requests being served: OnIdle neither answers "unload now" while one is
\* counted nor delays an unload for a request that has ended.
TasksCounted == taskNumber = Cardinality(Counted)

\* A started service has its unload ahead of it: a task is pending or running, or a
\* thread is between RemoveTask and PostTask, or samgr is unloading already, or samgr
\* refused and no task was posted since.  No interleaving of RemoveTask, PostTask and the
\* start of the handler loses the last task.
UnloadScheduled ==
    start = "done" =>
        \/ \E p \in Posters : timer[p] # Off
        \/ asking
        \/ \E t \in Threads : pc[t] = "post"
        \/ unload # "none"
        \/ "samgr" \in refused

\* The service is not left critical, and so unreclaimable, after its last request,
\* unless the memory manager refused to take the mark back.
CriticalReleased ==
    (\A t \in Threads : pc[t] = "idle") => ~critical \/ "critical" \in refused

\* When no more requests come a started service is unloaded, unless samgr refused and
\* no request came since: the next one makes the refusal good.
Unloads == start # "off" ~> start = "off" \/ "samgr" \in refused

\* A request that has not dropped the pending tasks yet.
Coming == \E t \in Threads : pc[t] \in {"critical", "increase", "remove"}

\* "service will not unload until there no request in 10s" (i18n_service_ability.h):
\* the task that asks samgr to unload is taken only after a Delay without requests,
\* except for one that has just come and has not dropped the task yet.  A request may
\* still come before the task has asked samgr, or after: OnIdle, which samgr calls
\* last, does not let the ability stop at once while a request is counted.
UnloadAfterQuiet ==
    [][ /\ ~asking /\ asking' => quiet = Delay \/ Coming
        /\ unload = "asked" /\ unload' = "stopping" => Counted = {} ]_vars

=============================================================================
