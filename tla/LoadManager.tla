----------------------------- MODULE LoadManager -----------------------------
(***************************************************************************)
(* How a client process reaches the i18n system ability.  Every call of    *)
(* I18nServiceAbilityClient first has I18nServiceAbilityLoadManager, one   *)
(* object for all threads of the process, load the ability: reset the flag *)
(* loadState, ask the system ability manager (samgr), wait a second for    *)
(* its callback to set the flag.  A load that fails is tried again up to   *)
(* I18N_LOAD_SA_TRY_TIMES times, and GetProxy tries all of that twice.     *)
(*                                                                         *)
(* One step is one critical section of loadStateMutex or one call to       *)
(* samgr.  Time is not counted: a wait may time out freely once samgr has  *)
(* answered the thread's requests; before that it is a fault of samgr's,   *)
(* which was too slow.                                                     *)
(*                                                                         *)
(* An operator named X_Y, before X, is X with a slip Y: the properties are *)
(* checked to fail when it takes the place of X.                           *)
(***************************************************************************)
EXTENDS Naturals

CONSTANTS
    Threads,     \* client threads of the process
    TryTimes,    \* I18N_LOAD_SA_TRY_TIMES
    Faults,      \* what may fail
    MaxFaults,   \* bound on the failures
    MaxCalls     \* bound on the calls

AllFaults == {"samgr", "load", "fail", "slow", "unload"}

ASSUME TryTimesAssumption == TryTimes \in Nat \ {0}
ASSUME BoundsAssumption ==
    Faults \subseteq AllFaults /\ MaxFaults \in Nat /\ MaxCalls \in Nat

VARIABLES
    loadState,   \* I18nServiceAbilityLoadManager::loadState
    pc,          \* what each thread does next
    times,       \* the failed attempts of GetI18nServiceAbility
    again,       \* GetProxy is at its second call of GetI18nServiceAbility
    pending,     \* requests of each thread that samgr has not answered
    loaded,      \* samgr has the ability
    resets,      \* history: resets by other threads during the thread's call, up to
                 \* as many as GetProxy makes attempts
    alone,       \* history: no other call overlapped with the thread's
    calls, faults   \* bounds

client == <<pc, times, again>>
history == <<resets, alone>>
vars == <<loadState, pc, times, again, pending, loaded, resets, alone, calls, faults>>

Labels == {"idle", "init", "load", "wait", "blocked", "notified", "get", "failed"}

MaxAttempts == 2 * TryTimes

Calling(t) == pc[t] \notin {"idle", "failed"}
Goto(t, label) == pc' = [pc EXCEPT ![t] = label]
Fault(f) == f \in Faults /\ faults < MaxFaults /\ faults' = faults + 1
NoFault == UNCHANGED faults

-----------------------------------------------------------------------------
(* GetProxy and GetI18nServiceAbility: what follows a failure. *)

\* GetI18nServiceAbility returns nullptr: GetProxy calls it once more.
ReturnsNull_Once(t) ==
    Goto(t, "failed") /\ UNCHANGED <<times, again>>
ReturnsNull(t) ==
    \/ /\ ~again[t]
       /\ Goto(t, "init")
       /\ again' = [again EXCEPT ![t] = TRUE] /\ times' = [times EXCEPT ![t] = 0]
    \/ again[t] /\ Goto(t, "failed") /\ UNCHANGED <<times, again>>

\* LoadI18nServiceAbility returns nullptr.
AttemptFails_OneMore(t) ==
    \/ /\ times[t] < TryTimes
       /\ Goto(t, "init")
       /\ times' = [times EXCEPT ![t] = @ + 1] /\ UNCHANGED again
    \/ times[t] >= TryTimes /\ ReturnsNull(t)
AttemptFails(t) ==
    \/ /\ times[t] + 1 < TryTimes
       /\ Goto(t, "init")
       /\ times' = [times EXCEPT ![t] = @ + 1] /\ UNCHANGED again
    \/ times[t] + 1 >= TryTimes /\ ReturnsNull(t)

-----------------------------------------------------------------------------
(* The steps of a call. *)

Call(t) ==
    /\ ~Calling(t)
    /\ alone' = [s \in Threads |-> IF s = t THEN \A o \in Threads : ~Calling(o)
                                   ELSE alone[s] /\ ~Calling(s)]
    /\ calls < MaxCalls /\ calls' = calls + 1
    /\ Goto(t, "init")
    /\ times' = [times EXCEPT ![t] = 0] /\ again' = [again EXCEPT ![t] = FALSE]
    /\ resets' = [resets EXCEPT ![t] = 0]
    /\ UNCHANGED <<loadState, pending, loaded, faults>>

InitLoadState(t) ==
    /\ pc[t] = "init"
    /\ loadState' = FALSE
    /\ resets' = [s \in Threads |-> IF s # t /\ resets[s] < MaxAttempts
                                    THEN resets[s] + 1 ELSE resets[s]]
    /\ Goto(t, "load")
    /\ UNCHANGED <<times, again, pending, loaded, alone, calls, faults>>

\* No samgr, or LoadSystemAbility reports an error, or it accepts the request.
LoadSystemAbility(t) ==
    /\ pc[t] = "load"
    /\ \/ /\ pending' = [pending EXCEPT ![t] = @ + 1]
          /\ Goto(t, "wait") /\ NoFault /\ UNCHANGED <<times, again>>
       \/ (Fault("samgr") \/ Fault("load")) /\ AttemptFails(t) /\ UNCHANGED pending
    /\ UNCHANGED <<loadState, loaded, history, calls>>

\* WaitLoadStateChange: wait_for tests the flag before it blocks, when it is
\* notified, and when the time is over.
Test(t) == IF loadState THEN Goto(t, "get") ELSE Goto(t, "blocked")

Wait(t) ==
    /\ pc[t] = "wait"
    /\ Test(t)
    /\ UNCHANGED <<loadState, times, again, pending, loaded, history, calls, faults>>

Notified(t) ==
    /\ pc[t] = "notified"
    /\ Test(t)
    /\ UNCHANGED <<loadState, times, again, pending, loaded, history, calls, faults>>

\* The wait without a limit: nothing but the flag ends it.
Timeout_Never(t) ==
    /\ pc[t] = "notified" /\ loadState /\ Goto(t, "get")
    /\ UNCHANGED <<loadState, times, again, pending, loaded, history, calls, faults>>
\* The end of the wait taken for a failure, whatever the flag says.
Timeout_Untested(t) ==
    /\ pc[t] \in {"blocked", "notified"}
    /\ \/ pending[t] = 0 /\ NoFault /\ AttemptFails(t)
       \/ pending[t] > 0 /\ Fault("slow") /\ AttemptFails(t)
    /\ UNCHANGED <<loadState, pending, loaded, history, calls>>
Timeout(t) ==
    /\ pc[t] \in {"blocked", "notified"}
    /\ \/ loadState /\ Goto(t, "get") /\ NoFault /\ UNCHANGED <<times, again>>
       \/ ~loadState /\ pending[t] = 0 /\ NoFault /\ AttemptFails(t)
       \/ ~loadState /\ pending[t] > 0 /\ Fault("slow") /\ AttemptFails(t)
    /\ UNCHANGED <<loadState, pending, loaded, history, calls>>

GetSystemAbility(t) ==
    /\ pc[t] = "get"
    /\ \/ loaded /\ Goto(t, "idle") /\ UNCHANGED <<times, again>>
       \/ ~loaded /\ ReturnsNull(t)
    /\ UNCHANGED <<loadState, pending, loaded, history, calls, faults>>

-----------------------------------------------------------------------------
(* Samgr. *)

\* notify_one wakes one of the blocked threads, if there is any.
NotifyOne ==
    \/ \E t \in Threads : pc[t] = "blocked" /\ Goto(t, "notified")
    \/ (\A t \in Threads : pc[t] # "blocked") /\ UNCHANGED pc

Answers(t) == pending[t] > 0 /\ pending' = [pending EXCEPT ![t] = @ - 1]

LoadSystemAbilitySuccess(t) ==
    /\ Answers(t)
    /\ loaded' = TRUE
    /\ loadState' = TRUE
    /\ NotifyOne
    /\ UNCHANGED <<times, again, history, calls, faults>>

LoadSystemAbilityFail(t) ==
    /\ Fault("fail")
    /\ Answers(t)
    /\ loadState' = FALSE
    /\ NotifyOne
    /\ UNCHANGED <<times, again, loaded, history, calls>>

\* The service has stopped (ServiceLifecycle).
Unload ==
    /\ loaded /\ loaded' = FALSE
    /\ Fault("unload")
    /\ UNCHANGED <<loadState, client, pending, history, calls>>

-----------------------------------------------------------------------------
Init ==
    /\ loadState = FALSE
    /\ pc = [t \in Threads |-> "idle"]
    /\ times = [t \in Threads |-> 0]
    /\ again = [t \in Threads |-> FALSE]
    /\ pending = [t \in Threads |-> 0]
    /\ loaded \in BOOLEAN
    /\ resets = [t \in Threads |-> 0]
    /\ alone = [t \in Threads |-> FALSE]
    /\ calls = 0 /\ faults = 0

Step(t) ==
    \/ InitLoadState(t) \/ LoadSystemAbility(t)
    \/ Wait(t) \/ Notified(t) \/ Timeout(t)
    \/ GetSystemAbility(t)

Callback(t) == LoadSystemAbilitySuccess(t) \/ LoadSystemAbilityFail(t)

Next == (\E t \in Threads : Call(t) \/ Step(t) \/ Callback(t)) \/ Unload

Spec == Init /\ [][Next]_vars

\* Client threads run, their waits end, and samgr answers what it accepted.
Fairness == \A t \in Threads : WF_vars(Step(t)) /\ WF_vars(Callback(t))
FairSpec == Spec /\ Fairness

-----------------------------------------------------------------------------
(* Properties. *)

\* Every variable holds a value of its type.
TypeOK ==
    /\ loadState \in BOOLEAN /\ loaded \in BOOLEAN
    /\ pc \in [Threads -> Labels]
    /\ times \in [Threads -> 0 .. TryTimes - 1]
    /\ again \in [Threads -> BOOLEAN]
    /\ pending \in [Threads -> Nat]
    /\ resets \in [Threads -> 0 .. MaxAttempts] /\ alone \in [Threads -> BOOLEAN]
    /\ calls \in 0 .. MaxCalls /\ faults \in 0 .. MaxFaults

\* Threads share loadState, and one that starts to load resets the answer of another:
\* still, as long as nothing has failed, every attempt that another thread spoils costs
\* it a reset.  A call fails without a failure of samgr or of the service only after
\* as many resets by others as GetProxy makes attempts.
FailsByResets ==
    \A t \in Threads : pc[t] = "failed" /\ faults = 0 => resets[t] = MaxAttempts

\* One failure, be it of samgr, of a load or the service stopping between the load
\* and GetSystemAbility, is hidden by the attempts and by GetProxy's second try: a
\* call that no other call of the process overlaps fails only after two.
OneFaultMasked == \A t \in Threads : pc[t] = "failed" /\ alone[t] => faults > 1

\* Every call returns, although a notification may go to another thread and a
\* failure reported by samgr does not end the wait.
Returns == \A t \in Threads : Calling(t) ~> ~Calling(t)

=============================================================================
