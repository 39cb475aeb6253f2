-------------------------- MODULE LoadManagerProofs --------------------------
(***************************************************************************)
(* What LoadManager promises for every number of threads and attempts:     *)
(* types, calls that nothing but the resets of others makes fail, and      *)
(* calls that survive one failure.                                         *)
(***************************************************************************)
EXTENDS LoadManager, TLAPS

-----------------------------------------------------------------------------
(* The invariants. *)

Trying == {"load", "wait", "blocked", "notified", "get"}
Waiting == {"wait", "blocked", "notified"}

\* The failed attempts of the call.
Attempts(t) == IF again[t] THEN TryTimes + times[t] ELSE times[t]

\* As long as nothing has failed, the flag stands for an ability that is loaded, and
\* each failed attempt has had its reset by another thread, also the one that will
\* fail when its wait ends.
Paid(t) ==
    faults = 0 =>
        /\ loadState \/ pc[t] = "get" => loaded
        /\ Calling(t) => resets[t] >= Attempts(t)
        /\ pc[t] \in Waiting /\ ~loadState /\ pending[t] = 0 => resets[t] >= Attempts(t) + 1
        /\ pc[t] = "failed" => resets[t] = MaxAttempts

PaidInv == \A t \in Threads : Paid(t)

\* Nobody overlaps with the call of a thread that is alone.
AloneAlone ==
    \A t, o \in Threads : alone[t] /\ Calling(t) /\ Calling(o) => o = t

\* The call has had a failure.
Spent(t) == times[t] > 0 \/ again[t]

\* The attempt of the thread cannot fail without a further failure.
Healthy(t) ==
    /\ pc[t] \in Trying /\ loadState => loaded
    /\ pc[t] \in Waiting /\ ~loadState => pending[t] > 0
    /\ pc[t] = "get" => loaded

\* While it is alone, a call has no failed attempt without a fault, and after the
\* first one it is sound.
Sound(t) ==
    alone[t] /\ Calling(t) /\ faults <= 1 =>
        /\ Spent(t) => faults = 1
        /\ faults = 0 \/ Spent(t) => Healthy(t)

Masked(t) == pc[t] = "failed" /\ alone[t] => faults > 1

MaskInv == AloneAlone /\ \A t \in Threads : Sound(t) /\ Masked(t)

-----------------------------------------------------------------------------
\* What follows a failed attempt keeps the client's variables in their types.
LEMMA FailureTyped ==
    ASSUME TypeOK, NEW t \in Threads, AttemptFails(t) \/ ReturnsNull(t)
    PROVE  /\ pc' \in [Threads -> Labels] /\ times' \in [Threads -> 0 .. TryTimes - 1]
           /\ again' \in [Threads -> BOOLEAN]
<1> USE TryTimesAssumption
<1>1. CASE ReturnsNull(t)
  <2>1. pc' \in [Threads -> Labels] /\ times' \in [Threads -> 0 .. TryTimes - 1]
    BY <1>1 DEF TypeOK, ReturnsNull, Goto, Labels
  <2>2. CASE ~again[t]
    <3>1. again' = [again EXCEPT ![t] = TRUE]
      BY <1>1, <2>2 DEF ReturnsNull
    <3>2. \A x \in Threads : again'[x] \in BOOLEAN
      BY <3>1, Zenon DEF TypeOK
    <3>3. again \in [Threads -> BOOLEAN]
      BY DEF TypeOK
    <3> QED BY <2>1, <3>1, <3>3, Zenon
  <2>3. CASE again[t]
    BY <1>1, <2>1, <2>3 DEF TypeOK, ReturnsNull
  <2> QED BY <2>2, <2>3
<1>2. CASE AttemptFails(t) /\ ~ReturnsNull(t)
  BY <1>2 DEF TypeOK, AttemptFails, Goto, Labels
<1> QED BY <1>1, <1>2

\* A wait that ends tests the flag and nothing else.
LEMMA TestTyped ==
    ASSUME TypeOK, NEW t \in Threads, Test(t)
    PROVE  pc' \in [Threads -> Labels]
BY DEF TypeOK, Test, Goto, Labels

\* A notification moves one thread at most.
LEMMA NotifyTyped ==
    ASSUME TypeOK, NotifyOne
    PROVE  pc' \in [Threads -> Labels]
BY DEF TypeOK, NotifyOne, Goto, Labels

\* Every step keeps every variable in its type: attempts stay below TryTimes.
THEOREM TypeCorrect == Spec => []TypeOK
<1>1. Init => TypeOK
  <2> SUFFICES ASSUME Init PROVE TypeOK
    OBVIOUS
  <2>1. loadState \in BOOLEAN /\ loaded \in BOOLEAN
    BY Zenon DEF Init
  <2>2. /\ again \in [Threads -> BOOLEAN]
        /\ alone \in [Threads -> BOOLEAN]
    BY Zenon DEF Init
  <2> QED
    BY <2>1, <2>2, TryTimesAssumption, BoundsAssumption DEF Init, TypeOK, Labels, MaxAttempts
<1>2. TypeOK /\ [Next]_vars => TypeOK'
  <2> SUFFICES ASSUME TypeOK, [Next]_vars PROVE TypeOK'
    OBVIOUS
  <2> USE TryTimesAssumption, BoundsAssumption DEF TypeOK
  <2>1. ASSUME NEW t \in Threads, Call(t) PROVE TypeOK'
    <3>1. alone' \in [Threads -> BOOLEAN]
      BY <2>1, Zenon DEF Call
    <3>2. again' \in [Threads -> BOOLEAN]
      BY <2>1, Zenon DEF Call
    <3>3. pc' \in [Threads -> Labels] /\ times' \in [Threads -> 0 .. TryTimes - 1]
      BY <2>1 DEF Call, Goto, Labels
    <3>4. calls' \in 0 .. MaxCalls /\ UNCHANGED <<loadState, pending, loaded, faults>>
      BY <2>1 DEF Call
    <3>5. resets' \in [Threads -> 0 .. MaxAttempts]
      BY <2>1 DEF Call, MaxAttempts
    <3> QED BY <3>1, <3>2, <3>3, <3>4, <3>5
  <2>2. ASSUME NEW t \in Threads, InitLoadState(t) PROVE TypeOK'
    <3>1. resets' \in [Threads -> 0 .. MaxAttempts]
      BY <2>2 DEF InitLoadState, MaxAttempts
    <3> QED BY <2>2, <3>1 DEF InitLoadState, Goto, Labels
  <2>3. ASSUME NEW t \in Threads, LoadSystemAbility(t) PROVE TypeOK'
    <3>1. CASE AttemptFails(t) /\ (Fault("samgr") \/ Fault("load")) /\ UNCHANGED pending
      BY <2>3, <3>1, FailureTyped DEF LoadSystemAbility, Fault, history
    <3>2. CASE /\ NoFault /\ Goto(t, "wait") /\ UNCHANGED <<times, again>>
               /\ pending' = [pending EXCEPT ![t] = @ + 1]
      BY <2>3, <3>2 DEF LoadSystemAbility, Goto, NoFault, history, Labels
    <3> QED BY <2>3, <3>1, <3>2 DEF LoadSystemAbility
  <2>4. ASSUME NEW t \in Threads, Wait(t) \/ Notified(t) PROVE TypeOK'
    BY <2>4, TestTyped DEF Wait, Notified, history
  <2>5. ASSUME NEW t \in Threads, Timeout(t) PROVE TypeOK'
    <3>1. CASE AttemptFails(t)
      BY <2>5, <3>1, FailureTyped DEF Timeout, Fault, NoFault, history
    <3>2. CASE ~AttemptFails(t)
      BY <2>5, <3>2 DEF Timeout, Goto, NoFault, history, Labels
    <3> QED BY <3>1, <3>2
  <2>6. ASSUME NEW t \in Threads, GetSystemAbility(t) PROVE TypeOK'
    <3>1. CASE ReturnsNull(t)
      BY <2>6, <3>1, FailureTyped DEF GetSystemAbility, history
    <3>2. CASE ~ReturnsNull(t)
      BY <2>6, <3>2 DEF GetSystemAbility, Goto, history, Labels
    <3> QED BY <3>1, <3>2
  <2>7. ASSUME NEW t \in Threads, Callback(t) PROVE TypeOK'
    <3>1. CASE LoadSystemAbilitySuccess(t)
      BY <3>1, NotifyTyped DEF LoadSystemAbilitySuccess, Answers, history
    <3>2. CASE LoadSystemAbilityFail(t)
      <4>1. loadState' \in BOOLEAN
        BY <3>2, Zenon DEF LoadSystemAbilityFail
      <4> QED
        BY <3>2, <4>1, NotifyTyped DEF LoadSystemAbilityFail, Answers, Fault, history
    <3> QED BY <2>7, <3>1, <3>2 DEF Callback
  <2>8. CASE Unload
    <3>1. loaded' \in BOOLEAN
      BY <2>8, Zenon DEF Unload
    <3> QED BY <2>8, <3>1 DEF Unload, Fault, client, history
  <2>9. CASE UNCHANGED vars
    BY <2>9 DEF vars
  <2> QED
    BY <2>1, <2>2, <2>3, <2>4, <2>5, <2>6, <2>7, <2>8, <2>9 DEF Next, Step
<1> QED BY <1>1, <1>2, PTL DEF Spec
-----------------------------------------------------------------------------
\* A call cannot have had more failed attempts than GetProxy makes.
LEMMA AttemptsBounded ==
    ASSUME TypeOK, NEW t \in Threads
    PROVE  Attempts(t) \in 0 .. MaxAttempts - 1
<1>1. times[t] \in 0 .. TryTimes - 1
  BY DEF TypeOK
<1>2. CASE again[t]
  BY <1>1, <1>2, TryTimesAssumption DEF Attempts, MaxAttempts
<1>3. CASE ~again[t]
  BY <1>1, <1>3, TryTimesAssumption DEF Attempts, MaxAttempts
<1> QED BY <1>2, <1>3

\* An attempt that fails is one more, or the last.
LEMMA AttemptCounted ==
    ASSUME TypeOK, NEW t \in Threads, AttemptFails(t)
    PROVE  \/ pc'[t] = "init" /\ Attempts(t)' = Attempts(t) + 1
           \/ pc'[t] = "failed" /\ Attempts(t) + 1 = MaxAttempts
<1> USE TryTimesAssumption
<1>0. times[t] \in 0 .. TryTimes - 1 /\ t \in DOMAIN times /\ t \in DOMAIN pc
      /\ t \in DOMAIN again
  BY DEF TypeOK
<1>1. CASE times[t] + 1 < TryTimes
  <2>1. pc'[t] = "init" /\ times'[t] = times[t] + 1 /\ again' = again
    BY <1>0, <1>1 DEF AttemptFails, Goto
  <2> QED BY <1>0, <2>1 DEF Attempts
<1>2. CASE times[t] + 1 >= TryTimes
  <2>0. ReturnsNull(t) /\ times[t] = TryTimes - 1
    BY <1>0, <1>2 DEF AttemptFails
  <2>1. CASE ~again[t]
    <3>1. pc'[t] = "init" /\ times'[t] = 0 /\ again'[t]
      BY <1>0, <2>0, <2>1 DEF ReturnsNull, Goto
    <3> QED BY <2>0, <2>1, <3>1 DEF Attempts
  <2>2. CASE again[t]
    <3>1. pc'[t] = "failed"
      BY <1>0, <2>0, <2>2 DEF ReturnsNull, Goto
    <3> QED BY <2>0, <2>2, <3>1 DEF Attempts, MaxAttempts
  <2> QED BY <2>1, <2>2
<1> QED BY <1>0, <1>1, <1>2

\* An attempt that failed without a fault had its reset.
LEMMA PaidFor ==
    ASSUME TypeOK, NEW t \in Threads, AttemptFails(t), NoFault, resets' = resets,
           UNCHANGED <<loadState, loaded, pending>>,
           Paid(t), pc[t] \in Waiting, ~loadState, pending[t] = 0
    PROVE  Paid(t)'
<1> SUFFICES ASSUME faults' = 0 PROVE Paid(t)'
  BY DEF Paid
<1>1. resets[t] >= Attempts(t) + 1 /\ resets'[t] = resets[t]
  BY DEF Paid, NoFault
<1>2. /\ resets[t] \in 0 .. MaxAttempts /\ MaxAttempts \in Nat
      /\ Attempts(t) \in 0 .. MaxAttempts - 1
  BY AttemptsBounded, TryTimesAssumption DEF TypeOK, MaxAttempts
<1>3. CASE pc'[t] = "init" /\ Attempts(t)' = Attempts(t) + 1
  BY <1>1, <1>2, <1>3 DEF Paid, Calling, Waiting
<1>4. CASE pc'[t] = "failed" /\ Attempts(t) + 1 = MaxAttempts
  <2>1. resets'[t] = MaxAttempts
    BY <1>1, <1>2, <1>4
  <2> QED BY <1>4, <2>1 DEF Paid, Calling, Waiting
<1> QED BY <1>3, <1>4, AttemptCounted

\* A step that fails nothing, keeps the thread's attempts and resets, and brings it
\* neither to its end nor in front of an ability or an answer that is missing.
LEMMA PaidKept ==
    ASSUME NEW x \in Threads, Paid(x), faults' = 0 => faults = 0,
           times'[x] = times[x], again'[x] = again[x], resets'[x] = resets[x],
           faults = 0 /\ (loadState' \/ pc'[x] = "get") => loaded',
           Calling(x)' => Calling(x), pc'[x] = "failed" => pc[x] = "failed",
           pc'[x] \in Waiting /\ ~loadState' /\ pending'[x] = 0
               => pc[x] \in Waiting /\ ~loadState /\ pending[x] = 0
    PROVE  Paid(x)'
<1>1. Attempts(x)' = Attempts(x)
  BY DEF Attempts
<1> QED BY <1>1 DEF Paid

\* The thread's own steps.
LEMMA PaidOwn ==
    ASSUME TypeOK, NEW t \in Threads, Step(t), Paid(t)
    PROVE  Paid(t)'
<1> SUFFICES ASSUME faults' = 0 PROVE Paid(t)'
  BY DEF Paid
<1> USE DEF TypeOK
<1>0. faults \in Nat /\ t \in DOMAIN pc /\ t \in DOMAIN pending /\ pending[t] \in Nat
  BY BoundsAssumption
<1>1. CASE InitLoadState(t)
  <2>1. /\ pc'[t] = "load" /\ resets'[t] = resets[t] /\ loadState' = FALSE
        /\ UNCHANGED <<times, again, faults>> /\ Calling(t)
    BY <1>0, <1>1 DEF InitLoadState, Goto, Calling
  <2>2. pc'[t] \notin Waiting /\ pc'[t] # "get" /\ pc'[t] # "failed"
    BY <2>1 DEF Waiting
  <2> QED BY <2>1, <2>2, PaidKept
<1>2. CASE LoadSystemAbility(t)
  <2>1. /\ pc'[t] = "wait" /\ pending'[t] = pending[t] + 1
        /\ UNCHANGED <<times, again, resets, loadState, loaded, faults>> /\ Calling(t)
    BY <1>0, <1>2 DEF LoadSystemAbility, Goto, Fault, NoFault, history, Calling
  <2>2. pending'[t] # 0 /\ pc'[t] # "get" /\ pc'[t] # "failed"
    BY <1>0, <2>1
  <2>3. faults = 0 /\ loadState' => loaded'
    BY <2>1 DEF Paid
  <2> QED BY <2>1, <2>2, <2>3, PaidKept
<1>3. CASE Wait(t) \/ Notified(t)
  <2>1. /\ UNCHANGED <<times, again, resets, pending, loadState, loaded, faults>>
        /\ pc[t] \in Waiting /\ Test(t)
    BY <1>3 DEF Wait, Notified, history, Waiting
  <2>2. /\ loadState => pc'[t] = "get"
        /\ ~loadState => pc'[t] = "blocked"
    BY <1>0, <2>1 DEF Test, Goto
  <2>3. faults = 0 /\ (loadState' \/ pc'[t] = "get") => loaded'
    BY <2>1, <2>2 DEF Paid
  <2>4. Calling(t) /\ pc'[t] # "failed"
    BY <2>1, <2>2 DEF Calling, Waiting
  <2> QED BY <2>1, <2>3, <2>4, PaidKept
<1>4. CASE Timeout(t)
  <2>1. CASE loadState
    <3>1. /\ UNCHANGED <<times, again, resets, pending, loadState, loaded, faults>>
          /\ pc[t] \in Waiting /\ pc'[t] = "get"
      BY <1>0, <1>4, <2>1 DEF Timeout, Goto, NoFault, history, Waiting
    <3>2. Calling(t) /\ pc'[t] # "failed" /\ pc'[t] \notin Waiting
      BY <3>1 DEF Calling, Waiting
    <3>3. faults = 0 => loaded'
      BY <2>1, <3>1 DEF Paid
    <3> QED BY <3>1, <3>2, <3>3, PaidKept
  <2>2. CASE ~loadState
    <3>1. ~Fault("slow")
      BY <1>0 DEF Fault
    <3>2. /\ AttemptFails(t) /\ NoFault /\ pending[t] = 0 /\ pc[t] \in Waiting
          /\ UNCHANGED <<loadState, loaded, pending, resets>>
      BY <1>4, <2>2, <3>1 DEF Timeout, history, Waiting
    <3> QED BY <2>2, <3>2, PaidFor
  <2> QED BY <2>1, <2>2
<1>5. CASE GetSystemAbility(t)
  <2>1. loaded /\ faults = 0
    BY <1>5 DEF GetSystemAbility, Paid
  <2>2. /\ pc'[t] = "idle" /\ UNCHANGED <<times, again, resets, loaded>>
    BY <1>0, <1>5, <2>1 DEF GetSystemAbility, Goto, history
  <2> QED BY <2>1, <2>2 DEF Paid, Calling, Waiting
<1> QED BY <1>1, <1>2, <1>3, <1>4, <1>5 DEF Step

\* Another thread spoils an answer by a reset, which is counted, and by nothing else.
LEMMA PaidOther ==
    ASSUME TypeOK, NEW t \in Threads, NEW x \in Threads, t # x, Step(t), Paid(x)
    PROVE  Paid(x)'
<1> SUFFICES ASSUME faults' = 0 PROVE Paid(x)'
  BY DEF Paid
<1> USE DEF TypeOK
<1>1. pc'[x] = pc[x] /\ times'[x] = times[x] /\ again'[x] = again[x] /\ pending'[x] = pending[x]
  BY DEF Step, InitLoadState, LoadSystemAbility, Wait, Notified, Timeout,
      GetSystemAbility, Test, AttemptFails, ReturnsNull, Goto
<1>2. loaded' = loaded /\ faults = 0
  BY BoundsAssumption DEF Step, InitLoadState, LoadSystemAbility, Wait, Notified, Timeout,
      GetSystemAbility, Fault, NoFault
<1>3. CASE InitLoadState(t)
  <2>1. loadState' = FALSE /\ resets'[x] = IF resets[x] < MaxAttempts THEN resets[x] + 1 ELSE resets[x]
    BY <1>3 DEF InitLoadState
  <2>2. /\ resets[x] \in 0 .. MaxAttempts /\ MaxAttempts \in Nat
        /\ Attempts(x) \in 0 .. MaxAttempts - 1
    BY AttemptsBounded, TryTimesAssumption DEF MaxAttempts
  <2>3. Attempts(x)' = Attempts(x)
    BY <1>1 DEF Attempts
  <2>4. Calling(x) => resets'[x] >= Attempts(x) + 1
    BY <1>2, <2>1, <2>2 DEF Paid
  <2>5. pc[x] \in Waiting => Calling(x)
    BY DEF Waiting, Calling
  <2>6. pc[x] = "failed" => resets'[x] = MaxAttempts
    BY <1>2, <2>1, <2>2 DEF Paid
  <2>7. pc[x] = "get" => loaded
    BY <1>2 DEF Paid
  <2>8. Calling(x)' = Calling(x)
    BY <1>1 DEF Calling
  <2> QED
    BY <1>1, <1>2, <2>1, <2>2, <2>3, <2>4, <2>5, <2>6, <2>7, <2>8 DEF Paid
<1>4. CASE ~InitLoadState(t)
  <2>1. loadState' = loadState /\ resets' = resets
    BY <1>4 DEF Step, LoadSystemAbility, Wait, Notified, Timeout, GetSystemAbility, history
  <2>2. faults = 0 /\ (loadState' \/ pc'[x] = "get") => loaded'
    BY <1>1, <1>2, <2>1 DEF Paid
  <2>3. Calling(x)' => Calling(x)
    BY <1>1 DEF Calling
  <2> QED BY <1>1, <1>2, <2>1, <2>2, <2>3, PaidKept
<1> QED BY <1>3, <1>4

LEMMA PaidInductive ==
    ASSUME TypeOK, PaidInv, [Next]_vars
    PROVE  PaidInv'
<1> SUFFICES ASSUME NEW x \in Threads PROVE Paid(x)'
  BY DEF PaidInv
<1>0. Paid(x)
  BY DEF PaidInv
<1> USE DEF TypeOK
<1>1. ASSUME NEW t \in Threads, Call(t) PROVE Paid(x)'
  <2>1. UNCHANGED <<loadState, loaded, pending, faults>>
    BY <1>1 DEF Call
  <2>2. CASE t = x
    <3>1. /\ pc'[x] = "init" /\ times'[x] = 0 /\ ~again'[x] /\ resets'[x] = 0
      BY <1>1, <2>2 DEF Call, Goto
    <3>2. Attempts(x)' = 0
      BY <3>1 DEF Attempts
    <3> QED BY <1>0, <2>1, <3>1, <3>2 DEF Paid, Waiting
  <2>3. CASE t # x
    <3>1. /\ pc'[x] = pc[x] /\ times'[x] = times[x] /\ again'[x] = again[x]
          /\ resets'[x] = resets[x]
      BY <1>1, <2>3 DEF Call, Goto
    <3>2. Calling(x)' => Calling(x)
      BY <3>1 DEF Calling
    <3>3. faults = 0 /\ (loadState' \/ pc'[x] = "get") => loaded'
      BY <1>0, <2>1, <3>1 DEF Paid
    <3> QED BY <1>0, <2>1, <3>1, <3>2, <3>3, PaidKept
  <2> QED BY <2>2, <2>3
<1>2. ASSUME NEW t \in Threads, Step(t) PROVE Paid(x)'
  BY <1>0, <1>2, PaidOwn, PaidOther
<1>3. ASSUME NEW t \in Threads, Callback(t) PROVE Paid(x)'
  <2>1. CASE LoadSystemAbilitySuccess(t)
    <3>1. /\ UNCHANGED <<times, again, resets, faults>> /\ loadState' = TRUE /\ loaded' = TRUE
          /\ pc'[x] = pc[x] \/ (pc[x] = "blocked" /\ pc'[x] = "notified")
      BY <2>1 DEF LoadSystemAbilitySuccess, NotifyOne, Goto, history
    <3>2. Calling(x)' => Calling(x)
      BY <3>1 DEF Calling
    <3>3. pc'[x] = "failed" => pc[x] = "failed"
      BY <3>1
    <3> QED BY <1>0, <3>1, <3>2, <3>3, PaidKept
  <2>2. CASE LoadSystemAbilityFail(t)
    <3>1. faults' # 0
      BY <2>2, BoundsAssumption DEF LoadSystemAbilityFail, Fault
    <3> QED BY <3>1 DEF Paid
  <2> QED BY <1>3, <2>1, <2>2 DEF Callback
<1>4. CASE Unload
  <2>1. faults' # 0
    BY <1>4, BoundsAssumption DEF Unload, Fault
  <2> QED BY <2>1 DEF Paid
<1>5. CASE UNCHANGED vars
  BY <1>0, <1>5 DEF vars, Paid, Attempts, Calling
<1> QED BY <1>1, <1>2, <1>3, <1>4, <1>5 DEF Next

\* However many threads share the flag and however many attempts GetProxy makes: while
\* samgr and the service do not fail, a call fails only after at least as many resets of
\* loadState by other threads as it makes attempts.
THEOREM FailuresByResets == Spec => []FailsByResets
<1>1. Init => PaidInv
  <2> SUFFICES ASSUME Init, NEW t \in Threads PROVE Paid(t)
    BY DEF PaidInv
  <2> QED BY DEF Init, Paid, Calling, Waiting
<1>2. TypeOK /\ PaidInv /\ [Next]_vars => PaidInv'
  BY PaidInductive
<1>3. PaidInv => FailsByResets
  BY DEF PaidInv, Paid, FailsByResets
<1> QED BY <1>1, <1>2, <1>3, TypeCorrect, PTL DEF Spec

-----------------------------------------------------------------------------
\* A call begins to overlap with another one when either begins, and not later.
LEMMA AloneInductive ==
    ASSUME TypeOK, AloneAlone, [Next]_vars
    PROVE  AloneAlone'
<1> USE DEF TypeOK, AloneAlone, Calling
<1>1. ASSUME NEW t \in Threads, Call(t) PROVE AloneAlone'
  BY <1>1 DEF Call, Goto
<1>2. ASSUME UNCHANGED alone,
             \A s \in Threads : pc'[s] \notin {"idle", "failed"} => Calling(s)
      PROVE  AloneAlone'
  BY <1>2
<1>3. ASSUME NEW t \in Threads, Step(t) PROVE AloneAlone'
  BY <1>2, <1>3 DEF Step, InitLoadState, LoadSystemAbility, Wait, Notified, Timeout,
      GetSystemAbility, Test, AttemptFails, ReturnsNull, Goto, history
<1>4. ASSUME NEW t \in Threads, Callback(t) PROVE AloneAlone'
  BY <1>2, <1>4 DEF Callback, LoadSystemAbilitySuccess, LoadSystemAbilityFail, NotifyOne,
      Goto, history
<1>5. CASE Unload
  BY <1>5 DEF Unload, client, history
<1>6. CASE UNCHANGED vars
  BY <1>6 DEF vars
<1> QED BY <1>1, <1>3, <1>4, <1>5, <1>6 DEF Next

\* A failed attempt, or an ability that samgr does not have, is a fault or follows one,
\* and the first one leads to another attempt.
LEMMA FailureCounts ==
    ASSUME TypeOK, NEW t \in Threads, alone[t], Calling(t), Sound(t),
           AttemptFails(t) \/ ReturnsNull(t),
           \/ faults' = faults + 1
           \/ faults' = faults /\ (faults <= 1 => faults = 1 /\ ~Spent(t))
    PROVE  Sound(t)' /\ Masked(t)'
<1> USE TryTimesAssumption DEF TypeOK
<1>1. faults \in Nat /\ times[t] \in Nat
  BY BoundsAssumption
<1>2. CASE faults' > 1
  BY <1>1, <1>2 DEF Sound, Masked
<1>3. CASE ~(faults' > 1)
  <2>1. ~Spent(t) /\ faults' = 1
    BY <1>1, <1>3 DEF Sound
  <2>2. pc'[t] = "init"
    BY <1>1, <2>1 DEF AttemptFails, ReturnsNull, Goto, Spent
  <2> QED BY <2>1, <2>2 DEF Sound, Masked, Healthy, Trying, Waiting
<1> QED BY <1>2, <1>3

\* What another thread does during a call means that the call is not alone.
LEMMA OthersAway ==
    ASSUME TypeOK, AloneAlone, NEW t \in Threads, NEW x \in Threads, t # x, Step(t),
           Masked(x)
    PROVE  Sound(x)' /\ Masked(x)'
<1> USE DEF TypeOK
<1>1. Calling(t) /\ alone' = alone
  BY DEF Step, InitLoadState, LoadSystemAbility, Wait, Notified, Timeout,
      GetSystemAbility, Calling, history
<1>2. pc'[x] = pc[x]
  BY DEF Step, InitLoadState, LoadSystemAbility, Wait, Notified, Timeout,
      GetSystemAbility, Test, AttemptFails, ReturnsNull, Goto
<1>3. faults \in Nat /\ faults' \in Nat /\ faults' >= faults
  BY BoundsAssumption DEF Step, InitLoadState, LoadSystemAbility, Wait, Notified, Timeout,
      GetSystemAbility, Fault, NoFault
<1>4. ~(alone[x] /\ Calling(x))
  BY <1>1 DEF AloneAlone
<1> QED BY <1>1, <1>2, <1>3, <1>4 DEF Sound, Masked, Calling

\* The thread's own steps.
LEMMA OwnStep ==
    ASSUME TypeOK, NEW t \in Threads, Step(t), Sound(t), Masked(t)
    PROVE  Sound(t)' /\ Masked(t)'
<1> USE DEF TypeOK
<1>0. faults \in Nat /\ Calling(t) /\ alone' = alone
  BY BoundsAssumption DEF Step, InitLoadState, LoadSystemAbility, Wait, Notified, Timeout,
      GetSystemAbility, Calling, history
<1>1. CASE ~alone[t]
  BY <1>0, <1>1 DEF Sound, Masked
<1>2. CASE alone[t]
  <2> USE <1>0, <1>2 DEF Calling
  <2>1. CASE InitLoadState(t)
    BY <2>1 DEF InitLoadState, Goto, Sound, Masked, Spent, Healthy, Waiting
  <2>2. CASE LoadSystemAbility(t)
    <3>1. CASE faults' = faults + 1 /\ AttemptFails(t)
      BY <3>1, FailureCounts
    <3>2. CASE /\ NoFault /\ Goto(t, "wait") /\ UNCHANGED <<times, again>>
               /\ pending' = [pending EXCEPT ![t] = @ + 1]
      BY <2>2, <3>2 DEF LoadSystemAbility, Goto, NoFault, Sound, Masked, Spent, Healthy,
          Trying, Waiting
    <3> QED BY <2>2, <3>1, <3>2 DEF LoadSystemAbility, Fault
  <2>3. CASE Wait(t) \/ Notified(t)
    BY <2>3 DEF Wait, Notified, Test, Goto, Sound, Masked, Spent, Healthy, Trying, Waiting
  <2>4. CASE Timeout(t)
    <3>1. CASE loadState
      BY <2>4, <3>1 DEF Timeout, NoFault, Goto, Sound, Masked, Spent, Healthy, Trying,
          Waiting
    <3>2. CASE ~loadState
      <4>1. AttemptFails(t)
        BY <2>4, <3>2 DEF Timeout
      <4>2. \/ faults' = faults + 1
            \/ faults' = faults /\ (faults <= 1 => faults = 1 /\ ~Spent(t))
        BY <2>4, <3>2 DEF Timeout, Fault, NoFault, Sound, Healthy, Trying, Waiting
      <4> QED BY <4>1, <4>2, FailureCounts
    <3> QED BY <3>1, <3>2
  <2>5. CASE GetSystemAbility(t)
    <3>1. CASE loaded
      BY <2>5, <3>1 DEF GetSystemAbility, Goto, Sound, Masked
    <3>2. CASE ~loaded
      <4>1. ReturnsNull(t) /\ faults' = faults
        BY <2>5, <3>2 DEF GetSystemAbility
      <4>2. faults <= 1 => faults = 1 /\ ~Spent(t)
        BY <2>5, <3>2 DEF GetSystemAbility, Sound, Healthy
      <4> QED BY <4>1, <4>2, FailureCounts
    <3> QED BY <3>1, <3>2
  <2> QED BY <2>1, <2>2, <2>3, <2>4, <2>5 DEF Step
<1> QED BY <1>1, <1>2

LEMMA MaskInductive ==
    ASSUME TypeOK, MaskInv, [Next]_vars
    PROVE  MaskInv'
<1> USE DEF TypeOK, MaskInv
<1>1. AloneAlone'
  BY AloneInductive
<1>2. ASSUME NEW x \in Threads PROVE Sound(x)' /\ Masked(x)'
  <2>0. faults \in Nat /\ Sound(x) /\ Masked(x)
    BY BoundsAssumption
  <2>1. ASSUME NEW t \in Threads, Call(t) PROVE Sound(x)' /\ Masked(x)'
    <3>1. CASE t = x
      BY <2>1, <3>1 DEF Call, Goto, Sound, Masked, Spent, Healthy, Trying, Waiting
    <3>2. CASE t # x
      BY <2>0, <2>1, <3>2 DEF Call, Goto, Calling, Sound, Masked
    <3> QED BY <3>1, <3>2
  <2>2. ASSUME NEW t \in Threads, Step(t) PROVE Sound(x)' /\ Masked(x)'
    BY <2>0, <2>2, OthersAway, OwnStep
  <2>3. ASSUME NEW t \in Threads, Callback(t) PROVE Sound(x)' /\ Masked(x)'
    <3>1. /\ alone' = alone /\ times' = times /\ again' = again
          /\ pc'[x] = pc[x] \/ (pc[x] = "blocked" /\ pc'[x] = "notified")
      BY <2>3 DEF Callback, LoadSystemAbilitySuccess, LoadSystemAbilityFail, NotifyOne, Goto,
          history
    <3>2. CASE LoadSystemAbilitySuccess(t)
      BY <2>0, <3>1, <3>2 DEF LoadSystemAbilitySuccess, Sound, Masked, Calling, Spent,
          Healthy
    <3>3. CASE LoadSystemAbilityFail(t)
      BY <2>0, <3>1, <3>3 DEF LoadSystemAbilityFail, Fault, Sound, Masked, Calling, Spent
    <3> QED BY <2>3, <3>2, <3>3 DEF Callback
  <2>4. CASE Unload
    BY <2>0, <2>4 DEF Unload, Fault, client, history, Sound, Masked, Calling, Spent
  <2>5. CASE UNCHANGED vars
    BY <2>0, <2>5 DEF vars, Sound, Masked, Calling, Spent, Healthy
  <2> QED BY <2>1, <2>2, <2>3, <2>4, <2>5 DEF Next
<1> QED BY <1>1, <1>2

\* However many attempts the client makes, one failure never reaches a call that no
\* other call of the process overlaps: GetProxy's second try is enough for that.
THEOREM FaultsMasked == Spec => []OneFaultMasked
<1>1. Init => MaskInv
  BY DEF Init, MaskInv, AloneAlone, Sound, Masked
<1>2. TypeOK /\ MaskInv /\ [Next]_vars => MaskInv'
  BY MaskInductive
<1>3. MaskInv => OneFaultMasked
  BY DEF MaskInv, OneFaultMasked, Masked
<1> QED BY <1>1, <1>2, <1>3, TypeCorrect, PTL DEF Spec

=============================================================================
