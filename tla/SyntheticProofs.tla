--------------------------- MODULE SyntheticProofs --------------------------
(***************************************************************************)
(* The reproducer's ground truth, for any number of reads: the waiter is   *)
(* behind the holder's reads, whatever the scheduling.  The scenario is a  *)
(* behaviour of the mutex, so all that FutexMutexProofs shows carries over.*)
(***************************************************************************)
EXTENDS Synthetic, FutexMutexProofs

(* The waiter does not start before the holder has the lock, and the       *)
(* holder, once it has said so, keeps it until its reads are done.         *)
ScenarioInv ==
  /\ reads \in Nat /\ holder_acquired \in BOOLEAN
  /\ \A t \in Thread : left[t] <= 1 /\ (pc[t] # "idle" => left[t] = 0)
  /\ main # "polling" => holder_acquired
  /\ main = "polling" => pc[waiter] = "idle"
  /\ holder_acquired =>
       /\ left[holder] = 0
       /\ pc[holder] = "held" \/ (reads = READ_REPEATS /\ pc[holder] \in {"wake", "idle"})

(* Every step of the scenario is one of the mutex, or none.                *)
LEMMA ScenarioStep == [Next]_vars => [MutexNext]_mutexVars
BY SyntheticAssumption
   DEF Next, vars, ThreadStep, Interrupted, StoreAcquired, cold_direct_read, Main, Exited,
       MutexNext, Step, mutexVars

LEMMA InitScenario == Init => ScenarioInv
<1> SUFFICES ASSUME Init PROVE ScenarioInv
  OBVIOUS
<1>1. holder_acquired \in BOOLEAN /\ ~holder_acquired
  BY DEF Init
<1>2. /\ reads \in Nat /\ main = "polling" /\ pc[waiter] = "idle"
      /\ \A t \in Thread : left[t] = 1 /\ pc[t] = "idle"
  BY SyntheticAssumption DEF Init, MutexInit
<1> QED BY <1>1, <1>2 DEF ScenarioInv

(* The steps of one thread in lock or unlock.                              *)
LEMMA ThreadStepKeeps ==
  ASSUME IInv, ScenarioInv, NEW t \in Thread, ThreadStep(t)
  PROVE  ScenarioInv'
<1> USE SyntheticAssumption DEF ThreadStep, IInv, MutexTypeOK, Place, Goto, Running
<1>1. t = holder \/ main # "polling"
  BY DEF Started
<1>2. UNCHANGED <<holder_acquired, reads, panicked, main>>
  OBVIOUS
<1>3. CASE lock(t)
  BY <1>1, <1>2, <1>3 DEF ScenarioInv, lock
<1>4. CASE lock_swap(t)
  BY <1>1, <1>2, <1>4 DEF ScenarioInv, lock_swap
<1>5. CASE futex_wait(t)
  BY <1>1, <1>2, <1>5 DEF ScenarioInv, futex_wait
<1>6. CASE unlock(t) /\ (t = holder => ReadsDone)
  BY <1>1, <1>2, <1>6 DEF ScenarioInv, unlock, ReadsDone
<1>7. CASE futex_wake(t)
  BY <1>1, <1>2, <1>7 DEF ScenarioInv, futex_wake, At
<1> QED BY <1>3, <1>4, <1>5, <1>6, <1>7

LEMMA NextScenario == IInv /\ ScenarioInv /\ [Next]_vars => ScenarioInv'
<1> SUFFICES ASSUME IInv, ScenarioInv, [Next]_vars PROVE ScenarioInv'
  OBVIOUS
<1> USE SyntheticAssumption DEF IInv, MutexTypeOK, Place, mutexVars, scenarioVars
<1>1. CASE \E t \in Thread : ThreadStep(t)
  BY <1>1, ThreadStepKeeps
<1>2. CASE Interrupted
  BY <1>2 DEF ScenarioInv, Interrupted, SpuriousReturn, Goto
<1>3. CASE StoreAcquired
  <2>1. holder_acquired' \in BOOLEAN
    BY <1>3 DEF StoreAcquired
  <2> QED BY <1>3, <2>1 DEF ScenarioInv, StoreAcquired
<1>4. CASE cold_direct_read
  BY <1>4 DEF ScenarioInv, cold_direct_read
<1>5. CASE Main
  BY <1>5 DEF ScenarioInv, Main
<1>6. CASE Exited \/ UNCHANGED vars
  BY <1>6 DEF ScenarioInv, Exited, vars
<1> QED BY <1>1, <1>2, <1>3, <1>4, <1>5, <1>6 DEF Next

(* The reproducer's threads use lock and unlock as the mutex allows.       *)
THEOREM ScenarioUsesMutex == Spec => MutexSpec
<1>1. Init => MutexInit
  BY DEF Init
<1> QED BY <1>1, ScenarioStep, PTL DEF Spec, MutexSpec

(* ... so the threads of main exclude each other, and none that sleeps in  *)
(* futex_wait is forgotten.                                                *)
THEOREM ScenarioExcludes == Spec => ImplementsMutex /\ []NoLostWakeup
<1> QED BY ScenarioUsesMutex, Refinement, WakeupsKept, PTL

(* The mutex invariant and what main's polling, the holder's flag and the  *)
(* reads say of each other hold in every state of the reproducer.          *)
THEOREM ScenarioInvariance == Spec => [](IInv /\ ScenarioInv)
<1>1. Spec => []IInv
  BY ScenarioUsesMutex, Invariance, PTL
<1> QED BY <1>1, InitScenario, NextScenario, PTL DEF Spec

(* The waiter of main gets the lock only when cold_direct_read has done    *)
(* its last read and the holder has given the lock up.                     *)
THEOREM GroundTruth == Spec => []WaiterBehindReads
<1>1. IInv /\ ScenarioInv => WaiterBehindReads
  BY SyntheticAssumption
     DEF IInv, HeldIffLocked, ScenarioInv, WaiterBehindReads, ReadsDone, Over
<1> QED BY <1>1, ScenarioInvariance, PTL
=============================================================================
