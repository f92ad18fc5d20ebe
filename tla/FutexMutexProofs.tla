-------------------------- MODULE FutexMutexProofs --------------------------
(***************************************************************************)
(* The futex mutex is a mutex and loses no wake-up, for any threads.       *)
(***************************************************************************)
EXTENDS FutexMutex, TLAPS

(* The word says whether the lock is held, and one thread holds it.        *)
HeldIffLocked ==
  /\ word = 0 <=> \A t \in Thread : pc[t] # "held"
  /\ \A s, t \in Thread : pc[s] = "held" /\ pc[t] = "held" => s = t

(* NoLostWakeup without the holder: HeldIffLocked adds that there is one.  *)
SleepersKnown ==
  (\E t \in Thread : pc[t] = "asleep") =>
    word = 2 \/ \E t \in Thread : pc[t] \in {"swap", "wake"}

IInv == MutexTypeOK /\ HeldIffLocked /\ SleepersKnown

LEMMA InitIInv == MutexInit => IInv
BY FutexMutexAssumption
   DEF MutexInit, IInv, MutexTypeOK, HeldIffLocked, SleepersKnown, Place

(* Each action keeps the invariant, and is a step of Mutex or none.        *)
LEMMA LockStep ==
  ASSUME IInv, NEW t \in Thread, lock(t)
  PROVE  IInv' /\ [M!Next]_(At("held"))
<1> USE DEF IInv, MutexTypeOK, Place, Goto
<1>1. MutexTypeOK'
  BY DEF lock
<1>2. HeldIffLocked' /\ SleepersKnown'
  BY DEF lock, HeldIffLocked, SleepersKnown
<1>3. CASE word = 0
  <2>1. At("held") = {} /\ At("held")' = {t}
    BY <1>3 DEF lock, At, HeldIffLocked
  <2> QED BY <1>1, <1>2, <2>1 DEF M!Next, M!Acquire
<1>4. CASE word # 0
  <2>1. At("held")' = At("held")
    BY <1>4 DEF lock, At
  <2> QED BY <1>1, <1>2, <2>1
<1> QED BY <1>3, <1>4

LEMMA LockSwapStep ==
  ASSUME IInv, NEW t \in Thread, lock_swap(t)
  PROVE  IInv' /\ [M!Next]_(At("held"))
<1> USE DEF IInv, MutexTypeOK, Place, Goto, Swapped, Free
<1>1. MutexTypeOK'
  BY DEF lock_swap
<1>2. HeldIffLocked' /\ SleepersKnown'
  BY DEF lock_swap, HeldIffLocked, SleepersKnown
<1>3. CASE word = 0
  <2>1. At("held") = {} /\ At("held")' = {t}
    BY <1>3 DEF lock_swap, At, HeldIffLocked
  <2> QED BY <1>1, <1>2, <2>1 DEF M!Next, M!Acquire
<1>4. CASE word # 0
  <2>1. At("held")' = At("held")
    BY <1>4 DEF lock_swap, At
  <2> QED BY <1>1, <1>2, <2>1
<1> QED BY <1>3, <1>4

LEMMA FutexWaitStep ==
  ASSUME IInv, NEW t \in Thread, futex_wait(t) \/ SpuriousReturn(t)
  PROVE  IInv' /\ [M!Next]_(At("held"))
<1> USE DEF IInv, MutexTypeOK, Place, Goto, futex_wait, SpuriousReturn
<1>1. MutexTypeOK'
  OBVIOUS
<1>2. HeldIffLocked' /\ SleepersKnown'
  BY DEF HeldIffLocked, SleepersKnown
<1>3. At("held")' = At("held")
  BY DEF At
<1> QED BY <1>1, <1>2, <1>3

LEMMA UnlockStep ==
  ASSUME IInv, NEW t \in Thread, unlock(t)
  PROVE  IInv' /\ [M!Next]_(At("held"))
<1> USE DEF IInv, MutexTypeOK, Place, Goto, MustWake, unlock
<1>1. MutexTypeOK'
  OBVIOUS
<1>2. HeldIffLocked'
  BY DEF HeldIffLocked
<1>3. SleepersKnown'
  BY DEF SleepersKnown
<1>4. At("held") = {t} /\ At("held")' = {}
  BY DEF At, HeldIffLocked
<1> QED BY <1>1, <1>2, <1>3, <1>4 DEF M!Next, M!Release

LEMMA FutexWakeStep ==
  ASSUME IInv, NEW t \in Thread, futex_wake(t)
  PROVE  IInv' /\ [M!Next]_(At("held"))
<1> USE DEF IInv, MutexTypeOK, Place, Goto, futex_wake, At
<1>1. MutexTypeOK'
  OBVIOUS
<1>2. HeldIffLocked'
  BY DEF HeldIffLocked
<1>3. SleepersKnown'
  BY DEF SleepersKnown
<1>4. At("held")' = At("held")
  OBVIOUS
<1> QED BY <1>1, <1>2, <1>3, <1>4

LEMMA Steps == IInv /\ [MutexNext]_mutexVars => IInv' /\ [M!Next]_(At("held"))
<1> SUFFICES ASSUME IInv, [MutexNext]_mutexVars
             PROVE  IInv' /\ [M!Next]_(At("held"))
  OBVIOUS
<1>1. CASE \E t \in Thread : Step(t) \/ SpuriousReturn(t)
  BY <1>1, LockStep, LockSwapStep, FutexWaitStep, UnlockStep, FutexWakeStep DEF Step
<1>2. CASE UNCHANGED mutexVars
  BY <1>2 DEF mutexVars, IInv, MutexTypeOK, HeldIffLocked, SleepersKnown, At
<1> QED BY <1>1, <1>2 DEF MutexNext, Finished

(* The inductive invariant of lock and unlock.                             *)
THEOREM Invariance == MutexSpec => []IInv
<1> QED BY InitIInv, Steps, PTL DEF MutexSpec

(* The futex word never leaves its three states.                           *)
THEOREM TypeCorrect == MutexSpec => []MutexTypeOK
<1>1. IInv => MutexTypeOK
  BY DEF IInv
<1> QED BY <1>1, Invariance, PTL

(* lock and unlock implement the abstract mutex: mutual exclusion, for any *)
(* number of threads and any interleaving.                                 *)
THEOREM Refinement == MutexSpec => ImplementsMutex
<1>1. MutexInit => M!Init
  BY DEF MutexInit, M!Init, At
<1>2. IInv /\ [MutexNext]_mutexVars => [M!Next]_(At("held"))
  BY Steps
<1> QED BY <1>1, <1>2, Invariance, PTL DEF MutexSpec, ImplementsMutex, M!Spec

(* No sleeper of futex_wait is forgotten by unlock.                        *)
THEOREM WakeupsKept == MutexSpec => []NoLostWakeup
<1>1. IInv => NoLostWakeup
  BY DEF IInv, MutexTypeOK, HeldIffLocked, SleepersKnown, NoLostWakeup, At
<1> QED BY <1>1, Invariance, PTL
=============================================================================
