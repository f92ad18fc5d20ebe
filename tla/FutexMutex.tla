----------------------------- MODULE FutexMutex -----------------------------
(***************************************************************************)
(* The futex mutex of synthetic/src/main.rs: `lock` and `unlock` on one    *)
(* futex word, one action per atomic operation or system call, and the     *)
(* kernel's side of the two futex calls.  The word is 0 (unlocked), 1      *)
(* (locked) or 2 (locked, and there may be waiters).  A definition with an *)
(* underscored suffix is a faulty variant of the one after it, kept to     *)
(* show which property notices the fault.                                  *)
(***************************************************************************)
EXTENDS Naturals

CONSTANTS
  Thread,
  Rounds      \* bound: how often a thread takes the lock

ASSUME FutexMutexAssumption == Rounds \in Nat

VARIABLES
  word,       \* the futex word
  pc,         \* where a thread is: see Place
  left        \* rounds a thread still has to do

mutexVars == <<word, pc, left>>

(* idle: outside; swap: about to swap(2); wait: about to call futex_wait;  *)
(* asleep: queued in the kernel; held: lock has returned; wake: unlock is  *)
(* about to call futex_wake.                                               *)
Place == {"idle", "swap", "wait", "asleep", "held", "wake"}

At(place) == {t \in Thread : pc[t] = place}

Goto(t, place) == pc' = [pc EXCEPT ![t] = place]

(* lock: compare_exchange(0, 1) *)
lock(t) ==
  /\ pc[t] = "idle" /\ left[t] > 0
  /\ left' = [left EXCEPT ![t] = @ - 1]
  /\ \/ word = 0 /\ word' = 1 /\ Goto(t, "held")
     \/ word # 0 /\ word' = word /\ Goto(t, "swap")

(* Faulty: fetch_add(1) in place of the swap.                              *)
Swapped_FetchAdd == word + 1

(* Faulty: a woken thread that finds the lock free takes it as if nobody   *)
(* else were asleep.                                                       *)
Swapped_Uncontended == IF word = 0 THEN 1 ELSE 2

(* What lock's loop leaves in the word.                                    *)
Swapped == 2

Free_NotContended(old) == old # 2

(* Does the old value mean that this thread now has the lock?              *)
Free(old) == old = 0

(* lock: one turn of the loop, up to the call of futex_wait.               *)
lock_swap(t) ==
  /\ pc[t] = "swap"
  /\ word' = Swapped
  /\ \/ Free(word) /\ Goto(t, "held")
     \/ ~Free(word) /\ Goto(t, "wait")
  /\ UNCHANGED left

(* FUTEX_WAIT: the kernel compares and queues in one step; the result is   *)
(* ignored, so EAGAIN only means another turn of the loop.                 *)
futex_wait(t) ==
  /\ pc[t] = "wait"
  /\ \/ word = 2 /\ Goto(t, "asleep")
     \/ word # 2 /\ Goto(t, "swap")
  /\ UNCHANGED <<word, left>>

(* FUTEX_WAIT may return without a wake (a signal).                        *)
SpuriousReturn(t) ==
  /\ pc[t] = "asleep"
  /\ Goto(t, "swap")
  /\ UNCHANGED <<word, left>>

MustWake_Uncontended(old) == old = 1

MustWake(old) == old = 2

(* unlock: swap(0), and whether to call futex_wake.                        *)
unlock(t) ==
  /\ pc[t] = "held"
  /\ word' = 0
  /\ \/ MustWake(word) /\ Goto(t, "wake")
     \/ ~MustWake(word) /\ Goto(t, "idle")
  /\ UNCHANGED left

(* FUTEX_WAKE of one thread: some sleeper if there is one.                 *)
futex_wake(t) ==
  /\ pc[t] = "wake"
  /\ \/ At("asleep") = {} /\ Goto(t, "idle")
     \/ \E s \in At("asleep") : pc' = [pc EXCEPT ![t] = "idle", ![s] = "swap"]
  /\ UNCHANGED <<word, left>>

(* What a thread does of its own accord. *)
Step(t) == lock(t) \/ lock_swap(t) \/ futex_wait(t) \/ unlock(t) \/ futex_wake(t)

AllDone == \A t \in Thread : pc[t] = "idle" /\ left[t] = 0

Finished == AllDone /\ UNCHANGED mutexVars

MutexInit ==
  /\ word = 0
  /\ pc = [t \in Thread |-> "idle"]
  /\ left = [t \in Thread |-> Rounds]

MutexNext ==
  \/ \E t \in Thread : Step(t) \/ SpuriousReturn(t)
  \/ Finished

MutexSpec == MutexInit /\ [][MutexNext]_mutexVars

(* Threads are scheduled; a sleeper is not, unless it is woken.            *)
FairMutexSpec == MutexSpec /\ \A t \in Thread : WF_mutexVars(Step(t))

-----------------------------------------------------------------------------
(* Properties.                                                             *)

(* Type invariant: the word never leaves its three states.                 *)
MutexTypeOK ==
  /\ word \in 0..2
  /\ pc \in [Thread -> Place]
  /\ left \in [Thread -> Nat]

M == INSTANCE Mutex WITH owners <- At("held")

(* lock and unlock implement a mutex: a thread is past `lock` only if no   *)
(* other one is, and only the owner's `unlock` ends that.                  *)
ImplementsMutex == M!Spec

(* No wake-up is lost: while a thread sleeps in futex_wait, either the     *)
(* lock is held by someone whose unlock will see that it must wake, or a   *)
(* thread is already on its way to wake a sleeper or to mark the word.     *)
NoLostWakeup ==
  At("asleep") # {} =>
    \/ word = 2 /\ At("held") # {}
    \/ At("swap") # {} \/ At("wake") # {}

(* Every thread gets the lock as often as it asks for it and gives it up:  *)
(* nobody sleeps in futex_wait for ever.                                   *)
EverybodyGetsThrough == <>AllDone
=============================================================================
