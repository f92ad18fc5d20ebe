------------------------------ MODULE Synthetic -----------------------------
(***************************************************************************)
(* main of synthetic/src/main.rs: the reproducer whose chain the           *)
(* integration test expects.  The holder takes the lock, says so, and      *)
(* reads from disk with the lock held; the main thread polls for that and  *)
(* only then starts the waiter, which takes the same lock.                 *)
(***************************************************************************)
EXTENDS FutexMutex

CONSTANTS holder, waiter, READ_REPEATS

ASSUME SyntheticAssumption ==
  /\ holder # waiter
  /\ Thread = {holder, waiter}
  /\ Rounds = 1
  /\ READ_REPEATS \in Nat

VARIABLES
  holder_acquired,
  reads,        \* preads done by cold_direct_read
  panicked,     \* cold_direct_read failed and its expect killed the holder
  main          \* polling, joining (holder, then waiter), done, or panicked

scenarioVars == <<holder_acquired, reads, panicked, main>>

vars == <<mutexVars, scenarioVars>>

Running == main \notin {"done", "panicked"}

Started_AtOnce(t) == TRUE

(* The waiter is spawned when the main thread has stopped polling.         *)
Started(t) == t = holder \/ main # "polling"

(* The holder's critical section is over.                                  *)
ReadsDone == holder_acquired /\ reads = READ_REPEATS

(* A step of a thread in lock or unlock.  The holder panics with the lock  *)
(* held, and so never gets to unlock.                                      *)
ThreadStep(t) ==
  /\ Running /\ Started(t)
  /\ t = holder => ~panicked
  /\ \/ lock(t)
     \/ lock_swap(t)
     \/ futex_wait(t)
     \/ (t = holder => ReadsDone) /\ unlock(t)
     \/ futex_wake(t)
  /\ UNCHANGED <<holder_acquired, reads, panicked, main>>

Interrupted ==
  /\ Running
  /\ SpuriousReturn(waiter)
  /\ UNCHANGED scenarioVars

StoreAcquired ==
  /\ Running /\ pc[holder] = "held" /\ ~holder_acquired
  /\ holder_acquired' = TRUE
  /\ UNCHANGED <<mutexVars, reads, panicked, main>>

(* One turn of cold_direct_read's loop: the pread succeeds or fails.       *)
cold_direct_read ==
  /\ Running /\ pc[holder] = "held" /\ holder_acquired /\ ~panicked
  /\ reads < READ_REPEATS
  /\ \/ reads' = reads + 1 /\ UNCHANGED panicked
     \/ panicked' = TRUE /\ UNCHANGED reads
  /\ UNCHANGED <<mutexVars, holder_acquired, main>>

Over(t) == pc[t] = "idle" /\ left[t] = 0

(* The main thread: poll, join the holder, join the waiter.                *)
Main ==
  /\ \/ main = "polling" /\ holder_acquired /\ main' = "joining_holder"
     \/ main = "joining_holder" /\ Over(holder) /\ main' = "joining_waiter"
     \/ main = "joining_holder" /\ panicked /\ main' = "panicked"
     \/ main = "joining_waiter" /\ Over(waiter) /\ main' = "done"
  /\ UNCHANGED <<mutexVars, holder_acquired, reads, panicked>>

Exited == ~Running /\ UNCHANGED vars

Init ==
  /\ MutexInit
  /\ holder_acquired = FALSE
  /\ reads = 0
  /\ panicked = FALSE
  /\ main = "polling"

Next ==
  \/ \E t \in Thread : ThreadStep(t)
  \/ Interrupted
  \/ StoreAcquired
  \/ cold_direct_read
  \/ Main
  \/ Exited

(* Every thread of the process is scheduled.                               *)
Spec ==
  /\ Init /\ [][Next]_vars
  /\ \A t \in Thread : WF_vars(ThreadStep(t))
  /\ WF_vars(StoreAcquired) /\ WF_vars(cold_direct_read) /\ WF_vars(Main)

-----------------------------------------------------------------------------
(* Properties.                                                             *)

(* Whatever the scheduling, the holder reads with the lock held and the    *)
(* waiter gets the lock only after the last read: the ground truth that    *)
(* the integration test compares whyslow's chain with.                     *)
WaiterBehindReads == pc[waiter] = "held" => ReadsDone /\ (Over(holder) \/ pc[holder] = "wake")

(* The program ends, also when a read fails with the lock held.            *)
Ends == <>(~Running)
=============================================================================
