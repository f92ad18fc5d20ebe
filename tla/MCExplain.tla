----------------------------- MODULE MCExplain ------------------------------
(***************************************************************************)
(* Traces for TLC to explain.  Each is a part of a story of up to three    *)
(* threads, as far as its events can all have happened, delivered in the   *)
(* story's order or in the opposite one: the ring buffer orders events of  *)
(* different CPUs only loosely and the search must not depend on it.       *)
(***************************************************************************)
EXTENDS Explain

LOCAL INSTANCE SequencesExt

Sched(tid, from, to)     == NewEvent(to, to - from, 0, 10, tid, EVENT_SCHED_BLOCK)
Wait(tid, key, from, to) == NewEvent(to, to - from, key, 10, tid, EVENT_FUTEX_WAIT)
Wake(tid, key, from, to) == NewEvent(to, to - from, key, 10, tid, EVENT_FUTEX_WAKE)
Io(tid, dev, from, to)   == NewEvent(to, to - from, pack_block_key(dev, 3), 10, tid, EVENT_BLOCK_IO)

(* A thread is in one system call at a time, and it blocks once at a time, *)
(* either all inside or all outside a system call.                         *)
Sane(S) ==
  \A e, f \in S :
    LET futex(x) == x.event_type \in {EVENT_FUTEX_WAIT, EVENT_FUTEX_WAKE}
        disjoint(x, y) == x.timestamp_ns <= SpanStart(y) \/ y.timestamp_ns <= SpanStart(x)
        inside(x, y)   == SpanStart(y) <= SpanStart(x) /\ x.timestamp_ns <= y.timestamp_ns
    IN  e # f /\ e.tid = f.tid =>
          CASE futex(e) /\ futex(f) -> disjoint(e, f)
            [] e.event_type = EVENT_SCHED_BLOCK /\ f.event_type = EVENT_SCHED_BLOCK -> disjoint(e, f)
            [] e.event_type = EVENT_SCHED_BLOCK /\ futex(f) -> disjoint(e, f) \/ inside(e, f)
            [] OTHER -> TRUE

(* The parts of a story: subsequences of it whose events are sane together *)
Parts(story) ==
  {SelectSeq(story, LAMBDA e : e \in S) : S \in {R \in SUBSET Range(story) : Sane(R)}}

Tellings(story) == Parts(story) \cup {Reverse(s) : s \in Parts(story)}

(* Thread 1 waits for futex 100, which thread 2 holds while it waits for   *)
(* futex 200, which thread 3 holds while it reads from device 1; each may  *)
(* have stalled, waited or read before, or shortly afterwards.             *)
Contention ==
  << Io(3, 1, 2, 4),
     Wake(3, 200, 4, 6),
     Wait(2, 200, 3, 7),
     Sched(2, 3, 6),
     Io(2, 1, 5, 7),        \* ties with the wait
     Wake(3, 100, 7, 8),    \* a stale wake still inside the window
     Wake(2, 100, 8, 9),
     Sched(1, 3, 10),
     Wait(1, 100, 2, 11),
     Io(1, 2, 6, 8),
     Wake(3, 100, 9, 12),   \* a wake that returns after the wait it ended
     Wait(1, 300, 12, 13) >> \* a later, unrelated wait

(* The clock has not moved since either thread woke the other: each wait   *)
(* is explained by the other one.                                          *)
Circular ==
  << Wait(1, 100, 1, 7), Wake(2, 100, 7, 7), Wait(2, 200, 2, 7), Wake(1, 200, 7, 7),
     Sched(1, 2, 6), Sched(2, 3, 7), Io(2, 1, 3, 7), Wake(3, 100, 6, 7) >>

MC_Traces == Tellings(Contention) \cup Tellings(Circular)
=============================================================================
