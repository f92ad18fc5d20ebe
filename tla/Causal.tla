------------------------------- MODULE Causal -------------------------------
(***************************************************************************)
(* The joins of whyslow-cli/src/causal.rs as pure operators.  A trace is a *)
(* sequence of events in the order the ring buffer delivered them, an      *)
(* Option<&TraceEvent> is a position in it or None, and a Vec of           *)
(* references is a set of positions: the code keeps them in trace order,   *)
(* which only matters when two timestamps are equal.                       *)
(***************************************************************************)
EXTENDS Events, Sequences, FiniteSets

CONSTANTS
  MATCH_WINDOW_NS,    \* 5_000_000
  MAX_CHAIN_DEPTH     \* 8

ASSUME CausalAssumption == MATCH_WINDOW_NS \in Nat /\ MAX_CHAIN_DEPTH \in Nat \ {0}

None == 0

(* Typed::partition *)
Typed(events, event_type) == {i \in DOMAIN events : events[i].event_type = event_type}

OfTid(events, candidates, tid) == {i \in candidates : events[i].tid = tid}

OfKey(events, candidates, key) == {i \in candidates : events[i].key = key}

(* Faulty: the last one delivered, whatever its timestamp.                 *)
nearest_preceding_Last(events, candidates, anchor_ts) ==
  LET ts(i) == events[i].timestamp_ns
      near  == {i \in candidates : ts(i) <= anchor_ts /\ anchor_ts - ts(i) <= MATCH_WINDOW_NS}
  IN  IF near = {} THEN None ELSE CHOOSE i \in near : \A j \in near : j <= i

(* The latest candidate at or before the anchor, inside the window; among  *)
(* equals the last one (Iterator::max_by_key).                             *)
nearest_preceding(events, candidates, anchor_ts) ==
  LET ts(i) == events[i].timestamp_ns
      near  == {i \in candidates : ts(i) <= anchor_ts /\ anchor_ts - ts(i) <= MATCH_WINDOW_NS}
  IN  IF near = {} THEN None
      ELSE CHOOSE i \in near : \A j \in near : ts(j) < ts(i) \/ (ts(j) = ts(i) /\ j <= i)

(* The earliest candidate at or after the anchor, inside the window; among *)
(* equals the first one (Iterator::min_by_key).                            *)
nearest_following(events, candidates, anchor_ts) ==
  LET ts(i) == events[i].timestamp_ns
      near  == {i \in candidates : ts(i) >= anchor_ts /\ ts(i) - anchor_ts <= MATCH_WINDOW_NS}
  IN  IF near = {} THEN None
      ELSE CHOOSE i \in near : \A j \in near : ts(j) > ts(i) \/ (ts(j) = ts(i) /\ i <= j)

Cause == [on : {"futex", "io", "unknown"}, at : Nat]

Futex(i)   == [on |-> "futex", at |-> i]
BlockIo(i) == [on |-> "io", at |-> i]
Unknown    == [on |-> "unknown", at |-> None]

(* Faulty: the futex wait is looked for before the resume.                 *)
classify_resume_cause_Preceding(events, tid, resume_ts) ==
  LET fw == nearest_preceding(events, OfTid(events, Typed(events, EVENT_FUTEX_WAIT), tid), resume_ts)
      io == nearest_preceding(events, OfTid(events, Typed(events, EVENT_BLOCK_IO), tid), resume_ts)
  IN  CASE fw # None -> Futex(fw)
        [] fw = None /\ io # None -> BlockIo(io)
        [] fw = None /\ io = None -> Unknown

(* What a resume of `tid` at `resume_ts` was the tail end of.              *)
classify_resume_cause(events, tid, resume_ts) ==
  LET fw == nearest_following(events, OfTid(events, Typed(events, EVENT_FUTEX_WAIT), tid), resume_ts)
      io == nearest_preceding(events, OfTid(events, Typed(events, EVENT_BLOCK_IO), tid), resume_ts)
  IN  CASE fw # None /\ io # None ->
             IF SaturatingSub(events[fw].timestamp_ns, resume_ts)
                  <= SaturatingSub(resume_ts, events[io].timestamp_ns)
             THEN Futex(fw) ELSE BlockIo(io)
        [] fw # None /\ io = None -> Futex(fw)
        [] fw = None /\ io # None -> BlockIo(io)
        [] fw = None /\ io = None -> Unknown

(* What `tid` had finished just before `anchor_ts`.                        *)
classify_prior_cause(events, tid, anchor_ts) ==
  LET fw == nearest_preceding(events, OfTid(events, Typed(events, EVENT_FUTEX_WAIT), tid), anchor_ts)
      io == nearest_preceding(events, OfTid(events, Typed(events, EVENT_BLOCK_IO), tid), anchor_ts)
  IN  CASE fw # None /\ io # None ->
             IF events[fw].timestamp_ns >= events[io].timestamp_ns
             THEN Futex(fw) ELSE BlockIo(io)
        [] fw # None /\ io = None -> Futex(fw)
        [] fw = None /\ io # None -> BlockIo(io)
        [] fw = None /\ io = None -> Unknown

(* Faulty: a wake that returned after the wait.                            *)
WakeOf_Following(events, w) ==
  nearest_following(events, OfKey(events, Typed(events, EVENT_FUTEX_WAKE), events[w].key),
                    events[w].timestamp_ns)

(* The wake that walk_from_futex_wait blames for the wait at position w.   *)
WakeOf(events, w) ==
  nearest_preceding(events, OfKey(events, Typed(events, EVENT_FUTEX_WAKE), events[w].key),
                    events[w].timestamp_ns)

(* Faulty: truncated before it is sorted.                                  *)
SlowestRank_Unsorted(events, i) ==
  1 + Cardinality({j \in Typed(events, EVENT_SCHED_BLOCK) : j < i})

(* blocks.sort_by(longest first), a stable sort: the stall at position i   *)
(* is the SlowestRank(events, i)-th.                                       *)
SlowestRank(events, i) ==
  1 + Cardinality({j \in Typed(events, EVENT_SCHED_BLOCK) :
                     \/ events[j].duration_ns > events[i].duration_ns
                     \/ events[j].duration_ns = events[i].duration_ns /\ j < i})
=============================================================================
