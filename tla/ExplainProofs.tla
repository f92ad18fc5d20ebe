---------------------------- MODULE ExplainProofs ---------------------------
(***************************************************************************)
(* Theorems about Explain, for every trace, window and depth.              *)
(***************************************************************************)
EXTENDS Explain, WellFoundedInduction, TLAPS

-----------------------------------------------------------------------------
(* The joins.                                                              *)

(* A non-empty set of naturals has a smallest member.                      *)
LEMMA NatMin ==
  ASSUME NEW T \in SUBSET Nat, T # {}
  PROVE  \E m \in T : \A n \in T : m <= n
<1>1. \E m \in T : \A n \in T : ~(<<n, m>> \in OpToRel(<, Nat))
  BY NatLessThanWellFounded, WFMin
<1>2. \A m, n \in Nat : n < m => <<n, m>> \in OpToRel(<, Nat)
  BY DEF OpToRel
<1>3. PICK m \in T : \A n \in T : ~(<<n, m>> \in OpToRel(<, Nat))
  BY <1>1
<1>4. \A n \in T : ~(n < m)
  BY <1>2, <1>3
<1>5. \A n \in T : m <= n
  BY <1>4
<1> QED
  BY <1>5

(* Constants and events that are numbers.                                  *)
LEMMA ConstantTypes ==
  /\ MATCH_WINDOW_NS \in Nat /\ MAX_CHAIN_DEPTH \in Nat /\ MAX_CHAIN_DEPTH >= 1
  /\ SectorMod \in Nat /\ SectorMod > 0
BY CausalAssumption, SectorModAssumption

LEMMA EventFields ==
  ASSUME NEW ev \in Seq(Event), NEW i \in DOMAIN ev
  PROVE  /\ ev[i].timestamp_ns \in Nat /\ ev[i].duration_ns \in Nat /\ ev[i].key \in Nat
         /\ i \in Nat /\ i >= 1 /\ i <= Len(ev) /\ Len(ev) \in Nat
<1>1. ev[i] \in Event
  OBVIOUS
<1>2. ev[i].timestamp_ns \in Nat /\ ev[i].duration_ns \in Nat /\ ev[i].key \in Nat
  BY <1>1 DEF Event
<1>3. i \in 1..Len(ev) /\ Len(ev) \in Nat
  OBVIOUS
<1> QED BY <1>2, <1>3

LEMMA SpanStartType ==
  ASSUME NEW ev \in Seq(Event), NEW i \in DOMAIN ev
  PROVE  /\ SpanStart(ev[i]) \in Nat
         /\ SpanStart(ev[i]) <= ev[i].timestamp_ns
         /\ ev[i].duration_ns > 0 => SpanStart(ev[i]) < ev[i].timestamp_ns
                                     \/ ev[i].timestamp_ns = 0
BY EventFields DEF SpanStart, SaturatingSub

(* nearest_preceding returns the latest candidate in the window, and None  *)
(* only if there is none.                                                  *)
LEMMA NearestPreceding ==
  ASSUME NEW ev \in Seq(Event), NEW cand \in SUBSET DOMAIN ev, NEW anchor \in Nat
  PROVE  LET n == nearest_preceding(ev, cand, anchor)
             InWindow(i) == /\ ev[i].timestamp_ns <= anchor
                            /\ anchor - ev[i].timestamp_ns <= MATCH_WINDOW_NS
         IN  \/ n = None /\ \A i \in cand : ~InWindow(i)
             \/ /\ n \in cand /\ n # None /\ InWindow(n)
                /\ \A i \in cand : ev[i].timestamp_ns <= anchor =>
                      ev[i].timestamp_ns <= ev[n].timestamp_ns
<1> DEFINE ts(i) == ev[i].timestamp_ns
           near == {i \in cand : ts(i) <= anchor /\ anchor - ts(i) <= MATCH_WINDOW_NS}
           Best(i) == \A j \in near : ts(j) < ts(i) \/ (ts(j) = ts(i) /\ j <= i)
           n == nearest_preceding(ev, cand, anchor)
<1>0. \A i \in cand : ts(i) \in Nat /\ i \in Nat /\ i # None /\ i <= Len(ev) /\ Len(ev) \in Nat
  BY EventFields DEF None
<1>1. CASE near = {}
  <2>1. n = None
    BY <1>1 DEF nearest_preceding
  <2> QED BY <1>1, <2>1
<1>2. CASE near # {}
  <2> DEFINE gaps == {anchor - ts(i) : i \in near}
  <2>0. \A i \in near : i \in cand /\ anchor - ts(i) \in gaps /\ anchor - ts(i) \in Nat
    BY <1>0
  <2>1. PICK g \in gaps : \A h \in gaps : g <= h
    <3>1. gaps \in SUBSET Nat /\ gaps # {}
      BY <1>2, <2>0
    <3> HIDE DEF gaps
    <3> QED BY <3>1, NatMin
  <2> DEFINE top == {i \in near : anchor - ts(i) = g}
             dists == {Len(ev) - i : i \in top}
  <2>2. \A i \in top : Len(ev) - i \in dists /\ Len(ev) - i \in Nat /\ i \in near
    BY <1>0, <2>0
  <2>3. PICK d \in dists : \A e \in dists : d <= e
    <3>1. dists \in SUBSET Nat /\ dists # {}
      BY <2>1, <2>2
    <3> HIDE DEF dists
    <3> QED BY <3>1, NatMin
  <2>4. PICK i \in top : Len(ev) - i = d
    OBVIOUS
  <2>5. i \in near /\ anchor - ts(i) = g /\ i \in cand
    BY <2>0
  <2>6. Best(i)
    <3> SUFFICES ASSUME NEW j \in near PROVE ts(j) < ts(i) \/ (ts(j) = ts(i) /\ j <= i)
      OBVIOUS
    <3>0. j \in cand /\ ts(j) \in Nat /\ ts(i) \in Nat /\ j \in Nat /\ i \in Nat /\ Len(ev) \in Nat
      BY <1>0, <2>0, <2>5
    <3>1. ts(j) <= ts(i)
      <4>1. anchor - ts(i) <= anchor - ts(j)
        BY <2>0, <2>1, <2>5
      <4> QED BY <3>0, <4>1
    <3>2. ts(j) = ts(i) => j \in top
      BY <2>5
    <3>3. j \in top => j <= i
      <4> SUFFICES ASSUME j \in top PROVE j <= i
        OBVIOUS
      <4>1. Len(ev) - i <= Len(ev) - j
        BY <2>2, <2>3, <2>4
      <4> QED BY <3>0, <4>1
    <3> HIDE DEF top
    <3> QED BY <3>0, <3>1, <3>2, <3>3
  <2>7. n = CHOOSE k \in near : Best(k)
    BY <1>2 DEF nearest_preceding
  <2>8. n \in near /\ Best(n)
    <3> HIDE DEF near, Best, n
    <3> QED BY <2>5, <2>6, <2>7
  <2>9. n \in cand /\ ts(n) <= anchor /\ anchor - ts(n) <= MATCH_WINDOW_NS
    <3> HIDE DEF n
    <3> QED BY <2>8
  <2>10. ASSUME NEW k \in cand, ts(k) <= anchor
         PROVE  ts(k) <= ts(n)
    <3> HIDE DEF n
    <3>0. ts(k) \in Nat /\ ts(n) \in Nat
      BY <1>0, <2>9
    <3>1. CASE k \in near
      BY <2>8, <3>0, <3>1
    <3>2. CASE k \notin near
      <4>1. anchor - ts(k) > MATCH_WINDOW_NS
        BY <2>10, <3>0, <3>2, ConstantTypes
      <4> QED BY <2>9, <3>0, <4>1, ConstantTypes
    <3> QED BY <3>1, <3>2
  <2>11. n # None
    BY <1>0, <2>9
  <2> HIDE DEF n
  <2> QED BY <2>9, <2>10, <2>11 DEF n
<1> QED BY <1>1, <1>2

(* nearest_following returns the earliest candidate in the window, and     *)
(* None only if there is none.                                             *)
LEMMA NearestFollowing ==
  ASSUME NEW ev \in Seq(Event), NEW cand \in SUBSET DOMAIN ev, NEW anchor \in Nat
  PROVE  LET n == nearest_following(ev, cand, anchor)
             InWindow(i) == /\ ev[i].timestamp_ns >= anchor
                            /\ ev[i].timestamp_ns - anchor <= MATCH_WINDOW_NS
         IN  \/ n = None /\ \A i \in cand : ~InWindow(i)
             \/ /\ n \in cand /\ n # None /\ InWindow(n)
                /\ \A i \in cand : ev[i].timestamp_ns >= anchor =>
                      ev[i].timestamp_ns >= ev[n].timestamp_ns
<1> DEFINE ts(i) == ev[i].timestamp_ns
           near == {i \in cand : ts(i) >= anchor /\ ts(i) - anchor <= MATCH_WINDOW_NS}
           Best(i) == \A j \in near : ts(j) > ts(i) \/ (ts(j) = ts(i) /\ i <= j)
           n == nearest_following(ev, cand, anchor)
<1>0. \A i \in cand : ts(i) \in Nat /\ i \in Nat /\ i # None
  BY EventFields DEF None
<1>1. CASE near = {}
  <2>1. n = None
    BY <1>1 DEF nearest_following
  <2> QED BY <1>1, <2>1
<1>2. CASE near # {}
  <2> DEFINE stamps == {ts(i) : i \in near}
  <2>0. \A i \in near : i \in cand /\ ts(i) \in stamps /\ ts(i) \in Nat
    BY <1>0
  <2>1. PICK g \in stamps : \A h \in stamps : g <= h
    <3>1. stamps \in SUBSET Nat /\ stamps # {}
      BY <1>2, <2>0
    <3> HIDE DEF stamps
    <3> QED BY <3>1, NatMin
  <2> DEFINE top == {i \in near : ts(i) = g}
  <2>2. PICK i \in top : \A j \in top : i <= j
    <3>1. top \in SUBSET Nat /\ top # {}
      BY <1>0, <2>0, <2>1
    <3> HIDE DEF top
    <3> QED BY <3>1, NatMin
  <2>3. i \in near /\ ts(i) = g
    OBVIOUS
  <2>4. Best(i)
    <3> SUFFICES ASSUME NEW j \in near PROVE ts(j) > ts(i) \/ (ts(j) = ts(i) /\ i <= j)
      OBVIOUS
    <3>1. ts(i) <= ts(j) /\ ts(i) \in Nat /\ ts(j) \in Nat
      BY <2>0, <2>1, <2>3
    <3>2. ts(j) = ts(i) => i <= j
      BY <2>2, <2>3
    <3> QED BY <3>1, <3>2
  <2>5. n = CHOOSE k \in near : Best(k)
    BY <1>2 DEF nearest_following
  <2>6. n \in near /\ Best(n)
    <3> HIDE DEF near, Best, n
    <3> QED BY <2>3, <2>4, <2>5
  <2>7. n \in cand /\ ts(n) >= anchor /\ ts(n) - anchor <= MATCH_WINDOW_NS
    <3> HIDE DEF n
    <3> QED BY <2>6
  <2>8. ASSUME NEW k \in cand, ts(k) >= anchor
        PROVE  ts(k) >= ts(n)
    <3> HIDE DEF n
    <3>0. ts(k) \in Nat /\ ts(n) \in Nat
      BY <1>0, <2>7
    <3>1. CASE k \in near
      BY <2>6, <3>0, <3>1
    <3>2. CASE k \notin near
      <4>1. ts(k) - anchor > MATCH_WINDOW_NS
        BY <2>8, <3>0, <3>2, ConstantTypes
      <4> QED BY <2>7, <3>0, <4>1, ConstantTypes
    <3> QED BY <3>1, <3>2
  <2>9. n # None
    BY <1>0, <2>7
  <2> HIDE DEF n
  <2> QED BY <2>7, <2>8, <2>9 DEF n
<1> QED BY <1>1, <1>2

(* The wake that walk_from_futex_wait finds, and when it finds none.       *)
LEMMA WakeOfIs ==
  ASSUME NEW ev \in Seq(Event), NEW w \in DOMAIN ev
  PROVE  LET k == WakeOf(ev, w)
         IN  \/ k = None /\ NoWakeFor(ev, w)
             \/ k # None /\ k \in Typed(ev, EVENT_FUTEX_WAKE) /\ WakeHop(ev, w, k)
<1> DEFINE cand == OfKey(ev, Typed(ev, EVENT_FUTEX_WAKE), ev[w].key)
           k == WakeOf(ev, w)
           anchor == ev[w].timestamp_ns
<1>1. cand \in SUBSET DOMAIN ev /\ anchor \in Nat
  BY EventFields DEF OfKey, Typed
<1>2. \A i \in DOMAIN ev : /\ i \in cand <=> IsWake(ev, i, ev[w].key)
                           /\ ev[i].timestamp_ns \in Nat
  BY EventFields DEF OfKey, Typed, IsWake
<1>3. k = nearest_preceding(ev, cand, anchor)
  BY DEF WakeOf
<1>4. \/ /\ k = None
         /\ \A i \in cand : ~(ev[i].timestamp_ns <= anchor /\ anchor - ev[i].timestamp_ns <= MATCH_WINDOW_NS)
      \/ /\ k \in cand /\ k # None
         /\ ev[k].timestamp_ns <= anchor /\ anchor - ev[k].timestamp_ns <= MATCH_WINDOW_NS
         /\ \A i \in cand : ev[i].timestamp_ns <= anchor => ev[i].timestamp_ns <= ev[k].timestamp_ns
  <2> HIDE DEF cand, anchor, k
  <2> QED BY <1>1, <1>3, NearestPreceding
<1>5. CASE k = None
  <2>1. \A i \in cand : ~(ev[i].timestamp_ns <= anchor /\ anchor - ev[i].timestamp_ns <= MATCH_WINDOW_NS)
    BY <1>4, <1>5, <1>2, <1>1, EventFields DEF None
  <2>2. NoWakeFor(ev, w)
    <3> SUFFICES ASSUME NEW i \in DOMAIN ev, IsWake(ev, i, ev[w].key),
                        Within(ev, i, anchor - MATCH_WINDOW_NS, anchor)
                 PROVE  FALSE
      BY DEF NoWakeFor, Ended
    <3>1. i \in cand /\ ev[i].timestamp_ns \in Nat
      BY <1>2
    <3> HIDE DEF cand, anchor
    <3>2. ev[i].timestamp_ns <= anchor /\ anchor - ev[i].timestamp_ns <= MATCH_WINDOW_NS
      BY <1>1, <3>1, ConstantTypes DEF Within, Ended
    <3> QED BY <2>1, <3>1, <3>2
  <2> QED BY <1>5, <2>2
<1>6. CASE k # None
  <2>1. /\ k \in cand
        /\ ev[k].timestamp_ns <= anchor /\ anchor - ev[k].timestamp_ns <= MATCH_WINDOW_NS
        /\ \A i \in cand : ev[i].timestamp_ns <= anchor => ev[i].timestamp_ns <= ev[k].timestamp_ns
    BY <1>4, <1>6
  <2>2. k \in Typed(ev, EVENT_FUTEX_WAKE) /\ k \in DOMAIN ev
    BY <2>1 DEF OfKey, Typed
  <2> HIDE DEF cand, k
  <2>3. WakeHop(ev, w, k)
    BY <1>1, <1>2, <2>1, <2>2, ConstantTypes DEF WakeHop, Within, Ended
  <2> QED BY <1>6, <2>2, <2>3 DEF k
<1> QED BY <1>5, <1>6

(* What classify_prior_cause finds for the thread of the wake `w`, and     *)
(* when it finds nothing.                                                  *)
LEMMA PriorCauseIs ==
  ASSUME NEW ev \in Seq(Event), NEW w \in DOMAIN ev
  PROVE  LET c == classify_prior_cause(ev, ev[w].tid, SpanStart(ev[w]))
         IN  /\ c \in Cause
             /\ \/ c = Unknown /\ NoBlockBefore(ev, w)
                \/ /\ c.at \in DOMAIN ev /\ BlockHop(ev, w, c.at)
                   /\ \/ c.at \in Typed(ev, EVENT_FUTEX_WAIT) /\ c = Futex(c.at)
                      \/ c.at \in Typed(ev, EVENT_BLOCK_IO) /\ c = BlockIo(c.at)
<1> DEFINE tid == ev[w].tid
           anchor == SpanStart(ev[w])
           waits == OfTid(ev, Typed(ev, EVENT_FUTEX_WAIT), tid)
           ios == OfTid(ev, Typed(ev, EVENT_BLOCK_IO), tid)
           fw == nearest_preceding(ev, waits, anchor)
           io == nearest_preceding(ev, ios, anchor)
           ts(i) == ev[i].timestamp_ns
           In(i) == ts(i) <= anchor /\ anchor - ts(i) <= MATCH_WINDOW_NS
           Found(n, cand) == /\ n \in cand /\ n # None /\ In(n)
                             /\ \A i \in cand : ts(i) <= anchor => ts(i) <= ts(n)
           c == classify_prior_cause(ev, tid, anchor)
<1>1. /\ waits \in SUBSET DOMAIN ev /\ ios \in SUBSET DOMAIN ev /\ anchor \in Nat
      /\ \A i \in waits : i \in Typed(ev, EVENT_FUTEX_WAIT)
      /\ \A i \in ios : i \in Typed(ev, EVENT_BLOCK_IO)
      /\ \A i \in Typed(ev, EVENT_FUTEX_WAIT) : i \in DOMAIN ev
      /\ \A i \in Typed(ev, EVENT_BLOCK_IO) : i \in DOMAIN ev
  BY SpanStartType DEF OfTid, Typed
<1>2. \A i \in DOMAIN ev : /\ i \in waits \/ i \in ios <=> IsBlock(ev, i, tid)
                           /\ ts(i) \in Nat /\ i \in Nat /\ i # None
  BY EventFields DEF OfTid, Typed, IsBlock, IsWait, IsIo, None
<1>3. (fw = None /\ \A i \in waits : ~In(i)) \/ Found(fw, waits)
  <2> HIDE DEF waits, anchor
  <2> QED BY <1>1, NearestPreceding
<1>4. (io = None /\ \A i \in ios : ~In(i)) \/ Found(io, ios)
  <2> HIDE DEF ios, anchor
  <2> QED BY <1>1, NearestPreceding
<1>5. c = CASE fw # None /\ io # None -> IF ts(fw) >= ts(io) THEN Futex(fw) ELSE BlockIo(io)
            [] fw # None /\ io = None -> Futex(fw)
            [] fw = None /\ io # None -> BlockIo(io)
            [] fw = None /\ io = None -> Unknown
  BY DEF classify_prior_cause
<1> HIDE DEF waits, ios, anchor, fw, io, c
<1>6. CASE fw = None /\ io = None
  <2>1. c = Unknown
    BY <1>5, <1>6
  <2>2. \A i \in DOMAIN ev : IsBlock(ev, i, tid) => ~In(i)
    BY <1>2, <1>3, <1>4, <1>6
  <2>3. NoBlockBefore(ev, w)
    <3> SUFFICES ASSUME NEW i \in DOMAIN ev, IsBlock(ev, i, tid),
                        Within(ev, i, anchor - MATCH_WINDOW_NS, anchor)
                 PROVE  FALSE
      BY DEF NoBlockBefore, anchor
    <3>1. In(i)
      BY <1>1, <1>2, ConstantTypes DEF Within, Ended
    <3> QED BY <2>2, <3>1
  <2> QED BY <2>1, <2>3 DEF Unknown, Cause, None, c, anchor
<1>7. ASSUME NEW n \in DOMAIN ev, In(n), IsBlock(ev, n, tid),
             \A i \in DOMAIN ev : IsBlock(ev, i, tid) /\ ts(i) <= anchor => ts(i) <= ts(n)
      PROVE  BlockHop(ev, w, n)
  <2>1. Within(ev, n, anchor - MATCH_WINDOW_NS, anchor)
    BY <1>1, <1>2, <1>7, ConstantTypes DEF Within, Ended
  <2>2. ASSUME NEW i \in DOMAIN ev, IsBlock(ev, i, tid), Within(ev, i, ts(n) + 1, anchor)
        PROVE  FALSE
    <3>1. ts(i) <= anchor /\ ts(n) + 1 <= ts(i) /\ ts(i) \in Nat /\ ts(n) \in Nat
      BY <1>2, <2>2 DEF Within, Ended
    <3>2. ts(i) <= ts(n)
      BY <1>7, <2>2, <3>1
    <3> QED BY <3>1, <3>2
  <2> QED BY <1>7, <2>1, <2>2 DEF BlockHop, Ended, anchor
<1>8. CASE /\ Found(fw, waits)
           /\ \/ io = None /\ \A i \in ios : ~In(i)
              \/ Found(io, ios) /\ ts(fw) >= ts(io)
  <2>1. c = Futex(fw)
    BY <1>5, <1>8
  <2>2. fw \in Typed(ev, EVENT_FUTEX_WAIT) /\ fw \in DOMAIN ev /\ In(fw) /\ IsBlock(ev, fw, tid) /\ ts(fw) \in Nat
    BY <1>1, <1>2, <1>8
  <2>3. ASSUME NEW i \in DOMAIN ev, IsBlock(ev, i, tid), ts(i) <= anchor
        PROVE  ts(i) <= ts(fw)
    <3>1. CASE i \in waits
      BY <1>8, <2>3, <3>1
    <3>2. CASE i \in ios /\ io = None
      <4>1. ~In(i)
        BY <1>8, <3>2 DEF None
      <4> QED BY <1>1, <1>2, <2>2, <2>3, <4>1, ConstantTypes
    <3>3. CASE i \in ios /\ io # None
      <4>1. ts(i) <= ts(io) /\ ts(fw) >= ts(io) /\ io \in DOMAIN ev
        BY <1>1, <1>8, <2>3, <3>3
      <4> QED BY <1>2, <2>2, <4>1
    <3> QED BY <1>2, <2>3, <3>1, <3>2, <3>3
  <2>4. BlockHop(ev, w, fw)
    BY <1>7, <2>2, <2>3
  <2>5. c.at = fw /\ c \in Cause
    BY <1>2, <2>1, <2>2 DEF Futex, Cause
  <2> QED BY <2>1, <2>2, <2>4, <2>5 DEF c, anchor
<1>9. CASE /\ Found(io, ios)
           /\ \/ fw = None /\ \A i \in waits : ~In(i)
              \/ Found(fw, waits) /\ ~(ts(fw) >= ts(io))
  <2>1. c = BlockIo(io)
    BY <1>5, <1>9
  <2>2. io \in Typed(ev, EVENT_BLOCK_IO) /\ io \in DOMAIN ev /\ In(io) /\ IsBlock(ev, io, tid) /\ ts(io) \in Nat
    BY <1>1, <1>2, <1>9
  <2>3. ASSUME NEW i \in DOMAIN ev, IsBlock(ev, i, tid), ts(i) <= anchor
        PROVE  ts(i) <= ts(io)
    <3>1. CASE i \in ios
      BY <1>9, <2>3, <3>1
    <3>2. CASE i \in waits /\ fw = None
      <4>1. ~In(i)
        BY <1>9, <3>2 DEF None
      <4> QED BY <1>1, <1>2, <2>2, <2>3, <4>1, ConstantTypes
    <3>3. CASE i \in waits /\ fw # None
      <4>1. ts(i) <= ts(fw) /\ ~(ts(fw) >= ts(io)) /\ fw \in DOMAIN ev
        BY <1>1, <1>9, <2>3, <3>3
      <4> QED BY <1>2, <2>2, <4>1
    <3> QED BY <1>2, <2>3, <3>1, <3>2, <3>3
  <2>4. BlockHop(ev, w, io)
    BY <1>7, <2>2, <2>3
  <2>5. c.at = io /\ c \in Cause
    BY <1>2, <2>1, <2>2 DEF BlockIo, Cause
  <2> QED BY <2>1, <2>2, <2>4, <2>5 DEF c, anchor
<1> HIDE DEF Found, In, ts
<1> QED BY <1>3, <1>4, <1>6, <1>8, <1>9

(* What classify_resume_cause finds for the stall `b`: the candidate with  *)
(* the smallest gap, and nothing only if there is no candidate.            *)
LEMMA ResumeCauseIs ==
  ASSUME NEW ev \in Seq(Event), NEW b \in DOMAIN ev
  PROVE  LET c == classify_resume_cause(ev, ev[b].tid, ev[b].timestamp_ns)
             near == Candidates(ev, ev[b].tid, ev[b].timestamp_ns)
         IN  /\ c \in Cause
             /\ \/ c = Unknown /\ near = {}
                \/ /\ c.at \in DOMAIN ev /\ c.at \in near
                   /\ \A i \in near : Gap(ev, c.at, ev[b].timestamp_ns) <= Gap(ev, i, ev[b].timestamp_ns)
                   /\ \/ c.at \in Typed(ev, EVENT_FUTEX_WAIT) /\ c = Futex(c.at)
                      \/ c.at \in Typed(ev, EVENT_BLOCK_IO) /\ c = BlockIo(c.at)
<1> DEFINE tid == ev[b].tid
           resume == ev[b].timestamp_ns
           waits == OfTid(ev, Typed(ev, EVENT_FUTEX_WAIT), tid)
           ios == OfTid(ev, Typed(ev, EVENT_BLOCK_IO), tid)
           fw == nearest_following(ev, waits, resume)
           io == nearest_preceding(ev, ios, resume)
           ts(i) == ev[i].timestamp_ns
           After(i) == ts(i) >= resume /\ ts(i) - resume <= MATCH_WINDOW_NS
           Before(i) == ts(i) <= resume /\ resume - ts(i) <= MATCH_WINDOW_NS
           FoundWait == /\ fw \in waits /\ fw # None /\ After(fw)
                        /\ \A i \in waits : ts(i) >= resume => ts(i) >= ts(fw)
           FoundIo == /\ io \in ios /\ io # None /\ Before(io)
                      /\ \A i \in ios : ts(i) <= resume => ts(i) <= ts(io)
           NoWait == fw = None /\ \A i \in waits : ~After(i)
           NoIo == io = None /\ \A i \in ios : ~Before(i)
           near == Candidates(ev, tid, resume)
           gap(i) == Gap(ev, i, resume)
           c == classify_resume_cause(ev, tid, resume)
<1>1. /\ waits \in SUBSET DOMAIN ev /\ ios \in SUBSET DOMAIN ev /\ resume \in Nat
      /\ \A i \in waits : i \in Typed(ev, EVENT_FUTEX_WAIT)
      /\ \A i \in ios : i \in Typed(ev, EVENT_BLOCK_IO)
  BY EventFields DEF OfTid, Typed
<1>2. \A i \in DOMAIN ev : ts(i) \in Nat /\ i \in Nat /\ i # None
  BY EventFields DEF None
<1>3. NoWait \/ FoundWait
  <2> HIDE DEF waits, resume
  <2> QED BY <1>1, NearestFollowing
<1>4. NoIo \/ FoundIo
  <2> HIDE DEF ios, resume
  <2> QED BY <1>1, NearestPreceding
<1>5. c = CASE fw # None /\ io # None ->
                 IF SaturatingSub(ts(fw), resume) <= SaturatingSub(resume, ts(io))
                 THEN Futex(fw) ELSE BlockIo(io)
            [] fw # None /\ io = None -> Futex(fw)
            [] fw = None /\ io # None -> BlockIo(io)
            [] fw = None /\ io = None -> Unknown
  BY DEF classify_resume_cause
<1>6. \A i \in waits : gap(i) = ts(i) - resume
  BY DEF OfTid, Typed, Gap, Ended, EVENT_FUTEX_WAIT, EVENT_BLOCK_IO
<1>7. \A i \in ios : gap(i) = resume - ts(i)
  BY DEF OfTid, Typed, Gap, Ended
<1>8. \A i : i \in near <=> (i \in waits \/ i \in ios) /\ gap(i) \in 0..MATCH_WINDOW_NS
  BY DEF Candidates, OfTid, Typed, IsBlock, IsWait, IsIo
<1> HIDE DEF waits, ios, resume, fw, io, c, near, gap
<1>9. \A i \in waits : i \in near => After(i)
  BY <1>1, <1>2, <1>6, <1>8, ConstantTypes
<1>10. \A i \in ios : i \in near => Before(i)
  BY <1>1, <1>2, <1>7, <1>8, ConstantTypes
<1>11. \A i \in waits : After(i) => i \in near
  BY <1>1, <1>2, <1>6, <1>8, ConstantTypes
<1>12. \A i \in ios : Before(i) => i \in near
  BY <1>1, <1>2, <1>7, <1>8, ConstantTypes
<1>13. CASE NoWait /\ NoIo
  <2>1. c = Unknown
    BY <1>5, <1>13
  <2>2. near = {}
    BY <1>8, <1>9, <1>10, <1>13
  <2> QED BY <2>1, <2>2 DEF Unknown, Cause, None, c, near, resume
<1>14. FoundWait => \A i \in waits : i \in near => gap(fw) <= gap(i)
  <2> SUFFICES ASSUME FoundWait, NEW i \in waits, i \in near PROVE gap(fw) <= gap(i)
    OBVIOUS
  <2>1. After(i) /\ ts(i) >= ts(fw) /\ ts(i) \in Nat /\ ts(fw) \in Nat
    BY <1>1, <1>2, <1>9
  <2> QED BY <1>1, <1>6, <2>1
<1>15. FoundIo => \A i \in ios : i \in near => gap(io) <= gap(i)
  <2> SUFFICES ASSUME FoundIo, NEW i \in ios, i \in near PROVE gap(io) <= gap(i)
    OBVIOUS
  <2>1. Before(i) /\ ts(i) <= ts(io) /\ ts(i) \in Nat /\ ts(io) \in Nat
    BY <1>1, <1>2, <1>10
  <2> QED BY <1>1, <1>7, <2>1
<1>16. FoundWait /\ FoundIo =>
         /\ SaturatingSub(ts(fw), resume) = gap(fw) /\ SaturatingSub(resume, ts(io)) = gap(io)
         /\ gap(fw) \in Nat /\ gap(io) \in Nat
  BY <1>1, <1>2, <1>6, <1>7 DEF SaturatingSub
<1>17. \A i \in near : gap(i) \in Nat
  BY <1>8, ConstantTypes
<1>18. CASE FoundWait /\ (NoIo \/ (FoundIo /\ gap(fw) <= gap(io)))
  <2>1. c = Futex(fw)
    BY <1>5, <1>16, <1>18
  <2>2. fw \in near /\ fw \in DOMAIN ev /\ fw \in Typed(ev, EVENT_FUTEX_WAIT) /\ fw \in Nat
    BY <1>1, <1>2, <1>11, <1>18
  <2>3. \A i \in near : gap(fw) <= gap(i)
    <3> SUFFICES ASSUME NEW i \in near PROVE gap(fw) <= gap(i)
      OBVIOUS
    <3>1. CASE i \in waits
      BY <1>14, <1>18, <3>1
    <3>2. CASE i \in ios
      <4>1. FoundIo
        BY <1>10, <1>18, <3>2
      <4>2. gap(io) <= gap(i) /\ gap(fw) <= gap(io)
        BY <1>15, <1>18, <3>2, <4>1
      <4> QED BY <1>16, <1>17, <1>18, <4>1, <4>2
    <3> QED BY <1>8, <3>1, <3>2
  <2>4. c.at = fw /\ c \in Cause
    BY <2>1, <2>2 DEF Futex, Cause
  <2> QED BY <2>1, <2>2, <2>3, <2>4 DEF c, resume, near, gap
<1>19. CASE FoundIo /\ (NoWait \/ (FoundWait /\ ~(gap(fw) <= gap(io))))
  <2>1. c = BlockIo(io)
    BY <1>5, <1>16, <1>19
  <2>2. io \in near /\ io \in DOMAIN ev /\ io \in Typed(ev, EVENT_BLOCK_IO) /\ io \in Nat
    BY <1>1, <1>2, <1>12, <1>19
  <2>3. \A i \in near : gap(io) <= gap(i)
    <3> SUFFICES ASSUME NEW i \in near PROVE gap(io) <= gap(i)
      OBVIOUS
    <3>1. CASE i \in ios
      BY <1>15, <1>19, <3>1
    <3>2. CASE i \in waits
      <4>1. FoundWait
        BY <1>9, <1>19, <3>2
      <4>2. gap(fw) <= gap(i) /\ ~(gap(fw) <= gap(io))
        BY <1>14, <1>19, <3>2, <4>1
      <4> QED BY <1>16, <1>17, <1>19, <4>1, <4>2
    <3> QED BY <1>8, <3>1, <3>2
  <2>4. c.at = io /\ c \in Cause
    BY <2>1, <2>2 DEF BlockIo, Cause
  <2> QED BY <2>1, <2>2, <2>3, <2>4 DEF c, resume, near, gap
<1> HIDE DEF NoWait, NoIo, FoundWait, FoundIo
<1> QED BY <1>3, <1>4, <1>13, <1>18, <1>19

-----------------------------------------------------------------------------
(* What holds of one chain, and how the two kinds of line extend it.       *)

(* A chain under construction, finished or empty: it walks backward by     *)
(* nearest hops from the nearest headline.                                 *)
Sound(ev, c) ==
  /\ WalksBack(ev, c)
  /\ Hops(ev, c)
  /\ c # <<>> => NearestHeadline(ev, c[1])

Cites(ev, c) == \A i \in DOMAIN c : c[i].at \in DOMAIN ev

(* A chain whose last line is the futex wait w, to be walked from: all it  *)
(* cited before ended later.                                               *)
OpenAt(ev, c, w) ==
  /\ c # <<>> /\ Cites(ev, c)
  /\ c[Len(c)].at = w /\ c[Len(c)].on = "futex" /\ c[Len(c)].says # "woken"
  /\ WakesTakeTime(ev) => \A i \in 1..(Len(c) - 1) : Ended(ev, c[i].at) > Ended(ev, w)

(* The shape of a chain with one more line.                                *)
LEMMA AppendShape ==
  ASSUME NEW c \in Seq(LineType), NEW line \in LineType
  PROVE  LET d == Append(c, line)
         IN  /\ d \in Seq(LineType) /\ d # <<>> /\ Len(d) = Len(c) + 1
             /\ Len(c) \in Nat /\ DOMAIN c = 1..Len(c)
             /\ DOMAIN d = 1..(Len(c) + 1)
             /\ d[Len(c) + 1] = line
             /\ \A i \in 1..Len(c) : d[i] = c[i]
OBVIOUS

LEMMA EmptyIsSound ==
  ASSUME NEW ev
  PROVE  Sound(ev, <<>>)
BY DEF Sound, WalksBack, Hops

(* A line that cites what ended no later than the last one, by a hop from  *)
(* it, and nothing cited before.                                           *)
LEMMA AppendHop ==
  ASSUME NEW ev \in Seq(Event), NEW c \in Seq(LineType), NEW line \in LineType,
         c # <<>>, Cites(ev, c), Sound(ev, c),
         line.at \in DOMAIN ev,
         Ended(ev, line.at) <= Ended(ev, c[Len(c)].at),
         WakesTakeTime(ev) => \A i \in DOMAIN c : c[i].at # line.at,
         IF line.says = "woken" THEN WakeHop(ev, c[Len(c)].at, line.at)
                                ELSE BlockHop(ev, c[Len(c)].at, line.at)
  PROVE  Sound(ev, Append(c, line)) /\ Cites(ev, Append(c, line))
<1> DEFINE d == Append(c, line)
           n == Len(c)
<1>1. /\ d # <<>> /\ n \in Nat /\ DOMAIN c = 1..n /\ DOMAIN d = 1..(n + 1) /\ d[n + 1] = line
      /\ \A i \in 1..n : d[i] = c[i]
  BY AppendShape
<1>2. n >= 1
  <2>1. n # 0
    OBVIOUS
  <2> QED BY <1>1, <2>1
<1> HIDE DEF d, n
<1>3. \A i \in 1..n : Ended(ev, c[i].at) \in Nat /\ c[i].at \in DOMAIN ev
  BY <1>1, EventFields DEF Cites, Ended
<1>4. Ended(ev, line.at) \in Nat
  BY EventFields DEF Ended
<1>5. \A i \in 1..n : Ended(ev, line.at) <= Ended(ev, c[i].at)
  <2> SUFFICES ASSUME NEW i \in 1..n PROVE Ended(ev, line.at) <= Ended(ev, c[i].at)
    OBVIOUS
  <2>1. i # n => Ended(ev, c[n].at) <= Ended(ev, c[i].at)
    BY <1>1, <1>2 DEF Sound, WalksBack
  <2>2. Ended(ev, line.at) <= Ended(ev, c[n].at)
    BY DEF n
  <2>3. n \in 1..n
    BY <1>1, <1>2
  <2> QED BY <1>3, <1>4, <2>1, <2>2, <2>3, SMTT(30)
<1>6. WalksBack(ev, d)
  <2> SUFFICES ASSUME NEW i \in 1..(n + 1), NEW j \in 1..(n + 1), i < j
               PROVE  /\ Ended(ev, d[j].at) <= Ended(ev, d[i].at)
                      /\ WakesTakeTime(ev) => d[i].at # d[j].at
    BY <1>1 DEF WalksBack
  <2>1. i \in 1..n /\ d[i] = c[i]
    BY <1>1
  <2>2. CASE j = n + 1
    BY <1>1, <1>5, <2>1, <2>2
  <2>3. CASE j # n + 1
    <3>1. j \in 1..n /\ d[j] = c[j]
      BY <1>1, <2>3
    <3> QED BY <1>1, <2>1, <3>1 DEF Sound, WalksBack
  <2> QED BY <2>2, <2>3
<1>7. Hops(ev, d)
  <2> SUFFICES ASSUME NEW k \in 1..(n + 1), k > 1
               PROVE  IF d[k].says = "woken" THEN WakeHop(ev, d[k - 1].at, d[k].at)
                                             ELSE BlockHop(ev, d[k - 1].at, d[k].at)
    BY <1>1 DEF Hops
  <2>1. k - 1 \in 1..n /\ d[k - 1] = c[k - 1]
    BY <1>1
  <2>2. CASE k = n + 1
    <3>1. d[k] = line /\ d[k - 1] = c[n]
      BY <1>1, <2>1, <2>2
    <3> QED BY <3>1 DEF n
  <2>3. CASE k # n + 1
    <3>1. k \in 1..n /\ d[k] = c[k]
      BY <1>1, <2>3
    <3>2. IF c[k].says = "woken" THEN WakeHop(ev, c[k - 1].at, c[k].at)
                                 ELSE BlockHop(ev, c[k - 1].at, c[k].at)
      BY <1>1, <3>1 DEF Sound, Hops
    <3> QED BY <2>1, <3>1, <3>2
  <2> QED BY <2>2, <2>3
<1>8. NearestHeadline(ev, d[1])
  <2>1. d[1] = c[1]
    BY <1>1, <1>2
  <2> QED BY <2>1 DEF Sound
<1>9. Cites(ev, d)
  <2> SUFFICES ASSUME NEW i \in 1..(n + 1) PROVE d[i].at \in DOMAIN ev
    BY <1>1 DEF Cites
  <2>1. CASE i = n + 1
    BY <1>1, <2>1
  <2>2. CASE i # n + 1
    BY <1>1, <1>3, <2>2
  <2> QED BY <2>1, <2>2
<1> QED BY <1>6, <1>7, <1>8, <1>9 DEF Sound, d

(* The line for the waker of the wait w.                                   *)
LEMMA AppendWoken ==
  ASSUME NEW ev \in Seq(Event), NEW c \in Seq(LineType), NEW line \in LineType,
         NEW w \in Typed(ev, EVENT_FUTEX_WAIT), OpenAt(ev, c, w), Sound(ev, c),
         line.says = "woken", line.at \in Typed(ev, EVENT_FUTEX_WAKE),
         WakeHop(ev, w, line.at)
  PROVE  Sound(ev, Append(c, line)) /\ Cites(ev, Append(c, line))
<1> DEFINE k == line.at
           n == Len(c)
<1>0. c # <<>> /\ n \in Nat /\ DOMAIN c = 1..n /\ c[n].at = w /\ Cites(ev, c)
  BY AppendShape DEF OpenAt
<1>1. k \in DOMAIN ev /\ w \in DOMAIN ev /\ k # w
  BY DEF Typed, EVENT_FUTEX_WAKE, EVENT_FUTEX_WAIT
<1>2. Ended(ev, k) \in Nat /\ Ended(ev, w) \in Nat /\ Ended(ev, k) <= Ended(ev, w)
  BY <1>1, EventFields DEF Ended, WakeHop, Within
<1>3. ASSUME WakesTakeTime(ev), NEW i \in DOMAIN c
      PROVE  c[i].at # k
  <2>1. CASE i = n
    BY <1>0, <1>1, <2>1
  <2>2. CASE i # n
    <3>1. i \in 1..(n - 1)
      BY <1>0, <2>2
    <3>2. Ended(ev, c[i].at) > Ended(ev, w)
      BY <1>3, <3>1 DEF OpenAt
    <3> QED BY <1>2, <3>2
  <2> QED BY <2>1, <2>2
<1> QED BY <1>0, <1>1, <1>2, <1>3, AppendHop

(* The line for what the waker was blocked on: later than none before.     *)
LEMMA AppendBlocked ==
  ASSUME NEW ev \in Seq(Event), NEW c \in Seq(LineType), NEW line \in LineType,
         c # <<>>, Cites(ev, c), Sound(ev, c),
         c[Len(c)].at \in Typed(ev, EVENT_FUTEX_WAKE),
         line.says # "woken", line.at \in DOMAIN ev,
         BlockHop(ev, c[Len(c)].at, line.at)
  PROVE  /\ Sound(ev, Append(c, line)) /\ Cites(ev, Append(c, line))
         /\ WakesTakeTime(ev) => \A i \in 1..Len(c) : Ended(ev, c[i].at) > Ended(ev, line.at)
<1> DEFINE x == line.at
           n == Len(c)
           k == c[n].at
<1>0. n \in Nat /\ DOMAIN c = 1..n /\ n >= 1
  <2>1. n # 0 /\ n \in Nat /\ DOMAIN c = 1..n
    BY AppendShape
  <2> QED BY <2>1
<1>1. k \in DOMAIN ev
  BY DEF Typed
<1>2. /\ Ended(ev, k) \in Nat /\ Ended(ev, x) \in Nat /\ SpanStart(ev[k]) \in Nat
      /\ SpanStart(ev[k]) <= Ended(ev, k)
  BY <1>1, EventFields, SpanStartType DEF Ended
<1>3. Ended(ev, x) <= SpanStart(ev[k])
  BY DEF BlockHop, Within
<1>4. Ended(ev, x) <= Ended(ev, k)
  BY <1>2, <1>3
<1>5. ASSUME WakesTakeTime(ev), NEW i \in 1..n
      PROVE  Ended(ev, c[i].at) > Ended(ev, x)
  <2>1. SpanStart(ev[k]) < Ended(ev, k)
    BY <1>5 DEF WakesTakeTime
  <2>2. Ended(ev, x) < Ended(ev, k)
    BY <1>2, <1>3, <2>1
  <2>3. Ended(ev, c[i].at) \in Nat
    BY <1>0, EventFields DEF Cites, Ended
  <2>4. CASE i = n
    BY <2>2, <2>4, <1>2
  <2>5. CASE i # n
    <3> HIDE DEF n
    <3>1. i \in DOMAIN c /\ n \in DOMAIN c /\ i < n
      BY <1>0, <2>5
    <3>2. Ended(ev, k) <= Ended(ev, c[i].at)
      BY <3>1 DEF Sound, WalksBack
    <3> QED BY <1>2, <2>2, <2>3, <3>2
  <2> QED BY <2>4, <2>5
<1>6. ASSUME WakesTakeTime(ev), NEW i \in DOMAIN c
      PROVE  c[i].at # x
  BY <1>0, <1>2, <1>5, <1>6
<1> QED BY <1>0, <1>1, <1>4, <1>5, <1>6, AppendHop

-----------------------------------------------------------------------------
(* The inductive invariant.                                                *)

(* While a chain is being walked, its last line is the wait, and its       *)
(* length tells the depth.                                                 *)
Walking == wait # None => OpenAt(events, lines, wait) /\ Len(lines) = 2 * depth - 1

(* A chain that is no longer walked has stopped for a reason.              *)
Stopped == wait = None /\ lines # <<>> => Complete(events, lines)

AllSound == \A c \in AllChains : Sound(events, c)

(* The cache holds what was printed for every device.                      *)
Keeps(ev, ca, c) ==
  \A i \in DOMAIN c : c[i].on = "io" =>
    LET dev == unpack_block_key(ev[c[i].at].key)[1]
    IN  dev \in DOMAIN ca /\ c[i].named = ca[dev]

AllKept == \A c \in AllChains : Keeps(events, cache, c)

IInv ==
  /\ TypeOK
  /\ Walking
  /\ Stopped
  /\ AllSound
  /\ ChainsBounded
  /\ ChainsComplete
  /\ AllKept

LEMMA DevType ==
  ASSUME NEW ev \in Seq(Event), NEW i \in DOMAIN ev
  PROVE  unpack_block_key(ev[i].key)[1] \in Nat
<1>1. ev[i].key \in Nat
  BY EventFields
<1>2. \A k \in Nat, m \in Nat \ {0} : k \div m \in Nat
  OBVIOUS
<1> QED BY <1>1, <1>2, SectorModAssumption DEF unpack_block_key

(* What printing a cause does to the chain and to the cache.               *)
LEMMA SayDoes ==
  ASSUME TypeOK, NEW says \in {"stall", "blocked"}, NEW of \in Nat, NEW cause \in Cause,
         cause.on = "io" => cause.at \in DOMAIN events,
         NEW before \in Seq(LineType), Keeps(events, cache, before),
         Say(says, of, cause, before)
  PROVE  /\ \E named \in BOOLEAN :
              /\ lines' = Append(before, Line(says, of, cause, named))
              /\ Line(says, of, cause, named) \in LineType
         /\ DOMAIN cache' \subseteq Nat /\ cache' \in [DOMAIN cache' -> BOOLEAN]
         /\ \A c : Keeps(events, cache, c) => Keeps(events, cache', c)
         /\ Keeps(events, cache', lines')
<1>0. \A named \in BOOLEAN : Line(says, of, cause, named) \in LineType
  BY DEF Line, LineType, Cause
<1>t. events \in Seq(Event) /\ DOMAIN cache \subseteq Nat /\ cache \in [DOMAIN cache -> BOOLEAN]
  BY DEF TypeOK
<1>1. CASE cause.on = "io"
  <2> DEFINE dev == DevOf(cause.at)
             line == Line(says, of, cause, Named(dev))
  <2>1. lines' = Append(before, line) /\ cache' = [d \in DOMAIN cache \cup {dev} |-> Named(d)]
    BY <1>1 DEF Say, Lookup
  <2>2. dev \in Nat
    BY <1>1, <1>t, DevType DEF DevOf
  <2>3. \A d : Named(d) \in BOOLEAN
    <3> SUFFICES ASSUME NEW d PROVE Named(d) \in BOOLEAN
      OBVIOUS
    <3>1. CASE d \in DOMAIN cache
      <4>1. cache[d] \in BOOLEAN
        BY <1>t, <3>1
      <4> QED BY <3>1, <4>1 DEF Named
    <3>2. CASE d \notin DOMAIN cache
      <4>1. Named(d) = (d \in sysfs)
        BY <3>2 DEF Named
      <4> QED BY <4>1
    <3> QED BY <3>1, <3>2
  <2>4. line \in LineType
    BY <1>0, <2>3
  <2>5. /\ DOMAIN cache' = DOMAIN cache \cup {dev}
        /\ \A d \in DOMAIN cache : cache'[d] = cache[d]
        /\ cache'[dev] = Named(dev)
    <3> HIDE DEF dev
    <3> QED BY <2>1 DEF Named
  <2>6. DOMAIN cache' \subseteq Nat /\ cache' \in [DOMAIN cache' -> BOOLEAN]
    <3> HIDE DEF dev
    <3> QED BY <1>t, <2>1, <2>2, <2>3
  <2>7. \A c : Keeps(events, cache, c) => Keeps(events, cache', c)
    <3> HIDE DEF dev
    <3> QED BY <2>5 DEF Keeps
  <2>8. Keeps(events, cache', lines')
    <3> SUFFICES ASSUME NEW i \in DOMAIN lines', lines'[i].on = "io"
                 PROVE  LET d == unpack_block_key(events[lines'[i].at].key)[1]
                        IN  d \in DOMAIN cache' /\ lines'[i].named = cache'[d]
      BY DEF Keeps
    <3>1. /\ Len(before) \in Nat /\ DOMAIN before = 1..Len(before)
          /\ DOMAIN lines' = 1..(Len(before) + 1)
          /\ lines'[Len(before) + 1] = line
          /\ \A j \in 1..Len(before) : lines'[j] = before[j]
      <4> HIDE DEF line
      <4> QED BY <2>1, <2>4, AppendShape
    <3>2. CASE i = Len(before) + 1
      <4>1. lines'[i].at = cause.at /\ lines'[i].named = Named(dev)
        BY <3>1, <3>2 DEF Line
      <4>2. unpack_block_key(events[lines'[i].at].key)[1] = dev
        BY <4>1 DEF DevOf
      <4> HIDE DEF dev
      <4> QED BY <2>5, <4>1, <4>2
    <3>3. CASE i # Len(before) + 1
      <4>1. i \in DOMAIN before /\ lines'[i] = before[i]
        BY <3>1, <3>3
      <4>2. Keeps(events, cache', before)
        BY <2>7
      <4> QED BY <4>1, <4>2 DEF Keeps
    <3> QED BY <3>2, <3>3
  <2> QED BY <2>1, <2>3, <2>4, <2>6, <2>7, <2>8
<1>2. CASE cause.on # "io"
  <2> DEFINE line == Line(says, of, cause, TRUE)
  <2>1. lines' = Append(before, line) /\ cache' = cache
    BY <1>2 DEF Say
  <2>2. line \in LineType
    BY <1>0
  <2>3. Keeps(events, cache, lines')
    <3> SUFFICES ASSUME NEW i \in DOMAIN lines', lines'[i].on = "io"
                 PROVE  LET d == unpack_block_key(events[lines'[i].at].key)[1]
                        IN  d \in DOMAIN cache /\ lines'[i].named = cache[d]
      BY DEF Keeps
    <3>1. /\ Len(before) \in Nat /\ DOMAIN before = 1..Len(before)
          /\ DOMAIN lines' = 1..(Len(before) + 1)
          /\ lines'[Len(before) + 1] = line
          /\ \A j \in 1..Len(before) : lines'[j] = before[j]
      <4> HIDE DEF line
      <4> QED BY <2>1, <2>2, AppendShape
    <3>2. i # Len(before) + 1
      BY <1>2, <3>1 DEF Line
    <3>3. i \in DOMAIN before /\ lines'[i] = before[i]
      BY <3>1, <3>2
    <3> QED BY <3>3 DEF Keeps
  <2>4. Keeps(events, cache', lines') /\ \A c : Keeps(events, cache, c) => Keeps(events, cache', c)
    BY <2>1, <2>3
  <2> QED BY <1>t, <2>1, <2>2, <2>4
<1> QED BY <1>1, <1>2

LEMMA ExplainOneStallStep ==
  ASSUME IInv, explain_one_stall
  PROVE  IInv'
<1> USE DEF IInv
<1>0. /\ UNCHANGED <<events, slowest, sysfs, chains, done>> /\ lines = <<>>
      /\ events \in Seq(Event)
  BY DEF explain_one_stall, TypeOK
<1>1. PICK b \in Stalls :
        LET cause == classify_resume_cause(events, events[b].tid, events[b].timestamp_ns)
        IN  /\ Say("stall", b, cause, <<>>)
            /\ wait' = NextWait(cause)
            /\ depth' = 1
  BY DEF explain_one_stall
<1> DEFINE cause == classify_resume_cause(events, events[b].tid, events[b].timestamp_ns)
           near == Candidates(events, events[b].tid, events[b].timestamp_ns)
<1>2. b \in DOMAIN events /\ b \in Nat
  BY <1>0, EventFields DEF Stalls, Typed
<1>3. /\ cause \in Cause
      /\ \/ cause = Unknown /\ near = {}
         \/ /\ cause.at \in DOMAIN events /\ cause.at \in near
            /\ \A i \in near : Gap(events, cause.at, events[b].timestamp_ns)
                                 <= Gap(events, i, events[b].timestamp_ns)
            /\ \/ cause.at \in Typed(events, EVENT_FUTEX_WAIT) /\ cause = Futex(cause.at)
               \/ cause.at \in Typed(events, EVENT_BLOCK_IO) /\ cause = BlockIo(cause.at)
  BY <1>0, <1>2, ResumeCauseIs
<1>4. Say("stall", b, cause, <<>>) /\ wait' = NextWait(cause) /\ depth' = 1
  BY <1>1
<1> HIDE DEF cause, near
<1>5. cause.on = "io" => cause.at \in DOMAIN events
  BY <1>3 DEF Unknown
<1>6. PICK named \in BOOLEAN : /\ lines' = Append(<<>>, Line("stall", b, cause, named))
                               /\ Line("stall", b, cause, named) \in LineType
  <2>1. Keeps(events, cache, <<>>) /\ <<>> \in Seq(LineType)
    BY DEF Keeps
  <2> QED BY <1>2, <1>3, <1>4, <1>5, <2>1, SayDoes
<1>7. /\ DOMAIN cache' \subseteq Nat /\ cache' \in [DOMAIN cache' -> BOOLEAN]
      /\ \A c : Keeps(events, cache, c) => Keeps(events, cache', c)
      /\ Keeps(events, cache', lines')
  <2>1. Keeps(events, cache, <<>>) /\ <<>> \in Seq(LineType)
    BY DEF Keeps
  <2> QED BY <1>2, <1>3, <1>4, <1>5, <2>1, SayDoes
<1> DEFINE line == Line("stall", b, cause, named)
<1>8. line.says = "stall" /\ line.of = b /\ line.on = cause.on /\ line.at = cause.at
  BY DEF Line
<1>9. /\ lines' \in Seq(LineType) /\ lines' # <<>> /\ Len(lines') = 1
      /\ DOMAIN lines' = {1} /\ lines'[1] = line
  <2>1. line \in LineType /\ lines' = Append(<<>>, line)
    BY <1>6
  <2>2. <<>> \in Seq(LineType) /\ Len(<<>>) = 0
    OBVIOUS
  <2> HIDE DEF line
  <2>3. /\ lines' \in Seq(LineType) /\ lines' # <<>> /\ Len(lines') = 0 + 1
        /\ DOMAIN lines' = 1..(0 + 1) /\ lines'[0 + 1] = line
    BY <2>1, <2>2, AppendShape
  <2> QED BY <2>3
<1> HIDE DEF line
<1>10. wait' \in Typed(events, EVENT_FUTEX_WAIT) \cup {None}
  BY <1>3, <1>4 DEF NextWait, Futex, BlockIo, Unknown
<1>11. TypeOK'
  BY <1>0, <1>4, <1>7, <1>9, <1>10, ConstantTypes DEF TypeOK
<1>12. Walking'
  <2> SUFFICES ASSUME wait' # None
               PROVE  OpenAt(events, lines', wait') /\ Len(lines') = 2 * 1 - 1
    BY <1>0, <1>4 DEF Walking
  <2>1. cause.on = "futex" /\ wait' = cause.at
    BY <1>4 DEF NextWait
  <2>2. cause.at \in DOMAIN events
    BY <1>3, <2>1 DEF Unknown
  <2> QED BY <1>8, <1>9, <2>1, <2>2 DEF OpenAt, Cites
<1>13. Stopped'
  <2> SUFFICES ASSUME wait' = None PROVE Complete(events, lines')
    BY <1>0 DEF Stopped
  <2>1. cause.on # "futex"
    <3> SUFFICES ASSUME cause.on = "futex" PROVE FALSE
      OBVIOUS
    <3>1. cause.at = None /\ cause.at \in DOMAIN events
      BY <1>3, <1>4 DEF NextWait, Unknown
    <3> QED BY <1>0, <3>1, EventFields DEF None
  <2>2. cause.on \in {"io", "unknown"}
    BY <1>3, <2>1 DEF Cause
  <2> QED BY <1>8, <1>9, <2>2 DEF Complete
<1>14. Sound(events, lines')
  <2>1. WalksBack(events, lines') /\ Hops(events, lines')
    BY <1>9 DEF WalksBack, Hops
  <2>2. NearestHeadline(events, line)
    BY <1>3, <1>8 DEF NearestHeadline, Ended, near, Unknown, Futex, BlockIo
  <2> QED BY <1>9, <2>1, <2>2 DEF Sound
<1>15. AllSound'
  BY <1>0, <1>14 DEF AllSound, AllChains
<1>16. ChainsBounded'
  <2>1. Len(lines') <= 2 * MAX_CHAIN_DEPTH
    BY <1>9, ConstantTypes
  <2> QED BY <1>0, <2>1 DEF ChainsBounded, AllChains
<1>17. ChainsComplete'
  BY <1>0 DEF ChainsComplete
<1>18. AllKept'
  BY <1>0, <1>7 DEF AllKept, AllChains
<1> QED BY <1>11, <1>12, <1>13, <1>15, <1>16, <1>17, <1>18

LEMMA WalkStep ==
  ASSUME IInv, walk_from_futex_wait
  PROVE  IInv'
<1> USE DEF IInv
<1> DEFINE wake == WakeOf(events, wait)
<1>0. /\ UNCHANGED <<events, slowest, sysfs, chains, done>> /\ wait # None
      /\ \/ wake = None /\ wait' = None /\ UNCHANGED <<lines, cache, depth>>
         \/ wake # None /\ StopAtWaker(wake)
         \/ wake # None /\ HopToCause(wake)
  BY DEF walk_from_futex_wait
<1>t. /\ events \in Seq(Event) /\ lines \in Seq(LineType) /\ depth \in 1..MAX_CHAIN_DEPTH
      /\ wait \in Typed(events, EVENT_FUTEX_WAIT) /\ wait \in DOMAIN events
  BY <1>0 DEF TypeOK, Typed
<1>1. /\ OpenAt(events, lines, wait) /\ Len(lines) = 2 * depth - 1 /\ Len(lines) \in Nat
      /\ Sound(events, lines) /\ Keeps(events, cache, lines)
  BY <1>0, <1>t DEF Walking, AllSound, AllKept, AllChains
<1>2. \/ wake = None /\ NoWakeFor(events, wait)
      \/ wake # None /\ wake \in Typed(events, EVENT_FUTEX_WAKE) /\ WakeHop(events, wait, wake)
  BY <1>t, WakeOfIs
<1> HIDE DEF wake
<1>3. ChainsComplete'
  BY <1>0 DEF ChainsComplete
<1>4. CASE wake = None /\ wait' = None /\ UNCHANGED <<lines, cache, depth>>
  <2>1. NoWakeFor(events, wait)
    BY <1>2, <1>4
  <2>2. Complete(events, lines)
    BY <1>1, <2>1 DEF Complete, OpenAt
  <2>3. TypeOK' /\ Walking' /\ Stopped'
    BY <1>0, <1>4, <2>2 DEF TypeOK, Walking, Stopped
  <2>4. AllSound' /\ ChainsBounded' /\ AllKept'
    BY <1>0, <1>4 DEF AllSound, ChainsBounded, AllKept, AllChains
  <2> QED BY <1>3, <2>3, <2>4
<1> DEFINE woken == Line("woken", wake, Futex(wake), TRUE)
           upto == Append(lines, woken)
<1>5. ASSUME wake # None
      PROVE  /\ wake \in Typed(events, EVENT_FUTEX_WAKE) /\ wake \in DOMAIN events /\ wake \in Nat
             /\ woken \in LineType /\ Woken(wake) = upto
             /\ woken.says = "woken" /\ woken.at = wake /\ woken.on = "futex"
             /\ Sound(events, upto) /\ Cites(events, upto)
             /\ upto \in Seq(LineType) /\ upto # <<>> /\ Len(upto) = 2 * depth
             /\ upto[Len(upto)] = woken /\ Keeps(events, cache, upto)
  <2>1. wake \in Typed(events, EVENT_FUTEX_WAKE) /\ WakeHop(events, wait, wake)
    BY <1>2, <1>5
  <2>2. wake \in DOMAIN events /\ wake \in Nat
    BY <1>t, <2>1, EventFields DEF Typed
  <2>3. woken \in LineType
    BY <2>2 DEF Line, LineType, Futex
  <2>4. woken.says = "woken" /\ woken.at = wake /\ woken.on = "futex"
    BY DEF Line, Futex
  <2>5. Woken(wake) = upto
    BY DEF Woken
  <2> HIDE DEF woken
  <2>6. Sound(events, upto) /\ Cites(events, upto)
    BY <1>t, <1>1, <2>1, <2>3, <2>4, AppendWoken
  <2>7. /\ upto \in Seq(LineType) /\ upto # <<>> /\ Len(upto) = Len(lines) + 1
        /\ DOMAIN lines = 1..Len(lines) /\ DOMAIN upto = 1..(Len(lines) + 1)
        /\ upto[Len(lines) + 1] = woken /\ \A i \in 1..Len(lines) : upto[i] = lines[i]
    BY <1>t, <2>3, AppendShape
  <2> HIDE DEF upto
  <2>8. Len(upto) = 2 * depth /\ upto[Len(upto)] = woken
    <3>1. Len(lines) + 1 = 2 * depth
      BY <1>t, <1>1, ConstantTypes
    <3> QED BY <2>7, <3>1
  <2>9. Keeps(events, cache, upto)
    <3> SUFFICES ASSUME NEW i \in DOMAIN upto, upto[i].on = "io"
                 PROVE  LET d == unpack_block_key(events[upto[i].at].key)[1]
                        IN  d \in DOMAIN cache /\ upto[i].named = cache[d]
      BY DEF Keeps
    <3>1. i # Len(lines) + 1
      BY <2>4, <2>7
    <3>2. i \in DOMAIN lines /\ upto[i] = lines[i]
      BY <1>1, <2>7, <3>1
    <3> QED BY <1>1, <3>2 DEF Keeps
  <2> QED BY <2>1, <2>2, <2>3, <2>4, <2>5, <2>6, <2>7, <2>8, <2>9
<1>6. ASSUME wake # None
      PROVE  LET c == PriorCause(wake)
             IN  /\ c \in Cause
                 /\ \/ c = Unknown /\ NoBlockBefore(events, wake)
                    \/ /\ c.at \in DOMAIN events /\ BlockHop(events, wake, c.at)
                       /\ \/ c.at \in Typed(events, EVENT_FUTEX_WAIT) /\ c = Futex(c.at)
                          \/ c.at \in Typed(events, EVENT_BLOCK_IO) /\ c = BlockIo(c.at)
  BY <1>t, <1>5, <1>6, PriorCauseIs DEF PriorCause
<1> HIDE DEF woken, upto
<1>7. CASE wake # None /\ StopAtWaker(wake)
  <2>1. /\ lines' = upto /\ wait' = None /\ cache' = cache /\ depth' = depth
        /\ TooDeep \/ PriorCause(wake).on = "unknown"
    BY <1>5, <1>7 DEF StopAtWaker
  <2>2. Complete(events, upto)
    <3>1. CASE TooDeep
      <4>1. Len(upto) = 2 * MAX_CHAIN_DEPTH
        BY <1>t, <1>5, <1>7, <3>1, ConstantTypes DEF TooDeep
      <4> QED BY <1>5, <1>7, <4>1 DEF Complete
    <3>2. CASE PriorCause(wake).on = "unknown"
      <4>1. NoBlockBefore(events, wake)
        BY <1>6, <1>7, <3>2 DEF Futex, BlockIo
      <4> QED BY <1>5, <1>7, <4>1 DEF Complete
    <3> QED BY <2>1, <3>1, <3>2
  <2>3. TypeOK' /\ Walking' /\ Stopped'
    BY <1>0, <1>5, <1>7, <2>1, <2>2 DEF TypeOK, Walking, Stopped
  <2>4. Len(upto) <= 2 * MAX_CHAIN_DEPTH
    BY <1>t, <1>5, <1>7, ConstantTypes
  <2>5. AllSound' /\ ChainsBounded' /\ AllKept'
    BY <1>0, <1>5, <1>7, <2>1, <2>4 DEF AllSound, ChainsBounded, AllKept, AllChains
  <2> QED BY <1>3, <2>3, <2>5
<1>8. CASE wake # None /\ HopToCause(wake)
  <2> DEFINE cause == PriorCause(wake)
  <2>1. /\ ~TooDeep /\ cause.on # "unknown" /\ wait' = NextWait(cause) /\ depth' = depth + 1
        /\ Say("blocked", wake, cause, upto)
    BY <1>5, <1>8 DEF HopToCause, NextDepth
  <2>2. /\ cause \in Cause
        /\ cause.at \in DOMAIN events /\ BlockHop(events, wake, cause.at)
        /\ \/ cause.at \in Typed(events, EVENT_FUTEX_WAIT) /\ cause = Futex(cause.at)
           \/ cause.at \in Typed(events, EVENT_BLOCK_IO) /\ cause = BlockIo(cause.at)
    BY <1>6, <1>8, <2>1 DEF Unknown
  <2> HIDE DEF cause
  <2>3. /\ \E named \in BOOLEAN :
             /\ lines' = Append(upto, Line("blocked", wake, cause, named))
             /\ Line("blocked", wake, cause, named) \in LineType
        /\ DOMAIN cache' \subseteq Nat /\ cache' \in [DOMAIN cache' -> BOOLEAN]
        /\ \A c : Keeps(events, cache, c) => Keeps(events, cache', c)
        /\ Keeps(events, cache', lines')
    BY <1>5, <1>8, <2>1, <2>2, SayDoes
  <2>4. PICK named \in BOOLEAN :
             /\ lines' = Append(upto, Line("blocked", wake, cause, named))
             /\ Line("blocked", wake, cause, named) \in LineType
    BY <2>3
  <2> DEFINE line == Line("blocked", wake, cause, named)
  <2>5. line.says = "blocked" /\ line.at = cause.at /\ line.on = cause.on
    BY DEF Line
  <2>6. line \in LineType /\ lines' = Append(upto, line)
    BY <2>4
  <2> HIDE DEF line
  <2>7. /\ Sound(events, lines') /\ Cites(events, lines')
        /\ WakesTakeTime(events) => \A i \in 1..Len(upto) : Ended(events, upto[i].at) > Ended(events, cause.at)
    BY <1>t, <1>5, <1>8, <2>2, <2>5, <2>6, AppendBlocked
  <2>8. /\ lines' \in Seq(LineType) /\ lines' # <<>> /\ Len(lines') = Len(upto) + 1
        /\ lines'[Len(upto) + 1] = line /\ \A i \in 1..Len(upto) : lines'[i] = upto[i]
    BY <1>5, <1>8, <2>6, AppendShape
  <2>9. Len(lines') = 2 * depth' - 1 /\ depth' \in 1..MAX_CHAIN_DEPTH /\ Len(lines') <= 2 * MAX_CHAIN_DEPTH
    <3>1. Len(lines') = 2 * depth + 1
      BY <1>5, <1>8, <2>8
    <3> QED BY <1>t, <2>1, <3>1, ConstantTypes DEF TooDeep
  <2>10. wait' \in Typed(events, EVENT_FUTEX_WAIT) \cup {None}
    BY <2>1, <2>2 DEF NextWait, Futex, BlockIo
  <2>11. TypeOK'
    BY <1>0, <2>3, <2>8, <2>9, <2>10 DEF TypeOK
  <2>12. Walking'
    <3> SUFFICES ASSUME wait' # None PROVE OpenAt(events, lines', wait')
      BY <1>0, <2>9 DEF Walking
    <3>1. cause.on = "futex" /\ wait' = cause.at
      BY <2>1 DEF NextWait
    <3>2. lines'[Len(lines')] = line /\ Len(lines') - 1 = Len(upto) /\ Len(upto) \in Nat
      BY <1>t, <1>5, <1>8, <2>8
    <3>3. ASSUME WakesTakeTime(events), NEW i \in 1..Len(upto)
          PROVE  Ended(events, lines'[i].at) > Ended(events, cause.at)
      BY <2>7, <2>8, <3>3
    <3> QED BY <2>5, <2>7, <2>8, <3>1, <3>2, <3>3 DEF OpenAt
  <2>13. Stopped'
    <3> SUFFICES ASSUME wait' = None PROVE Complete(events, lines')
      BY <1>0 DEF Stopped
    <3>1. cause.on = "io"
      <4>1. cause.at # None
        BY <1>t, <2>2, EventFields DEF None
      <4> QED BY <2>1, <2>2, <4>1 DEF NextWait, Futex, BlockIo
    <3>2. lines'[Len(lines')] = line
      BY <2>8
    <3> QED BY <2>5, <3>1, <3>2 DEF Complete
  <2>14. AllSound'
    BY <1>0, <2>7 DEF AllSound, AllChains
  <2>15. ChainsBounded'
    BY <1>0, <2>9 DEF ChainsBounded, AllChains
  <2>16. AllKept'
    BY <1>0, <2>3 DEF AllKept, AllChains
  <2> QED BY <1>3, <2>11, <2>12, <2>13, <2>14, <2>15, <2>16
<1> QED BY <1>0, <1>4, <1>7, <1>8

LEMMA CollectChainStep ==
  ASSUME IInv, CollectChain
  PROVE  IInv'
<1> USE DEF IInv
<1>0. /\ wait = None /\ lines # <<>> /\ chains' = Append(chains, lines) /\ lines' = <<>>
      /\ UNCHANGED <<events, slowest, sysfs, cache, wait, depth, done>>
      /\ lines \in Seq(LineType) /\ chains \in Seq(Seq(LineType))
  BY DEF CollectChain, TypeOK
<1>1. chains' \in Seq(Seq(LineType)) /\ lines' \in Seq(LineType)
  BY <1>0
<1>2. Range(chains') = Range(chains) \cup {lines}
  <2>1. /\ DOMAIN chains = 1..Len(chains) /\ Len(chains) \in Nat
        /\ DOMAIN chains' = 1..(Len(chains) + 1)
        /\ chains'[Len(chains) + 1] = lines
        /\ \A i \in 1..Len(chains) : chains'[i] = chains[i]
    BY <1>0
  <2>2. \A i \in 1..(Len(chains) + 1) : i \in 1..Len(chains) \/ i = Len(chains) + 1
    BY <2>1
  <2>3. Len(chains) + 1 \in DOMAIN chains' /\ \A i \in DOMAIN chains : i \in DOMAIN chains'
    BY <2>1
  <2> QED BY <2>1, <2>2, <2>3 DEF Range
<1>3. AllChains' = AllChains \cup {<<>>}
  BY <1>0, <1>2 DEF AllChains
<1>4. TypeOK' /\ Walking' /\ Stopped'
  BY <1>0, <1>1 DEF TypeOK, Walking, Stopped
<1>5. AllSound'
  BY <1>0, <1>3, EmptyIsSound DEF AllSound
<1>6. ChainsBounded'
  <2>1. Len(<<>>) <= 2 * MAX_CHAIN_DEPTH
    BY ConstantTypes
  <2> QED BY <1>3, <2>1 DEF ChainsBounded
<1>7. ChainsComplete'
  <2>1. Complete(events, lines)
    BY <1>0 DEF Stopped
  <2> QED BY <1>0, <1>2, <2>1 DEF ChainsComplete
<1>8. AllKept'
  <2>1. Keeps(events, cache, <<>>)
    BY DEF Keeps
  <2> QED BY <1>0, <1>3, <2>1 DEF AllKept
<1> QED BY <1>4, <1>5, <1>6, <1>7, <1>8

(* The steps that leave the chains alone.                                  *)
LEMMA OtherSteps ==
  ASSUME IInv,
         print_chains \/ (\E dev \in Devs : RemoveDevice(dev)) \/ UNCHANGED vars
  PROVE  IInv'
<1>0. UNCHANGED <<events, slowest, cache, wait, depth, lines, chains>>
  BY DEF print_chains, RemoveDevice, vars
<1>1. sysfs' \subseteq Devs /\ done' \in BOOLEAN
  BY DEF print_chains, RemoveDevice, vars, IInv, TypeOK
<1>2. TypeOK'
  BY <1>0, <1>1 DEF IInv, TypeOK
<1>3. Walking' /\ Stopped' /\ ChainsComplete'
  BY <1>0 DEF IInv, Walking, Stopped, ChainsComplete
<1>4. AllSound' /\ ChainsBounded' /\ AllKept'
  BY <1>0 DEF IInv, AllSound, ChainsBounded, AllKept, AllChains
<1> QED BY <1>2, <1>3, <1>4 DEF IInv

LEMMA InitIInv == Init => IInv
<1> SUFFICES ASSUME Init PROVE IInv
  OBVIOUS
<1>0. /\ events \in Seq(Event) /\ lines = <<>> /\ chains = <<>> /\ wait = None /\ depth = 1
      /\ cache = <<>> /\ slowest \in Slowest /\ sysfs = Devs /\ done = FALSE
  BY ExplainAssumption DEF Init
<1>1. TypeOK
  <2>1. DOMAIN cache \subseteq Nat /\ cache \in [DOMAIN cache -> BOOLEAN]
    BY <1>0
  <2>2. lines \in Seq(LineType) /\ chains \in Seq(Seq(LineType))
    BY <1>0
  <2>3. depth \in 1..MAX_CHAIN_DEPTH /\ sysfs \subseteq Devs
    BY <1>0, ConstantTypes
  <2>5. done \in BOOLEAN
    BY <1>0
  <2>4. events \in Seq(Event) /\ slowest \in Slowest /\ wait \in Typed(events, EVENT_FUTEX_WAIT) \cup {None}
    BY <1>0
  <2> QED BY <2>1, <2>2, <2>3, <2>4, <2>5 DEF TypeOK
<1>2. Walking /\ Stopped
  BY <1>0 DEF Walking, Stopped
<1>3. AllChains = {<<>>} /\ Range(chains) = {}
  BY <1>0 DEF AllChains, Range
<1>4. AllSound
  BY <1>3, EmptyIsSound DEF AllSound
<1>5. ChainsBounded
  <2>1. Len(<<>>) <= 2 * MAX_CHAIN_DEPTH
    BY ConstantTypes
  <2> QED BY <1>3, <2>1 DEF ChainsBounded
<1>6. ChainsComplete
  BY <1>3 DEF ChainsComplete
<1>7. AllKept
  BY <1>3 DEF AllKept, Keeps
<1> QED BY <1>1, <1>2, <1>4, <1>5, <1>6, <1>7 DEF IInv

LEMMA StepIInv == IInv /\ [Next]_vars => IInv'
<1> SUFFICES ASSUME IInv, [Next]_vars PROVE IInv'
  OBVIOUS
<1>1. CASE explain_one_stall
  BY <1>1, ExplainOneStallStep
<1>2. CASE walk_from_futex_wait
  BY <1>2, WalkStep
<1>3. CASE CollectChain
  BY <1>3, CollectChainStep
<1>4. CASE print_chains \/ (\E dev \in Devs : RemoveDevice(dev)) \/ UNCHANGED vars
  BY <1>4, OtherSteps
<1> QED BY <1>1, <1>2, <1>3, <1>4 DEF Next, Exited

(* Everything below rests on this invariant of causal::explain: the walk   *)
(* knows where it is, every chain is sound and bounded, every finished     *)
(* chain is complete, and the device cache agrees with what was printed.   *)
THEOREM Invariance == Spec => []IInv
<1>1. Init => IInv
  BY InitIInv
<1>2. IInv /\ [Next]_vars => IInv'
  BY StepIInv
<1> QED BY <1>1, <1>2, PTL DEF Spec

(* Positions kept by explain are positions of the trace, and the walk      *)
(* never goes deeper than MAX_CHAIN_DEPTH.                                 *)
THEOREM TypeCorrect == Spec => []TypeOK
<1>1. IInv => TypeOK
  BY DEF IInv
<1> QED BY <1>1, Invariance, PTL

(* walk_from_futex_wait never goes round in circles.                       *)
THEOREM WalkBack == Spec => []ChainsWalkBack
<1>1. IInv => ChainsWalkBack
  BY DEF IInv, AllSound, Sound, ChainsWalkBack
<1> QED BY <1>1, Invariance, PTL

(* No chain of explain outgrows the depth guard of walk_from_futex_wait.   *)
THEOREM Bounded == Spec => []ChainsBounded
<1>1. IInv => ChainsBounded
  BY DEF IInv
<1> QED BY <1>1, Invariance, PTL

(* Every hop of walk_from_futex_wait is to the nearest event it could be.  *)
THEOREM NearestHops == Spec => []HopsAreNearest
<1>1. IInv => HopsAreNearest
  BY DEF IInv, AllSound, Sound, HopsAreNearest
<1> QED BY <1>1, Invariance, PTL

(* Every chain explain returns goes as far as the trace and the depth      *)
(* guard allow.                                                            *)
THEOREM Completeness == Spec => []ChainsComplete
<1>1. IInv => ChainsComplete
  BY DEF IInv
<1> QED BY <1>1, Invariance, PTL

(* Every headline of explain_one_stall cites the closest candidate.        *)
THEOREM NearestHeadlines == Spec => []HeadlinesAreNearest
<1>1. IInv => HeadlinesAreNearest
  BY DEF IInv, AllSound, Sound, HeadlinesAreNearest
<1> QED BY <1>1, Invariance, PTL

(* DevNames gives a device the same name in every line of a report.        *)
THEOREM ConsistentNames == Spec => []NamesConsistent
<1>1. IInv => NamesConsistent
  BY DEF IInv, AllKept, Keeps, NamesConsistent, DevOf
<1> QED BY <1>1, Invariance, PTL
=============================================================================
