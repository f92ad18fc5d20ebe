---------------------------- MODULE SlowestProofs ---------------------------
(***************************************************************************)
(* explain's sort and truncation: the stalls that get a chain are the      *)
(* slowest ones, for every trace and every --slowest, and there always is  *)
(* a next one to explain.                                                  *)
(***************************************************************************)
EXTENDS ExplainProofs, FiniteSetTheorems

(* The stable sort puts the stall at i before the one at j.                *)
Before(i, j) ==
  \/ events[i].duration_ns > events[j].duration_ns
  \/ events[i].duration_ns = events[j].duration_ns /\ i < j

Ahead(i) == {j \in Stalls : Before(j, i)}

(* The n-th chain is that of the n-th stall, the chain under construction  *)
(* is that of the next one, and there are never more than asked for.       *)
Ranked ==
  /\ Len(chains) <= slowest
  /\ \A n \in DOMAIN chains :
       /\ chains[n][1].of \in Stalls
       /\ SlowestRank(events, chains[n][1].of) = n
  /\ lines # <<>> =>
       /\ lines[1].of \in Stalls
       /\ SlowestRank(events, lines[1].of) = Len(chains) + 1
       /\ Len(chains) < slowest
  /\ wait # None => lines # <<>>
  /\ done => /\ lines = <<>>
             /\ Len(chains) >= slowest \/ Len(chains) = Cardinality(Stalls)

-----------------------------------------------------------------------------
(* The sort.                                                               *)

LEMMA StallsFinite ==
  ASSUME events \in Seq(Event)
  PROVE  /\ IsFiniteSet(Stalls) /\ Cardinality(Stalls) \in Nat
         /\ \A i \in Stalls : i \in Nat /\ events[i].duration_ns \in Nat
<1>1. DOMAIN events = 1..Len(events) /\ Len(events) \in Nat
  OBVIOUS
<1>2. IsFiniteSet(1..Len(events))
  BY <1>1, FS_Interval
<1>3. Stalls \in SUBSET (1..Len(events))
  BY <1>1 DEF Stalls, Typed
<1>4. IsFiniteSet(Stalls)
  BY <1>2, <1>3, FS_Subset
<1>5. \A i \in Stalls : i \in Nat /\ events[i].duration_ns \in Nat
  BY <1>1, <1>3, EventFields
<1> QED BY <1>4, <1>5, FS_CardinalityType

LEMMA RankType ==
  ASSUME events \in Seq(Event), NEW i \in Stalls
  PROVE  /\ IsFiniteSet(Ahead(i)) /\ Cardinality(Ahead(i)) \in Nat
         /\ SlowestRank(events, i) = 1 + Cardinality(Ahead(i))
         /\ SlowestRank(events, i) \in 1..Cardinality(Stalls)
<1>1. IsFiniteSet(Stalls) /\ Cardinality(Stalls) \in Nat
  BY StallsFinite
<1>2. Ahead(i) \in SUBSET Stalls /\ Ahead(i) # Stalls
  BY StallsFinite DEF Ahead, Before
<1>3. /\ IsFiniteSet(Ahead(i)) /\ Cardinality(Ahead(i)) \in Nat
      /\ Cardinality(Ahead(i)) <= Cardinality(Stalls)
      /\ Cardinality(Ahead(i)) # Cardinality(Stalls)
  BY <1>1, <1>2, FS_Subset, FS_CardinalityType
<1>4. SlowestRank(events, i) = 1 + Cardinality(Ahead(i))
  BY DEF SlowestRank, Ahead, Before, Stalls
<1> QED BY <1>1, <1>3, <1>4

(* A stall that comes before another has the smaller rank.                 *)
LEMMA RankOrder ==
  ASSUME events \in Seq(Event), NEW i \in Stalls, NEW j \in Stalls, Before(i, j)
  PROVE  SlowestRank(events, i) < SlowestRank(events, j)
<1>1. i \notin Ahead(i)
  BY StallsFinite DEF Ahead, Before
<1>2. Ahead(i) \cup {i} \in SUBSET Ahead(j)
  BY StallsFinite DEF Ahead, Before
<1>3. IsFiniteSet(Ahead(i)) /\ IsFiniteSet(Ahead(j))
  BY RankType
<1>4. Cardinality(Ahead(i) \cup {i}) = Cardinality(Ahead(i)) + 1
  BY <1>1, <1>3, FS_AddElement
<1>5. Cardinality(Ahead(i) \cup {i}) <= Cardinality(Ahead(j))
  BY <1>2, <1>3, FS_Subset
<1> QED BY <1>4, <1>5, RankType

(* Of two stalls one comes before the other, so ranks tell them apart.     *)
LEMMA RankTotal ==
  ASSUME events \in Seq(Event), NEW i \in Stalls, NEW j \in Stalls, i # j
  PROVE  Before(i, j) \/ Before(j, i)
BY StallsFinite DEF Before

LEMMA RankInjective ==
  ASSUME events \in Seq(Event), NEW i \in Stalls, NEW j \in Stalls,
         SlowestRank(events, i) = SlowestRank(events, j)
  PROVE  i = j
<1> SUFFICES ASSUME i # j PROVE FALSE
  OBVIOUS
<1>1. SlowestRank(events, i) \in Nat /\ SlowestRank(events, j) \in Nat
  BY RankType
<1>2. SlowestRank(events, i) < SlowestRank(events, j) \/ SlowestRank(events, j) < SlowestRank(events, i)
  BY RankTotal, RankOrder
<1> QED BY <1>1, <1>2

(* Every place of the sorted list is taken.                                *)
LEMMA RankSurjective ==
  ASSUME events \in Seq(Event), NEW k \in 1..Cardinality(Stalls)
  PROVE  \E b \in Stalls : SlowestRank(events, b) = k
<1> DEFINE T == 1..Cardinality(Stalls)
           f == [i \in Stalls |-> SlowestRank(events, i)]
<1>1. IsFiniteSet(Stalls) /\ Cardinality(Stalls) \in Nat
  BY StallsFinite
<1>2. IsFiniteSet(T) /\ Cardinality(T) = Cardinality(Stalls)
  BY <1>1, FS_Interval
<1>3. \A i \in Stalls : f[i] = SlowestRank(events, i) /\ f[i] \in T
  BY RankType
<1>4. f \in Injection(Stalls, T)
  <2>1. f \in [Stalls -> T]
    BY <1>3
  <2>2. \A i, j \in Stalls : f[i] = f[j] => i = j
    BY <1>3, RankInjective
  <2> HIDE DEF f, T
  <2> QED BY <2>1, <2>2 DEF Injection, IsInjective
<1>5. f \in Surjection(Stalls, T)
  <2> HIDE DEF f, T
  <2> QED BY <1>2, <1>4, FS_Injection
<1>6. PICK b \in Stalls : f[b] = k
  BY <1>5 DEF Surjection
<1> QED BY <1>3, <1>6

-----------------------------------------------------------------------------
(* The chains.                                                             *)

LEMMA InitRanked == Init => Ranked
<1> SUFFICES ASSUME Init PROVE Ranked
  OBVIOUS
<1>1. /\ chains = <<>> /\ lines = <<>> /\ wait = None /\ ~done
      /\ Len(chains) = 0 /\ DOMAIN chains = {} /\ slowest \in Nat
  BY ExplainAssumption DEF Init
<1> QED BY <1>1 DEF Ranked

(* The line that opens a chain is that of its stall.                       *)
LEMMA SayOpens ==
  ASSUME NEW b, NEW cause, Say("stall", b, cause, <<>>)
  PROVE  lines' # <<>> /\ lines'[1].of = b
BY DEF Say, Line

(* The walk only adds lines.                                               *)
LEMMA WalkKeepsHeadline ==
  ASSUME TypeOK, Ranked, walk_from_futex_wait
  PROVE  lines # <<>> /\ lines' # <<>> /\ lines'[1] = lines[1]
<1>1. lines # <<>> /\ lines \in Seq(LineType)
  BY DEF TypeOK, Ranked, walk_from_futex_wait
<1>2. \A x : Append(lines, x) # <<>> /\ Append(lines, x)[1] = lines[1]
  BY <1>1
<1>3. \A x, y : Append(Append(lines, x), y) # <<>> /\ Append(Append(lines, x), y)[1] = lines[1]
  BY <1>1
<1> QED BY <1>1, <1>2, <1>3 DEF walk_from_futex_wait, StopAtWaker, HopToCause, Woken, Say

LEMMA NextRanked == IInv /\ Ranked /\ [Next]_vars => Ranked'
<1> SUFFICES ASSUME IInv, Ranked, [Next]_vars PROVE Ranked'
  OBVIOUS
<1>t. /\ TypeOK /\ events \in Seq(Event) /\ slowest \in Nat
      /\ chains \in Seq(Seq(LineType)) /\ Len(chains) \in Nat /\ DOMAIN chains = 1..Len(chains)
  BY ExplainAssumption DEF IInv, TypeOK
<1>1. CASE explain_one_stall
  <2>1. PICK b \in Stalls :
          /\ SlowestRank(events, b) = Len(chains) + 1
          /\ lines' # <<>> /\ lines'[1].of = b
    BY <1>1, SayOpens DEF explain_one_stall
  <2>2. ~done /\ Len(chains) < slowest /\ UNCHANGED <<events, slowest, chains, done>>
    BY <1>1 DEF explain_one_stall
  <2>3. Stalls' = Stalls
    BY <2>2 DEF Stalls
  <2> QED BY <2>1, <2>2, <2>3 DEF Ranked
<1>2. CASE walk_from_futex_wait
  <2>1. lines # <<>> /\ lines' # <<>> /\ lines'[1] = lines[1]
    BY <1>2, <1>t, WalkKeepsHeadline
  <2>2. UNCHANGED <<events, slowest, chains, done>>
    BY <1>2 DEF walk_from_futex_wait
  <2>3. Stalls' = Stalls
    BY <2>2 DEF Stalls
  <2> QED BY <2>1, <2>2, <2>3 DEF Ranked
<1>3. CASE CollectChain
  <2>1. /\ lines # <<>> /\ wait' = None /\ lines' = <<>> /\ chains' = Append(chains, lines)
        /\ UNCHANGED <<events, slowest, done>>
        /\ lines \in Seq(LineType)
    BY <1>3, <1>t DEF CollectChain, TypeOK
  <2>2. Stalls' = Stalls
    BY <2>1 DEF Stalls
  <2>3. /\ DOMAIN chains' = 1..(Len(chains) + 1) /\ Len(chains') = Len(chains) + 1
        /\ chains'[Len(chains) + 1] = lines
        /\ \A n \in 1..Len(chains) : chains'[n] = chains[n]
    BY <1>t, <2>1
  <2>4. \A n \in DOMAIN chains' :
          chains'[n][1].of \in Stalls /\ SlowestRank(events, chains'[n][1].of) = n
    <3> SUFFICES ASSUME NEW n \in DOMAIN chains'
                 PROVE  chains'[n][1].of \in Stalls /\ SlowestRank(events, chains'[n][1].of) = n
      OBVIOUS
    <3>1. CASE n = Len(chains) + 1
      BY <2>1, <2>3, <3>1 DEF Ranked
    <3>2. CASE n # Len(chains) + 1
      <4>1. n \in DOMAIN chains /\ chains'[n] = chains[n]
        BY <1>t, <2>3, <3>2
      <4> QED BY <4>1 DEF Ranked
    <3> QED BY <3>1, <3>2
  <2>5. Len(chains) < slowest /\ ~done
    BY <2>1 DEF Ranked
  <2> QED BY <1>t, <2>1, <2>2, <2>3, <2>4, <2>5 DEF Ranked
<1>4. CASE print_chains
  <2>1. UNCHANGED <<events, slowest, wait, lines, chains>> /\ lines = <<>> /\ wait = None
    BY <1>4 DEF print_chains
  <2>2. Len(chains) >= slowest \/ Len(chains) = Cardinality(Stalls)
    BY <1>4 DEF print_chains
  <2>3. Stalls' = Stalls
    BY <2>1 DEF Stalls
  <2> QED BY <2>1, <2>2, <2>3 DEF Ranked
<1>5. CASE (\E dev \in Devs : RemoveDevice(dev)) \/ UNCHANGED vars
  <2>1. UNCHANGED <<events, slowest, wait, lines, chains, done>>
    BY <1>5 DEF RemoveDevice, vars
  <2>2. Stalls' = Stalls
    BY <2>1 DEF Stalls
  <2> QED BY <2>1, <2>2 DEF Ranked
<1> QED BY <1>1, <1>2, <1>3, <1>4, <1>5 DEF Next, Exited

LEMMA RankedAlways == Spec => [](IInv /\ Ranked)
<1> QED BY Invariance, InitRanked, NextRanked, PTL DEF Spec

(* explain explains the --slowest longest stalls, or all there are,        *)
(* longest first and none twice (blocks.sort_by, truncate).                *)
THEOREM LongestFirst == Spec => []SlowestExplained
<1>1. IInv /\ Ranked => SlowestExplained
  <2> SUFFICES ASSUME IInv, Ranked, done PROVE SlowestExplained
    BY DEF SlowestExplained
  <2> DEFINE stall(n) == chains[n][1].of
             dur(i) == events[i].duration_ns
  <2>0. /\ events \in Seq(Event) /\ slowest \in Nat
        /\ Len(chains) \in Nat /\ DOMAIN chains = 1..Len(chains)
    BY ExplainAssumption DEF IInv, TypeOK
  <2>1. \A n \in DOMAIN chains :
          n \in Nat /\ stall(n) \in Stalls /\ SlowestRank(events, stall(n)) = n
    BY <2>0 DEF Ranked
  <2>2. \A i \in Stalls : dur(i) \in Nat /\ SlowestRank(events, i) \in Nat /\ SlowestRank(events, i) >= 1
    BY <2>0, StallsFinite, RankType
  <2>3. Len(chains) <= slowest /\ (Len(chains) = slowest \/ Len(chains) = Cardinality(Stalls))
    <3>1. Len(chains) <= slowest
      BY DEF Ranked
    <3>2. Len(chains) >= slowest \/ Len(chains) = Cardinality(Stalls)
      BY Zenon DEF Ranked
    <3>3. \A a, b \in Nat : a <= b /\ a >= b => a = b
      OBVIOUS
    <3>4. slowest \in Nat /\ Len(chains) \in Nat
      BY <2>0
    <3> QED BY <3>1, <3>2, <3>3, <3>4, Zenon
  <2>4. ASSUME NEW m \in DOMAIN chains, NEW n \in DOMAIN chains, m < n
        PROVE  stall(m) # stall(n) /\ dur(stall(m)) >= dur(stall(n))
    <3>1. stall(m) # stall(n)
      BY <2>1, <2>4
    <3>2. ~Before(stall(n), stall(m))
      BY <2>0, <2>1, <2>4, RankOrder
    <3>3. Before(stall(m), stall(n))
      BY <2>0, <2>1, <3>1, <3>2, RankTotal
    <3> QED BY <2>1, <2>2, <3>1, <3>3 DEF Before
  <2>5. ASSUME NEW i \in Stalls \ {stall(n) : n \in DOMAIN chains}, NEW n \in DOMAIN chains
        PROVE  dur(i) <= dur(stall(n))
    <3>1. i # stall(n) /\ i \in Stalls
      OBVIOUS
    <3>2. ASSUME Before(i, stall(n)) PROVE FALSE
      <4> DEFINE k == SlowestRank(events, i)
      <4>1. k < n /\ k \in Nat /\ k >= 1
        BY <2>0, <2>1, <2>2, <3>1, <3>2, RankOrder
      <4>2. k \in DOMAIN chains
        BY <2>0, <2>1, <4>1
      <4>3. stall(k) = i
        BY <2>0, <2>1, <3>1, <4>2, RankInjective
      <4> QED BY <4>2, <4>3
    <3>3. Before(stall(n), i)
      BY <2>0, <2>1, <3>1, <3>2, RankTotal
    <3> QED BY <2>1, <2>2, <3>1, <3>3 DEF Before
  <2> QED BY <2>3, <2>4, <2>5 DEF SlowestExplained
<1> QED BY <1>1, RankedAlways, PTL

(* Between two chains explain is never stuck: it has printed, it may print *)
(* now, or the stall of the next rank is there to be explained.            *)
THEOREM NeverStuck ==
  Spec => [](wait = None /\ lines = <<>> =>
               \/ done
               \/ Len(chains) >= slowest \/ Len(chains) = Cardinality(Stalls)
               \/ \E b \in Stalls : SlowestRank(events, b) = Len(chains) + 1)
<1>1. ASSUME IInv, Ranked, Len(chains) # Cardinality(Stalls)
      PROVE  \E b \in Stalls : SlowestRank(events, b) = Len(chains) + 1
  <2>0. /\ events \in Seq(Event)
        /\ Len(chains) \in Nat /\ DOMAIN chains = 1..Len(chains)
    BY <1>1 DEF IInv, TypeOK
  <2>1. Cardinality(Stalls) \in Nat
    BY <2>0, StallsFinite
  <2>2. Len(chains) <= Cardinality(Stalls)
    <3>1. CASE Len(chains) = 0
      BY <3>1, <2>1
    <3>2. CASE Len(chains) # 0
      <4>1. Len(chains) \in DOMAIN chains
        BY <3>2, <2>0
      <4>2. chains[Len(chains)][1].of \in Stalls
            /\ SlowestRank(events, chains[Len(chains)][1].of) = Len(chains)
        BY <1>1, <4>1 DEF Ranked
      <4> QED BY <2>0, <2>1, <4>2, RankType
    <3> QED BY <3>1, <3>2
  <2>3. Len(chains) + 1 \in 1..Cardinality(Stalls)
    BY <1>1, <2>0, <2>1, <2>2
  <2> QED BY <2>0, <2>3, RankSurjective
<1>2. IInv /\ Ranked => (wait = None /\ lines = <<>> =>
                          \/ done
                          \/ Len(chains) >= slowest \/ Len(chains) = Cardinality(Stalls)
                          \/ \E b \in Stalls : SlowestRank(events, b) = Len(chains) + 1)
  BY <1>1
<1> QED BY <1>2, RankedAlways, PTL
=============================================================================
