---------------------------- MODULE ProbesProofs ----------------------------
(***************************************************************************)
(* Theorems about Probes, for every set of threads, processes, CPUs,       *)
(* addresses and devices and every capacity of the maps and the buffer.    *)
(***************************************************************************)
EXTENDS Probes, TLAPS

-----------------------------------------------------------------------------
(* BPF maps.                                                               *)

(* The empty map the programs start with.                                  *)
LEMMA EmptyMap ==
  ASSUME NEW K, NEW V
  PROVE  IsMap(<<>>, K, V)
BY DEF IsMap

(* What Put, Insert and Remove do to the type of a map.                    *)
LEMMA PutMap ==
  ASSUME NEW K, NEW V, NEW map, IsMap(map, K, V), NEW k \in K, NEW v \in V
  PROVE  IsMap(Put(map, k, v), K, V)
BY DEF IsMap, Put

LEMMA InsertMap ==
  ASSUME NEW K, NEW V, NEW map, IsMap(map, K, V), NEW k \in K, NEW v \in V, NEW cap
  PROVE  IsMap(Insert(map, cap, k, v), K, V)
BY PutMap DEF Insert

LEMMA RemoveMap ==
  ASSUME NEW K, NEW V, NEW map, IsMap(map, K, V), NEW k
  PROVE  IsMap(Remove(map, k), K, V)
BY DEF IsMap, Remove, Restrict

LEMMA MapValue ==
  ASSUME NEW K, NEW V, NEW map, IsMap(map, K, V), NEW k \in DOMAIN map
  PROVE  map[k] \in V
BY DEF IsMap

-----------------------------------------------------------------------------
(* Events and the ring buffer.                                             *)

LEMMA SaturatingSubType ==
  ASSUME NEW a \in Nat, NEW b \in Nat
  PROVE  /\ SaturatingSub(a, b) \in Nat
         /\ b <= a => SaturatingSub(a, b) = a - b
BY DEF SaturatingSub

LEMMA NewEventType ==
  ASSUME NEW ts \in Nat, NEW dur \in Nat, NEW key \in Nat, NEW pid \in Nat, NEW tid \in Nat,
         NEW type \in EventType
  PROVE  NewEvent(ts, dur, key, pid, tid, type) \in Event
BY DEF NewEvent, Event

LEMMA EventTypes ==
  /\ EVENT_SCHED_BLOCK \in EventType /\ EVENT_FUTEX_WAIT \in EventType
  /\ EVENT_FUTEX_WAKE \in EventType /\ EVENT_BLOCK_IO \in EventType
  /\ EVENT_SCHED_BLOCK # EVENT_FUTEX_WAIT /\ EVENT_SCHED_BLOCK # EVENT_FUTEX_WAKE
  /\ EVENT_SCHED_BLOCK # EVENT_BLOCK_IO /\ EVENT_FUTEX_WAIT # EVENT_FUTEX_WAKE
  /\ EVENT_FUTEX_WAIT # EVENT_BLOCK_IO /\ EVENT_FUTEX_WAKE # EVENT_BLOCK_IO
BY DEF EventType, EVENT_SCHED_BLOCK, EVENT_FUTEX_WAIT, EVENT_FUTEX_WAKE, EVENT_BLOCK_IO

LEMMA EmitType ==
  ASSUME ring \in Seq(Event), NEW e \in Event, emit(e)
  PROVE  ring' \in Seq(Event)
BY DEF emit

LEMMA KeyType ==
  ASSUME NEW d \in Dev, NEW s \in Sector
  PROVE  pack_block_key(d, s) \in Key /\ pack_block_key(d, s) \in Nat
<1>1. d \in Nat /\ s \in Nat /\ SectorMod \in Nat /\ SectorMod > 0
  BY ProbesAssumption, SectorModAssumption DEF ProbesAssumption, SectorModAssumption
<1>2. s % SectorMod \in Nat /\ d * SectorMod \in Nat
  BY <1>1
<1> QED
  BY <1>2 DEF Key, pack_block_key

(* Constants that are numbers.                                             *)
LEMMA ConstantTypes ==
  /\ Tid \subseteq Nat \ {0} /\ Tgid \subseteq Nat \ {0} /\ Target \in Tgid
  /\ UAddr \subseteq Nat
  /\ InitTgid \in [Tid -> Tgid \cup {NoTgid}]
  /\ NoTgid = 0 /\ IdleTid = 0
BY ProbesAssumption DEF ProbesAssumption, NoTgid, IdleTid

-----------------------------------------------------------------------------
(* The eBPF programs keep the types of the maps and of the ring buffer.    *)

LEMMA SchedSwitchTypes ==
  ASSUME TypeOK, NEW prev, NEW tgid, NEW state, NEW next \in Tid \cup {IdleTid},
         Stashes(tgid, state) => prev \in Tid /\ (target # NoTgid => tgid \in Tgid),
         try_sched_switch(prev, tgid, state, next)
  PROVE  IsMap(BLOCK_START', Tid, BlockStart) /\ ring' \in Seq(Event)
<1> DEFINE stashed == IF Stashes(tgid, state)
                      THEN Insert(BLOCK_START, BlockStartCap, prev, [ts |-> clock, tgid |-> tgid])
                      ELSE BLOCK_START
           ev == NewEvent(clock, SaturatingSub(clock, stashed[next].ts), 0,
                          stashed[next].tgid, next, EVENT_SCHED_BLOCK)
<1>1. /\ clock \in Nat /\ ring \in Seq(Event) /\ IsMap(BLOCK_START, Tid, BlockStart)
  BY DEF TypeOK
<1>2. CASE target = NoTgid
  BY <1>1, <1>2 DEF try_sched_switch
<1>3. CASE target # NoTgid
  <2>1. IsMap(stashed, Tid, BlockStart)
    <3>1. CASE Stashes(tgid, state)
      <4>1. [ts |-> clock, tgid |-> tgid] \in BlockStart
        BY <1>1, <1>3, <3>1 DEF BlockStart
      <4> QED BY <1>1, <3>1, <4>1, InsertMap
    <3> QED BY <1>1, <3>1
  <2>2. CASE next \in DOMAIN stashed
    <3> HIDE DEF stashed
    <3>1. stashed[next] \in BlockStart
      BY <2>1, <2>2, MapValue
    <3>2. stashed[next].ts \in Nat /\ stashed[next].tgid \in Nat /\ next \in Nat
      <4>1. stashed[next].ts \in Nat /\ stashed[next].tgid \in Tgid
        BY <3>1 DEF BlockStart
      <4>2. Tgid \subseteq Nat
        BY ConstantTypes
      <4>3. next \in Nat
        BY ConstantTypes
      <4> QED BY <4>1, <4>2, <4>3
    <3>3. ev \in Event
      BY <1>1, <3>2, SaturatingSubType, NewEventType, EventTypes
    <3>4. BLOCK_START' = Remove(stashed, next) /\ emit(ev)
      BY <1>3, <2>2 DEF try_sched_switch, stashed
    <3> QED BY <1>1, <2>1, <3>3, <3>4, RemoveMap, EmitType
  <2>3. CASE next \notin DOMAIN stashed
    BY <1>1, <1>3, <2>1, <2>3 DEF try_sched_switch
  <2> QED BY <2>2, <2>3
<1> QED BY <1>2, <1>3

LEMMA FutexEnterTypes ==
  ASSUME TypeOK, NEW t \in Tid, NEW tgid \in Tgid \cup {NoTgid}, NEW uaddr \in UAddr, NEW op \in Nat,
         try_futex_enter(t, tgid, uaddr, op)
  PROVE  IsMap(FUTEX_START', Tid, FutexStart)
<1>1. clock \in Nat /\ IsMap(FUTEX_START, Tid, FutexStart)
  BY DEF TypeOK
<1>2. CASE Filtered(tgid)
  BY <1>1, <1>2 DEF try_futex_enter
<1>3. CASE ~Filtered(tgid)
  <2>1. [ts |-> clock, uaddr |-> uaddr, op |-> op, tgid |-> tgid] \in FutexStart
    BY <1>1, <1>3 DEF Filtered, FutexStart
  <2> QED BY <1>1, <1>3, <2>1, InsertMap DEF try_futex_enter
<1> QED BY <1>2, <1>3

LEMMA FutexExitTypes ==
  ASSUME TypeOK, NEW t \in Tid, try_futex_exit(t)
  PROVE  IsMap(FUTEX_START', Tid, FutexStart) /\ ring' \in Seq(Event)
<1> DEFINE start == FUTEX_START[t]
           ev == NewEvent(clock, SaturatingSub(clock, start.ts), start.uaddr,
                          start.tgid, t, FutexEventType(BaseOp(start.op)))
<1>1. clock \in Nat /\ ring \in Seq(Event) /\ IsMap(FUTEX_START, Tid, FutexStart)
  BY DEF TypeOK
<1>2. CASE t \notin DOMAIN FUTEX_START
  BY <1>1, <1>2 DEF try_futex_exit
<1>3. CASE t \in DOMAIN FUTEX_START
  <2>1. start \in FutexStart
    BY <1>1, <1>3, MapValue
  <2>2. start.ts \in Nat /\ start.uaddr \in Nat /\ start.tgid \in Nat /\ t \in Nat
    BY <2>1, ConstantTypes DEF FutexStart
  <2>3. FutexEventType(BaseOp(start.op)) \in EventType
    BY EventTypes DEF FutexEventType
  <2>4. ev \in Event
    BY <1>1, <2>2, <2>3, SaturatingSubType, NewEventType
  <2>5. /\ FUTEX_START' = Remove(FUTEX_START, t)
        /\ emit(ev) \/ ring' = ring
    BY <1>3 DEF try_futex_exit
  <2> QED BY <1>1, <2>4, <2>5, RemoveMap, EmitType
<1> QED BY <1>2, <1>3

LEMMA BlockRqIssueTypes ==
  ASSUME TypeOK, NEW t \in Tid, NEW tgid \in Tgid \cup {NoTgid}, NEW d \in Dev, NEW s \in Sector,
         try_block_rq_issue(t, tgid, d, s)
  PROVE  IsMap(BLOCKIO_START', Key, BlockIoStart)
<1>1. clock \in Nat /\ IsMap(BLOCKIO_START, Key, BlockIoStart)
  BY DEF TypeOK
<1>2. CASE Filtered(tgid)
  BY <1>1, <1>2 DEF try_block_rq_issue
<1>3. CASE ~Filtered(tgid)
  <2>1. [ts |-> clock, tgid |-> tgid, tid |-> t] \in BlockIoStart
    BY <1>1, <1>3 DEF Filtered, BlockIoStart
  <2> QED BY <1>1, <1>3, <2>1, KeyType, InsertMap DEF try_block_rq_issue
<1> QED BY <1>2, <1>3

LEMMA BlockRqCompleteTypes ==
  ASSUME TypeOK, NEW d \in Dev, NEW s \in Sector, try_block_rq_complete(d, s)
  PROVE  IsMap(BLOCKIO_START', Key, BlockIoStart) /\ ring' \in Seq(Event)
<1> DEFINE key == pack_block_key(d, s)
           start == BLOCKIO_START[key]
           ev == NewEvent(clock, SaturatingSub(clock, start.ts), key,
                          start.tgid, start.tid, EVENT_BLOCK_IO)
<1>1. clock \in Nat /\ ring \in Seq(Event) /\ IsMap(BLOCKIO_START, Key, BlockIoStart)
  BY DEF TypeOK
<1>2. CASE key \notin DOMAIN BLOCKIO_START
  BY <1>1, <1>2 DEF try_block_rq_complete
<1>3. CASE key \in DOMAIN BLOCKIO_START
  <2>1. start \in BlockIoStart
    BY <1>1, <1>3, MapValue
  <2>2. start.ts \in Nat /\ start.tgid \in Nat /\ start.tid \in Nat /\ key \in Nat
    BY <2>1, KeyType, ConstantTypes DEF BlockIoStart
  <2>3. ev \in Event
    BY <1>1, <2>2, SaturatingSubType, NewEventType, EventTypes
  <2>4. BLOCKIO_START' = Remove(BLOCKIO_START, key) /\ emit(ev)
    BY <1>3 DEF try_block_rq_complete
  <2> QED BY <1>1, <2>3, <2>4, RemoveMap, EmitType
<1> QED BY <1>2, <1>3

-----------------------------------------------------------------------------
(* The inductive invariant.                                                *)

(* Every start the kernel or a map remembers lies in the past.             *)
StampsPast ==
  /\ \A t \in DOMAIN off : off[t].ts <= clock
  /\ \A t \in DOMAIN call : call[t].ts <= clock
  /\ \A r \in reqs : r.ts <= clock

(* A thread runs on at most one CPU, and it, a thread in a system call and *)
(* a stalled thread exist; a stalled thread is on no CPU.                  *)
ThreadsOK ==
  /\ \A c, d \in Cpu : onCpu[c] = onCpu[d] /\ onCpu[c] # IdleTid => c = d
  /\ \A c \in Cpu : onCpu[c] # IdleTid => tgidOf[onCpu[c]] # NoTgid
  /\ \A t \in DOMAIN call : tgidOf[t] # NoTgid
  /\ \A t \in DOMAIN off : tgidOf[t] # NoTgid /\ \A c \in Cpu : onCpu[c] # t
  /\ \A t \in Tid : tgidOf[t] # NoTgid => born[t] >= 1

(* FUTEX_START holds exactly the owed system calls under way, as they are. *)
FutexInv ==
  /\ \A t \in DOMAIN FUTEX_START : t \in DOMAIN call /\ call[t].owed
  /\ \A t \in DOMAIN call : call[t].owed =>
       /\ t \in DOMAIN FUTEX_START
       /\ FUTEX_START[t] = [ts |-> call[t].ts, uaddr |-> call[t].uaddr,
                            op |-> call[t].cmd + call[t].flag, tgid |-> tgidOf[t]]

ReqKey(r) == pack_block_key(r.dev, r.sector)

(* A start in BLOCKIO_START is that of a request in flight.                *)
BlockIoKeysInv == \A k \in DOMAIN BLOCKIO_START : \E r \in reqs : ReqKey(r) = k

(* If no two requests in flight share a key, BLOCKIO_START holds exactly   *)
(* the owed ones.                                                          *)
BlockIoInv ==
  /\ \A q, r \in reqs : ReqKey(q) = ReqKey(r) => q = r
  /\ \A r \in reqs : r.owed <=> ReqKey(r) \in DOMAIN BLOCKIO_START
  /\ \A r \in reqs : r.owed =>
       BLOCKIO_START[ReqKey(r)] = [ts |-> r.ts, tgid |-> r.tgid, tid |-> r.tid]

(* BLOCK_START holds every owed stall under way ...                        *)
StallsKept ==
  \A t \in DOMAIN off : off[t].owed =>
    /\ t \in DOMAIN BLOCK_START
    /\ BLOCK_START[t] = [ts |-> off[t].ts, tgid |-> tgidOf[t]]

(* ... and, if no thread is preempted in kernel mode, nothing else but     *)
(* what exited threads left behind.                                        *)
OnlyStallsKept ==
  \A t \in DOMAIN BLOCK_START :
    \/ t \in DOMAIN off /\ off[t].owed
    \/ tgidOf[t] = NoTgid /\ born[t] >= 1

(* Nothing is remembered before a target is set.                           *)
NoTargetNoStalls == target = NoTgid => DOMAIN BLOCK_START = {}

IInv == /\ TypeOK /\ StampsPast /\ ThreadsOK
        /\ FutexInv /\ BlockIoKeysInv /\ StallsKept /\ NoTargetNoStalls

LEMMA OwedType ==
  ASSUME NEW tgid, NEW map, NEW cap, NEW k
  PROVE  Owed(tgid, map, cap, k) \in BOOLEAN
BY DEF Owed

LEMMA AccountType ==
  ASSUME owed \subseteq Event, NEW isOwed, NEW e \in Event, Account(isOwed, e)
  PROVE  owed' \subseteq Event
BY DEF Account

LEMMA InitType == Init => TypeOK
<1> SUFFICES ASSUME Init PROVE TypeOK
  OBVIOUS
<1>1. /\ IsMap(off, Tid, Stall) /\ IsMap(call, Tid, FutexCall)
      /\ IsMap(BLOCK_START, Tid, BlockStart) /\ IsMap(FUTEX_START, Tid, FutexStart)
      /\ IsMap(BLOCKIO_START, Key, BlockIoStart)
  BY EmptyMap DEF Init
<1>2. born \in [Tid -> Nat]
  BY DEF Init
<1> QED
  BY <1>1, <1>2, ConstantTypes DEF Init, TypeOK

LEMMA SchedSwitchType ==
  ASSUME TypeOK, StampsPast, NEW c \in Cpu, NEW why \in SwitchReason,
         NEW next \in Tid \cup {IdleTid}, SchedSwitch(c, why, next)
  PROVE  TypeOK'
<1> DEFINE prev == onCpu[c]
           isOwed == Owed(tgidOf[prev], BLOCK_START, BlockStartCap, prev)
           left == IF why = "block" THEN Put(off, prev, [ts |-> clock, owed |-> isOwed]) ELSE off
           span == NewEvent(clock, clock - left[next].ts, 0, tgidOf[next], next, EVENT_SCHED_BLOCK)
<1>1. prev \in Tid \cup {IdleTid} /\ clock \in Nat /\ clock' \in Nat
  BY DEF SchedSwitch, TypeOK, Stamp
<1>2. prev = IdleTid => why = "yield"
  BY DEF SchedSwitch
<1>3. tgidOf' \in [Tid -> Tgid \cup {NoTgid}]
  BY DEF SchedSwitch, TypeOK
<1>4. onCpu' \in [Cpu -> Tid \cup {IdleTid}]
  BY DEF SchedSwitch, TypeOK
<1>5. blocked' \subseteq Tid
  BY <1>1, <1>2 DEF SchedSwitch, TypeOK
<1>6. /\ IsMap(left, Tid, Stall)
      /\ \A t \in DOMAIN left : left[t].ts <= clock
  <2>1. CASE why = "block"
    <3>1. [ts |-> clock, owed |-> isOwed] \in Stall /\ prev \in Tid
      BY <1>1, <1>2, <2>1, OwedType DEF Stall
    <3>2. IsMap(Put(off, prev, [ts |-> clock, owed |-> isOwed]), Tid, Stall)
      BY <3>1, PutMap DEF TypeOK
    <3> DEFINE new == [ts |-> clock, owed |-> isOwed]
    <3>3. left = Put(off, prev, new)
      BY <2>1
    <3>4. \A t \in DOMAIN left : left[t] = new \/ (t \in DOMAIN off /\ left[t] = off[t])
      <4> HIDE DEF new, left
      <4> QED BY <3>3 DEF Put
    <3>5. new.ts = clock
      OBVIOUS
    <3> QED BY <1>1, <3>2, <3>3, <3>4, <3>5 DEF StampsPast
  <2>2. CASE why # "block"
    BY <2>2 DEF StampsPast, TypeOK
  <2> QED BY <2>1, <2>2
<1>7. IsMap(off', Tid, Stall)
  <2>1. off' = Remove(left, next)
    BY DEF SchedSwitch
  <2> HIDE DEF left
  <2> QED BY <1>6, <2>1, RemoveMap
<1>8. owed' \subseteq Event
  <2>1. CASE next \in DOMAIN left
    <3>1. Account(left[next].owed, span)
      BY <2>1 DEF SchedSwitch
    <3> HIDE DEF left
    <3>2. left[next] \in Stall /\ left[next].ts <= clock /\ next \in Tid
      BY <1>6, <2>1, MapValue DEF IsMap
    <3>3. clock - left[next].ts \in Nat
      BY <1>1, <3>2 DEF Stall
    <3>4. tgidOf[next] \in Tgid \cup {NoTgid}
      BY <3>2 DEF TypeOK
    <3>5. tgidOf[next] \in Nat /\ next \in Nat
      <4>1. Tgid \cup {NoTgid} \subseteq Nat /\ Tid \subseteq Nat
        BY ConstantTypes
      <4> QED BY <3>2, <3>4, <4>1
    <3>6. span \in Event
      BY <1>1, <3>3, <3>5, NewEventType, EventTypes
    <3> QED BY <3>1, <3>6, AccountType DEF TypeOK
  <2>2. CASE next \notin DOMAIN left
    BY <2>2 DEF SchedSwitch, TypeOK
  <2> QED BY <2>1, <2>2
<1>9. IsMap(BLOCK_START', Tid, BlockStart) /\ ring' \in Seq(Event)
  <2>1. try_sched_switch(prev, TgidOf(prev), ReportedState(why), next)
    BY DEF SchedSwitch
  <2>2. Stashes(TgidOf(prev), ReportedState(why)) => prev # IdleTid
    BY <1>2 DEF Stashes, ReportedState
  <2>3. prev # IdleTid => prev \in Tid
    BY <1>1
  <2>4. Stashes(TgidOf(prev), ReportedState(why)) /\ target # NoTgid => TgidOf(prev) \in Tgid
    BY ConstantTypes DEF Stashes, TypeOK
  <2> HIDE DEF prev
  <2> QED BY <2>1, <2>2, <2>3, <2>4, SchedSwitchTypes
<1> HIDE DEF left, span, prev
<1> QED
  BY <1>1, <1>3, <1>4, <1>5, <1>7, <1>8, <1>9 DEF SchedSwitch, TypeOK

LEMMA FlagTypes ==
  /\ FutexCmd \subseteq 0..127
  /\ FutexFlag \subseteq {0, 128, 256, 384}
BY ProbesAssumption DEF ProbesAssumption, FUTEX_PRIVATE_FLAG, FUTEX_CLOCK_REALTIME

LEMMA FutexEnterType ==
  ASSUME TypeOK, NEW c \in Cpu, NEW cmd \in FutexCmd, NEW flag \in FutexFlag, NEW uaddr \in UAddr,
         FutexEnter(c, cmd, flag, uaddr)
  PROVE  TypeOK'
<1> DEFINE t == onCpu[c]
           new == [cmd |-> cmd, flag |-> flag, uaddr |-> uaddr, ts |-> clock,
                   owed |-> Owed(tgidOf[t], FUTEX_START, FutexStartCap, t)]
<1>1. t \in Tid /\ clock \in Nat /\ clock' \in Nat
  BY DEF FutexEnter, Stamp, TypeOK
<1>2. IsMap(call', Tid, FutexCall)
  <2>1. new \in FutexCall
    BY <1>1, OwedType DEF FutexCall
  <2>2. call' = Put(call, t, new) /\ IsMap(call, Tid, FutexCall)
    BY DEF FutexEnter, TypeOK
  <2> HIDE DEF new, t
  <2> QED BY <1>1, <2>1, <2>2, PutMap
<1>3. IsMap(FUTEX_START', Tid, FutexStart)
  <2>1. cmd + flag \in Nat
    BY FlagTypes
  <2>2. try_futex_enter(t, tgidOf[t], uaddr, cmd + flag)
    BY DEF FutexEnter
  <2>3. tgidOf[t] \in Tgid \cup {NoTgid}
    BY <1>1 DEF TypeOK
  <2> QED BY <1>1, <2>1, <2>2, <2>3, FutexEnterTypes
<1> QED
  BY <1>1, <1>2, <1>3 DEF FutexEnter, TypeOK

LEMMA FutexExitType ==
  ASSUME TypeOK, StampsPast, NEW c \in Cpu, FutexExit(c)
  PROVE  TypeOK'
<1> DEFINE t == onCpu[c]
           span(type) == NewEvent(clock, clock - call[t].ts, call[t].uaddr, tgidOf[t], t, type)
<1>1. t \in DOMAIN call /\ IsMap(call, Tid, FutexCall)
  BY DEF FutexExit, TypeOK
<1>2. t \in Tid /\ clock \in Nat /\ clock' \in Nat /\ call[t] \in FutexCall /\ call[t].ts <= clock
  BY <1>1, MapValue DEF FutexExit, Stamp, TypeOK, IsMap, StampsPast
<1>3. IsMap(call', Tid, FutexCall)
  BY <1>1, RemoveMap DEF FutexExit
<1>4. owed' \subseteq Event
  <2>1. clock - call[t].ts \in Nat /\ call[t].uaddr \in UAddr
    BY <1>2 DEF FutexCall
  <2>2. tgidOf[t] \in Tgid \cup {NoTgid}
    BY <1>2 DEF TypeOK
  <2>3. UAddr \subseteq Nat /\ Tgid \cup {NoTgid} \subseteq Nat /\ Tid \subseteq Nat
    BY ConstantTypes
  <2>4. span(EVENT_FUTEX_WAIT) \in Event /\ span(EVENT_FUTEX_WAKE) \in Event
    BY <1>2, <2>1, <2>2, <2>3, NewEventType, EventTypes
  <2>5. \/ Account(call[t].owed, span(EVENT_FUTEX_WAIT))
        \/ Account(call[t].owed, span(EVENT_FUTEX_WAKE))
        \/ UNCHANGED owed
    BY DEF FutexExit
  <2> HIDE DEF span
  <2> QED BY <2>4, <2>5, AccountType DEF TypeOK
<1>5. IsMap(FUTEX_START', Tid, FutexStart) /\ ring' \in Seq(Event)
  BY <1>2, FutexExitTypes DEF FutexExit
<1> QED
  BY <1>2, <1>3, <1>4, <1>5 DEF FutexExit, TypeOK

LEMMA BlockRqIssueType ==
  ASSUME TypeOK, ThreadsOK, NEW c \in Cpu, NEW d \in Dev, NEW s \in Sector, BlockRqIssue(c, d, s)
  PROVE  TypeOK'
<1> DEFINE t == onCpu[c]
           req == [dev |-> d, sector |-> s, tid |-> t, tgid |-> tgidOf[t], ts |-> clock,
                   owed |-> Owed(tgidOf[t], BLOCKIO_START, BlockIoStartCap, pack_block_key(d, s))]
<1>1. t \in Tid /\ clock \in Nat /\ clock' \in Nat
  BY DEF BlockRqIssue, Stamp, TypeOK
<1>2. tgidOf[t] \in Tgid
  BY <1>1 DEF ThreadsOK, BlockRqIssue, TypeOK
<1>3. req \in Request
  BY <1>1, <1>2, OwedType DEF Request
<1>4. reqs' \subseteq Request
  BY <1>3 DEF BlockRqIssue, TypeOK
<1>5. IsMap(BLOCKIO_START', Key, BlockIoStart)
  BY <1>1, <1>2, BlockRqIssueTypes DEF BlockRqIssue
<1> QED
  BY <1>1, <1>4, <1>5 DEF BlockRqIssue, TypeOK

LEMMA BlockRqCompleteType ==
  ASSUME TypeOK, StampsPast, NEW r \in reqs, BlockRqComplete(r)
  PROVE  TypeOK'
<1> DEFINE span == NewEvent(clock, clock - r.ts, pack_block_key(r.dev, r.sector),
                            r.tgid, r.tid, EVENT_BLOCK_IO)
<1>1. /\ r.dev \in Dev /\ r.sector \in Sector /\ r.tid \in Tid /\ r.tgid \in Tgid /\ r.ts \in Nat
      /\ r.ts <= clock /\ clock \in Nat /\ clock' \in Nat
  BY DEF TypeOK, Request, StampsPast, BlockRqComplete, Stamp
<1>2. owed' \subseteq Event
  <2>1. Tgid \subseteq Nat /\ Tid \subseteq Nat
    BY ConstantTypes
  <2>2. clock - r.ts \in Nat
    BY <1>1
  <2>3. span \in Event
    BY <1>1, <2>1, <2>2, KeyType, NewEventType, EventTypes
  <2> QED BY <2>3, AccountType DEF BlockRqComplete, TypeOK
<1>3. IsMap(BLOCKIO_START', Key, BlockIoStart) /\ ring' \in Seq(Event)
  BY <1>1, BlockRqCompleteTypes DEF BlockRqComplete
<1> QED
  BY <1>1, <1>2, <1>3 DEF BlockRqComplete, TypeOK

LEMMA NextType ==
  ASSUME TypeOK, StampsPast, ThreadsOK, [Next]_vars
  PROVE  TypeOK'
<1>1. CASE \E c \in Cpu, why \in SwitchReason, next \in Tid \cup {IdleTid} : SchedSwitch(c, why, next)
  BY <1>1, SchedSwitchType
<1>2. CASE \E t \in Tid : Wakeup(t)
  BY <1>2 DEF Wakeup, mapVars, TypeOK
<1>3. CASE \E t \in Tid, g \in Tgid : Spawn(t, g)
  BY <1>3 DEF Spawn, mapVars, TypeOK
<1>4. CASE \E c \in Cpu, cmd \in FutexCmd, flag \in FutexFlag, uaddr \in UAddr :
             FutexEnter(c, cmd, flag, uaddr)
  BY <1>4, FutexEnterType
<1>5. CASE \E c \in Cpu : FutexExit(c)
  BY <1>5, FutexExitType
<1>6. CASE \E c \in Cpu, dev \in Dev, sector \in Sector : BlockRqIssue(c, dev, sector)
  BY <1>6, BlockRqIssueType
<1>7. CASE \E r \in reqs : BlockRqComplete(r)
  BY <1>7, BlockRqCompleteType
<1>8. CASE set_target_tgid
  BY <1>8 DEF set_target_tgid, kernelVars, mapVars, TypeOK
<1>9. CASE drain_ring_buffer
  BY <1>9 DEF drain_ring_buffer, kernelVars, mapVars, TypeOK
<1>10. CASE Quiet \/ UNCHANGED vars
  BY <1>10 DEF Quiet, vars, kernelVars, mapVars, TypeOK
<1> QED
  BY <1>1, <1>2, <1>3, <1>4, <1>5, <1>6, <1>7, <1>8, <1>9, <1>10 DEF Next

LEMMA StampTypes ==
  ASSUME TypeOK
  PROVE  /\ \A t \in DOMAIN off : off[t].ts \in Nat
         /\ \A t \in DOMAIN call : call[t].ts \in Nat
         /\ \A r \in reqs : r.ts \in Nat
<1>1. \A t \in DOMAIN off : off[t] \in Stall
  BY DEF TypeOK, IsMap
<1>2. \A t \in DOMAIN call : call[t] \in FutexCall
  BY DEF TypeOK, IsMap
<1>3. \A r \in reqs : r \in Request
  BY DEF TypeOK
<1> QED
  BY <1>1, <1>2, <1>3 DEF Stall, FutexCall, Request

(* No step puts a start in the future.                                     *)
LEMMA NextStampsPast ==
  ASSUME TypeOK, StampsPast, [Next]_vars
  PROVE  StampsPast'
<1>0. clock \in Nat
  BY DEF TypeOK
<1>1. ASSUME NEW c \in Cpu, NEW why \in SwitchReason, NEW next \in Tid \cup {IdleTid},
             SchedSwitch(c, why, next)
      PROVE  StampsPast'
  <2> DEFINE new == [ts |-> clock, owed |-> Owed(tgidOf[onCpu[c]], BLOCK_START, BlockStartCap, onCpu[c])]
             left == IF why = "block" THEN Put(off, onCpu[c], new) ELSE off
  <2>1. clock' = clock + 1 /\ off' = Remove(left, next) /\ UNCHANGED <<call, reqs>>
    BY <1>1 DEF SchedSwitch, Stamp
  <2>2. new.ts = clock
    OBVIOUS
  <2>3. \A t \in DOMAIN left : left[t] = new \/ (t \in DOMAIN off /\ left[t] = off[t])
    <3> HIDE DEF new
    <3> QED BY DEF Put
  <2>4. \A t \in DOMAIN off' : off'[t] = new \/ (t \in DOMAIN off /\ off'[t] = off[t])
    <3> HIDE DEF new, left
    <3> QED BY <2>1, <2>3 DEF Remove, Restrict
  <2> HIDE DEF new, left
  <2> QED BY <1>0, <2>1, <2>2, <2>4, StampTypes DEF StampsPast
<1>2. CASE \E t \in Tid : Wakeup(t)
  BY <1>2 DEF Wakeup, StampsPast
<1>3. CASE \E t \in Tid, g \in Tgid : Spawn(t, g)
  BY <1>3 DEF Spawn, StampsPast
<1> DEFINE OthersPast == /\ \A t \in DOMAIN off : off[t].ts <= clock + 1
                         /\ \A t \in DOMAIN call : call[t].ts <= clock + 1
                         /\ \A r \in reqs : r.ts <= clock + 1
<1>p. OthersPast
  BY <1>0, StampTypes DEF StampsPast
<1>4. ASSUME NEW c \in Cpu, NEW cmd \in FutexCmd, NEW flag \in FutexFlag, NEW uaddr \in UAddr,
             FutexEnter(c, cmd, flag, uaddr)
      PROVE  StampsPast'
  <2> DEFINE new == [cmd |-> cmd, flag |-> flag, uaddr |-> uaddr, ts |-> clock,
                     owed |-> Owed(tgidOf[onCpu[c]], FUTEX_START, FutexStartCap, onCpu[c])]
  <2>1. clock' = clock + 1 /\ call' = Put(call, onCpu[c], new) /\ UNCHANGED <<off, reqs>>
    BY <1>4 DEF FutexEnter, Stamp
  <2>2. new.ts = clock
    OBVIOUS
  <2>3. \A t \in DOMAIN call' : call'[t] = new \/ (t \in DOMAIN call /\ call'[t] = call[t])
    <3> HIDE DEF new
    <3> QED BY <2>1 DEF Put
  <2> HIDE DEF new
  <2> QED BY <1>0, <1>p, <2>1, <2>2, <2>3 DEF StampsPast
<1>5. ASSUME NEW c \in Cpu, FutexExit(c)
      PROVE  StampsPast'
  <2>1. clock' = clock + 1 /\ call' = Remove(call, onCpu[c]) /\ UNCHANGED <<off, reqs>>
    BY <1>5 DEF FutexExit, Stamp
  <2> QED BY <1>p, <2>1 DEF StampsPast, Remove, Restrict
<1>6. ASSUME NEW c \in Cpu, NEW d \in Dev, NEW s \in Sector, BlockRqIssue(c, d, s)
      PROVE  StampsPast'
  <2>1. clock' = clock + 1 /\ UNCHANGED <<off, call>>
    BY <1>6 DEF BlockRqIssue, Stamp
  <2>2. \A r \in reqs' : r \in reqs \/ r.ts = clock
    BY <1>6 DEF BlockRqIssue
  <2> QED BY <1>0, <1>p, <2>1, <2>2 DEF StampsPast
<1>7. CASE \E r \in reqs : BlockRqComplete(r)
  BY <1>p, <1>7 DEF BlockRqComplete, Stamp, StampsPast
<1>8. CASE set_target_tgid
  BY <1>8 DEF set_target_tgid, kernelVars, StampsPast
<1>9. CASE drain_ring_buffer
  BY <1>9 DEF drain_ring_buffer, kernelVars, StampsPast
<1>10. CASE Quiet \/ UNCHANGED vars
  BY <1>10 DEF Quiet, vars, kernelVars, StampsPast
<1> QED
  BY <1>1, <1>2, <1>3, <1>4, <1>5, <1>6, <1>7, <1>8, <1>9, <1>10 DEF Next

(* No step runs a thread twice, or runs, stalls or keeps in a system call  *)
(* one that has exited.                                                    *)
LEMMA NextThreadsOK ==
  ASSUME TypeOK, ThreadsOK, [Next]_vars
  PROVE  ThreadsOK'
<1>0. /\ onCpu \in [Cpu -> Tid \cup {IdleTid}] /\ tgidOf \in [Tid -> Tgid \cup {NoTgid}]
      /\ born \in [Tid -> Nat] /\ DOMAIN off \subseteq Tid /\ DOMAIN call \subseteq Tid
      /\ NoTgid \notin Tgid /\ IdleTid \notin Tid
  BY ConstantTypes DEF TypeOK, IsMap
<1>1. ASSUME NEW c \in Cpu, NEW why \in SwitchReason, NEW next \in Tid \cup {IdleTid},
             SchedSwitch(c, why, next)
      PROVE  ThreadsOK'
  <2> DEFINE prev == onCpu[c]
  <2>1. /\ onCpu' = [onCpu EXCEPT ![c] = next]
        /\ next # IdleTid => tgidOf[next] # NoTgid /\ \A d \in Cpu : onCpu[d] # next
        /\ next # prev
        /\ UNCHANGED <<born, call>>
    BY <1>1, <1>0 DEF SchedSwitch, Runnable
  <2>2. \A t \in Tid : tgidOf'[t] # NoTgid => tgidOf[t] # NoTgid
    BY <1>1, <1>0 DEF SchedSwitch
  <2>3. \A t \in Tid : tgidOf'[t] = tgidOf[t] \/ (why = "exit" /\ t = prev /\ t \notin DOMAIN call)
    BY <1>1, <1>0 DEF SchedSwitch
  <2>4. DOMAIN off' \subseteq (DOMAIN off \cup (IF why = "block" THEN {prev} ELSE {})) \ {next}
    BY <1>1 DEF SchedSwitch, Put, Remove, Restrict
  <2>5. why = "block" => prev # IdleTid
    BY <1>1 DEF SchedSwitch
  <2>6. \A a, b \in Cpu : onCpu'[a] = onCpu'[b] /\ onCpu'[a] # IdleTid => a = b
    BY <1>0, <2>1 DEF ThreadsOK
  <2>7. \A a \in Cpu : onCpu'[a] # IdleTid => tgidOf'[onCpu'[a]] # NoTgid
    <3> SUFFICES ASSUME NEW a \in Cpu, onCpu'[a] # IdleTid PROVE tgidOf'[onCpu'[a]] # NoTgid
      OBVIOUS
    <3>1. onCpu'[a] \in Tid /\ onCpu'[a] # prev
      BY <1>0, <2>1 DEF ThreadsOK
    <3>2. tgidOf[onCpu'[a]] # NoTgid
      BY <1>0, <2>1 DEF ThreadsOK
    <3> QED BY <2>3, <3>1, <3>2
  <2>8. \A t \in DOMAIN call' : tgidOf'[t] # NoTgid
    BY <1>0, <2>1, <2>3 DEF ThreadsOK
  <2>9. \A t \in DOMAIN off' : tgidOf'[t] # NoTgid /\ \A a \in Cpu : onCpu'[a] # t
    <3> SUFFICES ASSUME NEW t \in DOMAIN off'
                 PROVE  tgidOf'[t] # NoTgid /\ \A a \in Cpu : onCpu'[a] # t
      OBVIOUS
    <3>1. CASE t \in DOMAIN off
      BY <1>0, <2>1, <2>3, <2>4, <3>1 DEF ThreadsOK
    <3>2. CASE t \notin DOMAIN off
      <4>1. why = "block" /\ t = prev /\ t # next /\ t # IdleTid
        BY <2>4, <2>5, <3>2
      <4>2. t \in Tid /\ tgidOf'[t] # NoTgid
        BY <1>0, <2>3, <4>1 DEF ThreadsOK
      <4> QED BY <1>0, <2>1, <4>1, <4>2 DEF ThreadsOK
    <3> QED BY <3>1, <3>2
  <2>10. \A t \in Tid : tgidOf'[t] # NoTgid => born'[t] >= 1
    BY <2>1, <2>2 DEF ThreadsOK
  <2> QED BY <2>6, <2>7, <2>8, <2>9, <2>10 DEF ThreadsOK
<1>2. CASE \E t \in Tid : Wakeup(t)
  BY <1>2 DEF Wakeup, ThreadsOK
<1>3. ASSUME NEW t \in Tid, NEW g \in Tgid, Spawn(t, g)
      PROVE  ThreadsOK'
  <2>1. /\ tgidOf' = [tgidOf EXCEPT ![t] = g] /\ born' = [born EXCEPT ![t] = @ + 1]
        /\ UNCHANGED <<onCpu, off, call>>
    BY <1>3 DEF Spawn
  <2>2. \A u \in Tid : tgidOf[u] # NoTgid => tgidOf'[u] # NoTgid
    BY <1>0, <2>1
  <2>3. \A u \in Tid : tgidOf'[u] # NoTgid => born'[u] >= 1
    BY <1>0, <2>1 DEF ThreadsOK
  <2> QED BY <1>0, <2>1, <2>2, <2>3 DEF ThreadsOK
<1>4. ASSUME NEW c \in Cpu, NEW cmd \in FutexCmd, NEW flag \in FutexFlag, NEW uaddr \in UAddr,
             FutexEnter(c, cmd, flag, uaddr)
      PROVE  ThreadsOK'
  <2>1. DOMAIN call' = DOMAIN call \cup {onCpu[c]} /\ onCpu[c] # IdleTid
    <3> DEFINE span == [cmd |-> cmd, flag |-> flag, uaddr |-> uaddr, ts |-> clock,
                        owed |-> Owed(tgidOf[onCpu[c]], FUTEX_START, FutexStartCap, onCpu[c])]
    <3>1. call' = Put(call, onCpu[c], span) /\ onCpu[c] # IdleTid
      BY <1>4 DEF FutexEnter
    <3> HIDE DEF span
    <3> QED BY <3>1 DEF Put
  <2>2. UNCHANGED <<tgidOf, onCpu, born, off>>
    BY <1>4 DEF FutexEnter
  <2> QED BY <2>1, <2>2 DEF ThreadsOK
<1>5. ASSUME NEW c \in Cpu, FutexExit(c)
      PROVE  ThreadsOK'
  <2>1. DOMAIN call' \subseteq DOMAIN call /\ UNCHANGED <<tgidOf, onCpu, born, off>>
    BY <1>5 DEF FutexExit, Remove, Restrict
  <2> QED BY <2>1 DEF ThreadsOK
<1>6. CASE \E c \in Cpu, dev \in Dev, sector \in Sector : BlockRqIssue(c, dev, sector)
  BY <1>6 DEF BlockRqIssue, ThreadsOK
<1>7. CASE \E r \in reqs : BlockRqComplete(r)
  BY <1>7 DEF BlockRqComplete, ThreadsOK
<1>8. CASE set_target_tgid
  BY <1>8 DEF set_target_tgid, kernelVars, ThreadsOK
<1>9. CASE drain_ring_buffer
  BY <1>9 DEF drain_ring_buffer, kernelVars, ThreadsOK
<1>10. CASE Quiet \/ UNCHANGED vars
  BY <1>10 DEF Quiet, vars, kernelVars, ThreadsOK
<1> QED
  BY <1>1, <1>2, <1>3, <1>4, <1>5, <1>6, <1>7, <1>8, <1>9, <1>10 DEF Next

-----------------------------------------------------------------------------
(* What the programs do to their maps.                                     *)

LEMMA SchedSwitchEffect ==
  ASSUME NEW prev, NEW tgid, NEW state, NEW next, next # prev,
         try_sched_switch(prev, tgid, state, next)
  PROVE  LET kept == target # NoTgid /\ Stashes(tgid, state) /\ HasRoom(BLOCK_START, BlockStartCap, prev)
             new  == [ts |-> clock, tgid |-> tgid]
             ends == target # NoTgid /\ next \in DOMAIN BLOCK_START
         IN  /\ DOMAIN BLOCK_START' = (DOMAIN BLOCK_START \cup (IF kept THEN {prev} ELSE {}))
                                         \ (IF ends THEN {next} ELSE {})
             /\ kept => BLOCK_START'[prev] = new
             /\ \A x \in DOMAIN BLOCK_START' : ~(kept /\ x = prev) => BLOCK_START'[x] = BLOCK_START[x]
             /\ ends => emit(NewEvent(clock, SaturatingSub(clock, BLOCK_START[next].ts), 0,
                                      BLOCK_START[next].tgid, next, EVENT_SCHED_BLOCK))
             /\ ~ends => ring' = ring
<1> DEFINE new == [ts |-> clock, tgid |-> tgid]
           kept == target # NoTgid /\ Stashes(tgid, state) /\ HasRoom(BLOCK_START, BlockStartCap, prev)
           ends == target # NoTgid /\ next \in DOMAIN BLOCK_START
           stashed == IF Stashes(tgid, state)
                      THEN Insert(BLOCK_START, BlockStartCap, prev, new) ELSE BLOCK_START
<1>1. CASE target = NoTgid
  BY <1>1 DEF try_sched_switch
<1>2. CASE target # NoTgid
  <2>1. /\ DOMAIN stashed = DOMAIN BLOCK_START \cup (IF kept THEN {prev} ELSE {})
        /\ kept => stashed[prev] = new
        /\ \A x \in DOMAIN stashed : ~(kept /\ x = prev) => stashed[x] = BLOCK_START[x]
    <3> HIDE DEF new
    <3> QED BY <1>2 DEF Insert, Put
  <2>2. next \in DOMAIN stashed <=> next \in DOMAIN BLOCK_START
    BY <2>1
  <2>3. CASE next \in DOMAIN stashed
    <3>1. /\ BLOCK_START' = Remove(stashed, next)
          /\ emit(NewEvent(clock, SaturatingSub(clock, stashed[next].ts), 0,
                           stashed[next].tgid, next, EVENT_SCHED_BLOCK))
      BY <1>2, <2>3 DEF try_sched_switch
    <3>2. stashed[next] = BLOCK_START[next]
      BY <2>1, <2>3
    <3>3. DOMAIN BLOCK_START' = DOMAIN stashed \ {next}
          /\ \A x \in DOMAIN BLOCK_START' : BLOCK_START'[x] = stashed[x]
      <4> HIDE DEF stashed
      <4> QED BY <3>1 DEF Remove, Restrict
    <3> HIDE DEF stashed
    <3> QED BY <1>2, <2>1, <2>2, <2>3, <3>1, <3>2, <3>3
  <2>4. CASE next \notin DOMAIN stashed
    <3>1. BLOCK_START' = stashed /\ ring' = ring
      BY <1>2, <2>4 DEF try_sched_switch
    <3> HIDE DEF stashed
    <3> QED BY <1>2, <2>1, <2>2, <2>4, <3>1
  <2> QED BY <2>3, <2>4
<1> QED BY <1>1, <1>2

LEMMA FutexEnterEffect ==
  ASSUME NEW t, NEW tgid, NEW uaddr, NEW op, try_futex_enter(t, tgid, uaddr, op)
  PROVE  IF Owed(tgid, FUTEX_START, FutexStartCap, t)
         THEN FUTEX_START' = Put(FUTEX_START, t, [ts |-> clock, uaddr |-> uaddr, op |-> op, tgid |-> tgid])
         ELSE FUTEX_START' = FUTEX_START
BY DEF try_futex_enter, Filtered, Owed, Insert

LEMMA BlockRqIssueEffect ==
  ASSUME NEW t, NEW tgid, NEW d, NEW s, try_block_rq_issue(t, tgid, d, s)
  PROVE  IF Owed(tgid, BLOCKIO_START, BlockIoStartCap, pack_block_key(d, s))
         THEN BLOCKIO_START' = Put(BLOCKIO_START, pack_block_key(d, s),
                                   [ts |-> clock, tgid |-> tgid, tid |-> t])
         ELSE BLOCKIO_START' = BLOCKIO_START
BY DEF try_block_rq_issue, Filtered, Owed, Insert

-----------------------------------------------------------------------------
(* The maps keep agreeing with the kernel.                                 *)

LEMMA NextFutexInv ==
  ASSUME TypeOK, ThreadsOK, FutexInv, [Next]_vars
  PROVE  FutexInv'
<1>0. /\ tgidOf \in [Tid -> Tgid \cup {NoTgid}] /\ DOMAIN call \subseteq Tid
      /\ onCpu \in [Cpu -> Tid \cup {IdleTid}]
  BY DEF TypeOK, IsMap
<1>a. ASSUME UNCHANGED <<call, FUTEX_START>>, \A t \in DOMAIN call : tgidOf'[t] = tgidOf[t]
      PROVE  FutexInv'
  BY <1>a DEF FutexInv
<1>1. ASSUME NEW c \in Cpu, NEW why \in SwitchReason, NEW next \in Tid \cup {IdleTid},
             SchedSwitch(c, why, next)
      PROVE  FutexInv'
  <2>1. UNCHANGED <<call, FUTEX_START>>
    BY <1>1 DEF SchedSwitch
  <2>2. \A t \in DOMAIN call : tgidOf'[t] = tgidOf[t]
    BY <1>0, <1>1 DEF SchedSwitch
  <2> QED BY <1>a, <2>1, <2>2
<1>2. CASE \E t \in Tid : Wakeup(t)
  BY <1>a, <1>2 DEF Wakeup, mapVars
<1>3. CASE \E t \in Tid, g \in Tgid : Spawn(t, g)
  <2>1. UNCHANGED <<call, FUTEX_START>>
    BY <1>3 DEF Spawn, mapVars
  <2>2. \A t \in DOMAIN call : tgidOf'[t] = tgidOf[t]
    BY <1>0, <1>3 DEF Spawn, ThreadsOK
  <2> QED BY <1>a, <2>1, <2>2
<1>4. ASSUME NEW c \in Cpu, NEW cmd \in FutexCmd, NEW flag \in FutexFlag, NEW uaddr \in UAddr,
             FutexEnter(c, cmd, flag, uaddr)
      PROVE  FutexInv'
  <2> DEFINE t == onCpu[c]
             isOwed == Owed(tgidOf[t], FUTEX_START, FutexStartCap, t)
             newCall == [cmd |-> cmd, flag |-> flag, uaddr |-> uaddr, ts |-> clock, owed |-> isOwed]
             newStart == [ts |-> clock, uaddr |-> uaddr, op |-> cmd + flag, tgid |-> tgidOf[t]]
  <2>1. call' = Put(call, t, newCall) /\ t \notin DOMAIN call /\ UNCHANGED tgidOf
    BY <1>4 DEF FutexEnter
  <2>2. IF isOwed THEN FUTEX_START' = Put(FUTEX_START, t, newStart) ELSE UNCHANGED FUTEX_START
    <3>1. try_futex_enter(t, tgidOf[t], uaddr, cmd + flag)
      BY <1>4 DEF FutexEnter
    <3> QED BY <3>1, FutexEnterEffect
  <2>3. t \notin DOMAIN FUTEX_START
    BY <2>1 DEF FutexInv
  <2>4. /\ newCall.owed = isOwed
        /\ newStart = [ts |-> newCall.ts, uaddr |-> newCall.uaddr,
                       op |-> newCall.cmd + newCall.flag, tgid |-> tgidOf[t]]
    OBVIOUS
  <2>5. /\ DOMAIN call' = DOMAIN call \cup {t} /\ call'[t] = newCall
        /\ \A u \in DOMAIN call : call'[u] = call[u]
    <3> HIDE DEF newCall, t
    <3> QED BY <2>1 DEF Put
  <2>6. /\ DOMAIN FUTEX_START' = DOMAIN FUTEX_START \cup (IF isOwed THEN {t} ELSE {})
        /\ isOwed => FUTEX_START'[t] = newStart
        /\ \A u \in DOMAIN FUTEX_START : FUTEX_START'[u] = FUTEX_START[u]
    <3> HIDE DEF newStart, t, isOwed
    <3> QED BY <2>2, <2>3 DEF Put
  <2> HIDE DEF newCall, newStart, isOwed, t
  <2>7. \A u \in DOMAIN FUTEX_START' : u \in DOMAIN call' /\ call'[u].owed
    BY <2>1, <2>4, <2>5, <2>6 DEF FutexInv
  <2>8. \A u \in DOMAIN call' : call'[u].owed =>
          /\ u \in DOMAIN FUTEX_START'
          /\ FUTEX_START'[u] = [ts |-> call'[u].ts, uaddr |-> call'[u].uaddr,
                                op |-> call'[u].cmd + call'[u].flag, tgid |-> tgidOf'[u]]
    BY <2>1, <2>4, <2>5, <2>6 DEF FutexInv
  <2> QED BY <2>7, <2>8 DEF FutexInv
<1>5. ASSUME NEW c \in Cpu, FutexExit(c)
      PROVE  FutexInv'
  <2> DEFINE t == onCpu[c]
  <2>1. call' = Remove(call, t) /\ UNCHANGED tgidOf
    BY <1>5 DEF FutexExit
  <2>2. FUTEX_START' = Remove(FUTEX_START, t)
        \/ (t \notin DOMAIN FUTEX_START /\ UNCHANGED FUTEX_START)
    BY <1>5 DEF FutexExit, try_futex_exit
  <2> HIDE DEF t
  <2>3. DOMAIN call' = DOMAIN call \ {t} /\ \A u \in DOMAIN call' : call'[u] = call[u]
    BY <2>1 DEF Remove, Restrict
  <2>4. /\ DOMAIN FUTEX_START' = DOMAIN FUTEX_START \ {t}
        /\ \A u \in DOMAIN FUTEX_START' : FUTEX_START'[u] = FUTEX_START[u]
    BY <2>2 DEF Remove, Restrict
  <2> QED BY <2>1, <2>3, <2>4 DEF FutexInv
<1>6. CASE \E c \in Cpu, dev \in Dev, sector \in Sector : BlockRqIssue(c, dev, sector)
  BY <1>a, <1>6 DEF BlockRqIssue
<1>7. CASE \E r \in reqs : BlockRqComplete(r)
  BY <1>a, <1>7 DEF BlockRqComplete
<1>8. CASE set_target_tgid
  BY <1>a, <1>8 DEF set_target_tgid, kernelVars, mapVars
<1>9. CASE drain_ring_buffer
  BY <1>a, <1>9 DEF drain_ring_buffer, kernelVars, mapVars
<1>10. CASE Quiet \/ UNCHANGED vars
  BY <1>a, <1>10 DEF Quiet, vars, kernelVars, mapVars
<1> QED
  BY <1>1, <1>2, <1>3, <1>4, <1>5, <1>6, <1>7, <1>8, <1>9, <1>10 DEF Next

LEMMA NextStallsKept ==
  ASSUME TypeOK, ThreadsOK, StallsKept, [Next]_vars
  PROVE  StallsKept'
<1>0. /\ tgidOf \in [Tid -> Tgid \cup {NoTgid}] /\ DOMAIN off \subseteq Tid
      /\ onCpu \in [Cpu -> Tid \cup {IdleTid}] /\ IdleTid \notin Tid
  BY ConstantTypes DEF TypeOK, IsMap
<1>a. ASSUME UNCHANGED <<off, BLOCK_START>>, \A t \in DOMAIN off : tgidOf'[t] = tgidOf[t]
      PROVE  StallsKept'
  BY <1>a DEF StallsKept
<1>1. ASSUME NEW c \in Cpu, NEW why \in SwitchReason, NEW next \in Tid \cup {IdleTid},
             SchedSwitch(c, why, next)
      PROVE  StallsKept'
  <2> DEFINE prev == onCpu[c]
             isOwed == Owed(tgidOf[prev], BLOCK_START, BlockStartCap, prev)
             new == [ts |-> clock, owed |-> isOwed]
             left == IF why = "block" THEN Put(off, prev, new) ELSE off
             tgid == TgidOf(prev)
             state == ReportedState(why)
             kept == target # NoTgid /\ Stashes(tgid, state) /\ HasRoom(BLOCK_START, BlockStartCap, prev)
             start == [ts |-> clock, tgid |-> tgid]
  <2>1. /\ off' = Remove(left, next) /\ next # prev
        /\ try_sched_switch(prev, TgidOf(prev), ReportedState(why), next)
        /\ why = "block" => prev # IdleTid
    BY <1>1 DEF SchedSwitch
  <2>2. /\ DOMAIN BLOCK_START \ {next} \subseteq DOMAIN BLOCK_START'
        /\ kept => prev \in DOMAIN BLOCK_START' /\ BLOCK_START'[prev] = start
        /\ \A x \in DOMAIN BLOCK_START' : x # prev => BLOCK_START'[x] = BLOCK_START[x]
    <3> DEFINE ends == target # NoTgid /\ next \in DOMAIN BLOCK_START
    <3>1. /\ DOMAIN BLOCK_START' = (DOMAIN BLOCK_START \cup (IF kept THEN {prev} ELSE {}))
                                       \ (IF ends THEN {next} ELSE {})
          /\ kept => BLOCK_START'[prev] = start
          /\ \A x \in DOMAIN BLOCK_START' : ~(kept /\ x = prev) => BLOCK_START'[x] = BLOCK_START[x]
      <4>1. next # prev /\ try_sched_switch(prev, tgid, state, next)
        BY <2>1
      <4> HIDE DEF prev, tgid, state
      <4> QED BY <4>1, SchedSwitchEffect, SMTT(30)
    <3> HIDE DEF kept, start, ends
    <3> QED BY <2>1, <3>1
  <2>3. why = "block" /\ isOwed => kept /\ start = [ts |-> clock, tgid |-> tgidOf[prev]]
    BY <2>1 DEF Owed, Stashes, ReportedState, TgidOf, TASK_RUNNING, TASK_INTERRUPTIBLE
  <2>4. new.ts = clock /\ new.owed = isOwed
    OBVIOUS
  <2> HIDE DEF new, isOwed, kept, start
  <2>5. \A t \in DOMAIN off' : /\ t # next
                               /\ \/ t = prev /\ why = "block" /\ off'[t] = new
                                  \/ t \in DOMAIN off /\ off'[t] = off[t]
    BY <2>1 DEF Put, Remove, Restrict
  <2>6. \A t \in DOMAIN off : t # prev
    BY <1>0 DEF ThreadsOK
  <2>7. \A t \in Tid : t # prev \/ why # "exit" => tgidOf'[t] = tgidOf[t]
    BY <1>0, <1>1 DEF SchedSwitch
  <2>8. ASSUME NEW t \in DOMAIN off', off'[t].owed
        PROVE  /\ t \in DOMAIN BLOCK_START'
               /\ BLOCK_START'[t] = [ts |-> off'[t].ts, tgid |-> tgidOf'[t]]
    <3>1. CASE t = prev /\ why = "block" /\ off'[t] = new
      <4>1. t \in Tid /\ tgidOf'[t] = tgidOf[t]
        BY <1>0, <2>1, <2>7, <3>1
      <4> QED BY <2>2, <2>3, <2>4, <2>8, <3>1, <4>1
    <3>2. CASE t \in DOMAIN off /\ off'[t] = off[t]
      <4>1. t # prev /\ t # next /\ tgidOf'[t] = tgidOf[t]
        BY <1>0, <2>5, <2>6, <2>7, <3>2
      <4>2. t \in DOMAIN BLOCK_START /\ BLOCK_START[t] = [ts |-> off[t].ts, tgid |-> tgidOf[t]]
        BY <2>8, <3>2 DEF StallsKept
      <4> QED BY <2>2, <3>2, <4>1, <4>2
    <3> QED BY <2>5, <3>1, <3>2
  <2> QED BY <2>8 DEF StallsKept
<1>2. CASE \E t \in Tid : Wakeup(t)
  BY <1>a, <1>2 DEF Wakeup, mapVars
<1>3. CASE \E t \in Tid, g \in Tgid : Spawn(t, g)
  <2>1. UNCHANGED <<off, BLOCK_START>>
    BY <1>3 DEF Spawn, mapVars
  <2>2. \A t \in DOMAIN off : tgidOf'[t] = tgidOf[t]
    BY <1>0, <1>3 DEF Spawn, ThreadsOK
  <2> QED BY <1>a, <2>1, <2>2
<1>4. CASE \E c \in Cpu, cmd \in FutexCmd, flag \in FutexFlag, uaddr \in UAddr :
             FutexEnter(c, cmd, flag, uaddr)
  BY <1>a, <1>4 DEF FutexEnter
<1>5. CASE \E c \in Cpu : FutexExit(c)
  BY <1>a, <1>5 DEF FutexExit
<1>6. CASE \E c \in Cpu, dev \in Dev, sector \in Sector : BlockRqIssue(c, dev, sector)
  BY <1>a, <1>6 DEF BlockRqIssue
<1>7. CASE \E r \in reqs : BlockRqComplete(r)
  BY <1>a, <1>7 DEF BlockRqComplete
<1>8. CASE set_target_tgid
  BY <1>a, <1>8 DEF set_target_tgid, kernelVars, mapVars
<1>9. CASE drain_ring_buffer
  BY <1>a, <1>9 DEF drain_ring_buffer, kernelVars, mapVars
<1>10. CASE Quiet \/ UNCHANGED vars
  BY <1>a, <1>10 DEF Quiet, vars, kernelVars, mapVars
<1> QED
  BY <1>1, <1>2, <1>3, <1>4, <1>5, <1>6, <1>7, <1>8, <1>9, <1>10 DEF Next

LEMMA NextNoTargetNoStalls ==
  ASSUME TypeOK, NoTargetNoStalls, [Next]_vars
  PROVE  NoTargetNoStalls'
<1>1. CASE \E c \in Cpu, why \in SwitchReason, next \in Tid \cup {IdleTid} : SchedSwitch(c, why, next)
  BY <1>1 DEF SchedSwitch, try_sched_switch, NoTargetNoStalls
<1>2. CASE set_target_tgid
  BY <1>2, ConstantTypes DEF set_target_tgid, NoTargetNoStalls
<1>3. CASE UNCHANGED <<target, BLOCK_START>>
  BY <1>3 DEF NoTargetNoStalls
<1> QED
  BY <1>1, <1>2, <1>3 DEF Next, Wakeup, Spawn, FutexEnter, FutexExit, BlockRqIssue,
     BlockRqComplete, drain_ring_buffer, Quiet, vars, kernelVars, mapVars

LEMMA BlockRqCompleteEffect ==
  ASSUME NEW d, NEW s, try_block_rq_complete(d, s)
  PROVE  LET k == pack_block_key(d, s)
         IN  /\ DOMAIN BLOCKIO_START' = DOMAIN BLOCKIO_START \ {k}
             /\ \A x \in DOMAIN BLOCKIO_START' : BLOCKIO_START'[x] = BLOCKIO_START[x]
BY DEF try_block_rq_complete, Remove, Restrict

(* Only the two block I/O programs touch the requests and BLOCKIO_START.    *)
LEMMA BlockIoStep ==
  ASSUME [Next]_vars
  PROVE  \/ \E c \in Cpu, d \in Dev, s \in Sector : BlockRqIssue(c, d, s)
         \/ \E r \in reqs : BlockRqComplete(r)
         \/ UNCHANGED <<reqs, BLOCKIO_START>>
<1>1. ASSUME NEW c \in Cpu, NEW why \in SwitchReason, NEW next \in Tid \cup {IdleTid},
             SchedSwitch(c, why, next)
      PROVE  UNCHANGED <<reqs, BLOCKIO_START>>
  BY <1>1 DEF SchedSwitch
<1>2. ASSUME NEW t \in Tid, Wakeup(t) \/ \E g \in Tgid : Spawn(t, g)
      PROVE  UNCHANGED <<reqs, BLOCKIO_START>>
  BY <1>2 DEF Wakeup, Spawn, mapVars
<1>3. ASSUME NEW c \in Cpu, NEW cmd \in FutexCmd, NEW flag \in FutexFlag, NEW uaddr \in UAddr,
             FutexEnter(c, cmd, flag, uaddr)
      PROVE  UNCHANGED <<reqs, BLOCKIO_START>>
  BY <1>3 DEF FutexEnter
<1>4. ASSUME NEW c \in Cpu, FutexExit(c)
      PROVE  UNCHANGED <<reqs, BLOCKIO_START>>
  BY <1>4 DEF FutexExit
<1>5. CASE set_target_tgid \/ drain_ring_buffer \/ Quiet \/ UNCHANGED vars
  BY <1>5 DEF set_target_tgid, drain_ring_buffer, Quiet, vars, kernelVars, mapVars
<1> QED BY <1>1, <1>2, <1>3, <1>4, <1>5 DEF Next

LEMMA NextBlockIoKeysInv ==
  ASSUME TypeOK, BlockIoKeysInv, [Next]_vars
  PROVE  BlockIoKeysInv'
<1>1. ASSUME NEW c \in Cpu, NEW d \in Dev, NEW s \in Sector, BlockRqIssue(c, d, s)
      PROVE  BlockIoKeysInv'
  <2> DEFINE key == pack_block_key(d, s)
             tgid == tgidOf[onCpu[c]]
             start == [ts |-> clock, tgid |-> tgid, tid |-> onCpu[c]]
             req == [dev |-> d, sector |-> s, tid |-> onCpu[c], tgid |-> tgid, ts |-> clock,
                     owed |-> Owed(tgid, BLOCKIO_START, BlockIoStartCap, key)]
  <2>1. reqs' = reqs \cup {req} /\ try_block_rq_issue(onCpu[c], tgid, d, s)
    BY <1>1 DEF BlockRqIssue
  <2>2. BLOCKIO_START' = Put(BLOCKIO_START, key, start) \/ BLOCKIO_START' = BLOCKIO_START
    BY <2>1, BlockRqIssueEffect
  <2>3. DOMAIN BLOCKIO_START' \subseteq DOMAIN BLOCKIO_START \cup {key}
    <3> HIDE DEF start, key
    <3> QED BY <2>2 DEF Put
  <2>4. ReqKey(req) = key
    BY DEF ReqKey
  <2> HIDE DEF key, req
  <2> QED BY <2>1, <2>3, <2>4 DEF BlockIoKeysInv
<1>2. ASSUME NEW r \in reqs, BlockRqComplete(r)
      PROVE  BlockIoKeysInv'
  <2>1. reqs' = reqs \ {r} /\ try_block_rq_complete(r.dev, r.sector)
    BY <1>2 DEF BlockRqComplete
  <2>2. DOMAIN BLOCKIO_START' = DOMAIN BLOCKIO_START \ {ReqKey(r)}
    BY <2>1, BlockRqCompleteEffect DEF ReqKey
  <2> QED BY <2>1, <2>2 DEF BlockIoKeysInv
<1>3. CASE UNCHANGED <<reqs, BLOCKIO_START>>
  BY <1>3 DEF BlockIoKeysInv
<1> QED BY <1>1, <1>2, <1>3, BlockIoStep

LEMMA NextBlockIoInv ==
  ASSUME ExclusiveKeys, TypeOK, BlockIoKeysInv, BlockIoInv, [Next]_vars
  PROVE  BlockIoInv'
<1>1. ASSUME NEW c \in Cpu, NEW d \in Dev, NEW s \in Sector, BlockRqIssue(c, d, s)
      PROVE  BlockIoInv'
  <2> DEFINE key == pack_block_key(d, s)
             tgid == tgidOf[onCpu[c]]
             isOwed == Owed(tgid, BLOCKIO_START, BlockIoStartCap, key)
             start == [ts |-> clock, tgid |-> tgid, tid |-> onCpu[c]]
             req == [dev |-> d, sector |-> s, tid |-> onCpu[c], tgid |-> tgid, ts |-> clock,
                     owed |-> isOwed]
  <2>1. /\ reqs' = reqs \cup {req} /\ try_block_rq_issue(onCpu[c], tgid, d, s)
        /\ \A r \in reqs : ReqKey(r) # key
    BY <1>1 DEF BlockRqIssue, ReqKey
  <2>2. IF isOwed THEN BLOCKIO_START' = Put(BLOCKIO_START, key, start)
                  ELSE BLOCKIO_START' = BLOCKIO_START
    BY <2>1, BlockRqIssueEffect
  <2>3. ReqKey(req) = key /\ req.owed = isOwed
        /\ start = [ts |-> req.ts, tgid |-> req.tgid, tid |-> req.tid]
    BY DEF ReqKey
  <2>4. key \notin DOMAIN BLOCKIO_START
    BY <2>1 DEF BlockIoKeysInv
  <2> HIDE DEF key, req, start, isOwed
  <2>5. /\ DOMAIN BLOCKIO_START' = DOMAIN BLOCKIO_START \cup (IF isOwed THEN {key} ELSE {})
        /\ isOwed => BLOCKIO_START'[key] = start
        /\ \A k \in DOMAIN BLOCKIO_START : BLOCKIO_START'[k] = BLOCKIO_START[k]
    BY <2>2, <2>4 DEF Put
  <2>6. \A q, r \in reqs' : ReqKey(q) = ReqKey(r) => q = r
    BY <2>1, <2>3 DEF BlockIoInv
  <2>7. \A r \in reqs' : r.owed <=> ReqKey(r) \in DOMAIN BLOCKIO_START'
    <3>0. \A r \in reqs : r.owed <=> ReqKey(r) \in DOMAIN BLOCKIO_START
      BY DEF BlockIoInv
    <3>1. \A r \in reqs : r.owed <=> ReqKey(r) \in DOMAIN BLOCKIO_START'
      BY <2>1, <2>5, <3>0
    <3>2. req.owed <=> ReqKey(req) \in DOMAIN BLOCKIO_START'
      BY <2>3, <2>4, <2>5
    <3> QED BY <2>1, <3>1, <3>2
  <2>8. \A r \in reqs' : r.owed =>
          BLOCKIO_START'[ReqKey(r)] = [ts |-> r.ts, tgid |-> r.tgid, tid |-> r.tid]
    <3> SUFFICES ASSUME NEW r \in reqs', r.owed
                 PROVE BLOCKIO_START'[ReqKey(r)] = [ts |-> r.ts, tgid |-> r.tgid, tid |-> r.tid]
      OBVIOUS
    <3>1. CASE r = req
      BY <2>3, <2>5, <3>1
    <3>2. CASE r \in reqs
      BY <2>5, <3>2 DEF BlockIoInv
    <3> QED BY <2>1, <3>1, <3>2
  <2> QED BY <2>6, <2>7, <2>8 DEF BlockIoInv
<1>2. ASSUME NEW q \in reqs, BlockRqComplete(q)
      PROVE  BlockIoInv'
  <2>1. reqs' = reqs \ {q} /\ try_block_rq_complete(q.dev, q.sector)
    BY <1>2 DEF BlockRqComplete
  <2>2. /\ DOMAIN BLOCKIO_START' = DOMAIN BLOCKIO_START \ {ReqKey(q)}
        /\ \A x \in DOMAIN BLOCKIO_START' : BLOCKIO_START'[x] = BLOCKIO_START[x]
    BY <2>1, BlockRqCompleteEffect DEF ReqKey
  <2>3. \A r \in reqs' : r \in reqs /\ ReqKey(r) # ReqKey(q)
    BY <2>1 DEF BlockIoInv
  <2>4. \A r \in reqs : r.owed <=> ReqKey(r) \in DOMAIN BLOCKIO_START
    BY DEF BlockIoInv
  <2>5. \A r \in reqs' : r.owed <=> ReqKey(r) \in DOMAIN BLOCKIO_START'
    BY <2>2, <2>3, <2>4
  <2>6. \A p, r \in reqs' : ReqKey(p) = ReqKey(r) => p = r
    BY <2>3 DEF BlockIoInv
  <2>7. \A r \in reqs' : r.owed =>
          BLOCKIO_START'[ReqKey(r)] = [ts |-> r.ts, tgid |-> r.tgid, tid |-> r.tid]
    BY <2>2, <2>3, <2>5 DEF BlockIoInv
  <2> QED BY <2>5, <2>6, <2>7 DEF BlockIoInv
<1>3. CASE UNCHANGED <<reqs, BLOCKIO_START>>
  BY <1>3 DEF BlockIoInv
<1> QED BY <1>1, <1>2, <1>3, BlockIoStep

LEMMA InitIInv == Init => IInv /\ BlockIoInv /\ OnlyStallsKept
<1> SUFFICES ASSUME Init PROVE IInv /\ BlockIoInv /\ OnlyStallsKept
  OBVIOUS
<1>1. TypeOK
  BY InitType
<1>2. StampsPast /\ FutexInv /\ BlockIoKeysInv /\ StallsKept /\ NoTargetNoStalls
  BY DEF Init, StampsPast, FutexInv, BlockIoKeysInv, StallsKept, NoTargetNoStalls
<1>3. ThreadsOK
  BY DEF Init, ThreadsOK
<1>4. BlockIoInv /\ OnlyStallsKept
  BY DEF Init, BlockIoInv, OnlyStallsKept
<1> QED BY <1>1, <1>2, <1>3, <1>4 DEF IInv

LEMMA NextIInv == IInv /\ [Next]_vars => IInv'
BY NextType, NextStampsPast, NextThreadsOK, NextFutexInv, NextBlockIoKeysInv, NextStallsKept,
   NextNoTargetNoStalls DEF IInv

(* The inductive invariant holds.                                          *)
THEOREM Invariance == Spec => []IInv
<1>1. Init => IInv
  BY InitIInv
<1> QED
  BY <1>1, NextIInv, PTL DEF Spec

(* The kernel's variables, the BPF maps and the buffers keep their types.  *)
THEOREM TypeCorrect == Spec => []TypeOK
<1>1. IInv => TypeOK
  BY DEF IInv
<1> QED
  BY <1>1, Invariance, PTL

(* No entry of FUTEX_START or BLOCKIO_START outlives its system call or    *)
(* request, whatever the interleaving and however keys collide.            *)
THEOREM NoLeaks == Spec => []NoStaleStarts
<1>1. IInv => NoStaleStarts
  BY DEF IInv, FutexInv, BlockIoKeysInv, NoStaleStarts, ReqKey
<1> QED
  BY <1>1, Invariance, PTL

-----------------------------------------------------------------------------
(* What has been reported, in the trace or still in the ring buffer.       *)

LEMMA RangeAppend ==
  ASSUME NEW S, NEW s \in Seq(S), NEW e
  PROVE  Range(Append(s, e)) = Range(s) \cup {e}
<1>1. /\ DOMAIN Append(s, e) = 1..Len(s) + 1 /\ DOMAIN s = 1..Len(s) /\ Len(s) \in Nat
      /\ Append(s, e)[Len(s) + 1] = e
      /\ \A i \in 1..Len(s) : Append(s, e)[i] = s[i]
  OBVIOUS
<1>2. 1..Len(s) + 1 = (1..Len(s)) \cup {Len(s) + 1}
  BY <1>1
<1> QED BY <1>1, <1>2 DEF Range

LEMMA RangeHeadTail ==
  ASSUME NEW S, NEW s \in Seq(S), s # <<>>
  PROVE  Range(s) = {Head(s)} \cup Range(Tail(s))
<1>1. /\ Len(s) \in Nat /\ Len(s) >= 1 /\ DOMAIN s = 1..Len(s) /\ DOMAIN Tail(s) = 1..(Len(s) - 1)
      /\ Head(s) = s[1]
      /\ \A i \in 1..(Len(s) - 1) : Tail(s)[i] = s[i + 1]
  OBVIOUS
<1>2. ASSUME NEW x \in Range(s) PROVE x \in {Head(s)} \cup Range(Tail(s))
  <2>1. PICK i \in 1..Len(s) : x = s[i]
    BY <1>1 DEF Range
  <2>2. CASE i = 1
    BY <1>1, <2>1, <2>2
  <2>3. CASE i # 1
    <3>1. i - 1 \in 1..(Len(s) - 1) /\ Tail(s)[i - 1] = s[i]
      BY <1>1, <2>3
    <3> QED BY <1>1, <2>1, <3>1 DEF Range
  <2> QED BY <2>2, <2>3
<1>3. ASSUME NEW x \in {Head(s)} \cup Range(Tail(s)) PROVE x \in Range(s)
  <2>1. CASE x = Head(s)
    BY <1>1, <2>1 DEF Range
  <2>2. CASE x \in Range(Tail(s))
    <3>1. PICK i \in 1..(Len(s) - 1) : x = Tail(s)[i]
      BY <1>1, <2>2 DEF Range
    <3>2. i + 1 \in 1..Len(s) /\ x = s[i + 1]
      BY <1>1, <3>1
    <3> QED BY <1>1, <3>2 DEF Range
  <2> QED BY <2>1, <2>2
<1> QED BY <1>2, <1>3

LEMMA EmitReported ==
  ASSUME TypeOK, NEW e, emit(e), UNCHANGED trace
  PROVE  Reported' = IF RingHasRoom THEN Reported \cup {e} ELSE Reported
<1>1. CASE RingHasRoom
  <2>1. ring' = Append(ring, e) /\ ring \in Seq(Event)
    BY <1>1 DEF emit, TypeOK
  <2>2. Range(ring') = Range(ring) \cup {e}
    BY <2>1, RangeAppend
  <2> QED BY <1>1, <2>2 DEF Reported
<1>2. CASE ~RingHasRoom
  BY <1>2 DEF emit, Reported
<1> QED BY <1>1, <1>2

LEMMA DrainReported ==
  ASSUME TypeOK, drain_ring_buffer
  PROVE  Reported' = Reported /\ UNCHANGED owed
<1>1. /\ ring \in Seq(Event) /\ trace \in Seq(Event) /\ ring # <<>>
      /\ ring' = Tail(ring) /\ trace' = Append(trace, Head(ring)) /\ UNCHANGED owed
  BY DEF drain_ring_buffer, TypeOK
<1>2. Range(trace') = Range(trace) \cup {Head(ring)}
  BY <1>1, RangeAppend
<1>3. Range(ring) = {Head(ring)} \cup Range(ring')
  BY <1>1, RangeHeadTail
<1> QED BY <1>1, <1>2, <1>3 DEF Reported

LEMMA NewEventFields ==
  ASSUME NEW ts, NEW dur, NEW key, NEW pid, NEW tid, NEW type
  PROVE  NewEvent(ts, dur, key, pid, tid, type).event_type = type
BY DEF NewEvent

LEMMA AccountGrows ==
  ASSUME NEW isOwed, NEW e, Account(isOwed, e)
  PROVE  owed' = IF isOwed /\ RingHasRoom THEN owed \cup {e} ELSE owed
BY DEF Account

(* Removing the flag bits gives the command back.                          *)
LEMMA BaseOpOfCall ==
  ASSUME NEW cmd \in FutexCmd, NEW flag \in FutexFlag
  PROVE  BaseOp(cmd + flag) = cmd
<1>1. cmd \in 0..127 /\ flag \in {0, 128, 256, 384}
  BY FlagTypes
<1>2. cmd + flag \in 0..511
  BY <1>1
<1>3. (cmd + flag) % 128 = cmd /\ (cmd + flag) \div 512 = 0
  BY <1>1, <1>2
<1> QED BY <1>1, <1>3 DEF BaseOp, FUTEX_PRIVATE_FLAG

(* A futex system call that returns is reported just as it is owed.        *)
LEMMA FutexExitReports ==
  ASSUME IInv, NEW c \in Cpu, FutexExit(c)
  PROVE  \/ Reported' = Reported /\ owed' = owed
         \/ \E e : Reported' = Reported \cup {e} /\ owed' = owed \cup {e}
<1> DEFINE t == onCpu[c]
           start == FUTEX_START[t]
           span(type) == NewEvent(clock, clock - call[t].ts, call[t].uaddr, tgidOf[t], t, type)
           ev == NewEvent(clock, SaturatingSub(clock, start.ts), start.uaddr,
                          start.tgid, t, FutexEventType(BaseOp(start.op)))
<1>0. TypeOK /\ StampsPast /\ FutexInv
  BY DEF IInv
<1>1. t \in DOMAIN call /\ try_futex_exit(t) /\ UNCHANGED trace
  BY DEF FutexExit
<1>2. /\ call[t] \in FutexCall /\ call[t].ts <= clock /\ clock \in Nat
  BY <1>0, <1>1, MapValue DEF TypeOK, StampsPast
<1>3. call[t].cmd \in FutexCmd /\ call[t].flag \in FutexFlag /\ call[t].ts \in Nat
  BY <1>2 DEF FutexCall
<1>4. CASE ~call[t].owed
  <2>1. ring' = ring
    BY <1>0, <1>1, <1>4 DEF FutexInv, try_futex_exit
  <2>2. owed' = owed
    BY <1>4 DEF FutexExit, Account
  <2> QED BY <1>1, <2>1, <2>2 DEF Reported
<1>5. CASE call[t].owed
  <2>1. /\ t \in DOMAIN FUTEX_START
        /\ start = [ts |-> call[t].ts, uaddr |-> call[t].uaddr,
                    op |-> call[t].cmd + call[t].flag, tgid |-> tgidOf[t]]
    BY <1>0, <1>1, <1>5 DEF FutexInv
  <2>2. /\ start.ts = call[t].ts /\ start.uaddr = call[t].uaddr /\ start.tgid = tgidOf[t]
        /\ BaseOp(start.op) = call[t].cmd
    BY <1>3, <2>1, BaseOpOfCall
  <2>3. ev = span(FutexEventType(call[t].cmd))
    BY <1>2, <1>3, <2>2, SaturatingSubType
  <2>4. IF call[t].cmd \in Waits \cup Wakes THEN emit(ev) ELSE UNCHANGED ring
    BY <1>1, <2>1, <2>2 DEF try_futex_exit
  <2>5. CASE call[t].cmd \in Waits \cup Wakes
    <3>1. Account(call[t].owed, span(FutexEventType(call[t].cmd)))
      BY <2>5 DEF FutexExit, FutexEventType, Waits, Wakes, FUTEX_WAIT, FUTEX_WAIT_BITSET,
         FUTEX_WAKE, FUTEX_WAKE_BITSET
    <3>2. emit(ev) /\ Account(call[t].owed, ev)
      BY <2>3, <2>4, <2>5, <3>1
    <3> HIDE DEF ev
    <3> QED BY <1>0, <1>1, <1>5, <3>2, EmitReported, AccountGrows
  <2>6. CASE call[t].cmd \notin Waits \cup Wakes
    <3>1. owed' = owed
      BY <2>6 DEF FutexExit, Waits, Wakes
    <3> QED BY <1>1, <2>4, <2>6, <3>1 DEF Reported
  <2> QED BY <2>5, <2>6
<1> QED BY <1>4, <1>5

(* A stall that ends is reported if it is owed; nothing else is, if the    *)
(* map holds nothing but stalls and what exited threads left behind.       *)
LEMMA SchedSwitchReports ==
  ASSUME IInv, NEW c \in Cpu, NEW why \in SwitchReason, NEW next \in Tid \cup {IdleTid},
         SchedSwitch(c, why, next)
  PROVE  \/ Reported' = Reported /\ owed' = owed
         \/ \E e : Reported' = Reported \cup {e} /\ owed' = owed \cup {e}
         \/ /\ ~OnlyStallsKept
            /\ owed' = owed
            /\ \E e : e.event_type = EVENT_SCHED_BLOCK /\ Reported' = Reported \cup {e}
<1> DEFINE prev == onCpu[c]
           tgid == TgidOf(prev)
           state == ReportedState(why)
           new == [ts |-> clock, owed |-> Owed(tgidOf[prev], BLOCK_START, BlockStartCap, prev)]
           left == IF why = "block" THEN Put(off, prev, new) ELSE off
           span == NewEvent(clock, clock - left[next].ts, 0, tgidOf[next], next, EVENT_SCHED_BLOCK)
           ends == target # NoTgid /\ next \in DOMAIN BLOCK_START
           ev == NewEvent(clock, SaturatingSub(clock, BLOCK_START[next].ts), 0,
                          BLOCK_START[next].tgid, next, EVENT_SCHED_BLOCK)
<1>0. TypeOK /\ StampsPast /\ ThreadsOK /\ StallsKept /\ NoTargetNoStalls
  BY DEF IInv
<1>1. /\ next # prev /\ UNCHANGED trace /\ next \in Runnable \cup {IdleTid}
      /\ try_sched_switch(prev, tgid, state, next)
      /\ IF next \in DOMAIN left THEN Account(left[next].owed, span) ELSE UNCHANGED owed
  BY DEF SchedSwitch
<1>2. /\ next \in DOMAIN left <=> next \in DOMAIN off
      /\ next \in DOMAIN off => left[next] = off[next]
  <2> HIDE DEF new
  <2> QED BY <1>1 DEF Put
<1>3. (ends => emit(ev)) /\ (~ends => ring' = ring)
  <2> HIDE DEF prev, tgid, state
  <2> QED BY <1>1, SchedSwitchEffect
<1>4. CASE next \in DOMAIN off /\ off[next].owed
  <2>1. /\ next \in DOMAIN BLOCK_START
        /\ BLOCK_START[next] = [ts |-> off[next].ts, tgid |-> tgidOf[next]]
    BY <1>0, <1>4 DEF StallsKept
  <2>2. ends
    BY <1>0, <2>1 DEF NoTargetNoStalls
  <2>3. off[next].ts \in Nat /\ off[next].ts <= clock /\ clock \in Nat
    BY <1>0, <1>4, StampTypes DEF StampsPast, TypeOK
  <2>4. ev = span
    <3>1. BLOCK_START[next].ts = off[next].ts /\ BLOCK_START[next].tgid = tgidOf[next]
      BY <2>1
    <3>2. SaturatingSub(clock, off[next].ts) = clock - off[next].ts
      BY <2>3, SaturatingSubType
    <3>3. left[next].ts = off[next].ts
      BY <1>2, <1>4
    <3> HIDE DEF left
    <3> QED BY <3>1, <3>2, <3>3
  <2>5. emit(ev) /\ Account(off[next].owed, ev)
    BY <1>1, <1>2, <1>3, <1>4, <2>2, <2>4
  <2> HIDE DEF ev
  <2> QED BY <1>0, <1>1, <1>4, <2>5, EmitReported, AccountGrows
<1>5. CASE ~(next \in DOMAIN off /\ off[next].owed)
  <2>1. owed' = owed
    <3>1. CASE next \in DOMAIN off
      BY <1>1, <1>2, <1>5, <3>1 DEF Account
    <3>2. CASE next \notin DOMAIN off
      BY <1>1, <1>2, <3>2
    <3> QED BY <3>1, <3>2
  <2>2. CASE ~ends
    BY <1>1, <1>3, <2>1, <2>2 DEF Reported
  <2>3. CASE ends
    <3>1. next \in Tid
      BY <1>0, <2>3 DEF TypeOK, IsMap
    <3>2. tgidOf[next] # NoTgid
      BY <1>1, <3>1, ConstantTypes DEF Runnable
    <3>3. ~OnlyStallsKept
      BY <1>5, <2>3, <3>2 DEF OnlyStallsKept
    <3>4. ev.event_type = EVENT_SCHED_BLOCK
      BY NewEventFields
    <3>5. emit(ev)
      BY <1>3, <2>3
    <3> HIDE DEF ev
    <3>6. Reported' = IF RingHasRoom THEN Reported \cup {ev} ELSE Reported
      BY <1>0, <1>1, <3>5, EmitReported
    <3> QED BY <2>1, <3>3, <3>4, <3>6
  <2> QED BY <2>2, <2>3
<1> QED BY <1>4, <1>5

(* A request that completes is reported just as it is owed, if no two      *)
(* share a key; otherwise at least nothing but block I/O is reported.      *)
LEMMA BlockRqCompleteReports ==
  ASSUME IInv, NEW r \in reqs, BlockRqComplete(r)
  PROVE  \/ Reported' = Reported /\ owed' = owed
         \/ \E e : Reported' = Reported \cup {e} /\ owed' = owed \cup {e}
         \/ /\ ~BlockIoInv
            /\ owed \subseteq owed'
            /\ \E e : e.event_type = EVENT_BLOCK_IO /\ Reported' \in {Reported, Reported \cup {e}}
<1> DEFINE key == pack_block_key(r.dev, r.sector)
           start == BLOCKIO_START[key]
           span == NewEvent(clock, clock - r.ts, key, r.tgid, r.tid, EVENT_BLOCK_IO)
           ev == NewEvent(clock, SaturatingSub(clock, start.ts), key, start.tgid, start.tid,
                          EVENT_BLOCK_IO)
<1>0. TypeOK /\ StampsPast
  BY DEF IInv
<1>1. /\ UNCHANGED trace /\ Account(r.owed, span)
      /\ IF key \in DOMAIN BLOCKIO_START THEN emit(ev) ELSE UNCHANGED ring
  BY DEF BlockRqComplete, try_block_rq_complete
<1>2. key = ReqKey(r)
  BY DEF ReqKey
<1>3. CASE BlockIoInv /\ r.owed
  <2>1. /\ key \in DOMAIN BLOCKIO_START
        /\ start = [ts |-> r.ts, tgid |-> r.tgid, tid |-> r.tid]
    BY <1>2, <1>3 DEF BlockIoInv
  <2>2. r.ts \in Nat /\ r.ts <= clock /\ clock \in Nat
    BY <1>0, StampTypes DEF StampsPast, TypeOK
  <2>3. ev = span
    BY <2>1, <2>2, SaturatingSubType
  <2>4. emit(ev) /\ Account(r.owed, ev)
    BY <1>1, <2>1, <2>3
  <2> HIDE DEF ev
  <2> QED BY <1>0, <1>1, <1>3, <2>4, EmitReported, AccountGrows
<1>4. CASE BlockIoInv /\ ~r.owed
  <2>1. key \notin DOMAIN BLOCKIO_START
    <3>1. \A q \in reqs : q.owed <=> ReqKey(q) \in DOMAIN BLOCKIO_START
      BY <1>4 DEF BlockIoInv
    <3> QED BY <1>2, <1>4, <3>1
  <2>2. ring' = ring /\ owed' = owed
    BY <1>1, <1>4, <2>1 DEF Account
  <2> QED BY <1>1, <2>2 DEF Reported
<1>5. CASE ~BlockIoInv
  <2>1. owed \subseteq owed'
    BY <1>1 DEF Account
  <2>2. ev.event_type = EVENT_BLOCK_IO
    BY NewEventFields
  <2> HIDE DEF ev
  <2>3. CASE key \in DOMAIN BLOCKIO_START
    <3>1. emit(ev)
      BY <1>1, <2>3
    <3>2. Reported' = IF RingHasRoom THEN Reported \cup {ev} ELSE Reported
      BY <1>0, <1>1, <3>1, EmitReported
    <3> QED BY <1>5, <2>1, <2>2, <3>2
  <2>4. CASE key \notin DOMAIN BLOCKIO_START
    <3>1. Reported' = Reported
      BY <1>1, <2>4 DEF Reported
    <3> QED BY <1>5, <2>1, <2>2, <3>1
  <2> QED BY <2>3, <2>4
<1> QED BY <1>3, <1>4, <1>5

(* No other step reports or accounts for anything.                         *)
LEMMA StepReports ==
  ASSUME IInv, [Next]_vars
  PROVE  \/ Reported' = Reported /\ owed' = owed
         \/ \E e : Reported' = Reported \cup {e} /\ owed' = owed \cup {e}
         \/ /\ ~OnlyStallsKept /\ owed' = owed
            /\ \E e : e.event_type = EVENT_SCHED_BLOCK /\ Reported' = Reported \cup {e}
         \/ /\ ~BlockIoInv /\ owed \subseteq owed'
            /\ \E e : e.event_type = EVENT_BLOCK_IO /\ Reported' \in {Reported, Reported \cup {e}}
<1>1. CASE \E c \in Cpu, why \in SwitchReason, next \in Tid \cup {IdleTid} : SchedSwitch(c, why, next)
  BY <1>1, SchedSwitchReports
<1>2. CASE \E c \in Cpu : FutexExit(c)
  BY <1>2, FutexExitReports
<1>3. CASE \E r \in reqs : BlockRqComplete(r)
  BY <1>3, BlockRqCompleteReports
<1>4. CASE drain_ring_buffer
  BY <1>4, DrainReported DEF IInv
<1>5. CASE UNCHANGED <<ring, trace, owed>>
  BY <1>5 DEF Reported
<1> QED
  BY <1>1, <1>2, <1>3, <1>4, <1>5 DEF Next, Wakeup, Spawn, FutexEnter, BlockRqIssue,
     set_target_tgid, Quiet, vars, mapVars

LEMMA NothingReportedAtFirst == Init => Reported = {} /\ owed = {}
BY DEF Init, Reported, Range

-----------------------------------------------------------------------------
(* Every futex event reported is a wait or wake the target really made,    *)
(* for any interleaving, clock, tid reuse, map and buffer size.            *)
THEOREM FutexReal == Spec => []FutexEventsReal
<1>1. Init => FutexEventsReal
  BY NothingReportedAtFirst DEF FutexEventsReal, RealEvents
<1>2. IInv /\ FutexEventsReal /\ [Next]_vars => FutexEventsReal'
  BY StepReports, EventTypes DEF FutexEventsReal, RealEvents
<1> QED
  BY <1>1, <1>2, Invariance, PTL DEF Spec

(* If no two requests in flight have the same packed key, every block I/O  *)
(* event reported is a request of the target, attributed to its issuer.    *)
THEOREM BlockIoReal ==
  ASSUME ExclusiveKeys
  PROVE  Spec => []BlockIoEventsReal
<1>1. Init => BlockIoInv /\ BlockIoEventsReal
  BY InitIInv, NothingReportedAtFirst DEF BlockIoEventsReal, RealEvents
<1>2. IInv /\ BlockIoInv /\ [Next]_vars => BlockIoInv'
  BY NextBlockIoInv DEF IInv
<1>3. IInv /\ BlockIoInv /\ BlockIoEventsReal /\ [Next]_vars => BlockIoEventsReal'
  BY StepReports, EventTypes DEF BlockIoEventsReal, RealEvents
<1> QED
  BY <1>1, <1>2, <1>3, Invariance, PTL DEF Spec

(* If no two requests in flight have the same packed key, the only losses  *)
(* are those a full map or a full ring buffer forces.                      *)
THEOREM NothingMissing ==
  ASSUME ExclusiveKeys
  PROVE  Spec => []NothingOwedIsMissing
<1>1. Init => BlockIoInv /\ NothingOwedIsMissing
  BY InitIInv, NothingReportedAtFirst DEF NothingOwedIsMissing
<1>2. IInv /\ BlockIoInv /\ [Next]_vars => BlockIoInv'
  BY NextBlockIoInv DEF IInv
<1>3. IInv /\ BlockIoInv /\ NothingOwedIsMissing /\ [Next]_vars => NothingOwedIsMissing'
  BY StepReports DEF NothingOwedIsMissing
<1> QED
  BY <1>1, <1>2, <1>3, Invariance, PTL DEF Spec

(* With no thread preempted in kernel mode and no tid used twice,          *)
(* BLOCK_START never holds anything that is mistaken for a stall.          *)
LEMMA NextOnlyStallsKept ==
  ASSUME PreemptState = TASK_RUNNING, MaxBorn = 1, IInv, OnlyStallsKept, [Next]_vars
  PROVE  OnlyStallsKept'
<1>0. /\ tgidOf \in [Tid -> Tgid \cup {NoTgid}] /\ onCpu \in [Cpu -> Tid \cup {IdleTid}]
      /\ born \in [Tid -> Nat] /\ DOMAIN off \subseteq Tid /\ DOMAIN BLOCK_START \subseteq Tid
      /\ NoTgid \notin Tgid /\ IdleTid \notin Tid /\ ThreadsOK /\ NoTargetNoStalls
  BY ConstantTypes DEF IInv, TypeOK, IsMap
<1>1. ASSUME NEW c \in Cpu, NEW why \in SwitchReason, NEW next \in Tid \cup {IdleTid},
             SchedSwitch(c, why, next)
      PROVE  OnlyStallsKept'
  <2> DEFINE prev == onCpu[c]
             tgid == TgidOf(prev)
             state == ReportedState(why)
             isOwed == Owed(tgidOf[prev], BLOCK_START, BlockStartCap, prev)
             new == [ts |-> clock, owed |-> isOwed]
             left == IF why = "block" THEN Put(off, prev, new) ELSE off
             kept == target # NoTgid /\ Stashes(tgid, state) /\ HasRoom(BLOCK_START, BlockStartCap, prev)
             ends == target # NoTgid /\ next \in DOMAIN BLOCK_START
  <2>1. /\ off' = Remove(left, next) /\ next # prev /\ UNCHANGED born
        /\ try_sched_switch(prev, tgid, state, next)
        /\ prev = IdleTid => why = "yield"
        /\ tgidOf' = IF why = "exit" THEN [tgidOf EXCEPT ![prev] = NoTgid] ELSE tgidOf
    BY <1>1 DEF SchedSwitch
  <2>2. DOMAIN BLOCK_START' = (DOMAIN BLOCK_START \cup (IF kept THEN {prev} ELSE {}))
                                 \ (IF ends THEN {next} ELSE {})
    <3> HIDE DEF prev, tgid, state
    <3> QED BY <2>1, SchedSwitchEffect
  <2>3. kept => why \in {"block", "exit"} /\ prev \in Tid
    <3>1. why \in {"yield", "preempt"} => state = TASK_RUNNING
      BY DEF ReportedState
    <3>2. kept => why \in {"block", "exit"}
      BY <3>1 DEF Stashes, SwitchReason
    <3> QED BY <1>0, <2>1, <3>2
  <2>4. kept /\ why = "block" => isOwed
    BY <2>3, <1>0 DEF Owed, Stashes, TgidOf
  <2>5. new.owed = isOwed
    OBVIOUS
  <2>6. \A t \in DOMAIN off : t # prev
    BY <1>0 DEF ThreadsOK
  <2> HIDE DEF new, kept, isOwed, state, tgid
  <2>7. /\ \A t \in DOMAIN off : t # next => t \in DOMAIN off' /\ off'[t] = off[t]
        /\ why = "block" => prev \in DOMAIN off' /\ off'[prev] = new
    BY <2>1, <2>6 DEF Put, Remove, Restrict
  <2>8. ASSUME NEW t \in DOMAIN BLOCK_START'
        PROVE  \/ t \in DOMAIN off' /\ off'[t].owed
               \/ tgidOf'[t] = NoTgid /\ born'[t] >= 1
    <3>1. CASE t \in DOMAIN BLOCK_START
      <4>1. t # next
        BY <1>0, <2>2, <2>8, <3>1 DEF NoTargetNoStalls
      <4>2. CASE t \in DOMAIN off /\ off[t].owed
        BY <2>7, <4>1, <4>2
      <4>3. CASE tgidOf[t] = NoTgid /\ born[t] >= 1
        BY <1>0, <2>1, <3>1, <4>3
      <4> QED BY <3>1, <4>2, <4>3 DEF OnlyStallsKept
    <3>2. CASE t \notin DOMAIN BLOCK_START
      <4>1. kept /\ t = prev /\ t \in Tid
        BY <2>2, <2>3, <2>8, <3>2
      <4>2. CASE why = "block"
        BY <2>4, <2>5, <2>7, <4>1, <4>2
      <4>3. CASE why = "exit"
        <5>1. tgidOf[t] # NoTgid /\ born[t] >= 1
          BY <1>0, <4>1 DEF ThreadsOK
        <5> QED BY <1>0, <2>1, <4>1, <4>3, <5>1
      <4> QED BY <2>3, <4>1, <4>2, <4>3
    <3> QED BY <3>1, <3>2
  <2> QED BY <2>8 DEF OnlyStallsKept
<1>2. ASSUME NEW t \in Tid, NEW g \in Tgid, Spawn(t, g)
      PROVE  OnlyStallsKept'
  <2>1. /\ tgidOf' = [tgidOf EXCEPT ![t] = g] /\ born' = [born EXCEPT ![t] = @ + 1]
        /\ born[t] < 1 /\ tgidOf[t] = NoTgid /\ UNCHANGED <<off, BLOCK_START>>
    BY <1>2 DEF Spawn, mapVars
  <2>2. t \notin DOMAIN BLOCK_START
    <3> SUFFICES ASSUME t \in DOMAIN BLOCK_START PROVE FALSE
      OBVIOUS
    <3>1. t \in DOMAIN off
      BY <1>0, <2>1 DEF OnlyStallsKept
    <3> QED BY <1>0, <2>1, <3>1 DEF ThreadsOK
  <2> QED BY <1>0, <2>1, <2>2 DEF OnlyStallsKept
<1>3. CASE UNCHANGED <<off, tgidOf, born, BLOCK_START>>
  BY <1>3 DEF OnlyStallsKept
<1> QED
  BY <1>1, <1>2, <1>3 DEF Next, Wakeup, FutexEnter, FutexExit, BlockRqIssue, BlockRqComplete,
     set_target_tgid, drain_ring_buffer, Quiet, vars, kernelVars, mapVars

(* If no thread is preempted in kernel mode (so that who leaves the CPU    *)
(* runnable is reported as running) and no tid is given to a second        *)
(* thread, every stall reported is one the thread really had.              *)
(* Neither condition can be dropped.                                       *)
THEOREM SchedReal ==
  ASSUME PreemptState = TASK_RUNNING, MaxBorn = 1
  PROVE  Spec => []SchedEventsReal
<1>1. Init => OnlyStallsKept /\ SchedEventsReal
  BY InitIInv, NothingReportedAtFirst DEF SchedEventsReal, RealEvents
<1>2. IInv /\ OnlyStallsKept /\ [Next]_vars => OnlyStallsKept'
  BY NextOnlyStallsKept
<1>3. IInv /\ OnlyStallsKept /\ SchedEventsReal /\ [Next]_vars => SchedEventsReal'
  BY StepReports, EventTypes DEF SchedEventsReal, RealEvents
<1> QED
  BY <1>1, <1>2, <1>3, Invariance, PTL DEF Spec

-----------------------------------------------------------------------------
(* No span is reported twice.  Every start kept in a map is older than the *)
(* clock, no two requests kept have the same start, and no report is of a  *)
(* span whose start is still in its map.                                   *)
Unreported ==
  /\ \A t \in DOMAIN BLOCK_START : BLOCK_START[t].ts < clock
  /\ \A t \in DOMAIN FUTEX_START : FUTEX_START[t].ts < clock
  /\ \A k \in DOMAIN BLOCKIO_START : BLOCKIO_START[k].ts < clock
  /\ \A k, l \in DOMAIN BLOCKIO_START : BLOCKIO_START[k].ts = BLOCKIO_START[l].ts => k = l
  /\ \A i \in DOMAIN Reports :
       /\ SpanStart(Reports[i]) < clock
       /\ Reports[i].event_type = EVENT_SCHED_BLOCK =>
            \A t \in DOMAIN BLOCK_START : BLOCK_START[t].ts = SpanStart(Reports[i])
                                            => t # Reports[i].tid
       /\ Reports[i].event_type \in {EVENT_FUTEX_WAIT, EVENT_FUTEX_WAKE} =>
            \A t \in DOMAIN FUTEX_START : FUTEX_START[t].ts = SpanStart(Reports[i])
                                            => t # Reports[i].tid
       /\ Reports[i].event_type = EVENT_BLOCK_IO =>
            \A k \in DOMAIN BLOCKIO_START : BLOCKIO_START[k].ts # SpanStart(Reports[i])

(* A start is kept only by the program that sees the span begin.           *)
KeepsOrStamps(old, new, k) ==
  \A x \in DOMAIN new : \/ x \in DOMAIN old /\ new[x] = old[x]
                        \/ x = k /\ new[x].ts = clock /\ clock' = clock + 1

StartsKept ==
  /\ clock' \in {clock, clock + 1}
  /\ \E k : KeepsOrStamps(BLOCK_START, BLOCK_START', k)
  /\ \E k : KeepsOrStamps(FUTEX_START, FUTEX_START', k)
  /\ \E k : KeepsOrStamps(BLOCKIO_START, BLOCKIO_START', k)

(* e reports the span whose start was in its map, and takes it out.        *)
Consumes(e) ==
  /\ e.timestamp_ns = clock
  /\ \/ /\ e.event_type = EVENT_SCHED_BLOCK
        /\ e.tid \in DOMAIN BLOCK_START \ DOMAIN BLOCK_START'
        /\ SpanStart(e) = BLOCK_START[e.tid].ts
     \/ /\ e.event_type \in {EVENT_FUTEX_WAIT, EVENT_FUTEX_WAKE}
        /\ e.tid \in DOMAIN FUTEX_START \ DOMAIN FUTEX_START'
        /\ SpanStart(e) = FUTEX_START[e.tid].ts
     \/ /\ e.event_type = EVENT_BLOCK_IO
        /\ \E k \in DOMAIN BLOCKIO_START \ DOMAIN BLOCKIO_START' : SpanStart(e) = BLOCKIO_START[k].ts

LEMMA StartTypes ==
  ASSUME TypeOK
  PROVE  /\ \A t \in DOMAIN BLOCK_START : BLOCK_START[t].ts \in Nat
         /\ \A t \in DOMAIN FUTEX_START : FUTEX_START[t].ts \in Nat
         /\ \A k \in DOMAIN BLOCKIO_START : BLOCKIO_START[k].ts \in Nat
<1>1. \A t \in DOMAIN BLOCK_START : BLOCK_START[t] \in BlockStart
  BY DEF TypeOK, IsMap
<1>2. \A t \in DOMAIN FUTEX_START : FUTEX_START[t] \in FutexStart
  BY DEF TypeOK, IsMap
<1>3. \A k \in DOMAIN BLOCKIO_START : BLOCKIO_START[k] \in BlockIoStart
  BY DEF TypeOK, IsMap
<1> QED BY <1>1, <1>2, <1>3 DEF BlockStart, FutexStart, BlockIoStart

(* The span an event is stamped with now began when its start was kept.    *)
LEMMA NewEventSpan ==
  ASSUME NEW now \in Nat, NEW ts \in Nat, ts <= now, NEW key, NEW pid, NEW tid, NEW type
  PROVE  LET e == NewEvent(now, SaturatingSub(now, ts), key, pid, tid, type)
         IN  /\ e.timestamp_ns = now /\ e.event_type = type /\ e.tid = tid
             /\ SpanStart(e) = ts
BY DEF NewEvent, SpanStart, SaturatingSub

LEMMA EmitReports ==
  ASSUME TypeOK, NEW e, emit(e), UNCHANGED trace
  PROVE  Reports' = Reports \/ Reports' = Append(Reports, e)
<1>1. CASE RingHasRoom
  <2>1. ring' = Append(ring, e) /\ ring \in Seq(Event) /\ trace \in Seq(Event) /\ trace' = trace
    BY <1>1 DEF emit, TypeOK
  <2>2. trace \o Append(ring, e) = Append(trace \o ring, e)
    BY <2>1
  <2> QED BY <2>1, <2>2 DEF Reports
<1>2. CASE ~RingHasRoom
  BY <1>2 DEF emit, Reports
<1> QED BY <1>1, <1>2

(* Copying a record into the trace and releasing it reports nothing new.   *)
LEMMA DrainReports ==
  ASSUME TypeOK, drain_ring_buffer
  PROVE  Reports' = Reports
<1>1. /\ ring \in Seq(Event) /\ trace \in Seq(Event) /\ ring # <<>>
      /\ ring' = Tail(ring) /\ trace' = Append(trace, Head(ring))
  BY DEF drain_ring_buffer, TypeOK
<1> DEFINE drained == Append(trace, Head(ring)) \o Tail(ring)
<1>2. /\ Len(ring) \in Nat /\ Len(ring) >= 1 /\ Len(trace) \in Nat
      /\ Tail(ring) \in Seq(Event) /\ Len(Tail(ring)) = Len(ring) - 1
      /\ \A i \in 1..(Len(ring) - 1) : Tail(ring)[i] = ring[i + 1]
      /\ Head(ring) = ring[1] /\ Head(ring) \in Event
  BY <1>1
<1>3. /\ Append(trace, Head(ring)) \in Seq(Event)
      /\ Len(Append(trace, Head(ring))) = Len(trace) + 1
      /\ Append(trace, Head(ring))[Len(trace) + 1] = ring[1]
      /\ \A i \in 1..Len(trace) : Append(trace, Head(ring))[i] = trace[i]
  BY <1>1, <1>2
<1>4. /\ drained \in Seq(Event) /\ trace \o ring \in Seq(Event)
      /\ Len(drained) = Len(trace) + Len(ring) /\ Len(trace \o ring) = Len(trace) + Len(ring)
  <2> HIDE DEF drained
  <2>1. drained \in Seq(Event) /\ Len(drained) = (Len(trace) + 1) + (Len(ring) - 1)
    BY <1>2, <1>3 DEF drained
  <2> QED BY <1>1, <1>2, <2>1
<1>5. ASSUME NEW i \in 1..(Len(trace) + Len(ring)) PROVE drained[i] = (trace \o ring)[i]
  <2>1. CASE i <= Len(trace)
    BY <1>1, <1>2, <1>3, <2>1
  <2>2. CASE i = Len(trace) + 1
    BY <1>1, <1>2, <1>3, <2>2
  <2>3. CASE i > Len(trace) + 1
    <3>1. drained[i] = Tail(ring)[i - (Len(trace) + 1)]
      BY <1>2, <1>3, <2>3
    <3>2. i - (Len(trace) + 1) \in 1..(Len(ring) - 1)
      BY <1>2, <2>3
    <3>3. drained[i] = ring[(i - (Len(trace) + 1)) + 1]
      BY <1>2, <3>1, <3>2
    <3>4. (i - (Len(trace) + 1)) + 1 = i - Len(trace)
      BY <1>2
    <3>5. (trace \o ring)[i] = ring[i - Len(trace)]
      BY <1>1, <1>2, <2>3
    <3> QED BY <3>3, <3>4, <3>5
  <2> QED BY <1>2, <2>1, <2>2, <2>3
<1>6. drained = trace \o ring
  <2> HIDE DEF drained
  <2> QED BY <1>4, <1>5
<1> QED BY <1>1, <1>6 DEF Reports

LEMMA PutKeeps ==
  ASSUME NEW map, NEW k, NEW v, v.ts = clock, clock' = clock + 1
  PROVE  KeepsOrStamps(map, Put(map, k, v), k)
BY DEF KeepsOrStamps, Put

LEMMA SameKeeps ==
  ASSUME NEW map
  PROVE  \E k : KeepsOrStamps(map, map, k)
BY DEF KeepsOrStamps

LEMMA SchedSwitchKeeps ==
  ASSUME NEW prev, NEW tgid, NEW state, NEW next, next # prev, clock' = clock + 1,
         try_sched_switch(prev, tgid, state, next)
  PROVE  KeepsOrStamps(BLOCK_START, BLOCK_START', prev)
<1> DEFINE new == [ts |-> clock, tgid |-> tgid]
           stashed == IF Stashes(tgid, state)
                      THEN Insert(BLOCK_START, BlockStartCap, prev, new) ELSE BLOCK_START
<1>1. BLOCK_START' = BLOCK_START \/ BLOCK_START' = stashed \/ BLOCK_START' = Remove(stashed, next)
  BY DEF try_sched_switch
<1>2. new.ts = clock
  OBVIOUS
<1>3. KeepsOrStamps(BLOCK_START, stashed, prev)
  <2> HIDE DEF new
  <2>1. stashed = Put(BLOCK_START, prev, new) \/ stashed = BLOCK_START
    BY DEF Insert
  <2> QED BY <1>2, <2>1 DEF KeepsOrStamps, Put
<1> HIDE DEF stashed, new
<1>4. KeepsOrStamps(BLOCK_START, Remove(stashed, next), prev)
  BY <1>3 DEF KeepsOrStamps, Remove, Restrict
<1> QED BY <1>1, <1>3, <1>4 DEF KeepsOrStamps

(* What every step does to the maps' starts.                               *)
LEMMA StepStarts ==
  ASSUME TypeOK, [Next]_vars
  PROVE  StartsKept
<1>1. ASSUME NEW c \in Cpu, NEW why \in SwitchReason, NEW next \in Tid \cup {IdleTid},
             SchedSwitch(c, why, next)
      PROVE  StartsKept
  <2> DEFINE prev == onCpu[c]
             tgid == TgidOf(prev)
             state == ReportedState(why)
  <2>1. /\ clock' = clock + 1 /\ next # prev /\ try_sched_switch(prev, tgid, state, next)
        /\ FUTEX_START' = FUTEX_START /\ BLOCKIO_START' = BLOCKIO_START
    BY <1>1 DEF SchedSwitch, Stamp
  <2> HIDE DEF prev, tgid, state
  <2>2. KeepsOrStamps(BLOCK_START, BLOCK_START', prev)
    BY <2>1, SchedSwitchKeeps
  <2>3. /\ \E k : KeepsOrStamps(BLOCK_START, BLOCK_START', k)
        /\ \E k : KeepsOrStamps(FUTEX_START, FUTEX_START', k)
        /\ \E k : KeepsOrStamps(BLOCKIO_START, BLOCKIO_START', k)
    BY <2>1, <2>2, SameKeeps
  <2> QED BY <2>1, <2>3 DEF StartsKept
<1>2. ASSUME NEW c \in Cpu, NEW cmd \in FutexCmd, NEW flag \in FutexFlag, NEW uaddr \in UAddr,
             FutexEnter(c, cmd, flag, uaddr)
      PROVE  StartsKept
  <2> DEFINE t == onCpu[c]
             new == [ts |-> clock, uaddr |-> uaddr, op |-> cmd + flag, tgid |-> tgidOf[t]]
  <2>1. /\ clock' = clock + 1 /\ try_futex_enter(t, tgidOf[t], uaddr, cmd + flag)
        /\ BLOCK_START' = BLOCK_START /\ BLOCKIO_START' = BLOCKIO_START
    BY <1>2 DEF FutexEnter, Stamp
  <2>2. FUTEX_START' = Put(FUTEX_START, t, new) \/ FUTEX_START' = FUTEX_START
    BY <2>1, FutexEnterEffect
  <2>3. new.ts = clock
    OBVIOUS
  <2> HIDE DEF t, new
  <2>4. \E k : KeepsOrStamps(FUTEX_START, FUTEX_START', k)
    BY <2>1, <2>2, <2>3, PutKeeps, SameKeeps
  <2> QED BY <2>1, <2>4, SameKeeps DEF StartsKept
<1>3. ASSUME NEW c \in Cpu, FutexExit(c)
      PROVE  StartsKept
  <2>1. /\ clock' = clock + 1 /\ try_futex_exit(onCpu[c])
        /\ BLOCK_START' = BLOCK_START /\ BLOCKIO_START' = BLOCKIO_START
    BY <1>3 DEF FutexExit, Stamp
  <2>2. FUTEX_START' = Remove(FUTEX_START, onCpu[c]) \/ FUTEX_START' = FUTEX_START
    BY <2>1 DEF try_futex_exit
  <2>3. \A k : KeepsOrStamps(FUTEX_START, FUTEX_START', k)
    BY <2>2 DEF KeepsOrStamps, Remove, Restrict
  <2> QED BY <2>1, <2>3, SameKeeps DEF StartsKept
<1>4. ASSUME NEW c \in Cpu, NEW d \in Dev, NEW s \in Sector, BlockRqIssue(c, d, s)
      PROVE  StartsKept
  <2> DEFINE t == onCpu[c]
             new == [ts |-> clock, tgid |-> tgidOf[t], tid |-> t]
  <2>1. /\ clock' = clock + 1 /\ try_block_rq_issue(t, tgidOf[t], d, s)
        /\ BLOCK_START' = BLOCK_START /\ FUTEX_START' = FUTEX_START
    BY <1>4 DEF BlockRqIssue, Stamp
  <2>2. BLOCKIO_START' = Put(BLOCKIO_START, pack_block_key(d, s), new) \/ BLOCKIO_START' = BLOCKIO_START
    BY <2>1, BlockRqIssueEffect
  <2>3. new.ts = clock
    OBVIOUS
  <2> HIDE DEF t, new
  <2>4. \E k : KeepsOrStamps(BLOCKIO_START, BLOCKIO_START', k)
    BY <2>1, <2>2, <2>3, PutKeeps, SameKeeps
  <2> QED BY <2>1, <2>4, SameKeeps DEF StartsKept
<1>5. ASSUME NEW r \in reqs, BlockRqComplete(r)
      PROVE  StartsKept
  <2>1. /\ clock' = clock + 1 /\ try_block_rq_complete(r.dev, r.sector)
        /\ BLOCK_START' = BLOCK_START /\ FUTEX_START' = FUTEX_START
    BY <1>5 DEF BlockRqComplete, Stamp
  <2>2. \A k : KeepsOrStamps(BLOCKIO_START, BLOCKIO_START', k)
    BY <2>1, BlockRqCompleteEffect DEF KeepsOrStamps
  <2> QED BY <2>1, <2>2, SameKeeps DEF StartsKept
<1>6. CASE UNCHANGED <<clock, BLOCK_START, FUTEX_START, BLOCKIO_START>>
  BY <1>6, SameKeeps DEF StartsKept
<1> QED
  BY <1>1, <1>2, <1>3, <1>4, <1>5, <1>6 DEF Next, Wakeup, Spawn, set_target_tgid,
     drain_ring_buffer, Quiet, vars, mapVars

(* What every step reports.                                                *)
LEMMA StepConsumes ==
  ASSUME TypeOK, Unreported, [Next]_vars
  PROVE  Reports' = Reports \/ \E e : Reports' = Append(Reports, e) /\ Consumes(e)
<1>0. clock \in Nat
  BY DEF TypeOK
<1>1. ASSUME NEW c \in Cpu, NEW why \in SwitchReason, NEW next \in Tid \cup {IdleTid},
             SchedSwitch(c, why, next)
      PROVE  Reports' = Reports \/ \E e : Reports' = Append(Reports, e) /\ Consumes(e)
  <2> DEFINE prev == onCpu[c]
             tgid == TgidOf(prev)
             state == ReportedState(why)
             start == BLOCK_START[next]
             ev == NewEvent(clock, SaturatingSub(clock, start.ts), 0, start.tgid, next, EVENT_SCHED_BLOCK)
             ends == target # NoTgid /\ next \in DOMAIN BLOCK_START
  <2>1. next # prev /\ UNCHANGED trace /\ try_sched_switch(prev, tgid, state, next)
    BY <1>1 DEF SchedSwitch
  <2>2. (ends => emit(ev) /\ next \notin DOMAIN BLOCK_START') /\ (~ends => ring' = ring)
    <3> HIDE DEF prev, tgid, state
    <3> QED BY <2>1, SchedSwitchEffect
  <2>3. CASE ends
    <3>1. start.ts \in Nat /\ start.ts < clock
      BY <2>3, StartTypes DEF Unreported
    <3>2. /\ ev.timestamp_ns = clock /\ ev.event_type = EVENT_SCHED_BLOCK /\ ev.tid = next
          /\ SpanStart(ev) = start.ts
      <4> HIDE DEF start
      <4> QED BY <1>0, <3>1, NewEventSpan
    <3> HIDE DEF ev
    <3>3. Consumes(ev)
      BY <2>2, <2>3, <3>2 DEF Consumes
    <3> QED BY <2>1, <2>2, <2>3, <3>3, EmitReports
  <2>4. CASE ~ends
    BY <2>1, <2>2, <2>4 DEF Reports
  <2> QED BY <2>3, <2>4
<1>2. ASSUME NEW c \in Cpu, FutexExit(c)
      PROVE  Reports' = Reports \/ \E e : Reports' = Append(Reports, e) /\ Consumes(e)
  <2> DEFINE t == onCpu[c]
             start == FUTEX_START[t]
             type == FutexEventType(BaseOp(start.op))
             ev == NewEvent(clock, SaturatingSub(clock, start.ts), start.uaddr, start.tgid, t, type)
  <2>1. UNCHANGED trace /\ try_futex_exit(t)
    BY <1>2 DEF FutexExit
  <2>2. CASE ring' = ring
    BY <2>1, <2>2 DEF Reports
  <2>3. CASE ring' # ring
    <3>1. t \in DOMAIN FUTEX_START /\ FUTEX_START' = Remove(FUTEX_START, t) /\ emit(ev)
      BY <2>1, <2>3 DEF try_futex_exit
    <3>2. t \notin DOMAIN FUTEX_START'
      <4> HIDE DEF t
      <4> QED BY <3>1 DEF Remove, Restrict
    <3>3. start.ts \in Nat /\ start.ts < clock
      BY <3>1, StartTypes DEF Unreported
    <3>4. type \in {EVENT_FUTEX_WAIT, EVENT_FUTEX_WAKE}
      BY DEF FutexEventType
    <3>5. ev.timestamp_ns = clock /\ ev.event_type = type /\ ev.tid = t /\ SpanStart(ev) = start.ts
      <4> HIDE DEF start, t, type
      <4> QED BY <1>0, <3>3, NewEventSpan
    <3> HIDE DEF ev, type
    <3>6. Consumes(ev)
      BY <3>1, <3>2, <3>4, <3>5 DEF Consumes
    <3> QED BY <2>1, <3>1, <3>6, EmitReports
  <2> QED BY <2>2, <2>3
<1>3. ASSUME NEW r \in reqs, BlockRqComplete(r)
      PROVE  Reports' = Reports \/ \E e : Reports' = Append(Reports, e) /\ Consumes(e)
  <2> DEFINE k == pack_block_key(r.dev, r.sector)
             start == BLOCKIO_START[k]
             ev == NewEvent(clock, SaturatingSub(clock, start.ts), k, start.tgid, start.tid, EVENT_BLOCK_IO)
  <2>1. /\ UNCHANGED trace /\ try_block_rq_complete(r.dev, r.sector)
        /\ IF k \in DOMAIN BLOCKIO_START THEN emit(ev) ELSE UNCHANGED ring
    BY <1>3 DEF BlockRqComplete, try_block_rq_complete
  <2>2. k \notin DOMAIN BLOCKIO_START'
    BY <2>1, BlockRqCompleteEffect
  <2>3. CASE k \in DOMAIN BLOCKIO_START
    <3>1. start.ts \in Nat /\ start.ts < clock
      BY <2>3, StartTypes DEF Unreported
    <3>2. ev.timestamp_ns = clock /\ ev.event_type = EVENT_BLOCK_IO /\ SpanStart(ev) = start.ts
      <4> HIDE DEF start, k
      <4> QED BY <1>0, <3>1, NewEventSpan
    <3> HIDE DEF ev, k
    <3>3. Consumes(ev)
      BY <2>2, <2>3, <3>2 DEF Consumes
    <3> QED BY <2>1, <2>3, <3>3, EmitReports
  <2>4. CASE k \notin DOMAIN BLOCKIO_START
    BY <2>1, <2>4 DEF Reports
  <2> QED BY <2>3, <2>4
<1>4. CASE drain_ring_buffer
  BY <1>4, DrainReports
<1>5. CASE UNCHANGED <<ring, trace>>
  BY <1>5 DEF Reports
<1> QED
  BY <1>1, <1>2, <1>3, <1>4, <1>5 DEF Next, Wakeup, Spawn, FutexEnter, BlockRqIssue,
     set_target_tgid, Quiet, vars, mapVars

LEMMA ReportFields ==
  ASSUME TypeOK
  PROVE  /\ Reports \in Seq(Event) /\ Len(Reports) \in Nat /\ DOMAIN Reports = 1..Len(Reports)
         /\ \A i \in DOMAIN Reports : SpanStart(Reports[i]) \in Nat
<1>1. ring \in Seq(Event) /\ trace \in Seq(Event)
  BY DEF TypeOK
<1>2. Reports \in Seq(Event)
  BY <1>1 DEF Reports
<1>3. ASSUME NEW i \in DOMAIN Reports PROVE SpanStart(Reports[i]) \in Nat
  <2>1. Reports[i] \in Event
    BY <1>2, <1>3
  <2>2. Reports[i].timestamp_ns \in Nat /\ Reports[i].duration_ns \in Nat
    BY <2>1 DEF Event
  <2> QED BY <2>2 DEF SpanStart, SaturatingSub
<1> QED BY <1>2, <1>3

(* A start that was not reported and is kept, or is kept now, is older     *)
(* than the clock and is not that of an older report.                      *)
LEMMA KeptStarts ==
  ASSUME NEW now \in Nat, NEW later, NEW old, NEW new, NEW k,
         later = now \/ later = now + 1,
         \A x \in DOMAIN old : old[x].ts \in Nat /\ old[x].ts < now,
         \A x \in DOMAIN new : \/ x \in DOMAIN old /\ new[x] = old[x]
                               \/ x = k /\ new[x].ts = now /\ later = now + 1
  PROVE  /\ \A x \in DOMAIN new : new[x].ts < later
         /\ \A x \in DOMAIN new, at \in Nat : at < now /\ new[x].ts = at
              => x \in DOMAIN old /\ new[x] = old[x]
         /\ \A x, y \in DOMAIN new : new[x].ts = new[y].ts
              => x = y \/ (/\ x \in DOMAIN old /\ new[x] = old[x]
                           /\ y \in DOMAIN old /\ new[y] = old[y])
<1>1. \A x \in DOMAIN new : new[x].ts < later
  OBVIOUS
<1>2. ASSUME NEW x \in DOMAIN new, NEW at \in Nat, at < now, new[x].ts = at
      PROVE  x \in DOMAIN old /\ new[x] = old[x]
  BY <1>2
<1>3. ASSUME NEW x \in DOMAIN new, NEW y \in DOMAIN new, new[x].ts = new[y].ts, x # y
      PROVE  /\ x \in DOMAIN old /\ new[x] = old[x]
             /\ y \in DOMAIN old /\ new[y] = old[y]
  BY <1>3
<1> QED BY <1>1, <1>2, <1>3

(* The three maps at once.                                                 *)
LEMMA StartsKeptMeans ==
  ASSUME TypeOK, Unreported, StartsKept
  PROVE  /\ clock' = clock \/ clock' = clock + 1
         /\ \A t \in DOMAIN BLOCK_START' : BLOCK_START'[t].ts < clock'
         /\ \A t \in DOMAIN FUTEX_START' : FUTEX_START'[t].ts < clock'
         /\ \A k \in DOMAIN BLOCKIO_START' : BLOCKIO_START'[k].ts < clock'
         /\ \A t \in DOMAIN BLOCK_START', at \in Nat : at < clock /\ BLOCK_START'[t].ts = at
              => t \in DOMAIN BLOCK_START /\ BLOCK_START'[t] = BLOCK_START[t]
         /\ \A t \in DOMAIN FUTEX_START', at \in Nat : at < clock /\ FUTEX_START'[t].ts = at
              => t \in DOMAIN FUTEX_START /\ FUTEX_START'[t] = FUTEX_START[t]
         /\ \A k \in DOMAIN BLOCKIO_START', at \in Nat : at < clock /\ BLOCKIO_START'[k].ts = at
              => k \in DOMAIN BLOCKIO_START /\ BLOCKIO_START'[k] = BLOCKIO_START[k]
         /\ \A k, l \in DOMAIN BLOCKIO_START' : BLOCKIO_START'[k].ts = BLOCKIO_START'[l].ts => k = l
<1>0. /\ clock \in Nat
      /\ \A t \in DOMAIN BLOCK_START : BLOCK_START[t].ts \in Nat /\ BLOCK_START[t].ts < clock
      /\ \A t \in DOMAIN FUTEX_START : FUTEX_START[t].ts \in Nat /\ FUTEX_START[t].ts < clock
      /\ \A k \in DOMAIN BLOCKIO_START : BLOCKIO_START[k].ts \in Nat /\ BLOCKIO_START[k].ts < clock
  BY StartTypes DEF TypeOK, Unreported
<1>1. clock' = clock \/ clock' = clock + 1
  BY DEF StartsKept
<1>2. PICK k : KeepsOrStamps(BLOCK_START, BLOCK_START', k)
  BY DEF StartsKept
<1>3. /\ \A t \in DOMAIN BLOCK_START' : BLOCK_START'[t].ts < clock'
      /\ \A t \in DOMAIN BLOCK_START', at \in Nat : at < clock /\ BLOCK_START'[t].ts = at
           => t \in DOMAIN BLOCK_START /\ BLOCK_START'[t] = BLOCK_START[t]
  BY <1>0, <1>1, <1>2, KeptStarts DEF KeepsOrStamps
<1>4. PICK k2 : KeepsOrStamps(FUTEX_START, FUTEX_START', k2)
  BY DEF StartsKept
<1>5. /\ \A t \in DOMAIN FUTEX_START' : FUTEX_START'[t].ts < clock'
      /\ \A t \in DOMAIN FUTEX_START', at \in Nat : at < clock /\ FUTEX_START'[t].ts = at
           => t \in DOMAIN FUTEX_START /\ FUTEX_START'[t] = FUTEX_START[t]
  BY <1>0, <1>1, <1>4, KeptStarts DEF KeepsOrStamps
<1>6. PICK k3 : KeepsOrStamps(BLOCKIO_START, BLOCKIO_START', k3)
  BY DEF StartsKept
<1>7. /\ \A k4 \in DOMAIN BLOCKIO_START' : BLOCKIO_START'[k4].ts < clock'
      /\ \A k4 \in DOMAIN BLOCKIO_START', at \in Nat : at < clock /\ BLOCKIO_START'[k4].ts = at
           => k4 \in DOMAIN BLOCKIO_START /\ BLOCKIO_START'[k4] = BLOCKIO_START[k4]
      /\ \A x, y \in DOMAIN BLOCKIO_START' : BLOCKIO_START'[x].ts = BLOCKIO_START'[y].ts
           => x = y \/ (/\ x \in DOMAIN BLOCKIO_START /\ BLOCKIO_START'[x] = BLOCKIO_START[x]
                        /\ y \in DOMAIN BLOCKIO_START /\ BLOCKIO_START'[y] = BLOCKIO_START[y])
  BY <1>0, <1>1, <1>6, KeptStarts DEF KeepsOrStamps
<1>8. ASSUME NEW x \in DOMAIN BLOCKIO_START', NEW y \in DOMAIN BLOCKIO_START',
             BLOCKIO_START'[x].ts = BLOCKIO_START'[y].ts
      PROVE  x = y
  BY <1>7, <1>8 DEF Unreported
<1> QED BY <1>1, <1>3, <1>5, <1>7, <1>8

(* A step that reports nothing, or the span it takes out of a map, leaves  *)
(* no report of a span that is still open.                                 *)
LEMMA NextUnreported ==
  ASSUME TypeOK, Unreported, [Next]_vars
  PROVE  Unreported'
<1> DEFINE
      Clear(e, later, sched, futex, io) ==
        /\ SpanStart(e) < later
        /\ e.event_type = EVENT_SCHED_BLOCK =>
             \A t \in DOMAIN sched : sched[t].ts = SpanStart(e) => t # e.tid
        /\ e.event_type \in {EVENT_FUTEX_WAIT, EVENT_FUTEX_WAKE} =>
             \A t \in DOMAIN futex : futex[t].ts = SpanStart(e) => t # e.tid
        /\ e.event_type = EVENT_BLOCK_IO =>
             \A k \in DOMAIN io : io[k].ts # SpanStart(e)
      Clear0(e) == Clear(e, clock, BLOCK_START, FUTEX_START, BLOCKIO_START)
      Clear1(e) == Clear(e, clock', BLOCK_START', FUTEX_START', BLOCKIO_START')
<1>0. clock \in Nat
  BY DEF TypeOK
<1>1. StartsKept
  BY StepStarts
<1>2. /\ clock' = clock \/ clock' = clock + 1
      /\ \A t \in DOMAIN BLOCK_START', at \in Nat : at < clock /\ BLOCK_START'[t].ts = at
           => t \in DOMAIN BLOCK_START /\ BLOCK_START'[t] = BLOCK_START[t]
      /\ \A t \in DOMAIN FUTEX_START', at \in Nat : at < clock /\ FUTEX_START'[t].ts = at
           => t \in DOMAIN FUTEX_START /\ FUTEX_START'[t] = FUTEX_START[t]
      /\ \A k \in DOMAIN BLOCKIO_START', at \in Nat : at < clock /\ BLOCKIO_START'[k].ts = at
           => k \in DOMAIN BLOCKIO_START /\ BLOCKIO_START'[k] = BLOCKIO_START[k]
  BY <1>1, StartsKeptMeans
<1>3. ASSUME NEW e, SpanStart(e) \in Nat, Clear0(e)
      PROVE  Clear1(e)
  <2>1. SpanStart(e) < clock'
    BY <1>0, <1>2, <1>3
  <2>2. ASSUME e.event_type = EVENT_SCHED_BLOCK, NEW t \in DOMAIN BLOCK_START',
               BLOCK_START'[t].ts = SpanStart(e)
        PROVE  t # e.tid
    BY <1>2, <1>3, <2>2
  <2>3. ASSUME e.event_type \in {EVENT_FUTEX_WAIT, EVENT_FUTEX_WAKE}, NEW t \in DOMAIN FUTEX_START',
               FUTEX_START'[t].ts = SpanStart(e)
        PROVE  t # e.tid
    BY <1>2, <1>3, <2>3
  <2>4. ASSUME e.event_type = EVENT_BLOCK_IO, NEW k \in DOMAIN BLOCKIO_START',
               BLOCKIO_START'[k].ts = SpanStart(e)
        PROVE  FALSE
    BY <1>2, <1>3, <2>4
  <2> QED BY <2>1, <2>2, <2>3, <2>4
<1>4. ASSUME NEW e, Consumes(e)
      PROVE  Clear1(e)
  <2>1. SpanStart(e) \in Nat /\ SpanStart(e) < clock
    BY <1>4, StartTypes DEF Consumes, Unreported
  <2>2. SpanStart(e) < clock'
    BY <1>0, <1>2, <2>1
  <2>3. CASE /\ e.event_type = EVENT_SCHED_BLOCK
             /\ e.tid \in DOMAIN BLOCK_START \ DOMAIN BLOCK_START'
    BY <2>2, <2>3, EventTypes
  <2>4. CASE /\ e.event_type \in {EVENT_FUTEX_WAIT, EVENT_FUTEX_WAKE}
             /\ e.tid \in DOMAIN FUTEX_START \ DOMAIN FUTEX_START'
    BY <2>2, <2>4, EventTypes
  <2>5. CASE /\ e.event_type = EVENT_BLOCK_IO
             /\ \E k \in DOMAIN BLOCKIO_START \ DOMAIN BLOCKIO_START' : SpanStart(e) = BLOCKIO_START[k].ts
    <3>1. PICK k \in DOMAIN BLOCKIO_START \ DOMAIN BLOCKIO_START' : SpanStart(e) = BLOCKIO_START[k].ts
      BY <2>5
    <3>2. ASSUME NEW l \in DOMAIN BLOCKIO_START', BLOCKIO_START'[l].ts = SpanStart(e)
          PROVE  FALSE
      <4>1. l \in DOMAIN BLOCKIO_START /\ BLOCKIO_START[l].ts = BLOCKIO_START[k].ts
        BY <1>2, <2>1, <3>1, <3>2
      <4>2. l = k
        BY <3>1, <4>1 DEF Unreported
      <4> QED BY <3>1, <3>2, <4>2
    <3> QED BY <2>2, <2>5, <3>2, EventTypes
  <2> QED BY <1>4, <2>3, <2>4, <2>5 DEF Consumes
<1>5. \A i \in DOMAIN Reports : Clear1(Reports[i])
  <2>1. \A i \in DOMAIN Reports : SpanStart(Reports[i]) \in Nat /\ Clear0(Reports[i])
    BY ReportFields DEF Unreported
  <2> HIDE DEF Clear0, Clear1
  <2> QED BY <1>3, <2>1
<1>6. \A i \in DOMAIN Reports' : Clear1(Reports'[i])
  <2> HIDE DEF Clear0, Clear1
  <2>1. CASE Reports' = Reports
    BY <1>5, <2>1
  <2>2. CASE \E e : Reports' = Append(Reports, e) /\ Consumes(e)
    <3>1. PICK e : Reports' = Append(Reports, e) /\ Consumes(e)
      BY <2>2
    <3>2. /\ DOMAIN Reports' = 1..(Len(Reports) + 1) /\ Reports'[Len(Reports) + 1] = e
          /\ \A i \in 1..Len(Reports) : Reports'[i] = Reports[i]
          /\ Len(Reports) \in Nat /\ DOMAIN Reports = 1..Len(Reports)
      BY <3>1, ReportFields
    <3>3. \A i \in 1..(Len(Reports) + 1) : i = Len(Reports) + 1 \/ i \in 1..Len(Reports)
      BY <3>2
    <3> QED BY <1>4, <1>5, <3>1, <3>2, <3>3
  <2> QED BY <2>1, <2>2, StepConsumes
<1> QED BY <1>1, <1>6, StartsKeptMeans DEF Unreported

(* What is reported now was open, what was reported before was not.        *)
LEMMA NextReportedOnce ==
  ASSUME TypeOK, Unreported, ReportedOnce, [Next]_vars
  PROVE  ReportedOnce'
<1>1. CASE Reports' = Reports
  BY <1>1 DEF ReportedOnce
<1>2. CASE \E e : Reports' = Append(Reports, e) /\ Consumes(e)
  <2>1. PICK e : Reports' = Append(Reports, e) /\ Consumes(e)
    BY <1>2
  <2>2. /\ DOMAIN Reports' = 1..(Len(Reports) + 1) /\ Reports'[Len(Reports) + 1] = e
        /\ \A i \in 1..Len(Reports) : Reports'[i] = Reports[i]
        /\ Len(Reports) \in Nat /\ DOMAIN Reports = 1..Len(Reports)
    BY <2>1, ReportFields
  <2>3. ASSUME NEW i \in DOMAIN Reports, SpanOf(Reports[i]) = SpanOf(e)
        PROVE  FALSE
    <3>1. /\ Reports[i].event_type = e.event_type /\ Reports[i].tid = e.tid
          /\ SpanStart(Reports[i]) = SpanStart(e)
      BY <2>3 DEF SpanOf
    <3> QED BY <2>1, <2>3, <3>1 DEF Consumes, Unreported
  <2>4. \A i \in 1..(Len(Reports) + 1) : i = Len(Reports) + 1 \/ i \in 1..Len(Reports)
    BY <2>2
  <2>5. ASSUME NEW i \in DOMAIN Reports', NEW j \in DOMAIN Reports',
               SpanOf(Reports'[i]) = SpanOf(Reports'[j])
        PROVE  i = j
    <3>1. CASE i \in DOMAIN Reports /\ j \in DOMAIN Reports
      BY <2>2, <2>5, <3>1 DEF ReportedOnce
    <3>2. CASE i = Len(Reports) + 1 \/ j = Len(Reports) + 1
      BY <2>2, <2>3, <2>4, <2>5, <3>2
    <3> QED BY <2>2, <2>4, <3>1, <3>2
  <2> QED BY <2>5 DEF ReportedOnce, SpanOf
<1> QED BY <1>1, <1>2, StepConsumes

(* No span is reported twice, whatever the threads, tids and requests do   *)
(* and however full the maps and the ring buffer are: the program that     *)
(* ends a span removes its start, and drain_ring_buffer releases what it   *)
(* has copied.                                                             *)
THEOREM OnceOnly == Spec => []ReportedOnce
<1>1. Init => Unreported /\ ReportedOnce
  <2> SUFFICES ASSUME Init PROVE Unreported /\ ReportedOnce
    OBVIOUS
  <2>1. Reports = <<>> /\ BLOCK_START = <<>> /\ FUTEX_START = <<>> /\ BLOCKIO_START = <<>>
    BY DEF Init, Reports
  <2> QED BY <2>1 DEF Unreported, ReportedOnce
<1>2. TypeOK /\ Unreported /\ ReportedOnce /\ [Next]_vars => Unreported' /\ ReportedOnce'
  BY NextUnreported, NextReportedOnce
<1> QED BY <1>1, <1>2, TypeCorrect, PTL DEF Spec

(* What a thread was reported for had ended when its next span began: a    *)
(* start kept for a thread is not older than any of its reports.           *)
StartsAfterReports ==
  \A i \in DOMAIN Reports :
    /\ Reports[i].timestamp_ns <= clock
    /\ Reports[i].event_type = EVENT_SCHED_BLOCK =>
         \A t \in DOMAIN BLOCK_START :
           t = Reports[i].tid => Reports[i].timestamp_ns <= BLOCK_START[t].ts
    /\ Reports[i].event_type \in {EVENT_FUTEX_WAIT, EVENT_FUTEX_WAKE} =>
         \A t \in DOMAIN FUTEX_START :
           t = Reports[i].tid => Reports[i].timestamp_ns <= FUTEX_START[t].ts

LEMMA NextStartsAfterReports ==
  ASSUME TypeOK, Unreported, StartsAfterReports, [Next]_vars
  PROVE  StartsAfterReports'
<1> DEFINE
      Past(e, later, sched, futex) ==
        /\ e.timestamp_ns <= later
        /\ e.event_type = EVENT_SCHED_BLOCK =>
             \A t \in DOMAIN sched : t = e.tid => e.timestamp_ns <= sched[t].ts
        /\ e.event_type \in {EVENT_FUTEX_WAIT, EVENT_FUTEX_WAKE} =>
             \A t \in DOMAIN futex : t = e.tid => e.timestamp_ns <= futex[t].ts
      Past0(e) == Past(e, clock, BLOCK_START, FUTEX_START)
      Past1(e) == Past(e, clock', BLOCK_START', FUTEX_START')
<1>0. clock \in Nat
  BY DEF TypeOK
<1>1. /\ clock' = clock \/ clock' = clock + 1
      /\ \A t \in DOMAIN BLOCK_START' : \/ t \in DOMAIN BLOCK_START /\ BLOCK_START'[t] = BLOCK_START[t]
                                        \/ BLOCK_START'[t].ts = clock
      /\ \A t \in DOMAIN FUTEX_START' : \/ t \in DOMAIN FUTEX_START /\ FUTEX_START'[t] = FUTEX_START[t]
                                        \/ FUTEX_START'[t].ts = clock
  BY StepStarts DEF StartsKept, KeepsOrStamps
<1>2. ASSUME NEW e, e.timestamp_ns \in Nat, Past0(e)
      PROVE  Past1(e)
  <2>1. e.timestamp_ns <= clock /\ e.timestamp_ns <= clock'
    BY <1>0, <1>1, <1>2
  <2>2. ASSUME e.event_type = EVENT_SCHED_BLOCK, NEW t \in DOMAIN BLOCK_START', t = e.tid
        PROVE  e.timestamp_ns <= BLOCK_START'[t].ts
    BY <1>1, <1>2, <2>1, <2>2
  <2>3. ASSUME e.event_type \in {EVENT_FUTEX_WAIT, EVENT_FUTEX_WAKE},
               NEW t \in DOMAIN FUTEX_START', t = e.tid
        PROVE  e.timestamp_ns <= FUTEX_START'[t].ts
    BY <1>1, <1>2, <2>1, <2>3
  <2> QED BY <2>1, <2>2, <2>3
<1>3. ASSUME NEW e, Consumes(e)
      PROVE  Past1(e)
  <2>1. e.timestamp_ns <= clock'
    BY <1>0, <1>1, <1>3 DEF Consumes
  <2> QED BY <1>3, <2>1, EventTypes DEF Consumes
<1>4. \A i \in DOMAIN Reports : Past1(Reports[i])
  <2>1. \A i \in DOMAIN Reports : Reports[i] \in Event /\ Past0(Reports[i])
    BY ReportFields DEF StartsAfterReports
  <2>2. \A i \in DOMAIN Reports : Reports[i].timestamp_ns \in Nat
    BY <2>1 DEF Event
  <2> HIDE DEF Past0, Past1
  <2> QED BY <1>2, <2>1, <2>2
<1>5. \A i \in DOMAIN Reports' : Past1(Reports'[i])
  <2> HIDE DEF Past0, Past1
  <2>1. CASE Reports' = Reports
    BY <1>4, <2>1
  <2>2. CASE \E e : Reports' = Append(Reports, e) /\ Consumes(e)
    <3>1. PICK e : Reports' = Append(Reports, e) /\ Consumes(e)
      BY <2>2
    <3>2. /\ DOMAIN Reports' = 1..(Len(Reports) + 1) /\ Reports'[Len(Reports) + 1] = e
          /\ \A i \in 1..Len(Reports) : Reports'[i] = Reports[i]
          /\ Len(Reports) \in Nat /\ DOMAIN Reports = 1..Len(Reports)
      BY <3>1, ReportFields
    <3>3. \A i \in 1..(Len(Reports) + 1) : i = Len(Reports) + 1 \/ i \in 1..Len(Reports)
      BY <3>2
    <3> QED BY <1>3, <1>4, <3>1, <3>2, <3>3
  <2> QED BY <2>1, <2>2, StepConsumes
<1> QED BY <1>5 DEF StartsAfterReports

LEMMA NextSpansDisjoint ==
  ASSUME TypeOK, Unreported, StartsAfterReports, SpansDisjoint, [Next]_vars
  PROVE  SpansDisjoint'
<1>1. CASE Reports' = Reports
  BY <1>1 DEF SpansDisjoint, ThreadSpans
<1>2. CASE \E e : Reports' = Append(Reports, e) /\ Consumes(e)
  <2>1. PICK e : Reports' = Append(Reports, e) /\ Consumes(e)
    BY <1>2
  <2>2. /\ DOMAIN Reports' = 1..(Len(Reports) + 1) /\ Reports'[Len(Reports) + 1] = e
        /\ \A i \in 1..Len(Reports) : Reports'[i] = Reports[i]
        /\ Len(Reports) \in Nat /\ DOMAIN Reports = 1..Len(Reports)
    BY <2>1, ReportFields
  <2>3. ASSUME NEW i \in DOMAIN Reports, NEW kinds \in ThreadSpans, Reports[i].tid = e.tid,
               Reports[i].event_type \in kinds, e.event_type \in kinds
        PROVE  Reports[i].timestamp_ns <= SpanStart(e)
    <3>1. CASE kinds = {EVENT_SCHED_BLOCK}
      BY <2>1, <2>3, <3>1, EventTypes DEF Consumes, StartsAfterReports
    <3>2. CASE kinds = {EVENT_FUTEX_WAIT, EVENT_FUTEX_WAKE}
      BY <2>1, <2>3, <3>2, EventTypes DEF Consumes, StartsAfterReports
    <3> QED BY <2>3, <3>1, <3>2 DEF ThreadSpans
  <2>4. ASSUME NEW i \in DOMAIN Reports', NEW j \in DOMAIN Reports', NEW kinds \in ThreadSpans,
               i < j, Reports'[i].tid = Reports'[j].tid,
               {Reports'[i].event_type, Reports'[j].event_type} \subseteq kinds
        PROVE  Reports'[i].timestamp_ns <= SpanStart(Reports'[j])
    <3>1. i \in DOMAIN Reports /\ Reports'[i] = Reports[i]
      BY <2>2, <2>4
    <3>2. CASE j = Len(Reports) + 1
      BY <2>2, <2>3, <2>4, <3>1, <3>2
    <3>3. CASE j # Len(Reports) + 1
      <4>1. j \in DOMAIN Reports /\ Reports'[j] = Reports[j]
        BY <2>2, <3>3
      <4> QED BY <2>4, <3>1, <4>1 DEF SpansDisjoint
    <3> QED BY <3>2, <3>3
  <2> QED BY <2>4 DEF SpansDisjoint, SpanStart, ThreadSpans
<1> QED BY <1>1, <1>2, StepConsumes

(* The stalls reported of one thread do not overlap and come in the order  *)
(* they happened, and so do its futex calls, whatever tids are reused and  *)
(* whatever try_sched_switch and try_futex_enter had no room for.          *)
THEOREM OneAtATime == Spec => []SpansDisjoint
<1>1. Init => Unreported /\ StartsAfterReports /\ SpansDisjoint
  <2> SUFFICES ASSUME Init PROVE Unreported /\ StartsAfterReports /\ SpansDisjoint
    OBVIOUS
  <2>1. Reports = <<>> /\ BLOCK_START = <<>> /\ FUTEX_START = <<>> /\ BLOCKIO_START = <<>>
    BY DEF Init, Reports
  <2> QED BY <2>1 DEF Unreported, StartsAfterReports, SpansDisjoint
<1>2. TypeOK /\ Unreported /\ StartsAfterReports /\ SpansDisjoint /\ [Next]_vars
        => Unreported' /\ StartsAfterReports' /\ SpansDisjoint'
  BY NextUnreported, NextStartsAfterReports, NextSpansDisjoint
<1> QED BY <1>1, <1>2, TypeCorrect, PTL DEF Spec
=============================================================================
