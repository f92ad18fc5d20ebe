------------------------------- MODULE Probes -------------------------------
(***************************************************************************)
(* The five eBPF programs of whyslow-ebpf/src/main.rs, running inside a    *)
(* kernel that switches threads on CPUs, runs futex system calls and       *)
(* serves block I/O requests, and the userspace loop that empties the ring *)
(* buffer they write to.                                                   *)
(*                                                                         *)
(* The kernel's side (external) is a small scheduler.  Beside it the       *)
(* variable `owed` keeps the kernel's own account of what the traced       *)
(* process did: every span that began after the target was set, found room *)
(* in its hash map when it began and room in the ring buffer when it       *)
(* ended.  The programs know nothing of that account; the properties       *)
(* compare what they report with it.                                       *)
(***************************************************************************)
EXTENDS Events, Sequences, FiniteSets, Functions

CONSTANTS
  Tid,            \* thread ids
  Tgid,           \* process (thread group) ids
  InitTgid,       \* who exists at the start: [Tid -> Tgid \cup {NoTgid}]
  Target,         \* the tgid userspace asks to trace
  Cpu,
  UAddr,          \* futex addresses
  FutexCmd,       \* futex commands the threads use (FUTEX_WAIT, ...)
  FutexFlag,      \* flag bits or-ed into the command
  Dev, Sector,    \* block devices and sectors
  PreemptState,   \* prev_state of a thread preempted in the kernel, or 0: there is none
  ExclusiveKeys,  \* no two requests with the same packed key are in flight
  BlockStartCap, FutexStartCap, BlockIoStartCap,   \* with_max_entries
  RingCap,        \* EVENTS.reserve: records the ring buffer has room for
  MaxClock,       \* bound: stamped kernel events in a behaviour
  MaxBorn         \* bound: threads that may be created on one tid

VARIABLES
  clock,          \* bpf_ktime_get_ns
  tgidOf,         \* [Tid -> Tgid \cup {NoTgid}], NoTgid when the tid is free
  onCpu,          \* [Cpu -> Tid \cup {IdleTid}]
  blocked,        \* threads not runnable
  born,           \* [Tid -> 0..MaxBorn]
  off,            \* stalls under way: tid -> when it left the CPU, is it owed
  call,           \* futex system calls under way: tid -> the call
  reqs,           \* block requests in flight
  target,         \* TARGET_TGID[0]
  BLOCK_START, FUTEX_START, BLOCKIO_START,         \* the BPF hash maps
  ring,           \* EVENTS
  trace,          \* the `events` vector of drain_ring_buffer
  owed            \* the kernel's account of the spans to be reported

kernelVars == <<tgidOf, onCpu, blocked, born, off, call, reqs>>
mapVars    == <<BLOCK_START, FUTEX_START, BLOCKIO_START>>
vars       == <<clock, kernelVars, target, mapVars, ring, trace, owed>>

NoTgid  == 0      \* TARGET_TGID: "0 means not set yet"
IdleTid == 0      \* the swapper task

TASK_RUNNING       == 0
TASK_INTERRUPTIBLE == 1
EXIT_DEAD          == 16

FUTEX_WAIT            == 0
FUTEX_WAKE            == 1
FUTEX_WAIT_BITSET     == 9
FUTEX_WAKE_BITSET     == 10
FUTEX_PRIVATE_FLAG    == 128
FUTEX_CLOCK_REALTIME  == 256

ASSUME ProbesAssumption ==
  /\ Tid \subseteq Nat \ {IdleTid}
  /\ Tgid \subseteq Nat \ {NoTgid}
  /\ Target \in Tgid
  /\ InitTgid \in [Tid -> Tgid \cup {NoTgid}]
  /\ UAddr \subseteq Nat
  /\ FutexCmd \subseteq 0..127
  /\ FutexFlag \subseteq {0, FUTEX_PRIVATE_FLAG, FUTEX_CLOCK_REALTIME,
                          FUTEX_PRIVATE_FLAG + FUTEX_CLOCK_REALTIME}
  /\ Dev \subseteq Nat /\ Sector \subseteq Nat
  /\ PreemptState \in Nat
  /\ ExclusiveKeys \in BOOLEAN
  /\ {BlockStartCap, FutexStartCap, BlockIoStartCap, RingCap, MaxClock, MaxBorn} \subseteq Nat

-----------------------------------------------------------------------------
(* The values of the hash maps (`comm` left out).                          *)
BlockStart   == [ts : Nat, tgid : Tgid]
FutexStart   == [ts : Nat, uaddr : UAddr, op : Nat, tgid : Tgid]
BlockIoStart == [ts : Nat, tgid : Tgid, tid : Tid]

(* BPF maps: a hash map refuses a new key when it is full and replaces the *)
(* value of a key it has; the ring buffer refuses a record when it is full *)

HasRoom(map, cap, k) == k \in DOMAIN map \/ Cardinality(DOMAIN map) < cap

Put(map, k, v) == [x \in DOMAIN map \cup {k} |-> IF x = k THEN v ELSE map[x]]

Insert(map, cap, k, v) == IF HasRoom(map, cap, k) THEN Put(map, k, v) ELSE map

Remove(map, k) == Restrict(map, DOMAIN map \ {k})

RingHasRoom == Len(ring) < RingCap

emit(ev) == ring' = IF RingHasRoom THEN Append(ring, ev) ELSE ring

-----------------------------------------------------------------------------
(* The eBPF programs.  Each is given what its tracepoint and the helper    *)
(* functions (current tid, current tgid) would tell it.  A definition with *)
(* an underscored suffix is a faulty variant of the one after it, kept to  *)
(* show which property notices the fault.                                  *)

Filtered_Off(tgid) == target = NoTgid

(* The programs keyed to the current process return early.                 *)
Filtered(tgid) == target = NoTgid \/ tgid # target

Stashes_AnyState(prev_tgid, prev_state) == prev_tgid = target

Stashes(prev_tgid, prev_state) == prev_state # TASK_RUNNING /\ prev_tgid = target

try_sched_switch_EarlyReturn(prev_tid, prev_tgid, prev_state, next_tid) ==
  IF target = NoTgid \/ Stashes(prev_tgid, prev_state)
  THEN /\ BLOCK_START' = IF target = NoTgid THEN BLOCK_START
                         ELSE Insert(BLOCK_START, BlockStartCap, prev_tid,
                                     [ts |-> clock, tgid |-> prev_tgid])
       /\ UNCHANGED ring
  ELSE IF next_tid \in DOMAIN BLOCK_START
  THEN /\ BLOCK_START' = Remove(BLOCK_START, next_tid)
       /\ emit(NewEvent(clock, clock - BLOCK_START[next_tid].ts, 0,
                        BLOCK_START[next_tid].tgid, next_tid, EVENT_SCHED_BLOCK))
  ELSE UNCHANGED <<BLOCK_START, ring>>

try_sched_switch_KeepsStart(prev_tid, prev_tgid, prev_state, next_tid) ==
  LET stashed == IF Stashes(prev_tgid, prev_state)
                 THEN Insert(BLOCK_START, BlockStartCap, prev_tid,
                             [ts |-> clock, tgid |-> prev_tgid])
                 ELSE BLOCK_START
      start   == stashed[next_tid]
  IN  IF target = NoTgid
      THEN UNCHANGED <<BLOCK_START, ring>>
      ELSE /\ BLOCK_START' = stashed
           /\ IF next_tid \in DOMAIN stashed
              THEN emit(NewEvent(clock, SaturatingSub(clock, start.ts), 0,
                                 start.tgid, next_tid, EVENT_SCHED_BLOCK))
              ELSE UNCHANGED ring

try_sched_switch(prev_tid, prev_tgid, prev_state, next_tid) ==
  LET stashed == IF Stashes(prev_tgid, prev_state)
                 THEN Insert(BLOCK_START, BlockStartCap, prev_tid,
                             [ts |-> clock, tgid |-> prev_tgid])
                 ELSE BLOCK_START
      start   == stashed[next_tid]
  IN  IF target = NoTgid
      THEN UNCHANGED <<BLOCK_START, ring>>
      ELSE IF next_tid \in DOMAIN stashed
      THEN /\ BLOCK_START' = Remove(stashed, next_tid)
           /\ emit(NewEvent(clock, SaturatingSub(clock, start.ts), 0,
                            start.tgid, next_tid, EVENT_SCHED_BLOCK))
      ELSE /\ BLOCK_START' = stashed
           /\ UNCHANGED ring

try_futex_enter(tid, tgid, uaddr, op) ==
  FUTEX_START' = IF Filtered(tgid)
                 THEN FUTEX_START
                 ELSE Insert(FUTEX_START, FutexStartCap, tid,
                             [ts |-> clock, uaddr |-> uaddr, op |-> op, tgid |-> tgid])

(* op & FUTEX_CMD_MASK: bits 7 (private) and 8 (realtime clock) cleared    *)
BaseOp(op) == (op % FUTEX_PRIVATE_FLAG) + 512 * (op \div 512)

Waits == {FUTEX_WAIT, FUTEX_WAIT_BITSET}
Wakes == {FUTEX_WAKE, FUTEX_WAKE_BITSET}

(* The type of event a wait or a wake is reported as.                      *)
FutexEventType(base_op) == IF base_op \in Waits THEN EVENT_FUTEX_WAIT ELSE EVENT_FUTEX_WAKE

try_futex_exit_KeepsOthers(tid) ==
  IF tid \notin DOMAIN FUTEX_START \/ BaseOp(FUTEX_START[tid].op) \notin Waits \cup Wakes
  THEN UNCHANGED <<FUTEX_START, ring>>
  ELSE LET start == FUTEX_START[tid]
       IN  /\ FUTEX_START' = Remove(FUTEX_START, tid)
           /\ emit(NewEvent(clock, SaturatingSub(clock, start.ts), start.uaddr,
                            start.tgid, tid, FutexEventType(BaseOp(start.op))))

try_futex_exit(tid) ==
  IF tid \notin DOMAIN FUTEX_START
  THEN UNCHANGED <<FUTEX_START, ring>>
  ELSE LET start == FUTEX_START[tid]
           base_op == BaseOp(start.op)
       IN  /\ FUTEX_START' = Remove(FUTEX_START, tid)
           /\ IF base_op \in Waits \cup Wakes
              THEN emit(NewEvent(clock, SaturatingSub(clock, start.ts), start.uaddr,
                                 start.tgid, tid, FutexEventType(base_op)))
              ELSE UNCHANGED ring

try_block_rq_issue(tid, tgid, dev, sector) ==
  BLOCKIO_START' = IF Filtered(tgid)
                   THEN BLOCKIO_START
                   ELSE Insert(BLOCKIO_START, BlockIoStartCap, pack_block_key(dev, sector),
                               [ts |-> clock, tgid |-> tgid, tid |-> tid])

try_block_rq_complete_OldestStart(dev, sector) ==
  LET key == CHOOSE k \in DOMAIN BLOCKIO_START :
               \A j \in DOMAIN BLOCKIO_START : BLOCKIO_START[k].ts <= BLOCKIO_START[j].ts
      start == BLOCKIO_START[key]
  IN  IF BLOCKIO_START = <<>>
      THEN UNCHANGED <<BLOCKIO_START, ring>>
      ELSE /\ BLOCKIO_START' = Remove(BLOCKIO_START, key)
           /\ emit(NewEvent(clock, SaturatingSub(clock, start.ts), key,
                            start.tgid, start.tid, EVENT_BLOCK_IO))

try_block_rq_complete(dev, sector) ==
  LET key == pack_block_key(dev, sector)
      start == BLOCKIO_START[key]
  IN  IF key \notin DOMAIN BLOCKIO_START
      THEN UNCHANGED <<BLOCKIO_START, ring>>
      ELSE /\ BLOCKIO_START' = Remove(BLOCKIO_START, key)
           /\ emit(NewEvent(clock, SaturatingSub(clock, start.ts), key,
                            start.tgid, start.tid, EVENT_BLOCK_IO))

-----------------------------------------------------------------------------
(* The kernel around them.                                                 *)

TgidOf(tid) == IF tid = IdleTid THEN NoTgid ELSE tgidOf[tid]

(* A span that begins now is owed a report if it is the target's, the      *)
(* target is set, and the map that must remember its start has room.       *)
Owed(tgid, map, cap, k) == target # NoTgid /\ tgid = target /\ HasRoom(map, cap, k)

(* A span has ended; `isOwed` was settled when it began.                   *)
Account(isOwed, span) == owed' = IF isOwed /\ RingHasRoom THEN owed \cup {span} ELSE owed

Stamp == clock < MaxClock /\ clock' = clock + 1

Runnable == {t \in Tid : tgidOf[t] # NoTgid /\ t \notin blocked
                         /\ \A c \in Cpu : onCpu[c] # t}

(* Why the outgoing thread leaves the CPU, and the prev_state reported.    *)
SwitchReason == {"yield", "preempt", "block", "exit"}

ReportedState(why) ==
  CASE why = "yield"   -> TASK_RUNNING
    [] why = "preempt" -> PreemptState
    [] why = "block"   -> TASK_INTERRUPTIBLE
    [] why = "exit"    -> EXIT_DEAD

(* sched:sched_switch on CPU c, from the thread running there to `next`.   *)
SchedSwitch(c, why, next) ==
  LET prev == onCpu[c]
      left == IF why = "block"
              THEN Put(off, prev, [ts |-> clock,
                                   owed |-> Owed(tgidOf[prev], BLOCK_START, BlockStartCap, prev)])
              ELSE off
  IN  /\ Stamp
      /\ next # prev
      /\ next \in Runnable \cup {IdleTid}
      /\ prev = IdleTid => why = "yield"
      /\ why = "exit" => prev \notin DOMAIN call
      /\ onCpu' = [onCpu EXCEPT ![c] = next]
      /\ blocked' = IF why = "block" THEN blocked \cup {prev} ELSE blocked
      /\ tgidOf' = IF why = "exit" THEN [tgidOf EXCEPT ![prev] = NoTgid] ELSE tgidOf
      /\ off' = Remove(left, next)
      /\ IF next \in DOMAIN left
         THEN Account(left[next].owed,
                      NewEvent(clock, clock - left[next].ts, 0, tgidOf[next], next,
                               EVENT_SCHED_BLOCK))
         ELSE UNCHANGED owed
      /\ try_sched_switch(prev, TgidOf(prev), ReportedState(why), next)
      /\ UNCHANGED <<born, call, reqs, target, FUTEX_START, BLOCKIO_START, trace>>

(* A blocked thread becomes runnable (a wake-up, a timeout, a signal, an   *)
(* I/O completion): no tracepoint of whyslow's sees it.                    *)
Wakeup(t) ==
  /\ t \in blocked
  /\ blocked' = blocked \ {t}
  /\ UNCHANGED <<clock, tgidOf, onCpu, born, off, call, reqs, target, mapVars, ring, trace, owed>>

(* fork or clone gives a free tid to a thread of process g.                *)
Spawn(t, g) ==
  /\ tgidOf[t] = NoTgid
  /\ \A c \in Cpu : onCpu[c] # t
  /\ born[t] < MaxBorn
  /\ born' = [born EXCEPT ![t] = @ + 1]
  /\ tgidOf' = [tgidOf EXCEPT ![t] = g]
  /\ UNCHANGED <<clock, onCpu, blocked, off, call, reqs, target, mapVars, ring, trace, owed>>

(* syscalls:sys_enter_futex *)
FutexEnter(c, cmd, flag, uaddr) ==
  LET t == onCpu[c]
  IN  /\ Stamp
      /\ t # IdleTid
      /\ t \notin DOMAIN call
      /\ call' = Put(call, t, [cmd |-> cmd, flag |-> flag, uaddr |-> uaddr, ts |-> clock,
                               owed |-> Owed(tgidOf[t], FUTEX_START, FutexStartCap, t)])
      /\ try_futex_enter(t, tgidOf[t], uaddr, cmd + flag)
      /\ UNCHANGED <<tgidOf, onCpu, blocked, born, off, reqs, target, BLOCK_START,
                     BLOCKIO_START, ring, trace, owed>>

(* syscalls:sys_exit_futex; only waits and wakes are owed a report.        *)
FutexExit(c) ==
  LET t == onCpu[c]
      span(event_type) == NewEvent(clock, clock - call[t].ts, call[t].uaddr, tgidOf[t], t, event_type)
  IN  /\ Stamp
      /\ t \in DOMAIN call
      /\ call' = Remove(call, t)
      /\ CASE call[t].cmd \in {FUTEX_WAIT, FUTEX_WAIT_BITSET} ->
                Account(call[t].owed, span(EVENT_FUTEX_WAIT))
           [] call[t].cmd \in {FUTEX_WAKE, FUTEX_WAKE_BITSET} ->
                Account(call[t].owed, span(EVENT_FUTEX_WAKE))
           [] OTHER -> UNCHANGED owed
      /\ try_futex_exit(t)
      /\ UNCHANGED <<tgidOf, onCpu, blocked, born, off, reqs, target, BLOCK_START,
                     BLOCKIO_START, trace>>

(* block:block_rq_issue, in the context of the thread running on c.        *)
BlockRqIssue(c, dev, sector) ==
  LET t == onCpu[c]
      key == pack_block_key(dev, sector)
      req == [dev |-> dev, sector |-> sector, tid |-> t, tgid |-> tgidOf[t], ts |-> clock,
              owed |-> Owed(tgidOf[t], BLOCKIO_START, BlockIoStartCap, key)]
  IN  /\ Stamp
      /\ t # IdleTid
      /\ ExclusiveKeys => \A r \in reqs : pack_block_key(r.dev, r.sector) # key
      /\ reqs' = reqs \cup {req}
      /\ try_block_rq_issue(t, tgidOf[t], dev, sector)
      /\ UNCHANGED <<tgidOf, onCpu, blocked, born, off, call, target, BLOCK_START,
                     FUTEX_START, ring, trace, owed>>

(* block:block_rq_complete, in interrupt context: no current thread.       *)
BlockRqComplete(req) ==
  /\ Stamp
  /\ reqs' = reqs \ {req}
  /\ Account(req.owed, NewEvent(clock, clock - req.ts, pack_block_key(req.dev, req.sector),
                                req.tgid, req.tid, EVENT_BLOCK_IO))
  /\ try_block_rq_complete(req.dev, req.sector)
  /\ UNCHANGED <<tgidOf, onCpu, blocked, born, off, call, target, BLOCK_START,
                 FUTEX_START, trace>>

-----------------------------------------------------------------------------
(* Userspace.                                                              *)

set_target_tgid ==
  /\ target = NoTgid
  /\ target' = Target
  /\ UNCHANGED <<clock, kernelVars, mapVars, ring, trace, owed>>

(* One turn of `while let Some(item) = ring.next()`: the record is copied  *)
(* into the trace and released.                                            *)
drain_ring_buffer ==
  /\ ring # <<>>
  /\ trace' = Append(trace, Head(ring))
  /\ ring' = Tail(ring)
  /\ UNCHANGED <<clock, kernelVars, target, mapVars, owed>>

(* The ring buffer is drained and either the clock's bound is reached or   *)
(* every thread is gone: nothing more will happen.                         *)
Quiet ==
  /\ ring = <<>>
  /\ clock = MaxClock \/ \A t \in Tid : tgidOf[t] = NoTgid
  /\ UNCHANGED vars

Init ==
  /\ clock = 0
  /\ tgidOf = InitTgid
  /\ onCpu = [c \in Cpu |-> IdleTid]
  /\ blocked = {}
  /\ born = [t \in Tid |-> IF InitTgid[t] = NoTgid THEN 0 ELSE 1]
  /\ off = <<>> /\ call = <<>> /\ reqs = {}
  /\ target = NoTgid
  /\ BLOCK_START = <<>> /\ FUTEX_START = <<>> /\ BLOCKIO_START = <<>>
  /\ ring = <<>> /\ trace = <<>>
  /\ owed = {}

Next ==
  \/ \E c \in Cpu, why \in SwitchReason, next \in Tid \cup {IdleTid} : SchedSwitch(c, why, next)
  \/ \E t \in Tid : Wakeup(t)
  \/ \E t \in Tid, g \in Tgid : Spawn(t, g)
  \/ \E c \in Cpu, cmd \in FutexCmd, flag \in FutexFlag, uaddr \in UAddr :
        FutexEnter(c, cmd, flag, uaddr)
  \/ \E c \in Cpu : FutexExit(c)
  \/ \E c \in Cpu, dev \in Dev, sector \in Sector : BlockRqIssue(c, dev, sector)
  \/ \E req \in reqs : BlockRqComplete(req)
  \/ set_target_tgid
  \/ drain_ring_buffer
  \/ Quiet

Spec == Init /\ [][Next]_vars

-----------------------------------------------------------------------------
(* Properties.                                                             *)

Stall     == [ts : Nat, owed : BOOLEAN]
FutexCall == [cmd : FutexCmd, flag : FutexFlag, uaddr : UAddr, ts : Nat, owed : BOOLEAN]
Request   == [dev : Dev, sector : Sector, tid : Tid, tgid : Tgid, ts : Nat, owed : BOOLEAN]

IsMap(map, K, V) == DOMAIN map \subseteq K /\ map \in [DOMAIN map -> V]

Key == {pack_block_key(d, s) : d \in Dev, s \in Sector}

(* Type invariant of the kernel's variables, the BPF maps and the buffers. *)
TypeOK ==
  /\ clock \in Nat
  /\ tgidOf \in [Tid -> Tgid \cup {NoTgid}]
  /\ onCpu \in [Cpu -> Tid \cup {IdleTid}]
  /\ blocked \subseteq Tid
  /\ born \in [Tid -> Nat]
  /\ IsMap(off, Tid, Stall)
  /\ IsMap(call, Tid, FutexCall)
  /\ reqs \subseteq Request
  /\ target \in {NoTgid, Target}
  /\ IsMap(BLOCK_START, Tid, BlockStart)
  /\ IsMap(FUTEX_START, Tid, FutexStart)
  /\ IsMap(BLOCKIO_START, Key, BlockIoStart)
  /\ ring \in Seq(Event)
  /\ trace \in Seq(Event)
  /\ owed \subseteq Event

Reported == Range(trace) \cup Range(ring)

RealEvents(types) == \A e \in Reported : e.event_type \in types => e \in owed

(* Every EVENT_SCHED_BLOCK reported is a stall of a thread of the target:  *)
(* that very thread left the CPU not runnable at SpanStart(e) and resumed  *)
(* at its timestamp (try_sched_switch, and the event's documentation).     *)
SchedEventsReal == RealEvents({EVENT_SCHED_BLOCK})

(* Every futex event reported is a wait or wake system call of the target, *)
(* with the caller, address, start and end it really had, however calls of *)
(* other threads interleave and even if tracing began in mid-call          *)
(* (try_futex_enter, try_futex_exit).                                      *)
FutexEventsReal == RealEvents({EVENT_FUTEX_WAIT, EVENT_FUTEX_WAKE})

(* Every EVENT_BLOCK_IO reported is a request the named thread of the      *)
(* target issued at SpanStart(e) and that completed at the timestamp, even *)
(* though the completion runs in interrupt context and the issuer may have *)
(* exited (try_block_rq_issue, try_block_rq_complete).                     *)
BlockIoEventsReal == RealEvents({EVENT_BLOCK_IO})

(* The only losses are full maps and a full ring buffer: whatever the      *)
(* target did after set_target_tgid and there was room for is reported.    *)
NothingOwedIsMissing == owed \subseteq Reported

(* What has been reported, in the order it was.                            *)
Reports == trace \o ring

SpanOf(e) == <<e.event_type, e.tid, SpanStart(e)>>

(* No span is reported twice: no two reports are of the same thread, kind  *)
(* and start.  The program that ends a span takes its start out of the map *)
(* and drain_ring_buffer releases the record it has copied.                *)
ReportedOnce ==
  \A i, j \in DOMAIN Reports : SpanOf(Reports[i]) = SpanOf(Reports[j]) => i = j

ThreadSpans == {{EVENT_SCHED_BLOCK}, {EVENT_FUTEX_WAIT, EVENT_FUTEX_WAKE}}

(* A thread does one thing at a time and is reported so: its stalls do not *)
(* overlap each other, nor do its futex calls, and they are reported in    *)
(* the order they happened (across two threads that had one tid too: that  *)
(* is left to the theorem).  The joins of causal.rs, which take the span   *)
(* that ended last before a time, mean something only then                 *)
(* (try_sched_switch, try_futex_exit).                                     *)
SpansDisjoint ==
  \A i, j \in DOMAIN Reports, kinds \in ThreadSpans :
    /\ i < j
    /\ Reports[i].tid = Reports[j].tid
    /\ {Reports[i].event_type, Reports[j].event_type} \subseteq kinds
    => Reports[i].timestamp_ns <= SpanStart(Reports[j])

(* FUTEX_START and BLOCKIO_START do not leak: an entry is always that of a *)
(* system call or request still under way, so the maps fill up only with   *)
(* that many really in flight.                                             *)
NoStaleStarts ==
  /\ DOMAIN FUTEX_START \subseteq DOMAIN call
  /\ DOMAIN BLOCKIO_START \subseteq {pack_block_key(r.dev, r.sector) : r \in reqs}
=============================================================================
