------------------------------- MODULE Explain -------------------------------
(***************************************************************************)
(* causal::explain (whyslow-cli/src/causal.rs): the slowest stalls of a    *)
(* trace are explained one after the other, each by walking backward from  *)
(* a futex wait to the wake that ended it, to what the waker was blocked   *)
(* on, and so on.  One step is one call of walk_from_futex_wait.  Devices  *)
(* may disappear from sysfs while the chains are being built.  A           *)
(* definition with an underscored suffix is a faulty variant of the one    *)
(* after it, kept to show which property notices the fault.                *)
(***************************************************************************)
EXTENDS Causal, Functions

CONSTANTS
  Traces,     \* the traces `explain` may be given: a set of sequences of Event
  Slowest,    \* the values --slowest may have
  Devs        \* device numbers that sysfs knows at the start

ASSUME ExplainAssumption ==
  /\ \A tr \in Traces : tr \in Seq(Event)
  /\ Slowest \subseteq Nat
  /\ Devs \subseteq Nat

VARIABLES
  events,     \* trace.events
  slowest,    \* --slowest
  sysfs,      \* devices with an entry under /sys/dev/block
  cache,      \* DevNames::cache, device -> was it found
  wait,       \* the futex wait being walked from, or None between chains
  depth,      \* the depth argument of walk_from_futex_wait
  lines,      \* Chain::lines of the chain under construction
  chains,     \* finished chains, in the order they are printed
  done        \* print_chains has run

vars == <<events, slowest, sysfs, cache, wait, depth, lines, chains, done>>

(* A printed line: what it says (`stall`: the headline, `woken`: a waker,  *)
(* `blocked`: what the waker was blocked on), of the thread of which event *)
(* (the stall or the wake), citing what kind of event, at which position   *)
(* of the trace, and for block I/O whether the device was printed by its   *)
(* name or by its number.                                                  *)
Line(says, of, cause, named) ==
  [says |-> says, of |-> of, on |-> cause.on, at |-> cause.at, named |-> named]

Stalls == Typed(events, EVENT_SCHED_BLOCK)

DevOf(i) == unpack_block_key(events[i].key)[1]

(* DevNames::name: the cached answer, otherwise what sysfs says now.       *)
Named(dev) == IF dev \in DOMAIN cache THEN cache[dev] ELSE dev \in sysfs

Lookup_NotCached(dev) == UNCHANGED cache

Lookup(dev) == cache' = [d \in DOMAIN cache \cup {dev} |-> Named(d)]

(* The line for a cause, and what resolving a device name does.            *)
Say(says, of, cause, before) ==
  IF cause.on = "io"
  THEN /\ lines' = Append(before, Line(says, of, cause, Named(DevOf(cause.at))))
       /\ Lookup(DevOf(cause.at))
  ELSE /\ lines' = Append(before, Line(says, of, cause, TRUE))
       /\ UNCHANGED cache

(* The wait that walk_from_futex_wait is called with, if any.              *)
NextWait(cause) == IF cause.on = "futex" THEN cause.at ELSE None

-----------------------------------------------------------------------------
(* The next stall of the sorted and truncated list gets its headline.      *)
explain_one_stall ==
  /\ ~done /\ wait = None /\ lines = <<>>
  /\ Len(chains) < slowest
  /\ \E b \in Stalls :
       LET cause == classify_resume_cause(events, events[b].tid, events[b].timestamp_ns)
       IN  /\ SlowestRank(events, b) = Len(chains) + 1
           /\ Say("stall", b, cause, <<>>)
           /\ wait' = NextWait(cause)
           /\ depth' = 1
  /\ UNCHANGED <<events, slowest, sysfs, chains, done>>

Woken(wake) == Append(lines, Line("woken", wake, Futex(wake), TRUE))

(* What the waker was doing before its wake call began.                    *)
PriorCause(wake) == classify_prior_cause(events, events[wake].tid, SpanStart(events[wake]))

TooDeep_Late == depth > MAX_CHAIN_DEPTH

TooDeep_Early == depth + 1 >= MAX_CHAIN_DEPTH

TooDeep == depth >= MAX_CHAIN_DEPTH

(* Faulty: the guard suppresses the line but not the recursion.            *)
StopAtWaker_PrintGuard(wake) ==
  /\ TooDeep \/ PriorCause(wake).on = "unknown"
  /\ wait' = NextWait(PriorCause(wake))
  /\ UNCHANGED <<lines, cache, depth>>

(* The chain ends at the waker: the depth guard, or nothing is known of it *)
StopAtWaker(wake) ==
  /\ TooDeep \/ PriorCause(wake).on = "unknown"
  /\ lines' = Woken(wake)
  /\ wait' = None
  /\ UNCHANGED <<cache, depth>>

NextDepth_Same == depth

NextDepth == depth + 1

(* The chain goes on with what the waker was blocked on.                   *)
HopToCause(wake) ==
  /\ ~TooDeep /\ PriorCause(wake).on # "unknown"
  /\ Say("blocked", wake, PriorCause(wake), Woken(wake))
  /\ wait' = NextWait(PriorCause(wake))
  /\ depth' = NextDepth

(* One activation of walk_from_futex_wait.                                 *)
walk_from_futex_wait ==
  /\ wait # None
  /\ LET wake == WakeOf(events, wait)
     IN  \/ /\ wake = None
            /\ wait' = None
            /\ UNCHANGED <<lines, cache, depth>>
         \/ wake # None /\ StopAtWaker(wake)
         \/ wake # None /\ HopToCause(wake)
  /\ UNCHANGED <<events, slowest, sysfs, chains, done>>

(* explain_one_stall returns its Chain. *)
CollectChain ==
  /\ wait = None /\ lines # <<>>
  /\ chains' = Append(chains, lines)
  /\ lines' = <<>>
  /\ UNCHANGED <<events, slowest, sysfs, cache, wait, depth, done>>

print_chains ==
  /\ ~done /\ wait = None /\ lines = <<>>
  /\ Len(chains) >= slowest \/ Len(chains) = Cardinality(Stalls)
  /\ done' = TRUE
  /\ UNCHANGED <<events, slowest, sysfs, cache, wait, depth, lines, chains>>

(* The environment: a block device goes away. *)
RemoveDevice(dev) ==
  /\ ~done /\ dev \in sysfs
  /\ sysfs' = sysfs \ {dev}
  /\ UNCHANGED <<events, slowest, cache, wait, depth, lines, chains, done>>

Exited == done /\ UNCHANGED vars

Init ==
  /\ events \in Traces
  /\ slowest \in Slowest
  /\ sysfs = Devs
  /\ cache = <<>>
  /\ wait = None
  /\ depth = 1
  /\ lines = <<>>
  /\ chains = <<>>
  /\ done = FALSE

Next ==
  \/ explain_one_stall
  \/ walk_from_futex_wait
  \/ CollectChain
  \/ print_chains
  \/ \E dev \in Devs : RemoveDevice(dev)
  \/ Exited

Spec == Init /\ [][Next]_vars

(* The program is a single thread that runs until it exits. *)
Program == explain_one_stall \/ walk_from_futex_wait \/ CollectChain \/ print_chains

FairSpec == Spec /\ WF_vars(Program)

-----------------------------------------------------------------------------
(* Properties.                                                             *)

LineType ==
  [says : {"stall", "woken", "blocked"}, of : Nat, on : {"futex", "io", "unknown"}, at : Nat,
   named : BOOLEAN]

(* Type invariant: positions are positions of the trace.                   *)
TypeOK ==
  /\ events \in Seq(Event)
  /\ slowest \in Slowest
  /\ sysfs \subseteq Devs
  /\ DOMAIN cache \subseteq Nat /\ cache \in [DOMAIN cache -> BOOLEAN]
  /\ wait \in Typed(events, EVENT_FUTEX_WAIT) \cup {None}
  /\ depth \in 1..MAX_CHAIN_DEPTH
  /\ lines \in Seq(LineType)
  /\ chains \in Seq(Seq(LineType))
  /\ done \in BOOLEAN

(* The chain under construction and the finished ones. *)
AllChains == Range(chains) \cup {lines}

Ended(ev, i) == ev[i].timestamp_ns

(* A system call takes time: the clock moved between its two tracepoints.  *)
WakesTakeTime(ev) == \A i \in Typed(ev, EVENT_FUTEX_WAKE) : SpanStart(ev[i]) < Ended(ev, i)

WalksBack(ev, c) ==
  \A i, j \in DOMAIN c :
    i < j => /\ Ended(ev, c[j].at) <= Ended(ev, c[i].at)
             /\ WakesTakeTime(ev) => c[i].at # c[j].at

(* A chain walks backward in time and never comes back to an event it has  *)
(* cited: walk_from_futex_wait cannot go round in circles, whatever the    *)
(* trace, unless a wake call took no time at all.                          *)
ChainsWalkBack == \A c \in AllChains : WalksBack(events, c)

(* The depth guard of walk_from_futex_wait holds every chain to a headline *)
(* and MAX_CHAIN_DEPTH hops, cycles in the trace or not.                   *)
ChainsBounded == \A c \in AllChains : Len(c) <= 2 * MAX_CHAIN_DEPTH

(* The event at position i ended in the interval from lo to hi.            *)
Within(ev, i, lo, hi) == lo <= Ended(ev, i) /\ Ended(ev, i) <= hi

IsWait(ev, i, tid) == ev[i].event_type = EVENT_FUTEX_WAIT /\ ev[i].tid = tid
IsIo(ev, i, tid)   == ev[i].event_type = EVENT_BLOCK_IO /\ ev[i].tid = tid
IsWake(ev, i, key) == ev[i].event_type = EVENT_FUTEX_WAKE /\ ev[i].key = key
IsBlock(ev, i, tid) == IsWait(ev, i, tid) \/ IsIo(ev, i, tid)

(* `to` is a wake of the futex that `from` waited on, and no other wake of *)
(* it ended between that one's end and the wait's.                         *)
WakeHop(ev, from, to) ==
  /\ IsWake(ev, to, ev[from].key)
  /\ Within(ev, to, Ended(ev, from) - MATCH_WINDOW_NS, Ended(ev, from))
  /\ \A i \in DOMAIN ev :
       IsWake(ev, i, ev[from].key) => ~Within(ev, i, Ended(ev, to) + 1, Ended(ev, from))

(* `to` is a wait or request of the thread that made the wake call `from`, *)
(* over before the call began, and the thread ended no other in between.   *)
BlockHop(ev, from, to) ==
  LET tid == ev[from].tid
      begin == SpanStart(ev[from])
  IN  /\ IsBlock(ev, to, tid)
      /\ Within(ev, to, begin - MATCH_WINDOW_NS, begin)
      /\ \A i \in DOMAIN ev : IsBlock(ev, i, tid) => ~Within(ev, i, Ended(ev, to) + 1, begin)

Hops(ev, c) ==
  \A k \in DOMAIN c : k > 1 =>
    IF c[k].says = "woken"
    THEN WakeHop(ev, c[k - 1].at, c[k].at)
    ELSE BlockHop(ev, c[k - 1].at, c[k].at)

(* Every hop is to the right event, in whatever order the ring buffer      *)
(* delivered them, stated without the searches of the code.                *)
HopsAreNearest == \A c \in AllChains : Hops(events, c)

NoWakeFor(ev, w) ==
  \A i \in DOMAIN ev : IsWake(ev, i, ev[w].key) =>
    ~Within(ev, i, Ended(ev, w) - MATCH_WINDOW_NS, Ended(ev, w))

NoBlockBefore(ev, w) ==
  LET begin == SpanStart(ev[w])
  IN  \A i \in DOMAIN ev :
        IsBlock(ev, i, ev[w].tid) => ~Within(ev, i, begin - MATCH_WINDOW_NS, begin)

Complete(ev, c) ==
  LET last == c[Len(c)]
  IN  \/ last.on \in {"io", "unknown"}
      \/ last.says # "woken" /\ NoWakeFor(ev, last.at)
      \/ last.says = "woken" /\ (Len(c) = 2 * MAX_CHAIN_DEPTH \/ NoBlockBefore(ev, last.at))

(* A finished chain stops for a reason: at block I/O, where no candidate   *)
(* is left in the window, or at the depth guard; no hop that could be      *)
(* explained is left out (the early returns of walk_from_futex_wait).      *)
ChainsComplete == \A c \in Range(chains) : Complete(events, c)

(* How far a wait ended after the resume, or a request completed before.   *)
Gap(ev, i, resume) ==
  IF ev[i].event_type = EVENT_BLOCK_IO THEN resume - Ended(ev, i) ELSE Ended(ev, i) - resume

Candidates(ev, tid, resume) ==
  {i \in DOMAIN ev : IsBlock(ev, i, tid) /\ Gap(ev, i, resume) \in 0..MATCH_WINDOW_NS}

NearestHeadline(ev, line) ==
  LET resume == Ended(ev, line.of)
      near == Candidates(ev, ev[line.of].tid, resume)
  IN  IF line.on = "unknown"
      THEN near = {}
      ELSE line.at \in near /\ \A i \in near : Gap(ev, line.at, resume) <= Gap(ev, i, resume)

(* The headline cites the closest of the thread's waits that ended after   *)
(* it resumed and of its requests that completed before, within the        *)
(* window; it says nothing only if there is none (classify_resume_cause).  *)
HeadlinesAreNearest == \A c \in AllChains : c # <<>> => NearestHeadline(events, c[1])

(* When `explain` is done it has explained `slowest` stalls, or all there  *)
(* are, longest first, none twice, and no stall it left out is longer.     *)
SlowestExplained ==
  done =>
    LET stall(n) == chains[n][1].of
        dur(i)   == events[i].duration_ns
    IN  /\ Len(chains) <= slowest
        /\ Len(chains) = slowest \/ Len(chains) = Cardinality(Stalls)
        /\ \A m, n \in DOMAIN chains :
             m < n => stall(m) # stall(n) /\ dur(stall(m)) >= dur(stall(n))
        /\ \A i \in Stalls \ {stall(n) : n \in DOMAIN chains} :
             \A n \in DOMAIN chains : dur(i) <= dur(stall(n))

(* One report never names the same device in two ways, even if the device  *)
(* disappears while it is written (DevNames::cache).                       *)
NamesConsistent ==
  \A c, d \in AllChains : \A i \in DOMAIN c, j \in DOMAIN d :
     c[i].on = "io" /\ d[j].on = "io" /\ DevOf(c[i].at) = DevOf(d[j].at)
       => c[i].named = d[j].named

(* `explain` ends on every trace, cyclic ones included.                    *)
Terminates == <>done

(* The futex wait a headline cites is the same incident as the stall: the  *)
(* thread had entered that wait before it resumed.                         *)
SameIncident ==
  \A c \in AllChains : c # <<>> /\ c[1].on = "futex"
     => SpanStart(events[c[1].at]) <= SpanStart(events[c[1].of])
=============================================================================
