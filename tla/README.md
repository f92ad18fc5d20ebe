# whyslow in TLA+

whyslow explains why a Linux process is slow. Five small eBPF programs report
three kinds of spans of the traced process (off-CPU intervals, futex system
calls, block I/O requests) through one ring buffer; a command line program
collects them into a trace and joins them into causal chains: "this thread was
blocked 412 ms on a futex, it was woken by that thread, which had been blocked
on a disk read". This directory models the parts of it that can go wrong
without anybody noticing, checks them with TLC and proves the main results with
TLAPS.

## The system

| component | source | state | operations | talks to |
|---|---|---|---|---|
| event schema | `whyslow-common/src/lib.rs`, `trace.rs` | none | build an event, pack and unpack a block key | used by both sides |
| eBPF programs | `whyslow-ebpf/src/main.rs`, `vmlinux.rs` | `TARGET_TGID`, `BLOCK_START`, `FUTEX_START`, `BLOCKIO_START`, `EVENTS` | one handler per tracepoint | called by the kernel, concurrently on every CPU; write the ring buffer |
| reader and filter | `whyslow-cli/src/bpf.rs` | the collected `events` | load and attach, set the target, drain | shares the maps with the programs |
| correlation engine | `whyslow-cli/src/causal.rs` | the chain under construction, the device name cache | joins, walk, sort and truncate, print | reads a trace and sysfs |
| sessions | `whyslow-cli/src/main.rs`, `child.rs` | the ptraced child, `STOP_REQUESTED`, the deadline | `run`, `attach`, `explain` | the child's life cycle, signals, the reader |
| trace file | `whyslow-cli/src/trace.rs` | the file, the clock anchor | write, read, map to wall time | sessions write it, `explain` reads it |
| synthetic reproducer | `synthetic/src/main.rs` | the futex word, two threads | `lock`, `unlock`, a cold read | the integration test's ground truth |
| download wrapper, installer | `packaging/pypi/...`, `install.sh` | the cache directory | download, check, extract | the release server |
| terminal output | `whyslow-cli/src/ui.rs` | none | colours, a banner | |

What is hard in it:

* **Concurrency in the kernel.** Handlers run on every CPU for every process.
  A start stored by one handler is consumed by another, later, possibly on
  another CPU and in interrupt context; in between, threads are preempted,
  exit, and give their tid to someone else.
* **Resources at their limit.** Hash maps refuse new keys and the ring buffer
  refuses records; both errors are ignored by design.
* **Starting in the middle.** `attach` begins while threads are inside system
  calls whose beginning nobody saw.
* **Order.** The trace is only loosely ordered by time, timestamps can be
  equal, and every causal edge is a nearest-match join within a window.
* **A recursive walk** over a graph that may have cycles, ended by a depth guard.
* **Life cycles**: a child that must be stopped before its first instruction,
  a reader that must not stop before the last record, a file truncated before
  it is written, a pid that is given back while probes still filter on it.
* **A shared cache directory** that several runs of the download wrapper check,
  fill and clean up without a lock.

`PROJECT.json` lists the hazards line by line with the properties that watch them.

What makes each component correct:

* programs: what is reported happened, exactly as reported, to the process that
  is traced; what happened is reported unless a named resource was full; once;
  and no start outlives its span;
* correlation: each hop and each headline is the right candidate, chains go
  back in time, they are bounded and complete, they are those of the slowest
  stalls, and the program ends;
* sessions: nothing is traced before the target is set, nothing the child does
  is missed, what is reported is a whole run of the child, the session ends when
  it should;
* trace file: a reader sees a whole trace or an error, and wall times are never late;
* download wrapper: only the verified binary is ever executed, and a run that
  dies leaves nothing that harms the next;
* mutex of the reproducer: mutual exclusion, no lost wake-up.

## Modules

| module | models | notes |
|---|---|---|
| `Events` | the event schema | pure operators |
| `Probes` | the eBPF programs, the ring buffer, its reader, in a small kernel | state machine |
| `MCProbes` | the values of `Probes`' constants | for TLC |
| `ProbesProofs` | theorems about `Probes` | for TLAPS |
| `Causal` | the joins of `causal.rs` | pure operators |
| `Explain` | `explain`, `explain_one_stall`, `walk_from_futex_wait`, `DevNames`, `print_chains` | state machine |
| `MCExplain` | the traces TLC explains | for TLC |
| `ExplainProofs` | theorems about `Causal` and `Explain` | for TLAPS |
| `SlowestProofs` | theorems about which stalls `Explain` takes, in which order | for TLAPS |
| `Mutex` | what a mutex promises | abstract specification |
| `FutexMutex` | `lock`, `unlock` and the futex calls of the reproducer | state machine, implements `Mutex` |
| `FutexMutexProofs` | theorems about `FutexMutex` | for TLAPS |
| `Synthetic` | the reproducer's `main`, holder and waiter | composes `FutexMutex` with the scenario |
| `SyntheticProofs` | theorems about `Synthetic`, from those about `FutexMutex` | for TLAPS |
| `TraceStore` | the trace file, its writer and its reader, the wall clock anchor | part of a state machine |
| `Session` | `run`, `attach`, `drain_ring_buffer`, the traced process, signals | composes `TraceStore` with the session |
| `SessionProofs` | theorems about `Session` and `TraceStore` | for TLAPS |
| `PipWrapper` | the `whyslow` command of the PyPI package | state machine |
| `PipWrapperProofs` | theorems about `PipWrapper` | for TLAPS |

An operator with an underscored suffix (`Stashes_AnyState`) is a faulty variant of
the definition that follows it: a bug the code could have had. Each property of
a passing run is shown to notice one of them.

### `Probes`

The variables in capitals are the BPF maps of the same name, partial functions
whose `DOMAIN` is the set of keys present; `ring` is `EVENTS`; `trace` is the
vector of `drain_ring_buffer`; `target` is `TARGET_TGID[0]`. Each `try_*`
operator is the handler of that name, given what the tracepoint record and the
helper functions would have told it. `comm` is left out everywhere: nothing
reads it but the printer.

The kernel around the programs is external: `SchedSwitch`, `Wakeup`, `Spawn`,
`FutexEnter`, `FutexExit`, `BlockRqIssue`, `BlockRqComplete` are what a kernel
does at and between the tracepoints. Each of these actions runs the whole
handler in the same step: a handler is atomic in the model. That is sound here
because the keys of two handlers running at once are different: a tid is
switched or in a system call on one CPU at a time, and a block key is handled
once per issue and completion. (Two requests with the same key at once are the
subject of a run of their own.) A consequence is that ring order and timestamp
order agree in `Probes`; `Explain` does not rely on it and is given traces
in other orders.

`owed` is the kernel's own account: when a span begins, the kernel notes whether
the traced process began it, whether the target was set, and whether the map had
room; when it ends, the kernel enters the span into `owed` if that was so and the
ring buffer had room. The programs never read this. The properties compare the
two accounts, in both directions.

`clock` advances by one at every stamped kernel event, so no two events carry
the same timestamp; durations are differences of it.

Parameters that stand for what the environment may do: `PreemptState` is the
state the kernel reports for a thread preempted in kernel mode. Every kernel
whyslow supports (5.8 and later) reports 0x100, `TASK_REPORT_MAX`; the value 0
stands for an environment in which no such preemption occurs, where a thread
that leaves the CPU runnable is always reported as running. `MaxBorn` is how
often one tid is given out, `ExclusiveKeys` whether two requests with one packed
key may be in flight.

### `Causal` and `Explain`

A trace is a sequence of events, an `Option<&TraceEvent>` is a position or
`None`, a `Vec<&TraceEvent>` is a set of positions. `max_by_key` keeps the last
of equal elements and `min_by_key` the first, and so do the operators.

`Explain` takes one step per call of `walk_from_futex_wait`. Its recursion is a
tail call, so `wait` and `depth` are all that a call has to remember. A printed
line is a record: what it says, about which event's thread, citing which kind of
event at which position, and whether a device was printed by name or by number.
Formatting of times, durations and colours is not modelled. Devices may vanish
from sysfs at any time (`RemoveDevice`).

### `FutexMutex` and `Synthetic`

One action per atomic operation or system call. The kernel compares the word and
queues the caller in one step (`futex_wait`), wakes one sleeper, any one of them
(`futex_wake`), and may return from a wait for no reason (`SpuriousReturn`). All
accesses are to one word, so the acquire and release orderings leave no room for
more behaviours than these interleavings. `Synthetic` extends `FutexMutex`: its
`ThreadStep` is a step of `lock` or `unlock` that the scenario allows, and its
own actions are the flag, the reads (one may fail, which kills the holder with
the lock held) and the main thread's polling and joining.

### `Session` and `TraceStore`

`pc` is where the program is; `run` and `attach` share their steps and differ in
a few, chosen by `mode`:

| step (`pc`) | action | code |
|---|---|---|
| start | `require_root` | also `kill(pid, 0)` of `attach` |
| spawn, wait | `spawn_stopped`, `wait_until_stopped` | `run` only |
| load, target | `load_and_attach` (one step per tracepoint), `set_target_tgid` | |
| realtime, monotonic | `capture_anchor` | two readings, time may pass in between (`Tick`) |
| begin | `resume` or `install_handler` | `PTRACE_DETACH`, `signal` |
| open, drain, check, poll, last | `OpenRing`, `NextRecord`, `NothingNext`, `CheckStop`, `Poll` | `drain_ring_buffer` |
| create, write, print | `WriteTrace`, `print_chains` | `write_to`, `print_chains` |

`Fail` is an error that `?` hands up to `main`, possible wherever the code can
get one, `drain_ring_buffer`'s own included; the errors that follow from the state of the child (`waitpid` on a dead
one, `PTRACE_DETACH` on a dead one) are part of the action. `Kill` is SIGKILL, or
SIGINT before or without the handler. `End` is what the kernel does when a
process is gone: programs detached, buffer freed. `LeftBehind` is what becomes of
the command. Its tracer is gone, and `PTRACE_O_EXITKILL` was not asked for, so
it is let go. Once `wait_until_stopped` has collected the stop, the trap is spent
and the command runs on; before that the trap is still to be delivered and kills
it, or, if it has not been sent yet, never is.

`child` is whoever has the traced pid: `execed` (has called `execve`, trap not
yet taken), `stopped`, `running`, `zombie`, `gone`, and `reused` once another
process got the pid. The surroundings are external: the process ends spans and
issues I/O, an interrupt completes it at any later time, also after the exit;
each record is reserved first (`busy`) and submitted later, and `ring.next()`
stops at a record that is not submitted. `ended` is the kernel's account of the
spans the session ought to have: in a run all since the first instruction, in
an attach those since the probes are live, in both only if the buffer had room.

How a span becomes an event is left to `Probes`; here it is a point in time. The
two modules meet in `set_target_tgid` and in the drain.

The trace file is a sequence of chunks, one per system call: neither
`to_writer_pretty` nor `from_reader` is given a buffer, so writer and reader
really do go through the file in many small steps. `explain_cmd` runs beside the
session. After the last drain the model forgets what is in the buffer, and after
the end what was in memory; nothing reads them any more.

### `PipWrapper`

Every run of the command is a process; they share the cache directory. `dir`
maps the three names to inodes, `blocks` an inode to its contents, in two blocks,
so that files can be half written. A file that is removed while somebody has it
open lives on as an inode without a name. `mode` stands for the executable
bits of the binary, which `open(..., "wb")` keeps and `chmod` sets. The
kernel refuses to write a file that is being executed and to execute one
that is open for writing. Downloads may fail, and may deliver damaged blocks.
`Concurrent` says whether a run may start while another is installing.

## Properties and runs

`Probes`:

* `SchedEventsReal`, `FutexEventsReal`, `BlockIoEventsReal`: an event reported
  is in the kernel's account: same thread, same process, same begin and end,
  same address or key.
* `NothingOwedIsMissing`: what is in the account is reported.
* `ReportedOnce`: no two reports are of one span, that is of the same kind,
  thread and start.
* `SpansDisjoint`: the stalls reported of one thread do not overlap and are
  reported in their order, and so are its futex calls.
* `NoStaleStarts`: an entry of `FUTEX_START` or `BLOCKIO_START` belongs to a
  span still under way. (`BLOCK_START` has no such property: see the findings.)

`Explain`:

* `ChainsWalkBack`, `ChainsBounded`: the walk goes back in time, does not return
  to an event, and stays within the depth guard.
* `HopsAreNearest`, `HeadlinesAreNearest`, `ChainsComplete`: what is cited is the
  nearest candidate, stated without the code's searches, and nothing that could
  be cited is left out.
* `SlowestExplained`, `NamesConsistent`, `Terminates`.

`FutexMutex` and `Synthetic`: `ImplementsMutex` (the abstract `Mutex` with
`owners` mapped to the threads past `lock`), `NoLostWakeup`,
`EverybodyGetsThrough`; `WaiterBehindReads` and `Ends` for the scenario.

`Session` and `TraceStore`:

* `NothingMissed`: when the drain returns, everything the process was owed has
  been read, except what waits behind an interrupt's unfinished record.
* `TracesOnlyTheCommand`: as long as `run` drains in its loop, no other process
  can have the pid the probes filter on.
* `ReportsWholeRun`: `run` writes and prints, and returns without an error, only
  when its command has ended and was reaped. (A `run` that fails may leave its
  command running: see the findings.)
* `WallTimes`: a computed wall time is never late, and none in a run is before
  the anchor. This is one-sided: time that passes between the readings of the two
  clocks makes every wall time early by as much, and a step of the wall clock
  during the session is not modelled.
* `ReadsWhole`: what `explain` accepts is one whole trace, unless it was written
  at that very time.
* `EndsWhenDue`: the session ends after the command's exit, Ctrl-C, the deadline
  or the disappearance of the process.

`PipWrapper`: `OnlyGoodBinaryRuns`, `CacheSound` (what the next run would take
from the cache is whole), `NoSpuriousFailure` (a run fails only if network or
disk failed it), `CacheKept` (a whole, executable binary in the cache stays so).

| run | question | instance |
|---|---|---|
| `probes_all` | do the programs disturb each other, are stalls exact with threads born and dying, are calls of all classes told apart, and requests that complete in any order | 2 CPUs, 2 tids, one free at first, 2 processes, 3 futex commands with flags, 2 devices with 3 sectors each, two of them with equal low bits (4 keys), room for one entry in the ring and in each map, for two in `BLOCKIO_START`, 6 stamped events |
| `explain_chains` | are the chains right, does the walk end on cyclic traces | parts of a 12-event story and of an 8-event one with equal timestamps, in both orders, window 3, depth 2, 0, 1 or 3 stalls asked for |
| `futex_mutex` | is it a mutex, does everybody get through | 3 threads, 2 rounds each |
| `synthetic` | is the ground truth true under every schedule | 2 threads, 6 reads |
| `session` | does a session see everything, report whole runs, and end | both modes, 2 tracepoints, ring of 2 records, 3 clock ticks, traces of 3 and 2 chunks |
| `pip_wrapper` | does a run that dies harm the next | 3 runs one after the other, damaged downloads |

Why the bounds are enough to meet the interesting cases: capacities of one make
"full" happen with two threads; six stamped events let two spans begin, overlap
and end, or one thread get a CPU, issue three requests into a map
with room for two, and two of them complete, in any order; a story is a sequence of all the events that matter to the joins
(stale wakes, ties, wakes that return late, later unrelated waits), and the
traces are all its parts whose events could have happened together, so that each
event is present in some and absent in others. Depth 2 is reached and
exceeded by the stories. The `SectorMod` of 4 stands for 2^32. Three threads are
needed for a wake-up to be lost (one asleep, one woken, one barging in), and two
rounds for a thread to barge in again. Two tracepoints give a state in which some
programs are attached and some are not; three ticks let an interrupt's record be
pending with others behind it and the ring be full; an old trace that is longer
than the new one would show a missing truncation. Three runs of the wrapper are
one that dies, one that dies over the first one's leavings, and one that must
get through. What `probes_all` does not vary is left to the theorems: futex calls,
`ReportedOnce` and `SpansDisjoint` also with tids used twice, on any number of
CPUs, devices and capacities.

Fairness: `Terminates` assumes weak fairness of the program's own steps;
`explain` is a single thread that waits for nothing, so it keeps running until
it has printed, and nothing is assumed about devices. `EverybodyGetsThrough` and
`Ends` assume weak fairness of each thread's steps, which is what a preemptive
scheduler gives to runnable threads; a sleeper has no step of its own, and
spurious returns are never assumed to happen. `EndsWhenDue` assumes weak
fairness of the program's own steps (`poll` returns after 100 ms at the latest,
`waitpid(WNOHANG)` at once) and of the exec trap, for which `waitpid` does block;
nothing is assumed about the process, its parent, interrupts or the user.

Deadlock is checked in every run; `Quiet`, `Exited`, `Finished`, `Rest` and
`AllEnded` are the states in which the systems really rest.

### Findings

Six runs show a disagreement between the code and what the repository says:

* `probes_tid_reuse`: a thread that exits leaves an entry in `BLOCK_START`. The
  next thread with that tid is reported as having been blocked since then. The
  shortest behaviour has a thread of the target exit, a new one born on its tid,
  and a switch to it.
* `probes_preempt`: a thread preempted in kernel mode is reported with a state of
  its own, 0x100, and its run-queue time becomes blocked time. The passing runs
  have no such preemption (`PreemptState` 0).
* `probes_shared_sector`: two requests on one sector at a time (a second read of
  the same block past the page cache, say) are mixed up.
* `explain_same_incident`: a stall that was no futex wait, followed within the
  window by a wait, is explained by that wait.
* `session_untraced`: when the programs cannot be loaded, or the target not be set,
  `run` returns and its command, which was to run only with everything attached,
  runs on untraced. So it does when the ring buffer cannot be mapped, after
  `resume`.
* `pip_concurrent`: two first runs at once. The second, which found no binary,
  unpacks over the one the first has installed; `open(..., "wb")` truncates it and
  keeps it executable. When the second dies in the middle, half a binary stays in
  the cache for good. (A run can also fail without any fault: the other removes
  or truncates the tarball under it.)

Two more statements of the repository do not hold and have no run of their own.
`DESIGN.md` (88-89) has a wake call complete at or before the wait it ends: it makes
the waiter runnable before, but returns, and is stamped, on its own, and the
waiter may return first, on another CPU or by preempting the waker; then it is
not among the candidates of `walk_from_futex_wait`. (To show it takes the
kernel's futex queue, see the plan.) The reproducer (`synthetic/src/main.rs`,
174-176) calls the waiter's futex wait guaranteed: `Synthetic` has schedules in
which the holder has unlocked before the waiter gets to `lock`.

The model also shows behaviours that contradict no document and are therefore
no findings: a `run` started with SIGCHLD ignored never ends, because `waitpid`
then fails and `has_exited` takes an error for "still running"; `attach` to a
process that stays a zombie ends only by Ctrl-C or the deadline; Ctrl-C during
`run` loses the trace; a process that gets the pid between the reaping and the
end of the last drain is traced.

## Proofs

TLC checks the instances above; the theorems hold for every value of the
constants that the named assumptions allow (`ProbesAssumption`,
`SectorModAssumption`, `CausalAssumption`, `ExplainAssumption`,
`FutexMutexAssumption`, `SyntheticAssumption`, `SizeAssumption`,
`SessionAssumption`, `PipWrapperAssumption`: little more than
the types of the constants, and a depth limit of at least one).

**`ProbesProofs`.** None of the properties is inductive: that an event reported
at an exit is real depends on what the map entry says, and that on what has
happened to the thread since the entry was made. The invariant `IInv` ties each
entry to the span it stands for:

* every start lies in the past (`StampsPast`), and threads, CPUs and blocked
  sets fit together (`ThreadsOK`): a thread runs on one CPU, a blocked thread on
  none, a dead one is in no system call;
* an entry of `FUTEX_START` and the call under way on that tid agree in
  address, command, process and start, and a call is owed a report exactly if
  it has an entry (`FutexInv`);
* each `BLOCKIO_START` entry has a request under its key (`BlockIoKeysInv`);
* an owed stall has its entry in `BLOCK_START` (`StallsKept`), and there are
  none before the target is set (`NoTargetNoStalls`).

`Invariance`, `TypeCorrect`, `NoLeaks` and `FutexReal` are unconditional.
`BlockIoReal` and `NothingMissing` assume `ExclusiveKeys`; `SchedReal` assumes
`PreemptState = TASK_RUNNING` and `MaxBorn = 1`. These are exactly the
provisos whose failure the violation runs exhibit: under them the stronger
`BlockIoInv` (entry and request agree) and `OnlyStallsKept` (every entry that
can still be met is a stall's) are inductive as well.

`OnceOnly` (`ReportedOnce`) is unconditional too: tids reused, keys shared and
maps full do not matter to it. Its invariant `Unreported` says that no report is
of a span whose start is still in its map, that no two entries of
`BLOCKIO_START` have the same start (its keys are not tids, so this does not
follow from the map being a function), and that every start is older than the
clock. Two facts about a step suffice: it adds at most one entry to a map, with
the current time (`StepStarts`), and what it reports, if anything, is the span
of an entry it removes (`StepConsumes`); draining moves a record without
changing the sequence of reports (`DrainReports`).

`OneAtATime` (`SpansDisjoint`) rests on the same two facts and on
`StartsAfterReports`: a start kept for a thread is not older than any report of
it. It needs no proviso either: a stall wrongly charged to the heir of a tid still
does not overlap the thread's other stalls. It is what `MCExplain` assumes of
the traces it explains (`Sane`, but for the nesting of stalls in calls).

**`ExplainProofs`.** First the searches: `NearestPreceding` and
`NearestFollowing` show that the `CHOOSE` of the models picks a member of the
window with nothing nearer, or that the window is empty (a least element exists
by well-foundedness of the naturals). `WakeOfIs`, `PriorCauseIs` and
`ResumeCauseIs` state the three joins in the vocabulary of the properties. Then
one chain at a time: `AppendHop`, `AppendWoken` and `AppendBlocked` show that a
line keeps a chain sound. The invariant adds where the walk is (`Walking`: the
last line is the wait, the chain has `2 * depth - 1` lines, and unless a wake
took no time all that was cited before ended strictly later), why a chain was
left (`Stopped`), and that the cache agrees with what was printed (`AllKept`).
From it follow `TypeCorrect`, `WalkBack`, `Bounded`, `NearestHops`,
`Completeness`, `NearestHeadlines` and `ConsistentNames`, for every trace,
window and depth.

**`SlowestProofs`.** `SlowestRank` counts the stalls the stable sort puts first,
so most of the work is about counting: a stall that comes before another has a
smaller rank (`RankOrder`), no two have the same (`RankInjective`), and each
number up to that of the stalls is the rank of one (`RankSurjective`, by
injectivity on a finite set). The invariant `Ranked` says that the n-th chain is
that of the stall of rank n and the chain under construction that of the next.
`LongestFirst` (`SlowestExplained`) follows; `NeverStuck` says that there always
is a next stall until enough are explained, the safety half of `Terminates`.

**`FutexMutexProofs`.** Mutual exclusion alone is not inductive: a thread may
enter because the word is 0, so the invariant says that the word is 0 exactly
when nobody holds the lock (`HeldIffLocked`). `SleepersKnown` is the inductive
part of `NoLostWakeup`. Every action is shown to keep the invariant and to be a
step of `Mutex` or none, which gives `Refinement`, for any set of threads.

**`SyntheticProofs`.** Every step of the scenario is a step of the mutex or leaves
it alone (`ScenarioUsesMutex`), so `Refinement` and `WakeupsKept` carry over
(`ScenarioExcludes`). `GroundTruth` (`WaiterBehindReads`) needs both sides: the
waiter is idle while `main` polls, and once `holder_acquired` is set the holder
keeps the lock until its reads are done (`ScenarioInv`); who holds the lock is
alone with it (`HeldIffLocked`).

**`SessionProofs`.** One invariant for the session, its command, the file and a
reader of it, in parts that lean on each other:

* `Stages`: what is attached and set at which `pc`;
* `CommandLife`: where the command can be at which `pc`: it does not run before
  the loop, and is reaped when the loop is left (`WholeRun`); nothing is claimed
  of a session that failed or was killed;
* `PidKept`: until then the pid is the command's and so is everything recorded
  (`OnlyTheCommand`);
* `QuietStart`: a command that can still be resumed has not been recorded, which
  is why nothing it does can be older than the anchor;
* `AnchorFirst`: the wall clock is read before the monotonic one and both before
  anything in a run is recorded (`WallTimesRight`);
* `OwedKept`: what is owed has been read or is still in the buffer; together
  with the last drain, which stops only at an empty buffer or at a busy record,
  this gives the action property `AllSeen` (`NothingMissed`);
* `FileInv`, `ReaderInv`: the file is the old trace or the beginning of the new
  one, and an undisturbed reader has read the beginning of the file
  (`WholeTracesRead`).

TLC has checked the whole invariant on the instance of the `session` run, with an
`Offset` of 1.

**`PipWrapperProofs`.** All theorems assume `~Concurrent`, the proviso whose failure
`pip_concurrent` exhibits, and hold for any number of runs. That what is executed
is whole is not inductive. The invariant says that at most one run is installing
(`OneInstalls`), that nobody else has a file open and that the open files are the
ones the names refer to (`FilesOpen`, `NamesApart`), that the executable bits are
set only on a whole binary and never while one is being written (`ModeLast`),
and how far the installation has come (`Verified`). `Unharmed` adds what holds
of the downloads of a run that met no fault; with it every failing branch of
the code is unreachable for such a run, which is `FailuresHaveCauses`.

Model-checked only: `Terminates`, `EverybodyGetsThrough`, `Ends` and
`EndsWhenDue`: liveness under fairness is beyond the prover. Every safety
property of a passing run is proved.

## Not modelled

* The byte layout of tracepoint records and ring buffer records, and the failure
  of `ctx.read_at` and `decode_event` on a short record.
* Interleavings inside one handler. (`Session` has the reserve/submit protocol of
  the ring buffer.)
* Two sessions that write the same trace file, and what a mixture of two JSON
  texts would parse to.
* Relative speeds: a process that fills the ring buffer as fast as the reader
  empties it keeps `drain_ring_buffer` in its inner loop.
* The kernel's futex queue beside the trace: which wake really ended a wait.
* Steps of the wall clock during a session.
* Printing, colours, time and duration formats; the argument parser.
* `install.sh`, a straight-line script in a temporary directory of its own, the
  wrapper's platform test, the packaging recipes and the CI files.
* Time as a quantity: the model's clock ticks at events, so nothing is said
  about how long 5 ms is.

## Plan

Done: all modules above, their runs, and a theorem for each invariant, action
property and refinement that a passing run checks.

Next: the kernel's futex queue, `Probes`' timestamps and `Causal` together: how
far the window of `nearest_preceding` makes the waker named by a chain the one
that did wake the thread, given that it can return late. It needs a module that
composes `Probes` with a wait queue.
