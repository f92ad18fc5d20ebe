------------------------------ MODULE Session -------------------------------
(***************************************************************************)
(* One session, `whyslow run` or `whyslow attach` (main.rs, child.rs, and  *)
(* bpf.rs of whyslow-cli): the steps of the program, each of which may     *)
(* fail, beside the process it traces, signals, the clock, and the ring    *)
(* buffer that is being filled while it is drained.                        *)
(*                                                                         *)
(* What the probes make of a span is the subject of module Probes; here a  *)
(* span that the traced process begins and ends with the probes attached   *)
(* and the target set is a record, reserved first and submitted later.     *)
(***************************************************************************)
EXTENDS TraceStore

CONSTANTS
  Tracepoints,  \* how many programs there are to attach
  RingCap,      \* records the ring buffer holds
  MaxClock,     \* bound on the monotonic clock
  Offset        \* what the wall clock is ahead of it

ASSUME SessionAssumption ==
  /\ Tracepoints \in Nat \ {0}
  /\ RingCap \in Nat \ {0}
  /\ MaxClock \in Nat
  /\ Offset \in Nat

VARIABLES
  mode,           \* run or attach
  sigchldIgnored, \* whyslow was started with SIGCHLD ignored
  pc, attached, target, anchor, handler, STOP_REQUESTED, expired, events,
  child,          \* the traced process, whoever has its pid
  io,             \* it has a traced request under way
  clock, ring,
  ended           \* spans the session is expected to have seen

config  == <<mode, sigchldIgnored>>
flags   == <<handler, STOP_REQUESTED, expired>>
probes  == <<attached, target>>
kernel  == <<child, io, clock, ring, ended>>
session == <<pc, probes, anchor, flags, events>>

vars == <<config, session, kernel, storeVars>>

Record == [ts : Nat, own : BOOLEAN, irq : BOOLEAN, busy : BOOLEAN]

Over == pc \in {"done", "failed", "killed"}

(* drain_ring_buffer, up to the check that ends its loop                   *)
InLoop == pc \in {"open", "drain", "check", "poll"}

Live == attached = Tracepoints /\ target

(* What the probes do after the last drain is seen by nobody.              *)
Watched == ~Over /\ pc \notin {"create", "write", "print"}

NoAnchor == [realtime |-> 0, monotonic |-> 0]

Go(there) == pc' = there

(* What becomes of the traced process when the session's process is gone.  *)
(* A command of run whose stop waitpid has collected (so from load on) is  *)
(* let go and runs on: ptrace was not asked to kill it, and the trap was   *)
(* spent by the wait.  One whose stop is not yet collected takes the trap, *)
(* untraced, and dies of it; one that has not yet taken it may do either.  *)
(* One that is dead is reaped.                                             *)
LeftBehind ==
  CASE mode = "run" /\ child = "zombie" -> {"gone"}
    [] child = "execed"                 -> {"gone", "running"}
    [] child = "stopped"                -> {IF pc = "wait" THEN "gone" ELSE "running"}
    [] OTHER                            -> {child}

(* The session's process is gone, in whatever way: the programs are        *)
(* detached and the buffer is freed.  What the process had in memory is    *)
(* gone too, and nobody follows the traced process any more.               *)
End(how) ==
  /\ Go(how)
  /\ attached' = 0 /\ target' = FALSE /\ ring' = <<>>
  /\ anchor' = NoAnchor /\ events' = <<>>
  /\ handler' = FALSE /\ STOP_REQUESTED' = FALSE /\ expired' = FALSE
  /\ io' = FALSE /\ ended' = {} /\ clock' = 0
  /\ child' \in LeftBehind
  /\ UNCHANGED <<config, storeVars>>

(* An error that `?` passes on to main: no privilege, no such command, a   *)
(* kernel that refuses a program or the mapping of the ring buffer, a file *)
(* that cannot be created or a disk that is full.                          *)
Fail ==
  /\ pc \in {"start", "spawn", "load", "target", "open", "create", "write"}
  /\ End("failed")

(* attach also asks whether there is such a process, with kill(pid, 0).    *)
require_root ==
  /\ pc = "start"
  /\ IF child = "gone"
     THEN End("failed")
     ELSE /\ Go(IF mode = "run" THEN "spawn" ELSE "load")
          /\ UNCHANGED <<config, probes, anchor, flags, events, kernel, storeVars>>

(* spawn returns once the child has called execve.                         *)
spawn_stopped ==
  /\ pc = "spawn"
  /\ child' = "execed"
  /\ Go("wait")
  /\ UNCHANGED <<config, probes, anchor, flags, events, io, clock, ring, ended,
                 storeVars>>

(* waitpid blocks until the child has stopped, or died.                    *)
wait_until_stopped ==
  /\ pc = "wait"
  /\ \/ /\ child = "stopped"
        /\ Go("load")
        /\ UNCHANGED <<config, probes, anchor, flags, events, kernel, storeVars>>
     \/ child \in {"zombie", "gone", "reused"} /\ End("failed")

load_and_attach ==
  /\ pc = "load"
  /\ attached' = attached + 1
  /\ Go(IF attached' = Tracepoints THEN "target" ELSE "load")
  /\ UNCHANGED <<config, target, anchor, flags, events, kernel, storeVars>>

(* A faulty variant of TargetSet. *)
TargetSet_OtherSlot == FALSE

(* map.set(0, tgid): the probes read slot 0.                               *)
TargetSet == TRUE

set_target_tgid ==
  /\ pc = "target"
  /\ target' = TargetSet
  /\ Go("realtime")
  /\ UNCHANGED <<config, attached, anchor, flags, events, kernel, storeVars>>

(* Faulty variant of FirstClock. *)
FirstClock_Monotonic == "monotonic"

(* capture_anchor reads the one clock and then the other.                  *)
FirstClock == "realtime"

ReadClock(which) ==
  anchor' = [anchor EXCEPT ![which] = IF which = "realtime" THEN clock + Offset ELSE clock]

capture_anchor ==
  LET second == IF FirstClock = "realtime" THEN "monotonic" ELSE "realtime"
  IN  /\ \/ pc = "realtime" /\ ReadClock(FirstClock) /\ Go("monotonic")
         \/ pc = "monotonic" /\ ReadClock(second) /\ Go("begin")
      /\ UNCHANGED <<config, probes, flags, events, kernel, storeVars>>

(* PTRACE_DETACH fails on a dead child.                                    *)
resume ==
  /\ pc = "begin" /\ mode = "run"
  /\ IF child = "stopped"
     THEN /\ child' = "running"
          /\ Go("open")
          /\ UNCHANGED <<config, probes, anchor, flags, events, io, clock, ring,
                         ended, storeVars>>
     ELSE End("failed")

install_handler ==
  /\ pc = "begin" /\ mode = "attach"
  /\ handler' = TRUE
  /\ Go("open")
  /\ UNCHANGED <<config, probes, anchor, STOP_REQUESTED, expired, events, kernel,
                 storeVars>>

(* RingBuf::try_from maps the buffer; the process is running by now.       *)
OpenRing ==
  /\ pc = "open"
  /\ Go("drain")
  /\ UNCHANGED <<config, probes, anchor, flags, events, kernel, storeVars>>

(* ring.next() and the push                                                *)
NextRecord ==
  /\ pc \in {"drain", "last"}
  /\ ring # <<>> /\ ~Head(ring).busy
  /\ events' = Append(events, Head(ring))
  /\ ring' = Tail(ring)
  /\ UNCHANGED <<config, pc, probes, anchor, flags, child, io, clock, ended, storeVars>>

(* ring.next() is None: the buffer is empty, or its oldest record is still *)
(* being written.  What is in it after the last drain no one will read.    *)
NothingNext ==
  /\ pc \in {"drain", "last"}
  /\ ring # <<>> => Head(ring).busy
  /\ \/ pc = "drain" /\ Go("check") /\ UNCHANGED <<io, ring, ended>>
     \/ pc = "last" /\ Go("create") /\ io' = FALSE /\ ring' = <<>> /\ ended' = {}
  /\ UNCHANGED <<config, probes, anchor, flags, events, child, clock, storeVars>>

(* Faulty variants of has_exited and of interrupted. *)
has_exited_NoChange == child \in {"zombie", "running"}
has_exited_Error    == child \in {"gone", "reused"}
interrupted_NoFlag  == expired \/ child = "gone"

(* waitpid(WNOHANG) returns the pid of a child that is dead and not yet    *)
(* reaped, and reaps it.  With SIGCHLD ignored there never is one.         *)
has_exited == child = "zombie"

(* should_stop of attach                                                   *)
interrupted == STOP_REQUESTED \/ expired \/ child = "gone"

(* Faulty variant of WhenStopped: no last drain. *)
WhenStopped_AtOnce == "create"

WhenStopped == "last"

CheckStop ==
  /\ pc = "check"
  /\ Go(IF (mode = "run" /\ has_exited) \/ (mode = "attach" /\ interrupted)
        THEN WhenStopped ELSE "poll")
  /\ child' = IF mode = "run" /\ child = "zombie" THEN "gone" ELSE child
  /\ UNCHANGED <<config, probes, anchor, flags, events, io, clock, ring, ended,
                 storeVars>>

(* poll returns with a record, or after 100 ms without one.                *)
Poll ==
  /\ pc = "poll"
  /\ Go("drain")
  /\ UNCHANGED <<config, probes, anchor, flags, events, kernel, storeVars>>

(* write_to, and then print_chains                                         *)
WriteTrace ==
  /\ \/ pc = "create" /\ create /\ Go("write")
     \/ pc = "write" /\ WriteChunk /\ Go(IF written' = NewSize THEN "print" ELSE "write")
  /\ UNCHANGED <<config, probes, anchor, flags, events, kernel>>

print_chains == pc = "print" /\ End("done")

(* `whyslow explain`, in a process of its own.  What it reads before the   *)
(* session comes to the file does not depend on the session.               *)
explain_cmd ==
  /\ pc \in {"create", "write", "print"} \/ Over
  /\ read_from
  /\ UNCHANGED <<config, session, kernel>>

-----------------------------------------------------------------------------
(* The surroundings: the kernel, the traced process, the user.             *)

Trap ==
  /\ child = "execed"
  /\ child' = "stopped"
  /\ UNCHANGED <<config, session, io, clock, ring, ended, storeVars>>

(* A program runs to its end on its thread, so a process does not exit     *)
(* between reserving and submitting; an interrupt's record may be pending. *)
ChildExits ==
  /\ child \in {"execed", "stopped", "running"}
  /\ \A i \in 1..Len(ring) : ring[i].busy => ring[i].irq
  /\ child' = IF mode = "run" /\ (sigchldIgnored \/ Over) THEN "gone" ELSE "zombie"
  /\ UNCHANGED <<config, session, io, clock, ring, ended, storeVars>>

ReapedByParent ==
  /\ mode = "attach" /\ child = "zombie"
  /\ child' = "gone"
  /\ UNCHANGED <<config, session, io, clock, ring, ended, storeVars>>

PidReused ==
  /\ child = "gone" /\ Watched
  /\ child' = "reused"
  /\ UNCHANGED <<config, session, io, clock, ring, ended, storeVars>>

(* bpf_ringbuf_reserve by a handler of the traced pid                      *)
Reserve(own, irq) ==
  /\ Watched /\ clock < MaxClock
  /\ clock' = clock + 1
  /\ ring' = IF Live /\ Len(ring) < RingCap
             THEN Append(ring, [ts |-> clock', own |-> own, irq |-> irq, busy |-> TRUE])
             ELSE ring
  /\ ended' = IF child = "running" /\ (mode = "run" \/ Live) /\ Len(ring) < RingCap
              THEN ended \cup {clock'} ELSE ended
  /\ UNCHANGED <<config, session, child, storeVars>>

SpanEnds ==
  /\ child \in {"running", "reused"}
  /\ Reserve(child = "running", FALSE)
  /\ UNCHANGED io

IssueIo ==
  /\ child = "running" /\ Live /\ Watched /\ ~io
  /\ io' = TRUE
  /\ UNCHANGED <<config, session, child, clock, ring, ended, storeVars>>

(* The interrupt comes when it comes, the process may be gone by then.     *)
CompleteIo ==
  /\ io /\ io' = FALSE
  /\ Reserve(TRUE, TRUE)

Submit ==
  \E i \in 1..Len(ring) :
    /\ Watched /\ ring[i].busy
    /\ ring' = [ring EXCEPT ![i].busy = FALSE]
    /\ UNCHANGED <<config, session, child, io, clock, ended, storeVars>>

(* Time passes between the readings of the two clocks.                     *)
Tick ==
  /\ pc = "monotonic" /\ clock < MaxClock
  /\ clock' = clock + 1
  /\ UNCHANGED <<config, session, child, io, ring, ended, storeVars>>

Expire ==
  /\ mode = "attach" /\ InLoop /\ ~expired
  /\ expired' = TRUE
  /\ UNCHANGED <<config, pc, probes, anchor, handler, STOP_REQUESTED, events, kernel,
                 storeVars>>

(* handle_sigint, or the default action of SIGINT and SIGKILL              *)
handle_sigint ==
  /\ ~Over /\ handler /\ ~STOP_REQUESTED
  /\ STOP_REQUESTED' = TRUE
  /\ UNCHANGED <<config, pc, probes, anchor, handler, expired, events, kernel, storeVars>>

Kill == ~Over /\ End("killed")

Rest ==
  /\ Over
  /\ UNCHANGED vars

Init ==
  /\ mode \in {"run", "attach"}
  /\ sigchldIgnored \in (IF mode = "run" THEN BOOLEAN ELSE {FALSE})
  /\ pc = "start"
  /\ attached = 0 /\ target = FALSE
  /\ anchor = NoAnchor
  /\ handler = FALSE /\ STOP_REQUESTED = FALSE /\ expired = FALSE
  /\ events = <<>>
  /\ child \in (IF mode = "run" THEN {"none"} ELSE {"running", "zombie", "gone"})
  /\ io = FALSE
  /\ clock = 0
  /\ ring = <<>>
  /\ ended = {}
  /\ StoreInit

Step ==
  \/ require_root \/ spawn_stopped \/ wait_until_stopped
  \/ load_and_attach \/ set_target_tgid \/ capture_anchor
  \/ resume \/ install_handler
  \/ OpenRing \/ NextRecord \/ NothingNext \/ CheckStop \/ Poll
  \/ WriteTrace \/ print_chains

Surroundings ==
  \/ Trap \/ ChildExits \/ ReapedByParent \/ PidReused
  \/ SpanEnds \/ IssueIo \/ CompleteIo \/ Submit \/ Tick
  \/ Expire \/ handle_sigint \/ Kill \/ explain_cmd

Next == Step \/ Fail \/ Surroundings \/ Rest

Spec == Init /\ [][Next]_vars

FairSpec == Spec /\ WF_vars(Step) /\ WF_vars(Trap)

-----------------------------------------------------------------------------

(* Types; a session is past load_and_attach only with every program        *)
(* attached.                                                               *)
SessionTypeOK ==
  /\ StoreTypeOK
  /\ attached \in 0..Tracepoints /\ target \in BOOLEAN
  /\ anchor \in Anchor
  /\ {handler, STOP_REQUESTED, expired, io} \subseteq BOOLEAN
  /\ events \in Seq(Record)
  /\ child \in {"none", "execed", "stopped", "running", "zombie", "gone", "reused"}
  /\ clock \in 0..MaxClock
  /\ ring \in Seq(Record) /\ Len(ring) <= RingCap
  /\ ended \subseteq 1..MaxClock
  /\ InLoop => Live

Seen == {events[i].ts : i \in 1..Len(events)}

(* Records at or behind one that is still being written.                   *)
Unreadable == {ring[i].ts : i \in {i \in 1..Len(ring) : \E j \in 1..i : ring[j].busy}}

(* When drain_ring_buffer returns, every span that the command ended since *)
(* its first instruction, and every one that an attached process ended     *)
(* since the probes were live, has been read, if there was room for it     *)
(* when it ended; only what waits behind an interrupt that has not         *)
(* submitted its record is given up.                                       *)
NothingMissed ==
  [][pc # "create" /\ pc' = "create" => ended \subseteq Seen \cup Unreadable]_vars

(* As long as run keeps draining, what it drains is its own command's:     *)
(* has_exited gives the pid back to the system only in the call that ends  *)
(* the loop.  (Not so when SIGCHLD is ignored, and not in the last drain.) *)
TracesOnlyTheCommand ==
  mode = "run" /\ ~sigchldIgnored /\ InLoop =>
    /\ \A i \in 1..Len(events) : events[i].own
    /\ \A i \in 1..Len(ring) : ring[i].own

(* What run writes and prints is of a whole run: it leaves the loop of     *)
(* drain_ring_buffer, and returns without an error, only when its command  *)
(* has come to its end and was reaped.                                     *)
ReportsWholeRun ==
  mode = "run" /\ pc \in {"last", "create", "write", "print", "done"} =>
    child \in {"gone", "reused"}

(* What DESIGN.md and child.rs say of run: unless whyslow is killed, its   *)
(* command runs only with every program attached and the target set.       *)
RunsTraced == mode = "run" /\ child = "running" /\ pc # "killed" => Live

(* The wall time of an event (capture_anchor, wall_ns_for) is never later  *)
(* than the time it happened, and in a run never before the anchor, which  *)
(* is taken before the command starts.                                     *)
WallTimes ==
  \A i \in 1..Len(events) :
    LET wall == wall_ns_for(anchor, events[i].ts)
    IN  /\ wall <= events[i].ts + Offset
        /\ mode = "run" => wall >= anchor.realtime

(* There is a reason to end the session ...                                *)
Due ==
  \/ mode = "run" /\ child = "zombie"
  \/ mode = "attach" /\ child = "gone"
  \/ STOP_REQUESTED \/ expired

(* ... and it has ended, or the only reason is no more.                    *)
Settled == Over \/ (mode = "attach" /\ child = "reused" /\ ~STOP_REQUESTED /\ ~expired)

(* drain_ring_buffer returns and the session ends: run when its command    *)
(* has exited (unless SIGCHLD is ignored), attach when it is told to, when *)
(* the time is up, or when the process is gone and its pid stays unused.   *)
EndsWhenDue == Due ~> Settled

=============================================================================
