---------------------------- MODULE SessionProofs ---------------------------
(***************************************************************************)
(* What a session sees, leaves behind and writes, for any number of        *)
(* tracepoints and records, any trace, and any time at which the traced    *)
(* process, an interrupt, the user or the kernel gets in between.          *)
(***************************************************************************)
EXTENDS Session, SequenceTheorems, TLAPS

Starting == {"start", "spawn", "wait", "load", "target", "realtime", "monotonic", "begin"}
Looping  == {"open", "drain", "check", "poll"}
Ending   == {"last", "create", "write", "print"}
Ended    == {"done", "failed", "killed"}

(* The programs are attached one by one, and then the target is set.       *)
Stages ==
  /\ mode \in {"run", "attach"} /\ sigchldIgnored \in BOOLEAN
  /\ pc \in Starting \cup Looping \cup Ending \cup Ended
  /\ pc \in {"start", "spawn", "wait"} => attached = 0
  /\ pc = "load" => attached < Tracepoints
  /\ pc \in {"target", "realtime", "monotonic", "begin"} \cup Looping \cup Ending
       => attached = Tracepoints
  /\ target <=> pc \in {"realtime", "monotonic", "begin"} \cup Looping \cup Ending
  /\ pc \in {"spawn", "wait"} => mode = "run"

(* Where a command can be while the session that runs it is at pc: it runs *)
(* in the loop and before that it is stopped, and the loop is left when it *)
(* was reaped.  Nothing is said of a session that failed or was killed: it *)
(* may leave its command running.                                          *)
CommandLife ==
  mode = "run" =>
    /\ pc \in {"start", "spawn"} => child = "none"
    /\ pc = "wait" => child \in {"execed", "stopped", "zombie", "gone", "reused"}
    /\ pc \in {"load", "target", "realtime", "monotonic", "begin"}
         => child \in {"stopped", "zombie", "gone", "reused"}
    /\ pc \in Looping => child \in {"running", "zombie", "gone", "reused"}
    /\ pc \in Ending \cup {"done"} => child \in {"gone", "reused"}

(* Up to the end of the loop the pid is the command's, and so is all that  *)
(* was recorded under it.                                                  *)
PidKept ==
  mode = "run" /\ ~sigchldIgnored /\ pc \in Starting \cup Looping =>
    /\ child \notin {"gone", "reused"}
    /\ \A i \in 1..Len(events) : events[i].own
    /\ \A i \in 1..Len(ring) : ring[i].own

(* Only a session at work has events, and a command that can still be      *)
(* resumed has not been recorded.                                          *)
QuietStart ==
  /\ pc \in Starting \cup Ended => events = <<>>
  /\ mode = "run" /\ pc \in Starting =>
       /\ io = FALSE
       /\ child \in {"none", "execed", "stopped"} => ring = <<>>

(* The wall clock was read first, and in a run before anything happened.   *)
AnchorFirst ==
  /\ pc = "monotonic" => anchor.realtime <= clock + Offset
  /\ pc \in {"begin"} \cup Looping \cup Ending =>
       /\ anchor.realtime <= anchor.monotonic + Offset
       /\ anchor.monotonic <= clock
  /\ mode = "run" /\ pc \in Looping \cup Ending =>
       /\ \A i \in 1..Len(events) : events[i].ts >= anchor.monotonic
       /\ \A i \in 1..Len(ring) : ring[i].ts >= anchor.monotonic

(* What is owed has been read or is in the buffer.                         *)
OwedKept == \A t \in ended : \/ \E i \in 1..Len(events) : events[i].ts = t
                             \/ \E i \in 1..Len(ring) : ring[i].ts = t

(* The file is the old trace, or the beginning of the new one.             *)
NewSoFar == Len(file) = written /\ \A i \in 1..written : file[i] = Trace("new")[i]

FileInv ==
  /\ pc \in Starting \cup Looping \cup {"last", "create"} => written = 0
  /\ pc = "write" => NewSoFar
  /\ file = Trace("old") \/ NewSoFar

(* An undisturbed reader has read the beginning of the file.               *)
ReaderInv ==
  /\ reader = "idle" => got = <<>>
  /\ reader = "reading" /\ ~overlapped =>
       Len(got) <= Len(file) /\ \A i \in 1..Len(got) : got[i] = file[i]
  /\ ReadsWhole

IInv ==
  /\ SessionTypeOK /\ Stages /\ CommandLife /\ PidKept /\ QuietStart
  /\ AnchorFirst /\ OwedKept /\ FileInv /\ ReaderInv

USE DEF Starting, Looping, Ending, Ended, InLoop, Over, Live, Watched, Go,
        vars, config, flags, probes, kernel, session, storeVars

-----------------------------------------------------------------------------
(* The trace as a text.                                                    *)
LEMMA TraceText ==
  ASSUME NEW who \in {"old", "new"}
  PROVE  /\ Size(who) \in Nat \ {0}
         /\ Trace(who) \in Seq(Chunk)
         /\ Len(Trace(who)) = Size(who)
         /\ \A i \in 1..Size(who) :
              Trace(who)[i] \in Chunk /\ (Trace(who)[i].last <=> i = Size(who))
<1>1. Size(who) \in Nat \ {0}
  BY SizeAssumption DEF Size
<1>2. \A i \in 1..Size(who) :
        /\ Trace(who)[i] = [of |-> who, last |-> i = Size(who)]
        /\ Trace(who)[i] \in Chunk /\ (Trace(who)[i].last <=> i = Size(who))
  BY <1>1 DEF Trace, Chunk
<1>3. Trace(who) \in [1..Size(who) -> Chunk]
  BY <1>1, <1>2 DEF Trace
<1>4. Trace(who) \in Seq(Chunk) /\ Len(Trace(who)) = Size(who)
  BY <1>1, <1>3
<1> QED BY <1>1, <1>2, <1>4

LEMMA InitIInv == Init => IInv
<1> SUFFICES ASSUME Init PROVE IInv
  OBVIOUS
<1>1. SessionTypeOK
  <2>1. /\ target \in BOOLEAN /\ overlapped \in BOOLEAN
        /\ {handler, STOP_REQUESTED, expired, io} \subseteq BOOLEAN
    BY DEF Init, StoreInit
  <2>2. file \in Seq(Chunk)
    BY TraceText DEF Init, StoreInit
  <2>3. /\ got \in Seq(Chunk)
        /\ written \in 0..NewSize
        /\ reader \in {"idle", "reading", "read", "refused"}
    BY SizeAssumption DEF Init, StoreInit
  <2>4. /\ attached \in 0..Tracepoints
        /\ anchor \in Anchor
        /\ events \in Seq(Record)
        /\ child \in {"none", "execed", "stopped", "running", "zombie", "gone", "reused"}
        /\ clock \in 0..MaxClock
        /\ ring \in Seq(Record) /\ Len(ring) <= RingCap
        /\ ended \subseteq 1..MaxClock
        /\ pc = "start"
    BY SessionAssumption DEF Init, NoAnchor, Anchor
  <2> QED BY <2>1, <2>2, <2>3, <2>4 DEF SessionTypeOK, StoreTypeOK
<1>2. Stages /\ CommandLife
  BY SessionAssumption DEF Init, Stages, CommandLife
<1>3. PidKept /\ QuietStart /\ AnchorFirst /\ OwedKept
  BY DEF Init, PidKept, QuietStart, AnchorFirst, OwedKept
<1>4. FileInv /\ ReaderInv
  BY DEF Init, StoreInit, FileInv, ReaderInv, ReadsWhole
<1> QED BY <1>1, <1>2, <1>3, <1>4 DEF IInv

(* A step that does not touch the file, and does not get to writing it.    *)
LEMMA StoreUntouched ==
  ASSUME FileInv, ReaderInv, UNCHANGED storeVars,
         pc' \in Starting \cup Looping \cup {"last", "create"}
           => pc \in Starting \cup Looping \cup {"last", "create"},
         pc' = "write" => pc = "write"
  PROVE  FileInv' /\ ReaderInv'
BY DEF FileInv, ReaderInv, ReadsWhole, NewSoFar, Trace, Size

(* The end of the session's process, however it comes about; it is only    *)
(* after the loop that it returns without an error.                        *)
LEMMA EndStep ==
  ASSUME IInv, NEW how \in Ended, End(how),
         how = "done" => pc \in Ending
  PROVE  IInv'
<1>1. SessionTypeOK'
  <2>1. StoreTypeOK'
    BY DEF IInv, End, SessionTypeOK, StoreTypeOK
  <2>2. /\ target' \in BOOLEAN
        /\ {handler, STOP_REQUESTED, expired, io}' \subseteq BOOLEAN
    BY DEF End
  <2>3. /\ attached' \in 0..Tracepoints
        /\ anchor' \in Anchor
        /\ events' \in Seq(Record)
        /\ child' \in {"none", "execed", "stopped", "running", "zombie", "gone", "reused"}
        /\ clock' \in 0..MaxClock
        /\ ring' \in Seq(Record) /\ Len(ring') <= RingCap
        /\ ended' \subseteq 1..MaxClock
        /\ pc' \in Ended
    BY SessionAssumption DEF IInv, SessionTypeOK, End, LeftBehind, NoAnchor, Anchor
  <2> QED BY <2>1, <2>2, <2>3 DEF SessionTypeOK
<1>2. Stages' /\ CommandLife'
  BY SessionAssumption DEF IInv, End, LeftBehind, Stages, CommandLife
<1>3. PidKept' /\ QuietStart' /\ AnchorFirst' /\ OwedKept'
  BY DEF End, PidKept, QuietStart, AnchorFirst, OwedKept
<1>4. FileInv' /\ ReaderInv'
  BY StoreUntouched DEF IInv, End
<1> QED BY <1>1, <1>2, <1>3, <1>4 DEF IInv

-----------------------------------------------------------------------------
(* Steps that only get the session or the traced process further.          *)

(* The clock, the anchor and the records stay as they are.                 *)
LEMMA RecordsUntouched ==
  ASSUME PidKept, QuietStart, AnchorFirst, OwedKept,
         UNCHANGED <<mode, sigchldIgnored, anchor, events, ring, ended, clock, io>>,
         pc' \in Starting => pc \in Starting,
         pc' \in Ended => pc \in Ended,
         mode = "run" /\ pc' \in Starting /\ child' \in {"none", "execed", "stopped"}
           => child \in {"none", "execed", "stopped"},
         pc' \in Starting \cup Looping => pc \in Starting \cup Looping,
         mode = "run" /\ ~sigchldIgnored /\ pc' \in Starting \cup Looping
           => child' \notin {"gone", "reused"},
         pc' = "monotonic" => pc = "monotonic",
         pc' \in {"begin"} \cup Looping \cup Ending => pc \in {"begin"} \cup Looping \cup Ending,
         mode = "run" /\ pc' \in Looping \cup Ending
           => pc \in Looping \cup Ending \/ (ring = <<>> /\ events = <<>>)
  PROVE  PidKept' /\ QuietStart' /\ AnchorFirst' /\ OwedKept'
<1>1. PidKept'
  BY DEF PidKept
<1>2. QuietStart'
  BY DEF QuietStart
<1>3. AnchorFirst'
  BY DEF AnchorFirst
<1>4. OwedKept'
  BY DEF OwedKept
<1> QED BY <1>1, <1>2, <1>3, <1>4

LEMMA SpawnStep ==
  ASSUME IInv, spawn_stopped
  PROVE  IInv'
<1>1. SessionTypeOK'
  BY SessionAssumption DEF IInv, Stages, SessionTypeOK, StoreTypeOK, spawn_stopped
<1>2. Stages' /\ CommandLife'
  BY SessionAssumption DEF IInv, SessionTypeOK, Stages, CommandLife, spawn_stopped
<1>3. PidKept' /\ QuietStart' /\ AnchorFirst' /\ OwedKept'
  BY RecordsUntouched DEF IInv, Stages, CommandLife, PidKept, QuietStart, spawn_stopped
<1>4. FileInv' /\ ReaderInv'
  BY StoreUntouched DEF IInv, Stages, spawn_stopped
<1> QED BY <1>1, <1>2, <1>3, <1>4 DEF IInv

LEMMA LoadStep ==
  ASSUME IInv, load_and_attach
  PROVE  IInv'
<1>1. SessionTypeOK'
  BY SessionAssumption DEF IInv, Stages, SessionTypeOK, StoreTypeOK, load_and_attach
<1>2. Stages' /\ CommandLife'
  BY SessionAssumption DEF IInv, SessionTypeOK, Stages, CommandLife, load_and_attach
<1>3. PidKept' /\ QuietStart' /\ AnchorFirst' /\ OwedKept'
  BY RecordsUntouched DEF IInv, Stages, CommandLife, PidKept, QuietStart, load_and_attach
<1>4. FileInv' /\ ReaderInv'
  BY StoreUntouched DEF IInv, Stages, load_and_attach
<1> QED BY <1>1, <1>2, <1>3, <1>4 DEF IInv

LEMMA OpenRingStep ==
  ASSUME IInv, OpenRing
  PROVE  IInv'
<1>1. SessionTypeOK'
  BY SessionAssumption DEF IInv, Stages, SessionTypeOK, StoreTypeOK, OpenRing
<1>2. Stages' /\ CommandLife'
  BY SessionAssumption DEF IInv, SessionTypeOK, Stages, CommandLife, OpenRing
<1>3. PidKept' /\ QuietStart' /\ AnchorFirst' /\ OwedKept'
  BY RecordsUntouched DEF IInv, Stages, CommandLife, PidKept, QuietStart, OpenRing
<1>4. FileInv' /\ ReaderInv'
  BY StoreUntouched DEF IInv, Stages, OpenRing
<1> QED BY <1>1, <1>2, <1>3, <1>4 DEF IInv

LEMMA PollStep ==
  ASSUME IInv, Poll
  PROVE  IInv'
<1>1. SessionTypeOK'
  BY SessionAssumption DEF IInv, Stages, SessionTypeOK, StoreTypeOK, Poll
<1>2. Stages' /\ CommandLife'
  BY SessionAssumption DEF IInv, SessionTypeOK, Stages, CommandLife, Poll
<1>3. PidKept' /\ QuietStart' /\ AnchorFirst' /\ OwedKept'
  BY RecordsUntouched DEF IInv, Stages, CommandLife, PidKept, QuietStart, Poll
<1>4. FileInv' /\ ReaderInv'
  BY StoreUntouched DEF IInv, Stages, Poll
<1> QED BY <1>1, <1>2, <1>3, <1>4 DEF IInv

LEMMA CheckStopStep ==
  ASSUME IInv, CheckStop
  PROVE  IInv'
<1>1. SessionTypeOK'
  BY SessionAssumption DEF IInv, Stages, SessionTypeOK, StoreTypeOK, CheckStop, WhenStopped, has_exited, interrupted
<1>2. Stages' /\ CommandLife'
  BY SessionAssumption DEF IInv, SessionTypeOK, Stages, CommandLife, CheckStop, WhenStopped, has_exited, interrupted
<1>3. PidKept' /\ QuietStart' /\ AnchorFirst' /\ OwedKept'
  BY RecordsUntouched DEF IInv, Stages, CommandLife, PidKept, QuietStart, CheckStop, WhenStopped, has_exited, interrupted
<1>4. FileInv' /\ ReaderInv'
  BY StoreUntouched DEF IInv, Stages, CheckStop, WhenStopped, has_exited, interrupted
<1> QED BY <1>1, <1>2, <1>3, <1>4 DEF IInv

LEMMA TrapStep ==
  ASSUME IInv, Trap
  PROVE  IInv'
<1>1. SessionTypeOK'
  BY SessionAssumption DEF IInv, Stages, SessionTypeOK, StoreTypeOK, Trap
<1>2. Stages' /\ CommandLife'
  BY SessionAssumption DEF IInv, SessionTypeOK, Stages, CommandLife, Trap
<1>3. PidKept' /\ QuietStart' /\ AnchorFirst' /\ OwedKept'
  BY RecordsUntouched DEF IInv, Stages, CommandLife, PidKept, QuietStart, Trap
<1>4. FileInv' /\ ReaderInv'
  BY StoreUntouched DEF IInv, Stages, Trap
<1> QED BY <1>1, <1>2, <1>3, <1>4 DEF IInv

LEMMA ChildExitsStep ==
  ASSUME IInv, ChildExits
  PROVE  IInv'
<1>1. SessionTypeOK'
  BY SessionAssumption DEF IInv, Stages, SessionTypeOK, StoreTypeOK, ChildExits
<1>2. Stages' /\ CommandLife'
  BY SessionAssumption DEF IInv, SessionTypeOK, Stages, CommandLife, ChildExits
<1>3. PidKept' /\ QuietStart' /\ AnchorFirst' /\ OwedKept'
  BY RecordsUntouched DEF IInv, Stages, CommandLife, PidKept, QuietStart, ChildExits
<1>4. FileInv' /\ ReaderInv'
  BY StoreUntouched DEF IInv, Stages, ChildExits
<1> QED BY <1>1, <1>2, <1>3, <1>4 DEF IInv

LEMMA ReapedStep ==
  ASSUME IInv, ReapedByParent
  PROVE  IInv'
<1>1. SessionTypeOK'
  BY SessionAssumption DEF IInv, Stages, SessionTypeOK, StoreTypeOK, ReapedByParent
<1>2. Stages' /\ CommandLife'
  BY SessionAssumption DEF IInv, SessionTypeOK, Stages, CommandLife, ReapedByParent
<1>3. PidKept' /\ QuietStart' /\ AnchorFirst' /\ OwedKept'
  BY RecordsUntouched DEF IInv, Stages, CommandLife, PidKept, QuietStart, ReapedByParent
<1>4. FileInv' /\ ReaderInv'
  BY StoreUntouched DEF IInv, Stages, ReapedByParent
<1> QED BY <1>1, <1>2, <1>3, <1>4 DEF IInv

LEMMA PidReusedStep ==
  ASSUME IInv, PidReused
  PROVE  IInv'
<1>1. SessionTypeOK'
  BY SessionAssumption DEF IInv, Stages, SessionTypeOK, StoreTypeOK, PidReused
<1>2. Stages' /\ CommandLife'
  BY SessionAssumption DEF IInv, SessionTypeOK, Stages, CommandLife, PidReused
<1>3. PidKept' /\ QuietStart' /\ AnchorFirst' /\ OwedKept'
  BY RecordsUntouched DEF IInv, Stages, CommandLife, PidKept, QuietStart, PidReused
<1>4. FileInv' /\ ReaderInv'
  BY StoreUntouched DEF IInv, Stages, PidReused
<1> QED BY <1>1, <1>2, <1>3, <1>4 DEF IInv

LEMMA ExpireStep ==
  ASSUME IInv, Expire
  PROVE  IInv'
<1>1. SessionTypeOK'
  BY SessionAssumption DEF IInv, Stages, SessionTypeOK, StoreTypeOK, Expire
<1>2. Stages' /\ CommandLife'
  BY SessionAssumption DEF IInv, SessionTypeOK, Stages, CommandLife, Expire
<1>3. PidKept' /\ QuietStart' /\ AnchorFirst' /\ OwedKept'
  BY RecordsUntouched DEF IInv, Stages, CommandLife, PidKept, QuietStart, Expire
<1>4. FileInv' /\ ReaderInv'
  BY StoreUntouched DEF IInv, Stages, Expire
<1> QED BY <1>1, <1>2, <1>3, <1>4 DEF IInv

LEMMA SigintStep ==
  ASSUME IInv, handle_sigint
  PROVE  IInv'
<1>1. SessionTypeOK'
  BY SessionAssumption DEF IInv, Stages, SessionTypeOK, StoreTypeOK, handle_sigint
<1>2. Stages' /\ CommandLife'
  BY SessionAssumption DEF IInv, SessionTypeOK, Stages, CommandLife, handle_sigint
<1>3. PidKept' /\ QuietStart' /\ AnchorFirst' /\ OwedKept'
  BY RecordsUntouched DEF IInv, Stages, CommandLife, PidKept, QuietStart, handle_sigint
<1>4. FileInv' /\ ReaderInv'
  BY StoreUntouched DEF IInv, Stages, handle_sigint
<1> QED BY <1>1, <1>2, <1>3, <1>4 DEF IInv

LEMMA InstallHandlerStep ==
  ASSUME IInv, install_handler
  PROVE  IInv'
<1>1. SessionTypeOK'
  BY SessionAssumption DEF IInv, Stages, SessionTypeOK, StoreTypeOK, install_handler
<1>2. Stages' /\ CommandLife'
  BY SessionAssumption DEF IInv, SessionTypeOK, Stages, CommandLife, install_handler
<1>3. PidKept' /\ QuietStart' /\ AnchorFirst' /\ OwedKept'
  BY RecordsUntouched DEF IInv, Stages, CommandLife, PidKept, QuietStart, install_handler
<1>4. FileInv' /\ ReaderInv'
  BY StoreUntouched DEF IInv, Stages, install_handler
<1> QED BY <1>1, <1>2, <1>3, <1>4 DEF IInv

LEMMA SetTargetStep ==
  ASSUME IInv, set_target_tgid
  PROVE  IInv'
<1>1. SessionTypeOK'
  BY SessionAssumption DEF IInv, Stages, SessionTypeOK, StoreTypeOK, set_target_tgid, TargetSet
<1>2. Stages' /\ CommandLife'
  BY SessionAssumption DEF IInv, SessionTypeOK, Stages, CommandLife, set_target_tgid, TargetSet
<1>3. PidKept' /\ QuietStart' /\ AnchorFirst' /\ OwedKept'
  BY RecordsUntouched DEF IInv, Stages, CommandLife, PidKept, QuietStart, set_target_tgid, TargetSet
<1>4. FileInv' /\ ReaderInv'
  BY StoreUntouched DEF IInv, Stages, set_target_tgid, TargetSet
<1> QED BY <1>1, <1>2, <1>3, <1>4 DEF IInv

-----------------------------------------------------------------------------
(* Steps that may end the session.                                         *)

LEMMA RequireRootStep ==
  ASSUME IInv, require_root
  PROVE  IInv'
<1>1. CASE child = "gone"
  BY <1>1, EndStep DEF require_root
<1>2. CASE child # "gone"
  <2>1. SessionTypeOK'
    BY <1>2 DEF IInv, SessionTypeOK, StoreTypeOK, require_root
  <2>2. Stages' /\ CommandLife'
    BY <1>2, SessionAssumption DEF IInv, Stages, CommandLife, require_root
  <2>3. PidKept' /\ QuietStart' /\ AnchorFirst' /\ OwedKept'
    BY <1>2, RecordsUntouched DEF IInv, Stages, PidKept, require_root
  <2>4. FileInv' /\ ReaderInv'
    BY <1>2, StoreUntouched DEF IInv, Stages, require_root
  <2> QED BY <2>1, <2>2, <2>3, <2>4 DEF IInv
<1> QED BY <1>1, <1>2

LEMMA WaitStep ==
  ASSUME IInv, wait_until_stopped
  PROVE  IInv'
<1>1. CASE child = "stopped"
  <2>1. SessionTypeOK'
    BY <1>1 DEF IInv, SessionTypeOK, StoreTypeOK, wait_until_stopped
  <2>2. Stages' /\ CommandLife'
    BY <1>1, SessionAssumption DEF IInv, Stages, CommandLife, wait_until_stopped
  <2>3. PidKept' /\ QuietStart' /\ AnchorFirst' /\ OwedKept'
    BY <1>1, RecordsUntouched DEF IInv, Stages, PidKept, wait_until_stopped
  <2>4. FileInv' /\ ReaderInv'
    BY <1>1, StoreUntouched DEF IInv, Stages, wait_until_stopped
  <2> QED BY <2>1, <2>2, <2>3, <2>4 DEF IInv
<1>2. CASE child # "stopped"
  BY <1>2, EndStep DEF wait_until_stopped
<1> QED BY <1>1, <1>2

LEMMA ResumeStep ==
  ASSUME IInv, resume
  PROVE  IInv'
<1>1. CASE child = "stopped"
  <2>1. SessionTypeOK'
    BY <1>1 DEF IInv, SessionTypeOK, StoreTypeOK, Stages, resume
  <2>2. Stages' /\ CommandLife'
    BY <1>1, SessionAssumption DEF IInv, Stages, CommandLife, resume
  <2>3. PidKept' /\ QuietStart' /\ AnchorFirst' /\ OwedKept'
    BY <1>1, RecordsUntouched DEF IInv, Stages, PidKept, QuietStart, resume
  <2>4. FileInv' /\ ReaderInv'
    BY <1>1, StoreUntouched DEF IInv, Stages, resume
  <2> QED BY <2>1, <2>2, <2>3, <2>4 DEF IInv
<1>2. CASE child # "stopped"
  BY <1>2, EndStep DEF resume
<1> QED BY <1>1, <1>2

LEMMA FailStep ==
  ASSUME IInv, Fail \/ print_chains
  PROVE  IInv'
BY EndStep DEF Fail, print_chains

LEMMA KillStep ==
  ASSUME IInv, Kill
  PROVE  IInv'
BY EndStep DEF Kill

-----------------------------------------------------------------------------
(* The clocks.                                                             *)

LEMMA CaptureAnchorStep ==
  ASSUME IInv, capture_anchor
  PROVE  IInv'
<1> USE DEF capture_anchor, ReadClock, FirstClock
<1>1. anchor \in Anchor /\ anchor' \in Anchor
  BY SessionAssumption DEF IInv, SessionTypeOK, Anchor
<1>2. SessionTypeOK'
  BY <1>1 DEF IInv, SessionTypeOK, StoreTypeOK
<1>3. Stages' /\ CommandLife'
  BY DEF IInv, Stages, CommandLife
<1>4. PidKept' /\ QuietStart' /\ OwedKept'
  BY DEF IInv, PidKept, QuietStart, OwedKept
<1>5. AnchorFirst'
  BY <1>1, SessionAssumption DEF IInv, SessionTypeOK, AnchorFirst, Anchor
<1>6. FileInv' /\ ReaderInv'
  BY StoreUntouched DEF IInv
<1> QED BY <1>2, <1>3, <1>4, <1>5, <1>6 DEF IInv

LEMMA TickStep ==
  ASSUME IInv, Tick
  PROVE  IInv'
<1>1. SessionTypeOK'
  BY SessionAssumption DEF IInv, SessionTypeOK, StoreTypeOK, Tick
<1>2. Stages' /\ CommandLife'
  BY DEF IInv, Stages, CommandLife, Tick
<1>3. PidKept' /\ QuietStart' /\ OwedKept'
  BY DEF IInv, PidKept, QuietStart, OwedKept, Tick
<1>4. AnchorFirst'
  BY SessionAssumption DEF IInv, SessionTypeOK, AnchorFirst, Anchor, Tick
<1>5. FileInv' /\ ReaderInv'
  BY StoreUntouched DEF IInv, Tick
<1> QED BY <1>1, <1>2, <1>3, <1>4, <1>5 DEF IInv

-----------------------------------------------------------------------------
(* Records are reserved, submitted and read.                               *)

LEMMA IssueIoStep ==
  ASSUME IInv, IssueIo
  PROVE  IInv'
<1>1. SessionTypeOK'
  <2>1. io' \in BOOLEAN
    BY DEF IssueIo
  <2> QED BY <2>1 DEF IInv, SessionTypeOK, StoreTypeOK, IssueIo
<1>2. Stages' /\ CommandLife'
  BY DEF IInv, Stages, CommandLife, IssueIo
<1>3. PidKept' /\ QuietStart' /\ AnchorFirst' /\ OwedKept'
  BY DEF IInv, CommandLife, PidKept, QuietStart, AnchorFirst, OwedKept, IssueIo
<1>4. FileInv' /\ ReaderInv'
  BY StoreUntouched DEF IInv, IssueIo
<1> QED BY <1>1, <1>2, <1>3, <1>4 DEF IInv

(* What a reservation does to the buffer and to the account.               *)
LEMMA Reserved ==
  ASSUME IInv, NEW own \in BOOLEAN, NEW irq \in BOOLEAN, Reserve(own, irq)
  PROVE  /\ clock \in Nat /\ clock' = clock + 1 /\ clock' \in 1..MaxClock
         /\ ring' \in Seq(Record) /\ Len(ring') <= RingCap
         /\ Len(ring) <= Len(ring')
         /\ \A i \in 1..Len(ring) : ring'[i] = ring[i]
         /\ \A i \in 1..Len(ring') : i > Len(ring) => ring'[i].ts = clock' /\ ring'[i].own = own
         /\ Live /\ Len(ring) < RingCap => Len(ring') = Len(ring) + 1
         /\ ~Live => ring' = ring
<1> DEFINE r == [ts |-> clock', own |-> own, irq |-> irq, busy |-> TRUE]
<1>1. clock \in Nat /\ clock' = clock + 1 /\ clock' \in 1..MaxClock
  BY SessionAssumption DEF IInv, SessionTypeOK, Reserve
<1>2. r \in Record /\ r.ts = clock' /\ r.own = own
  BY <1>1 DEF Record
<1>3. ring' = IF Live /\ Len(ring) < RingCap THEN Append(ring, r) ELSE ring
  BY DEF Reserve
<1>4. ring \in Seq(Record) /\ Len(ring) \in Nat /\ Len(ring) <= RingCap
  BY DEF IInv, SessionTypeOK
<1> HIDE DEF r
<1>5. CASE Live /\ Len(ring) < RingCap
  <2>1. /\ ring' \in Seq(Record) /\ Len(ring') = Len(ring) + 1
        /\ \A i \in 1..Len(ring) : ring'[i] = ring[i]
        /\ ring'[Len(ring) + 1] = r
    BY <1>2, <1>3, <1>4, <1>5, AppendProperties
  <2> QED BY <1>1, <1>2, <1>4, <1>5, <2>1, SessionAssumption
<1>6. CASE ~(Live /\ Len(ring) < RingCap)
  BY <1>1, <1>3, <1>4, <1>6
<1> QED BY <1>5, <1>6

(* A record is reserved for the process that runs or for an interrupt of   *)
(* its own, or else the pid is somebody else's.                            *)
LEMMA ReserveStep ==
  ASSUME IInv, NEW own \in BOOLEAN, NEW irq \in BOOLEAN, Reserve(own, irq),
         ~own => child = "reused",
         mode = "run" /\ pc \in Starting => child = "reused",
         io' \in BOOLEAN, io = FALSE => io' = FALSE
  PROVE  IInv'
<1>1. SessionTypeOK'
  <2>1. ended' \subseteq 1..MaxClock
    BY Reserved DEF IInv, SessionTypeOK, Reserve
  <2>2. clock' \in 0..MaxClock /\ ring' \in Seq(Record) /\ Len(ring') <= RingCap
    BY Reserved, SessionAssumption
  <2>3. UNCHANGED <<config, session, child, storeVars>>
    BY DEF Reserve
  <2> QED BY <2>1, <2>2, <2>3 DEF IInv, SessionTypeOK, StoreTypeOK
<1>2. Stages' /\ CommandLife'
  BY DEF IInv, Stages, CommandLife, Reserve
<1>3. PidKept' /\ QuietStart'
  BY Reserved DEF IInv, SessionTypeOK, PidKept, QuietStart, Reserve
<1>4. AnchorFirst'
  BY Reserved, SessionAssumption DEF IInv, SessionTypeOK, Anchor, AnchorFirst, Reserve
<1>5. OwedKept'
  BY Reserved DEF IInv, SessionTypeOK, Stages, CommandLife, OwedKept, Reserve
<1>6. FileInv' /\ ReaderInv'
  BY StoreUntouched DEF IInv, Reserve
<1> QED BY <1>1, <1>2, <1>3, <1>4, <1>5, <1>6 DEF IInv

LEMMA SpanEndsStep ==
  ASSUME IInv, SpanEnds
  PROVE  IInv'
<1>1. (child = "running") \in BOOLEAN /\ FALSE \in BOOLEAN
  OBVIOUS
<1>2. child # "running" => child = "reused"
  BY DEF SpanEnds
<1>3. mode = "run" /\ pc \in Starting => child = "reused"
  BY DEF IInv, CommandLife, SpanEnds
<1>4. io' \in BOOLEAN /\ io' = io
  BY DEF IInv, SessionTypeOK, SpanEnds
<1>5. Reserve(child = "running", FALSE)
  BY DEF SpanEnds
<1> QED BY <1>1, <1>2, <1>3, <1>4, <1>5, ReserveStep

LEMMA CompleteIoStep ==
  ASSUME IInv, CompleteIo
  PROVE  IInv'
<1>1. ~(mode = "run" /\ pc \in Starting)
  BY DEF IInv, QuietStart, CompleteIo
<1>2. io' \in BOOLEAN /\ io' = FALSE
  BY DEF CompleteIo
<1>3. Reserve(TRUE, TRUE) /\ TRUE \in BOOLEAN
  BY DEF CompleteIo
<1> QED BY <1>1, <1>2, <1>3, ReserveStep

LEMMA SubmitStep ==
  ASSUME IInv, Submit
  PROVE  IInv'
<1>1. PICK i \in 1..Len(ring) :
        /\ ring' = [ring EXCEPT ![i].busy = FALSE]
        /\ UNCHANGED <<config, session, child, io, clock, ended, storeVars>>
  BY DEF Submit
<1>2. /\ ring' \in Seq(Record) /\ Len(ring') = Len(ring)
      /\ \A j \in 1..Len(ring) : ring'[j].ts = ring[j].ts /\ ring'[j].own = ring[j].own
  <2>1. ring \in Seq(Record) /\ ring[i] \in Record
    BY ElementOfSeq DEF IInv, SessionTypeOK
  <2> DEFINE e == [ring[i] EXCEPT !.busy = FALSE]
  <2>2. e \in Record /\ e.ts = ring[i].ts /\ e.own = ring[i].own
    BY <2>1 DEF Record
  <2>3. ring' = [ring EXCEPT ![i] = e]
    BY <1>1
  <2> HIDE DEF e
  <2> QED BY <2>1, <2>2, <2>3, ExceptSeq
<1>3. SessionTypeOK'
  BY <1>1, <1>2 DEF IInv, SessionTypeOK, StoreTypeOK
<1>4. Stages' /\ CommandLife'
  BY <1>1 DEF IInv, Stages, CommandLife
<1>5. PidKept' /\ QuietStart'
  <2>1. ring = <<>> => ring' = <<>>
    BY <1>1
  <2> QED BY <1>1, <1>2, <2>1 DEF IInv, PidKept, QuietStart
<1>6. AnchorFirst'
  BY <1>1, <1>2 DEF IInv, AnchorFirst
<1>7. OwedKept'
  BY <1>1, <1>2 DEF IInv, OwedKept
<1>8. FileInv' /\ ReaderInv'
  BY <1>1, StoreUntouched DEF IInv
<1> QED BY <1>3, <1>4, <1>5, <1>6, <1>7, <1>8 DEF IInv

LEMMA NextRecordStep ==
  ASSUME IInv, NextRecord
  PROVE  IInv'
<1>1. ring \in Seq(Record) /\ ring # <<>> /\ events \in Seq(Record) /\ Len(events) \in Nat
  BY DEF IInv, SessionTypeOK, NextRecord
<1>2. /\ Len(ring) \in Nat \ {0} /\ Head(ring) = ring[1] /\ Head(ring) \in Record
      /\ ring' \in Seq(Record) /\ Len(ring') = Len(ring) - 1
      /\ \A i \in 1..Len(ring') : ring'[i] = ring[i + 1]
  BY <1>1, HeadTailProperties, EmptySeq DEF NextRecord
<1>3. /\ events' \in Seq(Record) /\ Len(events') = Len(events) + 1
      /\ \A i \in 1..Len(events) : events'[i] = events[i]
      /\ events'[Len(events) + 1] = ring[1]
  BY <1>1, <1>2, AppendProperties DEF NextRecord
<1>4. pc \in {"drain", "last"} /\ UNCHANGED <<config, pc, probes, anchor, flags, child, io, clock, ended>>
  BY DEF NextRecord
<1>5. SessionTypeOK'
  BY <1>2, <1>3, SessionAssumption DEF IInv, SessionTypeOK, StoreTypeOK, NextRecord
<1>6. Stages' /\ CommandLife'
  BY <1>4 DEF IInv, Stages, CommandLife
<1>7. /\ \A i \in 1..Len(events') :
           (i \in 1..Len(events) /\ events'[i] = events[i]) \/ events'[i] = ring[1]
      /\ \A i \in 1..Len(ring') : i + 1 \in 1..Len(ring) /\ ring'[i] = ring[i + 1]
      /\ 1 \in 1..Len(ring)
  BY <1>1, <1>2, <1>3
<1>8. PidKept' /\ QuietStart' /\ AnchorFirst'
  BY <1>4, <1>7 DEF IInv, PidKept, QuietStart, AnchorFirst
<1>9. OwedKept'
  <2> SUFFICES ASSUME NEW t \in ended
               PROVE  \/ \E i \in 1..Len(events') : events'[i].ts = t
                      \/ \E i \in 1..Len(ring') : ring'[i].ts = t
    BY <1>4 DEF OwedKept
  <2>1. CASE \E i \in 1..Len(events) : events[i].ts = t
    BY <2>1, <1>1, <1>3
  <2>2. ASSUME NEW i \in 1..Len(ring), ring[i].ts = t
        PROVE  \/ \E j \in 1..Len(events') : events'[j].ts = t
               \/ \E j \in 1..Len(ring') : ring'[j].ts = t
    <3>1. CASE i = 1
      BY <2>2, <3>1, <1>1, <1>3
    <3>2. CASE i # 1
      <4>1. i - 1 \in 1..Len(ring') /\ ring'[i - 1] = ring[i]
        BY <3>2, <1>2
      <4> QED BY <2>2, <4>1
    <3> QED BY <3>1, <3>2
  <2> QED BY <2>1, <2>2 DEF IInv, OwedKept
<1>10. FileInv' /\ ReaderInv'
  BY StoreUntouched DEF IInv, NextRecord
<1> QED BY <1>5, <1>6, <1>8, <1>9, <1>10 DEF IInv

LEMMA NothingNextStep ==
  ASSUME IInv, NothingNext
  PROVE  IInv'
<1>1. SessionTypeOK'
  <2>1. io' \in BOOLEAN
    <3>1. io' = io \/ io' = FALSE
      BY DEF NothingNext
    <3>2. io \in BOOLEAN
      BY DEF IInv, SessionTypeOK
    <3> QED BY <3>1, <3>2
  <2>2. ring' \in Seq(Record) /\ Len(ring') <= RingCap /\ ended' \subseteq 1..MaxClock
    <3>1. (ring' = ring /\ ended' = ended) \/ (ring' = <<>> /\ ended' = {})
      BY DEF NothingNext
    <3>2. CASE ring' = ring /\ ended' = ended
      BY <3>2 DEF IInv, SessionTypeOK
    <3>3. CASE ring' = <<>> /\ ended' = {}
      BY <3>3, SessionAssumption
    <3> QED BY <3>1, <3>2, <3>3
  <2>3. InLoop' => Live'
    BY DEF IInv, Stages, NothingNext
  <2>4. UNCHANGED <<config, probes, anchor, flags, events, child, clock, storeVars>>
    BY DEF NothingNext
  <2> QED BY <2>1, <2>2, <2>3, <2>4 DEF IInv, SessionTypeOK, StoreTypeOK
<1>2. Stages' /\ CommandLife'
  BY DEF IInv, Stages, CommandLife, NothingNext
<1>3. PidKept' /\ QuietStart' /\ AnchorFirst' /\ OwedKept'
  BY DEF IInv, PidKept, QuietStart, AnchorFirst, OwedKept, NothingNext
<1>4. FileInv' /\ ReaderInv'
  BY StoreUntouched DEF IInv, NothingNext
<1> QED BY <1>1, <1>2, <1>3, <1>4 DEF IInv

-----------------------------------------------------------------------------
(* The trace file is written and read.                                     *)

(* A chunk goes to the end of what the session has written.                *)
LEMMA WriteChunkEffect ==
  ASSUME StoreTypeOK, NewSoFar, WriteChunk
  PROVE  file' \in Seq(Chunk) /\ NewSoFar' /\ written' \in 0..NewSize
<1> DEFINE c == Trace("new")[written + 1]
<1>1. written \in Nat /\ written + 1 \in 1..NewSize /\ written' = written + 1 /\ NewSize \in Nat
  BY SizeAssumption DEF StoreTypeOK, WriteChunk
<1>2. c \in Chunk
  BY <1>1, TraceText DEF Size
<1>3. file \in Seq(Chunk) /\ Len(file) = written
  BY DEF StoreTypeOK, NewSoFar
<1>4. SubSeq(file, 1, written) = file
  BY <1>3, SubSeqFull
<1>5. SubSeq(file, written + 2, Len(file)) = <<>>
  BY <1>1, <1>3, SubSeqEmpty
<1> HIDE DEF c
<1>6. file' = (file \o <<c>>) \o <<>>
  BY <1>4, <1>5 DEF WriteChunk, c
<1>7. file' = Append(file, c)
  <2>1. <<c>> \in Seq(Chunk)
    BY <1>2
  <2>2. file \o <<c>> \in Seq(Chunk)
    BY <2>1, <1>3, ConcatProperties
  <2>3. file' = file \o <<c>>
    BY <1>6, <2>2, ConcatEmptySeq
  <2>4. file \o <<c>> = Append(file, c)
    BY <1>2, <1>3
  <2> QED BY <2>3, <2>4
<1>8. /\ file' \in Seq(Chunk) /\ Len(file') = written + 1
      /\ \A i \in 1..written : file'[i] = file[i]
      /\ file'[written + 1] = c
  BY <1>2, <1>3, <1>7, AppendProperties
<1>9. \A i \in 1..(written + 1) : file'[i] = Trace("new")[i]
  BY <1>1, <1>8 DEF NewSoFar, c
<1>10. written' \in 0..NewSize
  BY <1>1
<1>11. NewSoFar'
  BY <1>1, <1>8, <1>9 DEF NewSoFar
<1> QED BY <1>8, <1>10, <1>11

(* A reader that the writer gets in the way of is told apart.              *)
LEMMA TouchReader ==
  ASSUME StoreTypeOK, ReaderInv, Touch
  PROVE  ReaderInv' /\ overlapped' \in BOOLEAN
<1>1. overlapped' \in BOOLEAN
  BY DEF StoreTypeOK, Touch
<1>2. ReaderInv'
  BY DEF StoreTypeOK, ReaderInv, ReadsWhole, Touch, Trace, Size
<1> QED BY <1>1, <1>2

LEMMA WriteTraceStep ==
  ASSUME IInv, WriteTrace
  PROVE  IInv'
<1>0. StoreTypeOK /\ ReaderInv /\ FileInv
  BY DEF IInv, SessionTypeOK
<1>1. Touch /\ UNCHANGED <<config, probes, anchor, flags, events, kernel>>
  BY DEF WriteTrace, create, WriteChunk
<1>2. ReaderInv' /\ overlapped' \in BOOLEAN
  BY <1>0, <1>1, TouchReader
<1>3. StoreTypeOK' /\ FileInv' /\ pc \in {"create", "write"} /\ pc' \in {"write", "print"}
  <2>1. CASE pc = "create"
    <3>1. file' = <<>> /\ written' = 0 /\ pc' = "write"
      BY <2>1, <1>0 DEF WriteTrace, create, Created, FileInv
    <3>2. NewSoFar'
      BY <3>1 DEF NewSoFar
    <3> QED BY <2>1, <1>0, <1>1, <1>2, <3>1, <3>2, SizeAssumption DEF StoreTypeOK, FileInv, Touch
  <2>2. CASE pc = "write"
    <3>1. WriteChunk /\ pc' \in {"write", "print"}
      BY <2>2 DEF WriteTrace
    <3>2. file' \in Seq(Chunk) /\ NewSoFar' /\ written' \in 0..NewSize
      BY <1>0, <2>2, <3>1, WriteChunkEffect DEF FileInv
    <3> QED BY <2>2, <1>0, <1>1, <1>2, <3>1, <3>2 DEF StoreTypeOK, FileInv, Touch
  <2> QED BY <2>1, <2>2 DEF WriteTrace
<1>4. SessionTypeOK'
  BY <1>1, <1>3 DEF IInv, SessionTypeOK
<1>5. Stages' /\ CommandLife'
  BY <1>1, <1>3 DEF IInv, Stages, CommandLife
<1>6. PidKept' /\ QuietStart' /\ AnchorFirst' /\ OwedKept'
  BY <1>1, <1>3, RecordsUntouched DEF IInv
<1> QED BY <1>2, <1>3, <1>4, <1>5, <1>6 DEF IInv

(* What parses, of the beginning of a trace, is all of it.                 *)
LEMMA WholeTrace ==
  ASSUME StoreTypeOK, file = Trace("old") \/ NewSoFar, Parses(file)
  PROVE  \E who \in {"old", "new"} : file = Trace(who)
<1>1. CASE file = Trace("old")
  BY <1>1
<1>2. CASE NewSoFar
  <2>1. /\ file \in Seq(Chunk) /\ Len(file) = written /\ file # <<>>
        /\ written \in Nat /\ written <= NewSize /\ NewSize \in Nat
    BY <1>2, SizeAssumption DEF StoreTypeOK, NewSoFar, Parses
  <2>2. written \in 1..written /\ written \in 1..NewSize
    BY <2>1, EmptySeq
  <2>3. file[written] = Trace("new")[written] /\ file[written].last
    BY <1>2, <2>1, <2>2 DEF NewSoFar, Parses
  <2>4. written = NewSize
    BY <2>2, <2>3, TraceText DEF Size
  <2>5. Trace("new") \in Seq(Chunk) /\ Len(Trace("new")) = NewSize
    BY TraceText DEF Size
  <2>6. file = Trace("new")
    BY <1>2, <2>1, <2>4, <2>5, SeqEqual DEF NewSoFar
  <2> QED BY <2>6
<1> QED BY <1>1, <1>2

LEMMA ReadFromEffect ==
  ASSUME StoreTypeOK, FileInv, ReaderInv, read_from
  PROVE  StoreTypeOK' /\ ReaderInv'
<1>1. UNCHANGED <<file, written, overlapped>>
  BY DEF read_from
<1>2. CASE reader = "idle"
  <2>1. reader' = "reading" /\ got' = got /\ got = <<>>
    BY <1>2 DEF read_from, ReaderInv
  <2> QED BY <1>1, <2>1 DEF StoreTypeOK, ReaderInv, ReadsWhole
<1>3. CASE reader = "reading" /\ Len(got) < Len(file)
  <2>1. got' = Append(got, file[Len(got) + 1]) /\ reader' = reader
    BY <1>3 DEF read_from
  <2>2. /\ file \in Seq(Chunk) /\ got \in Seq(Chunk)
        /\ Len(got) \in Nat /\ Len(file) \in Nat
    BY DEF StoreTypeOK
  <2>3. file[Len(got) + 1] \in Chunk
    BY <1>3, <2>2, ElementOfSeq
  <2>4. /\ got' \in Seq(Chunk) /\ Len(got') = Len(got) + 1
        /\ \A i \in 1..Len(got) : got'[i] = got[i]
        /\ got'[Len(got) + 1] = file[Len(got) + 1]
    BY <2>1, <2>2, <2>3, AppendProperties
  <2>5. StoreTypeOK'
    BY <1>1, <1>3, <2>1, <2>4 DEF StoreTypeOK
  <2>6. ReaderInv'
    BY <1>1, <1>3, <2>1, <2>2, <2>4 DEF ReaderInv, ReadsWhole
  <2> QED BY <2>5, <2>6
<1>4. CASE reader = "reading" /\ Len(got) >= Len(file)
  <2>1. reader' = (IF Parses(got) THEN "read" ELSE "refused") /\ got' = got
    BY <1>4 DEF read_from, StoreTypeOK
  <2>2. StoreTypeOK'
    BY <1>1, <2>1 DEF StoreTypeOK
  <2>3. ASSUME ~overlapped PROVE got = file
    <3>1. /\ file \in Seq(Chunk) /\ got \in Seq(Chunk)
          /\ Len(got) \in Nat /\ Len(file) \in Nat
      BY DEF StoreTypeOK
    <3>2. Len(got) = Len(file) /\ \A i \in 1..Len(got) : got[i] = file[i]
      BY <1>4, <2>3, <3>1 DEF ReaderInv
    <3> QED BY <3>1, <3>2, SeqEqual
  <2>4. ASSUME ~overlapped, Parses(got) PROVE \E who \in {"old", "new"} : got = Trace(who)
    BY <2>3, <2>4, WholeTrace DEF FileInv
  <2>5. ReadsWhole'
    BY <1>1, <2>1, <2>4 DEF ReadsWhole, Trace, Size
  <2> QED BY <2>1, <2>2, <2>5 DEF ReaderInv
<1> QED BY <1>2, <1>3, <1>4 DEF read_from

LEMMA ExplainStep ==
  ASSUME IInv, explain_cmd
  PROVE  IInv'
<1>1. read_from /\ UNCHANGED <<config, session, kernel, file, written>>
  BY DEF explain_cmd, read_from
<1>2. StoreTypeOK' /\ ReaderInv'
  BY <1>1, ReadFromEffect DEF IInv, SessionTypeOK
<1>3. SessionTypeOK'
  BY <1>1, <1>2 DEF IInv, SessionTypeOK
<1>4. Stages' /\ CommandLife'
  BY <1>1 DEF IInv, Stages, CommandLife
<1>5. PidKept' /\ QuietStart' /\ AnchorFirst' /\ OwedKept'
  BY <1>1 DEF IInv, PidKept, QuietStart, AnchorFirst, OwedKept
<1>6. FileInv'
  BY <1>1 DEF IInv, FileInv, NewSoFar, Trace, Size
<1> QED BY <1>2, <1>3, <1>4, <1>5, <1>6 DEF IInv

-----------------------------------------------------------------------------

LEMMA StutterStep ==
  ASSUME IInv, UNCHANGED vars
  PROVE  IInv'
<1>1. SessionTypeOK'
  BY DEF IInv, SessionTypeOK, StoreTypeOK
<1>2. Stages' /\ CommandLife'
  BY DEF IInv, Stages, CommandLife
<1>3. PidKept' /\ QuietStart' /\ AnchorFirst' /\ OwedKept'
  BY DEF IInv, PidKept, QuietStart, AnchorFirst, OwedKept
<1>4. FileInv' /\ ReaderInv'
  BY StoreUntouched DEF IInv
<1> QED BY <1>1, <1>2, <1>3, <1>4 DEF IInv

LEMMA NextIInv == IInv /\ [Next]_vars => IInv'
<1> SUFFICES ASSUME IInv, [Next]_vars PROVE IInv'
  OBVIOUS
<1>1. CASE Step
  BY <1>1, RequireRootStep, SpawnStep, WaitStep, LoadStep, SetTargetStep, CaptureAnchorStep,
     ResumeStep, InstallHandlerStep, OpenRingStep, NextRecordStep, NothingNextStep, CheckStopStep,
     PollStep, WriteTraceStep, FailStep DEF Step
<1>2. CASE Surroundings
  BY <1>2, TrapStep, ChildExitsStep, ReapedStep, PidReusedStep, SpanEndsStep, IssueIoStep,
     CompleteIoStep, SubmitStep, TickStep, ExpireStep, SigintStep, KillStep, ExplainStep
     DEF Surroundings
<1>3. CASE Fail
  BY <1>3, FailStep
<1>4. CASE Rest \/ UNCHANGED vars
  BY <1>4, StutterStep DEF Rest
<1> QED BY <1>1, <1>2, <1>3, <1>4 DEF Next

(* The inductive invariant of a session, whatever fails or is killed, and  *)
(* whatever the traced process, interrupts and a reader of the file do.    *)
THEOREM Invariance == Spec => []IInv
<1> QED BY InitIInv, NextIInv, PTL DEF Spec

(* load_and_attach, the drain and write_to keep every variable in its      *)
(* type, the buffer within its capacity, and the loop behind live probes.  *)
THEOREM TypeCorrect == Spec => []SessionTypeOK
<1>1. IInv => SessionTypeOK
  BY DEF IInv
<1> QED BY <1>1, Invariance, PTL

(* run writes, prints and returns without an error only when has_exited    *)
(* has reaped its command, whoever has the pid by then.                    *)
THEOREM WholeRun == Spec => []ReportsWholeRun
<1>1. IInv => ReportsWholeRun
  BY DEF IInv, CommandLife, ReportsWholeRun
<1> QED BY <1>1, Invariance, PTL

(* While run is in drain_ring_buffer's loop, nothing recorded under the    *)
(* target's pid belongs to another process.                                *)
THEOREM OnlyTheCommand == Spec => []TracesOnlyTheCommand
<1>1. IInv => TracesOnlyTheCommand
  BY DEF IInv, PidKept, TracesOnlyTheCommand
<1> QED BY <1>1, Invariance, PTL

(* Wall times computed from capture_anchor's two readings are never late,  *)
(* and those of a run never before the anchor.                             *)
THEOREM WallTimesRight == Spec => []WallTimes
<1>1. IInv => WallTimes
  <2> SUFFICES ASSUME IInv, NEW i \in 1..Len(events)
               PROVE  LET wall == wall_ns_for(anchor, events[i].ts)
                      IN  /\ wall <= events[i].ts + Offset
                          /\ mode = "run" => wall >= anchor.realtime
    BY DEF WallTimes
  <2>1. anchor.realtime \in Nat /\ anchor.monotonic \in Nat /\ Offset \in Nat
    BY SessionAssumption DEF IInv, SessionTypeOK, Anchor
  <2>2. events \in Seq(Record) /\ events[i] \in Record /\ events[i].ts \in Nat
    <3>1. events \in Seq(Record)
      BY DEF IInv, SessionTypeOK
    <3>2. events[i] \in Record
      BY <3>1, ElementOfSeq
    <3> QED BY <3>1, <3>2 DEF Record
  <2>3. events # <<>>
    BY <2>2
  <2>4. pc \in Looping \cup Ending
    BY <2>3 DEF IInv, Stages, QuietStart
  <2>5. anchor.realtime <= anchor.monotonic + Offset
    BY <2>4 DEF IInv, AnchorFirst
  <2>6. mode = "run" => events[i].ts >= anchor.monotonic
    BY <2>4 DEF IInv, AnchorFirst
  <2> QED BY <2>1, <2>2, <2>5, <2>6 DEF wall_ns_for
<1> QED BY <1>1, Invariance, PTL

(* read_from accepts nothing but a whole trace, unless write_to was at     *)
(* work at the same time.                                                  *)
THEOREM WholeTracesRead == Spec => []ReadsWhole
<1>1. IInv => ReadsWhole
  BY DEF IInv, ReaderInv
<1> QED BY <1>1, Invariance, PTL

(* drain_ring_buffer returns at one place, and there nothing readable is   *)
(* left in the buffer.                                                     *)
LEMMA LastDrain ==
  ASSUME IInv, Next, pc # "create", pc' = "create"
  PROVE  pc = "last" /\ (ring # <<>> => Head(ring).busy)
<1>1. NothingNext
  <2>1. CASE Step
    <3>1. ~(WriteTrace \/ print_chains \/ Poll \/ OpenRing \/ NextRecord)
      BY DEF WriteTrace, print_chains, End, Poll, OpenRing, NextRecord
    <3>2. ~(require_root \/ spawn_stopped \/ wait_until_stopped \/ load_and_attach)
      BY DEF require_root, spawn_stopped, wait_until_stopped, load_and_attach, End
    <3>3. ~(set_target_tgid \/ capture_anchor \/ resume \/ install_handler)
      BY DEF set_target_tgid, capture_anchor, resume, install_handler, End
    <3>4. ~CheckStop
      BY DEF CheckStop, WhenStopped
    <3> QED BY <2>1, <3>1, <3>2, <3>3, <3>4 DEF Step
  <2>2. ~Surroundings
    <3>1. ~(Trap \/ ChildExits \/ ReapedByParent \/ PidReused \/ IssueIo \/ Submit \/ Tick)
      BY DEF Trap, ChildExits, ReapedByParent, PidReused, IssueIo, Submit, Tick
    <3>2. ~(SpanEnds \/ CompleteIo)
      BY DEF SpanEnds, CompleteIo, Reserve
    <3>3. ~(Expire \/ handle_sigint \/ Kill \/ explain_cmd)
      BY DEF Expire, handle_sigint, Kill, End, explain_cmd
    <3> QED BY <3>1, <3>2, <3>3 DEF Surroundings
  <2>3. ~Fail /\ ~Rest
    BY DEF Fail, End, Rest
  <2> QED BY <2>1, <2>2, <2>3 DEF Next
<1> QED BY <1>1 DEF NothingNext

(* When drain_ring_buffer returns, all that the session was owed has been  *)
(* read, or waits behind a record that is still being written.             *)
THEOREM AllSeen == Spec => NothingMissed
<1>1. ASSUME IInv, [Next]_vars, pc # "create", pc' = "create"
      PROVE  ended \subseteq Seen \cup Unreadable
  <2>1. Next
    BY <1>1
  <2>2. ring # <<>> => Head(ring).busy
    BY <1>1, <2>1, LastDrain
  <2> SUFFICES ASSUME NEW t \in ended PROVE t \in Seen \cup Unreadable
    OBVIOUS
  <2>3. CASE \E i \in 1..Len(events) : events[i].ts = t
    BY <2>3 DEF Seen
  <2>4. ASSUME NEW i \in 1..Len(ring), ring[i].ts = t
        PROVE  t \in Unreadable
    <3>1. ring \in Seq(Record) /\ Len(ring) \in Nat
      BY <1>1 DEF IInv, SessionTypeOK
    <3>2. ring # <<>>
      BY <3>1
    <3>3. 1 \in 1..i /\ ring[1].busy
      BY <3>1, <3>2, <2>2
    <3> QED BY <2>4, <3>3 DEF Unreadable
  <2> QED BY <1>1, <2>3, <2>4 DEF IInv, OwedKept
<1>2. IInv /\ [Next]_vars
        => [pc # "create" /\ pc' = "create" => ended \subseteq Seen \cup Unreadable]_vars
  BY <1>1
<1> QED BY <1>2, Invariance, PTL DEF Spec, NothingMissed
=============================================================================
