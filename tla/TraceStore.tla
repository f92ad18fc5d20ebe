----------------------------- MODULE TraceStore -----------------------------
(***************************************************************************)
(* The trace file (whyslow-cli/src/trace.rs): a session creates and writes *)
(* it, `whyslow explain` reads it, and nothing keeps the two apart.  The   *)
(* JSON text is a sequence of chunks, each written and read by a system    *)
(* call of its own (neither side is buffered); the last one closes the     *)
(* document.                                                               *)
(***************************************************************************)
EXTENDS Integers, Sequences

CONSTANTS OldSize, NewSize      \* how many chunks the two traces have

ASSUME SizeAssumption == {OldSize, NewSize} \subseteq Nat \ {0}

VARIABLES
  file,         \* the chunks at the path; none at all reads like no chunk
  written,      \* how many chunks the session has written
  reader,       \* explain: idle, reading, read, or refused
  got,          \* the chunks explain has read
  overlapped    \* the file was written while explain was reading it

storeVars == <<file, written, reader, got, overlapped>>

Chunk == [of : {"old", "new"}, last : BOOLEAN]

Size(who) == IF who = "old" THEN OldSize ELSE NewSize

(* serde_json::to_writer_pretty of a whole trace                           *)
Trace(who) == [i \in 1..Size(who) |-> [of |-> who, last |-> i = Size(who)]]

(* serde_json::from_reader accepts one document and nothing after it.      *)
Parses(text) ==
  /\ text # <<>>
  /\ \A i \in 1..Len(text) : text[i].last <=> i = Len(text)

(* The clocks of an anchor, and the wall time of an event.                 *)
Anchor == [realtime : Nat, monotonic : Nat]

wall_ns_for(anchor, ts) ==
  LET wall == anchor.realtime + (ts - anchor.monotonic)
  IN  IF wall > 0 THEN wall ELSE 0

(* An earlier session's trace is at the path.                              *)
StoreInit ==
  /\ file = Trace("old")
  /\ written = 0
  /\ reader = "idle"
  /\ got = <<>>
  /\ overlapped = FALSE

Touch ==
  /\ overlapped' = (overlapped \/ reader = "reading")
  /\ UNCHANGED <<reader, got>>

(* A faulty variant of Created. *)
Created_InPlace == file

(* File::create truncates.                                                 *)
Created == <<>>

create ==
  /\ file' = Created
  /\ Touch
  /\ UNCHANGED written

(* One write of write_to, at the session's own offset.                     *)
WriteChunk ==
  /\ written < NewSize
  /\ file' = SubSeq(file, 1, written) \o <<Trace("new")[written + 1]>>
               \o SubSeq(file, written + 2, Len(file))
  /\ written' = written + 1
  /\ Touch

(* read_from: open, read up to the end of the file, parse.                 *)
read_from ==
  /\ \/ reader = "idle" /\ reader' = "reading" /\ UNCHANGED got
     \/ /\ reader = "reading" /\ Len(got) < Len(file)
        /\ got' = Append(got, file[Len(got) + 1])
        /\ UNCHANGED reader
     \/ /\ reader = "reading" /\ Len(got) >= Len(file)
        /\ reader' = IF Parses(got) THEN "read" ELSE "refused"
        /\ UNCHANGED got
  /\ UNCHANGED <<file, written, overlapped>>

(* Types of the file, and of what was read from it.                        *)
StoreTypeOK ==
  /\ file \in Seq(Chunk) /\ got \in Seq(Chunk)
  /\ written \in 0..NewSize
  /\ reader \in {"idle", "reading", "read", "refused"}
  /\ overlapped \in BOOLEAN

(* What explain accepts is the whole trace of one session, whatever        *)
(* crashed or filled the disk in mid-write before: a torn file is refused  *)
(* (write_to, read_from).  Only a writer at work at the very time explain  *)
(* reads can get a mixture past it.                                        *)
ReadsWhole ==
  reader = "read" /\ ~overlapped => \E who \in {"old", "new"} : got = Trace(who)

=============================================================================
