------------------------------- MODULE Events -------------------------------
(***************************************************************************)
(* The event schema the eBPF programs and the CLI share                    *)
(* (whyslow-common/src/lib.rs).  One record type serves every event        *)
(* source; `comm`, the thread's printable name, is left out: nothing in    *)
(* the correlation reads it.                                               *)
(***************************************************************************)
EXTENDS Integers

CONSTANT SectorMod      \* 2^32 in the code: what `sector & 0xFFFF_FFFF` keeps

ASSUME SectorModAssumption == SectorMod \in Nat \ {0}

EVENT_SCHED_BLOCK == 0
EVENT_FUTEX_WAIT  == 1
EVENT_FUTEX_WAKE  == 2
EVENT_BLOCK_IO    == 3

EventType == {EVENT_SCHED_BLOCK, EVENT_FUTEX_WAIT, EVENT_FUTEX_WAKE, EVENT_BLOCK_IO}

(* Every event is stamped at the END of the span it describes.             *)
Event == [timestamp_ns : Nat, duration_ns : Nat, key : Nat,
          pid : Nat, tid : Nat, event_type : EventType]

NewEvent(timestamp_ns, duration_ns, key, pid, tid, event_type) ==
  [timestamp_ns |-> timestamp_ns, duration_ns |-> duration_ns, key |-> key,
   pid |-> pid, tid |-> tid, event_type |-> event_type]

(* A faulty variant of SaturatingSub. *)
SaturatingSub_Swapped(a, b) == b - a

(* u64::saturating_sub *)
SaturatingSub(a, b) == IF a >= b THEN a - b ELSE 0

(* When the span an event describes began. *)
SpanStart(e) == SaturatingSub(e.timestamp_ns, e.duration_ns)

pack_block_key(dev, sector) == dev * SectorMod + (sector % SectorMod)

unpack_block_key(key) == <<key \div SectorMod, key % SectorMod>>
=============================================================================
