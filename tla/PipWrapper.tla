----------------------------- MODULE PipWrapper -----------------------------
(***************************************************************************)
(* The `whyslow` command of the PyPI package                               *)
(* (packaging/pypi/src/whyslow/__init__.py).  Every run of it shares one   *)
(* cache directory per version: it executes the binary found there, or     *)
(* downloads, verifies and unpacks it first.                               *)
(*                                                                         *)
(* A file is two blocks, so that it can be half written.  Names are        *)
(* entries of the directory and inodes what they refer to: a file opened   *)
(* before another run removed its name is still written and read.          *)
(***************************************************************************)
EXTENDS Naturals

CONSTANTS
  Run,          \* the times the command is run
  Received,     \* what the network delivers: "good" blocks, or "bad" ones too
  Concurrent    \* may a run start while another one is installing

ASSUME PipWrapperAssumption ==
  Received \subseteq {"good", "bad"} /\ Concurrent \in BOOLEAN

VARIABLES
  pc,
  dir,          \* what each name in the cache directory refers to
  blocks,       \* the contents of each inode
  mode,         \* the binary has its executable bits
  dest,         \* the file a run is getting
  fd,           \* the inode a run has open for writing
  written,      \* how many blocks it has written to it
  tf,           \* the archive a run has open
  faulted       \* runs the network or the disk failed

vars == <<pc, dir, blocks, mode, dest, fd, written, tf, faulted>>

Name  == {"tarball", "checksum", "binary"}
Inode == Name \X Run
NoFile == <<"none">>

Holes == [k \in 1..2 |-> "hole"]

Installing == {"get", "put", "read", "hash", "open", "create", "copy",
               "chmod", "rm_tarball", "rm_checksum"}
Ended == {"over", "failed", "killed"}

Intact(i)   == i # NoFile /\ \A k \in 1..2 : blocks[i][k] = "good"
Complete(i) == i # NoFile /\ \A k \in 1..2 : blocks[i][k] # "hole"

Go(p, there) == pc' = [pc EXCEPT ![p] = there]

(* A run that stops, for whatever reason, closes its files.                *)
Stop(p, how) ==
  /\ Go(p, how)
  /\ fd' = [fd EXCEPT ![p] = NoFile]
  /\ tf' = [tf EXCEPT ![p] = NoFile]

(* Faulty variants of Cached. *)
Cached_IsFile  == dir["binary"] # NoFile
Cached_Tarball == dir["tarball"] # NoFile

(* os.path.isfile and os.access(X_OK)                                      *)
Cached == dir["binary"] # NoFile /\ mode

CheckCache(p) ==
  /\ pc[p] = "idle"
  /\ Concurrent \/ \A q \in Run : pc[q] \notin Installing
  /\ Go(p, IF Cached THEN "exec" ELSE "get")
  /\ UNCHANGED <<dir, blocks, mode, dest, fd, written, tf, faulted>>

(* A faulty variant of FirstOffset. *)
FirstOffset_Kept(p) == written[p]

FirstOffset(p) == 0

(* open(n, "wb") *)
OpenForWriting(p, n) ==
  LET i == IF dir[n] = NoFile THEN <<n, p>> ELSE dir[n]
  IN  /\ dir' = [dir EXCEPT ![n] = i]
      /\ blocks' = [blocks EXCEPT ![i] = Holes]
      /\ fd' = [fd EXCEPT ![p] = i]
      /\ written' = [written EXCEPT ![p] = FirstOffset(p)]

(* The server has answered; the file is opened, and emptied.               *)
_download(p) ==
  /\ pc[p] = "get"
  /\ OpenForWriting(p, dest[p])
  /\ Go(p, "put")
  /\ UNCHANGED <<mode, dest, tf, faulted>>

WriteBlock(p, b) ==
  /\ blocks' = [blocks EXCEPT ![fd[p]][written[p] + 1] = b]
  /\ written' = [written EXCEPT ![p] = @ + 1]

(* What was received is written: in the end the tarball, then its          *)
(* checksum.  It may have been damaged on the way.                         *)
PutBlock(p) ==
  \E b \in Received :
    /\ pc[p] = "put"
    /\ WriteBlock(p, b)
    /\ faulted' = IF b = "bad" THEN faulted \cup {p} ELSE faulted
    /\ IF written[p] = 0
       THEN UNCHANGED <<pc, fd, dest>>
       ELSE /\ fd' = [fd EXCEPT ![p] = NoFile]
            /\ dest' = [dest EXCEPT ![p] = "checksum"]
            /\ Go(p, IF dest[p] = "tarball" THEN "get" ELSE "read")
    /\ UNCHANGED <<dir, mode, tf>>

(* A faulty variant of Matches: any whole file will do. *)
Matches_Any(n) == Complete(dir[n])

(* The hash is the expected one only if neither file is damaged.           *)
Matches(n) == Intact(dir[n])

(* The expected hash is read, then the tarball is hashed.  A missing file  *)
(* is an exception, an empty checksum is one too, and a mismatch is fatal. *)
Verify(p) ==
  /\ \/ /\ pc[p] = "read"
        /\ Go(p, IF Matches("checksum") THEN "hash" ELSE "failed")
     \/ /\ pc[p] = "hash"
        /\ Go(p, IF Matches("tarball") THEN "open" ELSE "failed")
  /\ UNCHANGED <<dir, blocks, mode, dest, fd, written, tf, faulted>>

(* tarfile.open and getmembers read the archive once, to its end.  One     *)
(* that was damaged after it was hashed may pass or not.                   *)
OpenTar(p) ==
  /\ pc[p] = "open"
  /\ \E readable \in {Intact(dir["tarball"]), Complete(dir["tarball"])} :
       IF readable
       THEN Go(p, "create") /\ tf' = [tf EXCEPT ![p] = dir["tarball"]] /\ UNCHANGED fd
       ELSE Stop(p, "failed")
  /\ UNCHANGED <<dir, blocks, mode, dest, written, faulted>>

(* A faulty variant of ModeWhenCreated. *)
ModeWhenCreated_Executable == TRUE

(* A new file is not executable, an old one keeps its bits.                *)
ModeWhenCreated == mode

(* extract opens the binary; a file being executed cannot be (ETXTBSY).    *)
CreateBinary(p) ==
  /\ pc[p] = "create"
  /\ IF \E q \in Run : pc[q] = "running"
     THEN Stop(p, "failed") /\ UNCHANGED <<dir, blocks, mode, written>>
     ELSE /\ OpenForWriting(p, "binary")
          /\ mode' = ModeWhenCreated
          /\ Go(p, "copy")
          /\ UNCHANGED tf
  /\ UNCHANGED <<dest, faulted>>

(* ... and copies it out of the archive, which must still be there.        *)
CopyBlock(p) ==
  LET b == blocks[tf[p]][written[p] + 1]
  IN  /\ pc[p] = "copy"
      /\ IF b = "hole"
         THEN Stop(p, "failed") /\ UNCHANGED <<blocks, written>>
         ELSE /\ WriteBlock(p, b)
              /\ IF written[p] = 0 THEN UNCHANGED <<pc, fd, tf>> ELSE Stop(p, "chmod")
      /\ UNCHANGED <<dir, mode, dest, faulted>>

Chmod(p) ==
  /\ pc[p] = "chmod"
  /\ mode' = TRUE
  /\ Go(p, "rm_tarball")
  /\ UNCHANGED <<dir, blocks, dest, fd, written, tf, faulted>>

(* os.remove of the tarball, then of the checksum.                         *)
RemoveFile(p) ==
  /\ \/ /\ pc[p] = "rm_tarball"
        /\ dir' = [dir EXCEPT !["tarball"] = NoFile]
        /\ Go(p, IF dir["tarball"] = NoFile THEN "failed" ELSE "rm_checksum")
     \/ /\ pc[p] = "rm_checksum"
        /\ dir' = [dir EXCEPT !["checksum"] = NoFile]
        /\ Go(p, IF dir["checksum"] = NoFile THEN "failed" ELSE "exec")
  /\ UNCHANGED <<blocks, mode, dest, fd, written, tf, faulted>>

(* The kernel refuses a file that is open for writing, that is not         *)
(* executable, or that has no header.                                      *)
Executable ==
  /\ mode
  /\ \A q \in Run : fd[q] # dir["binary"]
  /\ blocks[dir["binary"]][1] # "hole"

(* main: os.execv *)
Exec(p) ==
  /\ pc[p] = "exec"
  /\ Go(p, IF Executable THEN "running" ELSE "failed")
  /\ UNCHANGED <<dir, blocks, mode, dest, fd, written, tf, faulted>>

Exit(p) ==
  /\ pc[p] = "running"
  /\ Go(p, "over")
  /\ UNCHANGED <<dir, blocks, mode, dest, fd, written, tf, faulted>>

(* The server or the disk lets a run down: it dies of the exception.       *)
_die(p) ==
  /\ pc[p] \in {"get", "put", "create", "copy"}
  /\ Stop(p, "failed")
  /\ faulted' = faulted \cup {p}
  /\ UNCHANGED <<dir, blocks, mode, dest, written>>

Kill(p) ==
  /\ pc[p] \notin Ended \cup {"idle"}
  /\ Stop(p, "killed")
  /\ UNCHANGED <<dir, blocks, mode, dest, written, faulted>>

AllEnded ==
  /\ \A p \in Run : pc[p] \in Ended
  /\ UNCHANGED vars

Init ==
  /\ pc = [p \in Run |-> "idle"]
  /\ dir = [n \in Name |-> NoFile]
  /\ blocks = [i \in Inode |-> Holes]
  /\ mode = FALSE
  /\ dest = [p \in Run |-> "tarball"]
  /\ fd = [p \in Run |-> NoFile]
  /\ written = [p \in Run |-> 0]
  /\ tf = [p \in Run |-> NoFile]
  /\ faulted = {}

Next ==
  \/ \E p \in Run :
       \/ CheckCache(p) \/ _download(p) \/ PutBlock(p) \/ Verify(p) \/ OpenTar(p)
       \/ CreateBinary(p) \/ CopyBlock(p) \/ Chmod(p) \/ RemoveFile(p)
       \/ Exec(p) \/ Exit(p) \/ _die(p) \/ Kill(p)
  \/ AllEnded

Spec == Init /\ [][Next]_vars

-----------------------------------------------------------------------------

(* Every variable has its type, and a run that writes has a file open.     *)
PipTypeOK ==
  /\ pc \in [Run -> {"idle", "exec", "running"} \cup Installing \cup Ended]
  /\ dir \in [Name -> Inode \cup {NoFile}]
  /\ blocks \in [Inode -> [1..2 -> {"hole", "good", "bad"}]]
  /\ mode \in BOOLEAN
  /\ dest \in [Run -> Name]
  /\ fd \in [Run -> Inode \cup {NoFile}]
  /\ written \in [Run -> 0..2]
  /\ tf \in [Run -> Inode \cup {NoFile}]
  /\ faulted \subseteq Run
  /\ \A p \in Run : pc[p] \in {"put", "copy"} => fd[p] # NoFile /\ written[p] < 2

(* What is executed is the release, whole and as it was verified           *)
(* (_ensure_binary), however many earlier runs died at whatever point.     *)
OnlyGoodBinaryRuns ==
  \A p \in Run : pc[p] = "running" => Intact(dir["binary"])

(* A binary the next run would take from the cache without a look inside   *)
(* (the first test of _ensure_binary) is whole, unless someone is writing  *)
(* it at the moment: a run killed while unpacking poisons nothing.         *)
CacheSound ==
  mode /\ (\A p \in Run : fd[p] # dir["binary"]) => Intact(dir["binary"])

(* A run fails only if the network or the disk failed it: what an earlier  *)
(* run left behind in the directory never gets in its way.                 *)
NoSpuriousFailure ==
  \A p \in Run : pc[p] = "failed" => p \in faulted

(* A whole, executable binary in the cache stays whole and executable,     *)
(* whatever later runs do and wherever they die (_ensure_binary).          *)
CacheKept ==
  [][mode /\ Intact(dir["binary"]) => (mode /\ Intact(dir["binary"]))']_vars

=============================================================================
