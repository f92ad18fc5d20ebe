-------------------------- MODULE PipWrapperProofs --------------------------
(***************************************************************************)
(* What the wrapper's runs leave in the cache, for any number of them,     *)
(* none starting while another one is installing.                          *)
(***************************************************************************)
EXTENDS PipWrapper, TLAPS

OneInstalls ==
  \A p, q \in Run : pc[p] \in Installing /\ pc[q] \in Installing => p = q

NamesApart ==
  \A n \in Name : dir[n] # NoFile => dir[n][1] = n

(* Only the run that is installing has files open: the ones the names      *)
(* refer to.                                                               *)
FilesOpen ==
  \A p \in Run :
    /\ dest[p] \in {"tarball", "checksum"}
    /\ pc[p] = "idle" => dest[p] = "tarball"
    /\ pc[p] = "put" => fd[p] = dir[dest[p]]
    /\ pc[p] = "copy" => fd[p] = dir["binary"]
    /\ pc[p] \notin {"put", "copy"} => fd[p] = NoFile
    /\ pc[p] \in {"create", "copy"} => tf[p] = dir["tarball"]

(* The executable bits are set last, and on a good binary.                 *)
ModeLast ==
  /\ mode => Intact(dir["binary"])
  /\ \A p \in Run :
       /\ pc[p] \in {"get", "put", "read", "hash", "open", "create", "copy", "chmod"} => ~mode
       /\ pc[p] \in {"rm_tarball", "rm_checksum", "exec", "running"} => mode

(* What an installation has achieved so far.                               *)
Verified ==
  \A p \in Run :
    /\ pc[p] \in {"open", "create", "copy", "chmod", "rm_tarball"} => Intact(dir["tarball"])
    /\ pc[p] = "copy" /\ written[p] = 1 => blocks[dir["binary"]][1] = "good"
    /\ pc[p] = "chmod" => Intact(dir["binary"])

(* ... and, unless the network has let it down, before it was verified.    *)
Unharmed ==
  \A p \in Run :
    /\ p \notin faulted /\ pc[p] = "put" /\ written[p] = 1 => blocks[fd[p]][1] = "good"
    /\ p \notin faulted /\ pc[p] \in {"get", "put"} /\ dest[p] = "checksum"
         => Intact(dir["tarball"])
    /\ p \notin faulted /\ pc[p] \in {"read", "hash"} => Intact(dir["tarball"])
    /\ p \notin faulted /\ pc[p] = "read" => Intact(dir["checksum"])
    /\ pc[p] \in {"hash", "open", "create", "copy", "chmod", "rm_tarball", "rm_checksum"}
         => Intact(dir["checksum"])

IInv ==
  /\ PipTypeOK /\ OneInstalls /\ NamesApart /\ FilesOpen /\ ModeLast
  /\ Verified /\ Unharmed /\ NoSpuriousFailure

(* NoFile is told apart from every inode.                                  *)
LEMMA NoFileApart == NoFile \notin Inode
BY DEF NoFile, Inode, Name

(* A file that was just opened for writing.                                *)
LEMMA HolesType ==
  /\ Holes \in [1..2 -> {"hole", "good", "bad"}]
  /\ \A k \in 1..2 : Holes[k] = "hole"
BY DEF Holes

LEMMA InitIInv == Init => IInv
<1> USE DEF Init, Installing, Ended
<1>1. Init => PipTypeOK
  <2> SUFFICES ASSUME Init PROVE PipTypeOK
    OBVIOUS
  <2>1. blocks \in [Inode -> [1..2 -> {"hole", "good", "bad"}]]
    BY HolesType
  <2>2. /\ pc \in [Run -> {"idle", "exec", "running"} \cup Installing \cup Ended]
        /\ mode \in BOOLEAN /\ faulted \subseteq Run
        /\ dest \in [Run -> Name]
    BY DEF Name
  <2>3. /\ dir \in [Name -> Inode \cup {NoFile}]
        /\ fd \in [Run -> Inode \cup {NoFile}]
        /\ written \in [Run -> 0..2]
        /\ tf \in [Run -> Inode \cup {NoFile}]
    OBVIOUS
  <2> QED BY <2>1, <2>2, <2>3 DEF PipTypeOK
<1>2. Init => OneInstalls /\ NamesApart /\ FilesOpen /\ ModeLast
  BY DEF OneInstalls, NamesApart, FilesOpen, ModeLast, Name
<1>3. Init => Verified /\ Unharmed /\ NoSpuriousFailure
  BY DEF Verified, Unharmed, NoSpuriousFailure
<1> QED BY <1>1, <1>2, <1>3 DEF IInv

-----------------------------------------------------------------------------
(* Each action of a run keeps the invariant.                               *)

LEMMA CheckCacheStep ==
  ASSUME IInv, ~Concurrent, NEW p \in Run, CheckCache(p)
  PROVE  IInv'
<1> USE NoFileApart DEF CheckCache, Cached, Go, Installing, Ended, Name, Intact
<1>1. PipTypeOK'
  BY DEF IInv, PipTypeOK
<1>2. OneInstalls'
  BY DEF IInv, PipTypeOK, OneInstalls
<1>3. NamesApart'
  BY DEF IInv, PipTypeOK, NamesApart
<1>4. FilesOpen'
  BY DEF IInv, PipTypeOK, FilesOpen
<1>5. ModeLast'
  BY DEF IInv, PipTypeOK, ModeLast
<1>6. Verified'
  BY DEF IInv, PipTypeOK, Verified
<1>7. Unharmed'
  BY DEF IInv, PipTypeOK, Unharmed, FilesOpen
<1>8. NoSpuriousFailure'
  BY DEF IInv, PipTypeOK, NoSpuriousFailure
<1> QED BY <1>1, <1>2, <1>3, <1>4, <1>5, <1>6, <1>7, <1>8 DEF IInv

LEMMA DownloadStep ==
  ASSUME IInv, ~Concurrent, NEW p \in Run, _download(p)
  PROVE  IInv'
<1> USE NoFileApart, HolesType DEF _download, OpenForWriting, FirstOffset, Go, Installing, Ended, Name, Intact
<1>1. PipTypeOK'
  <2> DEFINE i == IF dir[dest[p]] = NoFile THEN <<dest[p], p>> ELSE dir[dest[p]]
  <2>1. i \in Inode
    BY DEF IInv, PipTypeOK, FilesOpen, Inode
  <2> HIDE DEF i
  <2>2. /\ dir' = [dir EXCEPT ![dest[p]] = i]
        /\ blocks' = [blocks EXCEPT ![i] = Holes]
        /\ fd' = [fd EXCEPT ![p] = i]
        /\ written' = [written EXCEPT ![p] = 0]
    BY DEF i
  <2>3. blocks' \in [Inode -> [1..2 -> {"hole", "good", "bad"}]]
    BY <2>1, <2>2, HolesType DEF IInv, PipTypeOK
  <2>4. /\ dir' \in [Name -> Inode \cup {NoFile}]
        /\ fd' \in [Run -> Inode \cup {NoFile}] /\ fd'[p] # NoFile
        /\ written' \in [Run -> 0..2] /\ written'[p] = 0
    <3> HIDE DEF _download, OpenForWriting, Name
    <3>1. dir' \in [Name -> Inode \cup {NoFile}]
      BY <2>1, <2>2 DEF IInv, PipTypeOK
    <3>2. fd' \in [Run -> Inode \cup {NoFile}] /\ fd'[p] # NoFile
      BY <2>1, <2>2 DEF IInv, PipTypeOK
    <3>3. written' \in [Run -> 0..2] /\ written'[p] = 0
      BY <2>2 DEF IInv, PipTypeOK
    <3> QED BY <3>1, <3>2, <3>3
  <2>5. \A q \in Run \ {p} : fd'[q] = fd[q] /\ written'[q] = written[q] /\ pc'[q] = pc[q]
    BY <2>2 DEF IInv, PipTypeOK
  <2>6. pc' \in [Run -> {"idle", "exec", "running"} \cup Installing \cup Ended]
    BY DEF IInv, PipTypeOK
  <2> HIDE DEF _download, OpenForWriting
  <2> QED BY <2>3, <2>4, <2>5, <2>6 DEF IInv, PipTypeOK, _download
<1>2. OneInstalls'
  BY DEF IInv, PipTypeOK, OneInstalls
<1>3. NamesApart'
  BY DEF IInv, PipTypeOK, NamesApart
<1>4. FilesOpen'
  BY DEF IInv, PipTypeOK, FilesOpen, OneInstalls
<1>5. ModeLast'
  BY DEF IInv, PipTypeOK, ModeLast
<1>6. Verified'
  BY DEF IInv, PipTypeOK, Verified, OneInstalls
<1>7. Unharmed'
  BY DEF IInv, PipTypeOK, Unharmed, OneInstalls, NamesApart, FilesOpen
<1>8. NoSpuriousFailure'
  BY DEF IInv, PipTypeOK, NoSpuriousFailure
<1> QED BY <1>1, <1>2, <1>3, <1>4, <1>5, <1>6, <1>7, <1>8 DEF IInv

LEMMA PutBlockStep ==
  ASSUME IInv, ~Concurrent, NEW p \in Run, PutBlock(p)
  PROVE  IInv'
<1> USE NoFileApart DEF PutBlock, WriteBlock, Go, Installing, Ended, Name, Intact
<1>1. PipTypeOK'
  <2>1. /\ fd[p] \in Inode
        /\ written[p] + 1 \in 1..2
    BY DEF IInv, PipTypeOK
  <2>2. blocks' \in [Inode -> [1..2 -> {"hole", "good", "bad"}]]
    BY <2>1, PipWrapperAssumption DEF IInv, PipTypeOK
  <2>3. /\ pc' \in [Run -> {"idle", "exec", "running"} \cup Installing \cup Ended]
        /\ fd' \in [Run -> Inode \cup {NoFile}]
        /\ written' \in [Run -> 0..2]
        /\ dest' \in [Run -> Name]
    <3>1. pc' \in [Run -> {"idle", "exec", "running"} \cup Installing \cup Ended]
      BY DEF IInv, PipTypeOK
    <3>2. fd' \in [Run -> Inode \cup {NoFile}]
      BY DEF IInv, PipTypeOK
    <3>3. written' \in [Run -> 0..2]
      BY <2>1 DEF IInv, PipTypeOK
    <3>4. dest' \in [Run -> Name]
      BY DEF IInv, PipTypeOK
    <3> QED BY <3>1, <3>2, <3>3, <3>4
  <2>4. \A q \in Run : pc'[q] \in {"put", "copy"} => fd'[q] # NoFile /\ written'[q] < 2
    BY <2>1 DEF IInv, PipTypeOK
  <2>5. UNCHANGED <<dir, mode, tf>> /\ faulted' \subseteq Run
    BY DEF IInv, PipTypeOK
  <2> HIDE DEF PutBlock
  <2> QED BY <2>2, <2>3, <2>4, <2>5 DEF IInv, PipTypeOK
<1>2. OneInstalls'
  BY DEF IInv, PipTypeOK, OneInstalls
<1>3. NamesApart'
  BY DEF IInv, PipTypeOK, NamesApart
<1>4. FilesOpen'
  BY DEF IInv, PipTypeOK, FilesOpen
<1>5. ModeLast'
  BY DEF IInv, PipTypeOK, ModeLast
<1>6. Verified'
  BY DEF IInv, PipTypeOK, Verified, OneInstalls
<1>7. Unharmed'
  <2>1. PICK b \in Received :
          /\ pc[p] = "put"
          /\ blocks' = [blocks EXCEPT ![fd[p]][written[p] + 1] = b]
          /\ written' = [written EXCEPT ![p] = @ + 1]
          /\ faulted' = IF b = "bad" THEN faulted \cup {p} ELSE faulted
          /\ IF written[p] = 0
             THEN UNCHANGED <<pc, fd, dest>>
             ELSE /\ fd' = [fd EXCEPT ![p] = NoFile]
                  /\ dest' = [dest EXCEPT ![p] = "checksum"]
                  /\ pc' = [pc EXCEPT ![p] = IF dest[p] = "tarball" THEN "get" ELSE "read"]
          /\ UNCHANGED <<dir, mode, tf>>
    OBVIOUS
  <2> HIDE DEF PutBlock
  <2>2. \A q \in Run \ {p} : pc[q] \notin Installing /\ pc'[q] = pc[q]
    BY <2>1 DEF IInv, PipTypeOK, OneInstalls
  <2>3. fd[p] = dir[dest[p]] /\ fd[p] \in Inode /\ dest[p] \in {"tarball", "checksum"}
    BY <2>1 DEF IInv, PipTypeOK, FilesOpen
  <2>4. p \notin faulted' => p \notin faulted /\ b = "good"
    BY <2>1, PipWrapperAssumption
  <2>5. CASE written[p] = 0
    <3>1. blocks'[fd[p]][1] = "good" \/ p \in faulted'
      BY <2>1, <2>3, <2>4, <2>5 DEF IInv, PipTypeOK
    <3>2. dest[p] = "checksum" => Intact(dir["tarball"])' \/ p \in faulted'
      BY <2>1, <2>3, <2>4, <2>5 DEF IInv, PipTypeOK, NamesApart, Unharmed
    <3> QED BY <2>1, <2>2, <2>5, <3>1, <3>2 DEF IInv, PipTypeOK, Unharmed
  <2>6. CASE written[p] = 1
    <3>0. blocks'[fd[p]][1] = blocks[fd[p]][1] /\ blocks'[fd[p]][2] = b
      BY <2>1, <2>3, <2>6 DEF IInv, PipTypeOK
    <3>1. p \notin faulted' => \A k \in 1..2 : blocks'[dir[dest[p]]][k] = "good"
      BY <2>1, <2>3, <2>4, <2>6, <3>0 DEF IInv, Unharmed
    <3>2. dest[p] = "checksum" => Intact(dir["tarball"])' \/ p \in faulted'
      BY <2>1, <2>3, <2>4, <2>6 DEF IInv, PipTypeOK, NamesApart, Unharmed
    <3>3. dest'[p] = "checksum" /\ pc'[p] = IF dest[p] = "tarball" THEN "get" ELSE "read"
      BY <2>1, <2>6 DEF IInv, PipTypeOK
    <3>4. p \notin faulted' => Intact(dir["tarball"])'
      BY <2>1, <2>3, <3>1, <3>2
    <3>5. p \notin faulted' /\ pc'[p] = "read" => Intact(dir["checksum"])'
      BY <2>1, <2>3, <3>1, <3>3
    <3> QED BY <2>2, <3>3, <3>4, <3>5 DEF Unharmed
  <2> QED BY <2>1, <2>5, <2>6 DEF IInv, PipTypeOK
<1>8. NoSpuriousFailure'
  BY DEF IInv, PipTypeOK, NoSpuriousFailure
<1> QED BY <1>1, <1>2, <1>3, <1>4, <1>5, <1>6, <1>7, <1>8 DEF IInv

LEMMA VerifyStep ==
  ASSUME IInv, ~Concurrent, NEW p \in Run, Verify(p)
  PROVE  IInv'
<1> USE NoFileApart DEF Verify, Matches, Go, Installing, Ended, Name, Intact
<1>1. PipTypeOK'
  BY DEF IInv, PipTypeOK
<1>2. OneInstalls'
  BY DEF IInv, PipTypeOK, OneInstalls
<1>3. NamesApart'
  BY DEF IInv, PipTypeOK, NamesApart
<1>4. FilesOpen'
  BY DEF IInv, PipTypeOK, FilesOpen
<1>5. ModeLast'
  BY DEF IInv, PipTypeOK, ModeLast
<1>6. Verified'
  BY DEF IInv, PipTypeOK, Verified
<1>7. Unharmed'
  BY DEF IInv, PipTypeOK, Unharmed
<1>8. NoSpuriousFailure'
  BY DEF IInv, PipTypeOK, NoSpuriousFailure, FilesOpen, ModeLast, Verified, Unharmed
<1> QED BY <1>1, <1>2, <1>3, <1>4, <1>5, <1>6, <1>7, <1>8 DEF IInv

LEMMA OpenTarStep ==
  ASSUME IInv, ~Concurrent, NEW p \in Run, OpenTar(p)
  PROVE  IInv'
<1> USE NoFileApart DEF OpenTar, Go, Stop, Installing, Ended, Name, Intact
<1>1. PipTypeOK'
  BY DEF IInv, PipTypeOK
<1>2. OneInstalls'
  BY DEF IInv, PipTypeOK, OneInstalls
<1>3. NamesApart'
  BY DEF IInv, PipTypeOK, NamesApart
<1>4. FilesOpen'
  BY DEF IInv, PipTypeOK, FilesOpen
<1>5. ModeLast'
  BY DEF IInv, PipTypeOK, ModeLast
<1>6. Verified'
  BY DEF IInv, PipTypeOK, Verified
<1>7. Unharmed'
  BY DEF IInv, PipTypeOK, Unharmed
<1>8. NoSpuriousFailure'
  <2>1. Intact(dir["tarball"]) /\ Complete(dir["tarball"])
    BY DEF IInv, Verified, Complete
  <2>2. pc' = [pc EXCEPT ![p] = "create"]
    BY <2>1
  <2> QED BY <2>2 DEF IInv, PipTypeOK, NoSpuriousFailure
<1> QED BY <1>1, <1>2, <1>3, <1>4, <1>5, <1>6, <1>7, <1>8 DEF IInv

LEMMA CreateBinaryStep ==
  ASSUME IInv, ~Concurrent, NEW p \in Run, CreateBinary(p)
  PROVE  IInv'
<1> USE NoFileApart, HolesType DEF CreateBinary, OpenForWriting, FirstOffset, ModeWhenCreated, Go, Stop, Installing, Ended, Name, Intact
<1>1. PipTypeOK'
  <2> DEFINE i == IF dir["binary"] = NoFile THEN <<"binary", p>> ELSE dir["binary"]
  <2>1. i \in Inode
    BY DEF IInv, PipTypeOK, Inode
  <2> HIDE DEF i
  <2>2. ~ \E q \in Run : pc[q] = "running"
    BY DEF IInv, ModeLast
  <2>3. /\ dir' = [dir EXCEPT !["binary"] = i]
        /\ blocks' = [blocks EXCEPT ![i] = Holes]
        /\ fd' = [fd EXCEPT ![p] = i]
        /\ written' = [written EXCEPT ![p] = 0]
        /\ mode' = mode
        /\ pc' = [pc EXCEPT ![p] = "copy"]
        /\ UNCHANGED <<tf, dest, faulted>>
    BY <2>2 DEF i
  <2>4. blocks' \in [Inode -> [1..2 -> {"hole", "good", "bad"}]]
    BY <2>1, <2>3, HolesType DEF IInv, PipTypeOK
  <2>5. /\ dir' \in [Name -> Inode \cup {NoFile}]
        /\ fd' \in [Run -> Inode \cup {NoFile}] /\ fd'[p] # NoFile
        /\ written' \in [Run -> 0..2] /\ written'[p] = 0
    BY <2>1, <2>3 DEF IInv, PipTypeOK
  <2>6. \A q \in Run \ {p} : fd'[q] = fd[q] /\ written'[q] = written[q] /\ pc'[q] = pc[q]
    BY <2>3 DEF IInv, PipTypeOK
  <2>7. pc' \in [Run -> {"idle", "exec", "running"} \cup Installing \cup Ended]
    BY <2>3 DEF IInv, PipTypeOK
  <2> HIDE DEF CreateBinary
  <2> QED BY <2>3, <2>4, <2>5, <2>6, <2>7 DEF IInv, PipTypeOK
<1>2. OneInstalls'
  BY DEF IInv, PipTypeOK, OneInstalls
<1>3. NamesApart'
  BY DEF IInv, PipTypeOK, NamesApart
<1>4. FilesOpen'
  BY DEF IInv, PipTypeOK, FilesOpen
<1>5. ModeLast'
  BY DEF IInv, PipTypeOK, ModeLast
<1>6. Verified'
  BY DEF IInv, PipTypeOK, Verified, OneInstalls, NamesApart, FilesOpen
<1>7. Unharmed'
  BY DEF IInv, PipTypeOK, Unharmed, OneInstalls, NamesApart, FilesOpen
<1>8. NoSpuriousFailure'
  BY DEF IInv, PipTypeOK, NoSpuriousFailure, FilesOpen, ModeLast
<1> QED BY <1>1, <1>2, <1>3, <1>4, <1>5, <1>6, <1>7, <1>8 DEF IInv

LEMMA CopyBlockStep ==
  ASSUME IInv, ~Concurrent, NEW p \in Run, CopyBlock(p)
  PROVE  IInv'
<1> USE NoFileApart DEF CopyBlock, WriteBlock, Go, Stop, Installing, Ended, Name, Intact
<1>1. PipTypeOK'
  <2>1. /\ tf[p] \in Inode /\ fd[p] \in Inode
        /\ written[p] + 1 \in 1..2
    BY DEF IInv, PipTypeOK, FilesOpen, Verified
  <2>2. blocks[tf[p]][written[p] + 1] \in {"hole", "good", "bad"}
    BY <2>1 DEF IInv, PipTypeOK
  <2>3. blocks' \in [Inode -> [1..2 -> {"hole", "good", "bad"}]]
    BY <2>1, <2>2 DEF IInv, PipTypeOK
  <2>4. /\ pc' \in [Run -> {"idle", "exec", "running"} \cup Installing \cup Ended]
        /\ fd' \in [Run -> Inode \cup {NoFile}]
        /\ written' \in [Run -> 0..2]
        /\ tf' \in [Run -> Inode \cup {NoFile}]
    <3>1. pc' \in [Run -> {"idle", "exec", "running"} \cup Installing \cup Ended]
      BY DEF IInv, PipTypeOK
    <3>2. /\ fd' \in [Run -> Inode \cup {NoFile}]
          /\ tf' \in [Run -> Inode \cup {NoFile}]
      BY DEF IInv, PipTypeOK
    <3>3. written' \in [Run -> 0..2]
      BY <2>1 DEF IInv, PipTypeOK
    <3> QED BY <3>1, <3>2, <3>3
  <2>5. \A q \in Run : pc'[q] \in {"put", "copy"} => fd'[q] # NoFile /\ written'[q] < 2
    BY <2>1 DEF IInv, PipTypeOK
  <2>6. UNCHANGED <<dir, mode, dest, faulted>>
    OBVIOUS
  <2> HIDE DEF CopyBlock
  <2> QED BY <2>3, <2>4, <2>5, <2>6 DEF IInv, PipTypeOK
<1>2. OneInstalls'
  BY DEF IInv, PipTypeOK, OneInstalls
<1>3. NamesApart'
  BY DEF IInv, PipTypeOK, NamesApart
<1>4. FilesOpen'
  BY DEF IInv, PipTypeOK, FilesOpen, OneInstalls, NamesApart, ModeLast, Verified, Unharmed, NoSpuriousFailure
<1>5. ModeLast'
  BY DEF IInv, PipTypeOK, ModeLast
<1>6. Verified'
  BY DEF IInv, PipTypeOK, Verified, FilesOpen
<1>7. Unharmed'
  BY DEF IInv, PipTypeOK, Unharmed, OneInstalls, NamesApart, FilesOpen
<1>8. NoSpuriousFailure'
  BY DEF IInv, PipTypeOK, NoSpuriousFailure, OneInstalls, NamesApart, FilesOpen, ModeLast, Verified
<1> QED BY <1>1, <1>2, <1>3, <1>4, <1>5, <1>6, <1>7, <1>8 DEF IInv

LEMMA ChmodStep ==
  ASSUME IInv, ~Concurrent, NEW p \in Run, Chmod(p)
  PROVE  IInv'
<1> USE NoFileApart DEF Chmod, Go, Installing, Ended, Name, Intact
<1>1. PipTypeOK'
  BY DEF IInv, PipTypeOK
<1>2. OneInstalls'
  BY DEF IInv, PipTypeOK, OneInstalls
<1>3. NamesApart'
  BY DEF IInv, PipTypeOK, NamesApart
<1>4. FilesOpen'
  BY DEF IInv, PipTypeOK, FilesOpen
<1>5. ModeLast'
  BY DEF IInv, PipTypeOK, ModeLast, OneInstalls, NamesApart, FilesOpen, Verified
<1>6. Verified'
  BY DEF IInv, PipTypeOK, Verified
<1>7. Unharmed'
  BY DEF IInv, PipTypeOK, Unharmed
<1>8. NoSpuriousFailure'
  BY DEF IInv, PipTypeOK, NoSpuriousFailure
<1> QED BY <1>1, <1>2, <1>3, <1>4, <1>5, <1>6, <1>7, <1>8 DEF IInv

LEMMA RemoveFileStep ==
  ASSUME IInv, ~Concurrent, NEW p \in Run, RemoveFile(p)
  PROVE  IInv'
<1> USE NoFileApart DEF RemoveFile, Go, Installing, Ended, Name, Intact
<1>1. PipTypeOK'
  BY DEF IInv, PipTypeOK
<1>2. OneInstalls'
  BY DEF IInv, PipTypeOK, OneInstalls
<1>3. NamesApart'
  BY DEF IInv, PipTypeOK, NamesApart
<1>4. FilesOpen'
  BY DEF IInv, PipTypeOK, FilesOpen, OneInstalls
<1>5. ModeLast'
  BY DEF IInv, PipTypeOK, ModeLast
<1>6. Verified'
  BY DEF IInv, PipTypeOK, Verified, OneInstalls
<1>7. Unharmed'
  BY DEF IInv, PipTypeOK, Unharmed, OneInstalls
<1>8. NoSpuriousFailure'
  BY DEF IInv, PipTypeOK, NoSpuriousFailure, FilesOpen, ModeLast, Verified, Unharmed
<1> QED BY <1>1, <1>2, <1>3, <1>4, <1>5, <1>6, <1>7, <1>8 DEF IInv

LEMMA ExecStep ==
  ASSUME IInv, ~Concurrent, NEW p \in Run, Exec(p)
  PROVE  IInv'
<1> USE NoFileApart DEF Exec, Executable, Go, Installing, Ended, Name, Intact
<1>1. PipTypeOK'
  BY DEF IInv, PipTypeOK
<1>2. OneInstalls'
  BY DEF IInv, PipTypeOK, OneInstalls
<1>3. NamesApart'
  BY DEF IInv, PipTypeOK, NamesApart
<1>4. FilesOpen'
  BY DEF IInv, PipTypeOK, FilesOpen
<1>5. ModeLast'
  BY DEF IInv, PipTypeOK, ModeLast
<1>6. Verified'
  BY DEF IInv, PipTypeOK, Verified
<1>7. Unharmed'
  BY DEF IInv, PipTypeOK, Unharmed
<1>8. NoSpuriousFailure'
  BY DEF IInv, PipTypeOK, NoSpuriousFailure, FilesOpen, ModeLast
<1> QED BY <1>1, <1>2, <1>3, <1>4, <1>5, <1>6, <1>7, <1>8 DEF IInv

LEMMA ExitStep ==
  ASSUME IInv, ~Concurrent, NEW p \in Run, Exit(p)
  PROVE  IInv'
<1> USE NoFileApart DEF Exit, Go, Installing, Ended, Name, Intact
<1>1. PipTypeOK'
  BY DEF IInv, PipTypeOK
<1>2. OneInstalls'
  BY DEF IInv, PipTypeOK, OneInstalls
<1>3. NamesApart'
  BY DEF IInv, PipTypeOK, NamesApart
<1>4. FilesOpen'
  BY DEF IInv, PipTypeOK, FilesOpen
<1>5. ModeLast'
  BY DEF IInv, PipTypeOK, ModeLast
<1>6. Verified'
  BY DEF IInv, PipTypeOK, Verified
<1>7. Unharmed'
  BY DEF IInv, PipTypeOK, Unharmed
<1>8. NoSpuriousFailure'
  BY DEF IInv, PipTypeOK, NoSpuriousFailure
<1> QED BY <1>1, <1>2, <1>3, <1>4, <1>5, <1>6, <1>7, <1>8 DEF IInv

LEMMA DieStep ==
  ASSUME IInv, ~Concurrent, NEW p \in Run, _die(p)
  PROVE  IInv'
<1> USE NoFileApart DEF _die, Go, Stop, Installing, Ended, Name, Intact
<1>1. PipTypeOK'
  BY DEF IInv, PipTypeOK
<1>2. OneInstalls'
  BY DEF IInv, PipTypeOK, OneInstalls
<1>3. NamesApart'
  BY DEF IInv, PipTypeOK, NamesApart
<1>4. FilesOpen'
  BY DEF IInv, PipTypeOK, FilesOpen
<1>5. ModeLast'
  BY DEF IInv, PipTypeOK, ModeLast
<1>6. Verified'
  BY DEF IInv, PipTypeOK, Verified
<1>7. Unharmed'
  BY DEF IInv, PipTypeOK, Unharmed
<1>8. NoSpuriousFailure'
  BY DEF IInv, PipTypeOK, NoSpuriousFailure
<1> QED BY <1>1, <1>2, <1>3, <1>4, <1>5, <1>6, <1>7, <1>8 DEF IInv

LEMMA KillStep ==
  ASSUME IInv, ~Concurrent, NEW p \in Run, Kill(p)
  PROVE  IInv'
<1> USE NoFileApart DEF Kill, Go, Stop, Installing, Ended, Name, Intact
<1>1. PipTypeOK'
  BY DEF IInv, PipTypeOK
<1>2. OneInstalls'
  BY DEF IInv, PipTypeOK, OneInstalls
<1>3. NamesApart'
  BY DEF IInv, PipTypeOK, NamesApart
<1>4. FilesOpen'
  BY DEF IInv, PipTypeOK, FilesOpen
<1>5. ModeLast'
  BY DEF IInv, PipTypeOK, ModeLast
<1>6. Verified'
  BY DEF IInv, PipTypeOK, Verified
<1>7. Unharmed'
  BY DEF IInv, PipTypeOK, Unharmed
<1>8. NoSpuriousFailure'
  BY DEF IInv, PipTypeOK, NoSpuriousFailure
<1> QED BY <1>1, <1>2, <1>3, <1>4, <1>5, <1>6, <1>7, <1>8 DEF IInv

LEMMA StutterStep ==
  ASSUME IInv, UNCHANGED vars
  PROVE  IInv'
<1> USE DEF vars, IInv, Intact
<1>1. PipTypeOK' /\ OneInstalls' /\ NamesApart' /\ FilesOpen'
  BY DEF PipTypeOK, OneInstalls, NamesApart, FilesOpen
<1>2. ModeLast' /\ Verified' /\ Unharmed' /\ NoSpuriousFailure'
  BY DEF ModeLast, Verified, Unharmed, NoSpuriousFailure
<1> QED BY <1>1, <1>2

LEMMA NextIInv ==
  ASSUME ~Concurrent, IInv, [Next]_vars
  PROVE  IInv'
<1>1. CASE UNCHANGED vars
  BY <1>1, StutterStep
<1>2. CASE AllEnded
  BY <1>2, StutterStep DEF AllEnded
<1>3. ASSUME NEW p \in Run,
             \/ CheckCache(p) \/ _download(p) \/ PutBlock(p) \/ Verify(p) \/ OpenTar(p)
             \/ CreateBinary(p) \/ CopyBlock(p) \/ Chmod(p) \/ RemoveFile(p)
             \/ Exec(p) \/ Exit(p) \/ _die(p) \/ Kill(p)
      PROVE  IInv'
  BY <1>3, CheckCacheStep, DownloadStep, PutBlockStep, VerifyStep, OpenTarStep,
     CreateBinaryStep, CopyBlockStep, ChmodStep, RemoveFileStep, ExecStep, ExitStep,
     DieStep, KillStep
<1> QED BY <1>1, <1>2, <1>3 DEF Next

(* The bits are never taken away again.                                    *)
LEMMA ModeStays ==
  ASSUME [Next]_vars, mode
  PROVE  mode'
BY DEF Next, vars, AllEnded, CheckCache, _download, PutBlock, Verify, OpenTar,
       CreateBinary, ModeWhenCreated, CopyBlock, Chmod, RemoveFile, Exec, Exit, _die, Kill

-----------------------------------------------------------------------------

(* The invariant of the cache directory: one run installs, only it has     *)
(* files open, and the executable bits come last (_ensure_binary).         *)
THEOREM Invariance ==
  ASSUME ~Concurrent
  PROVE  Spec => []IInv
<1>1. Init => IInv
  BY InitIInv
<1>2. IInv /\ [Next]_vars => IInv'
  BY NextIInv
<1> QED
  BY <1>1, <1>2, PTL DEF Spec

(* The variables keep their types, and a run that writes has a file open.  *)
THEOREM TypeCorrect ==
  ASSUME ~Concurrent
  PROVE  Spec => []PipTypeOK
<1>1. IInv => PipTypeOK
  BY DEF IInv
<1> QED
  BY <1>1, Invariance, PTL

(* Only the release as it was verified is ever executed (main), however    *)
(* many runs died before at whatever point.                                *)
THEOREM OnlyGoodRuns ==
  ASSUME ~Concurrent
  PROVE  Spec => []OnlyGoodBinaryRuns
<1>1. IInv => OnlyGoodBinaryRuns
  BY DEF IInv, ModeLast, OnlyGoodBinaryRuns
<1> QED
  BY <1>1, Invariance, PTL

(* A binary that passes the cache test of _ensure_binary is whole.         *)
THEOREM SoundCache ==
  ASSUME ~Concurrent
  PROVE  Spec => []CacheSound
<1>1. IInv => CacheSound
  BY DEF IInv, ModeLast, CacheSound
<1> QED
  BY <1>1, Invariance, PTL

(* What a run that died has left in the directory never makes a later run  *)
(* fail: every failure is the network's or the disk's.                     *)
THEOREM FailuresHaveCauses ==
  ASSUME ~Concurrent
  PROVE  Spec => []NoSpuriousFailure
<1>1. IInv => NoSpuriousFailure
  BY DEF IInv
<1> QED
  BY <1>1, Invariance, PTL

(* Once installed, the binary is used and left alone by every later run.   *)
THEOREM CacheIsKept ==
  ASSUME ~Concurrent
  PROVE  Spec => CacheKept
<1>1. IInv /\ IInv' /\ [Next]_vars =>
        [mode /\ Intact(dir["binary"]) => (mode /\ Intact(dir["binary"]))']_vars
  BY ModeStays DEF IInv, ModeLast
<1> QED
  BY <1>1, Invariance, PTL DEF Spec, CacheKept

=============================================================================
