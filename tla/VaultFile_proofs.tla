-------------------------- MODULE VaultFile_proofs --------------------------
(***************************************************************************)
(* Proofs about VaultFile, for every set of writers and of keys.            *)
(*                                                                          *)
(* FileInv is the inductive invariant: the file the path names, and the     *)
(* file it would name after a power loss, always have their bytes on the    *)
(* disk; a temporary file is whole and synced before it can replace the     *)
(* live one; and while the vault is damaged no writer is past load().       *)
(***************************************************************************)
EXTENDS VaultFile, TLAPS

TempMatchesPc(w) ==
    /\ pc[w] \in {"idle", "load", "mkstemp", "fsync_dir", "return"} => temp[w] = NoFile
    /\ pc[w] = "fsync" => temp[w].status = "whole"
    /\ pc[w] = "replace" => temp[w].status = "whole" /\ temp[w].synced

OnDisk == live.synced /\ durable.synced

DamagedIsFrozen ==
    /\ durable.status = "torn" <=> live.status = "torn"
    /\ live.status = "torn" => /\ durable = live
                               /\ \A w \in Writers : pc[w] \in {"idle", "load"}

FileInv ==
    /\ TypeOK
    /\ \A w \in Writers : TempMatchesPc(w)
    /\ OnDisk
    /\ DamagedIsFrozen
    /\ StrayIsExplained

-----------------------------------------------------------------------------

LEMMA FileFacts == NoFile \in File /\ TornFile \in File
  BY DEF File, NoFile, TornFile

LEMMA InitFileInv == Init => FileInv
  <1> SUFFICES ASSUME Init PROVE FileInv
    OBVIOUS
  <1>1. live \in File /\ live.synced
    <2>1. \/ live \in {NoFile, TornFile}
          \/ \E held \in SUBSET Keys : live = WholeFile(held, TRUE)
      BY Zenon DEF Init
    <2>2. CASE live \in {NoFile, TornFile}
      <3>1. NoFile.synced /\ TornFile.synced
        BY DEF NoFile, TornFile
      <3>. QED
        BY <2>2, <3>1, FileFacts
    <2>3. CASE \E held \in SUBSET Keys : live = WholeFile(held, TRUE)
      BY <2>3 DEF File, WholeFile
    <2>. QED
      BY <2>1, <2>2, <2>3
  <1>2. TypeOK
    BY <1>1, FileFacts DEF Init, TypeOK, Steps
  <1>. QED
    BY <1>1, <1>2 DEF Init, FileInv, TempMatchesPc, OnDisk, DamagedIsFrozen, StrayIsExplained

LEMMA NextFileInv == FileInv /\ [Next]_vars => FileInv'
  <1> USE DEF FileInv, TypeOK, TempMatchesPc, OnDisk, DamagedIsFrozen, StrayIsExplained
  <1> SUFFICES ASSUME FileInv, [Next]_vars PROVE FileInv'
    OBVIOUS
  <1>1. ASSUME NEW w \in Writers, NEW k \in Keys, Call(w, k) PROVE FileInv'
    BY <1>1 DEF Call, Goto, Steps
  <1>2. ASSUME NEW w \in Writers, Load(w) PROVE FileInv'
    BY <1>2 DEF Load, Goto, Steps, File
  <1>3. ASSUME NEW w \in Writers, LoadRaises(w) PROVE FileInv'
    BY <1>3 DEF LoadRaises, Goto, Steps
  <1>4. ASSUME NEW w \in Writers, Mkstemp(w) PROVE FileInv'
    BY <1>4 DEF Mkstemp, Goto, Steps, File, TornFile, NoFile
  <1>5. ASSUME NEW w \in Writers, Write(w) PROVE FileInv'
    BY <1>5 DEF Write, Goto, Steps, File, WholeFile, NoFile
  <1>6. ASSUME NEW w \in Writers, Fsync(w) PROVE FileInv'
    BY <1>6 DEF Fsync, Goto, Steps, File, NoFile
  <1>7. ASSUME NEW w \in Writers, Replace(w) PROVE FileInv'
    BY <1>7, FileFacts DEF Replace, Goto, Steps
  <1>8. ASSUME NEW w \in Writers, FsyncDir(w) PROVE FileInv'
    BY <1>8 DEF FsyncDir, Goto, Steps
  <1>9. ASSUME NEW w \in Writers, Return(w) PROVE FileInv'
    BY <1>9, FileFacts DEF Return, Ends, Steps
  <1>10. ASSUME NEW w \in Writers, Raise(w) PROVE FileInv'
    BY <1>10, FileFacts DEF Raise, Ends, Steps
  <1>11. ASSUME NEW w \in Writers, Kill(w) \/ UnlinkFails(w) PROVE FileInv'
    BY <1>11, FileFacts DEF Kill, UnlinkFails, Leave, Ends, Steps
  <1>12. ASSUME Writeback PROVE FileInv'
    BY <1>12 DEF Writeback
  <1>13. ASSUME PowerLoss PROVE FileInv'
    <2>1. live' = durable /\ durable' = durable
      BY <1>13 DEF PowerLoss, Survivors
    <2>2. \A w \in Writers : temp[w].status # "missing" => pc[w] # "idle"
      BY DEF NoFile
    <2>3. StrayIsExplained'
      BY <1>13, <2>2 DEF PowerLoss
    <2>. QED
      BY <1>13, <2>1, <2>3, FileFacts DEF PowerLoss, Steps
  <1>14. CASE UNCHANGED vars
    BY <1>14 DEF vars
  <1>. QED
    BY <1>1, <1>2, <1>3, <1>4, <1>5, <1>6, <1>7, <1>8, <1>9, <1>10, <1>11, <1>12, <1>13, <1>14
    DEF Next, Step

\* In every reachable state FileInv holds.
THEOREM FileInvariant == Spec => []FileInv
  BY InitFileInv, NextFileInv, PTL DEF Spec

\* Type correctness, for every set of writers and keys.
THEOREM TypeCorrect == Spec => []TypeOK
  <1>1. FileInv => TypeOK
    BY DEF FileInv
  <1>. QED
    BY <1>1, FileInvariant, PTL

\* A temporary file is left in the directory only by a process that was killed
\* or whose unlink the file system refused.
THEOREM NoStray == Spec => []StrayIsExplained
  <1>1. FileInv => StrayIsExplained
    BY DEF FileInv
  <1>. QED
    BY <1>1, FileInvariant, PTL

-----------------------------------------------------------------------------
(* Every step is a step of the atomic register, or a stutter.               *)

LEMMA SeenFacts ==
    ASSUME NEW f \in File
    PROVE  /\ Seen(f) \in [status : {"missing", "whole", "torn"}, items : SUBSET Keys]
           /\ Seen(f).status = f.status
           /\ Seen(f).items = f.keys
  BY DEF Seen, File

LEMMA InitRegister == Init => Register!Init
  BY InitFileInv, SeenFacts DEF Init, FileInv, TypeOK, Register!Init, Register!Content

\* A damaged live file stays the live file; a sound one stays sound.
LEMMA LiveStep ==
    ASSUME FileInv, [Next]_vars
    PROVE  /\ live.status = "torn" => live' = live
           /\ live.status # "torn" => live'.status # "torn"
  <1> USE DEF FileInv, TypeOK
  <1>1. ASSUME NEW w \in Writers, Replace(w)
        PROVE  live.status # "torn" /\ live'.status # "torn"
    BY <1>1 DEF Replace, Goto, TempMatchesPc, DamagedIsFrozen
  <1>2. ASSUME PowerLoss PROVE live' = durable
    BY <1>2 DEF PowerLoss, Survivors, OnDisk
  <1>3. ASSUME NEW w \in Writers, Step(w), ~Replace(w) PROVE live' = live
    BY <1>3 DEF Step, Call, Load, LoadRaises, Mkstemp, Write, Fsync, FsyncDir, Return, Raise, UnlinkFails, Kill
  <1>4. ASSUME Writeback PROVE live' = live
    BY <1>4 DEF Writeback
  <1>5. ASSUME UNCHANGED vars PROVE live' = live
    BY <1>5 DEF vars
  <1>. QED
    BY <1>1, <1>2, <1>3, <1>4, <1>5 DEF Next, DamagedIsFrozen

LEMMA StepRegister ==
    ASSUME FileInv, [Next]_vars
    PROVE  [Register!Next]_<<Seen(live), Seen(durable)>>
  <1> USE DEF FileInv, TypeOK
  <1>1. ASSUME NEW w \in Writers, Replace(w) PROVE Register!Put(live'.keys)
    <2>1. live.status # "torn" /\ live'.status = "whole" /\ live' \in File /\ durable' = durable
      BY <1>1 DEF Replace, Goto, TempMatchesPc, DamagedIsFrozen
    <2>. QED
      BY <2>1 DEF Register!Put, Seen, File
  <1>2. ASSUME PowerLoss PROVE Register!PowerLoss
    BY <1>2 DEF PowerLoss, Survivors, OnDisk, Register!PowerLoss, Seen
  <1>3. ASSUME NEW w \in Writers, FsyncDir(w)
        PROVE  Register!Flush \/ UNCHANGED <<live, durable>>
    BY <1>3 DEF FsyncDir, Register!Flush, Seen
  <1>4. ASSUME Writeback PROVE Register!Flush
    BY <1>4 DEF Writeback, Register!Flush, Seen
  <1>5. ASSUME NEW w \in Writers, Step(w), ~Replace(w), ~FsyncDir(w)
        PROVE  UNCHANGED <<live, durable>>
    BY <1>5 DEF Step, Call, Load, LoadRaises, Mkstemp, Write, Fsync, Return, Raise, UnlinkFails, Kill
  <1>6. ASSUME UNCHANGED vars PROVE UNCHANGED <<live, durable>>
    BY <1>6 DEF vars
  <1>7. ASSUME UNCHANGED <<live, durable>> PROVE UNCHANGED <<Seen(live), Seen(durable)>>
    BY <1>7
  <1>8. live' \in File
    BY NextFileInv
  <1>9. ASSUME NEW w \in Writers, Replace(w) PROVE Register!Next
    BY <1>1, <1>8, <1>9 DEF Register!Next, File
  <1>. QED
    BY <1>2, <1>3, <1>4, <1>5, <1>6, <1>7, <1>9 DEF Next, Register!Next

\* No step tears a file that was sound.
THEOREM NeverTearsHolds == Spec => NeverTears
  <1>1. FileInv /\ [Next]_vars => [live.status # "torn" => live'.status # "torn"]_vars
    BY LiveStep
  <1>. QED
    BY <1>1, FileInvariant, PTL DEF Spec, NeverTears

\* No step touches a damaged vault.
THEOREM DamagedVaultKeptHolds == Spec => DamagedVaultKept
  <1>1. FileInv /\ [Next]_vars => [live.status = "torn" => live' = live]_vars
    BY LiveStep
  <1>. QED
    BY <1>1, FileInvariant, PTL DEF Spec, DamagedVaultKept

\* With any number of writers, kills and power losses the path is an atomic register.
THEOREM ImplementsRegister == Spec => IsRegister
  <1>1. FileInv /\ [Next]_vars => [Register!Next]_<<Seen(live), Seen(durable)>>
    BY StepRegister
  <1>. QED
    BY <1>1, InitRegister, FileInvariant, PTL DEF Spec, IsRegister, Register!Spec

-----------------------------------------------------------------------------
(* With a single writer nothing changes between load() and os.replace(), so *)
(* update() is atomic and, where directories can be synced, durable.        *)

OneWriter == \E w \in Writers : Writers = {w}

WriterAgrees(w) ==
    /\ pc[w] \in {"mkstemp", "write"} => current[w] = live.keys
    /\ pc[w] \in {"fsync", "replace"} => temp[w].keys = live.keys \cup {key[w]}
    /\ pc[w] = "fsync_dir" => key[w] \in live.keys
    /\ pc[w] = "return" /\ DirSync => key[w] \in live.keys \cap durable.keys

UpdateInv ==
    /\ \A w \in Writers : WriterAgrees(w)
    /\ DirSync => acked \subseteq live.keys \cap durable.keys

LEMMA InitUpdateInv == Init => UpdateInv
  BY DEF Init, UpdateInv, WriterAgrees

LEMMA NextUpdateInv == OneWriter /\ FileInv /\ UpdateInv /\ [Next]_vars => UpdateInv'
  <1> SUFFICES ASSUME OneWriter, FileInv, UpdateInv, [Next]_vars PROVE UpdateInv'
    OBVIOUS
  <1> USE DEF UpdateInv, WriterAgrees
  <1>0. /\ pc \in [Writers -> Steps] /\ key \in [Writers -> Keys]
        /\ current \in [Writers -> SUBSET Keys] /\ temp \in [Writers -> File]
        /\ DirSync \in BOOLEAN
    BY DirSyncAssumption DEF FileInv, TypeOK
  <1>1. ASSUME NEW w \in Writers, Writers = {w}, NEW k \in Keys, Call(w, k) PROVE UpdateInv'
    BY <1>0, <1>1 DEF Call, Goto
  <1>2. ASSUME NEW w \in Writers, Writers = {w}, Load(w) PROVE UpdateInv'
    BY <1>0, <1>2 DEF Load, Goto
  <1>3. ASSUME NEW w \in Writers, Writers = {w}, LoadRaises(w) PROVE UpdateInv'
    BY <1>0, <1>3 DEF LoadRaises, Goto
  <1>4. ASSUME NEW w \in Writers, Writers = {w}, Mkstemp(w) PROVE UpdateInv'
    BY <1>0, <1>4 DEF Mkstemp, Goto
  <1>5. ASSUME NEW w \in Writers, Writers = {w}, Write(w) PROVE UpdateInv'
    <2>1. temp'[w].keys = live.keys \cup {key[w]}
      BY <1>0, <1>5 DEF Write, Goto, WholeFile
    <2>. QED
      BY <1>0, <1>5, <2>1 DEF Write, Goto
  <1>6. ASSUME NEW w \in Writers, Writers = {w}, Fsync(w) PROVE UpdateInv'
    <2>1. temp'[w].keys = temp[w].keys
      BY <1>0, <1>6 DEF Fsync, File
    <2>. QED
      BY <1>0, <1>6, <2>1 DEF Fsync, Goto
  <1>7. ASSUME NEW w \in Writers, Writers = {w}, Replace(w) PROVE UpdateInv'
    BY <1>0, <1>7 DEF Replace, Goto
  <1>8. ASSUME NEW w \in Writers, Writers = {w}, FsyncDir(w) PROVE UpdateInv'
    BY <1>0, <1>8 DEF FsyncDir, Goto
  <1>9. ASSUME NEW w \in Writers, Writers = {w}, Return(w) PROVE UpdateInv'
    BY <1>0, <1>9 DEF Return, Ends
  <1>10. ASSUME NEW w \in Writers, Writers = {w}, Raise(w) \/ UnlinkFails(w) \/ Kill(w) PROVE UpdateInv'
    BY <1>0, <1>10 DEF Raise, UnlinkFails, Kill, Ends
  <1>11. ASSUME Writeback PROVE UpdateInv'
    BY <1>11 DEF Writeback
  <1>12. ASSUME PowerLoss PROVE UpdateInv'
    <2>1. live' = durable /\ durable' = durable
      BY <1>12 DEF PowerLoss, Survivors, FileInv, OnDisk
    <2>. QED
      BY <1>12, <2>1 DEF PowerLoss
  <1>13. CASE UNCHANGED vars
    BY <1>13 DEF vars
  <1>. QED
    BY <1>1, <1>2, <1>3, <1>4, <1>5, <1>6, <1>7, <1>8, <1>9, <1>10, <1>11, <1>12, <1>13
    DEF OneWriter, Next, Step

LEMMA UpdateInvariant ==
    ASSUME OneWriter
    PROVE  Spec => []UpdateInv
  <1>1. FileInv /\ UpdateInv /\ [Next]_vars => UpdateInv'
    BY NextUpdateInv
  <1>. QED
    BY <1>1, InitUpdateInv, FileInvariant, PTL DEF Spec

\* One writer on a file system that syncs directories: a key whose update()
\* returned is never lost, whatever fails afterwards.
THEOREM OneWriterKeepsKeys ==
    ASSUME OneWriter, DirSync
    PROVE  Spec => []AckedKeysPresent
  <1>1. UpdateInv => AckedKeysPresent
    BY DEF UpdateInv, AckedKeysPresent
  <1>. QED
    BY <1>1, UpdateInvariant, PTL

LEMMA StepUpdate ==
    ASSUME OneWriter, FileInv, UpdateInv, [Next]_vars
    PROVE  [Register!UpdateNext]_<<Seen(live), Seen(durable)>>
  <1> USE DEF FileInv, TypeOK
  <1>1. ASSUME NEW w \in Writers, Replace(w)
        PROVE  Register!Put(Seen(live).items \cup {key[w]})
    <2>1. /\ live.status # "torn" /\ live'.status = "whole" /\ live' \in File
          /\ durable' = durable /\ live'.keys = live.keys \cup {key[w]}
      BY <1>1 DEF Replace, Goto, TempMatchesPc, DamagedIsFrozen, UpdateInv, WriterAgrees
    <2>. QED
      BY <2>1 DEF Register!Put, Seen, File
  <1>2. ASSUME NEW w \in Writers, Replace(w) PROVE Register!UpdateNext
    BY <1>1, <1>2 DEF Register!UpdateNext
  <1>4. ASSUME PowerLoss PROVE Register!PowerLoss
    BY <1>4 DEF PowerLoss, Survivors, OnDisk, Register!PowerLoss, Seen
  <1>5. ASSUME NEW w \in Writers, FsyncDir(w)
        PROVE  Register!Flush \/ UNCHANGED <<live, durable>>
    BY <1>5 DEF FsyncDir, Register!Flush, Seen
  <1>6. ASSUME Writeback PROVE Register!Flush
    BY <1>6 DEF Writeback, Register!Flush, Seen
  <1>7. ASSUME NEW w \in Writers, Step(w), ~Replace(w), ~FsyncDir(w)
        PROVE  UNCHANGED <<live, durable>>
    BY <1>7 DEF Step, Call, Load, LoadRaises, Mkstemp, Write, Fsync, Return, Raise, UnlinkFails, Kill
  <1>8. ASSUME UNCHANGED vars PROVE UNCHANGED <<live, durable>>
    BY <1>8 DEF vars
  <1>. QED
    BY <1>2, <1>4, <1>5, <1>6, <1>7, <1>8 DEF Next, Register!UpdateNext

\* One writer: update() is the atomic read-modify-write its docstring names.
THEOREM OneWriterIsAtomic ==
    ASSUME OneWriter
    PROVE  Spec => UpdateIsAtomic
  <1>1. FileInv /\ UpdateInv /\ [Next]_vars
            => [Register!UpdateNext]_<<Seen(live), Seen(durable)>>
    BY StepUpdate
  <1>. QED
    BY <1>1, InitRegister, FileInvariant, UpdateInvariant, PTL
    DEF Spec, UpdateIsAtomic, Register!UpdateSpec
=============================================================================
