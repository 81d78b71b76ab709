----------------------------- MODULE VaultFile -----------------------------
(***************************************************************************)
(* vault_io.py: load(), save() and update() on one file (keys.local.json,   *)
(* and every receipt the daemon stores), run by several processes at once.  *)
(* A process may be killed between any two steps, a system call may raise,  *)
(* and the machine may lose power.                                          *)
(*                                                                          *)
(* A file's content is the set of top-level keys it holds.  A file is       *)
(* "torn" when it is present but empty, truncated or unparseable, and it    *)
(* is synced once its bytes are known to be on the disk.  The directory     *)
(* has two views: `live' is the file the path names now, `durable' is the   *)
(* file it would name after a power loss.                                   *)
(***************************************************************************)
EXTENDS FiniteSets

CONSTANTS
    Writers,     \* processes that call vault_io on this path
    Keys,        \* top-level keys of the vault
    DirSync      \* whether this file system honours fsync on a directory

ASSUME DirSyncAssumption == DirSync \in BOOLEAN

VARIABLES
    live,        \* the file open(path) sees
    durable,     \* the file the path names after a power loss
    pc,          \* where each process is inside update()
    key,         \* the key each process is storing
    current,     \* the keys each process read in load()
    temp,        \* the mkstemp file each process has open
    stray,       \* processes that left a temporary file behind
    killed,      \* (history) processes that were killed, or lost power, inside a call
    refused,     \* (history) processes whose os.unlink of it failed
    acked        \* (history) keys whose update() returned normally

vars == <<live, durable, pc, key, current, temp, stray, killed, refused, acked>>

File == [status : {"missing", "whole", "torn"}, keys : SUBSET Keys, synced : BOOLEAN]

NoFile == [status |-> "missing", keys |-> {}, synced |-> TRUE]

TornFile == [status |-> "torn", keys |-> {}, synced |-> TRUE]

WholeFile(held, onDisk) == [status |-> "whole", keys |-> held, synced |-> onDisk]

Steps == {"idle", "load", "mkstemp", "write", "fsync", "replace", "fsync_dir", "return"}

----------------------------------------------------------------------------
(* The path may already name a file, whole or damaged, from before.         *)

Init ==
    /\ \/ live \in {NoFile, TornFile}
       \/ \E held \in SUBSET Keys : live = WholeFile(held, TRUE)
    /\ durable = live
    /\ pc = [w \in Writers |-> "idle"]
    /\ key \in [Writers -> Keys]
    /\ current = [w \in Writers |-> {}]
    /\ temp = [w \in Writers |-> NoFile]
    /\ stray = {}
    /\ killed = {}
    /\ refused = {}
    /\ acked = {}

Goto(w, from, to) ==
    /\ pc[w] = from
    /\ pc' = [pc EXCEPT ![w] = to]

\* update(path, mutate): mutate adds the key k to the dict it is given.
Call(w, k) ==
    /\ Goto(w, "idle", "load")
    /\ key' = [key EXCEPT ![w] = k]
    /\ UNCHANGED <<live, durable, current, temp, stray, killed, refused, acked>>

\* load(): a missing file is the empty default, a damaged one raises VaultCorruptError.
Load_DamagedIsEmpty(w) ==
    /\ Goto(w, "load", "mkstemp")
    /\ current' = [current EXCEPT ![w] = live.keys]
    /\ UNCHANGED <<live, durable, key, temp, stray, killed, refused, acked>>

Load_Forgets(w) ==
    /\ live.status # "torn"
    /\ Goto(w, "load", "mkstemp")
    /\ current' = [current EXCEPT ![w] = {}]
    /\ UNCHANGED <<live, durable, key, temp, stray, killed, refused, acked>>

Load(w) ==
    /\ live.status # "torn"
    /\ Goto(w, "load", "mkstemp")
    /\ current' = [current EXCEPT ![w] = live.keys]
    /\ UNCHANGED <<live, durable, key, temp, stray, killed, refused, acked>>

LoadRaises(w) ==
    /\ live.status = "torn"
    /\ Goto(w, "load", "idle")
    /\ UNCHANGED <<live, durable, key, current, temp, stray, killed, refused, acked>>

\* save(): a private temporary file in the same directory, empty at first.
Mkstemp(w) ==
    /\ Goto(w, "mkstemp", "write")
    /\ temp' = [temp EXCEPT ![w] = [TornFile EXCEPT !.synced = FALSE]]
    /\ UNCHANGED <<live, durable, key, current, stray, killed, refused, acked>>

Write(w) ==
    /\ Goto(w, "write", "fsync")
    /\ temp' = [temp EXCEPT ![w] = WholeFile(current[w] \cup {key[w]}, FALSE)]
    /\ UNCHANGED <<live, durable, key, current, stray, killed, refused, acked>>

Fsync_Skipped(w) ==
    /\ Goto(w, "fsync", "replace")
    /\ UNCHANGED <<live, durable, key, current, temp, stray, killed, refused, acked>>

Fsync(w) ==
    /\ Goto(w, "fsync", "replace")
    /\ temp' = [temp EXCEPT ![w].synced = TRUE]
    /\ UNCHANGED <<live, durable, key, current, stray, killed, refused, acked>>

Replace(w) ==
    /\ Goto(w, "replace", "fsync_dir")
    /\ live' = temp[w]
    /\ temp' = [temp EXCEPT ![w] = NoFile]
    /\ UNCHANGED <<durable, key, current, stray, killed, refused, acked>>

\* chmod, then _fsync_dir, which swallows an OSError: the rename may stay volatile.
FsyncDir_Skipped(w) ==
    /\ Goto(w, "fsync_dir", "return")
    /\ UNCHANGED <<live, durable, key, current, temp, stray, killed, refused, acked>>

FsyncDir(w) ==
    /\ Goto(w, "fsync_dir", "return")
    /\ durable' = IF DirSync THEN live ELSE durable
    /\ UNCHANGED <<live, key, current, temp, stray, killed, refused, acked>>

\* A call ends, one way or another: its locals and its open file are gone.
Ends(w) ==
    /\ pc' = [pc EXCEPT ![w] = "idle"]
    /\ current' = [current EXCEPT ![w] = {}]
    /\ temp' = [temp EXCEPT ![w] = NoFile]

Return(w) ==
    /\ pc[w] = "return"
    /\ Ends(w)
    /\ acked' = acked \cup {key[w]}
    /\ UNCHANGED <<live, durable, key, stray, killed, refused>>

\* What is left in the directory when nobody unlinks a temporary file.
Leave(w) == stray' = IF temp[w].status = "missing" THEN stray ELSE stray \cup {w}

\* save() raises.  Inside the try the handler unlinks the temporary file, and
\* passes over an unlink that fails; after os.replace there is none left and
\* the new file stays.
Raise_KeepsTemp(w) ==
    /\ pc[w] \in {"mkstemp", "write", "fsync", "replace", "fsync_dir"}
    /\ Ends(w)
    /\ Leave(w)
    /\ UNCHANGED <<live, durable, key, killed, refused, acked>>

Raise(w) ==
    /\ pc[w] \in {"mkstemp", "write", "fsync", "replace", "fsync_dir"}
    /\ Ends(w)
    /\ UNCHANGED <<live, durable, key, stray, killed, refused, acked>>

UnlinkFails(w) ==
    /\ pc[w] \in {"write", "fsync", "replace"}
    /\ Ends(w)
    /\ Leave(w)
    /\ refused' = refused \cup {w}
    /\ UNCHANGED <<live, durable, key, killed, acked>>

----------------------------------------------------------------------------
(* The environment.                                                         *)

\* The process dies inside the call; no handler runs.
Kill(w) ==
    /\ pc[w] # "idle"
    /\ Ends(w)
    /\ Leave(w)
    /\ killed' = killed \cup {w}
    /\ UNCHANGED <<live, durable, key, refused, acked>>

\* The kernel writes the directory back when it likes.
Writeback ==
    /\ durable' = live
    /\ UNCHANGED <<live, pc, key, current, temp, stray, killed, refused, acked>>

\* What a power loss makes of a file whose bytes may not have reached the disk.
Survivors(f) ==
    IF f.synced THEN {f} ELSE {[f EXCEPT !.synced = TRUE], TornFile}

PowerLoss ==
    /\ \E f \in Survivors(durable) : live' = f /\ durable' = f
    /\ pc' = [w \in Writers |-> "idle"]
    /\ current' = [w \in Writers |-> {}]
    /\ temp' = [w \in Writers |-> NoFile]
    /\ stray' = stray \cup {w \in Writers : temp[w].status # "missing"}
    /\ killed' = killed \cup {w \in Writers : pc[w] # "idle"}
    /\ UNCHANGED <<key, refused, acked>>

----------------------------------------------------------------------------

Step(w) ==
    \/ \E k \in Keys : Call(w, k)
    \/ Load(w)
    \/ LoadRaises(w)
    \/ Mkstemp(w)
    \/ Write(w)
    \/ Fsync(w)
    \/ Replace(w)
    \/ FsyncDir(w)
    \/ Return(w)
    \/ Raise(w)
    \/ UnlinkFails(w)
    \/ Kill(w)

Next ==
    \/ \E w \in Writers : Step(w)
    \/ Writeback
    \/ PowerLoss

Spec == Init /\ [][Next]_vars

----------------------------------------------------------------------------
(* Properties.                                                              *)

TypeOK ==
    /\ live \in File
    /\ durable \in File
    /\ pc \in [Writers -> Steps]
    /\ key \in [Writers -> Keys]
    /\ current \in [Writers -> SUBSET Keys]
    /\ temp \in [Writers -> File]
    /\ stray \subseteq Writers
    /\ killed \subseteq Writers
    /\ refused \subseteq Writers
    /\ acked \subseteq Keys

\* "A crash never truncates the live file; readers observe old-or-new, never
\* partial" (save): no step of any process, no kill and no power loss turns a
\* file that parses, or a missing one, into a damaged one.
NeverTears == [][live.status # "torn" => live'.status # "torn"]_vars

\* A damaged vault is "never silently treated as {}" (VaultCorruptError): no
\* update, started before or after, overwrites what could still be recovered.
DamagedVaultKept == [][live.status = "torn" => live' = live]_vars

\* "Every pre-existing key is preserved" (update): a key whose update()
\* returned is in the file from then on, through later updates, failed
\* updates, kills and power losses.
AckedKeysPresent == acked \subseteq live.keys

\* A temporary file, which may hold the signing seed, stays in the directory
\* only when its writer was killed or when the file system refused to unlink it:
\* no way out of save() that runs its handler forgets it (save, except clause).
StrayIsExplained == stray \subseteq killed \cup refused

\* "Never leave a stray temp file behind on failure" (save) promises more and
\* does not hold: the handler passes over the OSError of its own os.unlink.
StrayOnlyAfterKill == stray \subseteq killed

\* What a reader of the file can tell apart.
Seen(f) == [status |-> f.status, items |-> f.keys]

Register == INSTANCE AtomicRegister
    WITH Items <- Keys, value <- Seen(live), stable <- Seen(durable)

\* The path behaves as an atomic register, whatever its writers do.
IsRegister == Register!Spec

\* One writer at a time: update() is the read-modify-write "in one atomic
\* step" its docstring promises.
UpdateIsAtomic == Register!UpdateSpec
=============================================================================
