---------------------------- MODULE BackupRestore ----------------------------
(***************************************************************************)
(* `railcall backup', `backup-verify' and `restore' of the station's        *)
(* workspace, while the station changes the policy, and with either command *)
(* killed at any step.                                                      *)
(*                                                                          *)
(* The workspace is a function from file names to contents: the live policy *)
(* is the number of the change that made it, its history the sequence of    *)
(* changes, each with the number of the one before.  Receipts and the       *)
(* public key document are left out: a receipt never changes once it is     *)
(* there.  A hash stands for the content.  One backup and one restore run   *)
(* at a time.                                                               *)
(***************************************************************************)
EXTENDS Naturals, Sequences, FiniteSetsExt, Functions

CONSTANTS
    MaxChanges,    \* bound on the policy changes
    MaxArchives,   \* bound on the backups
    MaxRestores    \* bound on the restores

ASSUME BackupAssumption ==
    MaxChanges \in Nat /\ MaxArchives \in Nat /\ MaxRestores \in Nat

Policy == "approval_policy.json"
History == "approval_policy_history.jsonl"

\* In the order in which they are hashed, archived and restored.
Files == <<Policy, History>>

VARIABLES
    ws,         \* the workspace
    archives,   \* finished backups, each with whether the workspace was mixed
                \* while it was made (history)
    bk,         \* the backup that runs
    rs,         \* the restore that runs
    changes,    \* policy changes so far
    taken,      \* backups begun
    restored,   \* restores begun
    moments,    \* what the workspace has been while a backup ran (history)
    alone,      \* no restore ran while that backup did (history)
    top,        \* the version nobody asked to go back behind (history)
    mixed,      \* the last restore stopped half way, or a change came while it ran,
                \* or it put back what had been mixed when it was backed up (history)
    excused     \* a restore was killed in the history file or overtaken by a change,
                \* or met a broken chain or such a backup (history)

bvars == <<ws, archives, bk, rs, changes, taken, restored, moments, alone, top, mixed, excused>>
backup == <<archives, bk, taken, moments, alone>>
restore == <<rs, restored, top, mixed, excused>>

Idle == "idle"

\* A directory with one file written.
Put(w, f, content) ==
    [g \in DOMAIN w \cup {f} |-> IF g = f THEN content ELSE w[g]]

Workspace(policy, rows) ==
    [f \in {Policy, History} |-> IF f = Policy THEN policy ELSE rows]

Rows(w) == IF History \in DOMAIN w THEN w[History] ELSE <<>>

\* The version of the last change in a history.
LastVersion(rows) == IF rows = <<>> THEN 0 ELSE rows[Len(rows)].to

LastChange(rows) == IF rows = <<>> THEN 0 ELSE rows[Len(rows)].change

\* _policy_chain_head: the rows up to the first that does not name the one
\* before it.
Linked(rows, n) == \A k \in 2 .. n : rows[k].prev \in {0, rows[k - 1].change}

ChainHead(rows) ==
    LastVersion(SubSeq(rows, 1, Max({n \in 0 .. Len(rows) : Linked(rows, n)})))

IsIntact(rows) == Linked(rows, Len(rows))

\* The first of the files, in their order.
First(files) ==
    Files[CHOOSE n \in DOMAIN Files :
            Files[n] \in files /\ \A k \in 1 .. n - 1 : Files[k] \notin files]

Verifies_Present(a) == DOMAIN a.blobs # {}

\* _verify_backup: every listed file is there with the listed hash.
Verifies(a) ==
    \A f \in DOMAIN a.sums : f \in DOMAIN a.blobs /\ a.blobs[f] = a.sums[f]

NoBackup == [at |-> Idle, todo |-> {}, sums |-> <<>>, head |-> 0, blobs |-> <<>>,
     mixed |-> FALSE]

NoRestore ==
    [at |-> Idle, todo |-> {}, archive |-> NoBackup, forced |-> FALSE]

\* A workspace without a policy, with one that was set once, and with a history
\* in which a row has been tampered with.
BackupInit ==
    /\ ws \in
         { <<>>,
           Workspace(1, <<[to |-> 1, change |-> 1, prev |-> 0]>>),
           Workspace(2, <<[to |-> 1, change |-> 1, prev |-> 0],
                          [to |-> 2, change |-> 2, prev |-> 9]>>) }
    /\ changes = Len(Rows(ws))
    /\ top = LastVersion(Rows(ws))
    /\ archives = {} /\ taken = 0 /\ restored = 0
    /\ bk = NoBackup /\ moments = {} /\ alone = TRUE
    /\ rs = NoRestore /\ mixed = FALSE /\ excused = FALSE

\* What the workspace becomes is a moment of the backup that runs.
Becomes(w) ==
    /\ ws' = w
    /\ moments' = IF bk.at = Idle THEN {} ELSE moments \cup {w}

----------------------------------------------------------------------------
(* The station.                                                             *)

SetPolicy ==
    /\ changes < MaxChanges
    /\ changes' = changes + 1
    /\ LET rows == Rows(ws)
           row == [to |-> LastVersion(rows) + 1, change |-> changes', prev |-> LastChange(rows)]
       IN  /\ Becomes(Workspace(changes', Append(rows, row)))
           /\ top' = row.to
    /\ mixed' = (mixed \/ rs.at = "write" \/ rs.at = "open")
    /\ excused' = (excused \/ rs.at # Idle)
    /\ UNCHANGED <<archives, bk, taken, alone, rs, restored>>

\* The machine dies, and the archives with a new one are what is left.
MachineDies ==
    /\ bk.at = Idle /\ rs.at = Idle
    /\ ws # <<>> /\ archives # {}
    /\ Becomes(<<>>)
    /\ top' = 0
    /\ mixed' = FALSE
    /\ UNCHANGED <<archives, bk, taken, alone, changes, rs, restored, excused>>

\* A file of an archive is lost on the other disk.
ArchiveRots ==
    /\ \E a \in archives :
          /\ Verifies(a)
          /\ \E f \in DOMAIN a.blobs :
                archives' = (archives \ {a}) \cup
                              {[a EXCEPT !.blobs = Restrict(@, DOMAIN @ \ {f})]}
    /\ UNCHANGED <<ws, bk, taken, moments, alone, changes, restore>>

----------------------------------------------------------------------------
(* railcall backup.                                                         *)

\* _backup_members.
BackupLists ==
    /\ bk.at = Idle
    /\ taken < MaxArchives
    /\ ws # <<>>
    /\ bk' = [NoBackup EXCEPT !.at = "hash", !.todo = DOMAIN ws, !.mixed = mixed]
    /\ taken' = taken + 1
    /\ moments' = {ws}
    /\ alone' = (rs.at = Idle)
    /\ UNCHANGED <<ws, archives, changes, restore>>

\* _build_manifest reads the members one by one.
BackupHashes ==
    /\ bk.at = "hash"
    /\ LET f == First(bk.todo)
       IN  bk' = [bk EXCEPT !.sums = Put(@, f, ws[f]), !.todo = @ \ {f},
                            !.at = IF bk.todo = {f} THEN "head" ELSE @]
    /\ UNCHANGED <<ws, archives, taken, moments, alone, changes, restore>>

\* The head of the chain is read anew, then the manifest is signed and saved.
BackupReadsHead ==
    /\ bk.at = "head"
    /\ bk' = [bk EXCEPT !.head = ChainHead(Rows(ws)), !.todo = DOMAIN bk.sums,
                        !.at = "archive"]
    /\ UNCHANGED <<ws, archives, taken, moments, alone, changes, restore>>

BackupEnds ==
    /\ bk' = NoBackup
    /\ moments' = {}
    /\ alone' = TRUE

BackupArchives_TakesHashed ==
    /\ bk.at = "archive"
    /\ LET f == First(bk.todo)
           b == [bk EXCEPT !.blobs = Put(@, f, ws[f]), !.sums = Put(@, f, ws[f]), !.todo = @ \ {f}]
       IN  IF b.todo = {}
           THEN /\ archives' = archives \cup
                      {[b EXCEPT !.at = Idle, !.mixed = @ \/ ~alone]}
                /\ BackupEnds
           ELSE bk' = b /\ UNCHANGED <<archives, moments, alone>>
    /\ UNCHANGED <<ws, taken, changes, restore>>

\* tar.add reads the members again.
BackupArchives ==
    /\ bk.at = "archive"
    /\ LET f == First(bk.todo)
           b == [bk EXCEPT !.blobs = Put(@, f, ws[f]), !.todo = @ \ {f}]
       IN  IF b.todo = {}
           THEN /\ archives' = archives \cup
                      {[b EXCEPT !.at = Idle, !.mixed = @ \/ ~alone]}
                /\ BackupEnds
           ELSE bk' = b /\ UNCHANGED <<archives, moments, alone>>
    /\ UNCHANGED <<ws, taken, changes, restore>>

\* What a killed backup leaves is no archive that can be read.
BackupKilled ==
    /\ bk.at # Idle
    /\ BackupEnds
    /\ UNCHANGED <<ws, archives, taken, changes, restore>>

----------------------------------------------------------------------------
(* railcall backup-verify and restore.                                      *)

RestoreVerifies ==
    /\ rs.at = Idle
    /\ restored < MaxRestores
    /\ \E a \in archives, forced \in BOOLEAN :
          /\ Verifies(a)
          /\ rs' = [at |-> "compare", todo |-> DOMAIN a.blobs, archive |-> a, forced |-> forced]
    /\ restored' = restored + 1
    /\ alone' = (bk.at = Idle)
    /\ UNCHANGED <<ws, archives, bk, taken, moments, changes, top, mixed, excused>>

RestoreCompares_Backwards ==
    /\ rs.at = "compare"
    /\ LET rows == Rows(ws)
           goes == ChainHead(rows) >= rs.archive.head \/ rs.forced
       IN  /\ rs' = IF goes THEN [rs EXCEPT !.at = "open"] ELSE NoRestore
           /\ top' = IF rs.forced THEN 0 ELSE top
           /\ mixed' = IF goes /\ Policy \in DOMAIN rs.archive.blobs
                       THEN rs.archive.mixed ELSE mixed
           /\ excused' = (excused \/ ~IsIntact(rows) \/ rs.archive.mixed)
    /\ UNCHANGED <<ws, backup, changes, restored>>

\* "Never silently regress a newer chain".
RestoreCompares ==
    /\ rs.at = "compare"
    /\ LET rows == Rows(ws)
           goes == ChainHead(rows) <= rs.archive.head \/ rs.forced
       IN  /\ rs' = IF goes THEN [rs EXCEPT !.at = "open"] ELSE NoRestore
           /\ top' = IF rs.forced THEN 0 ELSE top
           /\ mixed' = IF goes /\ Policy \in DOMAIN rs.archive.blobs
                       THEN rs.archive.mixed ELSE mixed
           /\ excused' = (excused \/ ~IsIntact(rows) \/ rs.archive.mixed)
    /\ UNCHANGED <<ws, backup, changes, restored>>

\* open(dest, "wb"): some of the new content, or none, until it is all there.
Opened(f) ==
    IF f = Policy THEN {0}
    ELSE LET rows == rs.archive.blobs[f]
         IN  {<<>>} \cup {SubSeq(rows, 1, n) : n \in 1 .. Len(rows) - 1}

RestoreOpens ==
    /\ rs.at = "open"
    /\ LET f == First(rs.todo)
       IN  \E part \in Opened(f) : Becomes(Put(ws, f, part))
    /\ rs' = [rs EXCEPT !.at = "write"]
    /\ UNCHANGED <<archives, bk, taken, alone, changes, restored, top, mixed, excused>>

RestoreWrites ==
    /\ rs.at = "write"
    /\ LET f == First(rs.todo)
       IN  /\ Becomes(Put(ws, f, rs.archive.blobs[f]))
           /\ rs' = IF rs.todo = {f} THEN NoRestore
                    ELSE [rs EXCEPT !.at = "open", !.todo = @ \ {f}]
    /\ UNCHANGED <<archives, bk, taken, alone, changes, restored, top, mixed, excused>>

RestoreKilled ==
    /\ rs.at # Idle
    /\ rs' = NoRestore
    /\ mixed' = (mixed \/ rs.at # "compare")
    /\ excused' = (excused \/ (rs.at = "write" /\ First(rs.todo) = History))
    /\ UNCHANGED <<ws, backup, changes, restored, top>>

----------------------------------------------------------------------------

BackupNext ==
    \/ SetPolicy \/ MachineDies \/ ArchiveRots
    \/ BackupLists \/ BackupHashes \/ BackupReadsHead \/ BackupArchives \/ BackupKilled
    \/ RestoreVerifies \/ RestoreCompares \/ RestoreOpens \/ RestoreWrites \/ RestoreKilled

BackupSpec == BackupInit /\ [][BackupNext]_bvars

----------------------------------------------------------------------------
(* Properties.                                                              *)

IsRow(row) ==
    /\ row.to \in 1 .. row.change /\ row.change \in 1 .. changes
    /\ row.prev \in 0 .. changes \cup {9}

BackupTypeOK ==
    /\ DOMAIN ws \subseteq Range(Files)
    /\ \A n \in DOMAIN Rows(ws) :
          /\ IsRow(Rows(ws)[n])
          /\ n > 1 => Rows(ws)[n].to > Rows(ws)[n - 1].to
    /\ bk.todo \subseteq Range(Files) /\ rs.todo \subseteq Range(Files)
    /\ (bk.at = Idle) = (bk = NoBackup)
    /\ \A a \in archives : DOMAIN a.blobs \subseteq DOMAIN a.sums

\* A backup reads every file twice, unlocked, and the head of the chain in
\* between.  One that verifies holds what the workspace was at one moment, and
\* its manifest the head of the history it holds, whatever the station wrote
\* meanwhile.  (A restore at the same time could bring an old content back, and
\* a history begun after the members were listed has a head and no file.)
VerifiedIsSnapshot ==
    [][ \A a \in archives' \ archives :
          Verifies(a) /\ bk.at = "archive" /\ alone =>
            /\ \E w \in moments : Restrict(w, DOMAIN a.sums) = a.blobs
            /\ History \in DOMAIN a.blobs => a.head = ChainHead(Rows(a.blobs)) ]_bvars

\* "will not clobber a NEWER on-disk policy chain unless you pass --force"
\* (cmd_restore): over any sequence of changes, backups and restores the last
\* version on the disk does not go back unless a restore is forced, killed in
\* the history file, overtaken by a change, or meets a broken chain or a backup
\* that was made while another restore ran.
NeverRegresses ==
    rs.at = Idle /\ ~excused => LastVersion(Rows(ws)) >= top

\* The live policy is the one the history ends with: between restores, unless
\* one stopped half way or a change came while it ran, and again when the next
\* one has finished, from an archive that does not carry the same mixture.
\* (And the types.)
PolicyIsHead ==
    /\ BackupTypeOK
    /\ rs.at = Idle /\ ~mixed => (Policy \in DOMAIN ws => ws[Policy] = LastChange(Rows(ws)))
=============================================================================
