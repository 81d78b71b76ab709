---------------------------- MODULE KeyRotation ----------------------------
(***************************************************************************)
(* `railcall rotate-key' (cmd_rotate_key), while builds and audits go on    *)
(* signing receipts with whatever seed the vault holds.  A rotation touches *)
(* three files in turn: it archives the published key document under the    *)
(* second of the clock, publishes the new one, and stores the new seed.     *)
(*                                                                          *)
(* A seed and its public key are one number here, drawn in order.  The      *)
(* vault write is atomic (VaultFile); so is the published document's.       *)
(***************************************************************************)
EXTENDS Naturals

CONSTANTS
    None,         \* no seed, no document
    Garbled,      \* a published document that cannot be read
    Partial,      \* an archive file opened for writing, not yet written
    FirstSeed,    \* the seed in the vault at the start, or None
    FirstDoc,     \* the key document published at the start
    Spaced,       \* whether the user leaves a second between two rotations
    MaxKeys,      \* bound on the keys drawn
    MaxSecond     \* bound on the clock

Keys == 1 .. MaxKeys

Seconds == 0 .. MaxSecond

ASSUME RotationAssumption ==
    /\ MaxKeys \in Nat /\ MaxSecond \in Nat
    /\ {None, Garbled, Partial} \cap Nat = {}
    /\ None # Garbled
    /\ FirstSeed \in Keys \cup {None}
    /\ FirstDoc \in {FirstSeed, None, Garbled}
    /\ Spaced \in BOOLEAN

VARIABLES
    seed,         \* _railcall_signing_seed in keys.local.json
    published,    \* signing_pubkey.json
    archive,      \* signing_pubkey.prev-<second>.json, for each second
    signed,       \* the keys some receipt was signed with (history)
    drawn,        \* the last key drawn
    second,       \* the wall clock, in the seconds of a file name
    orphaned,     \* whether the last rotation to publish a key left the old
                  \* seed in the vault (history)
    pc,           \* where the rotation is
    oldDoc,       \* cmd_rotate_key's old_doc, new_seed and stamp
    newSeed,
    stamp

locals == <<oldDoc, newSeed, stamp>>
vars == <<seed, published, archive, signed, drawn, second, orphaned, pc, locals>>

Init ==
    /\ seed = FirstSeed
    /\ published = FirstDoc
    /\ archive = [s \in Seconds |-> None]
    /\ signed = {}
    /\ drawn = IF FirstSeed = None THEN 0 ELSE FirstSeed
    /\ second = 0
    /\ orphaned = FALSE
    /\ pc = "idle"
    /\ oldDoc = None
    /\ newSeed = None
    /\ stamp = 0

----------------------------------------------------------------------------
(* The rotation.                                                            *)

Continues(place) == pc' = place /\ UNCHANGED orphaned

\* A step that raises ends the command.
Fails == pc' = "idle" /\ orphaned' = (orphaned \/ pc = "persist")

\* An unreadable document counts as none.
ReadDoc ==
    /\ pc = "idle"
    /\ Spaced => archive[second] = None
    /\ oldDoc' = IF published = Garbled THEN None ELSE published
    /\ pc' = "mint"
    /\ UNCHANGED <<seed, published, archive, signed, drawn, second, orphaned, newSeed, stamp>>

\* Fresh random bytes, proved usable; a failure ends the command here.
Mint ==
    /\ pc = "mint"
    /\ \/ /\ drawn < MaxKeys
          /\ drawn' = drawn + 1
          /\ newSeed' = drawn + 1
          /\ stamp' = second
          /\ pc' = IF oldDoc = None THEN "publish" ELSE "open_archive"
          /\ UNCHANGED orphaned
       \/ /\ Fails
          /\ UNCHANGED <<drawn, newSeed, stamp>>
    /\ UNCHANGED <<seed, published, archive, signed, second, oldDoc>>

OpenArchive ==
    /\ pc = "open_archive"
    /\ \/ /\ archive' = [archive EXCEPT ![stamp] = Partial]
          /\ Continues("fill_archive")
       \/ Fails /\ UNCHANGED archive
    /\ UNCHANGED <<seed, published, signed, drawn, second, locals>>

\* "Refusing to rotate" when it fails.
FillArchive_GoesOn ==
    /\ pc = "fill_archive"
    /\ \/ archive' = [archive EXCEPT ![stamp] = oldDoc]
       \/ UNCHANGED archive
    /\ Continues("publish")
    /\ UNCHANGED <<seed, published, signed, drawn, second, locals>>

FillArchive ==
    /\ pc = "fill_archive"
    /\ \/ archive' = [archive EXCEPT ![stamp] = oldDoc] /\ Continues("publish")
       \/ Fails /\ UNCHANGED archive
    /\ UNCHANGED <<seed, published, signed, drawn, second, locals>>

\* _write_pubkey_doc: a temporary file and os.replace.
Publish ==
    /\ pc = "publish"
    /\ \/ published' = newSeed /\ Continues("persist")
       \/ Fails /\ UNCHANGED published
    /\ UNCHANGED <<seed, archive, signed, drawn, second, locals>>

\* _persist_signing_seed; a vault that does not parse raises, and so may the save.
\* One that raises after its rename (the chmod) ends with "Rotation failed" and
\* leaves what one that succeeds leaves: it is the first disjunct, too.
Persist_Forgotten ==
    /\ pc = "persist"
    /\ pc' = "idle"
    /\ orphaned' = FALSE
    /\ UNCHANGED <<seed, published, archive, signed, drawn, second, locals>>

Persist ==
    /\ pc = "persist"
    /\ \/ seed' = newSeed /\ pc' = "idle" /\ orphaned' = FALSE
       \/ Fails /\ UNCHANGED seed
    /\ UNCHANGED <<published, archive, signed, drawn, second, locals>>

----------------------------------------------------------------------------
(* Everything else.                                                         *)

\* Another command signs a receipt; the first one ever draws the seed.
Sign ==
    /\ \/ seed # None /\ UNCHANGED <<seed, drawn>>
       \/ seed = None /\ drawn < MaxKeys /\ seed' = drawn + 1 /\ drawn' = drawn + 1
    /\ signed' = signed \cup {seed'}
    /\ UNCHANGED <<published, archive, second, orphaned, pc, locals>>

Kill ==
    /\ pc # "idle"
    /\ Fails
    /\ UNCHANGED <<seed, published, archive, signed, drawn, second, locals>>

Tick ==
    /\ second < MaxSecond
    /\ second' = second + 1
    /\ UNCHANGED <<seed, published, archive, signed, drawn, orphaned, pc, locals>>

----------------------------------------------------------------------------

Next ==
    \/ ReadDoc \/ Mint \/ OpenArchive \/ FillArchive \/ Publish \/ Persist
    \/ Sign \/ Kill \/ Tick

Spec == Init /\ [][Next]_vars

----------------------------------------------------------------------------
(* Properties.                                                              *)

Steps == {"idle", "mint", "open_archive", "fill_archive", "publish", "persist"}

TypeOK ==
    /\ seed \in Keys \cup {None}
    /\ published \in Keys \cup {None, Garbled}
    /\ archive \in [Seconds -> Keys \cup {None, Partial}]
    /\ signed \subseteq Keys
    /\ drawn \in 0 .. MaxKeys
    /\ second \in Seconds
    /\ orphaned \in BOOLEAN
    /\ pc \in Steps
    /\ oldDoc \in Keys \cup {None}
    /\ newSeed \in Keys \cup {None}
    /\ stamp \in Seconds

Archived(k) == \E s \in Seconds : archive[s] = k

\* "Receipts signed BEFORE rotation still verify against the archived key"
\* (cmd_rotate_key): the key of every receipt of this install is the vault's,
\* the published one, or in an archived document, through rotations that fail
\* or are killed at any step.
OldReceiptsCovered ==
    \A k \in signed : k = published \/ Archived(k)

\* "Archive the outgoing PUBLIC doc FIRST" (cmd_rotate_key): a key document is
\* replaced only when it is, complete, in the archive.
ArchivedBeforeRetired ==
    [][published' # published /\ published \in Keys => Archived(published)]_vars

\* "Never publish a public key no seed can sign for" (cmd_rotate_key): between
\* rotations the published key is the one the vault signs with, unless a
\* rotation stopped between its last two writes and none has succeeded since.
PublishedKeySigns ==
    ~orphaned /\ pc = "idle" /\ published \in Keys => published = seed

\* The same without the exception.
NeverOrphaned ==
    pc = "idle" /\ published \in Keys => published = seed
=============================================================================
