----------------------------- MODULE SealedVault -----------------------------
(***************************************************************************)
(* vault/vault.py: keys.local.json in plain text or sealed under a          *)
(* passphrase, and processes that each keep the keys, whether they are      *)
(* locked, and a passphrase in memory from one call to the next.            *)
(*                                                                          *)
(* A sealed file opens with its passphrase only (AES-GCM).  A save is a     *)
(* temporary file and a rename and either replaces the file or raises and   *)
(* leaves it; what a kill or a power loss does to one is in VaultFile.      *)
(***************************************************************************)
EXTENDS Functions

CONSTANTS
    Procs,         \* processes that use the vault
    Names,         \* of keys
    Secrets,       \* their values
    Passphrases,
    None

ASSUME SealedAssumption == None \notin Passphrases

VARIABLES
    file,       \* keys.local.json
    keys,       \* _unlocked_keys of each process
    locked,     \* _is_locked
    current,    \* _current_passphrase
    saving,     \* the file a process is about to rename into place, or NoSave
    learned,    \* the secrets it could know by what it was given (history)
    behind      \* processes whose keys are not those of the file: they have not
                \* loaded or saved it, or a write raised (history)

memory == <<keys, locked, current>>
history == <<learned, behind>>
vars == <<file, memory, saving, history>>

KeySets == UNION { [ns -> Secrets] : ns \in SUBSET Names }

NoKeys == [n \in {} |-> None]

NoFile == [kind |-> "none", under |-> None, keys |-> NoKeys]
Damaged == [kind |-> "damaged", under |-> None, keys |-> NoKeys]
Plain(ks) == [kind |-> "plain", under |-> None, keys |-> ks]
Sealed(pw, ks) == [kind |-> "sealed", under |-> pw, keys |-> ks]

Files ==
    {NoFile, Damaged} \cup {Plain(ks) : ks \in KeySets}
    \cup {Sealed(pw, ks) : pw \in Passphrases, ks \in KeySets}

NoSave == [call |-> "none", name |-> None, file |-> NoFile, behind |-> FALSE]

Init ==
    /\ file \in Files
    /\ keys = [p \in Procs |-> NoKeys]
    /\ locked = [p \in Procs |-> TRUE]
    /\ current = [p \in Procs |-> None]
    /\ saving = [p \in Procs |-> NoSave]
    /\ learned = [p \in Procs |-> {}]
    /\ behind = IF file = NoFile THEN {} ELSE Procs

\* is_locked looks at the file each time, and takes one it cannot read for
\* one that is not sealed.
IsLocked(p) == file.kind = "sealed" /\ locked[p]

Idle(p) == saving[p] = NoSave

\* What pw shows of the file to whoever is given it.
Shows(pw) ==
    IF file.kind = "plain" \/ (file.kind = "sealed" /\ file.under = pw)
    THEN Range(file.keys) ELSE {}

Gives(p, pw) ==
    learned' = [learned EXCEPT ![p] = @ \cup Shows(pw)]

----------------------------------------------------------------------------

Opens(p, ks, pw) ==
    /\ keys' = [keys EXCEPT ![p] = ks]
    /\ locked' = [locked EXCEPT ![p] = FALSE]
    /\ current' = [current EXCEPT ![p] = pw]
    /\ behind' = behind \ {p}

\* A sealed file needs its passphrase.  Without a file the passphrase of an
\* earlier unlock stays.
Unlock_AnyPassphrase(p, pw) ==
    /\ Idle(p)
    /\ Gives(p, pw)
    /\ \/ file.kind = "none" /\ Opens(p, NoKeys, current[p])
       \/ file.kind = "plain" /\ Opens(p, file.keys, None)
       \/ file.kind = "sealed" /\ Opens(p, file.keys, pw)
       \/ /\ file.kind = "damaged"
          /\ UNCHANGED <<memory, behind>>
    /\ UNCHANGED <<file, saving>>

Unlock_ForgetsPassphrase(p, pw) ==
    /\ Idle(p)
    /\ Gives(p, pw)
    /\ \/ file.kind = "none" /\ Opens(p, NoKeys, current[p])
       \/ file.kind = "plain" /\ Opens(p, file.keys, None)
       \/ file.kind = "sealed" /\ file.under = pw /\ Opens(p, file.keys, None)
       \/ /\ file.kind = "damaged" \/ (file.kind = "sealed" /\ file.under # pw)
          /\ UNCHANGED <<memory, behind>>
    /\ UNCHANGED <<file, saving>>

Unlock_KeepsKeys(p, pw) ==
    /\ Idle(p)
    /\ Gives(p, pw)
    /\ \/ file.kind = "none" /\ Opens(p, NoKeys, current[p])
       \/ file.kind = "plain" /\ Opens(p, keys[p], None)
       \/ file.kind = "sealed" /\ file.under = pw /\ Opens(p, file.keys, pw)
       \/ /\ file.kind = "damaged" \/ (file.kind = "sealed" /\ file.under # pw)
          /\ UNCHANGED <<memory, behind>>
    /\ UNCHANGED <<file, saving>>

Unlock(p, pw) ==
    /\ Idle(p)
    /\ Gives(p, pw)
    /\ \/ file.kind = "none" /\ Opens(p, NoKeys, current[p])
       \/ file.kind = "plain" /\ Opens(p, file.keys, None)
       \/ file.kind = "sealed" /\ file.under = pw /\ Opens(p, file.keys, pw)
       \/ /\ file.kind = "damaged" \/ (file.kind = "sealed" /\ file.under # pw)
          /\ UNCHANGED <<memory, behind>>
    /\ UNCHANGED <<file, saving>>

Saves(p, call, name, f) ==
    saving' = [saving EXCEPT ![p] =
                 [call |-> call, name |-> name, file |-> f, behind |-> p \in behind]]

Rotate(p, pw) ==
    /\ Idle(p)
    /\ ~IsLocked(p)
    /\ Saves(p, "rotate", None, Sealed(pw, keys[p]))
    /\ UNCHANGED <<file, memory, learned, behind>>

With(ks, name, secret) ==
    [n \in DOMAIN ks \cup {name} |-> IF n = name THEN secret ELSE ks[n]]

\* The key goes into memory first; with a passphrase the file is sealed again,
\* without one it is written in plain text.
WriteKey(p, name, secret) ==
    /\ Idle(p)
    /\ ~IsLocked(p)
    /\ LET ks == With(keys[p], name, secret)
       IN  /\ keys' = [keys EXCEPT ![p] = ks]
           /\ Saves(p, "write", name,
                    IF current[p] = None THEN Plain(ks) ELSE Sealed(current[p], ks))
    /\ learned' = [learned EXCEPT ![p] = @ \cup {secret}]
    /\ UNCHANGED <<file, locked, current, behind>>

\* os.replace; a sealing process remembers the passphrase then.
Replace(p) ==
    /\ ~Idle(p)
    /\ file' = saving[p].file
    /\ IF file'.kind = "sealed"
       THEN /\ locked' = [locked EXCEPT ![p] = FALSE]
            /\ current' = [current EXCEPT ![p] = file'.under]
       ELSE UNCHANGED <<locked, current>>
    /\ behind' = Procs \ {p}
    /\ saving' = [saving EXCEPT ![p] = NoSave]
    /\ UNCHANGED <<keys, learned>>

\* The save raises; a key that was to be written stays in memory.
Raises(p) ==
    /\ ~Idle(p)
    /\ saving' = [saving EXCEPT ![p] = NoSave]
    /\ behind' = IF saving[p].call = "write" THEN behind \cup {p} ELSE behind
    /\ UNCHANGED <<file, memory, learned>>

\* A new process of that name, the old one killed or done.
Restart(p) ==
    /\ keys' = [keys EXCEPT ![p] = NoKeys]
    /\ locked' = [locked EXCEPT ![p] = TRUE]
    /\ current' = [current EXCEPT ![p] = None]
    /\ saving' = [saving EXCEPT ![p] = NoSave]
    /\ learned' = [learned EXCEPT ![p] = {}]
    /\ behind' = IF file = NoFile THEN behind \ {p} ELSE behind \cup {p}
    /\ UNCHANGED file

Step(p) ==
    \/ \E pw \in Passphrases : Unlock(p, pw) \/ Rotate(p, pw)
    \/ \E name \in Names, secret \in Secrets : WriteKey(p, name, secret)
    \/ Replace(p) \/ Raises(p) \/ Restart(p)

Next == \E p \in Procs : Step(p)

Spec == Init /\ [][Next]_vars

----------------------------------------------------------------------------
(* Properties.                                                              *)

TypeOK ==
    /\ file \in Files
    /\ keys \in [Procs -> KeySets]
    /\ locked \in [Procs -> BOOLEAN]
    /\ current \in [Procs -> Passphrases \cup {None}]
    /\ saving \in [Procs -> [ call : {"none", "rotate", "write"}, name : Names \cup {None},
                              file : Files, behind : BOOLEAN ]]
    /\ learned \in [Procs -> SUBSET Secrets]
    /\ behind \subseteq Procs

\* "Fail CLOSED on wrong passphrase" (unlock): what read_key can return to a
\* process it could know from a plain file, from a file whose passphrase it
\* was given, or because it wrote it, across wrong tries, rotations by others
\* and restarts.
WrongPassphraseShowsNothing == \A p \in Procs : Range(keys[p]) \subseteq learned[p]

\* The process that replaces the file in this step, if its memory was that of
\* the file it replaces.
UpToDate(p) == saving[p] # NoSave /\ ~saving[p].behind /\ p \notin behind
Replaces(p) == saving[p] # NoSave /\ saving'[p] = NoSave /\ file' = saving[p].file

\* "Zero plaintext key ever written to disk" (INTERFACE.md), once the vault is
\* sealed: a sealed file is replaced by a plain one only by a process that
\* has not seen it.
SealedStaysSealed ==
    [][\A p \in Procs :
         file.kind = "sealed" /\ file' # file /\ Replaces(p) /\ UpToDate(p)
           => file'.kind = "sealed"]_vars

\* "Re-encrypt at rest under a new passphrase" (rotate): a write by a process
\* that is up to date keeps the passphrase and every other key; a rotation
\* keeps every key.
KeysKept ==
    [][\A p \in Procs :
         file' # file /\ Replaces(p) /\ UpToDate(p) =>
           /\ \A n \in DOMAIN file.keys \ {saving[p].name} :
                 n \in DOMAIN file'.keys /\ file'.keys[n] = file.keys[n]
           /\ saving[p].call = "write" /\ file.kind = "sealed" => file'.under = file.under]_vars

\* The same for whoever replaces the file.
RotateKeepsKeys ==
    [][\A p \in Procs :
         saving[p].call = "rotate" /\ file' # file /\ Replaces(p) => file'.keys = file.keys]_vars
=============================================================================
