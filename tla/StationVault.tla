----------------------------- MODULE StationVault -----------------------------
(***************************************************************************)
(* The station's two stores of credentials, keys.local.json and             *)
(* credentials.local.json in ~/.railcall/station/.railcall_workspace, and   *)
(* the commands that write them: `railcall set', `connect salesforce' with  *)
(* its OAuth wait (OAuthCapture) and `set-credential'.  (The signing seed   *)
(* is in another keys.local.json, ~/.railcall's: VaultFile.)                *)
(*                                                                          *)
(* Each loads a whole store, changes one entry and saves the whole.  A save *)
(* is one step here: the temporary name most of them share is that of       *)
(* FixedTmpFile.  An entry's value is the number of the save that wrote it. *)
(***************************************************************************)
EXTENDS OAuthCapture

CONSTANTS
    None,
    Damaged,     \* a store that does not parse
    Ids,         \* of named credentials
    MaxSaves     \* bound on the saves

ASSUME StationAssumption == MaxSaves \in Nat

\* The provider `set-credential' writes for, and another one.
Providers == {"mine", "theirs"}

Writers == {"set", "connect", "credential"}

\* An entry of each writer of keys.local.json, and one of another provider.
Entries == {"settings", "salesforce", "discord"}

EntryOf == [w \in {"set", "connect"} |-> IF w = "set" THEN "settings" ELSE "salesforce"]

\* A store with the value of one entry replaced.
With(store, e, value) ==
    [x \in DOMAIN store \cup {e} |-> IF x = e THEN value ELSE store[x]]

VARIABLES
    vault,      \* keys.local.json: its entries, or Damaged
    named,      \* credentials.local.json: per provider, or Damaged
    copy,       \* what a command has loaded and not yet saved, or None
    saves       \* so far

stores == <<vault, named, copy, saves>>
vars == <<wizard, capture, stores>>

Empty == [x \in {} |-> 0]

NamedEntries == [creds : UNION {[ids -> 0 .. MaxSaves] : ids \in SUBSET Ids},
                 default : Ids \cup {None}]

\* A default may be missing, or name a credential that is gone.
SomeNamed ==
    { [creds |-> Empty, default |-> None] }
    \cup { [creds |-> With(Empty, i, 0), default |-> j] : i \in Ids, j \in Ids \cup {None} }

Init ==
    /\ CaptureInit
    /\ wizard = "idle"
    /\ vault \in {Damaged, Empty, [e \in Entries |-> 0]}
    /\ named \in {Damaged, Empty} \cup
          { [p \in Providers |-> IF p = "mine" THEN n
                                 ELSE [creds |-> With(Empty, i, 0), default |-> i]] :
              i \in Ids, n \in SomeNamed }
    /\ copy = [w \in Writers |-> None]
    /\ saves = 0

Store(w) == IF w = "credential" THEN named ELSE vault

\* _vault_read_all and _set_named_credential take a store they cannot parse
\* for an empty one.
IsLenient(w) == w \in {"connect", "credential"}

Ready(w) ==
    /\ copy[w] = None
    /\ w = "connect" => wizard = "saving"

Load(w) ==
    /\ Ready(w)
    /\ saves < MaxSaves
    /\ Store(w) = Damaged => IsLenient(w)
    /\ copy' = [copy EXCEPT ![w] = IF Store(w) = Damaged THEN Empty ELSE Store(w)]
    /\ UNCHANGED <<wizard, capture, vault, named, saves>>

\* json.load raises, and the command says so.
LoadRaises(w) ==
    /\ Ready(w)
    /\ Store(w) = Damaged
    /\ ~IsLenient(w)
    /\ UNCHANGED vars

\* `railcall set ollama-host', `discord-webhook', `anthropic-key' and
\* `anthropic-model' call _vault_write with three arguments, and the definition
\* in force takes two: "Could not save".
SetField ==
    /\ copy["set"] = None
    /\ UNCHANGED vars

Saved(w) ==
    /\ saves' = saves + 1
    /\ copy' = [copy EXCEPT ![w] = None]

\* _vault_write(provider, value), and cmd_set's own writes.
Save(w) ==
    /\ w # "credential"
    /\ copy[w] # None
    /\ saves < MaxSaves
    /\ vault' = With(copy[w], EntryOf[w], saves + 1)
    /\ Saved(w)
    /\ IF w = "connect" THEN Goto("saving", "idle") ELSE UNCHANGED wizard
    /\ UNCHANGED <<capture, named>>

SaveCredential_KeepsDefault ==
    /\ copy["credential"] # None
    /\ saves < MaxSaves
    /\ LET all == copy["credential"]
           entry == IF "mine" \in DOMAIN all THEN all["mine"]
                    ELSE [creds |-> Empty, default |-> None]
       IN  \E id \in IF entry.default \in DOMAIN entry.creds THEN {entry.default} ELSE Ids :
              named' = With(all, "mine",
                            [creds |-> With(entry.creds, id, saves + 1),
                             default |-> IF entry.default = None THEN id ELSE entry.default])
    /\ Saved("credential")
    /\ UNCHANGED <<wizard, capture, vault>>

\* _set_named_credential: the provider's default credential if it is there,
\* else a new one under four random digits, which becomes the default.
SaveCredential ==
    /\ copy["credential"] # None
    /\ saves < MaxSaves
    /\ LET all == copy["credential"]
           entry == IF "mine" \in DOMAIN all THEN all["mine"]
                    ELSE [creds |-> Empty, default |-> None]
       IN  \E id \in IF entry.default \in DOMAIN entry.creds THEN {entry.default} ELSE Ids :
              named' = With(all, "mine", [creds |-> With(entry.creds, id, saves + 1),
                                          default |-> id])
    /\ Saved("credential")
    /\ UNCHANGED <<wizard, capture, vault>>

\* The save raises, or the process is killed: the store stays.
SaveRaises(w) ==
    /\ copy[w] # None
    /\ copy' = [copy EXCEPT ![w] = None]
    /\ IF w = "connect" THEN Goto("saving", "idle") ELSE UNCHANGED wizard
    /\ UNCHANGED <<capture, vault, named, saves>>

----------------------------------------------------------------------------
(* The wizard: keys typed in, the wait, the exchange of the code.           *)

Ask ==
    /\ Goto("idle", "asking")
    /\ UNCHANGED <<capture, stores>>

Abort ==
    /\ Goto("asking", "idle")
    /\ UNCHANGED <<capture, stores>>

\* An HTTP or network error, an answer that is no JSON or lacks a field.
Exchange ==
    /\ Forget
    /\ \/ Goto("exchanging", "saving")
       \/ Goto("exchanging", "idle")
    /\ UNCHANGED stores

\* "OAuth failed".
Report ==
    /\ Forget
    /\ Goto("failed", "idle")
    /\ UNCHANGED stores

Next ==
    \/ CaptureNext /\ UNCHANGED stores
    \/ Ask \/ Abort \/ Exchange \/ Report
    \/ SetField \/ SaveCredential
    \/ \E w \in Writers : Load(w) \/ LoadRaises(w) \/ Save(w) \/ SaveRaises(w)

Spec == Init /\ [][Next]_vars

\* Nothing is assumed of those who connect.
FairSpec == Spec /\ CaptureFairness

----------------------------------------------------------------------------
(* Properties.                                                              *)

Places ==
    {"idle", "asking", "waiting", "stopping", "exchanging", "failed", "saving"}

Vaults == UNION { [es -> 0 .. MaxSaves] : es \in SUBSET Entries }

TypeOK ==
    /\ CaptureTypeOK
    /\ wizard \in Places
    /\ vault = Damaged \/ vault \in Vaults
    /\ named = Damaged \/ \A p \in DOMAIN named : p \in Providers /\ named[p] \in NamedEntries
    /\ DOMAIN copy = Writers
    /\ saves \in 0 .. MaxSaves

Saves(w) == copy[w] # None /\ copy'[w] = None /\ saves' > saves

\* "What module handlers read via vault_get(<provider>)" (cmd_set_credential):
\* the credential just saved is the one handlers get, even when the default was
\* missing or named one that is gone.
SavedIsServed ==
    [][Saves("credential") =>
         LET e == named'["mine"]
         IN  e.default \in DOMAIN e.creds /\ e.creds[e.default] = saves']_vars

(* A claim the code does not keep.                                          *)

\* "Never touches the other providers' entries - a read/merge/write around this
\* single key" (_vault_write): a save between the read and the write is undone,
\* and a store that does not parse is taken for an empty one (Load, Save).
OthersAlwaysKept ==
    [][\A w \in {"set", "connect"} :
         Saves(w) => /\ vault # Damaged
                     /\ \A e \in DOMAIN vault \ {EntryOf[w]} :
                           e \in DOMAIN vault' /\ vault'[e] = vault[e]]_vars
=============================================================================
