# RailCall CLI: TLA+ models and proofs

RailCall is a command line tool and a loopback daemon that run small "governed"
jobs (compile a CSV against a contract, audit a table, ask a local model) and
leave a signed receipt for each; around that it keeps keys, credentials, backups, a
marketplace session and installed modules.  What it promises is about files and
keys: a denied job leaves nothing behind, a receipt is never lost or half written
and verifies after a rotation, a session is not thrown away, another provider's
credential stays.  These modules model that, check it with TLC on small
instances and prove much of it with TLAPS for every instance.

Contents: [inventory](#inventory), [modules](#modules), [runs](#runs),
[fairness](#fairness), [findings](#findings), [proofs](#proofs),
[not modelled](#not-modelled), [plan](#plan).

## Inventory

Processes: every CLI command is a process of its own; the companion daemon is
one process that answers each request in a thread.  They share no memory, only
files below the install root and `~/.railcall`, a gateway that keeps prepaid
balances, a marketplace, and, for a seat of an organisation, a share or a bucket.
No file is locked anywhere.

| Component | State | Operations | Hard parts | What makes it correct |
|---|---|---|---|---|
| `vault_io.py` | one JSON file per path | `load`, `save`, `update` | kills and power loss between its system calls, two writers | a reader sees old or new; a damaged file is not overwritten; an acknowledged key stays |
| token file (`read_token`, `write_token`) | `token.json`, `token.json.tmp` | read, atomic replace | one temporary name for all processes | the token stays whole until two processes write it at once |
| policy engine (`governance/`) | rules, fallback, hash of `governance.yml` | load, evaluate, governance block | first match wins, fail closed, dry-run demands | a flow runs exactly when the file permits it |
| companion daemon | the engine loaded at start | POST `/compile`, `/interpret`; GET `/governed`, ... | threads; the policy file and the vault change under it | the hash in a receipt is of the policy that decided; the approval is by the key the vault holds then |
| build, interpret, audit | token, balance, receipts, archives, audit log | gate, meter, sign, save, archive, log | best-effort steps, a balance read early and written late, names with a second's resolution | see `GovernedRun` |
| signing key and `rotate-key` | seed in the vault, published key, archived keys | mint on first use, sign, rotate | three files changed in turn | old receipts' keys remain available; the published key signs |
| receipt verification | none | `verify`, standalone verifier, identity, team | legacy and embedded keys, hashes that are not computed again, quorums | verdicts agree with signatures and with each other |
| backup, restore | archive, policy chain | `backup`, `backup-verify`, `restore` | files change while archived; partial restore | what verifies is a snapshot; a newer chain is kept |
| marketplace session | access and refresh token | authorised request, refresh, login, logout | rotating refresh tokens, lost answers, two commands at once | a good session is not cleared; nothing is sent twice |
| modules | publisher's and station's directories, listing, `.venv` | sign, publish, accept-transfer, install, setup | edits and signings between the reads of a publish, partial directories, a stashed `.venv` | what is listed is signed; what lands is what was meant |
| station vault, named credentials | two JSON stores in the station's workspace | `set`, `connect`, `set-credential` | read-merge-write, two functions of one name | the saved credential is the default |
| encrypted vault (`vault/vault.py`) | file and unlocked keys in memory | unlock, lock state, read, write, rotate | order of calls of several processes on any file | fails closed; keys are not dropped |
| vault drivers | organisation's configuration and its cache | load, validate, mirror | best-effort mirroring, stale caches, unmounted shares | acknowledged receipts stay; a known vault is used |
| OAuth capture | code, error, event | one-shot loopback listener | stray requests, a second code, silent peers, timeout | a code whose page was shown is used; the wait ends |
| account commands | token, seats, licences | login, activate, claim, team | remote failures, late writes | a newer key is not reverted |
| MCP configuration | the clients' JSON files | merge, doctor | files owned by other programs | other entries stay |
| studio, demo, workflow, cost, models, update notice | a cache file | start a program, print | none of its own | |
| Discord bot, installers, scripts | none | | | |

The last column and the hazards in `PROJECT.json` are what the properties come
from.

How they interact: a command asks the policy engine first; the engine's decision
may require an approval, which reads (and on first use creates) the signing seed
in the vault through `vault_io`; the daemon layer signs the receipt with the same
seed, stores it under a fixed name and archives a copy; the command then
counts the run in `token.json`, books it at the gateway, reads the fixed-name receipt
back, keeps a history copy, appends a line to the audit log and mirrors both to
the organisation's vault.  `rotate-key` replaces seed and published key meanwhile, and
`verify` judges receipts by the key documents it leaves.  `connect` starts the
OAuth listener and saves what it is given in the store of the station's workspace
(`~/.railcall/station/.railcall_workspace/keys.local.json`, `_vault_path`), which is not
the vault with the signing seed (`~/.railcall/keys.local.json`, `_vault_file`).  Publishing
and installing modules send their requests under the marketplace session.

## Modules

| Module | Models | State | Actions |
|---|---|---|---|
| `AtomicRegister` | what `vault_io` promises, as an abstract specification | value, stable value | `Put`, `Flush`, `PowerLoss` |
| `VaultFile` | `vault_io.py` line by line | live and durable file, each process's step, what it read, its temporary file | `Call`, `Load`, `LoadRaises`, `Mkstemp`, `Write`, `Fsync`, `Replace`, `FsyncDir`, `Return`, `Raise`; environment `Kill`, `Writeback`, `PowerLoss` |
| `FixedTmpFile` | a write through `<name>.tmp`: `write_token`, `_write_pubkey_doc`, `LocalVaultDriver` | inodes, the names and temporary names, open files | `Call`, `Open`, `Write`, `Chmod`, `Replace`, `Again`; `Kill` |
| `PolicyEngine` | `policy_engine.py`, `policy_schema.py`, `receipt_v2.py` as operators | none | |
| `PolicyGate` | the daemon's gate and `/governed` while the policy file and the vault change | file, engine, document it came from, whether it can sign, the vault's seed, last answer | `Post`, `PostRefused`, `GetGoverned`, `Restart`; `EditFile`, `VaultChanges` |
| `GovernedRun` | a run of `build`, `interpret`, `audit`, POST `/compile` or POST `/interpret`, from the gate to the audit log | each run's place and locals, vault seed, receipts, archives, log, token and its temporary file, balance, clock | 25 steps of a run, `Kill`, `Tick` |
| `KeyRotation` | `cmd_rotate_key` beside other commands that sign | seed, published and archived documents, keys used | `ReadDoc`, `Mint`, `OpenArchive`, `FillArchive`, `Publish`, `Persist`, `Sign`; `Kill`, `Tick` |
| `ReceiptVerify` | `railcall verify`, the standalone verifier, identity and team verdicts as operators | none | |
| `RotationAudit` | `KeyRotation` with `ReceiptVerify`: what is said of every receipt under every key document of the install | that of `KeyRotation` | those of `KeyRotation` |
| `MarketSession` | the session file, authorised requests with refresh and retry, login, logout, and the commands as chains of requests | session, the server's live and accepted tokens, each command's place and what it loaded | `Start`, `Send`, `RefreshLoad`, `Trade`, `Save`, `Resend`, `Clear`, `Conclude`, `Login`, `LoginSave`, `LogoutLoad`, `LogoutPost`, `LogoutClear`, `ClaimByCode`; `Expire` |
| `ModuleBundle` | what a module directory is, what a signature over it covers, what a listing keeps of it | none | |
| `ModuleInstall` | `module sign`, `publish`, `accept-transfer`, `install`, `--from-path`, `module setup` on three directories | directories, listing, one signing, one publisher and one installer command, side by side | a step for each read, walk, open and write; `Edit`, `InstallerStops`, `PublisherStops`, `SignerStops` |
| `BackupRestore` | `backup`, `backup-verify`, `restore` beside policy changes | workspace, archives, the two commands | the reads, hashes and writes of either; `SetPolicy`, kills, `MachineDies`, `ArchiveRots` |
| `SealedVault` | `vault/vault.py` used by several processes | file; keys, lock and passphrase in each memory; a save under way | `Unlock`, `Rotate`, `WriteKey`, `Replace`, `Raises`, `Restart` |
| `OAuthCapture` | `_oauth_capture_code` and its listener thread | wizard's place, wish to stop, connection being served, holder, the code it went on with, the pages shown | `Listen`, `Connect`, `Handle`, `Wake`, `Timeout`, `Shutdown`, `Closed`; `HangsUp` |
| `StationVault` | the two credential stores of the station's workspace and the three kinds of writer, with the wizard around `OAuthCapture` | stores, each writer's copy | `Load`, `LoadRaises`, `Save`, `SaveRaises`, `SaveCredential`, `SetField`, `Ask`, `Abort`, `Exchange`, `Report` |
| `OrgVault` | the mirror of `_archive_and_log` over the configuration cache, extending `FixedTmpFile` | configuration, cache, mount, bucket, each run | `ReadCache`, `Ask`, `OpenCache`, `FillCache`, `NoVault`, `Put`, `Probe`, `ProbeBelow`, `NotMounted`, `MirrorWrite`, `MirrorReplace`, `WriteBelow`, `Raises`, `AppendLine`; `Change`, `Tick`, kills |
| `MCPolicyGate`, `MCGovernedRun`, `MCMarketSession`, `MCSealedVault`, `MCOrgVault` | small policies, requests, runs, configurations and the symmetries for TLC | | |
| `*_proofs` | theorems, see below | | |

Composition.  `GovernedRun` and `PolicyGate` extend `PolicyEngine`.  `VaultFile` instantiates
`AtomicRegister` and is shown to implement it; where another module takes a
`vault_io.save` as one step (`GovernedRun`, `KeyRotation`, `PolicyGate`) that is
why it may, with one addition: a `save` that raises may have replaced the file or not.
`GovernedRun` takes `write_token` step by step, because its temporary name is shared.
`RotationAudit` extends `KeyRotation` and instantiates `ReceiptVerify`;
`StationVault` extends `OAuthCapture`; `OrgVault` extends `FixedTmpFile` and takes its
steps as the writes to the share; `ModuleInstall` extends `ModuleBundle`.

Abstractions worth knowing:

* A governance file is the document it parses to; its sha256 is that document.
* A seed and its public key are one number, a signature the key with what it is over,
  a hash the thing hashed.  Sealed bytes open with their passphrase only.
* A file's content is what the properties tell apart: a set of keys in `VaultFile`,
  whose document it is in `FixedTmpFile`, the number of a save in `StationVault`, the
  rows of a chain in `BackupRestore`.
* The server of `MarketSession` numbers the token pairs it issues; an access token that was
  just issued outlives the request that follows.
* `accept-transfer` signs in a temporary directory no other command knows of, so its signing is
  one step; its publish is read by read.
* A process is killed between any two steps; a failing system or network call is a
  disjunct of the step it belongs to.
* Variables marked "(history)" are not in the code; they record what a property
  needs to know of the past.

## Runs

| Run | Instance | Shows |
|---|---|---|
| `vault_many` | 2 writers, 2 keys, no directory sync | `IsRegister` (refinement), `DamagedVaultKept`, `StrayIsExplained` |
| `vault_one` | 1 writer, 3 keys, directory sync | `AckedKeysPresent`, `UpdateIsAtomic` (refinement of the stronger abstract specification) |
| `policy_gate` | the packaged policy, a malformed file, one with invalid values and files of no, one or two different rules out of four overlapping ones; 18 kinds of request; 2 seeds, no seed, a damaged vault, no signer | `ServedIffPermitted`, `HashNamesDecidingPolicy`, `IrreversibleIsApproved` |
| `governed_faults` | 2 builds, one trial run, fresh install, faults, one after the other | `DeniedLeavesNothing`, `RunsAreCounted`, `OneIdentity`, `LoggedProofKept`, `TokenStaysWhole`, `NoProofDestroyed` |
| `governed_fair` | interpret, audit and a daemon request at once, balance 1, no faults, fair | `OkRunIsLogged` (liveness), `ChargedForReceipt`, `LineIsOfItsRun` |
| `rotation` | up to 4 rotations a second apart, faults; 4 receipt schemas, altered and mis-derived receipts, team blocks with quorums from -1 to 3 | `OldReceiptsCovered`, `PublishedKeySigns`, `GenuineVerifies`, `AlteredIsCaught`, `TeamNeedsQuorum` |
| `session` | 2 commands, 3 token pairs, one purchase to claim | `AtMostOnce`, `SessionOutlivesErrors`, `RetryIsServed` |
| `install` | 6 drafts (old format bare, old format with CRLF and an ignore file, new format; unsigned and signed), a foreign listing, 3 commands, 1 edit, 1 stop | `PublishedIsSigned`, `VenvKept`, `LandsWhatWasMeant` |
| `backup` | 3 policy changes, 2 backups, 2 restores, a broken chain among the initial ones | `NeverRegresses`, `PolicyIsHead`, `VerifiedIsSnapshot` |
| `sealed` | 2 processes, 2 key names, 2 secrets, 2 passphrases, every initial file | `WrongPassphraseShowsNothing`, `SealedStaysSealed`, `KeysKept` |
| `connect` | 3 writers, 2 credential ids, 2 codes, 2 connections for each wait, 2 saves, fair | `ShownIsExchanged`, `CaptureEnds` (liveness), `SavedIsServed` |
| `org_vault` | 2 runs, 2 names, 2 inodes, 4 configurations, TTL 1, 1 tick, 1 change | `MirroredStays`, `KnownIsMirrored` |

Why the bounds are enough.  Two writers give every interleaving of two calls, and
each returns to `idle` and may call again, so a call may overlap any number of
others in turn.  Three keys let one writer store, lose and keep different ones.
Two overlapping rules in both orders are what first-match can get wrong; longer
files repeat that.  Two runs in one second, then in two, exhaust the archive names;
a trial balance of one, and a gateway balance of one with two runs that want it, are
the boundary.  Five keys and four seconds allow four rotations, of which any may
stop at any step, and the archive of each to be the next one's outgoing document.
Two approvals of two approvers and a stranger contain a repeated, a foreign and
a missing one, and the quorums lie on both sides of every count.  Three
token pairs are the first one, a renewal, and one more that makes the renewal old;
two commands at the session file are what "calm" excludes, and each may run any
number of times.  Three commands are enough to sign while one publishes and to install
what was listed, or to publish, install and install again or set up, with an edit and a
stop between any two of their steps.  Two backups are
an old and a new archive, and two restores can put them back in either order, each
killed or overtaken.  Two passphrases are a right and a wrong one, before and after
a rotation.  Two connections put a stray or silent one on either side of the
redirect, or one code after another.  On the share, two inodes are what two writes at once need, two names one
that is taken and the next; one tick passes the cache's life time.

Where a run does not check for deadlock (`CHECK_DEADLOCK FALSE`: `governed_faults`,
`governed_fair`, `install`, `backup`, `org_vault`), runs and commands are bounded and end,
and nothing is left to do then; in `connect` a silent peer may stop everything, as it does in the
code (see the findings).  The other specifications are checked for it.

Symmetry is used in `policy_gate` (the seeds), `governed_faults` (the runs), `session` (the commands), `sealed` (processes,
names, secrets, passphrases) and `org_vault` (runs and inodes, each among themselves); none of these runs has
a liveness property.

## Fairness

`FairSpec` of `GovernedRun` assumes weak fairness of `Proceed(r)` for each
run: the operating system keeps scheduling a process or thread that is alive.
Nothing is assumed about when a run starts, about `Tick`, or about the outcome of
a step.  `Proceed` is never blocked by another run (the code takes no locks), so weak
fairness is all that scheduling has to give.  `OkRunIsLogged` is checked without
faults only: with them the log line is best effort, by design.  Without any fault a run
may still end before its line, when the rename of another has taken its
`token.json.tmp` away: the property excuses the runs whose `write_token` met another
(`contested`), and `OkRunIsAlwaysLogged` without the excuse is a finding.

`FairSpec` of `StationVault` assumes only that the wizard and the listener thread are
scheduled and that five minutes pass (`CaptureFairness`).  Nothing makes a silent
peer hang up: that the wait ends is therefore claimed in `CaptureEnds` for the behaviours in which
no connection stays silent for ever, and `CaptureAlwaysEnds`, without that condition,
fails under the same specification.  Users need not go on, and no connection needs to come.

## Findings

The modules state claims the code does not keep, below the properties it does keep or as a
property under other constants.  To see one fail, put its name under `INVARIANTS`
or `PROPERTIES` (the modules say which it is by its form: `[][...]_vars` is a property) of
the run's cfg in place of the others; sources are in `PROJECT.json`.

| Claim | Run's cfg | What happens |
|---|---|---|
| `StrayOnlyAfterKill` | `vault_many` | the handler of `save` passes over an `os.unlink` that fails: a file with the seed stays without any kill |
| `EmptyChainNeededNone` | `policy_gate` | a real run that needs approval, and finds no key at that request, is served with an empty approval chain |
| `AckedKeysPresent` | `vault_one` with two writers | `update()` is "one atomic step" for one process only: a daemon and a command lose a key that was acknowledged |
| `NoProofDestroyed` | `governed_faults` with `Kind <- BuildCompile`, `Concurrent = TRUE` | `_archive_receipt` probes a name and opens it in two steps |
| `OkRunIsAlwaysLogged` | `governed_fair` | of two `write_token` at once the second finds its temporary file gone, and the command ends before its line in the log |
| `TokenIsWhole` | `governed_fair` | the open of the second empties the file the first renames |
| `LineIsAlwaysOfItsRun` | `governed_fair` | the receipt is read back from a fixed name, where another run may have saved its own |
| `NeverOrphaned` | `rotation` | `cmd_rotate_key` publishes before it stores the seed |
| `FilesIntact` | `FixedTmpFile` with two writers | one process renames another's half-written token |
| `ClearedIsDead` | `session` | a network failure during the refresh, or another command's renewal, deletes a session that is good |
| `LogoutHolds` | `session` | a refresh that had read the file before a logout, or a login, saves its pair after it |
| `ListedHandlerIsSigned` | `install` | `handler.py` is read once for the listing and once more for the check of the signature: an edit between the two is not caught |
| `ForetoldVerdict` | `install` | a handler with CRLF line ends is listed with a signature the buyer's station refuses |
| `CompleteIsIntact` | `install` | a partial directory counts as installed |
| `VenvKept` without `venv.lost` | `install` | a damaged archive deletes the `.venv` that was just put back |
| `RotateKeepsKeys` | `sealed` | a process that never loaded the file rotates its empty keys over it |
| `CaptureAlwaysEnds` | `connect` | a silent connection holds the listener, and the wizard with it |
| `EachShownIsExchanged` | `connect` | a second code takes the place of the first, whose page says it is being exchanged |
| `WaitsForTheRedirect` | `connect` | any GET ends the wait for the redirect |
| `OthersAlwaysKept` | `connect` | a save between the read and the write of another is undone, and a store that does not parse is replaced |
| `SetField` | (an action that changes nothing) | four `railcall set` fields call the two-argument `_vault_write` with three |
| `QuorumIsPositive` | `rotation` | a quorum of 0 counts as 1 |
| `StandaloneCatches` | `rotation` | the standalone verifier does not hash the body again |
| `GenuineVerifies` for flat receipts | `rotation` | a receipt without a key id is called tampered under another key |
| `NeverRegresses` without `excused` | `backup` | the head of a broken chain is older than what follows the break |
| `MirroredAlwaysStays` | `org_vault` | two runs probe one name before either renames |
| `OnlyOnTheShare` | `org_vault` | a directory that nothing is mounted on passes for the share, as the run looks or, after an unmount, as it renames |
| `ToldIsMirrored` | `org_vault` | a cache that cannot be written loses the answer in hand |
| (none, the parser is not modelled) | | `_parse_yaml` drops what follows a line of unexpected indentation without a word, where its docstring says it raises |

Noticed while modelling, with no claim of their own: the daemon's comment says that with
a malformed policy every `/governed` call rejects, but GET `/governed` answers and says
`loaded: false`; `/governed` names a path computed at the time of the request beside the
hash of the file loaded at start; the message "nothing was written" of a failed
interpret is shown after its receipt was stored; a first `rotate-key` on an install
that never published a key archives nothing; two rotations in one second overwrite
an archived key (`OldReceiptsCovered` fails without `Spaced`); `OneIdentity` fails
when two first runs overlap and each mints a seed; the commands that send an API key still
ask for a session first, so a headless key alone is told "Not logged in"; and
`_verify_team_approval` may raise on a block of the wrong shape.

## Proofs

Every theorem is checked by TLAPS for any number of processes, names, values and steps;
assumptions beyond those of the modules' ASSUMEs are in the theorem.

* `VaultFile_proofs`.  The inductive invariant `FileInv` adds to the types that a process has a
  temporary file exactly between `mkstemp` and the rename, that the file it renames
  is whole and synced, that whatever the path names is synced, and that when the live
  file is damaged no process is past its load.  A temporary file without its writer is one of a writer that was killed or whose unlink
  was refused.  From it: `NoStray`, `NeverTearsHolds`,
  `DamagedVaultKeptHolds`, and `ImplementsRegister`, by showing that each step is a `Put`, a
  `Flush`, a `PowerLoss` or a stutter of `AtomicRegister`.  None of them needs
  `DirSync`, nor a bound on the writers.  With one writer a second invariant says that what the
  writer read is what the file holds; it gives `OneWriterIsAtomic`, and with `DirSync`
  `OneWriterKeepsKeys`.
* `RotationAudit_proofs`.  `ArchivedFirst` holds whatever fails: a rotation that reaches `publish`
  with an outgoing document has it in the archive.  `OldReceiptsVerify` assumes
  `Spaced` and that the first seed's key is published; its invariant says that the vault's
  key and every signed one is published or archived, and that a rotation under way
  writes only to a second whose archive was free.  `PublishedSigns`: published and vault key
  are the same unless a rotation is between its last two writes or was broken off there.
  On top of them the verdicts: `ReceiptsVerify` (same assumptions) because the document that
  verifies a receipt is one of the install's; `ChangesAreCaught` without any; and
  `TeamQuorum` for any sequence of approvals, by counting: the entries that `_verify_team_approval`
  counts are each the first of their approver, so that as many approvers as the quorum
  says have signed.
* `GovernedRun_proofs`.  Two invariants.  `Inv` holds for runs that overlap as they like: the
  types of what they share, and for each run what its place says of its locals, of the gate it
  passed and of what it has left behind (`Local`).  It gives `DeniedNothing` and `Charged`.
  Beside it stand two more for runs that overlap: `Clean`, until two runs are in `write_token` at once
  the one that is holds the temporary file and what it wrote is whole (`TokenWhole`); and `Owner`, from
  its save on the fixed name holds a run's own receipt, or the run is among the overtaken
  (`LineOfItsRun`).
  The rest is only true of runs that follow each other (`~Concurrent`; the counterexamples
  with two runs are findings): `Sequential` adds that one run is active at most, that the seed and
  the file names it holds are still good (`Own`), and that every key in a stored receipt is
  the vault's; it gives `OneKey`, `LoggedProof` and `ProofsStay`.  `TrialIsCounted` adds
  `Budget`, the sum of completed runs and runs left, for a finite number of runs.
* `PolicyGate_proofs`.  `EngineReadsTheDocument`: for a document of any length, the engine's
  search over its validated copy of the rules agrees with the document read by hand.  The
  search picks the least hit, which exists because `<` is well-founded on the
  naturals; validation changes only what does not decide.  With it, and the
  invariant that the engine is still that of the document loaded at start:
  `ServedAsPermitted` and `HashNamesPolicy`.  `IrreversibleApproved`, for a vault that changes between
  any two requests, assumes of the packaged policy what
  `governance.default.yml` says: for each irreversible action a rule that always applies, and none before
  it below level L2 (`PackagedAssumption`, which TLC evaluates on that policy).
* `Marketplace_proofs`, first half, on `MarketSession`.  The invariant says for each place between a
  command's read of the session and its write what the file still holds: at the trade it is
  what was read, at the save an older pair, at the retry the pair just saved and accepted, at the
  clear one that is dead or gone; all of it while the history is calm, which
  also means that one command is at the file at a time.  From it `NothingTwice` (without the calm),
  `SessionKept`, `RetryServed`.
* `Marketplace_proofs`, second half, on `ModuleInstall`, for any number of edits, stops and commands.
  First the algebra of directories: what signing puts over a directory verifies
  (`SignedVerifies`), and the listing of a directory that verifies unpacks to one that does
  (`ListedVerifies`); a signature over a tree names the manifest in that tree (`SignatureOK`), so a
  publish that has checked one need not have read its manifest at the same time.  `InstallInv`
  then has three parts.  `PubOK`: every signature on the disk, half written or stale, is of
  this kind (`Signatures`); a publish that started from a directory that verified and nobody has written to
  since holds what is still there, read by read; and from the second walk on it holds a tree under
  its signature.  `InstOK` with
  `Laid`: which of the new files are in the station at each place, over any old
  directory.  `VenvOK`: where the `.venv` is.  From it `ListedIsSigned`,
  `VenvSurvives` and `InstallLandsIt`.
* `SealedVault_proofs`.  `FailsClosed` by an invariant over memory and saves under way; `StaysSealed` and
  `NothingLost` because a process that is not behind has the file's keys and passphrase, and
  what it is about to save extends the file it has read.
* `Station_proofs`, first part, on `StationVault`.
  `SavedServed`: what is saved is an entry and the default.  `ToldIsExchanged`: a connection is served
  only while the wizard listens, a browser that was told has put its code into the holder by then, and
  what is in the holder then is a code some browser was told of.
* `Station_proofs`, second part, on `BackupRestore`, for any number of changes, backups and restores.
  First the histories: versions grow along one, the head of a chain is the version of some row and
  so not above the last, and it is the last when the chain is intact.  `BackupInv` then follows the
  two commands.  While a backup runs and no restore does (`OneMoment`), a policy that is still the
  hashed one stands beside the hashed history, because a change leaves a number no earlier content
  has; the same argument ties the history to the head, and the archived policy to one of the
  moments the workspace has been.  While a restore runs (`HeadKept`, `NotBehind`), what it has
  put back is what its archive holds, and the history is the last file it opens, so until then
  the old one is there.  From it `ArchiveIsSnapshot`, `HeadIsPolicy` and `VersionsGoForward`.
* `OrgVault_proofs`.  Of the writers through one temporary name (`FixedTmpFile`): types for any
  number of processes and names; with one process, killed or not,
  `OneWriterIntact`, because the inode it writes is never one that a file names.  Of the
  mirror: `ReceiptsStay`, because inodes of different names stay apart (`Apart`), so a run
  that is alone at its name renames its own whole document (`Own`), and a name that is taken is
  written by nobody who was not a rival then (`Kept`); a run whose mount went or came while it
  wrote is adrift from then on; `KnownMirrored` and the types.

Only model-checked: the liveness properties `OkRunIsLogged` and `CaptureEnds` (out of the
prover's reach), `AckedKeysPresent` with more than one writer being false, and the failing claims.

## Not modelled

* Power loss in `FixedTmpFile` and `GovernedRun`: `write_token` syncs nothing, and promises nothing about it.
* The keychain (`seed_store`) is not in the repository; the vault-file path is modelled.
* Account commands: each is one call to a gateway outside the repository and one `write_token`, whose
  hazard is in `FixedTmpFile`; a login beside a run that writes an old token back is the one hazard
  in the list without a property.
* MCP configuration: one load and one save of the kind `StationVault` models; the doctor prints.
* The parser of the YAML subset, receipts' contents, CSV work, the socket audit, request
  signing for buckets, the transparency log, trust sidecars and the removal of modules,
  formatting and panels.
* Update notice, demo, studio, workflow and cost commands, the Discord bot, the
  installers: no shared state of their own.

## Plan

What would come next, in this order.

1. `PolicyYaml`: the parser of the YAML subset on tokenized lines, against a reference that
   raises on anything outside the DSL.
2. The token as a document in `GovernedRun`, with `login` beside a run.
3. Trust sidecars and the removal of modules in `ModuleInstall`.
