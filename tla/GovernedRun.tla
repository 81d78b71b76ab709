---------------------------- MODULE GovernedRun ----------------------------
(***************************************************************************)
(* A governed run, from the policy gate to the audit log.  Each run is one  *)
(* CLI command (`railcall build', `interpret', `audit') or one daemon       *)
(* request (POST /compile, POST /interpret).  The daemon answers requests   *)
(* in threads and every CLI command is a process of its own; all of them    *)
(* share the vault, the fixed-name receipts, the archive directories, the   *)
(* audit log, token.json and the gateway's balance.                         *)
(*                                                                          *)
(* vault_io.save replaces a file in one step here: VaultFile shows what it  *)
(* guarantees.  write_token is taken step by step, because every process    *)
(* writes to the one token.json.tmp.  The policy engine is the one a        *)
(* process loaded when it started (PolicyGate has the file changing).       *)
(***************************************************************************)
EXTENDS PolicyEngine, Integers, FiniteSets

CONSTANTS
    Runs,         \* the runs of a behaviour
    Kind,         \* what each run is
    Requests,     \* for each kind, the flow contexts it may be started with
    Engine,       \* the loaded policy engine
    Partial,      \* a file opened for writing, not yet written
    Torn,         \* a token.json with bytes of two documents
    FirstSeed,    \* the seed in the vault at the start, or None
    StartRuns,    \* runs_remaining in token.json at the start
    Metered,      \* whether the API key is a server account
    Balance,      \* the gateway's balance at the start
    Concurrent,   \* whether runs may overlap
    OneDirectory, \* whether there is no station workspace to keep the history in
    Faults,       \* whether calls to disk and network fail and processes die
    MaxSecond     \* bound on the clock

Kinds == {"build", "interpret", "audit", "compile", "ask"}

ASSUME RunAssumption ==
    /\ Kind \in [Runs -> Kinds]
    /\ None \notin Nat /\ FirstSeed \in Nat \cup {None}
    /\ {Partial, Torn} \cap (Nat \cup {None}) = {}
    /\ StartRuns \in Nat /\ Balance \in Nat /\ MaxSecond \in Nat
    /\ {Metered, Concurrent, OneDirectory, Faults} \subseteq BOOLEAN

VARIABLES
    pc,           \* where each run is
    job,          \* each run's local variables
    vault,        \* _railcall_signing_seed in keys.local.json
    minted,       \* seeds drawn so far; the last one drawn is seed `minted'
    canonical,    \* the fixed-name receipt of each schema
    shelf,        \* the archived receipts, by file name
    auditLog,     \* the lines of audit_log.jsonl
    token,        \* runs_remaining in token.json, None without a token
    tmp,          \* what token.json.tmp holds, None when it is not there
    renames,      \* of token.json.tmp to token.json
    contested,    \* runs whose write_token met another one (history)
    balance,      \* the gateway's balance
    charges,      \* the times the gateway booked each run
    second,       \* the wall clock, in the seconds of a file name
    saved,        \* every receipt ever stored under a fixed name (history)
    overtaken     \* runs whose fixed-name receipt another run replaced (history)

keys == <<vault, minted>>
files == <<canonical, shelf, auditLog, saved, overtaken>>
tokenFile == <<token, tmp, renames, contested>>
money == <<tokenFile, balance, charges>>
vars == <<pc, job, keys, files, money, second>>

Schemas == {"assembly", "interpret", "audit"}

Schema(r) ==
    CASE Kind[r] \in {"build", "compile"}  -> "assembly"
      [] Kind[r] \in {"interpret", "ask"}  -> "interpret"
      [] Kind[r] = "audit"                 -> "audit"

Cli(r) == Kind[r] \in {"build", "interpret", "audit"}

Ended == {"rejected", "stopped", "failed", "aborted", "killed", "done"}

Blank ==
    [ ctx |-> None, runs |-> 0, minting |-> None, approver |-> None,
      result |-> None, tries |-> 0, receipt |-> None, copy |-> None, name |-> None,
      count |-> 0, inode |-> 0 ]

Init ==
    /\ pc = [r \in Runs |-> "idle"]
    /\ job = [r \in Runs |-> Blank]
    /\ vault = FirstSeed
    /\ minted = IF FirstSeed = None THEN 0 ELSE FirstSeed
    /\ canonical = [s \in Schemas |-> None]
    /\ shelf = [n \in {} |-> None]
    /\ auditLog = {}
    /\ token \in {None, StartRuns}
    /\ tmp = None
    /\ renames = 0
    /\ contested = {}
    /\ balance = Balance
    /\ charges = [r \in Runs |-> 0]
    /\ second = 0
    /\ saved = {}
    /\ overtaken = {}

Goto(r, place) == pc' = [pc EXCEPT ![r] = place]

Set(r, field, value) == job' = [job EXCEPT ![r][field] = value]

----------------------------------------------------------------------------
(* The gate, the token and the balance.                                     *)

Decision(r) == Evaluate(Engine, job[r].ctx)

\* _policy_gate for a command, the gate of do_POST for a request.
Gate_Advisory(r) ==
    /\ pc[r] = "idle"
    /\ Concurrent \/ \A q \in Runs : pc[q] \in Ended \cup {"idle"}
    /\ \E ctx \in Requests[Kind[r]] : Set(r, "ctx", ctx)
    /\ Goto(r, IF Kind[r] \in {"build", "interpret"} THEN "token" ELSE "input")
    /\ UNCHANGED <<keys, files, money, second>>

Gate(r) ==
    /\ pc[r] = "idle"
    /\ Concurrent \/ \A q \in Runs : pc[q] \in Ended \cup {"idle"}
    /\ \E ctx \in Requests[Kind[r]] :
          /\ Set(r, "ctx", ctx)
          /\ Goto(r, IF ~Evaluate(Engine, ctx).allow THEN "rejected"
                     ELSE IF Kind[r] \in {"build", "interpret"} THEN "token" ELSE "input")
    /\ UNCHANGED <<keys, files, money, second>>

\* cmd_build and cmd_interpret hold this copy of the token until they are done; a
\* token.json that does not parse is none.
ReadToken(r) ==
    /\ pc[r] = "token"
    /\ IF token \notin Nat
       THEN Goto(r, "stopped") /\ UNCHANGED job
       ELSE Goto(r, "balance") /\ Set(r, "runs", token)
    /\ UNCHANGED <<keys, files, money, second>>

\* _server_runs: None for a local key, or when the gateway does not answer.
AskBalance(r) ==
    /\ pc[r] = "balance"
    /\ \/ Metered /\ Goto(r, "stamp") /\ Set(r, "runs", balance)
       \/ (~Metered \/ Faults) /\ Goto(r, "check") /\ UNCHANGED job
    /\ UNCHANGED <<keys, files, money, second>>

\* write_token, a run being in the places below: open(tmp, "w") makes the file or
\* empties the one that is there.  An inode is known by the renames before it.
TokenWrites == {"fill_stamp", "replace_stamp", "fill_charge", "replace_charge"}

OpenToken_InPlace(r, count, next) ==
    /\ token' = Partial
    /\ job' = [job EXCEPT ![r].count = count, ![r].inode = renames]
    /\ Goto(r, next)
    /\ UNCHANGED <<keys, files, tmp, renames, contested, balance, charges, second>>

OpenToken(r, count, next) ==
    /\ \/ LET others == {q \in Runs \ {r} : pc[q] \in TokenWrites}
          IN  /\ tmp' = Partial
              /\ job' = [job EXCEPT ![r].count = count, ![r].inode = renames]
              /\ contested' = contested \cup IF others = {} THEN {} ELSE others \cup {r}
              /\ Goto(r, next)
       \/ Faults /\ Goto(r, "aborted") /\ UNCHANGED <<job, tmp, contested>>
    /\ UNCHANGED <<keys, files, token, renames, balance, charges, second>>

\* What an inode may hold once a count was written at its start.
Over(content, count) == {count} \cup IF content = Partial THEN {} ELSE {Torn}

\* ... json.dump goes to the inode that was opened, whatever its name is by now ...
FillToken(r) ==
    /\ pc[r] \in {"fill_stamp", "fill_charge"}
    /\ \/ /\ CASE job[r].inode = renames ->
                    tmp' \in Over(tmp, job[r].count) /\ UNCHANGED token
               [] job[r].inode + 1 = renames ->
                    token' \in Over(token, job[r].count) /\ UNCHANGED tmp
               [] OTHER -> UNCHANGED <<token, tmp>>
          /\ Goto(r, IF pc[r] = "fill_stamp" THEN "replace_stamp" ELSE "replace_charge")
       \/ Faults /\ Goto(r, "aborted") /\ UNCHANGED <<token, tmp>>
    /\ UNCHANGED <<job, keys, files, renames, contested, balance, charges, second>>

\* After the local count: server accounts are metered; audit has logged before.
AfterCharge(r) ==
    IF Metered THEN "meter" ELSE IF Kind[r] = "audit" THEN "done" ELSE "history"

\* ... and chmod and os.replace take what the name holds; without the file, which
\* another run has renamed, they raise and the command ends with a traceback.
ReplaceToken(r) ==
    /\ pc[r] \in {"replace_stamp", "replace_charge"}
    /\ \/ /\ tmp # None
          /\ token' = tmp /\ tmp' = None /\ renames' = renames + 1
          /\ \/ Goto(r, IF pc[r] = "replace_stamp" THEN "check" ELSE AfterCharge(r))
             \/ Faults /\ Goto(r, "aborted")
       \/ /\ tmp = None \/ Faults
          /\ Goto(r, "aborted")
          /\ UNCHANGED <<token, tmp, renames>>
    /\ UNCHANGED <<job, keys, files, contested, balance, charges, second>>

StampToken(r) ==
    /\ pc[r] = "stamp"
    /\ OpenToken(r, job[r].runs, "fill_stamp")

CheckBalance_Ignored(r) ==
    /\ pc[r] = "check"
    /\ Goto(r, "input")
    /\ UNCHANGED <<job, keys, files, money, second>>

CheckBalance(r) ==
    /\ pc[r] = "check"
    /\ Goto(r, IF job[r].runs <= 0 THEN "stopped" ELSE "input")
    /\ UNCHANGED <<job, keys, files, money, second>>

\* No dataset, no model server, not a table: the command ends with nothing done.
BadInput(r) ==
    /\ pc[r] = "input"
    /\ Cli(r)
    /\ Goto(r, "stopped")
    /\ UNCHANGED <<job, keys, files, money, second>>

----------------------------------------------------------------------------
(* The governance blocks and the signature.                                 *)

\* _build_v2_blocks and _daemon_policy_gate look up a key only for an approval.
BuildBlocks(r) ==
    /\ pc[r] = "input"
    /\ Goto(r, IF Decision(r).requires_approval /\ ~job[r].ctx.dry_run
               THEN "approve" ELSE "assemble")
    /\ UNCHANGED <<job, keys, files, money, second>>

\* What the caller of _ensure_signing_seed does with the seed it gets.
UseSeed(r, seed) ==
    IF pc[r] = "approve"
    THEN /\ job' = [job EXCEPT ![r].approver = seed, ![r].minting = None]
         /\ Goto(r, "assemble")
    ELSE /\ job' = [job EXCEPT ![r].receipt.signer = seed, ![r].minting = None]
         /\ Goto(r, "save")

\* _ensure_signing_seed: the vault's seed; a new one when there is none; None
\* when the vault cannot be read or the signer is missing.
LookUpSeed_AlwaysMints(r) ==
    /\ pc[r] \in {"approve", "sign"} /\ job[r].minting = None
    /\ Set(r, "minting", minted + 1)
    /\ minted' = minted + 1
    /\ UNCHANGED <<pc, vault, files, money, second>>

LookUpSeed(r) ==
    /\ pc[r] \in {"approve", "sign"} /\ job[r].minting = None
    /\ \/ vault # None /\ UseSeed(r, vault) /\ UNCHANGED minted
       \/ vault = None /\ Set(r, "minting", minted + 1) /\ minted' = minted + 1 /\ UNCHANGED pc
       \/ Faults /\ UseSeed(r, None) /\ UNCHANGED minted
    /\ UNCHANGED <<vault, files, money, second>>

\* The whole vault is written from the copy read before, which had no seed.  A
\* failing save returns None, whether or not the file was already replaced.
SaveSeed(r) ==
    /\ pc[r] \in {"approve", "sign"} /\ job[r].minting # None
    /\ \/ vault' = job[r].minting /\ UseSeed(r, job[r].minting)
       \/ Faults /\ vault' \in {vault, job[r].minting} /\ UseSeed(r, None)
    /\ UNCHANGED <<minted, files, money, second>>

\* POST /interpret with an empty prompt: refused after the gate built its blocks.
EmptyPrompt(r) ==
    /\ pc[r] = "assemble"
    /\ Kind[r] = "ask"
    /\ Goto(r, "stopped")
    /\ UNCHANGED <<job, keys, files, money, second>>

Results(r) ==
    CASE Kind[r] \in {"build", "compile"} -> {"ok", "blocked"}
      [] Kind[r] = "interpret"            -> {"ok", "model_error", "unparsable"}
      [] Kind[r] = "ask"                  -> {"ok", "model_error"}
      [] Kind[r] = "audit"                -> {"ok"}

\* The work itself, and the receipt's body.
Assemble(r) ==
    /\ pc[r] = "assemble"
    /\ \E result \in Results(r) :
          job' = [job EXCEPT
                    ![r].result = result,
                    ![r].tries = @ + 1,
                    ![r].receipt =
                      [ run |-> r, try |-> job[r].tries + 1, result |-> result,
                        approval_chain |-> ApprovalChain(Decision(r), job[r].ctx.dry_run,
                                                         job[r].approver),
                        signer |-> None ]]
    /\ Goto(r, "sign")
    /\ UNCHANGED <<keys, files, money, second>>

\* Whose a stored receipt is.
Owners(receipt) == {rc.run : rc \in saved \cap {receipt}}

\* _save_receipt.  An error of its fallback too ends the command with a traceback,
\* perhaps with the receipt in place: vault_io.save may fail after its os.replace.
SaveReceipt(r) ==
    /\ pc[r] = "save"
    /\ \/ /\ canonical' = [canonical EXCEPT ![Schema(r)] = job[r].receipt]
          /\ saved' = saved \cup {job[r].receipt}
          /\ overtaken' = (overtaken \cup Owners(canonical[Schema(r)])) \ {r}
          /\ \/ Goto(r, IF Kind[r] = "audit" THEN "history" ELSE "archive")
             \/ Faults /\ Goto(r, "aborted")
       \/ Faults /\ Goto(r, "aborted") /\ UNCHANGED <<canonical, saved, overtaken>>
    /\ UNCHANGED <<job, keys, shelf, auditLog, money, second>>

----------------------------------------------------------------------------
(* The two archives: the daemon's own copy, and the CLI's history.          *)

HistoryDir == IF OneDirectory THEN "archive" ELSE "history"

Name(dir, r, n) == [dir |-> dir, schema |-> Schema(r), second |-> second, n |-> n]

\* <schema>-<stamp>.json, or the first -<n> that is free.
FreeName_NoProbe(dir, r) == Name(dir, r, 0)

FreeName(dir, r) ==
    LET free == {n \in 0 .. Cardinality(DOMAIN shelf) : Name(dir, r, n) \notin DOMAIN shelf}
    IN  Name(dir, r, CHOOSE n \in free : \A m \in free : n <= m)

Store(name, content) ==
    shelf' = [n \in DOMAIN shelf \cup {name} |-> IF n = name THEN content ELSE shelf[n]]

\* Where a run goes once the daemon layer has archived its receipt.
AfterArchive_ChargesErrors(r) ==
    CASE Kind[r] \in {"compile", "ask"} -> "done"
      [] Kind[r] = "build" -> "charge"
      [] Kind[r] = "interpret" -> "charge"

AfterArchive(r) ==
    CASE Kind[r] \in {"compile", "ask"} -> "done"
      [] Kind[r] = "build" -> IF job[r].result = "ok" THEN "charge" ELSE "history"
      [] Kind[r] = "interpret" ->
            CASE job[r].result = "ok" -> "charge"
              [] job[r].result = "unparsable" /\ job[r].tries = 1 -> "assemble"
              [] OTHER -> "failed"

\* _archive_receipt looks for a free name ...
ProbeArchive(r) ==
    /\ pc[r] = "archive"
    /\ Set(r, "name", FreeName("archive", r))
    /\ Goto(r, "open")
    /\ UNCHANGED <<keys, files, money, second>>

\* ... then opens it with "w", which empties a file another run has made there ...
OpenArchive(r) ==
    /\ pc[r] = "open"
    /\ \/ Store(job[r].name, Partial) /\ Goto(r, "fill")
       \/ Faults /\ Goto(r, AfterArchive(r)) /\ UNCHANGED shelf
    /\ UNCHANGED <<job, keys, canonical, auditLog, saved, overtaken, money, second>>

\* ... and dumps the receipt into it.  Errors are printed and swallowed.
FillArchive(r) ==
    /\ pc[r] = "fill"
    /\ \/ Store(job[r].name, job[r].receipt)
       \/ Faults /\ UNCHANGED shelf
    /\ Goto(r, AfterArchive(r))
    /\ UNCHANGED <<job, keys, canonical, auditLog, saved, overtaken, money, second>>

AfterLog(r) == IF Kind[r] = "audit" THEN "tally" ELSE "done"

ReadBack_OneName(r) ==
    /\ pc[r] = "history"
    /\ IF canonical["interpret"] = None
       THEN Goto(r, AfterLog(r)) /\ UNCHANGED job
       ELSE Set(r, "copy", canonical["interpret"]) /\ Goto(r, "probe")
    /\ UNCHANGED <<keys, files, money, second>>

\* _archive_and_log reads the fixed-name receipt back from the disk ...
ReadBack(r) ==
    /\ pc[r] = "history"
    /\ \/ Set(r, "copy", canonical[Schema(r)]) /\ Goto(r, "probe")
       \/ Faults /\ Goto(r, AfterLog(r)) /\ UNCHANGED job
    /\ UNCHANGED <<keys, files, money, second>>

ProbeHistory(r) ==
    /\ pc[r] = "probe"
    /\ Set(r, "name", FreeName(HistoryDir, r))
    /\ Goto(r, "keep")
    /\ UNCHANGED <<keys, files, money, second>>

\* ... saves it under the free name it found, atomically ...
KeepHistory(r) ==
    /\ pc[r] = "keep"
    /\ \/ Store(job[r].name, job[r].copy) /\ UNCHANGED job
       \/ /\ Faults
          /\ Store(job[r].name, job[r].copy) \/ UNCHANGED shelf
          /\ Set(r, "name", None)
    /\ Goto(r, "log")
    /\ UNCHANGED <<keys, canonical, auditLog, saved, overtaken, money, second>>

\* ... and appends one line about it to the audit log.
AppendLog(r) ==
    /\ pc[r] = "log"
    /\ \/ auditLog' = auditLog \cup
             {[run |-> r, command |-> Kind[r], receipt |-> job[r].copy, history |-> job[r].name]}
       \/ Faults /\ UNCHANGED auditLog
    /\ Goto(r, AfterLog(r))
    /\ UNCHANGED <<job, keys, canonical, shelf, saved, overtaken, money, second>>

----------------------------------------------------------------------------
(* Counting the run.                                                        *)

\* build and interpret write the count they read before the work, less one.
Charge(r) ==
    /\ pc[r] = "charge"
    /\ OpenToken(r, job[r].runs - 1, "fill_charge")

\* audit reads the token only now, and never goes below zero.
ReadTally(r) ==
    /\ pc[r] = "tally"
    /\ IF token \notin Nat
       THEN Goto(r, "done") /\ UNCHANGED job
       ELSE Goto(r, "write_tally") /\ Set(r, "runs", token)
    /\ UNCHANGED <<keys, files, money, second>>

WriteTally(r) ==
    /\ pc[r] = "write_tally"
    /\ OpenToken(r, IF job[r].runs > 0 THEN job[r].runs - 1 ELSE 0, "fill_charge")

\* _meter_run, with a new nonce, on the gateway's prepaid balance.  It fails open:
\* refused, lost before the gateway and lost on the way back look the same.
Meter_FailsClosed(r) ==
    /\ pc[r] = "meter"
    /\ \/ /\ balance > 0
          /\ charges' = [charges EXCEPT ![r] = @ + 1]
          /\ balance' = balance - 1
          /\ Goto(r, IF Kind[r] = "audit" THEN "done" ELSE "history")
       \/ /\ Faults \/ balance = 0
          /\ UNCHANGED <<charges, balance>>
          /\ Goto(r, "failed")
    /\ UNCHANGED <<job, keys, files, tokenFile, second>>

Meter(r) ==
    /\ pc[r] = "meter"
    /\ \/ /\ balance > 0
          /\ charges' = [charges EXCEPT ![r] = @ + 1]
          /\ balance' = balance - 1
       \/ (Faults \/ balance = 0) /\ UNCHANGED <<charges, balance>>
    /\ Goto(r, IF Kind[r] = "audit" THEN "done" ELSE "history")
    /\ UNCHANGED <<job, keys, files, tokenFile, second>>

----------------------------------------------------------------------------
(* The environment.                                                         *)

Kill(r) ==
    /\ Faults
    /\ pc[r] \notin Ended \cup {"idle"}
    /\ Goto(r, "killed")
    /\ UNCHANGED <<job, keys, files, money, second>>

Tick ==
    /\ second < MaxSecond
    /\ second' = second + 1
    /\ UNCHANGED <<pc, job, keys, files, money>>

----------------------------------------------------------------------------

\* What a run does by itself once the user or a client has started it.
Proceed(r) ==
    \/ ReadToken(r) \/ AskBalance(r) \/ StampToken(r) \/ CheckBalance(r)
    \/ BadInput(r) \/ BuildBlocks(r) \/ LookUpSeed(r) \/ SaveSeed(r) \/ EmptyPrompt(r)
    \/ Assemble(r) \/ SaveReceipt(r)
    \/ ProbeArchive(r) \/ OpenArchive(r) \/ FillArchive(r)
    \/ ReadBack(r) \/ ProbeHistory(r) \/ KeepHistory(r) \/ AppendLog(r)
    \/ Charge(r) \/ ReadTally(r) \/ WriteTally(r) \/ FillToken(r) \/ ReplaceToken(r)
    \/ Meter(r)

Next ==
    \/ \E r \in Runs : Gate(r) \/ Proceed(r) \/ Kill(r)
    \/ Tick

Spec == Init /\ [][Next]_vars

\* The operating system keeps scheduling every process and thread that is alive.
FairSpec == Spec /\ \A r \in Runs : WF_vars(Proceed(r))

----------------------------------------------------------------------------
(* Properties.                                                              *)

Seeds == Nat \cup {None}

Places == Ended \cup
    { "idle", "token", "balance", "stamp", "check", "input", "approve", "assemble",
      "sign", "save", "archive", "open", "fill", "history", "probe", "keep", "log",
      "charge", "tally", "write_tally", "meter" } \cup TokenWrites

\* The types of the shared state: only complete receipts have a fixed name, and
\* only complete or half-written ones have an archive name; neither the local
\* count nor the gateway's balance goes below zero.
TypeOK ==
    /\ pc \in [Runs -> Places]
    /\ vault \in Seeds /\ minted \in Nat
    /\ canonical \in [Schemas -> saved \cup {None}]
    /\ \A n \in DOMAIN shelf : shelf[n] \in saved \cup {Partial}
    /\ \A line \in auditLog : line.receipt \in saved
    /\ {token, tmp} \subseteq Nat \cup {None, Partial, Torn}
    /\ renames \in Nat /\ contested \subseteq Runs /\ overtaken \subseteq Runs
    /\ balance \in Nat
    /\ charges \in [Runs -> Nat]

\* "Reject rejects HERE (before any compute) so nothing lands on disk for a
\* denied flow" (do_POST), "a rejected run leaves nothing on disk" (cmd_build):
\* a run whose flow the policy denies has no receipt, archived copy, log line
\* or charge, then or later.
DeniedLeavesNothing ==
    \A r \in Runs :
        job[r].ctx # None /\ ~Decision(r).allow =>
            /\ \A rc \in saved : rc.run # r
            /\ \A line \in auditLog : line.run # r
            /\ charges[r] = 0

\* "No run was metered" when the model failed, "a repeat nonce can't
\* double-charge" (_meter_run): a run is booked at most once, and only when it
\* ended in a receipt that says ok, and was allowed.
ChargedForReceipt ==
    \A r \in Runs :
        charges[r] > 0 =>
            /\ charges[r] = 1
            /\ \E rc \in saved : rc.run = r /\ rc.result = "ok"

\* "Existing vault keys are preserved", "this install's identity"
\* (_ensure_signing_seed): every receipt this install signed, and every
\* approval it recorded, is of the one key the vault holds.
OneIdentity ==
    \A rc \in saved :
        /\ rc.signer \in {None, vault}
        /\ \A i \in DOMAIN rc.approval_chain : rc.approval_chain[i].approver_pubkey = vault

\* "A governed run must never destroy the proof of the last one": a receipt that
\* is complete in an archive stays there, as it is.
NoProofDestroyed ==
    [][\A n \in DOMAIN shelf :
          shelf[n] # Partial => n \in DOMAIN shelf' /\ shelf'[n] = shelf[n]]_vars

\* "Keep a timestamped HISTORY copy so a later run can't overwrite this proof"
\* (_archive_and_log): the file a line of the audit log names holds the receipt the
\* line is about from then on.
LoggedProofKept ==
    \A line \in auditLog :
        line.history # None =>
            line.history \in DOMAIN shelf /\ shelf[line.history] = line.receipt

\* "Reads the receipt straight off disk so the archived bytes are EXACTLY what was
\* signed" (_archive_and_log): a line of the audit log is about the receipt of the
\* run that wrote it, unless another run saved its own under the fixed name after
\* that one had.
LineIsOfItsRun ==
    \A line \in auditLog : line.receipt.run = line.run \/ line.run \in overtaken

\* "Temp file + rename so a crash mid-write can't corrupt token.json"
\* (write_token): whoever fails or is killed where, the token is a whole document
\* until two runs are in write_token at the same time.
TokenStaysWhole == token \in {Partial, Torn} => contested # {}

\* "HARD-STOP if depleted" (cmd_build): a trial install completes no more builds
\* and interprets than it had runs; each one that reached the end was counted,
\* and no count goes below zero (TypeOK).
Counted(r) ==
    /\ Kind[r] \in {"build", "interpret"}
    /\ job[r].result = "ok"
    /\ pc[r] \in {"history", "probe", "keep", "log", "done"}

RunsAreCounted ==
    LET completed == Cardinality({r \in Runs : Counted(r)})
    IN  /\ TypeOK
        /\ ~Metered /\ token \in Nat => completed + token <= StartRuns

\* "Every run should leave an append-only trail": a command whose work ended ok
\* gets its line in the audit log, however the other runs are scheduled, unless
\* its write_token met another one.
OkRunIsLogged ==
    \A r \in Runs :
        Cli(r) /\ job[r].result = "ok"
            ~> r \in contested \/ \E line \in auditLog : line.run = r

(* Claims the code does not keep, each with the step that breaks it.        *)

\* ReplaceToken: the run that is second to rename the one token.json.tmp ends
\* before its line.
OkRunIsAlwaysLogged ==
    \A r \in Runs :
        Cli(r) /\ job[r].result = "ok" ~> \E line \in auditLog : line.run = r

\* OpenToken: the file the first of two runs is about to rename is emptied.
TokenIsWhole == token \notin {Partial, Torn}

\* ReadBack: the fixed name holds the receipt of the run that saved last.
LineIsAlwaysOfItsRun == \A line \in auditLog : line.receipt.run = line.run
=============================================================================
