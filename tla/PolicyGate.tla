----------------------------- MODULE PolicyGate -----------------------------
(***************************************************************************)
(* The companion daemon's policy gate: the engine it loads once at start,   *)
(* while ~/.railcall/governance.yml may be written, broken, repaired or     *)
(* removed under it; the gate in front of POST /compile and /interpret,     *)
(* with the key it approves with, which it looks up in the vault each time; *)
(* and the policy status that GET /governed reports.                        *)
(***************************************************************************)
EXTENDS PolicyEngine, FiniteSets

CONSTANTS
    Documents,      \* contents the user may give to ~/.railcall/governance.yml
    DefaultPolicy,  \* the packaged governance.default.yml
    Absent,         \* no user file
    Contexts,       \* what a request may declare
    Keys,           \* the seeds this install may come to have, as their public keys
    Damaged         \* a vault that cannot be read

Axes == [any : BOOLEAN, values : SUBSET STRING]

RuleTexts ==
    [ id : STRING, action_type : Axes, data_sensitivity : Axes,
      approval_authority : STRING \cup {None}, dry_run_first : BOOLEAN ]

\* What _parse_yaml and _build_policy are given, right or wrong.
ASSUME DocumentsAssumption ==
    /\ \A doc \in Documents \cup {DefaultPolicy} :
          /\ doc.wellformed \in BOOLEAN
          /\ doc.rules \in Seq(RuleTexts)
    /\ \A ctx \in Contexts : ctx.dry_run \in BOOLEAN
    /\ Absent \notin Documents

ASSUME KeysAssumption == {None, Damaged} \cap Keys = {} /\ None # Damaged

\* The packaged policy has, for each irreversible action, a rule that applies
\* whatever the data are, and every rule up to it asks for L2 or L3.
ASSUME PackagedAssumption ==
    \A action \in Irreversible : \E i \in DOMAIN DefaultPolicy.rules :
        /\ Admits(DefaultPolicy.rules[i].action_type, action)
        /\ DefaultPolicy.rules[i].data_sensitivity.any
        /\ \A j \in 1 .. i : DefaultPolicy.rules[j].approval_authority \in {"L2", "L3"}

VARIABLES
    userFile,       \* ~/.railcall/governance.yml now
    engine,         \* POLICY_ENGINE of the running daemon
    loadedFrom,     \* the document it was loaded from
    signer,         \* whether this daemon could import vault_io and receipt_signer
    vault,          \* the seed in keys.local.json: a key, None or Damaged
    reply,          \* the daemon's last answer
    atGate          \* (history) whether there was a key as its gate looked, and what the
                    \* vault then held

vars == <<userFile, engine, loadedFrom, signer, vault, reply, atGate>>

Vaults == Keys \cup {None, Damaged}

NoReply == [code |-> "none"]

NotAsked == [keyless |-> FALSE, held |-> None]

\* GOVERNANCE_YML_PATH if it exists, else DEFAULT_POLICY_PATH.
PolicyPath(file) == IF file = Absent THEN DefaultPolicy ELSE file

Init ==
    /\ userFile \in Documents \cup {Absent}
    /\ loadedFrom = PolicyPath(userFile)
    /\ engine = LoadEngine(loadedFrom)
    /\ signer \in BOOLEAN
    /\ vault \in Vaults
    /\ reply = NoReply
    /\ atGate = NotAsked

EditFile ==
    /\ userFile' \in (Documents \cup {Absent}) \ {userFile}
    /\ UNCHANGED <<engine, loadedFrom, signer, vault, reply, atGate>>

\* Another process rotates the key or signs for the first time, as this daemon
\* does after the gate; the file is damaged, repaired or removed.
VaultChanges ==
    /\ vault' \in Vaults \ {vault}
    /\ UNCHANGED <<userFile, engine, loadedFrom, signer, reply, atGate>>

Restart ==
    /\ loadedFrom' = PolicyPath(userFile)
    /\ engine' = LoadEngine(loadedFrom')
    /\ signer' \in BOOLEAN
    /\ reply' = NoReply
    /\ atGate' = NotAsked
    /\ UNCHANGED <<userFile, vault>>

\* Bad host, unknown path, wrong token or unreadable body: answered before the gate.
PostRefused ==
    /\ reply' = [code |-> "4xx"]
    /\ atGate' = NotAsked
    /\ UNCHANGED <<userFile, engine, loadedFrom, signer, vault>>

\* _daemon_vault_pubkey_hex: the key of the seed _ensure_signing_seed finds now, or
\* of one it mints and saves; None when the signer is missing, the vault does not
\* load, or the save raises, which it may do after the file was replaced.
SigningKey(pub) ==
    \/ signer /\ vault \in Keys /\ pub = vault /\ UNCHANGED vault
    \/ signer /\ vault = None /\ pub \in Keys /\ vault' = pub
    \/ signer /\ vault = None /\ pub = None /\ vault' \in Keys \cup {None}
    \/ (~signer \/ vault = Damaged) /\ pub = None /\ UNCHANGED vault

\* The gate looks for a key only where the decision asks for approval of a real run.
Approver(decision, ctx, pub) ==
    IF decision.allow /\ decision.requires_approval /\ ~ctx.dry_run
    THEN /\ SigningKey(pub)
         /\ atGate' = [keyless |-> ~signer \/ vault \notin Keys, held |-> vault']
    ELSE pub = None /\ atGate' = NotAsked /\ UNCHANGED vault

\* do_POST up to the gate, and _daemon_policy_gate.
Post_ReadsFileAgain(ctx) ==
    LET decision == Evaluate(LoadEngine(PolicyPath(userFile)), ctx)
    IN  \E pub \in Keys \cup {None} :
          /\ Approver(decision, ctx, pub)
          /\ reply' =
               IF decision.allow
               THEN [code |-> "served", ctx |-> ctx, decision |-> decision,
                     governance |-> GovernanceBlock(engine, decision,
                         ApprovalChain(decision, ctx.dry_run, pub), ctx.action_type)]
               ELSE [code |-> "403", ctx |-> ctx, decision |-> decision]
          /\ UNCHANGED <<userFile, engine, loadedFrom, signer>>

Post(ctx) ==
    LET decision == Evaluate(engine, ctx)
    IN  \E pub \in Keys \cup {None} :
          /\ Approver(decision, ctx, pub)
          /\ reply' =
               IF decision.allow
               THEN [code |-> "served", ctx |-> ctx, decision |-> decision,
                     governance |-> GovernanceBlock(engine, decision,
                         ApprovalChain(decision, ctx.dry_run, pub), ctx.action_type)]
               ELSE [code |-> "403", ctx |-> ctx, decision |-> decision]
          /\ UNCHANGED <<userFile, engine, loadedFrom, signer>>

\* do_GET /governed: the registry, annotated with the engine's state, or a 500
\* when the registry cannot be read.
GetGoverned ==
    /\ \/ reply' = [code |-> "governed", loaded |-> ~engine.failed,
                    policy_hash |-> engine.policy_hash, policy_path |-> PolicyPath(userFile)]
       \/ reply' = [code |-> "500"]
    /\ atGate' = NotAsked
    /\ UNCHANGED <<userFile, engine, loadedFrom, signer, vault>>

Next ==
    \/ EditFile
    \/ VaultChanges
    \/ Restart
    \/ PostRefused
    \/ \E ctx \in Contexts : Post(ctx)
    \/ GetGoverned

Spec == Init /\ [][Next]_vars

----------------------------------------------------------------------------
(* Properties.                                                              *)

Decisions ==
    [ allow : BOOLEAN, requires_approval : BOOLEAN,
      authority_level : Authorities \cup {None}, matched_rule_id : STRING \cup {None},
      risk_classification : {"low", "medium", "high", "unknown"},
      dry_run_required : BOOLEAN ]

TypeOK ==
    /\ userFile \in Documents \cup {Absent}
    /\ loadedFrom \in Documents \cup {DefaultPolicy}
    /\ engine.failed \in BOOLEAN
    /\ signer \in BOOLEAN
    /\ vault \in Vaults
    /\ atGate \in [keyless : BOOLEAN, held : Vaults]
    /\ reply.code \in {"none", "4xx", "403", "500", "served", "governed"}
    /\ reply.code \in {"403", "served"} => reply.decision \in Decisions

\* Whether the document, read by hand, permits the request: no rule before the
\* first one that applies counts, its dry-run demand does, and a document that
\* does not parse permits nothing.
Permits(doc, ctx) ==
    /\ doc.wellformed
    /\ \/ \E i \in DOMAIN doc.rules :
            /\ Matches(doc.rules[i], ctx)
            /\ \A j \in DOMAIN doc.rules : Matches(doc.rules[j], ctx) => i <= j
            /\ doc.rules[i].dry_run_first => ctx.dry_run
       \/ /\ \A i \in DOMAIN doc.rules : ~Matches(doc.rules[i], ctx)
          /\ doc.fallback = "allow"

\* A request is served exactly when the file the daemon started with permits
\* it, however the file has changed since: a malformed file serves nothing, and
\* the first applicable rule decides ("first hit wins", policy_engine.evaluate).
ServedIffPermitted ==
    /\ reply.code = "served" => Permits(loadedFrom, reply.ctx)
    /\ reply.code = "403" => ~Permits(loadedFrom, reply.ctx)

\* The policy_hash of a receipt's governance block identifies the document that
\* allowed the run, also when the file on disk is another one by then.
HashNamesDecidingPolicy ==
    reply.code = "served" => Permits(reply.governance.policy_hash, reply.ctx)

\* Under the packaged policy a real (not dry) run of an irreversible action, as
\* receipt_v2 lists them, leaves an approval at level L2 or above on record, by the
\* key the vault holds at that request and not by one it held before.  It is
\* served unapproved only where no key was there to be found: the signer is
\* missing, or the vault held none and none could be saved, or could not be read.
IrreversibleIsApproved ==
    (/\ reply.code = "served" /\ loadedFrom = DefaultPolicy
     /\ reply.governance.irreversible /\ ~reply.ctx.dry_run)
        => \/ \E i \in DOMAIN reply.governance.approval_chain :
                LET entry == reply.governance.approval_chain[i]
                IN  /\ entry.approver_pubkey = atGate.held
                    /\ entry.approver_authority_level \in {"L2", "L3"}
           \/ /\ reply.governance.approval_chain = <<>>
              /\ atGate.keyless

\* "`approval_chain` is [] when no approval actually occurred (dry run, L1
\* auto-approve, unmatched fallback-allow)" (build_governance_block) leaves out the
\* second case above, and does not hold: a run that needs approval and finds no
\* key is served with an empty chain.
EmptyChainNeededNone ==
    reply.code = "served" /\ reply.governance.approval_chain = <<>>
        => reply.ctx.dry_run \/ ~reply.decision.requires_approval
=============================================================================
