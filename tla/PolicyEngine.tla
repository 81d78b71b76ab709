---------------------------- MODULE PolicyEngine ----------------------------
(***************************************************************************)
(* governance/policy_engine.py, policy_schema.py and receipt_v2.py: what a  *)
(* governance.yml means, as pure operators.  The YAML text is abstracted to *)
(* the document it parses to, and the sha256 of the file to that document:  *)
(* two files have one hash only if they say the same.                       *)
(*                                                                          *)
(* A document is what the file says, valid or not.  A policy is what        *)
(* _build_policy keeps of it.  An engine is a loaded PolicyEngine object.   *)
(***************************************************************************)
EXTENDS Naturals, Sequences

CONSTANT None        \* Python's None, and the rule id "none"

Authorities == {"L1", "L2", "L3"}

ASSUME NoneAssumption == None \notin Authorities

Irreversible == {"external_send", "file_delete", "database_write"}

\* One axis of a rule's match: absent from the file, or a list of values.
Unconstrained == [any |-> TRUE, values |-> {}]

OneOf(values) == [any |-> FALSE, values |-> values]

----------------------------------------------------------------------------
(* Loading: __init__, _build_policy and the validators it calls.            *)

ValidateAuthority(level) == IF level \in Authorities THEN level ELSE None

ValidateFallback(action) == IF action = "allow" THEN "allow" ELSE "reject"

BuildRule(rule) ==
    [rule EXCEPT !.approval_authority = ValidateAuthority(@)]

BuildPolicy(doc) ==
    [ default_authority_level |->
          IF doc.default_authority_level \in Authorities
          THEN doc.default_authority_level ELSE "L1",
      rules    |-> [i \in DOMAIN doc.rules |-> BuildRule(doc.rules[i])],
      fallback |-> ValidateFallback(doc.fallback) ]

EmptyPolicy == [default_authority_level |-> "L1", rules |-> <<>>, fallback |-> "reject"]

\* The hash is taken before the parse, so a malformed file leaves its hash behind.
LoadEngine(doc) ==
    IF doc.wellformed
    THEN [failed |-> FALSE, policy |-> BuildPolicy(doc), policy_hash |-> doc]
    ELSE [failed |-> TRUE, policy |-> EmptyPolicy, policy_hash |-> doc]

----------------------------------------------------------------------------
(* Evaluation: PolicyRuleMatch.matches and PolicyEngine.evaluate.           *)

Admits(axis, value) == axis.any \/ value \in axis.values

Matches(rule, ctx) ==
    /\ Admits(rule.action_type, ctx.action_type)
    /\ Admits(rule.data_sensitivity, ctx.data_sensitivity)

Hits(rules, ctx) == {i \in DOMAIN rules : Matches(rules[i], ctx)}

FirstHit_Last(rules, ctx) ==
    CHOOSE i \in Hits(rules, ctx) : \A j \in Hits(rules, ctx) : j <= i

\* "Match rules in order; first hit wins."
FirstHit(rules, ctx) ==
    CHOOSE i \in Hits(rules, ctx) : \A j \in Hits(rules, ctx) : i <= j

RiskFromAuthority(authority) ==
    CASE authority = "L3" -> "high"
      [] authority = "L2" -> "medium"
      [] authority = "L1" -> "low"
      [] OTHER            -> "unknown"

Rejection ==
    [ allow |-> FALSE, requires_approval |-> FALSE, authority_level |-> None,
      matched_rule_id |-> None, risk_classification |-> "unknown",
      dry_run_required |-> FALSE ]

DecideByRule_OnlyL3(rule, ctx, default) ==
    [ allow               |-> ctx.dry_run \/ ~rule.dry_run_first,
      requires_approval   |-> rule.approval_authority = "L3",
      authority_level     |-> IF rule.approval_authority = None
                              THEN default ELSE rule.approval_authority,
      matched_rule_id     |-> rule.id,
      risk_classification |-> RiskFromAuthority(rule.approval_authority),
      dry_run_required    |-> rule.dry_run_first ]

DecideByRule(rule, ctx, default) ==
    [ allow               |-> ctx.dry_run \/ ~rule.dry_run_first,
      requires_approval   |-> rule.approval_authority \in {"L2", "L3"},
      authority_level     |-> IF rule.approval_authority = None
                              THEN default ELSE rule.approval_authority,
      matched_rule_id     |-> rule.id,
      risk_classification |-> RiskFromAuthority(rule.approval_authority),
      dry_run_required    |-> rule.dry_run_first ]

DecideByFallback(policy) ==
    IF policy.fallback = "allow"
    THEN [Rejection EXCEPT !.allow = TRUE,
                           !.authority_level = policy.default_authority_level]
    ELSE Rejection

Evaluate(engine, ctx) ==
    LET rules   == engine.policy.rules
        default == engine.policy.default_authority_level
    IN  IF engine.failed THEN Rejection
        ELSE IF Hits(rules, ctx) # {}
             THEN DecideByRule(rules[FirstHit(rules, ctx)], ctx, default)
             ELSE DecideByFallback(engine.policy)

----------------------------------------------------------------------------
(* The governance block of a receipt.                                       *)

\* One approval entry, made of this install's own key; none for a dry run, and
\* none when there is no signing key (pubkey = None).
ApprovalChain(decision, dry_run, pubkey) ==
    IF /\ decision.requires_approval
       /\ ~dry_run
       /\ pubkey # None
       /\ decision.authority_level \in Authorities
    THEN <<[approver_pubkey |-> pubkey,
            approver_authority_level |-> decision.authority_level]>>
    ELSE <<>>

GovernanceBlock(engine, decision, chain, action_type) ==
    [ policy_ref          |-> decision.matched_rule_id,
      policy_hash         |-> engine.policy_hash,
      approval_chain      |-> chain,
      risk_classification |-> decision.risk_classification,
      irreversible        |-> action_type \in Irreversible ]
=============================================================================
