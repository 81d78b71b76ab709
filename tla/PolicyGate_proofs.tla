-------------------------- MODULE PolicyGate_proofs --------------------------
(***************************************************************************)
(* Proofs about PolicyEngine and PolicyGate, for any policy files of any    *)
(* length and any requests.  The core is that the engine, which keeps a     *)
(* validated copy of the rules and searches them, decides as the document   *)
(* itself reads; the rest is that the daemon goes on using that engine.     *)
(***************************************************************************)
EXTENDS PolicyGate, WellFoundedInduction, TLAPS

----------------------------------------------------------------------------
(* The engine and the document.                                             *)

\* A set of natural numbers has a least element.
LEMMA Least ==
  ASSUME NEW S, S \subseteq Nat, S # {}
  PROVE  \E i \in S : \A j \in S : i <= j
<1> DEFINE R == OpToRel(<, Nat)
<1>1. IsWellFoundedOn(R, Nat)
  BY NatLessThanWellFounded
<1> HIDE DEF R
<1>2. PICK i \in S : \A j \in S : ~(<<j, i>> \in R)
  BY <1>1, WFMin
<1>3. \A j \in S : i <= j
  <2> SUFFICES ASSUME NEW j \in S PROVE i <= j
    OBVIOUS
  <2>1. i \in Nat /\ j \in Nat /\ ~(<<j, i>> \in R)
    BY <1>2
  <2>2. ~(j < i)
    BY <2>1 DEF R, OpToRel
  <2> QED
    BY <2>1, <2>2
<1> QED
  BY <1>2, <1>3

\* Where some rule applies, FirstHit is the first that does.
LEMMA FirstHitIsFirst ==
  ASSUME NEW rules, DOMAIN rules \subseteq Nat, NEW ctx, Hits(rules, ctx) # {}
  PROVE  /\ FirstHit(rules, ctx) \in Hits(rules, ctx)
         /\ \A j \in Hits(rules, ctx) : FirstHit(rules, ctx) <= j
<1>1. \E i \in Hits(rules, ctx) : \A j \in Hits(rules, ctx) : i <= j
  BY Least DEF Hits
<1> QED
  BY <1>1 DEF FirstHit

\* What _build_policy changes in a rule is not what decides whether it applies.
LEMMA BuildKeepsRules ==
  ASSUME NEW doc, doc.rules \in Seq(RuleTexts), NEW ctx
  PROVE  /\ DOMAIN BuildPolicy(doc).rules = DOMAIN doc.rules
         /\ \A i \in DOMAIN doc.rules :
               /\ Matches(BuildPolicy(doc).rules[i], ctx) <=> Matches(doc.rules[i], ctx)
               /\ BuildPolicy(doc).rules[i].dry_run_first = doc.rules[i].dry_run_first
         /\ BuildPolicy(doc).fallback = ValidateFallback(doc.fallback)
<1>1. \A i \in DOMAIN doc.rules : doc.rules[i] \in RuleTexts
  OBVIOUS
<1>2. /\ BuildPolicy(doc).rules = [i \in DOMAIN doc.rules |-> BuildRule(doc.rules[i])]
      /\ BuildPolicy(doc).fallback = ValidateFallback(doc.fallback)
  BY DEF BuildPolicy
<1>3. ASSUME NEW rule \in RuleTexts
      PROVE  /\ BuildRule(rule).action_type = rule.action_type
             /\ BuildRule(rule).data_sensitivity = rule.data_sensitivity
             /\ BuildRule(rule).dry_run_first = rule.dry_run_first
  BY DEF BuildRule, RuleTexts
<1> QED
  BY <1>1, <1>2, <1>3 DEF Matches

\* The engine of a document allows a request exactly when the document, read
\* by hand, permits it (PolicyEngine.__init__ and evaluate).
THEOREM EngineReadsTheDocument ==
  ASSUME NEW doc, doc.wellformed \in BOOLEAN, doc.rules \in Seq(RuleTexts),
         NEW ctx, ctx.dry_run \in BOOLEAN
  PROVE  Evaluate(LoadEngine(doc), ctx).allow <=> Permits(doc, ctx)
<1> DEFINE built == BuildPolicy(doc).rules
<1>1. /\ DOMAIN built = DOMAIN doc.rules /\ DOMAIN built \subseteq Nat
      /\ \A i \in DOMAIN doc.rules :
            /\ Matches(built[i], ctx) <=> Matches(doc.rules[i], ctx)
            /\ built[i].dry_run_first = doc.rules[i].dry_run_first
            /\ doc.rules[i].dry_run_first \in BOOLEAN
      /\ BuildPolicy(doc).fallback = ValidateFallback(doc.fallback)
  <2>1. DOMAIN doc.rules \subseteq Nat
    OBVIOUS
  <2>2. \A i \in DOMAIN doc.rules : doc.rules[i] \in RuleTexts
    OBVIOUS
  <2>3. \A i \in DOMAIN doc.rules : doc.rules[i].dry_run_first \in BOOLEAN
    BY <2>2 DEF RuleTexts
  <2> QED
    BY <2>1, <2>3, BuildKeepsRules
<1>2. CASE ~doc.wellformed
  BY <1>2 DEF LoadEngine, Evaluate, Rejection, Permits
<1>3. CASE doc.wellformed
  <2>1. /\ LoadEngine(doc).failed = FALSE
        /\ LoadEngine(doc).policy = BuildPolicy(doc)
    BY <1>3 DEF LoadEngine
  <2>2. CASE Hits(built, ctx) # {}
    <3> DEFINE k == FirstHit(built, ctx)
    <3>1. k \in Hits(built, ctx) /\ \A j \in Hits(built, ctx) : k <= j
      BY <1>1, <2>2, FirstHitIsFirst
    <3>2. Evaluate(LoadEngine(doc), ctx)
            = DecideByRule(built[k], ctx, BuildPolicy(doc).default_authority_level)
      BY <2>1, <2>2 DEF Evaluate
    <3>3. Evaluate(LoadEngine(doc), ctx).allow = (ctx.dry_run \/ ~built[k].dry_run_first)
      BY <3>2 DEF DecideByRule
    <3> HIDE DEF k, built
    <3>4. /\ k \in DOMAIN doc.rules /\ k \in Nat /\ Matches(doc.rules[k], ctx)
          /\ \A j \in DOMAIN doc.rules : j \in Nat /\ (Matches(doc.rules[j], ctx) => k <= j)
      BY <1>1, <3>1 DEF Hits
    <3>5. Permits(doc, ctx) <=> (doc.rules[k].dry_run_first => ctx.dry_run)
      <4>1. ASSUME NEW i \in DOMAIN doc.rules, Matches(doc.rules[i], ctx),
                   \A j \in DOMAIN doc.rules : Matches(doc.rules[j], ctx) => i <= j
            PROVE  i = k
        BY <3>4, <4>1
      <4> QED
        BY <1>3, <3>4, <4>1, Zenon DEF Permits
    <3> QED
      BY <1>1, <3>3, <3>4, <3>5
  <2>3. CASE Hits(built, ctx) = {}
    <3>1. Evaluate(LoadEngine(doc), ctx) = DecideByFallback(BuildPolicy(doc))
      BY <2>1, <2>3 DEF Evaluate
    <3>2. \A i \in DOMAIN doc.rules : ~Matches(doc.rules[i], ctx)
      BY <1>1, <2>3 DEF Hits
    <3>3. Evaluate(LoadEngine(doc), ctx).allow <=> doc.fallback = "allow"
      BY <1>1, <3>1 DEF DecideByFallback, ValidateFallback, Rejection
    <3> QED
      BY <1>3, <3>2, <3>3 DEF Permits
  <2> QED
    BY <2>2, <2>3
<1> QED
  BY <1>2, <1>3

----------------------------------------------------------------------------
(* The gate.                                                                *)

\* One outcome of a POST: what is answered when the gate finds the key pub.
Answers(ctx, pub) ==
    LET decision == Evaluate(engine, ctx)
    IN  /\ Approver(decision, ctx, pub)
        /\ reply' =
             IF decision.allow
             THEN [code |-> "served", ctx |-> ctx, decision |-> decision,
                   governance |-> GovernanceBlock(engine, decision,
                       ApprovalChain(decision, ctx.dry_run, pub), ctx.action_type)]
             ELSE [code |-> "403", ctx |-> ctx, decision |-> decision]

\* The engine stays that of the document it was loaded from, and an answer that
\* a decision stands behind was given by it.
Standing ==
    /\ userFile \in Documents \cup {Absent}
    /\ loadedFrom \in Documents \cup {DefaultPolicy}
    /\ engine = LoadEngine(loadedFrom)
    /\ vault \in Vaults
    /\ reply.code \in {"none", "4xx", "403", "500", "served", "governed"}
    /\ reply.code = "served" =>
          Permits(loadedFrom, reply.ctx) /\ reply.governance.policy_hash = loadedFrom
    /\ reply.code = "403" => ~Permits(loadedFrom, reply.ctx)

LEMMA PathIsDocument ==
  ASSUME NEW file \in Documents \cup {Absent}
  PROVE  PolicyPath(file) \in Documents \cup {DefaultPolicy}
  BY DEF PolicyPath

LEMMA StandingInit == Init => Standing
  BY PathIsDocument DEF Init, Standing, NoReply

LEMMA StandingStep == Standing /\ [Next]_vars => Standing'
<1> SUFFICES ASSUME Standing, [Next]_vars PROVE Standing'
  OBVIOUS
<1> USE DEF Standing
<1>1. CASE UNCHANGED vars
  BY <1>1 DEF vars
<1>2. CASE EditFile \/ VaultChanges
  BY <1>2 DEF EditFile, VaultChanges
<1>3. CASE Restart
  BY <1>3, PathIsDocument DEF Restart, NoReply
<1>4. CASE PostRefused
  BY <1>4 DEF PostRefused
<1>5. ASSUME NEW ctx \in Contexts, Post(ctx) PROVE Standing'
  <2> DEFINE decision == Evaluate(engine, ctx)
  <2>1. decision.allow <=> Permits(loadedFrom, ctx)
    BY EngineReadsTheDocument, DocumentsAssumption
  <2>2. vault' \in Vaults /\ UNCHANGED <<userFile, engine, loadedFrom>>
    BY <1>5 DEF Post, Approver, SigningKey, Vaults
  <2>3. \/ /\ reply'.code = "served" /\ reply'.ctx = ctx /\ Permits(loadedFrom, ctx)
           /\ reply'.governance.policy_hash = loadedFrom
        \/ reply'.code = "403" /\ reply'.ctx = ctx /\ ~Permits(loadedFrom, ctx)
    <3>1. PICK pub \in Keys \cup {None} : Answers(ctx, pub)
      BY <1>5 DEF Post, Answers
    <3> DEFINE block == GovernanceBlock(engine, decision,
                            ApprovalChain(decision, ctx.dry_run, pub), ctx.action_type)
    <3>2. block.policy_hash = loadedFrom
      BY DEF GovernanceBlock, LoadEngine
    <3>3. reply' = IF decision.allow
                   THEN [code |-> "served", ctx |-> ctx, decision |-> decision,
                         governance |-> block]
                   ELSE [code |-> "403", ctx |-> ctx, decision |-> decision]
      BY <3>1 DEF Answers
    <3> HIDE DEF decision, block
    <3> QED
      BY <2>1, <3>2, <3>3
  <2>4. Permits(loadedFrom', reply'.ctx) <=> Permits(loadedFrom, ctx)
    BY <2>2, <2>3
  <2> QED
    BY <2>2, <2>3, <2>4
<1>6. CASE GetGoverned
  BY <1>6 DEF GetGoverned
<1> QED
  BY <1>1, <1>2, <1>3, <1>4, <1>5, <1>6 DEF Next

LEMMA StandingHolds == Spec => []Standing
  BY StandingInit, StandingStep, PTL DEF Spec

\* However governance.yml is edited, broken or removed while the daemon runs,
\* a request is served exactly when the document of its start permits it.
THEOREM ServedAsPermitted == Spec => []ServedIffPermitted
<1>1. Standing => ServedIffPermitted
  BY DEF Standing, ServedIffPermitted
<1> QED
  BY <1>1, StandingHolds, PTL

\* The hash in a receipt's governance block is of a document that permits the
\* run, whatever the file holds by the time it is read.
THEOREM HashNamesPolicy == Spec => []HashNamesDecidingPolicy
<1>1. Standing => HashNamesDecidingPolicy
  BY DEF Standing, HashNamesDecidingPolicy
<1> QED
  BY <1>1, StandingHolds, PTL

----------------------------------------------------------------------------
(* The packaged policy.                                                     *)

\* Where a rule applies and asks for approval, as do all before it, a run that is
\* allowed is one that needs it, at that level.
LEMMA ApprovalIsAsked ==
  ASSUME NEW doc, doc.wellformed, doc.rules \in Seq(RuleTexts), NEW ctx,
         NEW i \in DOMAIN doc.rules, Matches(doc.rules[i], ctx),
         \A j \in 1 .. i : doc.rules[j].approval_authority \in {"L2", "L3"}
  PROVE  /\ Evaluate(LoadEngine(doc), ctx).requires_approval
         /\ Evaluate(LoadEngine(doc), ctx).authority_level \in {"L2", "L3"}
<1> DEFINE built == BuildPolicy(doc).rules
           k == FirstHit(built, ctx)
<1>1. /\ DOMAIN built = DOMAIN doc.rules
      /\ \A j \in DOMAIN doc.rules : Matches(built[j], ctx) <=> Matches(doc.rules[j], ctx)
      /\ \A j \in DOMAIN doc.rules : doc.rules[j] \in RuleTexts /\ j \in Nat \ {0}
  <2>1. \A j \in DOMAIN doc.rules : doc.rules[j] \in RuleTexts /\ j \in Nat \ {0}
    OBVIOUS
  <2> QED
    BY <2>1, BuildKeepsRules
<1>2. i \in Hits(built, ctx) /\ DOMAIN built \subseteq Nat
  BY <1>1 DEF Hits
<1>3. k \in Hits(built, ctx) /\ k <= i
  BY <1>2, FirstHitIsFirst
<1>4. Evaluate(LoadEngine(doc), ctx)
        = DecideByRule(built[k], ctx, BuildPolicy(doc).default_authority_level)
  BY <1>2 DEF Evaluate, LoadEngine
<1>5. k \in DOMAIN doc.rules /\ k \in 1 .. i
  BY <1>1, <1>3 DEF Hits
<1>6. built[k].approval_authority = doc.rules[k].approval_authority
  <2>1. doc.rules[k] \in RuleTexts /\ doc.rules[k].approval_authority \in Authorities
    BY <1>1, <1>5 DEF Authorities
  <2>2. built[k] = BuildRule(doc.rules[k])
    BY <1>5 DEF BuildPolicy
  <2>3. ASSUME NEW rule \in RuleTexts, rule.approval_authority \in Authorities
        PROVE  BuildRule(rule).approval_authority = rule.approval_authority
    BY <2>3 DEF BuildRule, RuleTexts, ValidateAuthority
  <2> HIDE DEF k, built
  <2> QED
    BY <2>1, <2>2, <2>3
<1>7. built[k].approval_authority \in {"L2", "L3"} /\ built[k].approval_authority # None
  BY <1>5, <1>6, NoneAssumption DEF Authorities
<1>8. ASSUME NEW rule, NEW default,
             rule.approval_authority \in {"L2", "L3"}, rule.approval_authority # None
      PROVE  /\ DecideByRule(rule, ctx, default).requires_approval
             /\ DecideByRule(rule, ctx, default).authority_level \in {"L2", "L3"}
  <2>1. DecideByRule(rule, ctx, default).requires_approval
          = (rule.approval_authority \in {"L2", "L3"})
    BY DEF DecideByRule
  <2>2. DecideByRule(rule, ctx, default).authority_level = rule.approval_authority
    BY <1>8 DEF DecideByRule
  <2> QED
    BY <1>8, <2>1, <2>2
<1> HIDE DEF k, built
<1> QED
  BY <1>4, <1>7, <1>8

\* Where the gate asks for a key, it has the one the vault then holds, or there
\* was none as it looked.
LEMMA KeyOfTheVault ==
  ASSUME vault \in Vaults, NEW decision, NEW ctx, NEW pub \in Keys \cup {None},
         decision.allow, decision.requires_approval, ~ctx.dry_run,
         Approver(decision, ctx, pub)
  PROVE  /\ pub # None => pub = atGate'.held
         /\ pub = None => atGate'.keyless
<1>1. /\ atGate' = [keyless |-> ~signer \/ vault \notin Keys, held |-> vault']
      /\ SigningKey(pub)
  BY Zenon DEF Approver
<1>2. (pub # None => pub = vault') /\ (pub = None => (~signer \/ vault \notin Keys))
  BY <1>1, KeysAssumption DEF SigningKey, Vaults
<1>3. /\ atGate'.held = vault'
      /\ atGate'.keyless = (~signer \/ vault \notin Keys)
  BY <1>1
<1> QED
  BY <1>2, <1>3, Zenon

\* A run of an irreversible action that the packaged policy allows is one that
\* needs approval at L2 or above.
LEMMA IrreversibleAsks ==
  ASSUME Standing, loadedFrom = DefaultPolicy, NEW ctx \in Contexts,
         ctx.action_type \in Irreversible, Evaluate(engine, ctx).allow
  PROVE  /\ Evaluate(engine, ctx).requires_approval
         /\ Evaluate(engine, ctx).authority_level \in {"L2", "L3"}
<1>1. /\ DefaultPolicy.rules \in Seq(RuleTexts) /\ DefaultPolicy.wellformed \in BOOLEAN
      /\ engine = LoadEngine(DefaultPolicy)
  BY DocumentsAssumption DEF Standing
<1>2. DefaultPolicy.wellformed
  BY <1>1 DEF LoadEngine, Evaluate, Rejection
<1>3. PICK i \in DOMAIN DefaultPolicy.rules :
        /\ Matches(DefaultPolicy.rules[i], ctx)
        /\ \A j \in 1 .. i : DefaultPolicy.rules[j].approval_authority \in {"L2", "L3"}
  BY PackagedAssumption DEF Matches, Admits
<1> QED
  BY <1>1, <1>2, <1>3, ApprovalIsAsked

LEMMA PostIsApproved ==
  ASSUME Standing, NEW ctx \in Contexts, Post(ctx)
  PROVE  IrreversibleIsApproved'
<1> SUFFICES ASSUME reply'.code = "served", loadedFrom' = DefaultPolicy,
                    reply'.governance.irreversible, ~reply'.ctx.dry_run
             PROVE  \/ \E i \in DOMAIN reply'.governance.approval_chain :
                          /\ reply'.governance.approval_chain[i].approver_pubkey = atGate'.held
                          /\ reply'.governance.approval_chain[i].approver_authority_level
                                \in {"L2", "L3"}
                    \/ reply'.governance.approval_chain = <<>> /\ atGate'.keyless
  BY DEF IrreversibleIsApproved
<1> DEFINE decision == Evaluate(engine, ctx)
<1>1. PICK pub \in Keys \cup {None} : Answers(ctx, pub)
  BY DEF Post, Answers
<1> DEFINE chain == ApprovalChain(decision, ctx.dry_run, pub)
           block == GovernanceBlock(engine, decision, chain, ctx.action_type)
<1>2. /\ block.approval_chain = chain
      /\ block.irreversible <=> ctx.action_type \in Irreversible
  BY DEF GovernanceBlock
<1>3. /\ Approver(decision, ctx, pub)
      /\ reply' = IF decision.allow
                  THEN [code |-> "served", ctx |-> ctx, decision |-> decision,
                        governance |-> block]
                  ELSE [code |-> "403", ctx |-> ctx, decision |-> decision]
  BY <1>1 DEF Answers
<1>4. loadedFrom = DefaultPolicy
  BY DEF Post
<1>5. decision.allow /\ reply'.ctx = ctx /\ reply'.governance = block
  <2> HIDE DEF decision, block
  <2> QED
    BY <1>3
<1>6. /\ decision.allow /\ ctx.action_type \in Irreversible /\ ~ctx.dry_run
      /\ reply'.governance.approval_chain = chain
  <2> HIDE DEF decision, chain, block
  <2> QED
    BY <1>2, <1>5
<1>7. decision.requires_approval /\ decision.authority_level \in {"L2", "L3"}
  BY <1>4, <1>6, IrreversibleAsks
<1> HIDE DEF decision
<1>8. (pub # None => pub = atGate'.held) /\ (pub = None => atGate'.keyless)
  BY <1>3, <1>6, <1>7, KeyOfTheVault DEF Standing
<1>9. chain = IF pub # None
              THEN <<[approver_pubkey |-> pub,
                      approver_authority_level |-> decision.authority_level]>>
              ELSE <<>>
  BY <1>6, <1>7 DEF ApprovalChain, Authorities
<1> HIDE DEF chain
<1> QED
  BY <1>6, <1>7, <1>8, <1>9

\* However the policy file and the vault change between the requests: an irreversible
\* real run the packaged policy lets through has an approval at L2 or above on record,
\* by the key the vault holds at that request, or there was no key to be found.
THEOREM IrreversibleApproved == Spec => []IrreversibleIsApproved
<1>1. Init => IrreversibleIsApproved
  BY DEF Init, NoReply, IrreversibleIsApproved
<1>2. Standing /\ IrreversibleIsApproved /\ [Next]_vars => IrreversibleIsApproved'
  <2> SUFFICES ASSUME Standing, IrreversibleIsApproved, [Next]_vars
               PROVE  IrreversibleIsApproved'
    OBVIOUS
  <2>1. CASE UNCHANGED vars
    BY <2>1 DEF vars, IrreversibleIsApproved
  <2>2. CASE EditFile \/ VaultChanges
    BY <2>2 DEF EditFile, VaultChanges, IrreversibleIsApproved
  <2>3. ASSUME Restart \/ PostRefused \/ GetGoverned PROVE reply'.code # "served"
    BY <2>3 DEF Restart, NoReply, PostRefused, GetGoverned
  <2>4. ASSUME NEW ctx \in Contexts, Post(ctx) PROVE IrreversibleIsApproved'
    BY <2>4, PostIsApproved
  <2> QED
    BY <2>1, <2>2, <2>3, <2>4 DEF Next, IrreversibleIsApproved
<1> QED
  BY <1>1, <1>2, StandingHolds, StandingInit, PTL DEF Spec

=============================================================================
