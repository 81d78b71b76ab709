---------------------------- MODULE MCGovernedRun ----------------------------
(* Three runs under the packaged policy's kinds of rule: one denied unless it  *)
(* is a dry run, one that needs an approval, and the fallback.                 *)
EXTENDS GovernedRun, TLC

CONSTANTS r1, r2, r3

Rule(id, action, sensitivity, authority, dryRunFirst) ==
    [ id |-> id, action_type |-> action, data_sensitivity |-> sensitivity,
      approval_authority |-> authority, dry_run_first |-> dryRunFirst ]

MCEngine == LoadEngine(
    [ wellformed |-> TRUE, default_authority_level |-> "L1",
      rules |-> << Rule("pii", Unconstrained, OneOf({"pii"}), "L2", TRUE),
                   Rule("phi", Unconstrained, OneOf({"phi"}), "L3", FALSE) >>,
      fallback |-> "allow" ])

Ctx(action, sensitivity, dryRun) ==
    [action_type |-> action, data_sensitivity |-> sensitivity, dry_run |-> dryRun]

\* audit always runs dry; a client of the daemon chooses.
MCRequests ==
    [ kind \in Kinds |->
        CASE kind \in {"build", "compile"} ->
                {Ctx("build", s, FALSE) : s \in {None, "pii", "phi"}}
          [] kind \in {"interpret", "ask"} ->
                {Ctx("interpret", s, FALSE) : s \in {None, "phi"}}
          [] kind = "audit" -> {Ctx("audit", "phi", TRUE)} ]

\* Of the work a kind does: one flow that passes, one that is denied, and an
\* audit whose approval its dry run makes unnecessary.
NoApproval ==
    LET action(kind) == IF kind \in {"build", "compile"} THEN "build" ELSE "interpret"
    IN  [ kind \in Kinds |->
            IF kind = "audit" THEN {Ctx("audit", "phi", TRUE)}
            ELSE {Ctx(action(kind), None, FALSE), Ctx(action(kind), "pii", FALSE)} ]

MCRuns == {r1, r2, r3}

InterpretAuditAsk == r1 :> "interpret" @@ r2 :> "audit" @@ r3 :> "ask"
BuildCompile == r1 :> "build" @@ r2 :> "compile"
BuildBuild == r1 :> "build" @@ r2 :> "build"

TwoRuns == {r1, r2}

\* Two builds may be exchanged.
BuildSymmetry == Permutations(TwoRuns)
=============================================================================
