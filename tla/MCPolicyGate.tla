---------------------------- MODULE MCPolicyGate ----------------------------
(* Small documents for PolicyGate: the packaged policy, a file that does not *)
(* parse, one with invalid values, and files of no, one or two different     *)
(* rules, in either order, taken from four that overlap on both axes.        *)
EXTENDS PolicyGate, TLC

Rule(id, action, sensitivity, authority, dryRunFirst) ==
    [ id |-> id, action_type |-> action, data_sensitivity |-> sensitivity,
      approval_authority |-> authority, dry_run_first |-> dryRunFirst ]

Doc(rules, fallback) ==
    [ wellformed |-> TRUE, default_authority_level |-> "L1",
      rules |-> rules, fallback |-> fallback ]

MCDefaultPolicy ==
    Doc(<< Rule("pii_declared", Unconstrained, OneOf({"pii"}), "L2", TRUE),
         Rule("phi_declared", Unconstrained, OneOf({"phi"}), "L2", TRUE),
         Rule("secret_declared", Unconstrained, OneOf({"secret"}), "L3", TRUE),
         Rule("external_send", OneOf({"external_send"}), Unconstrained, "L2", FALSE),
         Rule("file_delete", OneOf({"file_delete"}), Unconstrained, "L2", FALSE),
         Rule("database_write", OneOf({"database_write"}), Unconstrained, "L2", FALSE) >>,
        "allow")

Malformed == [Doc(<<>>, "allow") EXCEPT !.wellformed = FALSE]

\* Values the validators replace: an unknown level and an unknown fallback.
Invalid ==
    [Doc(<<Rule("typo", OneOf({"build"}), Unconstrained, "L9", FALSE)>>, "permit")
        EXCEPT !.default_authority_level = "L0"]

SomeRules ==
    { Rule("pii", Unconstrained, OneOf({"pii", "secret"}), "L2", TRUE),
      Rule("any_build", OneOf({"build"}), Unconstrained, None, FALSE),
      Rule("build_pii", OneOf({"build"}), OneOf({"pii"}), "L1", FALSE),
      Rule("everything", Unconstrained, Unconstrained, "L3", FALSE) }

MCDocuments ==
    {Malformed, Invalid}
        \cup {Doc(<<>>, fallback) : fallback \in {"allow", "reject"}}
        \cup {Doc(<<r>>, "allow") : r \in SomeRules}
        \cup {Doc(<<r, s>>, "reject") : <<r, s>> \in {q \in SomeRules \X SomeRules : q[1] # q[2]}}

MCContexts ==
    [ action_type : {"build", "interpret", "external_send"},
      data_sensitivity : {None, "pii", "secret"}, dry_run : BOOLEAN ]

Symmetry == Permutations(Keys)
=============================================================================
