----------------------------- MODULE MCOrgVault -----------------------------
(* Configurations an admin may store: one for each driver that writes, and    *)
(* one that load_driver refuses.  Which run is which makes no difference.      *)
EXTENDS OrgVault, TLC

Local == [driver |-> "local", endpoint |-> "absent", ref |-> "empty", complete |-> TRUE]
Share == [Local EXCEPT !.driver = "network_share"]
Bucket == [Local EXCEPT !.driver = "s3", !.ref = "vault_env"]
PlainHttp == [Bucket EXCEPT !.endpoint = "http"]

MCOffers == {Local, Share, Bucket, PlainHttp}

RunsAndInodes == Permutations(Writers) \cup Permutations(Inodes)
=============================================================================
