---------------------------- MODULE MCSealedVault ----------------------------
(* Nothing in the vault tells processes, secrets or passphrases apart.      *)
EXTENDS SealedVault, TLC

Symmetry == Permutations(Procs) \cup Permutations(Secrets) \cup Permutations(Passphrases)
=============================================================================
