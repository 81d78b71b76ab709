--------------------------- MODULE MCMarketSession ---------------------------
(* Two commands at a time; which of the two is which makes no difference.      *)
EXTENDS MarketSession, TLC

Either == Permutations(Procs)
=============================================================================
