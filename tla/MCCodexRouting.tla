--------------------------- MODULE MCCodexRouting ---------------------------
(* Model checking of CodexRouting.  The list order and the name order of    *)
(* the accounts differ, and the usages straddle the threshold.              *)
EXTENDS CodexRouting, TLC

CONSTANTS main, ana, bob
MCListRank == [x \in Accounts |-> CASE x = main -> 1 [] x = bob -> 2 [] x = ana -> 3]
MCNameRank == [x \in Accounts |-> CASE x = main -> 1 [] x = ana -> 2 [] x = bob -> 3]
MCInitialUsage == {[x \in Accounts |-> IF x = bob THEN UnknownUsage ELSE 1]}
MCSoftAvoidMs == <<1, 3>>
MCQuotaMetas == {NoMeta}
Symmetry == Permutations(Requests)
=============================================================================
