--------------------------- MODULE MCOAuthRefresh ---------------------------
(* Two processes that share one account, for each provider family. *)
EXTENDS OAuthRefresh, TLC

CONSTANTS proxy, console

MCProcs == {proxy, console}
MCKinds == {"anthropic", "xai", "generic"}
MCSymmetry == Permutations(MCProcs)
=============================================================================
