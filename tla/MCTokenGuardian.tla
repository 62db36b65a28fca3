-------------------------- MODULE MCTokenGuardian ---------------------------
(* One process with one account, for each provider family. *)
EXTENDS TokenGuardian

CONSTANT proxy

MCProcs == {proxy}
MCKinds == {"anthropic", "xai", "generic"}
=============================================================================
