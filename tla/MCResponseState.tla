-------------------------- MODULE MCResponseState --------------------------
(* Small instances of ResponseState for TLC.                               *)
EXTENDS ResponseState, TLC

CONSTANTS a, b, c, none, r1, r2

MCResponses == {a, b, c}

(* A conversation grows by one a turn; a response without a name is bigger. *)
MCWeight == [n \in MCResponses |-> 1] @@ (none :> 3)

MCRequests == {r1, r2}
MCKinds == (r1 :> {"passthrough"}) @@ (r2 :> {"kiro", "translated"})
AnyKind == [r \in {r1} |-> AllKinds]

Alike == Permutations(MCResponses)
=============================================================================
