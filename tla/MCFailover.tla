----------------------------- MODULE MCFailover -----------------------------
(* Two requests over two targets, both on a provider with a pool of two    *)
(* keys; a third entry, a reference, may be added.                         *)
EXTENDS Failover, TLC

CONSTANTS r1, r2, k1, k2, k3

MCRequests == {r1, r2}
MCOne == {r1}
MCKeys == {k1, k2, k3}
MCPool == <<k1, k2>>
MCMixedPool == <<k1, k3>>
MCReferences == {k3}
MCOrder == <<"a", "b">>
MCKeyed == {"a", "b"}
MCReaders == {"b"}
MCWeight == [t \in {"a", "b"} |-> IF t = "a" THEN 2 ELSE 1]
MCSymmetry == Permutations({r1, r2})
=============================================================================
