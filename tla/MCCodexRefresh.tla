---------------------------- MODULE MCCodexRefresh ----------------------------
(***************************************************************************)
(* Instances of CodexRefresh for TLC.                                      *)
(***************************************************************************)
EXTENDS CodexRefresh, TLC

CONSTANTS ana, bob          \* account ids
CONSTANTS first, second     \* processes

(* Two accounts with one refresh token, or with one each.                  *)
SharedOrOwn == {[id \in {ana, bob} |-> 1], [id \in {ana, bob} |-> IF id = ana THEN 1 ELSE 2]}
Shared == {[id \in {ana, bob} |-> 1]}

(* All callers in one process; every caller in a process of its own.       *)
CONSTANTS c1, c2            \* callers
OneProcess == [c \in Callers |-> first]
OwnProcess == [c \in Callers |-> IF c = c1 THEN first ELSE second]

Symmetry == Permutations(Callers)
===============================================================================
