---------------------------- MODULE PoolRotation ----------------------------
(***************************************************************************)
(* codex/pool-rotation.ts: the smooth weighted round-robin ring of one     *)
(* account pool, as operators over the ring's record.  Every account has   *)
(* weight 1 in the code.                                                   *)
(*                                                                         *)
(* A missing ring (no entry in selectionState) behaves as EmptyRing.       *)
(***************************************************************************)
EXTENDS Integers, FiniteSets

CONSTANTS
    Accounts,       \* the main login and the accounts of config.codexAccounts
    NoAccount,      \* undefined
    StickyLimit,    \* config.accountPoolStickyLimit
    ListRank        \* position in the list of candidates: the main login, then
                    \* config.codexAccounts in order

ASSUME RotationAssumption ==
    /\ IsFiniteSet(Accounts)
    /\ NoAccount \notin Accounts
    /\ StickyLimit \in Nat \ {0}
    /\ ListRank \in [Accounts -> Nat]
    /\ \A a, b \in Accounts : ListRank[a] = ListRank[b] => a = b

Ring == [
    key    : Accounts \cup {NoAccount},     \* activeKey
    wins   : Nat,                           \* successes
    weight : [Accounts -> Int] ]            \* currentWeights

EmptyRing == [key |-> NoAccount, wins |-> 0, weight |-> [a \in Accounts |-> 0]]

(* smoothWeightedIndex scans the list and keeps the first highest score.   *)
Heaviest(ring, eligible) ==
    CHOOSE a \in eligible : \A b \in eligible \ {a} :
        \/ ring.weight[a] > ring.weight[b]
        \/ ring.weight[a] = ring.weight[b] /\ ListRank[a] < ListRank[b]

Reweigh(ring, eligible, winner) ==
    [a \in Accounts |->
        IF a \notin eligible THEN ring.weight[a]
        ELSE ring.weight[a] + 1 - IF a = winner THEN Cardinality(eligible) ELSE 0]

(* pickRoundRobinAccount: the account and the ring after the pick.  With   *)
(* an eligible sticky account the ring does not turn.                      *)
RotationPick(ring, eligible) ==
    IF eligible = {} THEN [account |-> NoAccount, ring |-> ring]
    ELSE IF ring.key \in eligible THEN [account |-> ring.key, ring |-> ring]
    ELSE LET winner == Heaviest(ring, eligible)
         IN  [account |-> winner,
              ring |-> [key    |-> IF StickyLimit > 1 THEN winner ELSE NoAccount,
                        wins   |-> 0,
                        weight |-> Reweigh(ring, eligible, winner)]]

(* notePoolRotationSuccess *)
RotationSuccess(ring, a) ==
    LET wins == IF ring.key = a THEN ring.wins + 1 ELSE 1
    IN  IF wins >= StickyLimit
        THEN [ring EXCEPT !.key = NoAccount, !.wins = 0]
        ELSE [ring EXCEPT !.key = a, !.wins = wins]

(* notePoolRotationFailure *)
RotationFailure(ring, a) ==
    IF ring.key = a THEN [ring EXCEPT !.key = NoAccount, !.wins = 0] ELSE ring

(* seedPoolRotationAccount *)
RotationSeed(a) == [EmptyRing EXCEPT !.key = a]
=============================================================================
