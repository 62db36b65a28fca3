------------------------------ MODULE Failover ------------------------------
(***************************************************************************)
(* A combo and the key pool of one of its providers                        *)
(* (src/combos/resolve.ts, src/combos/failover.ts,                         *)
(* src/providers/key-failover.ts, src/providers/api-keys.ts, and the two   *)
(* loops of src/server/responses/core.ts that use them).                   *)
(*                                                                         *)
(* A combo request tries one target after the other.  A target of the      *)
(* pooled provider is tried with one key after the other.  Between the     *)
(* steps of a request others run: the ring of the combo, the cooldowns of  *)
(* its targets, the pool's live key and the cooldowns of its keys are      *)
(* shared by all.                                                          *)
(*                                                                         *)
(* An entry of the pool is a key or a reference "${NAME}" to one in the    *)
(* environment.  The router resolves the reference; the pool compares and  *)
(* hands out the text.                                                     *)
(***************************************************************************)
EXTENDS Integers, Sequences, FiniteSetsExt, SequencesExt

CONSTANTS
    Requests,    \* combo requests under way at once
    Keys,        \* entries the pool may have
    Pool,        \* those it has at first, in their order
    References,  \* those that refer to the environment
    Order,       \* the combo's targets in their configured order
    Keyed,       \* those on the pooled provider
    Readers,     \* those that can read an encrypted agent task
    Weight,      \* of each target
    None,        \* no key, no target
    StickyLimit, \* successes before round-robin turns
    MaxEdits     \* bound: changes by the operator

Targets == Range(Order)

ASSUME FailoverConstants ==
    /\ Order \in Seq(Targets) /\ IsInjective(Order) /\ Order # <<>>
    /\ Keyed \subseteq Targets /\ Readers \subseteq Targets /\ Readers # {}
    /\ Pool \in Seq(Keys) /\ IsInjective(Pool) /\ Pool # <<>>
    /\ References \subseteq Keys /\ None \notin Keys \cup Targets
    /\ Weight \in [Targets -> Nat \ {0}]
    /\ StickyLimit \in Nat \ {0} /\ MaxEdits \in Nat

TotalWeight(ts) == MapThenSumSet(LAMBDA t : Weight[t], ts)

VARIABLES
    strategy, \* "failover" or "round-robin"
    ring,     \* selectionState of the combo
    resting,  \* targetCooldowns: the targets that cool
    pool,     \* the provider's pool, live key and key cooldowns
    req,      \* each request's state
    refused,  \* observer: keys answered 429 since they last lapsed
    edits     \* changes by the operator so far

hopVars == <<strategy, ring, resting, pool, req, refused, edits>>

Idle == [phase |-> "idle", may |-> Targets, target |-> None,
         attempted |-> <<>>, key |-> None, literal |-> FALSE]

FreshRing ==
    [active |-> None, successes |-> 0, weights |-> [t \in Targets |-> 0]]

HopInit ==
    /\ strategy \in {"failover", "round-robin"}
    /\ ring = FreshRing
    /\ resting = {}
    /\ \E k \in Range(Pool) :
          pool = [keys |-> Pool, live |-> k, cooling |-> {}, owed |-> FALSE]
    /\ req = [r \in Requests |-> Idle]
    /\ refused = {}
    /\ edits = 0

-----------------------------------------------------------------------------
(* pickComboTarget: the chosen target, or None, and the ring it leaves. *)

First(ts) == Order[SelectInSeq(Order, LAMBDA t : t \in ts)]

Score(r, ts) ==
    [t \in Targets |-> r.weights[t] + IF t \in ts THEN Weight[t] ELSE 0]

Best(score, ts) == First({t \in ts : \A u \in ts : score[u] <= score[t]})

(* fault: a target that may not be tried counts in the total. *)
SmoothOverAll(r, ts) ==
    LET score == Score(r, ts)
        best == Best(score, ts)
    IN  [active |-> best, successes |-> 0,
         weights |-> [score EXCEPT ![best] = @ - TotalWeight(Targets)]]

(* smoothWeightedIndex, and the sticky run it starts. *)
Smooth(r, ts) ==
    LET score == Score(r, ts)
        best == Best(score, ts)
    IN  [active |-> best, successes |-> 0,
         weights |-> [score EXCEPT ![best] = @ - TotalWeight(ts)]]

EndRun(r) == [r EXCEPT !.active = None, !.successes = 0]

Choice(t, r) == [target |-> t, ring |-> r]

Pick(r, ts) ==
    CASE strategy = "failover" ->
            Choice(IF ts = {} THEN None ELSE First(ts), r)
      [] strategy = "round-robin" /\ r.active \in ts -> Choice(r.active, r)
      [] strategy = "round-robin" /\ r.active \notin ts ->
            IF ts = {} THEN Choice(None, EndRun(r))
            ELSE Choice(Smooth(r, ts).active, Smooth(r, ts))

(* noteComboSuccess *)
Credited(r, t) ==
    CASE r.active # t -> r
      [] r.active = t /\ r.successes + 1 >= StickyLimit -> EndRun(r)
      [] OTHER -> [r EXCEPT !.successes = @ + 1]

(* fault: a late failure ends the run of whatever is active. *)
BlamedAnyway(r, t) == EndRun(r)

(* noteComboFailure *)
Blamed(r, t) == IF r.active = t THEN EndRun(r) ELSE r

-----------------------------------------------------------------------------
(* The hop loop: handleComboResponses. *)

Proceeds(r, x) == req' = [req EXCEPT ![r] = x]

(* A request goes on to the target it picked, or ends without one. *)
GoesTo(r, x, choice) ==
    /\ ring' = choice.ring
    /\ Proceeds(r, IF choice.target = None THEN Idle
                 ELSE [x EXCEPT !.phase = "picked", !.target = choice.target,
                                !.attempted = Append(@, choice.target),
                                !.key = None, !.literal = FALSE])

StartCombo(r, may) ==
    /\ req[r].phase = "idle"
    /\ GoesTo(r, [Idle EXCEPT !.may = may], Pick(ring, may \ resting))
    /\ UNCHANGED <<strategy, resting, pool, refused, edits>>

(* routedProviderConfig: the live key, its reference resolved. *)
Dispatch(r) ==
    /\ req[r].phase = "picked"
    /\ Proceeds(r, [req[r] EXCEPT !.phase = "sent",
                    !.key = IF req[r].target \in Keyed THEN pool.live ELSE None])
    /\ UNCHANGED <<strategy, ring, resting, pool, refused, edits>>

(* The text of a reference is no key: the upstream rejects it, as it does  *)
(* a request without one.                                                  *)
HasKey(x) == x.target \in Keyed => x.key # None /\ ~x.literal

Succeeds(r) ==
    /\ req[r].phase = "sent" /\ HasKey(req[r])
    /\ ring' = IF strategy = "round-robin" THEN Credited(ring, req[r].target) ELSE ring
    /\ Proceeds(r, Idle)
    /\ UNCHANGED <<strategy, resting, pool, refused, edits>>

(* The client left, or comboFailureDecision says stop. *)
Stops(r) ==
    /\ req[r].phase \in {"picked", "sent", "failed"}
    /\ Proceeds(r, Idle)
    /\ UNCHANGED <<strategy, ring, resting, pool, refused, edits>>

(* Any failure that hops, but a 429 of a key the pool may replace.  Its    *)
(* body is read before the next target is picked.                          *)
Fails(r) ==
    /\ req[r].phase = "sent"
    /\ Proceeds(r, [req[r] EXCEPT !.phase = "failed"])
    /\ UNCHANGED <<strategy, ring, resting, pool, refused, edits>>

(* fault: only the target that just failed is excluded. *)
OpenButLast(x) == x.may \ (resting \cup {x.target})

Open(x) == x.may \ (resting \cup Range(x.attempted))

(* advanceComboAfterFailure: the ring forgets the failed target, which     *)
(* cools, and another is picked.                                           *)
Advance(r) ==
    LET x == req[r] IN
    /\ x.phase = "failed"
    /\ resting' = resting \cup {x.target}
    /\ GoesTo(r, x, Pick(Blamed(ring, x.target), Open(x)))
    /\ UNCHANGED <<strategy, pool, refused, edits>>

-----------------------------------------------------------------------------
(* The key loop: rotateKeyOn429, called with the key that was refused. *)

(* The entry of the pool with the text that was sent. *)
Pooled(k) == k \in Range(pool.keys) \ References

(* fault: the live key cools, whichever was refused. *)
CoolsLive(k) == pool.cooling \cup {pool.live}

Cooling(k) == IF Pooled(k) THEN pool.cooling \cup {k} ELSE pool.cooling

(* Somebody has rotated away from k, or its text is not that of the pool. *)
LostTheRace(k) == pool.live # k \/ k \in References

(* The entries after k in turn; without k's own, all but the last. *)
Successors(k) ==
    LET n == Len(pool.keys)
        at == IF Pooled(k) THEN SelectInSeq(pool.keys, LAMBDA e : e = k) ELSE 0
    IN  [i \in 1 .. n - 1 |-> pool.keys[((at + i - 1) % n) + 1]]

(* The key to go on with, or None. *)
Replacement(k) ==
    LET cooling == Cooling(k)
        ready == SelectInSeq(Successors(k), LAMBDA e : e \notin cooling)
    IN  IF LostTheRace(k) /\ pool.live \in Range(pool.keys) \ cooling THEN pool.live
        ELSE IF ready # 0 THEN Successors(k)[ready] ELSE None

Refused(r) ==
    LET x == req[r]
        next == Replacement(x.key)
        few == Len(pool.keys) < 2
    IN
    /\ x.phase = "sent" /\ x.target \in Keyed /\ HasKey(x)
    /\ refused' = refused \cup {x.key}
    /\ IF few \/ next = None
       THEN /\ Proceeds(r, [x EXCEPT !.phase = "failed"])
            /\ pool' = IF few THEN pool ELSE [pool EXCEPT !.cooling = Cooling(x.key)]
       ELSE /\ Proceeds(r, [x EXCEPT !.key = next, !.literal = next \in References])
            /\ pool' = [pool EXCEPT !.cooling = Cooling(x.key), !.live = next]
    /\ UNCHANGED <<strategy, ring, resting, edits>>

-----------------------------------------------------------------------------
(* Time. *)

KeyLapses(k) ==
    /\ k \in refused
    /\ refused' = refused \ {k}
    /\ pool' = [pool EXCEPT !.cooling = @ \ {k}]
    /\ UNCHANGED <<strategy, ring, resting, req, edits>>

TargetLapses(t) ==
    /\ t \in resting
    /\ resting' = resting \ {t}
    /\ UNCHANGED <<strategy, ring, pool, req, refused, edits>>

(* The operator: each change of the pool is followed, some awaits later,   *)
(* by clearKeyCooldowns.                                                   *)
Edit == edits < MaxEdits /\ edits' = edits + 1

AddKey(k) ==
    /\ Edit
    /\ pool' = [pool EXCEPT !.keys = IF k \in Range(@) THEN @ ELSE Append(@, k),
                            !.live = k, !.owed = TRUE]
    /\ UNCHANGED <<strategy, ring, resting, req, refused>>

ActivateKey(k) ==
    /\ Edit /\ k \in Range(pool.keys)
    /\ pool' = [pool EXCEPT !.live = k, !.owed = TRUE]
    /\ UNCHANGED <<strategy, ring, resting, req, refused>>

RemoveKey(k) ==
    LET rest == RemoveFirst(pool.keys, k) IN
    /\ Edit /\ k \in Range(pool.keys)
    /\ pool' = [pool EXCEPT !.keys = rest, !.owed = TRUE,
                    !.live = IF @ # k THEN @ ELSE IF rest = <<>> THEN None ELSE Head(rest)]
    /\ UNCHANGED <<strategy, ring, resting, req, refused>>

ClearKeyCooldowns ==
    /\ pool.owed
    /\ pool' = [pool EXCEPT !.cooling = {}, !.owed = FALSE]
    /\ refused' = {}
    /\ UNCHANGED <<strategy, ring, resting, req, edits>>

(* The combo is saved again: clearComboSelectionState and -Cooldowns. *)
SaveCombo ==
    /\ Edit
    /\ ring' = FreshRing
    /\ resting' = {}
    /\ UNCHANGED <<strategy, pool, req, refused>>

-----------------------------------------------------------------------------
Request(r) ==
    \/ \E may \in {Targets, Readers} : StartCombo(r, may)
    \/ Dispatch(r) \/ Succeeds(r) \/ Stops(r) \/ Fails(r) \/ Advance(r)
    \/ Refused(r)

Operator ==
    \/ \E k \in Keys : AddKey(k) \/ ActivateKey(k) \/ RemoveKey(k)
    \/ ClearKeyCooldowns \/ SaveCombo

HopNext ==
    \/ \E r \in Requests : Request(r)
    \/ \E k \in Keys : KeyLapses(k)
    \/ \E t \in Targets : TargetLapses(t)
    \/ Operator

HopSpec == HopInit /\ [][HopNext]_hopVars

-----------------------------------------------------------------------------
(* However many targets cool, and whenever, none is in debt, or owed, more *)
(* than half a turn of the ring for each of the others.                    *)
MaxDebt == ((Cardinality(Targets) - 1) * TotalWeight(Targets)) \div 2

RingRecord ==
    [active : Targets \cup {None}, successes : 0 .. StickyLimit - 1,
     weights : [Targets -> -MaxDebt .. MaxDebt]]

RequestRecord ==
    [phase : {"idle", "picked", "sent", "failed"}, may : {Targets, Readers},
     target : Targets \cup {None}, attempted : Seq(Targets),
     key : Keys \cup {None}, literal : BOOLEAN]

PoolRecord ==
    [keys : Seq(Keys), live : Keys \cup {None}, cooling : SUBSET Keys,
     owed : BOOLEAN]

HopTypeOK ==
    /\ strategy \in {"failover", "round-robin"}
    /\ ring \in RingRecord
    /\ resting \subseteq Targets
    /\ pool \in PoolRecord
    /\ req \in [Requests -> RequestRecord]
    /\ refused \subseteq Keys
    /\ edits \in 0 .. MaxEdits

(* However requests interleave and cooldowns lapse, no request tries a     *)
(* target twice, so it hops at most once per target.                       *)
NoTargetTwice ==
    \A r \in Requests : IsInjective(req[r].attempted)

(* A sticky run is not disturbed by late news of another target: a request *)
(* that ends, or hops away from a target it failed on, leaves the run as   *)
(* it is, unless the run's target cools or was tried by this request too.  *)
(* So a request that may not use the run's target is excused: it ends the  *)
(* run for everybody, and does so in the code.                             *)
StickyRunsLast ==
    [][\A r \in Requests :
          /\ req[r].phase # "idle" /\ req'[r] # req[r]
          /\ ring.active \notin {None, req[r].target}
          /\ ring.active \in Open(req[r])
          => ring' = ring]_hopVars

(* An answer 429 costs the key it was given to, and no other: a key cools, *)
(* and the live key is left, only if it was refused itself, however many   *)
(* requests were under way with the old key (rotateKeyOn429).              *)
InnocentKeyStaysLive ==
    [][/\ pool'.cooling \subseteq refused'
       /\ pool'.live # pool.live => pool.live \in refused' \/ edits' # edits]_hopVars

(* The key that failed cools: "Cool the key that ACTUALLY failed." *)
FailedKeyIsCooled ==
    Len(pool.keys) >= 2 => refused \cap Range(pool.keys) \subseteq pool.cooling
=============================================================================
