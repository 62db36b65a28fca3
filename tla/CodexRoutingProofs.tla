------------------------- MODULE CodexRoutingProofs -------------------------
(***************************************************************************)
(* Theorems of CodexRouting, for any accounts, threads, requests, usages,  *)
(* durations and bounds.                                                   *)
(*                                                                         *)
(* ServedByHealthyAccount, PinFollowsCredential and PreviewMirrorsChoice   *)
(* speak of the choice routing would make now, so they follow from the     *)
(* types of the state once every decision is known to return an account    *)
(* that it may return: a lemma per decision, bottom up.  The action        *)
(* properties need what a request in progress holds as well, Engaged.      *)
(***************************************************************************)
EXTENDS CodexRouting, FiniteSetTheorems, WellFoundedInduction, TLAPS

(* A request past its admission has an account.  One that waits for an     *)
(* alternate has picked another account after a 429, 402 or 400.           *)
Engaged ==
    \A r \in Requests :
        /\ req[r].phase # "idle" => req[r].account \in Accounts
        /\ req[r].phase = "retry" =>
              /\ req[r].alternate \in Accounts \ {req[r].account}
              /\ req[r].class \in {"quota", "caller"}

IInv == TypeOK /\ Engaged

-----------------------------------------------------------------------------
(* The choices of the code exist: the first of the least, by one measure   *)
(* or by two.                                                              *)

LEMMA LeastNumber ==
    ASSUME NEW S \in SUBSET Nat, S # {}
    PROVE  \E n \in S : \A m \in S : n <= m
<1>1. PICK n \in S : \A m \in S : ~ (<<m, n>> \in OpToRel(<, Nat))
  BY NatLessThanWellFounded, WFMin
<1>2. ASSUME NEW m \in S PROVE n <= m
  <2>1. m \in Nat /\ n \in Nat
    OBVIOUS
  <2>2. m < n => <<m, n>> \in OpToRel(<, Nat)
    BY <2>1 DEF OpToRel
  <2>3. ~ (m < n)
    BY <1>1, <2>2
  <2> QED
    BY <2>1, <2>3
<1> QED
  BY <1>2

LEMMA LeastBy ==
    ASSUME NEW S, S # {}, NEW f \in [S -> Nat]
    PROVE  \E x \in S : \A y \in S : f[x] <= f[y]
<1> DEFINE values == {f[x] : x \in S}
<1>1. values \in SUBSET Nat /\ values # {}
  OBVIOUS
<1>2. PICK n \in values : \A m \in values : n <= m
  <2> HIDE DEF values
  <2> QED
    BY <1>1, LeastNumber
<1> QED
  BY <1>2

LEMMA LeastByTwo ==
    ASSUME NEW S, S # {}, NEW f \in [S -> Nat], NEW g \in [S -> Nat],
           \A x, y \in S : g[x] = g[y] => x = y
    PROVE  \E x \in S : \A y \in S \ {x} : f[x] < f[y] \/ (f[x] = f[y] /\ g[x] < g[y])
<1>1. PICK least \in S : \A y \in S : f[least] <= f[y]
  BY LeastBy
<1> DEFINE ties == {x \in S : f[x] = f[least]}
           rank == [x \in ties |-> g[x]]
<1>2. ties # {} /\ ties \subseteq S /\ rank \in [ties -> Nat]
  OBVIOUS
<1>3. PICK x \in ties : \A y \in ties : rank[x] <= rank[y]
  <2> HIDE DEF ties, rank
  <2> QED
    BY <1>2, LeastBy
<1>4. x \in S /\ f[x] = f[least] /\ \A y \in ties : g[x] <= g[y]
  BY <1>3
<1>5. ASSUME NEW y \in S \ {x} PROVE f[x] < f[y] \/ (f[x] = f[y] /\ g[x] < g[y])
  <2>1. f[x] \in Nat /\ f[y] \in Nat /\ g[x] \in Nat /\ g[y] \in Nat /\ g[x] # g[y]
    BY <1>4
  <2>2. f[x] <= f[y]
    BY <1>1, <1>4
  <2>3. f[x] = f[y] => g[x] <= g[y]
    BY <1>4
  <2> QED
    BY <2>1, <2>2, <2>3
<1> QED
  BY <1>4, <1>5

(* Weights may be negative: a member of a finite set is heaviest when the  *)
(* fewest are heavier.                                                     *)
LEMMA MostBy ==
    ASSUME NEW S, S # {}, IsFiniteSet(S), NEW f \in [S -> Int]
    PROVE  \E x \in S : \A y \in S : f[x] >= f[y]
<1> DEFINE Above(x) == {y \in S : f[y] > f[x]}
           count == [x \in S |-> Cardinality(Above(x))]
<1>1. \A x \in S : Above(x) \in SUBSET S /\ IsFiniteSet(Above(x)) /\ Cardinality(Above(x)) \in Nat
  BY FS_Subset, FS_CardinalityType
<1>2. count \in [S -> Nat]
  BY <1>1
<1>3. PICK x \in S : \A y \in S : count[x] <= count[y]
  <2> HIDE DEF count
  <2> QED
    BY <1>2, LeastBy
<1>4. ASSUME NEW y \in S, ~ (f[x] >= f[y]) PROVE FALSE
  <2>1. f[y] > f[x] /\ f[x] \in Int /\ f[y] \in Int
    BY <1>4
  <2>2. Above(y) \in SUBSET Above(x)
    BY <2>1
  <2>3. y \in Above(x) /\ y \notin Above(y)
    BY <2>1
  <2>4. Cardinality(Above(y)) <= Cardinality(Above(x)) /\ Cardinality(Above(y)) # Cardinality(Above(x))
    <3>1. Above(y) # Above(x) /\ IsFiniteSet(Above(x))
      BY <1>1, <2>3
    <3> HIDE DEF Above
    <3> QED
      BY <2>2, <3>1, FS_Subset
  <2>5. Cardinality(Above(x)) <= Cardinality(Above(y))
    BY <1>3
  <2>6. Cardinality(Above(x)) \in Nat /\ Cardinality(Above(y)) \in Nat
    BY <1>1
  <2> HIDE DEF Above
  <2> QED
    BY <2>4, <2>5, <2>6
<1> QED
  BY <1>4

-----------------------------------------------------------------------------
(* An outcome leaves a record of health, and a 429 or 402 leaves the       *)
(* account cooling.                                                        *)

LEMMA CooldownType ==
    ASSUME NEW meta \in QuotaMeta, NEW t \in Nat
    PROVE  /\ ComputeQuotaCooldown(meta, t).until \in Nat
           /\ ComputeQuotaCooldown(meta, t).until > t
           /\ ComputeQuotaCooldown(meta, t).source \in Sources
<1> DEFINE delays == ResetDelays(meta, t)
<1>1. delays \in SUBSET (Nat \ {0}) /\ meta.retryAfter \in Nat
  BY DEF ResetDelays, QuotaMeta, Windows
<1>2. CASE meta.retryAfter > 0
  BY <1>1, <1>2, HealthAssumption
     DEF ComputeQuotaCooldown, ClampCooldown, Lesser, Greater, Sources
<1>3. CASE ~ (meta.retryAfter > 0) /\ delays # {}
  <2> DEFINE d == Shortest(delays)
  <2>1. d \in Nat \ {0}
    <3> HIDE DEF delays
    <3>1. \E n \in delays : \A m \in delays : n <= m
      BY <1>1, <1>3, LeastNumber
    <3> QED
      BY <1>1, <3>1 DEF Shortest
  <2>2. ComputeQuotaCooldown(meta, t) =
          [until |-> t + Lesser(ClampCooldown(d), ResetCap), source |-> "reset-derived"]
    BY <1>3 DEF ComputeQuotaCooldown
  <2>3. Lesser(ClampCooldown(d), ResetCap) \in Nat \ {0}
    BY <2>1, HealthAssumption DEF ClampCooldown, Lesser, Greater
  <2> HIDE DEF d
  <2> QED
    BY <2>2, <2>3 DEF Sources
<1>4. CASE ~ (meta.retryAfter > 0) /\ delays = {}
  BY <1>4, HealthAssumption DEF ComputeQuotaCooldown, Sources
<1> QED
  BY <1>2, <1>3, <1>4

LEMMA NoHealthType == NoHealth \in Health
  BY DEF NoHealth, Health, Sources

LEMMA ReleaseType ==
    ASSUME NEW h \in Health, NEW id \in Nat, NEW t \in Nat
    PROVE  ReleaseProbe(h, id, t) \in Health
  BY DEF ReleaseProbe, WithProbeReleased, Health

LEMMA PreservedType ==
    ASSUME NEW h \in Health
    PROVE  PreservedCooldown(h) \in Health
  BY DEF PreservedCooldown, Health

LEMMA WithProbeType ==
    ASSUME NEW h \in Health, NEW id \in Nat, NEW t \in Nat
    PROVE  WithProbe(h, id, t) \in Health
  BY DEF WithProbe, Health

LEMMA LiftedType ==
    ASSUME NEW h \in Health, NEW t \in Nat
    PROVE  Lifted(h, t) \in Health
<1>1. WithProbeReleased(h, t) \in Health
  BY DEF WithProbeReleased, Health
<1>2. h.gen + 1 \in Nat
  BY DEF Health
<1>3. QED
  BY <1>1, <1>2 DEF Lifted, Health, Sources

LEMMA SuccessType ==
    ASSUME NEW h \in Health, NEW id \in Nat, NEW t \in Nat
    PROVE  AfterSuccess(h, id, t) \in Health
<1>1. [ReleaseProbe(h, id, t) EXCEPT !.successes = h.successes + 1] \in Health
  BY ReleaseType DEF Health
<1>2. QED
  BY <1>1, NoHealthType, ReleaseType, PreservedType DEF AfterSuccess

LEMMA QuotaType ==
    ASSUME NEW h \in Health, NEW id \in Nat, NEW meta \in QuotaMeta, NEW t \in Nat
    PROVE  AfterQuota(h, id, meta, t) \in Health
<1> DEFINE c == ComputeQuotaCooldown(meta, t)
           p == PreservedCooldown(ReleaseProbe(h, id, t))
<1>1. c.until \in Nat /\ c.source \in Sources
  BY CooldownType
<1>2. p \in Health
  BY ReleaseType, PreservedType
<1>3. h.gen + 1 \in Nat
  BY DEF Health
<1>4. AfterQuota(h, id, meta, t) =
        [p EXCEPT !.failedAt = t, !.until = c.until, !.since = t, !.source = c.source,
                  !.gen = h.gen + 1]
  BY DEF AfterQuota
<1> HIDE DEF c, p
<1>5. QED
  BY <1>1, <1>2, <1>3, <1>4 DEF Health

LEMMA TransientType ==
    ASSUME NEW h \in Health, NEW id \in Nat, NEW t \in Nat
    PROVE  AfterTransient(h, id, t) \in Health
<1> DEFINE failures == IF StaleFailure(h, t) THEN 1 ELSE h.failures + 1
           ready == FailoverThreshold > 0 /\ failures >= FailoverThreshold
           live == IF SoftAvoided(h, t) THEN h.avoidUntil ELSE 0
           avoid == IF ready THEN Greater(live, t + SoftAvoidMs[SoftAvoidLevel(failures)])
                    ELSE 0
           base == PreservedCooldown(ReleaseProbe(h, id, t))
<1>1. failures \in Nat /\ live \in Nat
  BY DEF Health
<1>2. ready => SoftAvoidLevel(failures) \in 1 .. Len(SoftAvoidMs)
  BY <1>1, HealthAssumption DEF SoftAvoidLevel, Lesser
<1>3. avoid \in Nat
  <2>1. ready => SoftAvoidMs[SoftAvoidLevel(failures)] \in Nat
    BY <1>2, HealthAssumption
  <2>2. QED
    BY <1>1, <2>1 DEF Greater
<1>4. base \in Health
  BY ReleaseType, PreservedType
<1>5. AfterTransient(h, id, t) =
        [base EXCEPT !.failures = failures, !.failedAt = t, !.avoidUntil = avoid]
  BY DEF AfterTransient
<1> HIDE DEF failures, avoid, base
<1>6. QED
  BY <1>1, <1>3, <1>4, <1>5 DEF Health

(* Whatever the outcome, the record keeps its type.                        *)
LEMMA OutcomeType ==
    ASSUME NEW h \in Health, NEW class \in Classes, NEW id \in Nat,
           NEW meta \in QuotaMeta, NEW t \in Nat
    PROVE  AfterOutcome(h, class, id, meta, t) \in Health
<1>1. AfterCredential(t) \in Health
  BY DEF AfterCredential, NoHealth, Health, Sources
<1>2. QED
  BY <1>1, SuccessType, ReleaseType, QuotaType, TransientType
     DEF AfterOutcome, AfterCaller, Classes

-----------------------------------------------------------------------------
(* The comparisons between accounts, and the ring.                         *)

LEMMA EligibleAccounts ==
    /\ Eligible \in SUBSET Accounts /\ NoAccount \notin Eligible
    /\ IsFiniteSet(Accounts) /\ Cardinality(Accounts) \in Nat
    /\ \A S \in SUBSET Accounts : IsFiniteSet(S) /\ Cardinality(S) \in Nat
<1>1. \A S \in SUBSET Accounts : IsFiniteSet(S)
  BY RotationAssumption, FS_Subset
<1>2. \A S \in SUBSET Accounts : Cardinality(S) \in Nat
  BY <1>1, FS_CardinalityType
<1> QED
  BY <1>1, <1>2, RotationAssumption DEF Eligible

LEMMA LowestUsagePicks ==
    ASSUME TypeOK, NEW a
    PROVE  /\ Eligible \ {a} # {} => LowestUsage(a) \in Eligible \ {a}
           /\ Eligible \ {a} = {} => LowestUsage(a) = NoAccount
<1> DEFINE S == Eligible \ {a}
           f == [x \in S |-> Score(x)]
           g == [x \in S |-> ListRank[x]]
<1>1. S \in SUBSET Accounts
  BY EligibleAccounts
<1>2. f \in [S -> Nat] /\ g \in [S -> Nat]
  BY <1>1, RoutingAssumption, RotationAssumption DEF TypeOK, Score
<1>3. \A x, y \in S : g[x] = g[y] => x = y
  BY <1>1, RotationAssumption
<1>4. CASE S # {}
  <2>1. \E x \in S : \A y \in S \ {x} : f[x] < f[y] \/ (f[x] = f[y] /\ g[x] < g[y])
    <3> HIDE DEF S, f, g
    <3> QED
      BY <1>2, <1>3, <1>4, LeastByTwo
  <2>2. \E x \in S : \A y \in S \ {x} :
            \/ Score(x) < Score(y)
            \/ Score(x) = Score(y) /\ ListRank[x] < ListRank[y]
    BY <2>1
  <2>3. LowestUsage(a) = CHOOSE x \in S : \A y \in S \ {x} :
            \/ Score(x) < Score(y)
            \/ Score(x) = Score(y) /\ ListRank[x] < ListRank[y]
    BY <1>4 DEF LowestUsage
  <2> HIDE DEF S
  <2>4. LowestUsage(a) \in S
    BY <2>2, <2>3
  <2> QED
    BY <1>4, <2>4 DEF S
<1>5. CASE S = {}
  BY <1>5 DEF LowestUsage
<1> QED
  BY <1>4, <1>5

(* The account itself, or a cooler one that may be chosen.                 *)
LEMMA LowerUsagePicks ==
    ASSUME TypeOK, NEW a
    PROVE  LowerUsage(a) \in {a} \cup (Eligible \ {a})
  BY LowestUsagePicks DEF LowerUsage

LEMMA NextInOrderPicks ==
    ASSUME NEW after, NEW S \in SUBSET Accounts
    PROVE  /\ S # {} => NextInOrder(after, S) \in S
           /\ S = {} => NextInOrder(after, S) = NoAccount
<1> DEFINE fresh == {c \in S : ~ OverThreshold(c)}
           from == IF fresh # {} THEN fresh ELSE S
           f == [x \in from |-> Turn(after, x)]
<1>1. CASE S = {}
  BY <1>1 DEF NextInOrder
<1>2. CASE S # {}
  <2>1. from # {} /\ from \in SUBSET S
    BY <1>2
  <2>2. f \in [from -> Nat]
    <3>1. \A x \in from : NameRank[x] \in Nat
      BY <2>1, RoutingAssumption, EligibleAccounts
    <3>2. \A x \in from : Turn(after, x) \in Nat
      BY <3>1, EligibleAccounts DEF Turn
    <3> QED
      BY <3>2
  <2>3. \E c \in from : \A d \in from : Turn(after, c) <= Turn(after, d)
    <3>1. \E c \in from : \A d \in from : f[c] <= f[d]
      <4> HIDE DEF from, f
      <4> QED
        BY <2>1, <2>2, LeastBy
    <3> QED
      BY <3>1
  <2>4. NextInOrder(after, S) = CHOOSE c \in from : \A d \in from : Turn(after, c) <= Turn(after, d)
    BY <1>2 DEF NextInOrder
  <2> HIDE DEF from
  <2> QED
    BY <1>2, <2>1, <2>3, <2>4
<1> QED
  BY <1>1, <1>2

LEMMA HeaviestPicks ==
    ASSUME NEW ring \in Ring, NEW S \in SUBSET Accounts, S # {}
    PROVE  Heaviest(ring, S) \in S
<1> DEFINE f == [x \in S |-> ring.weight[x]]
<1>1. f \in [S -> Int] /\ IsFiniteSet(S)
  BY EligibleAccounts DEF Ring
<1>2. PICK top \in S : \A y \in S : f[top] >= f[y]
  <2> HIDE DEF f
  <2> QED
    BY <1>1, MostBy
<1> DEFINE ties == {x \in S : f[x] = f[top]}
           rank == [x \in ties |-> ListRank[x]]
<1>3. ties # {} /\ ties \in SUBSET S /\ rank \in [ties -> Nat]
  BY RotationAssumption
<1>4. PICK first \in ties : \A y \in ties : rank[first] <= rank[y]
  <2> HIDE DEF ties, rank
  <2> QED
    BY <1>3, LeastBy
<1>5. first \in S /\ ring.weight[first] = ring.weight[top]
  BY <1>1
<1>6. ASSUME NEW b \in S \ {first}
      PROVE  \/ ring.weight[first] > ring.weight[b]
             \/ ring.weight[first] = ring.weight[b] /\ ListRank[first] < ListRank[b]
  <2>1. /\ ring.weight[first] \in Int /\ ring.weight[b] \in Int
        /\ ListRank[first] \in Nat /\ ListRank[b] \in Nat /\ ListRank[first] # ListRank[b]
    BY <1>5, RotationAssumption DEF Ring
  <2>2. ring.weight[first] >= ring.weight[b]
    BY <1>2, <1>5
  <2>3. ring.weight[first] = ring.weight[b] => ListRank[first] <= ListRank[b]
    <3>1. ring.weight[first] = ring.weight[b] => b \in ties
      BY <1>5
    <3> QED
      BY <1>4, <3>1
  <2> QED
    BY <2>1, <2>2, <2>3
<1> QED
  BY <1>5, <1>6 DEF Heaviest

(* The ring names an account of the list, whenever there is one.           *)
LEMMA RotationPicks ==
    ASSUME NEW ring \in Ring, NEW S \in SUBSET Accounts
    PROVE  LET turned == RotationPick(ring, S) IN
           /\ turned.ring \in Ring
           /\ S # {} => turned.account \in S
           /\ S = {} => turned.account = NoAccount /\ turned.ring = ring
<1>1. CASE S = {}
  BY <1>1 DEF RotationPick
<1>2. CASE S # {} /\ ring.key \in S
  BY <1>2 DEF RotationPick
<1>3. CASE S # {} /\ ring.key \notin S
  <2> DEFINE winner == Heaviest(ring, S)
  <2>1. winner \in S
    BY <1>3, HeaviestPicks
  <2>2. Reweigh(ring, S, winner) \in [Accounts -> Int]
    <3>1. Cardinality(S) \in Int /\ ring.weight \in [Accounts -> Int]
      BY EligibleAccounts DEF Ring
    <3> HIDE DEF winner
    <3> QED
      BY <3>1 DEF Reweigh
  <2>3. RotationPick(ring, S) = [account |-> winner,
          ring |-> [key    |-> IF StickyLimit > 1 THEN winner ELSE NoAccount,
                    wins   |-> 0,
                    weight |-> Reweigh(ring, S, winner)]]
    BY <1>3 DEF RotationPick
  <2> HIDE DEF winner
  <2> QED
    BY <1>3, <2>1, <2>2, <2>3 DEF Ring
<1> QED
  BY <1>1, <1>2, <1>3

LEMMA RingReports ==
    ASSUME NEW ring \in Ring, NEW a \in Accounts
    PROVE  /\ RotationSuccess(ring, a) \in Ring
           /\ RotationFailure(ring, a) \in Ring
           /\ RotationFailure(ring, a).weight = ring.weight
           /\ RotationSeed(a) \in Ring
<1>1. RotationSuccess(ring, a) \in Ring
  <2> DEFINE wins == IF ring.key = a THEN ring.wins + 1 ELSE 1
  <2>1. wins \in Nat
    BY DEF Ring
  <2>2. /\ [ring EXCEPT !.key = NoAccount, !.wins = 0] \in Ring
        /\ \A n \in Nat : [ring EXCEPT !.key = a, !.wins = n] \in Ring
    BY DEF Ring
  <2> QED
    BY <2>1, <2>2 DEF RotationSuccess
<1>2. RotationFailure(ring, a) \in Ring /\ RotationFailure(ring, a).weight = ring.weight
  BY DEF RotationFailure, Ring
<1>3. RotationSeed(a) \in Ring
  BY DEF RotationSeed, EmptyRing, Ring
<1> QED
  BY <1>1, <1>2, <1>3

-----------------------------------------------------------------------------
(* Writes to the routing state, field by field.                            *)

LEMMA NoPinType == NoPin \in Pin
  BY DEF NoPin, Pin, MaybeAccount

LEMMA RouteFields ==
    ASSUME NEW rt \in Route
    PROVE  /\ rt.pins \in [Threads -> Pin]
           /\ rt.active \in MaybeAccount /\ rt.runtime \in MaybeAccount /\ rt.ring \in Ring
           /\ Effective(rt) \in MaybeAccount
  BY DEF Route, Effective

LEMMA Cursors ==
    ASSUME NEW rt \in Route, NEW a \in MaybeAccount
    PROVE  /\ SetActive(rt, a) \in Route /\ SetActive(rt, a).pins = rt.pins
           /\ SetActive(rt, a).ring = rt.ring
           /\ Remember(rt, a) \in Route /\ Remember(rt, a).pins = rt.pins
           /\ Remember(rt, a).active = rt.active /\ Remember(rt, a).ring = rt.ring
           /\ Promote(rt, a) \in Route /\ Promote(rt, a).pins = rt.pins
           /\ Promote(rt, a).ring = rt.ring
           /\ strategy # "quota" => Promote(rt, a).active = rt.active
<1>1. /\ SetActive(rt, a) \in Route /\ SetActive(rt, a).pins = rt.pins
      /\ SetActive(rt, a).ring = rt.ring
  BY DEF SetActive, Route, MaybeAccount
<1>2. /\ Remember(rt, a) \in Route /\ Remember(rt, a).pins = rt.pins
      /\ Remember(rt, a).active = rt.active /\ Remember(rt, a).ring = rt.ring
  BY DEF Remember, Route
<1> QED
  BY <1>1, <1>2 DEF Promote

LEMMA RingWrite ==
    ASSUME NEW rt \in Route, NEW ring \in Ring
    PROVE  /\ [rt EXCEPT !.ring = ring] \in Route
           /\ [rt EXCEPT !.ring = ring].pins = rt.pins
           /\ [rt EXCEPT !.ring = ring].active = rt.active
           /\ [rt EXCEPT !.ring = ring].runtime = rt.runtime
           /\ [rt EXCEPT !.ring = ring].ring = ring
  BY DEF Route

LEMMA Unpins ==
    ASSUME NEW rt \in Route
    PROVE  /\ \A t \in Threads :
                /\ Unpin(rt, t) \in Route /\ Unpin(rt, t).pins[t] = NoPin
                /\ \A u \in Threads \ {t} : Unpin(rt, t).pins[u] = rt.pins[u]
                /\ Unpin(rt, t).active = rt.active /\ Unpin(rt, t).runtime = rt.runtime
                /\ Unpin(rt, t).ring = rt.ring
           /\ \A a \in Accounts :
                /\ UnpinAccount(rt, a) \in Route
                /\ \A u \in Threads : UnpinAccount(rt, a).pins[u] =
                        IF rt.pins[u].account = a THEN NoPin ELSE rt.pins[u]
                /\ UnpinAccount(rt, a).active = rt.active
                /\ UnpinAccount(rt, a).runtime = rt.runtime
                /\ UnpinAccount(rt, a).ring = rt.ring
<1>1. ASSUME NEW pins \in [Threads -> Pin]
      PROVE  /\ [rt EXCEPT !.pins = pins] \in Route /\ [rt EXCEPT !.pins = pins].pins = pins
             /\ [rt EXCEPT !.pins = pins].active = rt.active
             /\ [rt EXCEPT !.pins = pins].runtime = rt.runtime
             /\ [rt EXCEPT !.pins = pins].ring = rt.ring
  BY DEF Route
<1>2. ASSUME NEW t \in Threads
      PROVE  /\ Unpin(rt, t) \in Route /\ Unpin(rt, t).pins[t] = NoPin
             /\ \A u \in Threads \ {t} : Unpin(rt, t).pins[u] = rt.pins[u]
             /\ Unpin(rt, t).active = rt.active /\ Unpin(rt, t).runtime = rt.runtime
             /\ Unpin(rt, t).ring = rt.ring
  BY RouteFields, NoPinType DEF Unpin, Route
<1>3. ASSUME NEW a \in Accounts
      PROVE  /\ UnpinAccount(rt, a) \in Route
             /\ \A u \in Threads : UnpinAccount(rt, a).pins[u] =
                     IF rt.pins[u].account = a THEN NoPin ELSE rt.pins[u]
             /\ UnpinAccount(rt, a).active = rt.active
             /\ UnpinAccount(rt, a).runtime = rt.runtime
             /\ UnpinAccount(rt, a).ring = rt.ring
  <2> DEFINE pins == [t \in Threads |-> IF rt.pins[t].account = a THEN NoPin ELSE rt.pins[t]]
  <2>1. pins \in [Threads -> Pin]
    BY RouteFields, NoPinType
  <2>2. UnpinAccount(rt, a) = [rt EXCEPT !.pins = pins]
    BY DEF UnpinAccount
  <2>3. \A u \in Threads : pins[u] = IF rt.pins[u].account = a THEN NoPin ELSE rt.pins[u]
    OBVIOUS
  <2> HIDE DEF pins
  <2> QED
    BY <1>1, <2>1, <2>2, <2>3
<1> QED
  BY <1>2, <1>3

(* Binding a thread touches its pin and the expired ones.                  *)
PinsBut(rt, new, t) ==
    \A u \in Threads \ {t} : new.pins[u] = rt.pins[u] \/ Expired(rt.pins[u])

PinnedTo(new, t, a) == new.pins[t].account = a /\ PinIsLive(new.pins[t])

LEMMA Binds ==
    ASSUME TypeOK, NEW rt \in Route, NEW t \in Threads \cup {NoThread}, NEW a \in Accounts
    PROVE  LET new == Bind(rt, t, a) IN
           /\ new \in Route
           /\ new.active = rt.active /\ new.runtime = rt.runtime /\ new.ring = rt.ring
           /\ PinsBut(rt, new, t)
           /\ t \in Threads /\ Usable(a) => PinnedTo(new, t, a)
<1>1. CASE t = NoThread \/ (a # Main /\ a \notin present)
  BY <1>1, RoutingAssumption DEF Bind, PinsBut, Usable
<1>2. CASE ~ (t = NoThread \/ (a # Main /\ a \notin present))
  <2> DEFINE pin == [account |-> a, gen |-> IF a = Main THEN 0 ELSE gen[a], usedAt |-> now]
             pins == [u \in Threads |-> IF u = t THEN pin
                                        ELSE IF Expired(rt.pins[u]) THEN NoPin ELSE rt.pins[u]]
  <2>1. pin \in Pin /\ PinIsLive(pin) /\ pin.account = a
    BY <1>2 DEF Pin, MaybeAccount, TypeOK, PinIsLive
  <2>2. Bind(rt, t, a) = [rt EXCEPT !.pins = pins]
    BY <1>2 DEF Bind
  <2> HIDE DEF pin
  <2>3. /\ pins \in [Threads -> Pin]
        /\ t \in Threads => pins[t] = pin
        /\ \A u \in Threads \ {t} : pins[u] = rt.pins[u] \/ Expired(rt.pins[u])
    BY <2>1, RouteFields, NoPinType
  <2> HIDE DEF pins
  <2>4. /\ [rt EXCEPT !.pins = pins] \in Route /\ [rt EXCEPT !.pins = pins].pins = pins
        /\ [rt EXCEPT !.pins = pins].active = rt.active
        /\ [rt EXCEPT !.pins = pins].runtime = rt.runtime
        /\ [rt EXCEPT !.pins = pins].ring = rt.ring
    BY <2>3 DEF Route
  <2> QED
    BY <2>1, <2>2, <2>3, <2>4 DEF PinsBut, PinnedTo
<1> QED
  BY <1>1, <1>2

-----------------------------------------------------------------------------
(* The decisions, bottom up.                                               *)

LEMMA AlternatePicks ==
    ASSUME TypeOK, NEW rt \in Route, NEW a \in Accounts
    PROVE  LET other == Alternate(rt, a) IN
           /\ other.account \in (Eligible \ {a}) \cup {NoAccount}
           /\ other.route \in Route
           /\ other.route.pins = rt.pins /\ other.route.active = rt.active
           /\ other.route.runtime = rt.runtime
<1> DEFINE S == Eligible \ {a}
           turned == RotationPick(rt.ring, S)
<1>1. S \in SUBSET Accounts
  BY EligibleAccounts
<1>2. CASE strategy = "round-robin"
  <2> DEFINE spun == [rt EXCEPT !.ring = turned.ring]
  <2>1. Alternate(rt, a) = Pick(turned.account, spun)
    BY <1>2 DEF Alternate
  <2>2. turned.account \in S \cup {NoAccount} /\ turned.ring \in Ring
    <3> HIDE DEF S
    <3> QED
      BY <1>1, RouteFields, RotationPicks
  <2> HIDE DEF turned
  <2>3. /\ spun \in Route /\ spun.pins = rt.pins
        /\ spun.active = rt.active /\ spun.runtime = rt.runtime
    BY <2>2, RingWrite
  <2> HIDE DEF spun
  <2> QED
    BY <2>1, <2>2, <2>3 DEF Pick
<1>3. CASE strategy = "fill-first"
  <2> DEFINE next == NextInOrder(a, S)
  <2>1. Alternate(rt, a) = Pick(next, rt)
    BY <1>3 DEF Alternate
  <2>2. next \in S \cup {NoAccount}
    <3> HIDE DEF S
    <3> QED
      BY <1>1, NextInOrderPicks
  <2> HIDE DEF next
  <2> QED
    BY <2>1, <2>2 DEF Pick
<1>4. CASE strategy # "round-robin" /\ strategy # "fill-first"
  <2>1. Alternate(rt, a) = Pick(LowestUsage(a), rt)
    BY <1>4 DEF Alternate
  <2> QED
    BY <2>1, LowestUsagePicks DEF Pick
<1> QED
  BY <1>2, <1>3, <1>4

LEMMA FailureFailoverPicks ==
    ASSUME TypeOK, NEW rt \in Route, NEW a \in Accounts, NEW h
    PROVE  LET final == FailureFailover(rt, a, h) IN
           /\ final.account \in {a} \cup Eligible
           /\ final.route \in Route /\ final.route.pins = rt.pins
           /\ strategy # "quota" => final.route.active = rt.active
<1> DEFINE other == Alternate(rt, a)
<1>1. /\ other.account \in Eligible \cup {NoAccount}
      /\ other.route \in Route
      /\ other.route.pins = rt.pins /\ other.route.active = rt.active
  BY AlternatePicks
<1>2. FailureFailover(rt, a, h) =
        IF ~ ShouldFailover(h, now) THEN Pick(a, rt)
        ELSE IF other.account = NoAccount THEN Pick(a, other.route)
        ELSE Pick(other.account, Promote(other.route, other.account))
  BY DEF FailureFailover
<1> HIDE DEF other
<1>3. other.account \in MaybeAccount
  BY <1>1, EligibleAccounts DEF MaybeAccount
<1>4. /\ Promote(other.route, other.account) \in Route
      /\ Promote(other.route, other.account).pins = rt.pins
      /\ strategy # "quota" => Promote(other.route, other.account).active = rt.active
  BY <1>1, <1>3, Cursors
<1> QED
  BY <1>1, <1>2, <1>4 DEF Pick

LEMMA AutoSwitchPicks ==
    ASSUME TypeOK, NEW rt \in Route, NEW a \in Accounts
    PROVE  LET switched == AutoSwitch(rt, a) IN
           /\ switched.account \in {a} \cup Eligible
           /\ switched.route \in Route /\ switched.route.pins = rt.pins
<1> DEFINE cooler == LowerUsage(a)
<1>1. cooler \in {a} \cup Eligible /\ cooler \in MaybeAccount
  BY LowerUsagePicks, EligibleAccounts DEF MaybeAccount
<1>2. AutoSwitch(rt, a) =
        IF OverThreshold(a) /\ cooler # a THEN Pick(cooler, SetActive(rt, cooler)) ELSE Pick(a, rt)
  BY DEF AutoSwitch
<1> HIDE DEF cooler
<1>3. SetActive(rt, cooler) \in Route /\ SetActive(rt, cooler).pins = rt.pins
  BY <1>1, Cursors
<1> QED
  BY <1>1, <1>2, <1>3 DEF Pick

(* What every way of serving thread t may do to the route: pins of other   *)
(* threads stay or expire, an account that may serve gets the thread under *)
(* its credential of now, and only the quota strategy writes the selection. *)
Sound(rt, t, pick) ==
    /\ pick.account \in MaybeAccount
    /\ pick.route \in Route
    /\ PinsBut(rt, pick.route, t)
    /\ t \in Threads /\ pick.account \in Eligible => PinnedTo(pick.route, t, pick.account)
    /\ strategy # "quota" => pick.route.active = rt.active

LEMMA ResolvePinnedPicks ==
    ASSUME TypeOK, NEW rt \in Route, NEW t \in Threads, KeepsPin(rt.pins[t])
    PROVE  /\ Sound(rt, t, ResolvePinned(rt, t))
           /\ ResolvePinned(rt, t).account \in Eligible
           /\ strategy # "quota" => ResolvePinned(rt, t).account = rt.pins[t].account
<1> DEFINE pin == rt.pins[t]
           a == pin.account
           cooler == LowerUsage(a)
           touched == [rt EXCEPT !.pins[t].usedAt = now]
<1>1. pin \in Pin /\ a \in Accounts /\ a \in Eligible
  BY RouteFields DEF KeepsPin, Pin, MaybeAccount, Eligible
<1>2. /\ touched \in Route
      /\ touched.pins[t].account = a /\ touched.pins[t].gen = pin.gen
      /\ \A u \in Threads \ {t} : touched.pins[u] = rt.pins[u]
      /\ touched.active = rt.active
  BY <1>1, RouteFields DEF Route, Pin, TypeOK
<1>3. cooler \in Eligible /\ cooler \in Accounts /\ Usable(cooler)
  BY <1>1, LowerUsagePicks DEF Eligible, Selectable
<1>4. ResolvePinned(rt, t) =
        IF strategy = "quota" /\ OverThreshold(a) /\ cooler # a
        THEN Pick(cooler, Bind(SetActive(touched, cooler), t, cooler))
        ELSE Pick(a, touched)
  BY DEF ResolvePinned
<1>5. PinnedTo(touched, t, a)
  BY <1>2 DEF PinnedTo, PinIsLive, KeepsPin
<1> HIDE DEF touched, cooler
<1>6. CASE strategy = "quota" /\ OverThreshold(a) /\ cooler # a
  <2> DEFINE chosen == SetActive(touched, cooler)
             new == Bind(chosen, t, cooler)
  <2>1. chosen \in Route /\ chosen.pins = touched.pins
    BY <1>2, <1>3, Cursors DEF MaybeAccount
  <2>2. new \in Route /\ PinsBut(chosen, new, t) /\ PinnedTo(new, t, cooler)
    <3> HIDE DEF chosen
    <3> QED
      BY <1>3, <2>1, Binds
  <2>3. ResolvePinned(rt, t) = Pick(cooler, new)
    BY <1>4, <1>6
  <2> HIDE DEF new, chosen
  <2>4. PinsBut(rt, new, t)
    BY <1>2, <2>1, <2>2 DEF PinsBut
  <2> QED
    BY <1>3, <1>6, <2>2, <2>3, <2>4 DEF Sound, Pick, MaybeAccount
<1>7. CASE ~ (strategy = "quota" /\ OverThreshold(a) /\ cooler # a)
  <2>1. ResolvePinned(rt, t) = Pick(a, touched)
    BY <1>4, <1>7
  <2>2. PinsBut(rt, touched, t)
    BY <1>2 DEF PinsBut
  <2> HIDE DEF pin
  <2> QED
    BY <1>1, <1>2, <1>5, <2>1, <2>2 DEF Sound, Pick, MaybeAccount, pin
<1> QED
  BY <1>6, <1>7

LEMMA FillFirstPicks ==
    ASSUME NEW rt \in Route
    PROVE  /\ Eligible # {} => FillFirst(rt) \in Eligible
           /\ Eligible = {} => FillFirst(rt) = NoAccount
  BY NextInOrderPicks, EligibleAccounts DEF FillFirst

(* Under round-robin and fill-first a new session finds an account as long *)
(* as one may be chosen; under the quota strategy this step has no say.    *)
LEMMA ResolveStrategyPicks ==
    ASSUME TypeOK, NEW rt \in Route, NEW t \in Threads \cup {NoThread}
    PROVE  LET new == ResolveStrategy(rt, t) IN
           /\ Sound(rt, t, new)
           /\ new.account \in Eligible \cup {NoAccount}
           /\ new.account = NoAccount =>
                /\ new.route = rt
                /\ strategy \in {"round-robin", "fill-first"} => Eligible = {}
           /\ strategy \notin {"round-robin", "fill-first"} => new.account = NoAccount
<1> DEFINE turned == RotationPick(rt.ring, Eligible)
           a == CASE strategy = "round-robin" -> turned.account
                  [] strategy = "fill-first" -> FillFirst(rt)
                  [] OTHER -> NoAccount
           chosen == Bind(Remember(rt, a), t, a)
<1>1. /\ turned.ring \in Ring
      /\ Eligible # {} => turned.account \in Eligible
      /\ Eligible = {} => turned.account = NoAccount
  BY RotationPicks, RouteFields, EligibleAccounts
<1>2. /\ a \in Eligible \cup {NoAccount}
      /\ strategy \in {"round-robin", "fill-first"} /\ a = NoAccount => Eligible = {}
      /\ strategy \notin {"round-robin", "fill-first"} => a = NoAccount
  <2>1. CASE strategy = "round-robin"
    <3>1. a = turned.account
      BY <2>1
    <3> HIDE DEF a, turned
    <3> QED
      BY <1>1, <2>1, <3>1, EligibleAccounts
  <2>2. CASE strategy = "fill-first"
    <3>1. a = FillFirst(rt)
      BY <2>2
    <3> HIDE DEF a, turned
    <3> QED
      BY <2>2, <3>1, EligibleAccounts, FillFirstPicks
  <2>3. CASE strategy # "round-robin" /\ strategy # "fill-first"
    <3>1. a = NoAccount
      BY <2>3
    <3> HIDE DEF a, turned
    <3> QED
      BY <2>3, <3>1
  <2> QED
    BY <2>1, <2>2, <2>3
<1>3. ResolveStrategy(rt, t) =
        IF a = NoAccount THEN Pick(NoAccount, rt)
        ELSE IF strategy = "round-robin"
        THEN Pick(a, [chosen EXCEPT !.ring = RotationSuccess(turned.ring, a)])
        ELSE Pick(a, chosen)
  BY DEF ResolveStrategy
<1> HIDE DEF a, turned
<1>4. CASE a = NoAccount
  <2>1. ResolveStrategy(rt, t) = Pick(NoAccount, rt)
    BY <1>3, <1>4
  <2> QED
    BY <1>2, <1>4, <2>1, EligibleAccounts DEF Sound, Pick, PinsBut, MaybeAccount
<1>5. CASE a # NoAccount
  <2>1. a \in Eligible /\ a \in Accounts /\ Usable(a)
    BY <1>2, <1>5 DEF Eligible, Selectable
  <2> DEFINE start == Remember(rt, a)
  <2>2. start \in Route /\ start.pins = rt.pins /\ start.active = rt.active
    BY <2>1, Cursors DEF MaybeAccount
  <2>3. /\ chosen \in Route /\ chosen.active = start.active
        /\ PinsBut(start, chosen, t)
        /\ t \in Threads => PinnedTo(chosen, t, a)
    <3>1. chosen = Bind(start, t, a)
      OBVIOUS
    <3> HIDE DEF start, chosen
    <3> QED
      BY <2>1, <2>2, <3>1, Binds
  <2> HIDE DEF start, chosen
  <2> DEFINE ring == RotationSuccess(turned.ring, a)
             spun == [chosen EXCEPT !.ring = ring]
  <2>4. ring \in Ring
    BY <1>1, <2>1, RingReports
  <2>5. spun \in Route /\ spun.pins = chosen.pins /\ spun.active = chosen.active
    <3> HIDE DEF ring
    <3> QED
      BY <2>3, <2>4, RingWrite
  <2>6. ResolveStrategy(rt, t) \in {Pick(a, spun), Pick(a, chosen)}
    BY <1>3, <1>5
  <2> HIDE DEF spun
  <2>7. \A new \in {spun, chosen} :
            /\ new \in Route /\ PinsBut(rt, new, t) /\ new.active = rt.active
            /\ t \in Threads => PinnedTo(new, t, a)
    BY <2>2, <2>3, <2>5 DEF PinsBut, PinnedTo
  <2> QED
    BY <1>2, <1>5, <2>1, <2>6, <2>7 DEF Sound, Pick, MaybeAccount
<1> QED
  BY <1>4, <1>5

LEMMA ResolveActivePicks ==
    ASSUME TypeOK, NEW rt \in Route, NEW t \in Threads \cup {NoThread},
           strategy \in {"round-robin", "fill-first"} => Eligible = {}
    PROVE  LET pick == ResolveActive(rt, t) IN
           /\ Sound(rt, t, pick)
           /\ Eligible # {} => pick.account \in Eligible
<1> DEFINE least == LowestUsage(NoAccount)
           start == IF Effective(rt) # NoAccount THEN Pick(Effective(rt), rt)
                    ELSE IF least = NoAccount THEN Pick(NoAccount, rt)
                    ELSE Pick(least, SetActive(rt, least))
           spare == LowestUsage(start.account)
           from == IF Selectable(start.account) THEN start
                   ELSE Pick(spare, SetActive(start.route, spare))
           switched == AutoSwitch(from.route, from.account)
           final == FailureFailover(switched.route, switched.account, health[switched.account])
<1>1. ResolveActive(rt, t) =
        IF start.account = NoAccount THEN start
        ELSE IF ~ Selectable(start.account) /\ spare = NoAccount
        THEN Pick(IF Configured(start.account) THEN start.account ELSE NoAccount, start.route)
        ELSE Pick(final.account, Bind(final.route, t, final.account))
  BY DEF ResolveActive
<1>2. (Eligible # {} => least \in Eligible) /\ (Eligible = {} => least = NoAccount)
  BY LowestUsagePicks, EligibleAccounts
<1>3. /\ start.account \in MaybeAccount /\ start.route \in Route /\ start.route.pins = rt.pins
      /\ start.account = NoAccount => Eligible = {}
      /\ Eligible = {} => start.route = rt
  <2>1. least \in MaybeAccount
    BY <1>2, EligibleAccounts DEF MaybeAccount
  <2>2. SetActive(rt, least) \in Route /\ SetActive(rt, least).pins = rt.pins
    BY <2>1, Cursors
  <2> HIDE DEF least
  <2> QED
    BY <1>2, <2>1, <2>2, RouteFields, EligibleAccounts DEF Pick, MaybeAccount
<1> HIDE DEF start, least
<1>4. /\ Eligible \ {start.account} # {} => spare \in Eligible
      /\ Eligible \ {start.account} = {} => spare = NoAccount
  BY LowestUsagePicks
<1>5. CASE start.account = NoAccount
  <2>1. ResolveActive(rt, t) = start
    BY <1>1, <1>5
  <2> QED
    BY <1>3, <1>5, <2>1, EligibleAccounts DEF Sound, PinsBut
<1>6. CASE start.account # NoAccount /\ ~ Selectable(start.account) /\ spare = NoAccount
  <2>1. ResolveActive(rt, t) =
          Pick(IF Configured(start.account) THEN start.account ELSE NoAccount, start.route)
    BY <1>1, <1>6
  <2>2. Eligible = {}
    BY <1>4, <1>6, EligibleAccounts DEF Eligible
  <2> HIDE DEF spare
  <2> QED
    BY <1>3, <2>1, <2>2 DEF Sound, PinsBut, Pick, MaybeAccount
<1>7. CASE start.account # NoAccount /\ ~ (~ Selectable(start.account) /\ spare = NoAccount)
  <2>1. /\ from.account \in Eligible /\ from.account \in Accounts
        /\ from.route \in Route /\ from.route.pins = rt.pins
    <3>1. CASE Selectable(start.account)
      <4>1. from = start
        BY <3>1
      <4> HIDE DEF from, spare
      <4> QED
        BY <1>3, <1>7, <3>1, <4>1 DEF Eligible, MaybeAccount
    <3>2. CASE ~ Selectable(start.account)
      <4>1. from = Pick(spare, SetActive(start.route, spare))
        BY <3>2
      <4>2. spare \in Eligible /\ spare \in Accounts /\ spare \in MaybeAccount
        BY <1>4, <1>7, <3>2, EligibleAccounts DEF MaybeAccount
      <4> HIDE DEF from, spare
      <4>3. SetActive(start.route, spare) \in Route /\ SetActive(start.route, spare).pins = rt.pins
        BY <1>3, <4>2, Cursors
      <4> QED
        BY <4>1, <4>2, <4>3 DEF Pick
    <3> QED
      BY <3>1, <3>2
  <2> HIDE DEF from
  <2>2. /\ switched.account \in Eligible /\ switched.account \in Accounts
        /\ switched.route \in Route /\ switched.route.pins = rt.pins
    BY <2>1, AutoSwitchPicks, EligibleAccounts
  <2> HIDE DEF switched
  <2>3. /\ final.account \in Eligible /\ final.account \in Accounts
        /\ final.route \in Route /\ final.route.pins = rt.pins
    BY <2>2, FailureFailoverPicks, EligibleAccounts
  <2>4. ResolveActive(rt, t) = Pick(final.account, Bind(final.route, t, final.account))
    BY <1>1, <1>7
  <2> HIDE DEF final
  <2> DEFINE new == Bind(final.route, t, final.account)
  <2>5. /\ new \in Route /\ PinsBut(final.route, new, t)
        /\ t \in Threads => PinnedTo(new, t, final.account)
    BY <2>3, Binds DEF Eligible, Selectable
  <2>6. ResolveActive(rt, t) = Pick(final.account, new)
    BY <2>4
  <2> HIDE DEF new
  <2>7. PinsBut(rt, new, t) /\ strategy \notin {"round-robin", "fill-first"}
    BY <2>3, <2>5 DEF PinsBut
  <2>8. strategy = "quota"
    BY <2>7, RoutingAssumption DEF TypeOK
  <2> QED
    BY <2>3, <2>5, <2>6, <2>7, <2>8 DEF Sound, Pick, MaybeAccount
<1> QED
  BY <1>5, <1>6, <1>7

(* What routing decides for a thread.                                      *)
LEMMA ResolvePicks ==
    ASSUME TypeOK, NEW rt \in Route, NEW t \in Threads \cup {NoThread}
    PROVE  LET pick == Resolve(rt, t)
               pin == IF t = NoThread THEN NoPin ELSE rt.pins[t] IN
           /\ Sound(rt, t, pick)
           /\ Expired(pin) => pick.account = NoAccount
           /\ ~ Expired(pin) /\ Eligible # {} => pick.account \in Eligible
           /\ ~ Expired(pin) /\ KeepsPin(pin) /\ strategy # "quota" =>
                t \in Threads /\ PinnedTo(pick.route, t, pin.account)
<1> DEFINE pin == IF t = NoThread THEN NoPin ELSE rt.pins[t]
           unpinned == IF t = NoThread THEN rt ELSE Unpin(rt, t)
           new == ResolveStrategy(unpinned, t)
           pick == Resolve(rt, t)
<1>1. t # NoThread => t \in Threads
  OBVIOUS
<1>2. pick = IF Expired(pin) THEN Pick(NoAccount, unpinned)
             ELSE IF KeepsPin(pin) THEN ResolvePinned(rt, t)
             ELSE IF new.account # NoAccount THEN new
             ELSE ResolveActive(unpinned, t)
  BY DEF Resolve
<1>3. /\ unpinned \in Route /\ unpinned.active = rt.active
      /\ \A u \in Threads \ {t} : unpinned.pins[u] = rt.pins[u]
  BY <1>1, Unpins
<1>4. KeepsPin(pin) => t \in Threads /\ pin = rt.pins[t]
  BY <1>1 DEF KeepsPin, NoPin
<1> HIDE DEF unpinned, pin
<1>5. \A p : Sound(unpinned, t, p) => Sound(rt, t, p)
  BY <1>3 DEF Sound, PinsBut
<1>6. CASE Expired(pin)
  <2>1. pick = Pick(NoAccount, unpinned)
    BY <1>2, <1>6
  <2>2. Sound(rt, t, pick) /\ pick.account = NoAccount
    BY <1>3, <2>1, EligibleAccounts DEF Sound, PinsBut, Pick, MaybeAccount
  <2> QED
    BY <1>6, <2>2 DEF pin
<1>7. CASE ~ Expired(pin) /\ KeepsPin(pin)
  <2>1. pick = ResolvePinned(rt, t)
    BY <1>2, <1>7
  <2>2. /\ Sound(rt, t, pick) /\ pick.account \in Eligible /\ t \in Threads
        /\ strategy # "quota" => pick.account = pin.account
    BY <1>4, <1>7, <2>1, ResolvePinnedPicks
  <2> HIDE DEF pick
  <2>3. strategy # "quota" => PinnedTo(pick.route, t, pin.account)
    BY <2>2 DEF Sound
  <2> QED
    BY <1>7, <2>2, <2>3 DEF pick, pin
<1>8. CASE ~ Expired(pin) /\ ~ KeepsPin(pin)
  <2>1. /\ Sound(unpinned, t, new) /\ new.account \in Eligible \cup {NoAccount}
        /\ new.account = NoAccount =>
             (strategy \in {"round-robin", "fill-first"} => Eligible = {})
    BY <1>3, ResolveStrategyPicks
  <2> HIDE DEF new
  <2>2. new.account = NoAccount =>
          LET active == ResolveActive(unpinned, t) IN
          /\ Sound(unpinned, t, active)
          /\ Eligible # {} => active.account \in Eligible
    BY <1>3, <2>1, ResolveActivePicks
  <2>3. Sound(rt, t, pick) /\ (Eligible # {} => pick.account \in Eligible)
    BY <1>2, <1>5, <1>8, <2>1, <2>2
  <2> QED
    BY <1>8, <2>3 DEF pin
<1> QED
  BY <1>6, <1>7, <1>8

-----------------------------------------------------------------------------
(* What an outcome does to the route.                                      *)

(* Only threads pinned to the account lose their pin, and only for cause;  *)
(* the saved selection is left to the quota strategy; the ring does not    *)
(* turn again for a request whose alternate is picked.                     *)
Reported(rt, new, a, class, promoted, h) ==
    /\ new \in Route
    /\ \A u \in Threads :
          \/ new.pins[u] = rt.pins[u]
          \/ /\ rt.pins[u].account = a
             /\ class \in {"credential", "quota"} \/ ShouldFailover(h, now)
    /\ strategy # "quota" => new.active = rt.active
    /\ promoted # NoAccount /\ class \in {"quota", "caller"} =>
          new.ring.weight = rt.ring.weight

LEMMA OutcomeRoutes ==
    ASSUME TypeOK, NEW rt \in Route, NEW a \in Accounts, NEW t, NEW class \in Classes,
           NEW promoted \in MaybeAccount \ {a}, NEW h
    PROVE  Reported(rt, RouteAfter(rt, a, t, class, promoted, h), a, class, promoted, h)
<1> DEFINE unpinned == UnpinAccount(rt, a)
<1>1. /\ unpinned \in Route /\ unpinned.active = rt.active /\ unpinned.ring = rt.ring
      /\ \A u \in Threads : unpinned.pins[u] = rt.pins[u] \/ rt.pins[u].account = a
  BY Unpins
<1> HIDE DEF unpinned
<1>2. CASE class = "credential"
  <2>1. RouteAfter(rt, a, t, class, promoted, h) = unpinned
    BY <1>2 DEF RouteAfter, unpinned
  <2> QED
    BY <1>1, <1>2, <2>1 DEF Reported
<1>3. CASE class = "quota"
  <2> DEFINE ring == RotationFailure(unpinned.ring, a)
             left == [unpinned EXCEPT !.ring = ring]
             other == IF promoted \notin {NoAccount, a} THEN Pick(promoted, left)
                      ELSE Alternate(left, a)
             new == IF Effective(left) # a THEN left
                    ELSE IF other.account = NoAccount THEN other.route
                    ELSE Promote(other.route, other.account)
  <2>1. RouteAfter(rt, a, t, class, promoted, h) = new
    BY <1>3 DEF RouteAfter, RouteAfterQuota, unpinned
  <2>2. ring \in Ring /\ ring.weight = rt.ring.weight
    BY <1>1, RingReports, RouteFields
  <2> HIDE DEF ring
  <2>3. /\ left \in Route /\ left.active = rt.active /\ left.pins = unpinned.pins
        /\ left.ring.weight = rt.ring.weight
    BY <1>1, <2>2, RingWrite
  <2> HIDE DEF left
  <2>4. /\ other.account \in MaybeAccount
        /\ other.route \in Route /\ other.route.active = rt.active
        /\ other.route.pins = unpinned.pins
        /\ promoted # NoAccount => other.route.ring = left.ring
    <3>1. CASE promoted \notin {NoAccount, a}
      BY <2>3, <3>1 DEF Pick
    <3>2. CASE promoted \in {NoAccount, a}
      <4>1. promoted = NoAccount /\ other = Alternate(left, a)
        BY <3>2
      <4> HIDE DEF other
      <4> QED
        BY <2>3, <4>1, AlternatePicks, EligibleAccounts DEF MaybeAccount
    <3> QED
      BY <3>1, <3>2
  <2> HIDE DEF other
  <2>5. LET chosen == Promote(other.route, other.account) IN
        /\ chosen \in Route /\ chosen.pins = unpinned.pins
        /\ chosen.ring = other.route.ring
        /\ strategy # "quota" => chosen.active = rt.active
    BY <2>4, Cursors
  <2>6. /\ new \in Route /\ new.pins = unpinned.pins
        /\ strategy # "quota" => new.active = rt.active
        /\ promoted # NoAccount => new.ring.weight = rt.ring.weight
    BY <2>3, <2>4, <2>5
  <2> HIDE DEF new
  <2> QED
    BY <1>1, <1>3, <2>1, <2>6 DEF Reported
<1>4. CASE class = "transient"
  <2> DEFINE left == IF ShouldFailover(h, now) THEN unpinned ELSE rt
             moved == FailureFailover(left, a, h)
             new == IF Effective(left) = a THEN moved.route ELSE left
  <2>1. RouteAfter(rt, a, t, class, promoted, h) = new
    BY <1>4 DEF RouteAfter, RouteAfterTransient, unpinned
  <2>2. /\ left \in Route /\ left.active = rt.active
        /\ \A u \in Threads :
              left.pins[u] = rt.pins[u] \/ (rt.pins[u].account = a /\ ShouldFailover(h, now))
    BY <1>1
  <2> HIDE DEF left
  <2>3. /\ moved.route \in Route /\ moved.route.pins = left.pins
        /\ strategy # "quota" => moved.route.active = rt.active
    BY <2>2, FailureFailoverPicks
  <2> HIDE DEF moved
  <2>4. new \in Route /\ new.pins = left.pins /\ (strategy # "quota" => new.active = rt.active)
    BY <2>2, <2>3
  <2> HIDE DEF new
  <2> QED
    BY <1>4, <2>1, <2>2, <2>4 DEF Reported
<1>5. CASE class \in {"success", "caller"}
  <2>1. RouteAfter(rt, a, t, class, promoted, h) = rt
    BY <1>5 DEF RouteAfter
  <2> QED
    BY <2>1 DEF Reported
<1> QED
  BY <1>2, <1>3, <1>4, <1>5 DEF Classes

-----------------------------------------------------------------------------
(* The choices of now.                                                     *)

(* A request is served by an account that may serve, whatever routing      *)
(* starts from (routing.ts 440-444, 895-904).                              *)
LEMMA ChoicesAreHealthy == TypeOK => ServedByHealthyAccount
<1> SUFFICES ASSUME TypeOK, NEW t \in Threads \cup {NoThread},
                    Eligible # {}, ~ Expired(PinOf(t))
             PROVE  Choice(t).account \in Eligible
  BY DEF ServedByHealthyAccount
<1>1. route \in Route
  BY DEF TypeOK
<1> QED
  BY <1>1, ResolvePicks DEF Choice, PinOf

(* The thread it serves is pinned under the login of now.                  *)
LEMMA ChoicesPin == TypeOK => PinFollowsCredential
<1> SUFFICES ASSUME TypeOK, NEW t \in Threads, Choice(t).account \in Eligible
             PROVE  PinnedTo(Choice(t).route, t, Choice(t).account)
  BY DEF PinFollowsCredential, PinnedTo
<1>1. route \in Route
  BY DEF TypeOK
<1> QED
  BY <1>1, ResolvePicks DEF Choice, Sound

(* Unpinning leaves what a new session is decided by.                      *)
LEMMA StrategyIgnoresPins ==
    ASSUME NEW rt, NEW other, NEW t, rt.ring = other.ring, Effective(rt) = Effective(other)
    PROVE  ResolveStrategy(rt, t).account = ResolveStrategy(other, t).account
<1> DEFINE a(x) == CASE strategy = "round-robin" -> RotationPick(x.ring, Eligible).account
                     [] strategy = "fill-first" -> FillFirst(x)
                     [] OTHER -> NoAccount
<1>1. FillFirst(rt) = FillFirst(other)
  BY DEF FillFirst
<1>2. a(rt) = a(other)
  BY <1>1
<1>3. \A x : ResolveStrategy(x, t).account = a(x)
  <2> SUFFICES ASSUME NEW x PROVE ResolveStrategy(x, t).account = a(x)
    OBVIOUS
  <2> DEFINE turned == RotationPick(x.ring, Eligible)
             chosen == Bind(Remember(x, a(x)), t, a(x))
             spun == [chosen EXCEPT !.ring = RotationSuccess(turned.ring, a(x))]
  <2>1. ResolveStrategy(x, t) =
          IF a(x) = NoAccount THEN Pick(NoAccount, x)
          ELSE IF strategy = "round-robin" THEN Pick(a(x), spun) ELSE Pick(a(x), chosen)
    BY DEF ResolveStrategy
  <2> HIDE DEF a, spun, chosen
  <2> QED
    BY <2>1 DEF Pick
<1> QED
  BY <1>2, <1>3

LEMMA ActivePreviewed ==
    ASSUME TypeOK, NEW rt \in Route, NEW t, Effective(rt) # NoAccount,
           strategy \in {"round-robin", "fill-first"} => Eligible = {}
    PROVE  ResolveActive(rt, t).account = PreviewActive(rt)
<1> DEFINE a == Effective(rt)
           start == IF a # NoAccount THEN Pick(a, rt)
                    ELSE IF LowestUsage(NoAccount) = NoAccount THEN Pick(NoAccount, rt)
                    ELSE Pick(LowestUsage(NoAccount), SetActive(rt, LowestUsage(NoAccount)))
           spare == LowestUsage(start.account)
           from == IF Selectable(start.account) THEN start
                   ELSE Pick(spare, SetActive(start.route, spare))
           switched == AutoSwitch(from.route, from.account)
           final == FailureFailover(switched.route, switched.account, health[switched.account])
<1>1. ResolveActive(rt, t) =
        IF start.account = NoAccount THEN start
        ELSE IF ~ Selectable(start.account) /\ spare = NoAccount
        THEN Pick(IF Configured(start.account) THEN start.account ELSE NoAccount, start.route)
        ELSE Pick(final.account, Bind(final.route, t, final.account))
  BY DEF ResolveActive
<1>2. start = Pick(a, rt) /\ start.account = a /\ a \in Accounts
  BY RouteFields DEF Pick, MaybeAccount
<1> HIDE DEF start
<1> DEFINE left == IF Selectable(a) THEN a ELSE LowestUsage(a)
           cooler == IF OverThreshold(left) THEN LowerUsage(left) ELSE left
           other == LowestUsage(cooler)
<1>3. PreviewActive(rt) =
        IF left = NoAccount THEN IF Configured(a) THEN a ELSE NoAccount
        ELSE IF Failing(cooler) /\ other # NoAccount THEN other
        ELSE cooler
  BY DEF PreviewActive
<1>4. /\ Eligible \ {a} # {} => LowestUsage(a) \in Eligible
      /\ Eligible \ {a} = {} => LowestUsage(a) = NoAccount
  BY LowestUsagePicks
<1>5. CASE ~ Selectable(a) /\ LowestUsage(a) = NoAccount
  <2>1. ResolveActive(rt, t) = Pick(IF Configured(a) THEN a ELSE NoAccount, start.route)
    BY <1>1, <1>2, <1>5
  <2>2. PreviewActive(rt) = IF Configured(a) THEN a ELSE NoAccount
    BY <1>3, <1>5
  <2> QED
    BY <2>1, <2>2 DEF Pick
<1>6. CASE ~ (~ Selectable(a) /\ LowestUsage(a) = NoAccount)
  <2>1. ResolveActive(rt, t).account = final.account
    <3>1. ResolveActive(rt, t) = Pick(final.account, Bind(final.route, t, final.account))
      BY <1>1, <1>2, <1>6
    <3> HIDE DEF final
    <3> QED
      BY <3>1 DEF Pick
  <2>2. left \in Eligible /\ left \in Accounts /\ left # NoAccount
    BY <1>2, <1>4, <1>6, EligibleAccounts DEF Eligible
  <2>3. from.account = left
    <3> HIDE DEF spare
    <3>1. spare = LowestUsage(a)
      BY <1>2 DEF spare
    <3> QED
      BY <1>2, <3>1 DEF Pick
  <2> HIDE DEF from
  <2>4. switched.account = cooler
    <3>1. AutoSwitch(from.route, left) =
            IF OverThreshold(left) /\ LowerUsage(left) # left
            THEN Pick(LowerUsage(left), SetActive(from.route, LowerUsage(left)))
            ELSE Pick(left, from.route)
      BY DEF AutoSwitch
    <3> HIDE DEF left
    <3> QED
      BY <2>3, <3>1 DEF Pick
  <2> HIDE DEF switched
  <2>5. strategy \notin {"round-robin", "fill-first"}
    BY <2>2
  <2>6. Alternate(switched.route, cooler).account = other
    <3>1. Alternate(switched.route, cooler) = Pick(other, switched.route)
      BY <2>5 DEF Alternate
    <3> HIDE DEF cooler, other
    <3> QED
      BY <3>1 DEF Pick
  <2>7. final = LET next == Alternate(switched.route, cooler) IN
                IF ~ ShouldFailover(health[cooler], now) THEN Pick(cooler, switched.route)
                ELSE IF next.account = NoAccount THEN Pick(cooler, next.route)
                ELSE Pick(next.account, Promote(next.route, next.account))
    BY <2>4 DEF FailureFailover
  <2> HIDE DEF final, cooler, left
  <2>8. final.account = IF Failing(cooler) /\ other # NoAccount THEN other ELSE cooler
    <3> HIDE DEF other
    <3> QED
      BY <2>6, <2>7 DEF Pick, Failing
  <2> QED
    BY <1>3, <2>1, <2>2, <2>8
<1> QED
  BY <1>5, <1>6

(* The preview names the account that the request is given                 *)
(* (routing.ts 756-763).                                                   *)
LEMMA PreviewsAreTrue == TypeOK => PreviewMirrorsChoice
<1> SUFFICES ASSUME TypeOK, Effective(route) # NoAccount,
                    NEW t \in Threads \cup {NoThread}, ~ Expired(PinOf(t))
             PROVE  Preview(route, t) = Resolve(route, t).account
  BY DEF PreviewMirrorsChoice, Choice
<1> DEFINE pin == IF t = NoThread THEN NoPin ELSE route.pins[t]
           unpinned == IF t = NoThread THEN route ELSE Unpin(route, t)
           new == ResolveStrategy(unpinned, t)
           seen == ResolveStrategy(route, t).account
<1>1. route \in Route /\ ~ Expired(pin)
  BY DEF TypeOK, PinOf
<1>2. Resolve(route, t) =
        IF Expired(pin) THEN Pick(NoAccount, unpinned)
        ELSE IF KeepsPin(pin) THEN ResolvePinned(route, t)
        ELSE IF new.account # NoAccount THEN new
        ELSE ResolveActive(unpinned, t)
  BY DEF Resolve
<1>3. Preview(route, t) =
        IF KeepsPin(pin) /\ ~ Expired(pin)
        THEN IF strategy = "quota" /\ OverThreshold(pin.account)
             THEN LowerUsage(pin.account) ELSE pin.account
        ELSE IF seen # NoAccount THEN seen
        ELSE PreviewActive(route)
  BY DEF Preview
<1>4. CASE KeepsPin(pin)
  <2>1. t \in Threads /\ pin = route.pins[t]
    BY <1>4 DEF KeepsPin, NoPin
  <2> HIDE DEF pin
  <2> DEFINE a == pin.account
             cooler == LowerUsage(a)
             touched == [route EXCEPT !.pins[t].usedAt = now]
             moved == Bind(SetActive(touched, cooler), t, cooler)
  <2>2. ResolvePinned(route, t) =
          IF strategy = "quota" /\ OverThreshold(a) /\ cooler # a
          THEN Pick(cooler, moved) ELSE Pick(a, touched)
    BY <2>1 DEF ResolvePinned
  <2> HIDE DEF moved, touched, cooler
  <2>3. Resolve(route, t).account = IF strategy = "quota" /\ OverThreshold(a) THEN cooler ELSE a
    BY <1>1, <1>2, <1>4, <2>2 DEF Pick
  <2> QED
    BY <1>1, <1>3, <1>4, <2>3 DEF cooler
<1>5. CASE ~ KeepsPin(pin)
  <2>1. /\ unpinned \in Route /\ unpinned.ring = route.ring
        /\ unpinned.active = route.active /\ unpinned.runtime = route.runtime
    BY <1>1, Unpins
  <2> HIDE DEF unpinned, pin
  <2>2. Effective(unpinned) = Effective(route)
    BY <2>1 DEF Effective
  <2>3. new.account = seen
    BY <2>1, <2>2, StrategyIgnoresPins
  <2>4. new.account = NoAccount =>
           (strategy \in {"round-robin", "fill-first"} => Eligible = {})
    BY <2>1, ResolveStrategyPicks
  <2> HIDE DEF new, seen
  <2>5. new.account = NoAccount => ResolveActive(unpinned, t).account = PreviewActive(unpinned)
    BY <2>1, <2>2, <2>4, ActivePreviewed
  <2>6. PreviewActive(unpinned) = PreviewActive(route)
    BY <2>2 DEF PreviewActive
  <2> QED
    BY <1>1, <1>2, <1>3, <1>5, <2>3, <2>5, <2>6
<1> QED
  BY <1>4, <1>5

-----------------------------------------------------------------------------
(* Types and engagements are kept.                                         *)

LEMMA RequestTypes ==
    /\ NoRequest \in Request /\ NoMeta \in QuotaMeta
    /\ \A class : MetasOf(class) \in SUBSET QuotaMeta
<1>1. NoRequest \in Request /\ NoMeta \in QuotaMeta
  BY DEF NoRequest, Request, MaybeAccount, Classes, NoMeta, QuotaMeta, Windows
<1> QED
  BY <1>1, RoutingAssumption DEF MetasOf

(* A request of its own type replaces the one in r.                        *)
LEMMA RequestMoves ==
    ASSUME IInv, NEW r \in Requests, NEW y \in Request,
           req' = [req EXCEPT ![r] = y],
           y.phase # "idle" => y.account \in Accounts,
           y.phase = "retry" => /\ y.alternate \in Accounts \ {y.account}
                                /\ y.class \in {"quota", "caller"}
    PROVE  /\ req' \in [Requests -> Request] /\ Engaged'
           /\ req'[r] = y /\ \A s \in Requests \ {r} : req'[s] = req[s]
<1>1. req \in [Requests -> Request]
  BY DEF IInv, TypeOK
<1>2. req' \in [Requests -> Request] /\ req'[r] = y /\ \A s \in Requests \ {r} : req'[s] = req[s]
  BY <1>1
<1>3. ASSUME NEW s \in Requests
      PROVE  /\ req'[s].phase # "idle" => req'[s].account \in Accounts
             /\ req'[s].phase = "retry" =>
                   /\ req'[s].alternate \in Accounts \ {req'[s].account}
                   /\ req'[s].class \in {"quota", "caller"}
  BY <1>2 DEF IInv, Engaged
<1> QED
  BY <1>2, <1>3 DEF Engaged

LEMMA QuotaCools ==
    ASSUME NEW h \in Health, NEW id \in Nat, NEW meta \in QuotaMeta, NEW t \in Nat
    PROVE  InCooldown(AfterQuota(h, id, meta, t), t)
<1> DEFINE c == ComputeQuotaCooldown(meta, t)
           base == PreservedCooldown(ReleaseProbe(h, id, t))
<1>1. c.until > t
  BY CooldownType
<1>2. base \in Health
  BY ReleaseType, PreservedType
<1>3. AfterQuota(h, id, meta, t) =
        [base EXCEPT !.failedAt = t, !.until = c.until, !.since = t, !.source = c.source,
                     !.gen = h.gen + 1]
  BY DEF AfterQuota
<1> HIDE DEF c, base
<1>4. AfterQuota(h, id, meta, t).until = c.until
  BY <1>2, <1>3 DEF Health
<1> QED
  BY <1>1, <1>4 DEF InCooldown

(* What recording an outcome does.                                         *)
LEMMA Records ==
    ASSUME TypeOK, NEW x \in Request, x.account \in Accounts, NEW class \in Classes,
           NEW meta \in QuotaMeta, NEW promoted \in MaybeAccount \ {x.account},
           Record(x, class, meta, promoted)
    PROVE  /\ health' \in [Accounts -> Health]
           /\ reauth' \in SUBSET Accounts
           /\ Reported(route, route', x.account, class, promoted, health'[x.account])
           /\ class = "credential" => x.account \in reauth'
           /\ class = "quota" => InCooldown(health'[x.account], now)
<1> DEFINE h == AfterOutcome(health[x.account], class, x.lease, meta, now)
<1>1. /\ health[x.account] \in Health /\ x.lease \in Nat /\ now \in Nat
      /\ route \in Route /\ reauth \in SUBSET Accounts /\ health \in [Accounts -> Health]
  BY DEF TypeOK, Request
<1>2. h \in Health
  BY <1>1, OutcomeType
<1>3. class = "quota" => InCooldown(h, now)
  <2>1. class = "quota" => h = AfterQuota(health[x.account], x.lease, meta, now)
    BY DEF AfterOutcome
  <2> QED
    BY <1>1, <2>1, QuotaCools
<1>4. /\ health' = [health EXCEPT ![x.account] = h]
      /\ route' = RouteAfter(route, x.account, x.thread, class, promoted, h)
      /\ reauth' = IF class = "credential" THEN reauth \cup {x.account} ELSE reauth
  BY DEF Record
<1> HIDE DEF h
<1>5. health' \in [Accounts -> Health] /\ health'[x.account] = h
  BY <1>1, <1>2, <1>4
<1>6. Reported(route, route', x.account, class, promoted, h)
  BY <1>1, <1>4, OutcomeRoutes
<1> QED
  BY <1>1, <1>3, <1>4, <1>5, <1>6

(* What one step of a request does to the routing state: the route it      *)
(* leaves is a route, and PinsMoveForCause and OutcomesKeepToThemselves    *)
(* hold of the step.                                                       *)
PinsMove ==
    strategy # "quota" /\ edits' = edits =>
        \A t \in Threads :
            LET pin == route.pins[t] IN
            pin.account # NoAccount /\ route'.pins[t].account # pin.account =>
                \/ ~ KeepsPin(pin) \/ Expired(pin)
                \/ pin.account \in reauth'
                \/ InCooldown(health'[pin.account], now)
                \/ ShouldFailover(health'[pin.account], now)

KeepsToItself == SavedSelectionKept /\ OtherPinsKept /\ RingTurnedOnce

GoodStep == IInv' /\ PinsMove /\ KeepsToItself

(* A step that leaves the route alone.                                     *)
LEMMA RouteKept ==
    ASSUME route' = route PROVE PinsMove /\ KeepsToItself
  BY DEF PinsMove, KeepsToItself, SavedSelectionKept, OtherPinsKept, RingTurnedOnce

(* A step that is an edit and leaves the requests alone.                   *)
LEMMA Edited ==
    ASSUME TypeOK, Edit, req' = req PROVE PinsMove /\ KeepsToItself
<1>1. edits' # edits
  BY DEF TypeOK, Edit
<1> QED
  BY <1>1 DEF PinsMove, KeepsToItself, SavedSelectionKept, OtherPinsKept, RingTurnedOnce

LEMMA AdmitStep ==
    ASSUME IInv, NEW r \in Requests, NEW t \in Threads \cup {NoThread}, Admit(r, t)
    PROVE  GoodStep
<1> DEFINE pick == Resolve(route, t)
<1>1. TypeOK /\ route \in Route /\ req[r].phase = "idle" /\ req[r] \in Request
  BY DEF IInv, TypeOK, Admit
<1>2. /\ EnterFree(r, t, pick.account) \/ EnterAsProbe(r, t, pick.account) \/ Refuse(pick.account)
      /\ route' = pick.route
      /\ UNCHANGED <<now, present, gen, usage, strategy, login, reauth, edits>>
  BY DEF Admit, world
<1>3. /\ Sound(route, t, pick)
      /\ Expired(PinOf(t)) => pick.account = NoAccount
      /\ ~ Expired(PinOf(t)) /\ KeepsPin(PinOf(t)) /\ strategy # "quota" =>
            t \in Threads /\ PinnedTo(pick.route, t, PinOf(t).account)
  BY <1>1, ResolvePicks DEF PinOf
<1>4. t \in Threads => PinOf(t) = route.pins[t]
  BY RoutingAssumption DEF PinOf
<1> HIDE DEF pick
<1>5. PinsMove
  <2> SUFFICES ASSUME strategy # "quota", NEW u \in Threads,
                      route'.pins[u].account # route.pins[u].account,
                      KeepsPin(route.pins[u]), ~ Expired(route.pins[u])
               PROVE  FALSE
    BY DEF PinsMove
  <2>1. CASE u = t
    BY <1>2, <1>3, <1>4, <2>1 DEF PinnedTo
  <2>2. CASE u # t
    BY <1>2, <1>3, <2>2 DEF Sound, PinsBut
  <2> QED
    BY <2>1, <2>2
<1>6. /\ req' \in [Requests -> Request] /\ Engaged' /\ served' \in Nat
      /\ health' \in [Accounts -> Health]
      /\ \A s \in Requests : req'[s].phase \in {req[s].phase, "auth"}
      /\ \A s \in Requests : req'[s].phase = req[s].phase \/ req[s].phase = "idle"
  <2>1. ASSUME NEW a, NEW lease \in Nat, a \in MaybeAccount, a # NoAccount, Enter(r, t, a, lease)
        PROVE  /\ req' \in [Requests -> Request] /\ Engaged' /\ served' \in Nat
               /\ \A s \in Requests : req'[s].phase \in {req[s].phase, "auth"}
               /\ \A s \in Requests : req'[s].phase = req[s].phase \/ req[s].phase = "idle"
    <3> DEFINE y == [NoRequest EXCEPT !.phase = "auth", !.account = a, !.thread = t, !.lease = lease]
    <3>1. y \in Request /\ y.phase = "auth" /\ y.account = a
      BY <2>1 DEF NoRequest, Request, Classes, MaybeAccount
    <3>2. req' = [req EXCEPT ![r] = y] /\ served' = served + 1
      BY <2>1 DEF Enter
    <3> HIDE DEF y
    <3>3. a \in Accounts /\ served' \in Nat
      BY <1>1, <2>1, <3>2 DEF MaybeAccount, TypeOK
    <3>4. /\ req' \in [Requests -> Request] /\ Engaged'
          /\ req'[r] = y /\ \A s \in Requests \ {r} : req'[s] = req[s]
      BY <3>1, <3>2, <3>3, RequestMoves
    <3> QED
      BY <1>1, <3>1, <3>3, <3>4
  <2>2. CASE EnterFree(r, t, pick.account)
    BY <1>1, <1>3, <2>1, <2>2 DEF EnterFree, Sound, TypeOK
  <2>3. CASE EnterAsProbe(r, t, pick.account)
    <3>1. pick.account \in Accounts /\ served + 1 \in Nat /\ now \in Nat
      BY <1>1, <1>3, <2>3 DEF EnterAsProbe, Sound, MaybeAccount, TypeOK
    <3>2. WithProbe(health[pick.account], served + 1, now) \in Health
      BY <1>1, <3>1, WithProbeType DEF TypeOK
    <3>3. health' \in [Accounts -> Health]
      BY <1>1, <2>3, <3>2 DEF EnterAsProbe, TypeOK
    <3> QED
      BY <1>3, <2>1, <2>3, <3>1, <3>3 DEF EnterAsProbe, Sound
  <2>4. CASE Refuse(pick.account)
    BY <1>1, <2>4 DEF Refuse, IInv, TypeOK, Engaged
  <2> QED
    BY <1>2, <2>2, <2>3, <2>4
<1>7. TypeOK'
  BY <1>1, <1>2, <1>3, <1>6 DEF TypeOK, Sound
<1>8. KeepsToItself
  <2>1. SavedSelectionKept
    BY <1>2, <1>3 DEF SavedSelectionKept, Sound
  <2>2. OtherPinsKept /\ RingTurnedOnce
    BY <1>6 DEF OtherPinsKept, RingTurnedOnce
  <2> QED
    BY <2>1, <2>2 DEF KeepsToItself
<1> QED
  BY <1>5, <1>6, <1>7, <1>8 DEF GoodStep, IInv

(* Recording an outcome, after which the request is over or, when the      *)
(* outcome promotes the alternate it picked, goes out again.               *)
LEMMA RecordStep ==
    ASSUME IInv, NEW r \in Requests, req[r].phase \in {"sent", "retry", "unserved"},
           NEW class \in Classes, NEW meta \in QuotaMeta,
           NEW promoted \in MaybeAccount \ {req[r].account}, NEW y \in Request,
           Record(req[r], class, meta, promoted), req' = [req EXCEPT ![r] = y],
           y.phase = "idle" \/ (/\ y.phase = "sent" /\ y.account \in Accounts
                                /\ promoted # NoAccount /\ class \in {"quota", "caller"}),
           UNCHANGED <<now, present, gen, usage, strategy, login, served, edits>>
    PROVE  GoodStep
<1> DEFINE x == req[r]
<1>1. TypeOK /\ x \in Request /\ x.account \in Accounts
  BY DEF IInv, TypeOK, Engaged
<1>2. /\ req' \in [Requests -> Request] /\ Engaged'
      /\ req'[r] = y /\ \A s \in Requests \ {r} : req'[s] = req[s]
  BY RequestMoves
<1>3. /\ health' \in [Accounts -> Health] /\ reauth' \in SUBSET Accounts
      /\ Reported(route, route', x.account, class, promoted, health'[x.account])
      /\ class = "credential" => x.account \in reauth'
      /\ class = "quota" => InCooldown(health'[x.account], now)
  BY <1>1, Records
<1> HIDE DEF x
<1>4. TypeOK'
  BY <1>1, <1>2, <1>3 DEF TypeOK, Reported
<1>5. PinsMove
  BY <1>3 DEF PinsMove, Reported
<1>6. SavedSelectionKept
  BY <1>3 DEF SavedSelectionKept, Reported
<1>7. OtherPinsKept
  <2>1. \A s \in Requests : req[s].phase # req'[s].phase => s = r
    BY <1>2
  <2>2. \A u \in Threads : route.pins[u].account # x.account => route'.pins[u] = route.pins[u]
    BY <1>3 DEF Reported
  <2> QED
    BY <2>1, <2>2 DEF OtherPinsKept, x
<1>8. RingTurnedOnce
  <2>1. y.phase = "sent" => route'.ring.weight = route.ring.weight
    BY <1>3 DEF Reported
  <2> QED
    BY <1>2, <2>1 DEF RingTurnedOnce
<1> QED
  BY <1>2, <1>4, <1>5, <1>6, <1>7, <1>8 DEF GoodStep, IInv, KeepsToItself

LEMMA RetriedType ==
    ASSUME NEW x \in Request
    PROVE  /\ Retried(x) \in Request /\ Retried(x).phase = "sent"
           /\ Retried(x).account = x.alternate
  BY DEF Retried, Request, MaybeAccount, Classes

(* The other steps of a request leave the route alone, but for the ring.   *)
LEMMA RequestStep ==
    ASSUME IInv, NEW r \in Requests, Step(r)
    PROVE  GoodStep
<1> DEFINE x == req[r]
<1>1. /\ TypeOK /\ x \in Request /\ route \in Route
      /\ x.phase # "idle" => x.account \in Accounts
      /\ x.phase = "retry" => /\ x.alternate \in Accounts \ {x.account}
                              /\ x.class \in {"quota", "caller"}
  BY DEF IInv, TypeOK, Engaged
<1>2. ASSUME NEW t \in Threads \cup {NoThread}, Admit(r, t) PROVE GoodStep
  BY <1>2, AdmitStep
<1>3. CASE AuthFail(r)
  <2>1. /\ x.phase = "auth" /\ route' = route /\ req' = [req EXCEPT ![r] = NoRequest]
        /\ health' = [health EXCEPT ![x.account] = ReleaseProbe(@, x.lease, now)]
        /\ reauth' \in {reauth} \cup {reauth \cup {a} : a \in {x.account} \ {Main}}
        /\ UNCHANGED <<now, present, gen, usage, strategy, login, served, edits>>
    BY <1>3 DEF AuthFail, world
  <2>2. req' \in [Requests -> Request] /\ Engaged'
    BY <2>1, RequestMoves, RequestTypes DEF NoRequest
  <2>3. ReleaseProbe(health[x.account], x.lease, now) \in Health
    BY <1>1, <2>1, ReleaseType DEF TypeOK, Request
  <2>4. health' \in [Accounts -> Health] /\ reauth' \in SUBSET Accounts
    BY <1>1, <2>1, <2>3 DEF TypeOK
  <2>5. TypeOK'
    BY <1>1, <2>1, <2>2, <2>4 DEF TypeOK
  <2> QED
    BY <2>1, <2>2, <2>5, RouteKept DEF GoodStep, IInv
<1>4. CASE TokenRefreshed(r)
  <2>1. TypeOK' /\ Engaged' /\ route' = route
    BY <1>1, <1>4 DEF TokenRefreshed, TypeOK, IInv, Engaged
  <2> QED
    BY <2>1, RouteKept DEF GoodStep, IInv
<1>5. CASE Send(r)
  <2> DEFINE y == [x EXCEPT !.phase = "sent"]
  <2>1. /\ x.phase = "auth" /\ req' = [req EXCEPT ![r] = y] /\ route' = route
        /\ UNCHANGED <<now, present, gen, usage, strategy, login, health, reauth, served, edits>>
    BY <1>5 DEF Send, world
  <2>2. y \in Request /\ y.phase = "sent" /\ y.account \in Accounts
    BY <1>1, <2>1 DEF Request
  <2> HIDE DEF y
  <2>3. req' \in [Requests -> Request] /\ Engaged'
    BY <2>1, <2>2, RequestMoves
  <2>4. TypeOK'
    BY <1>1, <2>1, <2>3 DEF TypeOK
  <2> QED
    BY <2>1, <2>3, <2>4, RouteKept DEF GoodStep, IInv
<1>6. ASSUME NEW class \in Classes, NEW meta \in MetasOf(class), Outcome(r, class, meta) PROVE GoodStep
  <2>1. /\ x.phase = "sent" /\ Record(x, class, meta, NoAccount)
        /\ req' = [req EXCEPT ![r] = NoRequest]
        /\ UNCHANGED <<now, present, gen, usage, strategy, login, served, edits>>
    BY <1>6 DEF Outcome, world
  <2>2. NoAccount \in MaybeAccount \ {x.account} /\ meta \in QuotaMeta
    BY <1>1, <2>1, RequestTypes, RotationAssumption DEF MaybeAccount
  <2>3. NoRequest \in Request /\ NoRequest.phase = "idle"
    BY RequestTypes DEF NoRequest
  <2> QED
    BY <2>1, <2>2, <2>3, RecordStep
<1>7. CASE Abandon(r)
  <2>1. /\ req' = [req EXCEPT ![r] = NoRequest] /\ route' = route
        /\ UNCHANGED <<now, present, gen, usage, strategy, login, health, reauth, served, edits>>
    BY <1>7 DEF Abandon, world
  <2>2. req' \in [Requests -> Request] /\ Engaged'
    BY <2>1, RequestMoves, RequestTypes DEF NoRequest
  <2>3. TypeOK'
    BY <1>1, <2>1, <2>2 DEF TypeOK
  <2> QED
    BY <2>1, <2>2, <2>3, RouteKept DEF GoodStep, IInv
<1>8. ASSUME NEW class \in {"quota", "caller"}, RetryPick(r, class) PROVE GoodStep
  <2> DEFINE other == Alternate(route, x.account)
             y == [x EXCEPT !.phase = "retry", !.alternate = other.account, !.class = class]
  <2>1. /\ x.phase = "sent" /\ other.account # NoAccount /\ route' = other.route
        /\ req' = [req EXCEPT ![r].phase = "retry", ![r].alternate = other.account, ![r].class = class]
        /\ UNCHANGED <<now, present, gen, usage, strategy, login, health, reauth, served, edits>>
    BY <1>8 DEF RetryPick, world
  <2>2. /\ other.account \in Eligible \ {x.account} /\ other.route \in Route
        /\ other.route.pins = route.pins /\ other.route.active = route.active
    BY <1>1, <2>1, AlternatePicks
  <2>3. other.account \in Accounts \ {x.account}
    BY <2>2, EligibleAccounts
  <2> HIDE DEF other
  <2>4. req' = [req EXCEPT ![r] = y]
    BY <1>1, <2>1 DEF TypeOK, Request
  <2>5. /\ y \in Request /\ y.phase = "retry" /\ y.account = x.account
        /\ y.alternate = other.account /\ y.class = class
    BY <1>1, <2>3 DEF Request, MaybeAccount, Classes
  <2> HIDE DEF y
  <2>6. /\ req' \in [Requests -> Request] /\ Engaged'
        /\ req'[r] = y /\ \A s \in Requests \ {r} : req'[s] = req[s]
    BY <1>1, <2>1, <2>3, <2>4, <2>5, RequestMoves
  <2>7. TypeOK'
    BY <1>1, <2>1, <2>2, <2>6 DEF TypeOK
  <2>8. PinsMove /\ SavedSelectionKept
    BY <2>1, <2>2 DEF PinsMove, SavedSelectionKept
  <2>9. OtherPinsKept /\ RingTurnedOnce
    BY <2>5, <2>6 DEF OtherPinsKept, RingTurnedOnce
  <2> QED
    BY <2>6, <2>7, <2>8, <2>9 DEF GoodStep, IInv, KeepsToItself
<1>9. ASSUME NEW meta \in MetasOf(req[r].class), RetryFail(r, meta) PROVE GoodStep
  <2>1. /\ x.phase = "unserved" /\ Record(x, x.class, meta, NoAccount)
        /\ req' = [req EXCEPT ![r] = NoRequest]
        /\ UNCHANGED <<now, present, gen, usage, strategy, login, served, edits>>
    BY <1>9 DEF RetryFail, world
  <2>2. NoAccount \in MaybeAccount \ {x.account} /\ meta \in QuotaMeta /\ x.class \in Classes
    BY <1>1, <2>1, RequestTypes, RotationAssumption DEF MaybeAccount, Request
  <2>3. NoRequest \in Request /\ NoRequest.phase = "idle"
    BY RequestTypes DEF NoRequest
  <2> QED
    BY <2>1, <2>2, <2>3, RecordStep
<1>10. ASSUME NEW meta \in MetasOf(req[r].class), RetrySend(r, meta) PROVE GoodStep
  <2> DEFINE y == Retried(x)
  <2>1. /\ x.phase = "retry" /\ Record(x, x.class, meta, x.alternate)
        /\ req' = [req EXCEPT ![r] = y]
        /\ UNCHANGED <<now, present, gen, usage, strategy, login, served, edits>>
    BY <1>10 DEF RetrySend, world
  <2>2. /\ x.alternate \in MaybeAccount \ {x.account} /\ x.alternate # NoAccount
        /\ x.alternate \in Accounts /\ meta \in QuotaMeta
        /\ x.class \in Classes /\ x.class \in {"quota", "caller"}
    BY <1>1, <2>1, RequestTypes, RotationAssumption DEF MaybeAccount, Request
  <2>3. y \in Request /\ y.phase = "sent" /\ y.account = x.alternate
    BY <1>1, RetriedType
  <2> HIDE DEF y
  <2> QED
    BY <2>1, <2>2, <2>3, RecordStep
<1>11. CASE RetryDeferred(r)
  <2> DEFINE y == Retried(x)
  <2>1. /\ x.phase = "retry" /\ req' = [req EXCEPT ![r] = y] /\ route' = route
        /\ UNCHANGED <<now, present, gen, usage, strategy, login, health, reauth, served, edits>>
    BY <1>11 DEF RetryDeferred, world
  <2>2. y \in Request /\ y.phase = "sent" /\ y.account = x.alternate
    BY <1>1, RetriedType
  <2> HIDE DEF y
  <2>3. req' \in [Requests -> Request] /\ Engaged'
    BY <1>1, <2>1, <2>2, RequestMoves
  <2>4. TypeOK'
    BY <1>1, <2>1, <2>3 DEF TypeOK
  <2> QED
    BY <2>1, <2>3, <2>4, RouteKept DEF GoodStep, IInv
<1>12. CASE RetryLost(r)
  <2> DEFINE y == [x EXCEPT !.phase = "unserved"]
  <2>1. /\ x.phase = "retry" /\ req' = [req EXCEPT ![r] = y] /\ route' = route
        /\ reauth' \in {reauth} \cup {reauth \cup {a} : a \in {x.alternate} \ {Main}}
        /\ UNCHANGED <<now, present, gen, usage, strategy, login, health, served, edits>>
    BY <1>12 DEF RetryLost, world
  <2>2. y \in Request /\ y.phase = "unserved" /\ y.account \in Accounts
    BY <1>1, <2>1 DEF Request
  <2> HIDE DEF y
  <2>3. req' \in [Requests -> Request] /\ Engaged'
    BY <2>1, <2>2, RequestMoves
  <2>4. reauth' \in SUBSET Accounts
    BY <1>1, <2>1 DEF TypeOK
  <2>5. TypeOK'
    BY <1>1, <2>1, <2>3, <2>4 DEF TypeOK
  <2> QED
    BY <2>1, <2>3, <2>5, RouteKept DEF GoodStep, IInv
<1> QED
  BY <1>2, <1>3, <1>4, <1>5, <1>6, <1>7, <1>8, <1>9, <1>10, <1>11, <1>12 DEF Step

(* The steps from outside.                                                 *)
LEMMA OutsideStep ==
    ASSUME IInv, Outside
    PROVE  GoodStep
<1>1. TypeOK /\ Engaged /\ Edit /\ req' = req
  BY DEF IInv, Outside, SelectManually, DeleteAccount, Login, ClearCooldown, ObserveUsage,
         MainReplaced, MainTokenChanges, SetStrategy
<1>2. Engaged' /\ PinsMove /\ KeepsToItself /\ edits' \in Nat
  BY <1>1, Edited DEF Engaged, Edit, TypeOK
<1>3. route \in Route
  BY <1>1 DEF TypeOK
<1>4. ASSUME NEW a \in MaybeAccount, SelectManually(a) PROVE TypeOK'
  <2> DEFINE shown == IF a = NoAccount THEN Main ELSE a
  <2>1. shown \in Accounts
    BY RoutingAssumption DEF MaybeAccount
  <2>2. /\ route' = [pins |-> [t \in Threads |-> NoPin], active |-> a,
                     runtime |-> NoAccount, ring |-> RotationSeed(shown)]
        /\ health' = [health EXCEPT ![shown] = PreservedCooldown(@)]
        /\ UNCHANGED <<now, present, gen, usage, strategy, login, reauth, req, served>>
    BY <1>4 DEF SelectManually, world, AfterManualSelection
  <2> HIDE DEF shown
  <2>3. RotationSeed(shown) \in Ring
    BY <2>1 DEF RotationSeed, EmptyRing, Ring
  <2>4. route' \in Route
    BY <2>2, <2>3, NoPinType DEF Route, MaybeAccount
  <2>5. PreservedCooldown(health[shown]) \in Health
    BY <1>1, <2>1, PreservedType DEF TypeOK
  <2>6. health' \in [Accounts -> Health]
    BY <1>1, <2>2, <2>5 DEF TypeOK
  <2> QED
    BY <1>1, <1>2, <2>2, <2>4, <2>6 DEF TypeOK
<1>5. ASSUME NEW a \in Accounts, DeleteAccount(a) PROVE TypeOK'
  <2> DEFINE left == UnpinAccount(route, a)
  <2>1. left \in Route
    BY <1>3, Unpins
  <2>2. route' = [left EXCEPT !.active = IF @ = a THEN NoAccount ELSE @]
    BY <1>5 DEF DeleteAccount
  <2> HIDE DEF left
  <2>3. route' \in Route
    BY <2>1, <2>2 DEF Route, MaybeAccount
  <2>4. health' \in [Accounts -> Health]
    BY <1>1, <1>5, NoHealthType DEF DeleteAccount, TypeOK
  <2>5. /\ gen' \in [Accounts -> Nat] /\ login' \in [Accounts -> Nat]
        /\ usage' \in [Accounts -> Nat \cup {UnknownUsage}]
        /\ present' \in SUBSET Accounts /\ reauth' \in SUBSET Accounts
    BY <1>1, <1>5 DEF DeleteAccount, TypeOK
  <2> QED
    BY <1>1, <1>2, <1>5, <2>3, <2>4, <2>5 DEF DeleteAccount, TypeOK
<1>6. ASSUME NEW a \in Accounts, Login(a) PROVE TypeOK'
  <2>1. /\ gen' \in [Accounts -> Nat] /\ login' \in [Accounts -> Nat]
        /\ present' \in SUBSET Accounts /\ reauth' \in SUBSET Accounts
    BY <1>1, <1>6 DEF Login, TypeOK
  <2> QED
    BY <1>1, <1>2, <1>6, <2>1 DEF Login, TypeOK
<1>7. ASSUME NEW a \in Accounts, ClearCooldown(a) PROVE TypeOK'
  <2>1. Lifted(health[a], now) \in Health
    BY <1>1, LiftedType DEF TypeOK
  <2>2. health' \in [Accounts -> Health]
    BY <1>1, <1>7, <2>1 DEF ClearCooldown, TypeOK
  <2> QED
    BY <1>1, <1>2, <1>7, <2>2 DEF ClearCooldown, TypeOK, world
<1>8. ASSUME NEW a \in Accounts, NEW u \in Usages, ObserveUsage(a, u) PROVE TypeOK'
  <2>1. u \in Nat
    BY RoutingAssumption
  <2>2. usage' \in [Accounts -> Nat \cup {UnknownUsage}]
    BY <1>1, <1>8, <2>1 DEF ObserveUsage, TypeOK
  <2> QED
    BY <1>1, <1>2, <1>8, <2>2 DEF ObserveUsage, TypeOK
<1>9. ASSUME MainReplaced PROVE TypeOK'
  <2>1. route' \in Route
    BY <1>3, <1>9, Unpins, RoutingAssumption DEF MainReplaced
  <2>2. health' \in [Accounts -> Health]
    BY <1>1, <1>9, NoHealthType DEF MainReplaced, TypeOK
  <2>3. usage' \in [Accounts -> Nat \cup {UnknownUsage}] /\ reauth' \in SUBSET Accounts
    BY <1>1, <1>9 DEF MainReplaced, TypeOK
  <2> QED
    BY <1>1, <1>2, <1>9, <2>1, <2>2, <2>3 DEF MainReplaced, TypeOK
<1>10. ASSUME MainTokenChanges PROVE TypeOK'
  BY <1>1, <1>2, <1>10, RoutingAssumption DEF MainTokenChanges, TypeOK
<1>11. ASSUME NEW s \in Strategies, SetStrategy(s) PROVE TypeOK'
  BY <1>1, <1>2, <1>11 DEF SetStrategy, TypeOK
<1>12. TypeOK'
  BY <1>4, <1>5, <1>6, <1>7, <1>8, <1>9, <1>10, <1>11 DEF Outside
<1> QED
  BY <1>2, <1>12 DEF GoodStep, IInv

LEMMA AnyStep == IInv /\ [Next]_vars => GoodStep
<1> SUFFICES ASSUME IInv, [Next]_vars PROVE GoodStep
  OBVIOUS
<1>1. CASE Tick
  <2>1. TypeOK' /\ Engaged' /\ route' = route
    BY <1>1 DEF Tick, IInv, TypeOK, Engaged
  <2> QED
    BY <2>1, RouteKept DEF GoodStep, IInv
<1>2. CASE UNCHANGED vars
  <2>1. TypeOK' /\ Engaged' /\ route' = route
    BY <1>2 DEF vars, IInv, TypeOK, Engaged
  <2> QED
    BY <2>1, RouteKept DEF GoodStep, IInv
<1> QED
  BY <1>1, <1>2, RequestStep, OutsideStep DEF Next

LEMMA Start == Init => IInv
<1> SUFFICES ASSUME Init PROVE IInv
  OBVIOUS
<1>1. route \in Route
  <2>1. [t \in Threads |-> NoPin] \in [Threads -> Pin]
    BY NoPinType
  <2>2. EmptyRing \in Ring
    BY DEF EmptyRing, Ring
  <2> QED
    BY <2>1, <2>2, RoutingAssumption DEF Init, Route, MaybeAccount
<1>2. usage \in [Accounts -> Nat \cup {UnknownUsage}]
  <2>1. 0 .. FullUsage \subseteq Nat
    BY RoutingAssumption
  <2> QED
    BY <2>1, RoutingAssumption DEF Init
<1>3. /\ health \in [Accounts -> Health] /\ gen \in [Accounts -> Nat] /\ login \in [Accounts -> Nat]
      /\ req \in [Requests -> Request] /\ \A r \in Requests : req[r].phase = "idle"
  BY NoHealthType, RequestTypes DEF Init, NoRequest
<1>4. TypeOK
  BY <1>1, <1>2, <1>3 DEF Init, TypeOK
<1> QED
  BY <1>3, <1>4 DEF IInv, Engaged

-----------------------------------------------------------------------------
(* Theorems.                                                               *)

(* The state keeps its types, and a request in progress its account.       *)
THEOREM Invariance == Spec => []IInv
<1>1. IInv /\ [Next]_vars => IInv'
  BY AnyStep DEF GoodStep
<1> QED
  BY <1>1, Start, PTL DEF Spec

(* The routing state, the health records and the requests keep their types. *)
THEOREM Typing == Spec => []TypeOK
<1>1. IInv => TypeOK
  BY DEF IInv
<1> QED
  BY <1>1, Invariance, PTL

(* While any account may serve, no request goes to one that may not, nor   *)
(* is refused because of one (routing.ts 440-444, 895-904).                *)
THEOREM ServedHealthy == Spec => []ServedByHealthyAccount
  BY ChoicesAreHealthy, Typing, PTL

(* A thread served by a healthy account ends up pinned to it under the     *)
(* credential stored now (routing.ts 450-453, 837-874).                    *)
THEOREM PinsFollow == Spec => []PinFollowsCredential
  BY ChoicesPin, Typing, PTL

(* The preview of a request names the account it is given                  *)
(* (routing.ts 756-763).                                                   *)
THEOREM PreviewTrue == Spec => []PreviewMirrorsChoice
  BY PreviewsAreTrue, Typing, PTL

(* Round-robin and fill-first take a thread from an account only when that *)
(* account cannot serve it or the operator acts.                           *)
THEOREM ThreadsMoveForCause == Spec => PinsMoveForCause
<1>1. IInv /\ [Next]_vars =>
        [ strategy # "quota" /\ edits' = edits =>
            \A t \in Threads :
                LET pin == route.pins[t] IN
                pin.account # NoAccount /\ route'.pins[t].account # pin.account =>
                    \/ ~ KeepsPin(pin) \/ Expired(pin)
                    \/ pin.account \in reauth'
                    \/ InCooldown(health'[pin.account], now)
                    \/ ShouldFailover(health'[pin.account], now)
        ]_vars
  BY AnyStep DEF GoodStep, PinsMove
<1> QED
  BY <1>1, Invariance, PTL DEF Spec, PinsMoveForCause

(* An outcome writes neither the operator's selection (under round-robin   *)
(* and fill-first), nor the pins of other accounts, nor, for a retried     *)
(* request, the ring (routing.ts 130-135, 683-703, 1012-1018, 1052-1060).  *)
THEOREM OutcomesStayHome == Spec => OutcomesKeepToThemselves
<1>1. IInv /\ [Next]_vars => [SavedSelectionKept /\ OtherPinsKept /\ RingTurnedOnce]_vars
  BY AnyStep DEF GoodStep, KeepsToItself
<1> QED
  BY <1>1, Invariance, PTL DEF Spec, OutcomesKeepToThemselves
=============================================================================
