-------------------------- MODULE CodexProbeProofs --------------------------
(***************************************************************************)
(* Theorems of CodexProbe, for any set of requests, any durations and any  *)
(* bounds.  The inductive invariant is IInv: the type invariant, the two   *)
(* facts about leases (who carries one, and which cooldown it was granted  *)
(* for) and the clock facts behind the pacing of probes.                   *)
(***************************************************************************)
EXTENDS CodexProbe, TLAPS

-----------------------------------------------------------------------------
(* What the operators of AccountHealth return, for every value of the      *)
(* durations.                                                              *)

(* The chosen reset delay is one of the delays, and the shortest of them.  *)
LEMMA ShortestIsADelay ==
    ASSUME NEW meta \in QuotaMeta, NEW t \in Nat, ResetDelays(meta, t) # {}
    PROVE  /\ Shortest(ResetDelays(meta, t)) \in ResetDelays(meta, t)
           /\ \A e \in ResetDelays(meta, t) : Shortest(ResetDelays(meta, t)) <= e
<1> DEFINE r == meta.resets
           ahead == {v \in Windows : r[v] > t}
<1>1. r \in [Windows -> Nat]
  BY DEF QuotaMeta
<1>2. ahead # {} /\ ahead \subseteq {1, 2, 3}
  BY DEF ResetDelays, Windows
<1>3. PICK w \in ahead : \A v \in ahead : r[w] <= r[v]
  <2>1. \A v \in ahead : r[v] \in Nat
    BY <1>1
  <2> DEFINE Least(w) == w \in ahead /\ \A v \in ahead : r[w] <= r[v]
  <2> HIDE DEF r, ahead
  <2>2. CASE 1 \in ahead
    <3>1. Least(1) \/ (2 \in ahead /\ r[2] < r[1]) \/ (3 \in ahead /\ r[3] < r[1])
      BY <1>2, <2>1, <2>2
    <3>2. 2 \in ahead /\ r[2] < r[1] => Least(2) \/ (3 \in ahead /\ r[3] < r[2])
      BY <1>2, <2>1, <2>2
    <3>3. 3 \in ahead /\ r[3] < r[1] => Least(3) \/ (2 \in ahead /\ r[2] < r[3])
      BY <1>2, <2>1, <2>2
    <3>4. QED
      BY <1>2, <2>1, <2>2, <3>1, <3>2, <3>3
  <2>3. CASE 1 \notin ahead
    <3>1. 2 \in ahead => Least(2) \/ (3 \in ahead /\ r[3] < r[2])
      BY <1>2, <2>1, <2>3
    <3>2. 3 \in ahead => Least(3) \/ (2 \in ahead /\ r[2] < r[3])
      BY <1>2, <2>1, <2>3
    <3>3. 2 \in ahead \/ 3 \in ahead
      BY <1>2, <2>3
    <3>4. QED
      BY <1>2, <2>1, <2>3, <3>1, <3>2, <3>3
  <2>4. QED
    BY <2>2, <2>3
<1>4. r[w] - t \in ResetDelays(meta, t)
  BY <1>3 DEF ResetDelays
<1>5. \A e \in ResetDelays(meta, t) : r[w] - t <= e
  BY <1>1, <1>3 DEF ResetDelays
<1>6. QED
  BY <1>4, <1>5 DEF Shortest

(* A cooldown ends strictly later than it starts, and no later than its    *)
(* cap: Retry-After and default by the maximum, resets by the reset cap.   *)
LEMMA CooldownType ==
    ASSUME NEW meta \in QuotaMeta, NEW t \in Nat
    PROVE  /\ ComputeQuotaCooldown(meta, t).until \in Nat
           /\ ComputeQuotaCooldown(meta, t).until > t
           /\ ComputeQuotaCooldown(meta, t).source
                \in {"retry-after", "reset-derived", "default"}
<1> DEFINE delays == ResetDelays(meta, t)
<1>1. delays \in SUBSET (Nat \ {0})
  BY DEF ResetDelays, QuotaMeta, Windows
<1>2. meta.retryAfter \in Nat
  BY DEF QuotaMeta
<1>3. CASE meta.retryAfter > 0
  BY <1>2, <1>3, HealthAssumption
     DEF ComputeQuotaCooldown, ClampCooldown, Lesser, Greater
<1>4. CASE ~ (meta.retryAfter > 0) /\ delays # {}
  <2>1. Shortest(delays) \in Nat \ {0}
    BY <1>1, <1>4, ShortestIsADelay
  <2> DEFINE d == Shortest(delays)
  <2>2. ComputeQuotaCooldown(meta, t) =
          [until |-> t + Lesser(ClampCooldown(d), ResetCap), source |-> "reset-derived"]
    BY <1>4 DEF ComputeQuotaCooldown
  <2>3. Lesser(ClampCooldown(d), ResetCap) \in Nat \ {0}
    BY <2>1, HealthAssumption DEF ClampCooldown, Lesser, Greater
  <2> HIDE DEF d
  <2>4. QED
    BY <2>2, <2>3
<1>5. CASE ~ (meta.retryAfter > 0) /\ delays = {}
  BY <1>5, HealthAssumption DEF ComputeQuotaCooldown
<1>6. QED
  BY <1>3, <1>4, <1>5

LEMMA NoHealthType == NoHealth \in Health
  BY DEF NoHealth, Health, Sources

LEMMA ReleaseType ==
    ASSUME NEW h \in Health, NEW id \in Nat, NEW t \in Nat
    PROVE  ReleaseProbe(h, id, t) \in Health
  BY DEF ReleaseProbe, WithProbeReleased, Health

LEMMA PreservedType ==
    ASSUME NEW h \in Health
    PROVE  PreservedCooldown(h) \in Health
  BY DEF PreservedCooldown, Health

LEMMA WithProbeType ==
    ASSUME NEW h \in Health, NEW id \in Nat, NEW t \in Nat
    PROVE  WithProbe(h, id, t) \in Health
  BY DEF WithProbe, Health

LEMMA LiftedType ==
    ASSUME NEW h \in Health, NEW t \in Nat
    PROVE  Lifted(h, t) \in Health
<1>1. WithProbeReleased(h, t) \in Health
  BY DEF WithProbeReleased, Health
<1>2. h.gen + 1 \in Nat
  BY DEF Health
<1>3. QED
  BY <1>1, <1>2 DEF Lifted, Health, Sources

LEMMA SuccessType ==
    ASSUME NEW h \in Health, NEW id \in Nat, NEW t \in Nat
    PROVE  AfterSuccess(h, id, t) \in Health
<1>1. [ReleaseProbe(h, id, t) EXCEPT !.successes = h.successes + 1] \in Health
  BY ReleaseType DEF Health
<1>2. QED
  BY <1>1, NoHealthType, ReleaseType, PreservedType DEF AfterSuccess

LEMMA QuotaType ==
    ASSUME NEW h \in Health, NEW id \in Nat, NEW meta \in QuotaMeta, NEW t \in Nat
    PROVE  AfterQuota(h, id, meta, t) \in Health
<1> DEFINE c == ComputeQuotaCooldown(meta, t)
<1>1. c.until \in Nat /\ c.source \in Sources
  BY CooldownType DEF Sources
<1>2. PreservedCooldown(ReleaseProbe(h, id, t)) \in Health
  BY ReleaseType, PreservedType
<1>3. h.gen + 1 \in Nat
  BY DEF Health
<1>4. AfterQuota(h, id, meta, t) =
        [PreservedCooldown(ReleaseProbe(h, id, t)) EXCEPT
            !.failedAt = t, !.until = c.until, !.since = t, !.source = c.source,
            !.gen = h.gen + 1]
  BY DEF AfterQuota
<1> HIDE DEF c
<1>5. QED
  BY <1>1, <1>2, <1>3, <1>4 DEF Health

LEMMA TransientType ==
    ASSUME NEW h \in Health, NEW id \in Nat, NEW t \in Nat
    PROVE  AfterTransient(h, id, t) \in Health
<1> DEFINE failures == IF StaleFailure(h, t) THEN 1 ELSE h.failures + 1
           ready == FailoverThreshold > 0 /\ failures >= FailoverThreshold
           live == IF SoftAvoided(h, t) THEN h.avoidUntil ELSE 0
           avoid == IF ready THEN Greater(live, t + SoftAvoidMs[SoftAvoidLevel(failures)])
                    ELSE 0
           base == PreservedCooldown(ReleaseProbe(h, id, t))
<1>1. failures \in Nat /\ live \in Nat
  BY DEF Health
<1>2. ready => SoftAvoidLevel(failures) \in 1 .. Len(SoftAvoidMs)
  BY <1>1, HealthAssumption DEF SoftAvoidLevel, Lesser
<1>3. avoid \in Nat
  <2>1. ready => SoftAvoidMs[SoftAvoidLevel(failures)] \in Nat
    BY <1>2, HealthAssumption
  <2>2. QED
    BY <1>1, <2>1 DEF Greater
<1>4. base \in Health
  BY ReleaseType, PreservedType
<1>5. AfterTransient(h, id, t) =
        [base EXCEPT !.failures = failures, !.failedAt = t, !.avoidUntil = avoid]
  BY DEF AfterTransient
<1> HIDE DEF failures, avoid, base
<1>6. QED
  BY <1>1, <1>3, <1>4, <1>5 DEF Health

(* Whatever the outcome, the record keeps its type.                        *)
LEMMA OutcomeType ==
    ASSUME NEW h \in Health, NEW class \in Classes, NEW id \in Nat,
           NEW meta \in QuotaMeta, NEW t \in Nat
    PROVE  AfterOutcome(h, class, id, meta, t) \in Health
<1>1. AfterCredential(t) \in Health
  BY DEF AfterCredential, NoHealth, Health, Sources
<1>2. QED
  BY <1>1, SuccessType, ReleaseType, QuotaType, TransientType
     DEF AfterOutcome, AfterCaller, Classes

-----------------------------------------------------------------------------
(* The inductive invariant.                                                *)

(* The lease in the record never outruns the cooldown it lives under, and  *)
(* under a Retry-After it belongs to a strictly older one.                 *)
LeaseGenerations ==
    /\ health.lease # 0 => health.leaseGen <= health.gen
    /\ RetryAfterIsUnprobed

(* The clock facts: nothing in the record lies in the future, and both     *)
(* origins the probe interval may be counted from follow the last grant.   *)
ProbeClocks ==
    /\ lastGrant <= now
    /\ health.probedAt # 0 => health.probedAt >= lastGrant
    /\ health.probedAt = 0 /\ health.since # 0 => health.since >= lastGrant

IInv == TypeOK /\ LeaseGenerations /\ LeaseIsCarried /\ ProbeClocks

-----------------------------------------------------------------------------
(* What each operation does to the fields the invariant reads.             *)

LEMMA ReleaseFields ==
    ASSUME NEW h \in Health, NEW id \in Nat, NEW t \in Nat
    PROVE  LET k == ReleaseProbe(h, id, t) IN
           /\ k.lease \in {0, h.lease}
           /\ OwnsProbe(h, id) => k.lease = 0
           /\ k.lease # 0 => k.leaseGen = h.leaseGen
           /\ k.gen = h.gen /\ k.source = h.source /\ k.since = h.since /\ k.until = h.until
           /\ k.probedAt \in {t, h.probedAt}
  BY DEF ReleaseProbe, WithProbeReleased, Health, OwnsProbe

LEMMA PreservedFields ==
    ASSUME NEW h \in Health
    PROVE  LET k == PreservedCooldown(h) IN
           /\ k.lease = h.lease /\ k.leaseGen = h.leaseGen /\ k.gen = h.gen
           /\ k.source = h.source /\ k.since = h.since /\ k.until = h.until
           /\ k.probedAt = h.probedAt
  BY DEF PreservedCooldown, Health

(* After an outcome the record is empty, or holds the lease only if the    *)
(* reporter did not own it; it then keeps the lease's generation, and the  *)
(* cooldown is either untouched or rewritten one generation later.         *)
OutcomeEffect(h, k, id, t) ==
    /\ k.lease \in {0, h.lease}
    /\ OwnsProbe(h, id) => k.lease = 0
    /\ k.lease # 0 => k.leaseGen = h.leaseGen
    /\ \/ k.lease = 0 /\ k.source = "none" /\ k.since = 0 /\ k.probedAt = 0
       \/ /\ k.gen = h.gen /\ k.source = h.source /\ k.since = h.since
          /\ k.until = h.until /\ k.probedAt \in {t, h.probedAt}
       \/ k.gen = h.gen + 1 /\ k.since = t /\ k.probedAt \in {t, h.probedAt}

LEMMA OutcomeFields ==
    ASSUME NEW h \in Health, NEW class \in Classes, NEW id \in Nat,
           NEW meta \in QuotaMeta, NEW t \in Nat
    PROVE  OutcomeEffect(h, AfterOutcome(h, class, id, meta, t), id, t)
<1> DEFINE released == ReleaseProbe(h, id, t)
           preserved == PreservedCooldown(released)
<1>1. released \in Health
  BY ReleaseType
<1>2. OutcomeEffect(h, released, id, t)
  BY ReleaseFields DEF OutcomeEffect
<1>3. preserved \in Health
  BY <1>1, PreservedType
<1>4. OutcomeEffect(h, preserved, id, t)
  BY <1>1, <1>2, PreservedFields DEF OutcomeEffect
<1>5. OutcomeEffect(h, NoHealth, id, t)
  BY DEF OutcomeEffect, NoHealth
<1>6. OutcomeEffect(h, [released EXCEPT !.successes = h.successes + 1], id, t)
  BY <1>1, <1>2 DEF OutcomeEffect, Health
<1>7. CASE class = "success"
  BY <1>2, <1>4, <1>5, <1>6, <1>7 DEF AfterOutcome, AfterSuccess
<1>8. CASE class = "caller"
  BY <1>2, <1>8 DEF AfterOutcome, AfterCaller
<1>9. CASE class = "credential"
  <2>1. OutcomeEffect(h, AfterCredential(t), id, t)
    BY DEF OutcomeEffect, AfterCredential, NoHealth
  <2>2. QED
    BY <1>9, <2>1 DEF AfterOutcome
<1>10. CASE class = "quota"
  <2> DEFINE c == ComputeQuotaCooldown(meta, t)
             k == AfterQuota(h, id, meta, t)
  <2>1. k = [preserved EXCEPT !.failedAt = t, !.until = c.until, !.since = t,
                              !.source = c.source, !.gen = h.gen + 1]
    BY DEF AfterQuota
  <2>2. /\ k.lease = preserved.lease /\ k.leaseGen = preserved.leaseGen
        /\ k.probedAt = preserved.probedAt /\ k.gen = h.gen + 1 /\ k.since = t
    BY <1>3, <2>1 DEF Health
  <2>3. preserved.probedAt \in {t, h.probedAt}
    BY <1>1, ReleaseFields, PreservedFields
  <2> HIDE DEF k, preserved
  <2>4. OutcomeEffect(h, k, id, t)
    BY <1>4, <2>2, <2>3 DEF OutcomeEffect
  <2>5. QED
    BY <1>10, <2>4 DEF AfterOutcome, k
<1>11. CASE class = "transient"
  <2>1. \E f, a : AfterTransient(h, id, t)
                    = [preserved EXCEPT !.failures = f, !.failedAt = t, !.avoidUntil = a]
    BY DEF AfterTransient
  <2>2. PICK f, a : AfterTransient(h, id, t)
                    = [preserved EXCEPT !.failures = f, !.failedAt = t, !.avoidUntil = a]
    BY <2>1
  <2> DEFINE k == [preserved EXCEPT !.failures = f, !.failedAt = t, !.avoidUntil = a]
  <2>3. /\ k.lease = preserved.lease /\ k.leaseGen = preserved.leaseGen
        /\ k.probedAt = preserved.probedAt /\ k.gen = preserved.gen
        /\ k.since = preserved.since /\ k.source = preserved.source
        /\ k.until = preserved.until
    BY <1>3 DEF Health
  <2> HIDE DEF k, preserved
  <2>4. OutcomeEffect(h, k, id, t)
    BY <1>4, <2>3 DEF OutcomeEffect
  <2>5. QED
    BY <1>11, <2>2, <2>4 DEF AfterOutcome, k
<1>12. QED
  BY <1>7, <1>8, <1>9, <1>10, <1>11 DEF Classes

-----------------------------------------------------------------------------
(* The type invariant, preserved by every operation (recordCodexUpstream-  *)
(* Outcome, the lease handlers, the operator's interventions, the clock).  *)
LEMMA TypeStep == TypeOK /\ [Next]_vars => TypeOK'
<1> SUFFICES ASSUME TypeOK, [Next]_vars PROVE TypeOK'
  OBVIOUS
<1> USE DEF TypeOK
<1>1. ASSUME NEW r \in Requests, AdmitFree(r) PROVE TypeOK'
  BY <1>1 DEF AdmitFree, observers, Phases
<1>2. ASSUME NEW r \in Requests, AdmitProbe(r) PROVE TypeOK'
  <2>1. granted' \in Nat /\ health' \in Health
    BY <1>2, WithProbeType DEF AdmitProbe
  <2>2. leaseUntil' \in Nat
    BY <1>2 DEF AdmitProbe, Health
  <2>3. req' \in [Requests -> [phase : Phases, lease : Nat]]
    BY <1>2, <2>1 DEF AdmitProbe, Phases
  <2>4. QED
    BY <1>2, <2>1, <2>2, <2>3 DEF AdmitProbe
<1>3. ASSUME NEW r \in Requests, AuthFail(r) PROVE TypeOK'
  <2>1. health' \in Health
    BY <1>3, ReleaseType DEF AuthFail
  <2>2. QED
    BY <1>3, <2>1 DEF AuthFail, observers, NoRequest, Phases
<1>4. ASSUME NEW r \in Requests, Send(r) PROVE TypeOK'
  BY <1>4 DEF Send, observers, Phases
<1>5. ASSUME NEW r \in Requests, NEW class \in Classes, Reports(r, class) PROVE TypeOK'
  <2>1. PICK done \in BOOLEAN, meta \in QuotaMeta : Outcome(r, class, meta, done)
    BY <1>5, ProbeAssumption DEF Reports, NoMeta, QuotaMeta
  <2>2. health' \in Health
    BY <2>1, OutcomeType DEF Outcome
  <2>3. QED
    BY <2>1, <2>2 DEF Outcome, observers, NoRequest, Phases
<1>6. ASSUME NEW r \in Requests, Abandon(r) PROVE TypeOK'
  BY <1>6 DEF Abandon, NoRequest, Phases
<1>7. CASE ClearCooldown
  BY <1>7, LiftedType DEF ClearCooldown, observers
<1>8. CASE ManualSelection
  BY <1>8, PreservedType DEF ManualSelection, AfterManualSelection, observers
<1>9. CASE Purge
  BY <1>9, NoHealthType DEF Purge, observers
<1>10. CASE Tick
  BY <1>10 DEF Tick, observers
<1>11. CASE UNCHANGED vars
  BY <1>11 DEF vars
<1>12. QED
  BY <1>1, <1>2, <1>3, <1>4, <1>5, <1>6, <1>7, <1>8, <1>9, <1>10, <1>11 DEF Next, Step

(* Every record, request and observer keeps its type.                      *)
THEOREM TypeCorrect == Spec => []TypeOK
<1>1. Init => TypeOK
  BY NoHealthType DEF Init, TypeOK, NoRequest, Phases
<1>2. QED
  BY <1>1, TypeStep, PTL DEF Spec

-----------------------------------------------------------------------------
(* The inductive step.  An outcome, a release and the operator's actions   *)
(* are all instances of OutcomeEffect or clear the lease; only AdmitProbe  *)
(* writes one, and only over a record without one.                         *)
LEMMA OutcomeStep ==
    ASSUME IInv, NEW r \in Requests, NEW id \in Nat, id = req[r].lease,
           health' \in Health, OutcomeEffect(health, health', id, now),
           req[r].phase # "idle",
           req' = [req EXCEPT ![r] = NoRequest] \/ req' = req,
           UNCHANGED <<now, granted, observers>>
    PROVE  LeaseGenerations' /\ LeaseIsCarried' /\ ProbeClocks'
<1> USE DEF IInv, TypeOK
<1>1. LeaseGenerations'
  BY DEF LeaseGenerations, RetryAfterIsUnprobed, OutcomeEffect, Health
<1>2. LeaseIsCarried'
  <2> SUFFICES ASSUME health'.lease # 0, health'.lease # orphan
               PROVE  \E q \in Requests : req'[q].phase # "idle" /\ req'[q].lease = health'.lease
    BY DEF LeaseIsCarried, observers
  <2>1. health'.lease = health.lease /\ ~ OwnsProbe(health, id)
    BY DEF OutcomeEffect
  <2>2. PICK q \in Requests : req[q].phase # "idle" /\ req[q].lease = health.lease
    BY <2>1 DEF LeaseIsCarried, observers
  <2>3. q # r
    BY <2>1, <2>2 DEF OwnsProbe
  <2>4. QED
    BY <2>1, <2>2, <2>3
<1>3. ProbeClocks'
  BY DEF ProbeClocks, OutcomeEffect, observers, Health
<1>4. QED
  BY <1>1, <1>2, <1>3

LEMMA InvariantStep == IInv /\ [Next]_vars => IInv'
<1> SUFFICES ASSUME IInv, [Next]_vars
             PROVE  LeaseGenerations' /\ LeaseIsCarried' /\ ProbeClocks'
  BY TypeStep DEF IInv
<1> USE DEF IInv
<1>1. TypeOK'
  BY TypeStep
<1> DEFINE Goal == LeaseGenerations' /\ LeaseIsCarried' /\ ProbeClocks'
<1>2. ASSUME NEW r \in Requests, AdmitFree(r) PROVE Goal
  <2>1. LeaseIsCarried'
    BY <1>2 DEF AdmitFree, observers, LeaseIsCarried, TypeOK
  <2>2. LeaseGenerations' /\ ProbeClocks'
    BY <1>2 DEF AdmitFree, observers, LeaseGenerations, RetryAfterIsUnprobed, ProbeClocks
  <2>3. QED
    BY <2>1, <2>2
<1>3. ASSUME NEW r \in Requests, AdmitProbe(r) PROVE Goal
  <2>1. /\ health'.lease = granted' /\ health'.leaseGen = health.gen
        /\ health'.gen = health.gen /\ health'.source = health.source
        /\ health'.since = health.since /\ health'.probedAt = now
    BY <1>3 DEF AdmitProbe, WithProbe, TypeOK, Health
  <2>2. LeaseGenerations'
    BY <1>3, <2>1 DEF AdmitProbe, CanAcquireProbe, LeaseGenerations, RetryAfterIsUnprobed,
                      TypeOK, Health
  <2>3. req'[r].phase # "idle" /\ req'[r].lease = health'.lease
    BY <1>3, <2>1 DEF AdmitProbe, TypeOK
  <2>4. ProbeClocks'
    BY <1>3, <2>1 DEF AdmitProbe, ProbeClocks, TypeOK
  <2>5. QED
    BY <2>2, <2>3, <2>4 DEF LeaseIsCarried
<1>4. ASSUME NEW r \in Requests, AuthFail(r) PROVE Goal
  <2>1. OutcomeEffect(health, health', req[r].lease, now)
    BY <1>4, ReleaseFields DEF AuthFail, OutcomeEffect, TypeOK
  <2>2. QED
    BY <1>1, <1>4, <2>1, OutcomeStep DEF AuthFail, TypeOK
<1>5. ASSUME NEW r \in Requests, Send(r) PROVE Goal
  <2>1. LeaseIsCarried'
    BY <1>5 DEF Send, observers, LeaseIsCarried, TypeOK
  <2>2. LeaseGenerations' /\ ProbeClocks'
    BY <1>5 DEF Send, observers, LeaseGenerations, RetryAfterIsUnprobed, ProbeClocks
  <2>3. QED
    BY <2>1, <2>2
<1>6. ASSUME NEW r \in Requests, NEW class \in Classes, Reports(r, class) PROVE Goal
  <2>1. PICK done \in BOOLEAN, meta \in QuotaMeta : Outcome(r, class, meta, done)
    BY <1>6, ProbeAssumption DEF Reports, NoMeta, QuotaMeta
  <2>2. OutcomeEffect(health, health', req[r].lease, now)
    BY <2>1, OutcomeFields DEF Outcome, TypeOK
  <2>3. QED
    BY <1>1, <2>1, <2>2, OutcomeStep DEF Outcome, TypeOK
<1>7. ASSUME NEW r \in Requests, Abandon(r) PROVE Goal
  <2>1. LeaseIsCarried'
    <3> SUFFICES ASSUME health.lease # 0, health.lease # orphan'
                 PROVE  \E q \in Requests : req'[q].phase # "idle" /\ req'[q].lease = health.lease
      BY <1>7 DEF Abandon, LeaseIsCarried
    <3>1. health.lease # orphan /\ req[r].lease # health.lease
      BY <1>7 DEF Abandon, OwnsProbe
    <3>2. PICK q \in Requests : req[q].phase # "idle" /\ req[q].lease = health.lease
      BY <3>1 DEF LeaseIsCarried
    <3>3. QED
      BY <1>7, <3>1, <3>2 DEF Abandon, TypeOK
  <2>2. LeaseGenerations' /\ ProbeClocks'
    BY <1>7 DEF Abandon, LeaseGenerations, RetryAfterIsUnprobed, ProbeClocks
  <2>3. QED
    BY <2>1, <2>2
<1>8. CASE ClearCooldown
  <2>1. health'.lease = 0 /\ health'.since = 0 /\ health'.probedAt = now
    BY <1>8 DEF ClearCooldown, Cooling, Lifted, WithProbeReleased, TypeOK, Health
  <2>2. QED
    BY <1>8, <2>1 DEF ClearCooldown, observers, LeaseGenerations, RetryAfterIsUnprobed,
                      LeaseIsCarried, ProbeClocks, TypeOK
<1>9. CASE ManualSelection
  <2>1. /\ health'.lease = health.lease /\ health'.leaseGen = health.leaseGen
        /\ health'.gen = health.gen /\ health'.source = health.source
        /\ health'.since = health.since /\ health'.probedAt = health.probedAt
    BY <1>9, PreservedFields DEF ManualSelection, AfterManualSelection, TypeOK
  <2>2. QED
    BY <1>9, <2>1 DEF ManualSelection, observers, LeaseGenerations, RetryAfterIsUnprobed,
                      LeaseIsCarried, ProbeClocks, TypeOK
<1>10. CASE Purge
  BY <1>10 DEF Purge, NoHealth, observers, LeaseGenerations, RetryAfterIsUnprobed,
               LeaseIsCarried, ProbeClocks, TypeOK
<1>11. CASE Tick
  BY <1>11 DEF Tick, observers, LeaseGenerations, RetryAfterIsUnprobed,
               LeaseIsCarried, ProbeClocks, TypeOK
<1>12. CASE UNCHANGED vars
  BY <1>12 DEF vars, LeaseGenerations, RetryAfterIsUnprobed,
               LeaseIsCarried, ProbeClocks, TypeOK
<1>13. QED
  BY <1>2, <1>3, <1>4, <1>5, <1>6, <1>7, <1>8, <1>9, <1>10, <1>11, <1>12 DEF Next, Step

LEMMA InvariantHolds == Spec => []IInv
<1>1. Init => IInv
  BY NoHealthType DEF Init, IInv, TypeOK, NoRequest, Phases, LeaseGenerations,
     RetryAfterIsUnprobed, LeaseIsCarried, ProbeClocks, NoHealth
<1>2. QED
  BY <1>1, InvariantStep, PTL DEF Spec

-----------------------------------------------------------------------------
(* A lease in flight under a Retry-After was granted for an older cooldown *)
(* (probeMayClearCooldown can only refuse it).                             *)
THEOREM RetryAfterUnprobed == Spec => []RetryAfterIsUnprobed
<1>1. IInv => RetryAfterIsUnprobed
  BY DEF IInv, LeaseGenerations
<1>2. QED
  BY <1>1, InvariantHolds, PTL

(* Every lease in the record is carried by a request in progress, unless   *)
(* its request ended without reporting (recordCodexUpstreamOutcome hands   *)
(* an owned lease back on every branch).                                   *)
THEOREM LeaseCarried == Spec => []LeaseIsCarried
<1>1. IInv => LeaseIsCarried
  BY DEF IInv
<1>2. QED
  BY <1>1, InvariantHolds, PTL

(* The probe clock of a cooling account never runs from before the last    *)
(* grant.                                                                  *)
THEOREM ProbeClockHolds == Spec => []ProbeClock
<1>1. IInv => ProbeClock
  BY DEF IInv, TypeOK, Health, ProbeClocks, ProbeClock, ProbeOrigin, Cooling, InCooldown
<1>2. QED
  BY <1>1, InvariantHolds, PTL

-----------------------------------------------------------------------------
(* Two probes of the account are at least the probe interval apart         *)
(* (canAcquireCodexQuotaProbeLease), whatever happened in between.         *)
THEOREM ProbesPaced == Spec => ProbesArePaced
<1> DEFINE Paced == granted' # granted /\ lastGrant # 0 => now >= lastGrant + ProbeInterval
<1>1. IInv /\ [Next]_vars => Paced
  <2> SUFFICES ASSUME IInv, [Next]_vars, granted' # granted, lastGrant # 0
               PROVE  now >= lastGrant + ProbeInterval
    OBVIOUS
  <2>1. PICK r \in Requests : AdmitProbe(r)
    BY DEF vars, Next, Step, AdmitFree, AuthFail, Send, Reports, Outcome, Abandon,
           ClearCooldown, ManualSelection, Purge, Tick
  <2>2. Cooling /\ now >= ProbeOrigin(health) + ProbeInterval
    BY <2>1 DEF AdmitProbe, CanAcquireProbe, Cooling
  <2>3. ProbeOrigin(health) >= lastGrant /\ ProbeOrigin(health) \in Nat
    BY <2>2 DEF IInv, TypeOK, Health, ProbeClocks, ProbeOrigin, Cooling, InCooldown
  <2>4. QED
    BY <2>2, <2>3, HealthAssumption DEF IInv, TypeOK
<1>2. QED
  BY <1>1, InvariantHolds, PTL DEF Spec, ProbesArePaced

(* The branches of recordCodexUpstreamOutcome that keep a live cooldown: a *)
(* success that may not clear it, a caller error, a transient failure.     *)
LEMMA CooldownKept ==
    ASSUME NEW h \in Health, NEW class \in Classes \ {"quota", "credential"},
           NEW id \in Nat, NEW meta \in QuotaMeta, NEW t \in Nat,
           InCooldown(h, t), ~ MayClearCooldown(h, id)
    PROVE  LET k == AfterOutcome(h, class, id, meta, t) IN
           /\ k.until = h.until /\ k.source = h.source /\ k.gen = h.gen
           /\ ~ OwnsProbe(h, id) => k.lease = h.lease /\ k.leaseGen = h.leaseGen
<1> DEFINE released == ReleaseProbe(h, id, t)
           preserved == PreservedCooldown(released)
           Kept(k) == /\ k.until = h.until /\ k.source = h.source /\ k.gen = h.gen
                      /\ ~ OwnsProbe(h, id) => k.lease = h.lease /\ k.leaseGen = h.leaseGen
<1>1. released \in Health /\ preserved \in Health
  BY ReleaseType, PreservedType
<1>2. Kept(released)
  BY DEF ReleaseProbe, WithProbeReleased, Health
<1>3. Kept(preserved)
  BY <1>1, <1>2, PreservedFields
<1>4. Kept([released EXCEPT !.successes = h.successes + 1])
  BY <1>1, <1>2 DEF Health
<1>5. CASE class = "success"
  BY <1>2, <1>3, <1>4, <1>5 DEF AfterOutcome, AfterSuccess
<1>6. CASE class = "caller"
  BY <1>2, <1>6 DEF AfterOutcome, AfterCaller
<1>7. CASE class = "transient"
  <2>1. PICK f, a : AfterTransient(h, id, t)
                    = [preserved EXCEPT !.failures = f, !.failedAt = t, !.avoidUntil = a]
    BY DEF AfterTransient
  <2>2. Kept([preserved EXCEPT !.failures = f, !.failedAt = t, !.avoidUntil = a])
    BY <1>1, <1>3 DEF Health
  <2>3. QED
    BY <1>7, <2>1, <2>2 DEF AfterOutcome
<1>8. QED
  BY <1>5, <1>6, <1>7 DEF Classes

(* No success, caller error or transient failure, probe or not, ends or    *)
(* relabels a live Retry-After cooldown.                                   *)
THEOREM RetryAfterHonoured == Spec => RetryAfterIsHonoured
<1> DEFINE Honoured ==
        Cooling /\ health.source = "retry-after" =>
            \A r \in Requests, class \in Classes \ {"quota", "credential"} :
                Reports(r, class) => /\ health'.until = health.until
                                     /\ health'.source = "retry-after"
<1>1. IInv => Honoured
  <2> SUFFICES ASSUME IInv, Cooling, health.source = "retry-after",
                      NEW r \in Requests, NEW class \in Classes \ {"quota", "credential"},
                      Reports(r, class)
               PROVE  health'.until = health.until /\ health'.source = "retry-after"
    OBVIOUS
  <2>1. PICK done \in BOOLEAN, meta \in QuotaMeta : Outcome(r, class, meta, done)
    BY ProbeAssumption DEF Reports, NoMeta, QuotaMeta
  <2>2. ~ MayClearCooldown(health, req[r].lease)
    BY DEF IInv, TypeOK, Health, LeaseGenerations, RetryAfterIsUnprobed, MayClearCooldown,
           OwnsProbe
  <2>3. QED
    BY <2>1, <2>2, CooldownKept DEF Outcome, IInv, TypeOK, Cooling
<1>2. QED
  BY <1>1, InvariantHolds, PTL DEF RetryAfterIsHonoured

(* An outcome that does not own the probe leaves it, and a live cooldown   *)
(* that it has no news about, as they are.                                 *)
THEOREM StrangersHarmless == Spec => StrangersLeaveTheProbeAlone
<1> DEFINE Alone ==
        Cooling =>
            \A r \in {s \in Requests : ~ OwnsProbe(health, req[s].lease)} :
                \A class \in Classes \ {"credential"} :
                    Reports(r, class) =>
                        /\ health'.lease = health.lease
                        /\ health'.leaseGen = health.leaseGen
                        /\ class # "quota" => /\ health'.until = health.until
                                              /\ health'.source = health.source
                                              /\ health'.gen = health.gen
<1>1. TypeOK => Alone
  <2> SUFFICES ASSUME TypeOK, Cooling,
                      NEW r \in Requests, ~ OwnsProbe(health, req[r].lease),
                      NEW class \in Classes \ {"credential"}, Reports(r, class)
               PROVE  /\ health'.lease = health.lease
                      /\ health'.leaseGen = health.leaseGen
                      /\ class # "quota" => /\ health'.until = health.until
                                            /\ health'.source = health.source
                                            /\ health'.gen = health.gen
    OBVIOUS
  <2>1. PICK done \in BOOLEAN, meta \in QuotaMeta : Outcome(r, class, meta, done)
    BY ProbeAssumption DEF Reports, NoMeta, QuotaMeta
  <2> DEFINE id == req[r].lease
             preserved == PreservedCooldown(ReleaseProbe(health, id, now))
  <2>2. health \in Health /\ id \in Nat /\ now \in Nat
    BY DEF TypeOK
  <2>3. CASE class = "quota"
    <3>1. preserved \in Health /\ preserved.lease = health.lease
          /\ preserved.leaseGen = health.leaseGen
      BY <2>2, PreservedType, PreservedFields DEF ReleaseProbe
    <3>2. health' = AfterQuota(health, id, meta, now)
      BY <2>1, <2>3 DEF Outcome, AfterOutcome
    <3>3. QED
      BY <2>3, <3>1, <3>2 DEF AfterQuota, Health
  <2>4. CASE class # "quota"
    BY <2>1, <2>2, <2>4, CooldownKept DEF Outcome, MayClearCooldown, Cooling
  <2>5. QED
    BY <2>3, <2>4
<1>2. QED
  BY <1>1, TypeCorrect, PTL DEF StrangersLeaveTheProbeAlone
=============================================================================
