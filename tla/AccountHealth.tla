--------------------------- MODULE AccountHealth ---------------------------
(***************************************************************************)
(* The upstream-health record that codex/routing.ts keeps for one account  *)
(* of the ChatGPT pool, and what each upstream outcome does to it.         *)
(*                                                                         *)
(* The code stores a partial object in the map `upstreamHealth`; every     *)
(* reader treats a missing entry and a missing field alike, so a record    *)
(* with zeros stands for both.  Timestamps are positive (the clock of the  *)
(* modules that use this one starts at 1), so 0 is "never" and "none".     *)
(* lastFailureStatus is only displayed and is left out.                    *)
(*                                                                         *)
(* An operator marked "fault:" is a slip the code could have made.  It is  *)
(* unused: putting it in place of the operator that follows shows that a   *)
(* property can fail (README, "Fault variants").                           *)
(***************************************************************************)
EXTENDS Naturals, Sequences

CONSTANTS
    DefaultCooldown,     \* CODEX_DEFAULT_QUOTA_COOLDOWN_MS
    MaxCooldown,         \* CODEX_MAX_QUOTA_COOLDOWN_MS
    ResetCap,            \* CODEX_MAX_RESET_DERIVED_COOLDOWN_MS
    ProbeInterval,       \* CODEX_QUOTA_PROBE_INTERVAL_MS
    FailureWindow,       \* CODEX_FAILURE_WINDOW_MS
    SoftAvoidMs,         \* CODEX_TRANSIENT_SOFT_AVOID_ESCALATION_MS
    FailoverThreshold    \* config.upstreamFailoverThreshold (0 turns failover off)

ASSUME HealthAssumption ==
    /\ DefaultCooldown \in Nat \ {0}
    /\ MaxCooldown \in Nat \ {0}
    /\ ResetCap \in Nat \ {0}
    /\ ProbeInterval \in Nat \ {0}
    /\ FailureWindow \in Nat
    /\ SoftAvoidMs \in Seq(Nat \ {0})
    /\ Len(SoftAvoidMs) > 0
    /\ FailoverThreshold \in Nat

Lesser(a, b) == IF a < b THEN a ELSE b
Greater(a, b) == IF a < b THEN b ELSE a

Sources == {"none", "retry-after", "reset-derived", "default"}

(* The classes of classifyCodexUpstreamOutcome.  Its "unknown" takes the   *)
(* transient branch of recordCodexUpstreamOutcome, so "transient" is both. *)
Classes == {"success", "caller", "credential", "quota", "transient"}

Health == [
    failures   : Nat,        \* consecutiveFailures
    successes  : Nat,        \* consecutiveSuccesses
    failedAt   : Nat,        \* lastFailureAt
    until      : Nat,        \* cooldownUntil
    since      : Nat,        \* cooldownSince
    source     : Sources,    \* cooldownSource
    gen        : Nat,        \* cooldownGeneration
    lease      : Nat,        \* probeLeaseId
    leaseGen   : Nat,        \* probeLeaseGeneration
    probedAt   : Nat,        \* lastProbeAt
    avoidUntil : Nat ]       \* softAvoidUntil

NoHealth == [
    failures |-> 0, successes |-> 0, failedAt |-> 0,
    until |-> 0, since |-> 0, source |-> "none", gen |-> 0,
    lease |-> 0, leaseGen |-> 0, probedAt |-> 0, avoidUntil |-> 0 ]

(* What a 429 or 402 says about coming back: the Retry-After delay and the *)
(* reset timestamps of the primary, secondary and tertiary quota windows;  *)
(* 0 for a header that is absent or unusable.                              *)
Windows == 1 .. 3
QuotaMeta == [retryAfter : Nat, resets : [Windows -> Nat]]
NoMeta == [retryAfter |-> 0, resets |-> [w \in Windows |-> 0]]

InCooldown(h, t) == h.until > t
SoftAvoided(h, t) == h.avoidUntil > t

ClampCooldown(d) == Lesser(Greater(d, 1), MaxCooldown)

(* Delays of the resets still ahead of t; parseResetCooldownMs keeps the   *)
(* shortest, which clamping preserves.                                     *)
ResetDelays(meta, t) ==
    {meta.resets[w] - t : w \in {v \in Windows : meta.resets[v] > t}}
Shortest(delays) == CHOOSE d \in delays : \A e \in delays : d <= e

(* fault: the source of a Retry-After is misspelt.                         *)
MislabelledCooldown(meta, t) ==
    [until |-> t + ClampCooldown(meta.retryAfter), source |-> "retry_after"]

ComputeQuotaCooldown(meta, t) ==
    IF meta.retryAfter > 0
    THEN [until |-> t + ClampCooldown(meta.retryAfter), source |-> "retry-after"]
    ELSE IF ResetDelays(meta, t) # {}
    THEN [until |-> t + Lesser(ClampCooldown(Shortest(ResetDelays(meta, t))), ResetCap),
          source |-> "reset-derived"]
    ELSE [until |-> t + DefaultCooldown, source |-> "default"]

-----------------------------------------------------------------------------
(* Probe leases.                                                           *)

(* fault: the interval runs from the cooldown only, not from the last probe. *)
OriginWithoutProbe(h) == IF h.since # 0 THEN h.since ELSE h.until

(* lastProbeAt ?? cooldownSince ?? cooldownUntil *)
ProbeOrigin(h) ==
    IF h.probedAt # 0 THEN h.probedAt ELSE IF h.since # 0 THEN h.since ELSE h.until

CanAcquireProbe(h, t) ==
    /\ InCooldown(h, t)
    /\ h.source # "retry-after"
    /\ h.lease = 0
    /\ t >= ProbeOrigin(h) + ProbeInterval

(* fault: a grant does not stamp lastProbeAt.                              *)
WithProbeUnstamped(h, id, t) == [h EXCEPT !.lease = id, !.leaseGen = h.gen]

WithProbe(h, id, t) ==
    [h EXCEPT !.lease = id, !.leaseGen = h.gen, !.probedAt = t]

OwnsProbe(h, id) == id # 0 /\ id = h.lease
(* fault: the generation of the lease is not compared.                     *)
MayClearAnyCooldown(h, id) == OwnsProbe(h, id)

MayClearCooldown(h, id) == OwnsProbe(h, id) /\ h.leaseGen = h.gen

WithProbeReleased(h, t) == [h EXCEPT !.lease = 0, !.leaseGen = 0, !.probedAt = t]
(* fault: any outcome returns the lease, not only its owner's.             *)
ReleaseAnyProbe(h, id, t) == WithProbeReleased(h, t)

ReleaseProbe(h, id, t) == IF OwnsProbe(h, id) THEN WithProbeReleased(h, t) ELSE h

(* Hard-cooldown bookkeeping only: failures, streaks and soft-avoid drop.  *)
PreservedCooldown(h) ==
    [h EXCEPT !.failures = 0, !.successes = 0, !.failedAt = 0, !.avoidUntil = 0]

-----------------------------------------------------------------------------
(* One operator per branch of recordCodexUpstreamOutcome: the health of    *)
(* the account after an outcome, reported at time t by a request carrying  *)
(* the lease `id` (0 for none).                                            *)

AfterSuccess(h, id, t) ==
    LET base == ReleaseProbe(h, id, t)
        recovering == FailoverThreshold > 0 /\ h.failures >= 2 /\ h.successes + 1 < 2
    IN  IF InCooldown(h, t) /\ MayClearCooldown(h, id) THEN NoHealth
        ELSE IF recovering THEN [base EXCEPT !.successes = h.successes + 1]
        ELSE IF InCooldown(h, t) THEN PreservedCooldown(base)
        ELSE NoHealth

(* fault: a 4xx returns early and leaves the lease behind.                 *)
AfterCallerEarlyReturn(h, id, t) == h

AfterCaller(h, id, t) == ReleaseProbe(h, id, t)

AfterCredential(t) == [NoHealth EXCEPT !.failures = 1, !.failedAt = t]

(* fault: a new cooldown keeps the generation of the one before.           *)
AfterQuotaSameGeneration(h, id, meta, t) ==
    LET cooldown == ComputeQuotaCooldown(meta, t)
    IN  [PreservedCooldown(ReleaseProbe(h, id, t)) EXCEPT
            !.failedAt = t, !.until = cooldown.until, !.since = t,
            !.source = cooldown.source]

AfterQuota(h, id, meta, t) ==
    LET cooldown == ComputeQuotaCooldown(meta, t)
    IN  [PreservedCooldown(ReleaseProbe(h, id, t)) EXCEPT
            !.failedAt = t,
            !.until    = cooldown.until,
            !.since    = t,
            !.source   = cooldown.source,
            !.gen      = h.gen + 1]

StaleFailure(h, t) == h.failedAt # 0 /\ t > h.failedAt + FailureWindow

SoftAvoidLevel(failures) ==
    Lesser(failures - FailoverThreshold + 1, Len(SoftAvoidMs))

AfterTransient(h, id, t) ==
    LET failures == IF StaleFailure(h, t) THEN 1 ELSE h.failures + 1
        ready == FailoverThreshold > 0 /\ failures >= FailoverThreshold
        live == IF SoftAvoided(h, t) THEN h.avoidUntil ELSE 0
    IN  [PreservedCooldown(ReleaseProbe(h, id, t)) EXCEPT
            !.failures   = failures,
            !.failedAt   = t,
            !.avoidUntil = IF ready
                           THEN Greater(live, t + SoftAvoidMs[SoftAvoidLevel(failures)])
                           ELSE 0]

AfterOutcome(h, class, id, meta, t) ==
    CASE class = "success"    -> AfterSuccess(h, id, t)
      [] class = "caller"     -> AfterCaller(h, id, t)
      [] class = "credential" -> AfterCredential(t)
      [] class = "quota"      -> AfterQuota(h, id, meta, t)
      [] OTHER                -> AfterTransient(h, id, t)

-----------------------------------------------------------------------------
(* The operator's two interventions.                                       *)

(* clearCodexAccountCooldown: lifts a live cooldown and drops the lease,   *)
(* keeping the failure history.                                            *)
Lifted(h, t) ==
    IF InCooldown(h, t)
    THEN [WithProbeReleased(h, t) EXCEPT
            !.until = 0, !.since = 0, !.source = "none", !.gen = h.gen + 1]
    ELSE h

(* resetCodexRoutingForManualSelection on the selected account's record.   *)
AfterManualSelection(h) == PreservedCooldown(h)

(* shouldFailover: a live failure streak at or over the threshold.         *)
ShouldFailover(h, t) ==
    /\ FailoverThreshold > 0
    /\ ~ StaleFailure(h, t)
    /\ h.failures >= FailoverThreshold
=============================================================================
