----------------------------- MODULE CodexProbe -----------------------------
(***************************************************************************)
(* Quota cooldown and probe leases of one pool account, under concurrent   *)
(* requests: the parts of codex/routing.ts and codex/auth-context.ts that  *)
(* decide who may go upstream over a cooldown and whose answer ends it.    *)
(*                                                                         *)
(* A request resolves its auth context (taking the probe lease when the    *)
(* account is cooling), awaits a token, goes upstream, and some time later *)
(* reports outcomes that carry the lease it was given.  Between any two of *)
(* these steps other requests, the operator, and time itself move on.      *)
(*                                                                         *)
(* The program's own state is `health`.  `req` is what each request's call *)
(* stack holds.  `lastGrant`, `leaseUntil` and `orphan` only observe.      *)
(***************************************************************************)
EXTENDS AccountHealth

CONSTANTS
    Requests,       \* requests that may be in progress at once
    QuotaMetas,     \* what 429/402 answers may carry: Retry-After, reset times
    MaxTime,        \* bound of the clock
    MaxGen,         \* bound of the cooldown generation
    MaxLeases,      \* bound of the lease ids handed out (randomUUID in the code)
    MaxFailures     \* bound of the failure streak

ASSUME ProbeAssumption ==
    /\ QuotaMetas \subseteq QuotaMeta
    /\ MaxTime \in Nat /\ MaxGen \in Nat /\ MaxLeases \in Nat /\ MaxFailures \in Nat

VARIABLES
    now,            \* Date.now()
    health,         \* upstreamHealth.get(account)
    req,            \* per request: where it is, and the lease it carries
    granted,        \* lease ids handed out so far
    lastGrant,      \* observer: when the last lease was granted
    leaseUntil,     \* observer: deadline of the cooldown that lease was for
    orphan          \* observer: last lease whose request ended with no outcome

vars == <<now, health, req, granted, lastGrant, leaseUntil, orphan>>
observers == <<lastGrant, leaseUntil, orphan>>

Phases == {"idle", "auth", "sent"}
NoRequest == [phase |-> "idle", lease |-> 0]

TypeOK ==
    /\ now \in Nat \ {0}
    /\ health \in Health
    /\ req \in [Requests -> [phase : Phases, lease : Nat]]
    /\ granted \in Nat
    /\ lastGrant \in Nat
    /\ leaseUntil \in Nat
    /\ orphan \in Nat

Init ==
    /\ now = 1
    /\ health = NoHealth
    /\ req = [r \in Requests |-> NoRequest]
    /\ granted = 0
    /\ lastGrant = 0
    /\ leaseUntil = 0
    /\ orphan = 0

Cooling == InCooldown(health, now)

-----------------------------------------------------------------------------
(* resolveCodexAuthContext, up to the await of the token.                  *)

AdmitFree(r) ==
    /\ req[r].phase = "idle"
    /\ ~ Cooling
    /\ req' = [req EXCEPT ![r] = [phase |-> "auth", lease |-> 0]]
    /\ UNCHANGED <<now, health, granted, observers>>

(* A cooling account admits a request only as its probe; any other request *)
(* is refused with CodexAccountCooldownError and changes nothing.          *)
AdmitProbe(r) ==
    /\ req[r].phase = "idle"
    /\ CanAcquireProbe(health, now)
    /\ granted < MaxLeases
    /\ granted' = granted + 1
    /\ health' = WithProbe(health, granted', now)
    /\ req' = [req EXCEPT ![r] = [phase |-> "auth", lease |-> granted']]
    /\ lastGrant' = now
    /\ leaseUntil' = health.until
    /\ UNCHANGED <<now, orphan>>

(* The token is missing or its refresh failed, or the context turned out   *)
(* unusable: nothing goes upstream and the lease is handed back.           *)
AuthFail(r) ==
    /\ req[r].phase = "auth"
    /\ health' = ReleaseProbe(health, req[r].lease, now)
    /\ req' = [req EXCEPT ![r] = NoRequest]
    /\ UNCHANGED <<now, granted, observers>>

Send(r) ==
    /\ req[r].phase = "auth"
    /\ req' = [req EXCEPT ![r].phase = "sent"]
    /\ UNCHANGED <<now, health, granted, observers>>

(* recordCodexUpstreamOutcome.  A forwarded response reports one outcome   *)
(* and is done; a sidecar keeps its context and may report again.          *)
Outcome(r, class, meta, done) ==
    /\ req[r].phase = "sent"
    /\ class = "quota" => health.gen < MaxGen
    /\ class = "transient" => StaleFailure(health, now) \/ health.failures < MaxFailures
    /\ health' = AfterOutcome(health, class, req[r].lease, meta, now)
    /\ req' = IF done THEN [req EXCEPT ![r] = NoRequest] ELSE req
    /\ UNCHANGED <<now, granted, observers>>

Reports(r, class) ==
    \E done \in BOOLEAN :
        \E meta \in IF class = "quota" THEN QuotaMetas ELSE {NoMeta} :
            Outcome(r, class, meta, done)

(* The request ends and reports nothing: the client cancels before the     *)
(* response headers or in mid-stream, a combo defers a reset-derived 429,  *)
(* or the sidecar skips a context that became unusable.                    *)
Abandon(r) ==
    /\ req[r].phase \in {"auth", "sent"}
    /\ req' = [req EXCEPT ![r] = NoRequest]
    /\ orphan' = IF OwnsProbe(health, req[r].lease) THEN req[r].lease ELSE orphan
    /\ UNCHANGED <<now, health, granted, lastGrant, leaseUntil>>

-----------------------------------------------------------------------------
(* The operator, the account store and the clock.                          *)

ClearCooldown ==
    /\ Cooling
    /\ health.gen < MaxGen
    /\ health' = Lifted(health, now)
    /\ UNCHANGED <<now, req, granted, observers>>

ManualSelection ==
    /\ health' = AfterManualSelection(health)
    /\ UNCHANGED <<now, req, granted, observers>>

(* purgeCodexAccountRuntimeState: the account is deleted, or the main      *)
(* login now belongs to another physical account.                          *)
Purge ==
    /\ health' = NoHealth
    /\ UNCHANGED <<now, req, granted, observers>>

Tick ==
    /\ now < MaxTime
    /\ now' = now + 1
    /\ UNCHANGED <<health, req, granted, observers>>

Step(r) ==
    \/ AdmitFree(r)
    \/ AdmitProbe(r)
    \/ AuthFail(r)
    \/ Send(r)
    \/ \E class \in Classes : Reports(r, class)
    \/ Abandon(r)

Next ==
    \/ \E r \in Requests : Step(r)
    \/ ClearCooldown
    \/ ManualSelection
    \/ Purge
    \/ Tick

Spec == Init /\ [][Next]_vars

-----------------------------------------------------------------------------
(* Properties.                                                             *)

(* A cooldown that came with Retry-After is a literal directive: the lease *)
(* in flight, if any, was granted for an older cooldown, so no answer to   *)
(* it can end this one (routing.ts 66-70, 314-321).                        *)
RetryAfterIsUnprobed ==
    health.source = "retry-after" /\ health.lease # 0 => health.leaseGen < health.gen

(* Whoever reports success, a live Retry-After cooldown keeps its deadline *)
(* and its source.  Breaks if a late probe may clear a newer cooldown.     *)
RetryAfterIsHonoured ==
    [][ Cooling /\ health.source = "retry-after" =>
            \A r \in Requests, class \in Classes \ {"quota", "credential"} :
                Reports(r, class) => /\ health'.until = health.until
                                     /\ health'.source = "retry-after"
      ]_vars

(* Probes are paced: two leases of one account are at least the probe      *)
(* interval apart, whatever cleared, replaced or deleted the record        *)
(* between them (routing.ts 255-285).                                      *)
ProbesArePaced ==
    [][ granted' # granted /\ lastGrant # 0 => now >= lastGrant + ProbeInterval ]_vars

(* An outcome that does not own the lease leaves the probe in flight alone *)
(* while the account is cooling, and rewrites the cooldown only if it is a *)
(* 429 or 402.  401/403 replace the record (routing.ts 324-331).           *)
StrangersLeaveTheProbeAlone ==
    [][ Cooling =>
            \A r \in {s \in Requests : ~ OwnsProbe(health, req[s].lease)} :
                \A class \in Classes \ {"credential"} :
                    Reports(r, class) =>
                        /\ health'.lease = health.lease
                        /\ health'.leaseGen = health.leaseGen
                        /\ class # "quota" => /\ health'.until = health.until
                                              /\ health'.source = health.source
                                              /\ health'.gen = health.gen
      ]_vars

(* A lease in the record is carried by a request still in progress; only   *)
(* a request that ends without an outcome leaves one behind.  So every     *)
(* outcome of the probe, on any generation, hands the lease back.          *)
LeaseIsCarried ==
    health.lease # 0 =>
        \/ health.lease = orphan
        \/ \E r \in Requests : req[r].phase # "idle" /\ req[r].lease = health.lease

(* The bookkeeping behind ProbesArePaced: while an account cools, the      *)
(* probe clock never runs from before the last grant.                      *)
ProbeClock ==
    /\ lastGrant <= now
    /\ Cooling => ProbeOrigin(health) >= lastGrant

(* What the design contract says of a leaked lease: at worst there is no   *)
(* probe until the cooldown it was granted for ends.  A cooldown recorded  *)
(* after that deadline is therefore not blocked by it.                     *)
LeakEndsWithItsCooldown ==
    Cooling /\ health.lease # 0 /\ health.lease = orphan => health.since < leaseUntil

(* Soft-avoid extends on repeated transient failures: another failure      *)
(* never ends or shortens a live one.                                      *)
FailuresExtendSoftAvoid ==
    [][ SoftAvoided(health, now) =>
            \A r \in Requests : Reports(r, "transient") => health'.avoidUntil >= health.avoidUntil
      ]_vars
=============================================================================
