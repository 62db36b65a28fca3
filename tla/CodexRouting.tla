---------------------------- MODULE CodexRouting ----------------------------
(***************************************************************************)
(* Account selection of codex/routing.ts: which account of the ChatGPT     *)
(* pool serves a request, what an outcome changes about that, and what the *)
(* operator, the credential store and the usage poller change meanwhile.   *)
(*                                                                         *)
(* The routing state that moves together is one record, `route`:           *)
(*   pins     threadAccountMap                                             *)
(*   active   config.activeCodexAccountId (what is saved to disk)          *)
(*   runtime  runtimeActiveCodexAccountId (the automatic cursor)           *)
(*   ring     the round-robin state of the pool (PoolRotation)             *)
(* and an operator that decides returns a Pick: the chosen account and the *)
(* route that the choice leaves behind.                                    *)
(*                                                                         *)
(* Not modelled: createdAt and lastReevalAt of a pin (no decision depends  *)
(* on them: an account over its threshold is re-evaluated at once) and the *)
(* cap of 2048 pins.                                                       *)
(***************************************************************************)
EXTENDS AccountHealth, PoolRotation

CONSTANTS
    Main,               \* MAIN_CODEX_ACCOUNT_ID
    NameRank,           \* position of an account in localeCompare order
    Threads,            \* values of x-codex-parent-thread-id
    NoThread,           \* a request without that header
    Requests,           \* requests that may be in progress at once
    Strategies,         \* values of config.accountPoolStrategy
    InitialActive,      \* saved selections the program may start with
    SwitchThreshold,    \* config.autoSwitchThreshold (0 turns the switch off)
    FullUsage,          \* CODEX_UNKNOWN_USAGE_SCORE, and 100 %
    UnknownUsage,       \* no quota observed for the account yet
    Usages,             \* usage percentages observed
    InitialUsage,       \* usages known when the first request arrives
    IdleTtl,            \* CODEX_THREAD_AFFINITY_IDLE_TTL_MS
    QuotaMetas,         \* what 429/402 answers may carry
    MaxTime,            \* bound of the clock
    MaxServed,          \* bound of the requests admitted
    MaxEdits            \* bound of the changes from outside: operator, store, usage

ASSUME RoutingAssumption ==
    /\ Main \in Accounts
    /\ NameRank \in [Accounts -> 1 .. Cardinality(Accounts)]
    /\ \A a, b \in Accounts : NameRank[a] = NameRank[b] => a = b
    /\ NoThread \notin Threads
    /\ Strategies \subseteq {"quota", "round-robin", "fill-first"}
    /\ InitialActive \subseteq Accounts \cup {NoAccount}
    /\ FullUsage \in Nat
    /\ SwitchThreshold \in 0 .. FullUsage
    /\ UnknownUsage \notin Nat
    /\ Usages \subseteq 0 .. FullUsage
    /\ InitialUsage \subseteq [Accounts -> (0 .. FullUsage) \cup {UnknownUsage}]
    /\ IdleTtl \in Nat
    /\ QuotaMetas \subseteq QuotaMeta
    /\ MaxTime \in Nat /\ MaxServed \in Nat /\ MaxEdits \in Nat

VARIABLES
    now,            \* Date.now()
    health,         \* upstreamHealth
    reauth,         \* reauthAccounts
    present,        \* accounts with a credential; of Main, its token is live
    gen,            \* generation of the stored credential
    usage,          \* accountQuota
    strategy,       \* config.accountPoolStrategy
    route,          \* see above
    req,            \* per request: what its call stack holds
    served,         \* admissions so far; numbers the probe leases
    edits,          \* outside changes so far
    login           \* observer: generation of the last login or deletion

vars == <<now, health, reauth, present, gen, usage, strategy, route, req, served, edits, login>>
world == <<now, present, gen, usage, strategy, login>>

MaybeAccount == Accounts \cup {NoAccount}
Pin == [account : MaybeAccount, gen : Nat, usedAt : Nat]
NoPin == [account |-> NoAccount, gen |-> 0, usedAt |-> 0]
Route == [pins : [Threads -> Pin], active : MaybeAccount, runtime : MaybeAccount, ring : Ring]

(* "retry": an alternate account was picked after `class`, which is still  *)
(* to be reported for `account`.  "unserved": the alternate had no token.  *)
Request == [phase : {"idle", "auth", "sent", "retry", "unserved"}, account : MaybeAccount,
            thread : Threads \cup {NoThread}, lease : Nat,
            alternate : MaybeAccount, class : Classes, retried : BOOLEAN]
NoRequest == [phase |-> "idle", account |-> NoAccount, thread |-> NoThread, lease |-> 0,
              alternate |-> NoAccount, class |-> "success", retried |-> FALSE]

TypeOK ==
    /\ now \in Nat \ {0}
    /\ health \in [Accounts -> Health]
    /\ reauth \subseteq Accounts
    /\ present \subseteq Accounts
    /\ gen \in [Accounts -> Nat]
    /\ usage \in [Accounts -> Nat \cup {UnknownUsage}]
    /\ strategy \in Strategies
    /\ route \in Route
    /\ req \in [Requests -> Request]
    /\ served \in Nat
    /\ edits \in Nat
    /\ login \in [Accounts -> Nat]

Init ==
    /\ now = 1
    /\ health = [a \in Accounts |-> NoHealth]
    /\ reauth = {}
    /\ present = Accounts
    /\ gen = [a \in Accounts |-> IF a = Main THEN 0 ELSE 1]
    /\ usage \in InitialUsage
    /\ strategy \in Strategies
    /\ route \in [pins : {[t \in Threads |-> NoPin]}, active : InitialActive,
                  runtime : {NoAccount}, ring : {EmptyRing}]
    /\ req = [r \in Requests |-> NoRequest]
    /\ served = 0
    /\ edits = 0
    /\ login = gen

-----------------------------------------------------------------------------
(* Which accounts may be chosen, and how they compare.                     *)

Usable(a) == a \in present \ reauth
Configured(a) == IF a = Main THEN Usable(a) ELSE a \in present

Selectable(a) ==
    /\ Usable(a)
    /\ ~ InCooldown(health[a], now)
    /\ ~ SoftAvoided(health[a], now)

Eligible == {a \in Accounts : Selectable(a)}
Failing(a) == ShouldFailover(health[a], now)

Score(a) == IF usage[a] = UnknownUsage THEN FullUsage ELSE usage[a]

(* Known usage at or over the threshold.  The score of an account without  *)
(* usage data is FullUsage, so the code reads FullUsage as "unknown".      *)
OverThreshold(a) ==
    /\ SwitchThreshold > 0
    /\ Score(a) < FullUsage
    /\ Score(a) >= SwitchThreshold

(* pickLowestUsageCodexAccount: the first of the lowest scores.            *)
LowestUsage(exclude) ==
    LET candidates == Eligible \ {exclude}
    IN  IF candidates = {} THEN NoAccount
        ELSE CHOOSE a \in candidates : \A b \in candidates \ {a} :
                \/ Score(a) < Score(b)
                \/ Score(a) = Score(b) /\ ListRank[a] < ListRank[b]

(* pickLowerUsageAccount *)
LowerUsage(a) ==
    LET b == LowestUsage(a)
    IN  IF b # NoAccount /\ Score(b) < Score(a) THEN b ELSE a

(* The place of c in the round that starts just after a; plain name order  *)
(* if a is not, or no longer, one of the accounts.                         *)
Turn(a, c) ==
    IF a \in Accounts /\ (a = Main \/ a \in present) /\ NameRank[c] <= NameRank[a]
    THEN NameRank[c] + Cardinality(Accounts)
    ELSE NameRank[c]

(* pickNextFillFirstCodexAccount *)
NextInOrder(after, eligible) ==
    LET fresh == {c \in eligible : ~ OverThreshold(c)}
        from == IF fresh # {} THEN fresh ELSE eligible
    IN  IF eligible = {} THEN NoAccount
        ELSE CHOOSE c \in from : \A d \in from : Turn(after, c) <= Turn(after, d)

-----------------------------------------------------------------------------
(* Writes to the routing state.                                            *)

Pick(a, rt) == [account |-> a, route |-> rt]

Effective(rt) == IF rt.runtime # NoAccount THEN rt.runtime ELSE rt.active
Remember(rt, a) == [rt EXCEPT !.runtime = a]
SetActive(rt, a) == [rt EXCEPT !.runtime = NoAccount, !.active = a]

(* fault: every promotion is written to the saved configuration.           *)
PromoteAndSave(rt, a) == SetActive(rt, a)

Promote(rt, a) == IF strategy = "quota" THEN SetActive(rt, a) ELSE Remember(rt, a)

Unpin(rt, t) == [rt EXCEPT !.pins[t] = NoPin]
UnpinAccount(rt, a) ==
    [rt EXCEPT !.pins = [t \in Threads |-> IF @[t].account = a THEN NoPin ELSE @[t]]]

Expired(pin) == pin.account # NoAccount /\ now > pin.usedAt + IdleTtl

(* bindThreadAffinity, which first drops every expired pin.                *)
Bind(rt, t, a) ==
    IF t = NoThread \/ (a # Main /\ a \notin present) THEN rt
    ELSE [rt EXCEPT !.pins = [u \in Threads |->
            IF u = t THEN [account |-> a, gen |-> IF a = Main THEN 0 ELSE gen[a], usedAt |-> now]
            ELSE IF Expired(@[u]) THEN NoPin ELSE @[u]]]

-----------------------------------------------------------------------------
(* Decisions.                                                              *)

(* pickAlternateCodexAccount *)
Alternate(rt, a) ==
    CASE strategy = "round-robin" ->
            LET turned == RotationPick(rt.ring, Eligible \ {a})
            IN  Pick(turned.account, [rt EXCEPT !.ring = turned.ring])
      [] strategy = "fill-first" -> Pick(NextInOrder(a, Eligible \ {a}), rt)
      [] OTHER -> Pick(LowestUsage(a), rt)

(* applyFailureFailover, given the health of the active account.           *)
FailureFailover(rt, a, h) ==
    LET other == Alternate(rt, a)
    IN  IF ~ ShouldFailover(h, now) THEN Pick(a, rt)
        ELSE IF other.account = NoAccount THEN Pick(a, other.route)
        ELSE Pick(other.account, Promote(other.route, other.account))

(* applyQuotaAutoSwitch *)
AutoSwitch(rt, a) ==
    LET cooler == LowerUsage(a)
    IN  IF OverThreshold(a) /\ cooler # a THEN Pick(cooler, SetActive(rt, cooler))
        ELSE Pick(a, rt)

PinIsLive(pin) ==
    IF pin.account = Main THEN pin.gen = 0
    ELSE pin.account \in present /\ pin.gen = gen[pin.account]

(* fault: the credential generation of a pin is not compared.              *)
KeepsAnyPin(pin) ==
    pin.account # NoAccount /\ Selectable(pin.account) /\ ~ Failing(pin.account)

KeepsPin(pin) ==
    /\ pin.account # NoAccount
    /\ PinIsLive(pin)
    /\ Selectable(pin.account)
    /\ ~ Failing(pin.account)

(* An ongoing thread.  Only the quota strategy moves it, when its account  *)
(* went over the threshold and a cooler one exists.                        *)
ResolvePinned(rt, t) ==
    LET a == rt.pins[t].account
        cooler == LowerUsage(a)
        touched == [rt EXCEPT !.pins[t].usedAt = now]
    IN  IF strategy = "quota" /\ OverThreshold(a) /\ cooler # a
        THEN Pick(cooler, Bind(SetActive(touched, cooler), t, cooler))
        ELSE Pick(a, touched)

(* pickUnboundStrategyAccount: a new session under round-robin or          *)
(* fill-first; no account when the strategy has no say.                    *)
(* fault: the active account is kept without looking at its health.        *)
FillFirstBlindly(rt) ==
    LET a == Effective(rt)
    IN  IF a # NoAccount /\ ~ OverThreshold(a) THEN a ELSE NextInOrder(a, Eligible)

FillFirst(rt) ==
    LET a == Effective(rt)
    IN  IF a \in Eligible /\ ~ OverThreshold(a) THEN a ELSE NextInOrder(a, Eligible)

ResolveStrategy(rt, t) ==
    LET turned == RotationPick(rt.ring, Eligible)
        a == CASE strategy = "round-robin" -> turned.account
               [] strategy = "fill-first" -> FillFirst(rt)
               [] OTHER -> NoAccount
        chosen == Bind(Remember(rt, a), t, a)
    IN  IF a = NoAccount THEN Pick(NoAccount, rt)
        ELSE IF strategy = "round-robin"
        THEN Pick(a, [chosen EXCEPT !.ring = RotationSuccess(turned.ring, a)])
        ELSE Pick(a, chosen)

(* The rest of resolveCodexAccountForThreadDetailed: start from the active *)
(* account (or the least used, which becomes active), leave it if it is    *)
(* not selectable and another is, then apply the switches and bind.  Its   *)
(* closing checks never fire: an account that got this far is selectable.  *)
ResolveActive(rt, t) ==
    LET start == IF Effective(rt) # NoAccount THEN Pick(Effective(rt), rt)
                 ELSE IF LowestUsage(NoAccount) = NoAccount THEN Pick(NoAccount, rt)
                 ELSE Pick(LowestUsage(NoAccount), SetActive(rt, LowestUsage(NoAccount)))
        spare == LowestUsage(start.account)
        from == IF Selectable(start.account) THEN start
                ELSE Pick(spare, SetActive(start.route, spare))
        switched == AutoSwitch(from.route, from.account)
        final == FailureFailover(switched.route, switched.account, health[switched.account])
    IN  IF start.account = NoAccount THEN start
        ELSE IF ~ Selectable(start.account) /\ spare = NoAccount
        THEN Pick(IF Configured(start.account) THEN start.account ELSE NoAccount, start.route)
        ELSE Pick(final.account, Bind(final.route, t, final.account))

(* resolveCodexAccountForThreadDetailed.  An expired pin is dropped and    *)
(* the request refused with 409.                                           *)
Resolve(rt, t) ==
    LET pin == IF t = NoThread THEN NoPin ELSE rt.pins[t]
        unpinned == IF t = NoThread THEN rt ELSE Unpin(rt, t)
        new == ResolveStrategy(unpinned, t)
    IN  IF Expired(pin) THEN Pick(NoAccount, unpinned)
        ELSE IF KeepsPin(pin) THEN ResolvePinned(rt, t)
        ELSE IF new.account # NoAccount THEN new
        ELSE ResolveActive(unpinned, t)

(* previewCodexAccountForRequest: the account alone, nothing written.      *)
PreviewActive(rt) ==
    LET a == Effective(rt)
        spare == LowestUsage(a)
        from == IF Selectable(a) THEN a ELSE spare
        cooler == IF OverThreshold(from) THEN LowerUsage(from) ELSE from
        other == LowestUsage(cooler)
    IN  IF a = NoAccount THEN LowestUsage(NoAccount)
        ELSE IF from = NoAccount THEN IF Configured(a) THEN a ELSE NoAccount
        ELSE IF Failing(cooler) /\ other # NoAccount THEN other
        ELSE cooler

(* fault: the preview pins a thread before it looks at the account's usage. *)
PreviewKeepingPins(rt, t) ==
    LET pin == IF t = NoThread THEN NoPin ELSE rt.pins[t]
        new == ResolveStrategy(rt, t).account
    IN  IF KeepsPin(pin) /\ ~ Expired(pin) THEN pin.account
        ELSE IF new # NoAccount THEN new
        ELSE PreviewActive(rt)

Preview(rt, t) ==
    LET pin == IF t = NoThread THEN NoPin ELSE rt.pins[t]
        new == ResolveStrategy(rt, t).account
    IN  IF KeepsPin(pin) /\ ~ Expired(pin)
        THEN IF strategy = "quota" /\ OverThreshold(pin.account)
             THEN LowerUsage(pin.account) ELSE pin.account
        ELSE IF new # NoAccount THEN new
        ELSE PreviewActive(rt)

-----------------------------------------------------------------------------
(* recordCodexUpstreamOutcome: the route after an outcome of account a,    *)
(* whose health is then h.  `promoted` is the alternate that this request  *)
(* already took, if any.                                                   *)

(* fault: the thread of the request is unpinned from whatever account.     *)
AfterTransientUnpinned(rt, a, t, h) ==
    LET left == IF ShouldFailover(h, now) /\ t # NoThread THEN Unpin(UnpinAccount(rt, a), t) ELSE rt
    IN  IF Effective(left) = a THEN FailureFailover(left, a, h).route ELSE left

(* The code first unpins the thread of the request if it is still pinned   *)
(* to a, then every thread pinned to a: the second covers the first.       *)
RouteAfterTransient(rt, a, t, h) ==
    LET left == IF ShouldFailover(h, now) THEN UnpinAccount(rt, a) ELSE rt
    IN  IF Effective(left) = a THEN FailureFailover(left, a, h).route ELSE left

(* fault: the alternate already taken is ignored and another one picked.   *)
RouteAfterQuotaPickingAgain(rt, a, promoted) ==
    LET left == [UnpinAccount(rt, a) EXCEPT !.ring = RotationFailure(@, a)]
        other == Alternate(left, a)
    IN  IF Effective(left) # a THEN left
        ELSE IF other.account = NoAccount THEN other.route
        ELSE Promote(other.route, other.account)

RouteAfterQuota(rt, a, promoted) ==
    LET left == [UnpinAccount(rt, a) EXCEPT !.ring = RotationFailure(@, a)]
        other == IF promoted \notin {NoAccount, a} THEN Pick(promoted, left)
                 ELSE Alternate(left, a)
    IN  IF Effective(left) # a THEN left
        ELSE IF other.account = NoAccount THEN other.route
        ELSE Promote(other.route, other.account)

RouteAfter(rt, a, t, class, promoted, h) ==
    CASE class = "credential" -> UnpinAccount(rt, a)
      [] class = "quota"      -> RouteAfterQuota(rt, a, promoted)
      [] class = "transient"  -> RouteAfterTransient(rt, a, t, h)
      [] OTHER                -> rt

(* The whole of recordCodexUpstreamOutcome for the request x.              *)
Record(x, class, meta, promoted) ==
    LET h == AfterOutcome(health[x.account], class, x.lease, meta, now)
    IN  /\ health' = [health EXCEPT ![x.account] = h]
        /\ route' = RouteAfter(route, x.account, x.thread, class, promoted, h)
        /\ reauth' = IF class = "credential" THEN reauth \cup {x.account} ELSE reauth

MetasOf(class) == IF class = "quota" THEN QuotaMetas ELSE {NoMeta}

-----------------------------------------------------------------------------
(* A request: resolveCodexAuthContext, the forwarded call, its outcome.    *)

(* What becomes of a request once Resolve has made its pick: it goes on,   *)
(* goes on as the probe of a cooling account, or is refused (409, 401 or   *)
(* 429) before anything is sent.                                           *)
Enter(r, t, a, lease) ==
    /\ served < MaxServed
    /\ served' = served + 1
    /\ req' = [req EXCEPT ![r] =
                [NoRequest EXCEPT !.phase = "auth", !.account = a, !.thread = t, !.lease = lease]]

EnterFree(r, t, a) ==
    /\ a # NoAccount /\ ~ InCooldown(health[a], now)
    /\ Enter(r, t, a, 0)
    /\ UNCHANGED health

EnterAsProbe(r, t, a) ==
    /\ a # NoAccount /\ CanAcquireProbe(health[a], now)
    /\ Enter(r, t, a, served + 1)
    /\ health' = [health EXCEPT ![a] = WithProbe(@, served + 1, now)]

Refuse(a) ==
    /\ a # NoAccount => InCooldown(health[a], now) /\ ~ CanAcquireProbe(health[a], now)
    /\ UNCHANGED <<req, served, health>>

(* resolveCodexAuthContext, up to the await of the token.                  *)
Admit(r, t) ==
    LET pick == Resolve(route, t) IN
    /\ req[r].phase = "idle"
    /\ EnterFree(r, t, pick.account) \/ EnterAsProbe(r, t, pick.account) \/ Refuse(pick.account)
    /\ route' = pick.route
    /\ UNCHANGED <<world, reauth, edits>>

(* getValidCodexToken failed; a rejected refresh marks the account.        *)
AuthFail(r) ==
    LET x == req[r] IN
    /\ x.phase = "auth"
    /\ health' = [health EXCEPT ![x.account] = ReleaseProbe(@, x.lease, now)]
    /\ reauth' \in {reauth} \cup {reauth \cup {a} : a \in {x.account} \ {Main}}
    /\ req' = [req EXCEPT ![r] = NoRequest]
    /\ UNCHANGED <<world, route, served, edits>>

(* getValidCodexToken refreshed the credential of the account, or of the   *)
(* alternate, and stored it under the next generation.                     *)
TokenRefreshed(r) ==
    LET x == req[r]
        a == IF x.phase = "retry" THEN x.alternate ELSE x.account IN
    /\ x.phase \in {"auth", "retry"} /\ a # Main /\ a \in present
    /\ edits < MaxEdits
    /\ gen' = [gen EXCEPT ![a] = @ + 1]
    /\ edits' = edits + 1
    /\ UNCHANGED <<now, present, usage, strategy, health, reauth, route, req, served, login>>

Send(r) ==
    /\ req[r].phase = "auth" /\ Usable(req[r].account)
    /\ req' = [req EXCEPT ![r].phase = "sent"]
    /\ UNCHANGED <<world, health, reauth, route, served, edits>>

Outcome(r, class, meta) ==
    /\ req[r].phase = "sent"
    /\ Record(req[r], class, meta, NoAccount)
    /\ req' = [req EXCEPT ![r] = NoRequest]
    /\ UNCHANGED <<world, served, edits>>

(* The client left, or a combo deferred a reset-derived 429.               *)
Abandon(r) ==
    /\ req[r].phase \in {"auth", "sent"}
    /\ req' = [req EXCEPT ![r] = NoRequest]
    /\ UNCHANGED <<world, health, reauth, route, served, edits>>

(* retryCodexPoolOnAlternateAccount, up to the await of the alternate's    *)
(* token: a 429, 402 or allow-listed 400 before the stream began.          *)
RetryPick(r, class) ==
    LET x == req[r]
        other == Alternate(route, x.account) IN
    /\ x.phase = "sent" /\ ~ x.retried
    /\ other.account # NoAccount
    /\ route' = other.route
    /\ req' = [req EXCEPT ![r].phase = "retry", ![r].alternate = other.account, ![r].class = class]
    /\ UNCHANGED <<world, health, reauth, served, edits>>

(* The token of the alternate cannot be had; a rejected refresh marks it.  *)
RetryLost(r) ==
    LET x == req[r] IN
    /\ x.phase = "retry"
    /\ reauth' \in {reauth} \cup {reauth \cup {a} : a \in {x.alternate} \ {Main}}
    /\ req' = [req EXCEPT ![r].phase = "unserved"]
    /\ UNCHANGED <<world, health, route, served, edits>>

(* No alternate after all: the first answer stands and is recorded.        *)
RetryFail(r, meta) ==
    LET x == req[r] IN
    /\ x.phase = "unserved"
    /\ Record(x, x.class, meta, NoAccount)
    /\ req' = [req EXCEPT ![r] = NoRequest]
    /\ UNCHANGED <<world, served, edits>>

Retried(x) == [x EXCEPT !.phase = "sent", !.account = x.alternate, !.lease = 0,
                        !.alternate = NoAccount, !.class = "success", !.retried = TRUE]

(* The first account's outcome is recorded, promoting the alternate, and   *)
(* the request goes out again.                                             *)
RetrySend(r, meta) ==
    LET x == req[r] IN
    /\ x.phase = "retry"
    /\ Record(x, x.class, meta, x.alternate)
    /\ req' = [req EXCEPT ![r] = Retried(x)]
    /\ UNCHANGED <<world, served, edits>>

(* A combo defers a reset-derived 429: the request goes out again and the  *)
(* first account's outcome is never recorded.                              *)
RetryDeferred(r) ==
    LET x == req[r] IN
    /\ x.phase = "retry" /\ x.class = "quota"
    /\ req' = [req EXCEPT ![r] = Retried(x)]
    /\ UNCHANGED <<world, health, reauth, route, served, edits>>

-----------------------------------------------------------------------------
(* The operator, the credential store, the usage poller and the clock.     *)

Edit == edits < MaxEdits /\ edits' = edits + 1

(* PUT /api/codex-auth/active                                              *)
SelectManually(a) ==
    LET shown == IF a = NoAccount THEN Main ELSE a IN
    /\ Edit
    /\ a \in {NoAccount, Main} \cup present
    /\ route' = [pins |-> [t \in Threads |-> NoPin], active |-> a,
                 runtime |-> NoAccount, ring |-> RotationSeed(shown)]
    /\ health' = [health EXCEPT ![shown] = AfterManualSelection(@)]
    /\ UNCHANGED <<world, reauth, req, served>>

(* DELETE /api/codex-auth/accounts.  The automatic cursor stays.           *)
DeleteAccount(a) ==
    /\ Edit
    /\ a \in present \ {Main}
    /\ present' = present \ {a}
    /\ gen' = [gen EXCEPT ![a] = @ + 1]
    /\ login' = [login EXCEPT ![a] = gen[a] + 1]
    /\ usage' = [usage EXCEPT ![a] = UnknownUsage]
    /\ reauth' = reauth \ {a}
    /\ health' = [health EXCEPT ![a] = NoHealth]
    /\ route' = [UnpinAccount(route, a) EXCEPT !.active = IF @ = a THEN NoAccount ELSE @]
    /\ UNCHANGED <<now, strategy, req, served>>

(* A completed login or reauthentication of a pool account.                *)
Login(a) ==
    /\ Edit
    /\ a # Main
    /\ present' = present \cup {a}
    /\ gen' = [gen EXCEPT ![a] = @ + 1]
    /\ login' = [login EXCEPT ![a] = gen[a] + 1]
    /\ reauth' = reauth \ {a}
    /\ UNCHANGED <<now, usage, strategy, health, route, req, served>>

(* reconcileMainCodexAccountRuntimeState found another login in auth.json. *)
MainReplaced ==
    /\ Edit
    /\ usage' = [usage EXCEPT ![Main] = UnknownUsage]
    /\ reauth' = reauth \ {Main}
    /\ health' = [health EXCEPT ![Main] = NoHealth]
    /\ route' = UnpinAccount(route, Main)
    /\ UNCHANGED <<now, present, gen, strategy, req, served, login>>

(* The token in auth.json expires, or codex renews it.                     *)
MainTokenChanges ==
    /\ Edit
    /\ present' = IF Main \in present THEN present \ {Main} ELSE present \cup {Main}
    /\ UNCHANGED <<now, gen, usage, strategy, health, reauth, route, req, served, login>>

ObserveUsage(a, u) ==
    /\ Edit
    /\ usage' = [usage EXCEPT ![a] = u]
    /\ UNCHANGED <<now, present, gen, strategy, health, reauth, route, req, served, login>>

(* PUT /api/codex-auth/pool-strategy.  The cursor and the pins stay.       *)
SetStrategy(s) ==
    /\ Edit
    /\ strategy' = s
    /\ UNCHANGED <<now, present, gen, usage, health, reauth, route, req, served, login>>

(* POST /api/codex-auth/accounts/clear-cooldown                            *)
ClearCooldown(a) ==
    /\ Edit
    /\ InCooldown(health[a], now)
    /\ health' = [health EXCEPT ![a] = Lifted(@, now)]
    /\ UNCHANGED <<world, reauth, route, req, served>>

Tick ==
    /\ now < MaxTime
    /\ now' = now + 1
    /\ UNCHANGED <<present, gen, usage, strategy, health, reauth, route, req, served, edits, login>>

Step(r) ==
    \/ \E t \in Threads \cup {NoThread} : Admit(r, t)
    \/ AuthFail(r)
    \/ TokenRefreshed(r)
    \/ Send(r)
    \/ \E class \in Classes : \E meta \in MetasOf(class) : Outcome(r, class, meta)
    \/ Abandon(r)
    \/ \E class \in {"quota", "caller"} : RetryPick(r, class)
    \/ RetryLost(r)
    \/ \E meta \in MetasOf(req[r].class) : RetryFail(r, meta) \/ RetrySend(r, meta)
    \/ RetryDeferred(r)

Outside ==
    \/ \E a \in MaybeAccount : SelectManually(a)
    \/ \E a \in Accounts : \/ DeleteAccount(a) \/ Login(a) \/ ClearCooldown(a)
                           \/ \E u \in Usages : ObserveUsage(a, u)
    \/ MainReplaced
    \/ MainTokenChanges
    \/ \E s \in Strategies : SetStrategy(s)

Next == (\E r \in Requests : Step(r)) \/ Outside \/ Tick

Spec == Init /\ [][Next]_vars

-----------------------------------------------------------------------------
(* Properties.                                                             *)

PinOf(t) == IF t = NoThread THEN NoPin ELSE route.pins[t]
Choice(t) == Resolve(route, t)

(* While any account is selectable, a request is not sent to, nor refused  *)
(* because of, one that is cooling, soft-avoided or needs a login,         *)
(* whatever stale cursor, pin or saved selection routing starts from       *)
(* (routing.ts 440-444, 895-904).                                          *)
ServedByHealthyAccount ==
    \A t \in Threads \cup {NoThread} :
        Eligible # {} /\ ~ Expired(PinOf(t)) => Choice(t).account \in Eligible

(* A thread served by a healthy account ends up pinned to that account     *)
(* under the credential generation stored now: a replaced login never      *)
(* inherits the threads of the one before (routing.ts 450-453, 837-874).   *)
PinFollowsCredential ==
    \A t \in Threads :
        LET choice == Choice(t) IN
        choice.account \in Eligible =>
            /\ choice.route.pins[t].account = choice.account
            /\ PinIsLive(choice.route.pins[t])

(* previewCodexAccountForRequest names the account that the request is     *)
(* then given, once some account is active and no pin has expired          *)
(* (routing.ts 756-763).                                                   *)
PreviewMirrorsChoice ==
    Effective(route) # NoAccount =>
        \A t \in Threads \cup {NoThread} :
            ~ Expired(PinOf(t)) => Preview(route, t) = Choice(t).account

(* Under round-robin and fill-first a thread leaves its account only when  *)
(* that account cannot serve it, before or because of this step, or the    *)
(* operator acts.  Account rotation, failover of the active account and    *)
(* the outcomes of other accounts leave ongoing threads alone.             *)
PinsMoveForCause ==
    [][ strategy # "quota" /\ edits' = edits =>
            \A t \in Threads :
                LET pin == route.pins[t] IN
                pin.account # NoAccount /\ route'.pins[t].account # pin.account =>
                    \/ ~ KeepsPin(pin) \/ Expired(pin)
                    \/ pin.account \in reauth'
                    \/ InCooldown(health'[pin.account], now)
                    \/ ShouldFailover(health'[pin.account], now)
      ]_vars

(* Under round-robin and fill-first the saved selection is the operator's. *)
SavedSelectionKept ==
    strategy # "quota" /\ route'.active # route.active => edits' # edits

(* Threads pinned elsewhere keep their pins when a request reports.        *)
OtherPinsKept ==
    \A r \in Requests :
        req[r].phase \in {"sent", "unserved"} /\ req'[r].phase = "idle" =>
            \A t \in Threads :
                route.pins[t].account \notin {NoAccount, req[r].account} =>
                    route'.pins[t] = route.pins[t]

(* The ring turned when the alternate was picked, and does not again.      *)
RingTurnedOnce ==
    \A r \in Requests :
        req[r].phase = "retry" /\ req'[r].phase = "sent" =>
            route'.ring.weight = route.ring.weight

(* What an outcome changes is its own: never what the operator saved       *)
(* (routing.ts 683-703), never a thread that has moved to another account  *)
(* (1052-1060), and never the ring a second time for a request that was    *)
(* retried on the alternate it had picked (130-135, 1012-1018).            *)
OutcomesKeepToThemselves ==
    [][SavedSelectionKept /\ OtherPinsKept /\ RingTurnedOnce]_vars

(* What the configuration reference says of the quota strategy: when the   *)
(* known usage of the active account crosses the threshold, the            *)
(* lowest-usage eligible account is picked instead.                        *)
HotAccountIsLeft ==
    LET a == Effective(route) IN
    /\ strategy = "quota" /\ SwitchThreshold > 0
    /\ a \in Eligible /\ usage[a] # UnknownUsage /\ usage[a] >= SwitchThreshold
    /\ \E b \in Eligible : Score(b) < usage[a]
    => Choice(NoThread).account # a

(* What it says of round-robin and fill-first: they apply to new sessions  *)
(* only, and existing thread ids keep affinity.  So as long as the account *)
(* of a thread serves requests under the login the thread was pinned to,   *)
(* the thread stays.                                                       *)
OngoingThreadsStay ==
    [][ strategy # "quota" /\ edits' = edits =>
            \A t \in Threads :
                LET pin == route.pins[t] IN
                pin.account # NoAccount /\ route'.pins[t].account # pin.account =>
                    \/ ~ Selectable(pin.account) \/ Failing(pin.account) \/ Expired(pin)
                    \/ pin.account # Main /\ pin.gen < login[pin.account]
                    \/ pin.account \in reauth'
                    \/ InCooldown(health'[pin.account], now)
                    \/ ShouldFailover(health'[pin.account], now)
      ]_vars
=============================================================================
