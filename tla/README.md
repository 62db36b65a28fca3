# Verification of OpenProvider

TLA+ models of the parts of OpenProvider that keep shared state: who serves a
request and with which credential, what lets a conversation go on, how a
response ends, and what the proxy does to the user's own Codex files. They are
checked with TLC on small instances and, where marked, proved with TLAPS for
every value of the constants.

OpenProvider is a local proxy (TypeScript on Bun). Codex, Claude Code and other
clients speak to it in their own protocols; it chooses a provider and an
account, translates, forwards, relays the stream back and keeps the state that
lets the next request continue. One process normally serves one user, on one
event loop: interleaving happens at every `await`, and between the proxy, other
`opr` processes and the user's own `codex` that share `~/.openprovider`.

## Inventory

| Part | State it keeps | What makes it correct | Here |
| --- | --- | --- | --- |
| Account health (`codex/routing.ts`) | per account: failure streak, quota cooldown with source and generation, probe lease, soft avoid | a Retry-After is honoured; at most one probe per interval; a late answer ends only the cooldown it was sent under | `AccountHealth`, `CodexProbe` |
| Account routing (`codex/routing.ts`, `pool-rotation.ts`, `auth-context.ts`) | thread pins, saved selection, automatic cursor, rotation ring | a healthy account is used when there is one; pins follow the login; the operator's choice survives | `PoolRotation`, `CodexRouting` |
| Codex credentials (`codex/account-store.ts`) | one file of records with generations; a single-flight map; lock files | a grant is redeemed by one refresher at a time; a late answer never undoes a login or a deletion | `CodexRefresh`, `CodexCredentials` |
| Continuation store (`responses/state.ts`) | responses by id, byte count, snapshot on disk | a replay is the whole conversation; limits hold; a restart loses only what no snapshot had | `ResponseState` |
| OAuth of other providers (`oauth/`) | account sets, refresh-intent files, lock files, xai verdicts, the guardian's backoff | no refresh sends a token that another has used up, also across a crash; the last login stays; an account is marked only for a reason | `OAuthRefresh`, `TokenGuardian` |
| Combos and key pools (`combos/`, `providers/key-failover.ts`, `api-keys.ts`) | target cooldowns, weighted ring, live key, key cooldowns | hopping ends; a sticky run lasts; an innocent key stays live | `Failover` |
| Storage jobs (`storage/`) | archived rollouts, stage directories, several databases, one mutation slot | nothing is lost, whatever dies at whatever step; a restore can be resumed; files and rows agree | `ArchiveTrash` |
| Relay and lifecycle (`server/relay*.ts`, `responses/core.ts`, `lifecycle.ts`) | open turns, two abort signals each, a queue, the drain | a turn's end is recorded once and truly; an abandoned turn ends; so does the drain | `PassthroughRelay` |
| Injection and journal (`codex/inject.ts`, `journal.ts`, `cli/index.ts`) | `config.toml`, the profile, the journal | taking the injection back gives the user's file, with every edit, also after a crash | `CodexInjection` |
| Login flows, run-turn queue, configuration, adapters, usage, GUI, CLI, service, updater | little or none that is shared | translation of data, operating-system effects | not modelled |

How they meet: a request resolves an auth context (routing chooses an account,
health may hand it a probe lease, the credential store hands it a token and a
generation), is forwarded, and one or more outcomes come back to health and
routing, much later and in any order. A combo puts a loop over targets around
this, a key pool one over keys. The management API and the token guardian
change the same state from outside. The continuation store is read before the
request is built and written when its stream completes; the relay says when
that is, and reports the end of the turn to health. A drain ends the turns
first and flushes the store after. Storage jobs and the injection share nothing
with requests; they share files with Codex, with the user and with other
processes.

The models compose at these joints: `CodexProbe` and `CodexRouting` run the
functions of `AccountHealth`; `CodexRouting` runs `PoolRotation`;
`CodexRefresh` implements the credential store `CodexCredentials` that routing
takes for granted; `TokenGuardian` is one more caller of `OAuthRefresh`, which is a theorem
(`SweepsAreCallers`).

## Modules

`AccountHealth` is the health record and the pure functions over it:
`AfterOutcome` is `recordCodexUpstreamOutcome` as far as the record goes, with
one operator per outcome class; `WithProbe`, `CanAcquireProbe` and
`ReleaseProbe` are the lease; `Lifted` and `AfterManualSelection` are the
operator's interventions. Missing entries and missing fields are zeros.

`CodexProbe` runs these functions from concurrent requests over one account.
`Admit` is `resolveCodexAuthContext` up to its await, `AuthFail` and `Send` what
follows it, `Report` an outcome, `Abandon` a request that ends without one.
`lastGrant`, `leaseUntil` and `orphan` are observers: no action reads them.

`PoolRotation` is `pool-rotation.ts` as operators over the ring's record.

`CodexRouting` is the whole decision. State that the code changes together is
one record `route`; an operator that decides returns the chosen account and the
route the choice leaves, which is how side effects in the middle of a decision
(`setActiveCodexAccount` inside a switch, the ring turned by an unused pick)
stay in the model. `Resolve` is `resolveCodexAccountForThreadDetailed`,
`Preview` its hand-written copy for the management view, `Record` is
`recordCodexUpstreamOutcome`, `RetryPick`, `RetryLost`, `RetryFail`,
`RetrySend` and `RetryDeferred` are the same-request retry with its await in
between; an alternate whose token cannot be had is marked (`RetryLost`) before
the first answer is recorded. The
actions under `Outside` are the management API, logins, the usage poller and
the user's own `codex`.

`CodexRefresh` is `account-store.ts`: the store file, `getValidCodexToken` and
`withCodexRefreshFileLock`. A caller is one call of `getValidCodexToken`; its
`phase` names the place where it can be overtaken, `grant`, `gen` and `got` are
the locals it keeps across awaits. `Enter` is the top of the function (return a
fresh token, join the flight of this grant, or lead one); `Open`, `Judge`,
`Unlink` and `Locked` are the lock file's loop and what is done under it up to
the fetch; `SaveAnswer` is `saveCodexAccountCredentialIfGeneration`, `Release`
the `finally` that removes the lock and ends the flight, `Resume` what a caller
that joined does with the result. `Save` loads and changes the store, `Persist`
renames the new file over it: between them, as between two uses of the lock
file, another process can look in, though no other task of the same process.
`settled` and `resumed` are promise reactions and run before the next task.
The token server (`Redeem`, `FetchFails`), expiry, the lock's age, logins,
deletions and crashes are the environment. `loginOf` and `logins` are
observers: the login each token descends from.

`CodexCredentials` is what routing and the auth contexts rely on: under each
account one login's credential, or none, and a generation that moves with every
change; a refresh renews what is there and never brings back an older login or
a deleted account. `CodexRefresh` implements it through `CredentialPromise`.

`ResponseState` is `responses/state.ts` with the places of
`server/responses/core.ts` that call it. The `Map` is a set of entries, each
with its place in the order of insertion; `memory` is that set with the running
byte counter. `Delete`, `SetEntry`, `Prune`, `EnsureLoaded` and `Snapshot` are
`deleteEntry`, `setEntry`, `pruneResponses`, `ensureLoaded` and the loop of
`persistNow`; a size is a sum of weights of turns. `Chain` is
`expandPreviousResponseInput` and what the handler decides from it, `Start` the
same for a request that carries its history itself; `Records` gathers the
conditions under which each branch of the handler records: by kind of adapter,
`store`, compaction and web search. `Answer` records before the client sees the
end, as the bridge does; a passthrough stream is teed, so there the client may
be first (`Overtake`, then `Inspect`, or `Abandon` when it closes at once).
`AnswerUnnamed` is a response that goes out under the id `""`. `Persist` is the
debounced write, which may fail, `Stop` is `drainAndShutdown`, `Crash` the death
of the process. The observers hold the history each response really has, what
was recorded when, and which of it a limit or the end of the process took.

`ArchiveTrash` is `storage/cleanup.ts` and the jobs that run it, one durable
operation per step: `StageFile` to `FinalManifest` the staging of rollouts,
`LockAndBackup`, `CommitSatellite`, `CommitState` the databases one by one,
`UndoSatellite` and `RollbackFile` the way back, `PurgeFile` the permanent
deletion; `StartRestore`, `LinkFile`, `UnlinkFile`, `RestoreSection`,
`PersistMarker` and `FinalizeRestore` the restore with its resume marker.
`job` is the holder of the mutation slot with the locals it keeps, and
`JobDies` its timeout, abort or crash at any point. `CodexForks`, `CodexAdds`
and `CodexTakes` are Codex at work on the same home.

`OAuthRefresh` is `getValidAccessTokenForAccount` and what it calls, over the
store of `oauth/store.ts`, for three families of providers: Anthropic with its
intent file, xai with its verdict cache, the others. `Resolve` and
`ForceRefresh` enter the flight of a process, `AcquireLock` and `Look` are what
happens up to the request, `ServerAnswers`, `AnswerLost`, `NoAnswer` and
`ServerRefuses` its outcomes, `Persist` and `Mark` what is done with them.
A sign-in (`runLogin`) runs beside the refreshes, in either process and in
steps of its own, for it takes neither the lock nor an intent:
`BrowserAuthorizes` obtains a credential, `DetectLocal` finds the login of the
provider's own tool, which an import shares or, if it has lapsed, sends to the
server (`ImportAnswered`, `ImportAnswerLost`, `ImportFails`), and only
`SaveSignIn` stores what was obtained, over whatever is there by then.
`Remove` is the user, `CliMoves` the provider's tool.
`TokenGuardian` adds the background sweep with its horizon and backoff.

`Failover` is `handleResponses` from the combo's loop inwards:
`StartCombo` and `Advance` choose a target (`Pick` is `pickComboCandidate` with the smooth
weighted ring and its sticky runs), `Dispatch` takes the live key, `Refused` is
a 429 with `rotateProviderKeyOn429`'s compare-and-set, `Succeeds`, `Stops` and
`Fails` the ends. `Operator` is `api-keys.ts` and the saving of the combo.

`PassthroughRelay` is a turn between the headers and the end of the stream, in
the three shapes of the native passthrough. Both abort controllers, the teed
branches, the inspector, the eager relay's bounded queue and discard window and
the two timers are explicit, and so is the drain of `lifecycle.ts`.

`CodexInjection` has two actors, the running proxy and one command at a time,
which share three files with the user, with Codex and with other managers; each
step is one file operation, and what a process has read stays in its locals
(`raw`, `taken`) until it writes. `Inject` is `injectCodexConfig`: `Read`,
`WriteJournal`, `WriteConfig`, `WriteProfile`, and the mark in two steps
(`MarkJournal` reads the journal, `Remark` writes it back). `TakeBack` is what
`restoreNativeCodex` and `reconcileJournal` do: `Reload`, `Compare` and
`ConfigBack` are the read, the comparison and the write of
`restoreJournalState`, `Strip` and `StripWrite` those of `removeCodexConfig`.
`Start`, `Resync`, `Shutdown`, `Exit`, `Ensure`, `Command` are the commands that
call them. A configuration is reduced to the edits of the user, the two routing
settings and whether the rest has been normalised.

### Fault variants

An operator marked `fault:` is a plausible slip in the operator that follows it
(a dropped guard, a stamp forgotten, an order swapped). No specification uses
it. Each checked property has one: with the variant in place TLC finds the
property violated, so the property depends on that line of the code.

## Runs

| Run | Configuration | Question |
| --- | --- | --- |
| `probe_leases` | two requests, two leases, five time units | Who may probe a cooldown and whose answer may end it? |
| `routing` | three accounts, two requests, one thread or none, three strategies, one outside change, one clock step | Who is served by whom, and what may a late outcome, a retry or a stale cursor change? |
| `refresh` | one process, three calls, two accounts that share a grant or not, three issued tokens, two logins or deletions | Does the store keep its promise, and does a returned token match its generation? |
| `refresh_ends` | one process that may die once, two calls | Does every call end, and is a dead process's lock file ever taken? |
| `responses` | two requests (one passed through, one translated or Kiro), three turns, one clock step, one end of the process | Is a replay whole, is anything forgotten without a reason, do limits and counter hold? |
| `archive_trash` | two rollouts, one with a compressed twin, two stage directories, three databases, three failures, deaths or steps of others | Is anything lost, can a restore be resumed, do files and rows agree? |
| `oauth` | two processes, three families, three credentials, two failures, stalls, crashes or meddling users | Does a refresh send a token that another has used up, is that forgotten, does the last login stay, has every mark a reason? |
| `relay` | one turn in each shape, five chunks, queue of one, discard window of two, drain of two polls | Is the end of a turn recorded once and truly, and does every abandoned turn and every drain end? |
| `failover` | two requests, two targets on a pooled provider of two keys, a third key to add, both strategies, one change by the operator | Does hopping end, does a sticky run last, which key may be taken off? |
| `injection` | loopback; three commands or starts, one edit, one change by another manager, two deaths | What is left of the user's file after any sequence of injections, restores and replays? |
| `guardian_ahead` | one process, two credentials | Does a sweep refresh what it says it refreshes? **Only in a token's last minute.** |
| `legacy_journal` | `injection` beyond loopback | Is the proxy's own routing kept out of the journal? **No.** |

The runs with a bold answer look for the violation of what a comment of the
repository says; `PROJECT.json` quotes the line. Some properties are
conjunctions of statements that one mutant or the other breaks:
`OutcomesKeepToThemselves` (saved selection, other threads' pins, the ring),
`EvictionIsExact` (nothing else is forgotten, limits, byte counter),
`ThreadsSurvive` (rollout files, rows), `FilesAndRowsAgree` (no file is unlinked
before its row is gone, a restore that reports success is complete),
`UsedTokensAreRetired` (redeemed once, a lost answer is remembered),
`TurnsAndDrainEnd`, `DeathsAreOvercome` (calls end, dead locks are taken).

### Bounds, and why they are enough

`CodexProbe`: the health record is about one account, and a hazard needs a
probe, one stranger and a second cooldown: two requests, two leases, two
cooldown generations. The durations keep the code's order (default cooldown <
probe interval <= failure window < reset cap) so that each branch of
`computeQuotaCooldown` and each escalation level is reached within five ticks.

`CodexRouting`: three accounts are the least number for which "the next", "the
other" and "the least used" are different questions; the list order and the
name order differ because round-robin uses one and fill-first the other. Two
requests give every late outcome. One outside change and one clock step keep
the state space within half a million states; two changes in a row only matter
through the state they leave, and the initial states already include every
strategy. `FailoverThreshold` is 1 there (the streak itself is `CodexProbe`'s
subject).

Clocks are capped at `MaxTime` there, so every run may stop: deadlock is not
checked in these modules. There is no fairness and no liveness property in
them: a request may be abandoned at any time and the code promises no progress
beyond the clock.

`CodexRefresh`: a hazard needs a leader, a caller that joined it and a third
that comes in between; two accounts, with one grant between them or one each;
and an issued token for each of a renewal, a login during the fetch and a
second renewal. `MaxIssued` bounds what the token server issues, `MaxEdits`
logins and deletions, `MaxCrashes` the deaths of a process. Callers are
interchangeable, so the `refresh` run uses their symmetry; the liveness run
does not. When every bound is spent all tokens may have expired and all callers
be idle: these runs too may stop, and deadlock is not checked.

`ResponseState`: a truncated replay takes three turns (one to miss, one to be
recorded short, one to replay it) and two requests when the client overtakes the
inspection. Every turn weighs one, a nameless one three, and the limits (two
entries, four units; two for an entry of the snapshot, three for all of it) keep
the code's order, so that within three turns each of them is met and exceeded:
by a growing conversation, by a single response, by their number. The time to
live is the boundary case 0 with one clock step, an entry expires or it does
not; the process ends once. Requests are abandoned freely, every run may stop,
and nothing is promised about when the snapshot is written: no fairness.

`ArchiveTrash`: two rollouts tell "this thread" from "another"; a compressed
twin gives one rollout two places, a case several branches are about. Two stage
directories let a second cleanup meet what an interrupted one has left, and
three troubles let a failure happen, its undoing fail, and the next attempt be
cut off. Besides the state database there are two satellites, so that a failure and
its undoing can come between them.

`OAuthRefresh`: two processes for the lock and its takeover; three credentials
(the stored one, its successor, a login); two troubles, because a lost answer
must be followed by something that forgets it, a takeover needs a stall and a
crash, and an import, which is a trouble as well, is to meet one of them. The age of a lock whose owner is dead is no trouble, it comes by itself.

`Failover`: all targets are on one pooled provider, so both loops meet. With a
third target and edits the instance exceeds seven million states and shows no
new behaviour of the properties, which compare a target with another and a key
with another. `MaxDebt`, the bound of the ring's weights in the types, is half a
turn of the ring for each other target; that this is enough for any number of
targets and any weights is proved, since an instance of two cannot tell.

`PassthroughRelay`: five chunks are more than the queue, the window and the
reader's own hold take together, so each limit is exceeded. Turns share nothing
but the drain; one is enough, two exceed fourteen million states. The
proofs cover any number.

`CodexInjection`: three commands are an injection that dies, a start that
replays, and one more that meets its journal or works beside it. `MaxMeddling`
bounds what others do to the provider or the address, `MaxCrashes` the deaths.
With four commands and one death the instance has nine million states and shows
nothing new.

### Fairness

`refresh_ends` and `relay` are the liveness runs. In `CodexRefresh`, `Fairness` assumes that the synchronous
write of the store goes on (`WF` on `Persist`); that a caller whose next step is
ready again and again is not put off for ever, and that a fetch ends at its 30 s
limit (`SF` on `Progress \/ FetchFails`: the event loop serves its queue in
order, but other tasks and reactions come in between, so readiness is not
continuous); that a caller that keeps finding the lock gives up after
`REFRESH_LOCK_WAIT_MS` (`SF` on `LockTimeout`); and that clocks move, so a lock
left behind grows old (`WF` on `LockAges`). Nothing is assumed of the token
server, of expiry, of logins, or of new calls.

In `PassthroughRelay` weak fairness stands for the runtime: it delivers an abort
to its listeners and a cancelled stream to its source, goes on with a read loop
whose source has something or has ended, fires a timer that is due, and lets a
connect time out. A fetch that has been aborted rejects its pending read, which
is assumed for the teed shapes only: the eager relay's own timers end it
without. Nothing is assumed of the upstream, which may stay silent for ever, or
of a client, which may neither read nor leave; hence only abandoned turns end,
and the drain has its deadline.

The other modules state no fairness: what they describe may be given up at any
time, and the code promises nothing but that what has happened is consistent.

## Proofs

Every property of a passing run is proved for all values of the constants, but
for the two that speak of liveness. No theorem assumes more than the assumptions
the modules name and what its own statement says (one process, or a loopback
proxy). An invariant that needed strengthening was first checked by TLC on the
instance of its run.

### Health, routing

`CodexProbeProofs` begins with what the functions of `AccountHealth` do to the
record (types, which fields each outcome may change), and proves, for any set of
requests and any durations:

- `TypeCorrect`, and the invariants `RetryAfterUnprobed`, `LeaseCarried`,
  `ProbeClockHolds`;
- the action properties `ProbesPaced`, `RetryAfterHonoured`, `StrangersHarmless`.

The invariants are not inductive one by one. A Retry-After cooldown may still
carry the lease of the cooldown before it; its owner's success must not lift
it, and that follows from the lease's generation being *older* than the
cooldown's, which every quota answer re-establishes by bumping the generation
and every grant by being refused under Retry-After. The strengthening therefore
ties generation, lease and source together, and each action is shown to keep it.

`CodexRoutingProofs` proves, for any accounts, orders, threads, requests and
thresholds, all that `routing` checks: `Typing`, `ServedHealthy`, `PinsFollow`,
`PreviewTrue`, and the action properties `ThreadsMoveForCause` and
`OutcomesStayHome`. The first three properties speak of the choice the resolver
*would* make in a state, so they hold in every well-typed state; what there is
to prove is the decision. There is a lemma for each of its parts, bottom up:
that the first of the least exists and is one of the candidates, what a switch,
a turn of the ring and a pin return and which fields of the route they leave
alone, and from these what `Resolve`, `Preview` and `Record` do. The action
properties need in addition what a request in progress holds (`Engaged`: past
its admission it has an account; while it waits for an alternate, this is
another account and the refusal was one that allows a retry).

### Credentials

`CodexRefreshProofs` proves, for any accounts, processes, callers and bounds,
`TypeCorrect` and `SingleFlightHolds`. The second needs that whoever is inside a
flight is the leader the map names (`FlightsAreLed`), which each way out of a
flight (release, timeout, crash) has to restore for everyone else. It also
proves `ExclusionNext`: synchronous code of a process is not interleaved with
other code of that process, nor with its write of the store. For one process and
any accounts, callers and bounds it proves:

- `StoreKeepsPromise`: the store implements `CodexCredentials`;
- `TokensAreNamed`: a returned token is the stored one as long as its
  generation is live;
- `GenerationsTell`, a consequence of the first: generations never go back, a
  live generation still stands for the same login, no account returns to an
  earlier login, and a deleted one comes back by a new login only.

None of them holds by itself step by step: a late answer is written although the
store may have changed since the grant was read. The invariant `StoreInv`
follows the grant from the record to the answer. `CallSound`: what a call holds
descends from a stored login; it is no newer than the login its account has now;
and while the generation it read before the fetch is live, the account still has
that grant. `WriteSound`: the write under way differs from the store in one
record, which is a tombstone, a login newer than all, or a credential no older
than the one it replaces. `NameSound`: a result belongs to its generation in the
store as it is, and as it is about to be written. `Exclusion` gives that no
second write begins before the first is done; that is where the one process is
needed.

With two processes these properties fail: each loads the whole file, changes one
record and renames its copy over the other's, so an update can be lost and a
generation be given twice. The lock file serializes the refreshes of one grant,
not the writes of the store. TLC shows this when the `refresh` instance is given
a second process. The repository accepts such races between processes for its
other credential store (`devlog/_fin/260706_provider-multiauth/050_done.md:47`:
"single-proxy assumption"), so it is recorded here and not as a finding.

`OAuthRefreshProofs` proves, for any number of processes, all that `oauth`
checks: `Typing`, `UsedTokensRetire`, `LatestLoginStays`, `MarksHaveReasons`;
and `AskedOnce`, which is stronger than what the run asks: an Anthropic
generation is sent by one refresh of one process in all. The heart of the
argument is that an account never comes back to a generation that a refresh has
sent. What a refresh is about to store was never sent: the server's answer is
known to nobody else before it is stored (`AnswersAreNew`), and what is adopted
from the provider's own tool is ahead of what it replaces (`AdoptionsAreNew`,
`AdoptionsLeadOn`). So a generation that was sent has either gone for good or
is the account's, and then the intent file names it or the account is marked
(`SentIsRemembered`). What endangers this is a refresh that lost its lock and
leaves late, for it removes an intent: `ClearsAreSpent` says that what it
removes is not the intent the account still needs.

Sign-ins are outside lock and intent, and the claims say what that costs. What
an import sends is not in `asked` and what it uses up not in `redeemed`: these
are about refreshes. And a sign-in stores later what it obtained earlier
(`SignInsSound`): while that has not lapsed no refresh has sent it, since only
lapsed generations are sent, so storing it is harmless. Once it has lapsed, the
account may have shared the tool's login, sent it and gone on, and storing it
brings a used-up generation back without an intent. From that moment (`late`)
`UsedTokensAreRetired` and `AskedOnce` claim nothing. That the limits are
needed is a row of *Known departures* (`TokensAreSpentOnce`).

`SweepsAreCallers` shows that each step of `TokenGuardian` is a step of
`OAuthRefresh` or none, so the sweeps inherit all of it (`SweepsAreSafe`), with
the same limits.

### Conversation

`ResponseStateProofs` has two halves. The first proves `TurnsAreWhole`, for any
requests, kinds of adapter, sizes and limits: the invariant `Sound` says the
same of what requests in progress will store, and that a history is fixed once
its response has ended. Nothing depends on *which* entries are dropped, so its
lemmas about the store say only that dropping, saving and loading make no entry
up. `GuardedTurnsAreWhole` adds that where all requests go to adapters that look
whether the previous response was found, nothing is ever cut; the condition is
needed (`MCResponseStateTruncated.cfg`, below).

The second half proves `Typing` and `ForgetsExactly`, and there it matters what
is dropped. The invariant `Kept` says that the counter is the sum of the stored
sizes, that keys and places are not used twice, that the map is within its
limits but for a nameless head, and that whatever may not be left out is in
memory and, when it is no longer unsaved, in the file, each time *also within
what the limits allow* (`Remembered`), for only then does the next eviction pass
it by. The lemmas behind it: a sum over a finite set is the weight of an element
and the sum of the rest; limits ask less of less, so removing one entry brings
no other in danger; and the loop of `Prune` ends with what they do not ask for.
Sums are recursions over a set. Since an induction theorem cannot be applied
here, each of their laws is proved by a minimal counterexample: were there
finite sets for which it fails, there would be one of least cardinality (the
natural numbers are well-founded), and that one can be taken apart.

### Forwarding

`ForwardingProofs` has the theorems of the two halves of forwarding a request.

Of `Failover`, for any targets, weights, keys and requests: `RingStaysInBounds`,
`HopsEnd`, `RunsAreNotDisturbed`, `InnocentKeysStay`, and `HopsAreBounded` (the
combo's loop has no counter, and still gives each request at most one hop per
target). The invariant `HopInv` is small but for the ring: what cools was
refused, the live key is in the pool unless that is empty, tried targets are
distinct. That weights stay bounded although targets come and go is *not*
inductive target by target. `Balanced` bounds what any set of targets is owed
together: with n targets of total weight W, a set of k of them is owed at most
W·k·(n−k)/2, and all together nothing. A turn adds the weights of those that
take part and charges their sum to the one with the greatest score; if a set without that
one exceeded its bound afterwards, then so would have, before, either the set
without its participants or the set with the chosen one added.

Of `PassthroughRelay`, for any number of turns, which the run, with one turn,
cannot show: `TypeCorrect`, `RealTerminalWins` (`TerminalStays`) and
`EndIsRecordedOnce` (`OneRecord`). Turns share only the drain, so the invariant
`Fine` speaks of one turn's record: nothing is recorded of a turn that goes on,
unless its terminal was seen or the drain cut it off (`Unrecorded`); and who is
told to stop was left by its client or drained (`Stopping`).

### The user's files

`CodexInjectionProofs` proves, for any edits and bounds, `TypeCorrect`,
`RestoresNative` and `RestoresExactly` (on loopback) and `EditsAreKept` (in both
forms). What a restore writes was read by some process at some time, journaled,
and read again; so the invariant follows a configuration from the read through
the locals of the process to the journal, and from there through the locals of
the process that restores. `NativeInv`: none of them carries the proxy's
routing as if it were native. `EditsInv`: whoever is about to overwrite the
file (`Keeps`), and a journal without a mark (which a replay does not compare),
has all edits that must be there; a journal with a mark has those its mark has
(`Sound`), and a replay compares the file with the mark. `EditsKnown` bounds
them from above.
`ExactInv` is for `RestoresExactly`: as long as commands have not overlapped and
nobody has changed the injected file, one process is at work at most, the file
is the user's or its injected form, and in the second case the journal can take
that back (`Backed`), which must already hold when the process is about to
write; what a process has read is still there when it writes (`Works`); and a
mark never equals an uninjected file (`MarksDiffer`). Most actions pass
(`StepKinds`): they leave the configuration alone and the process not about to
write. Ten kinds of step touch the files or copy them, and two are the user's.

`ArchiveTrashProofs` proves all that `archive_trash` checks, for any files,
rollouts, satellites, directories, troubles and jobs: `ThreadsSurvive`
(`NothingIsLost`), `ResumeFindsFiles` (`ResumeIsPossible`) and
`FilesAndRowsAgree` (`FilesFollowRows`). None of them is inductive. That no file
is lost needs to know which files of its directory a job has still to look after
(`FilesInv`), since a directory is removed when the job believes it empty. That
no row is lost needs what lies between backup and databases in each phase
(`RowsInv`), and a stronger `RowsKept`: a backup whose section is recorded as
restored no longer counts, because a finished restore removes it. The other two
rest on `candidateOverlapsPendingRestore`: as long as a restore awaits a file,
no cleanup stages it (`ResumeInv`), and as long as a restore has brought back a
row, no cleanup in progress works on its rollout (`AgreeInv`).

### What proof attempts found

- A weight of the ring is not bounded by the total weight, as the instances
  suggest and the type invariant of `Failover` once said: with the weights 3, 2,
  3, 20 and 2 and targets that cool at the wrong moments it goes beyond. The
  bound that holds is `MaxDebt`.
- The key that takes the place of a removed one was a `CASE` with overlapping
  guards. TLC takes the first that holds, TLA+ leaves the choice open, and the
  property about the live key did not follow. `Replacement` now says what the
  code does.

### Model-checked only

- `DeathsAreOvercome` and `TurnsAndDrainEnd`, the liveness properties: fairness
  and `ENABLED` are out of the prover's reach.
- The two violations, and the instances under "Known departures". For
  `SweepRefreshesAhead` there is nothing to prove. `RestoreLeavesNative` is
  proved for the loopback form, which `legacy_journal` is not.
- `CredentialPromise` and `GenerationNamesToken` for two processes: false, as
  said above.

## Known departures

Where the code does something else than a document, comment or test of the
repository says. Two of them are runs. The others were found by instances that
are kept beside the modules and are not part of the regular runs; TLC violates
the one property each of them states.

| Instance, property | What the code does | What is said |
| --- | --- | --- |
| run `guardian_ahead` | a sweep over a token that has more than a minute left returns it unchanged and counts it as refreshed (`src/oauth/token-guardian.ts:139`) | `src/oauth/token-guardian.ts:113` |
| run `legacy_journal` | beyond loopback a second injection journals the injected file as the original (`src/codex/injected-marker.ts:71`) | `src/codex/journal.ts:51` |
| `MCCodexProbeLeak.cfg`, `LeakEndsWithItsCooldown` | a quota answer that does not own the leaked lease carries it into the new cooldown (`src/codex/routing.ts:1003`) | `devlog/_fin/260725_issue_433/010_probe_lease.md:85`: no worse than no probe until the cooldown expires |
| `MCCodexProbeSoftAvoid.cfg`, `FailuresExtendSoftAvoid` | a failure that starts a new streak drops the soft avoid that still runs (`src/codex/routing.ts:1050`) | `tests/codex-routing.test.ts:1197`: "soft-avoid extends on repeated transient failures" |
| `MCCodexRoutingFull.cfg`, `HotAccountIsLeft` | a usage of 100 counts as unknown, so a full account is not left (`src/codex/routing.ts:708`) | `docs-site/src/content/docs/reference/configuration.md:114` |
| `MCCodexRoutingAffinity.cfg`, `OngoingThreadsStay` | a token refresh bumps the generation and ends the pins of the account (`src/codex/routing.ts:436`) | `configuration.md:62`: "existing thread ids keep affinity" |
| `MCCodexRefreshLock.cfg`, `OneRefreshPerGrant` | between the creation of the lock file and its content another process takes it for stale (`src/codex/account-store.ts:275`) | `devlog/_fin/260624_codex-multi-auth-security-implementation/22_phase20c-account-lifecycle-completion.md:14` |
| `MCResponseStateTruncated.cfg`, `NoTruncatedReplay` | a translated turn whose previous response was not found is recorded (`src/server/responses/core.ts:2446`) | `core.ts:1393`: "Never record a body whose own previous_response_id failed to expand" |
| `MCResponseStateBound.cfg`, `StoreIsBounded` | eviction stops at an entry whose id is empty (`src/responses/state.ts:318`) | `state.ts:9`: the caps bound memory |
| `MCArchiveTrashCrash.cfg`, `CrashMidStageIsRecoverable` | a restore refuses a stage that has no final manifest (`src/storage/cleanup.ts:2619`) | `cleanup.ts:1846`: "so a crash mid-stage is recoverable" |
| `MCArchiveTrashPurge.cfg`, `RecoveryReflectsSurvivors` | after a purge that removed some files a restore brings back the rows of threads whose rollout is gone (`cleanup.ts:2437`) | `cleanup.ts:1912`: "so recovery reflects what actually survived" |
| `MCOAuthRefreshTransient.cfg`, `TransientFailureKeepsLogin` | the intent a passing failure leaves behind makes the next attempt mark the account (`src/oauth/index.ts:384`) | `tests/oauth-refresh.test.ts:443`: "Anthropic transient failures do not mark needsReauth" |
| `MCOAuthRefreshImport.cfg`, `TokensAreSpentOnce` | an import sends the local tool's refresh token without lock or intent, also one that a refresh of the account that shares it has used up (`src/oauth/anthropic.ts:152`) | `devlog/_fin/260716_grok_build_hardening/030_refresh_lock.md:11`: the lock "prevents only same-account refresh-token double-spend" |
| `MCPassthroughRelayCancel.cfg`, `CancelIsNoFailure` | a client that leaves a teed turn aborts the fetch, and the inspector, which listens to the turn's own signal only, reports the broken read as a failure of the account (`src/server/relay.ts:574`) | `relay.ts:573`: "abort-driven client cancellation still wins" |
| `MCFailoverReference.cfg`, `FailedKeyIsCooled` | the key a request used is compared with the text `${NAME}` of the pool, so the refused key does not cool (`src/providers/key-failover.ts:96`) | `key-failover.ts:92`: "Cool the key that ACTUALLY failed." |

Seen while modelling, and not stated as properties:

- A cancelled login that settles late removes the abort controller and the slot
  of the login started after it, and sets its state to done
  (`src/oauth/index.ts:923`).
- An intent file that cannot be read is not cleared by a new login; the account
  is marked again at its next refresh.
- A death between the link and the unlink of a restored file leaves it in both
  places, and every later restore of that stage stops at "destination exists".
- A key removed from the pool while a request uses it ends that request's
  rotation one key early. A short Retry-After lets a request come back to keys
  it had tried: `src/server/responses/core.ts:2148` says "once per remaining
  key", the loop is bounded by the cooldowns only.
- A user's own `openai_base_url` hides the injection from `writeJournal`, so a
  second injection journals the normalised file as the original; hence the
  condition of `RestoreIsExact`.
- An edit is lost that is made after a command has read `config.toml` and before
  it writes it: `restoreJournalState` between the comparison and the write,
  `removeCodexConfig` and `injectCodexConfig` between the read and the write. So
  is one made between the journal and its mark, if the process dies before the
  mark: a journal without a mark is replayed without comparison. `exposed` marks
  these, and `EditsSurvive` is about all the others.
- `start` beside a running proxy whose journal belongs to an ended command takes
  the routing away before it sees that the proxy runs.
- After a shutdown that could not complete, the next injection may journal the
  proxy's own profile as the user's.
- `history-provider.ts` looks for the tag `openprovider`, the configuration says
  `opencodex`: threads of the legacy form are not given back.

## Not modelled, and why

Everywhere: display strings, logging, validation of management bodies, metrics.

- `CodexRouting`: the 2048-pin cap and the timestamps no decision reads.
- `CodexRefresh`: a lock never looks old while its holder runs (the fetch is cut
  off after 30 s, a lock is stale after 60 s); expiry is modelled for stored
  tokens only, since no decision reads another's; logins and imports bring new
  grants, and accounts share one only from the start; the email, plan and quota
  fields of a record, the backup of an unreadable store, and
  `migrateFromLegacy`. A caller that joined a flight may be given the credential
  of a newer login of another account with the same grant: the code does so, and
  `CodexCredentials` allows it.
- `ResponseState`: the provider metadata beside the items, the old snapshot
  version, an unreadable snapshot, a clock that goes back, two proxies that share
  one snapshot file, and the recovery of stale temporary files; the entries of
  the file are weighed like those in memory.
- `ArchiveTrash`: failures to remove empty directories (swallowed), a death
  between `mkdir` and the first manifest, the reconstruction of rows of old
  layouts, two proxies on one Codex home (the slot is one process's), a race
  inside one rename, and the consolidation job, which works on data no other job
  changes.
- `OAuthRefresh`: one account; a change of the store under its lock, the taking
  of a lock, and the read and write of an intent are each one step; a process
  runs one sign-in at a time, the exchange with the browser is one step, and the
  identity check of a renewed login only fails it; the switch
  between accounts, aliases and the Kiro rollback are left out. The guardian's
  attribution of failures is approximated, its Codex half and its timer are not
  modelled.
- `Failover`: the targets and the strategy of a combo do not change under a
  request, providers stay enabled, saving the configuration does not fail; the
  retries of images and of the terminal continuation are the loop that is there.
- `PassthroughRelay`: the relays of translated providers (bridge, heartbeat,
  terminal guard), WebSockets, inspection of metadata only, a second drain. At
  shutdown an eager turn is not logged at all; a terminal found in the tail after
  a drain abort is logged as cancelled but reported to health: both as in the
  code.
- `CodexInjection`: one command at a time beside the proxy; `Compare` reads the
  configuration and the profile in one step; reused process ids, a missing or
  damaged configuration or journal, the sub-agent defaults, the catalog, line
  ends, changed ports, the history database and the shim.

Whole parts: the run-turn queue (each operation is one synchronous step), login
flows (the login slot is the note above; sign-ins are steps of
`OAuthRefresh`), the schedule of the storage policy and the settling of its
worker, usage pollers (they enter as changes of usage), the management API
beyond the calls that are actions here, side loops, process control.

The models follow five thousand lines of the decisions that shared state hangs
on. The share of all lines stays small, because most of the repository keeps no
state: adapters and protocols translate, the GUI and the documentation site
display, a tenth is generated, and the CLI, service and updater call the
operating system. A model of these would restate them.

## Plan

Done: health, routing, Codex credentials, continuation store, OAuth refresh and
guardian, combos and key pools, storage jobs, passthrough and drain, injection;
and the proofs of all of their safety and action properties.

Next, in this order:

1. An abstract "a refresh sends no token that another has used up" that `OAuthRefresh`
   and `CodexRefresh` both implement; `AskedOnce` is its first half.
2. An abstract continuation store (a partial map from responses to histories
   that may forget) which `ResponseState` implements.
3. The relays of translated providers: `bridge.ts` with the terminal guard.
