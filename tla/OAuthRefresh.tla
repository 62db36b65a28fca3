---------------------------- MODULE OAuthRefresh ----------------------------
(***************************************************************************)
(* Token refresh of one account of an OAuth provider other than Codex:     *)
(* src/oauth/index.ts over the credential store of src/oauth/store.ts.     *)
(*                                                                         *)
(* Several processes (the proxy, a command line) share auth.json.  Each    *)
(* runs at most one refresh of the account; between processes a lock file  *)
(* guards it, which another process may take over once it is two minutes   *)
(* old, whether its holder is dead or only slow.  The token server takes   *)
(* a refresh token once and answers with its successor; the answer may be  *)
(* lost.  For Anthropic an intent file, written before the request and     *)
(* kept while its outcome is unknown, must prevent that a token that may   *)
(* be used up is sent again.                                               *)
(*                                                                         *)
(* A sign-in takes neither the lock nor an intent: it obtains a credential *)
(* from the browser, or from the local command-line tool of the provider   *)
(* (Claude Code, grok), whose refresh token it may send to the server, and *)
(* stores it in a later step.                                              *)
(*                                                                         *)
(* A credential is its generation: 1, 2, ... in the order of issue, so a   *)
(* later one expires later.  The local tool has a credential of its own,   *)
(* which an imported account shares with it.                               *)
(***************************************************************************)
EXTENDS Integers

CONSTANTS
    Procs,       \* processes that share the store
    Kinds,       \* provider families: "anthropic", "xai", "generic"
    MaxGen,      \* bound: credentials ever issued
    MaxTroubles  \* bound: failures, stalls, crashes and meddling users

ASSUME OAuthConstants ==
    /\ Kinds \subseteq {"anthropic", "xai", "generic"}
    /\ MaxGen \in Nat \ {0} /\ MaxTroubles \in Nat

Gens == 1 .. MaxGen
None == 0                 \* no credential, no intent
Unreadable == MaxGen + 1  \* an intent file that cannot be parsed
Nobody == "nobody"
Dead == "a dead process"

VARIABLES
    kind,      \* the provider's family
    account,   \* the stored account
    cli,       \* the generation in the local tool's own file
    intent,    \* the generation named by the refresh-intent file
    lock,      \* the refresh lock file: its owner, older than two minutes?
    flight,    \* the refresh each process runs
    signIn,    \* the sign-in each process runs
    verdicts,  \* xai: generations a process saw refused, for 30 seconds
    minted,    \* how many credentials were issued
    lapsed,    \* generations up to this expired, or will in a minute
    live,      \* generations whose refresh token the server would take
    troubles,  \* failures, stalls, crashes and meddling users so far
    redeemed,  \* history: generations the server exchanged for a refresh
    asked,     \* history: generations a refresh sent to the server
    imported,  \* history: generations the server exchanged for an import
    late,      \* history: a sign-in stored a credential lapsed meanwhile
    grant,     \* history: the login each generation descends from
    login,     \* history: the login the user last chose for the account
    spoilt     \* history: an intent file became unreadable

clock == <<minted, lapsed>>
imports == <<imported, late>>
history == <<redeemed, asked, imports, grant, login, spoilt>>
vars == <<kind, account, cli, intent, lock, flight, signIn, verdicts, clock, live,
          troubles, history>>

NoAccount == [here |-> FALSE, gen |-> None, local |-> FALSE, needsReauth |-> FALSE]
NoLock == [owner |-> Nobody, old |-> FALSE]

(* caller: the generation that was found lapsed; gen: the one being
   refreshed; fresh: its successor; clear: the intent to remove. *)
NoFlight == [pc |-> "idle", caller |-> None, gen |-> None, fresh |-> None,
             clear |-> None]

(* gen: the credential it obtained, or sends; local: the tool's own. *)
NoSignIn == [pc |-> "idle", gen |-> None, local |-> FALSE]
SignInRecord == [pc : {"idle", "asking", "saving"}, gen : Gens \cup {None},
                 local : BOOLEAN]

Pcs == {"idle", "locking", "holding", "asking", "answered", "adopting",
        "refused", "leaving"}
AccountRecord == [here : BOOLEAN, gen : Gens \cup {None}, local : BOOLEAN,
                  needsReauth : BOOLEAN]
FlightRecord == [pc : Pcs, caller : Gens \cup {None}, gen : Gens \cup {None},
                 fresh : Gens \cup {None}, clear : 0 .. MaxGen + 1]

Init ==
    /\ kind \in Kinds
    /\ \E shared \in BOOLEAN :
         /\ shared => kind # "generic"
         /\ account = [here |-> TRUE, gen |-> 1, local |-> shared,
                       needsReauth |-> FALSE]
         /\ cli = IF shared THEN 1 ELSE None
    /\ intent = None /\ lock = NoLock
    /\ flight = [p \in Procs |-> NoFlight]
    /\ signIn = [p \in Procs |-> NoSignIn]
    /\ verdicts = [p \in Procs |-> {}]
    /\ minted = 1 /\ lapsed = 0
    /\ live = {1} /\ troubles = 0
    /\ redeemed = {} /\ asked = {} /\ imported = {} /\ late = FALSE /\ spoilt = FALSE
    /\ grant = [g \in Gens |-> IF g = 1 THEN 1 ELSE None] /\ login = 1

Trouble == troubles < MaxTroubles /\ troubles' = troubles + 1

(* More than REFRESH_SKEW_MS of the access token is left. *)
Fresh(g) == g # None /\ g > lapsed

At(p, pc) == flight[p].pc = pc

(***************************************************************************)
(* Who starts a refresh.                                                   *)
(***************************************************************************)
(* resolveAccessSnapshotForAccount: join the running refresh or start one. *)
Start(p) ==
    /\ At(p, "idle") /\ account.here
    /\ flight' = [flight EXCEPT ![p] =
                    [NoFlight EXCEPT !.pc = "locking", !.caller = account.gen]]

Resolve(p) ==
    /\ ~Fresh(account.gen)
    /\ Start(p)
    /\ UNCHANGED <<kind, account, cli, intent, lock, signIn, verdicts, clock, live,
                   troubles, history>>

(* forceRefreshOAuthAccessSnapshot: the provider answered 401 to a token. *)
ForceRefresh(p) ==
    /\ Trouble
    /\ kind # "anthropic"
    /\ Start(p)
    /\ UNCHANGED <<kind, account, cli, intent, lock, signIn, verdicts, clock, live,
                   history>>

(***************************************************************************)
(* The lock file.                                                          *)
(***************************************************************************)
(* Created exclusively, or unlinked for its age and created anew. *)
AcquireLock(p) ==
    /\ At(p, "locking")
    /\ lock.owner = Nobody \/ lock.old
    /\ lock' = [owner |-> p, old |-> FALSE]
    /\ flight' = [flight EXCEPT ![p].pc = "holding"]
    /\ UNCHANGED <<kind, account, cli, intent, signIn, verdicts, clock, live, troubles,
                   history>>

(* release: the file is removed only if it is still this holder's. *)
Released(p) == IF lock.owner = p THEN NoLock ELSE lock

(* Waiting longer than OAUTH_REFRESH_LOCK_WAIT_MS. *)
LockTimesOut(p) ==
    /\ At(p, "locking") /\ lock.owner # Nobody
    /\ flight' = [flight EXCEPT ![p] = NoFlight]
    /\ UNCHANGED <<kind, account, cli, intent, lock, signIn, verdicts, clock, live,
                   troubles, history>>

(* The refresh ends, with or without a token. *)
End(p) ==
    /\ flight' = [flight EXCEPT ![p] = NoFlight]
    /\ lock' = Released(p)

Go(p, pc, gen, fresh, clear) ==
    /\ flight' = [flight EXCEPT ![p] =
                    [@ EXCEPT !.pc = pc, !.gen = gen, !.fresh = fresh, !.clear = clear]]
    /\ UNCHANGED lock

(***************************************************************************)
(* What the holder finds: the synchronous part of                          *)
(* refreshAnthropicAccountWithLock, refreshXaiAccountWithLock and          *)
(* refreshGenericAccountWithLock before their first await.                 *)
(***************************************************************************)
(* newerClaudeCredential; authoritative for grok, where it must not expire
   before the stored one. *)
CliIsNewer ==
    /\ account.local /\ Fresh(cli) /\ cli # account.gen
    /\ kind = "xai" => cli > account.gen

(* Another refresh, or a login, has left a usable credential meanwhile. *)
AlreadyRefreshed(p, g) == g # flight[p].caller /\ Fresh(g)

Ask(p, g) ==
    /\ Go(p, "asking", g, None, None)
    /\ asked' = asked \cup {g}

(* fault: the intent file is not consulted. *)
BlindAnthropic(p) ==
    /\ ~CliIsNewer
    /\ \/ /\ account.needsReauth \/ AlreadyRefreshed(p, account.gen)
          /\ intent' = None
          /\ End(p) /\ UNCHANGED asked
       \/ /\ ~account.needsReauth /\ ~AlreadyRefreshed(p, account.gen)
          /\ intent' = account.gen
          /\ Ask(p, account.gen)

LookAnthropic(p) ==
    \/ /\ CliIsNewer
       /\ Go(p, "adopting", account.gen, cli, intent)
       /\ UNCHANGED <<intent, asked>>
    \/ /\ ~CliIsNewer
       /\ intent \in {Unreadable, account.gen}
       /\ Go(p, "refused", account.gen, None, None)
       /\ UNCHANGED <<intent, asked>>
    \/ /\ ~CliIsNewer
       /\ intent \notin {Unreadable, account.gen}
       /\ \/ /\ account.needsReauth \/ AlreadyRefreshed(p, account.gen)
             /\ intent' = None
             /\ End(p) /\ UNCHANGED asked
          \/ /\ ~account.needsReauth /\ ~AlreadyRefreshed(p, account.gen)
             /\ intent' = account.gen
             /\ Ask(p, account.gen)

LookXai(p) ==
    LET candidate == IF CliIsNewer THEN cli ELSE account.gen IN
    /\ \/ /\ AlreadyRefreshed(p, candidate) /\ candidate # account.gen
          /\ Go(p, "adopting", account.gen, candidate, None)
          /\ UNCHANGED asked
       \/ /\ \/ AlreadyRefreshed(p, candidate) /\ candidate = account.gen
             \/ ~AlreadyRefreshed(p, candidate) /\ candidate \in verdicts[p]
          /\ End(p) /\ UNCHANGED asked
       \/ /\ ~AlreadyRefreshed(p, candidate) /\ candidate \notin verdicts[p]
          /\ Ask(p, candidate)
    /\ UNCHANGED intent

LookGeneric(p) ==
    /\ \/ AlreadyRefreshed(p, account.gen) /\ End(p) /\ UNCHANGED asked
       \/ ~AlreadyRefreshed(p, account.gen) /\ Ask(p, account.gen)
    /\ UNCHANGED intent

Look(p) ==
    /\ At(p, "holding")
    /\ \/ ~account.here /\ End(p) /\ UNCHANGED <<intent, asked>>
       \/ /\ account.here
          /\ \/ kind = "anthropic" /\ LookAnthropic(p)
             \/ kind = "xai" /\ LookXai(p)
             \/ kind = "generic" /\ LookGeneric(p)
    /\ UNCHANGED <<kind, account, cli, signIn, verdicts, clock, live, troubles, redeemed,
                   imports, grant, login, spoilt>>

(***************************************************************************)
(* The token server.                                                       *)
(***************************************************************************)
(* Issue the next generation in place of `spent', under its login or, with
   None, under a new one. *)
Mint(spent, under) ==
    /\ minted < MaxGen
    /\ minted' = minted + 1
    /\ live' = (live \ {spent}) \cup {minted + 1}
    /\ grant' = [grant EXCEPT ![minted + 1] =
                    IF under = None THEN minted + 1 ELSE under]
    /\ UNCHANGED lapsed

Rotate(g) ==
    /\ g \in live
    /\ Mint(g, grant[g])
    /\ UNCHANGED login

Redeem(p) ==
    LET g == flight[p].gen IN
    /\ At(p, "asking")
    /\ Rotate(g)
    /\ redeemed' = redeemed \cup {g}

ServerAnswers(p) ==
    /\ Redeem(p)
    /\ flight' = [flight EXCEPT ![p].pc = "answered", ![p].fresh = minted + 1]
    /\ UNCHANGED <<kind, account, cli, intent, lock, signIn, verdicts, troubles, asked, imports,
                   spoilt>>

(* fault: a failure of unknown outcome removes the intent. *)
AnswerLostClears(p) ==
    /\ Trouble
    /\ Redeem(p)
    /\ intent' = None
    /\ End(p)
    /\ UNCHANGED <<kind, account, cli, signIn, verdicts, asked, imports, spoilt>>

(* The answer of a successful exchange never arrives. *)
AnswerLost(p) ==
    /\ Trouble
    /\ Redeem(p)
    /\ End(p)
    /\ UNCHANGED <<kind, account, cli, intent, signIn, verdicts, asked, imports, spoilt>>

(* The network or the server fails before the exchange. *)
NoAnswer(p) ==
    /\ Trouble
    /\ At(p, "asking")
    /\ End(p)
    /\ UNCHANGED <<kind, account, cli, intent, signIn, verdicts, clock, live, history>>

(* fault: the phase after a refusal is misnamed. *)
RefusedLost(p) ==
    /\ At(p, "asking") /\ flight[p].gen \notin live
    /\ Go(p, "terminal", flight[p].gen, None, None)
    /\ UNCHANGED <<kind, account, cli, intent, signIn, verdicts, clock, live, troubles, history>>

(* invalid_grant and its like; only xai remembers the verdict. *)
ServerRefuses(p) ==
    /\ At(p, "asking") /\ flight[p].gen \notin live
    /\ LET g == flight[p].gen IN
       /\ Go(p, "refused", g, None, IF kind = "anthropic" THEN g ELSE None)
       /\ verdicts' = IF kind = "xai" THEN [verdicts EXCEPT ![p] = @ \cup {g}]
                      ELSE verdicts
    /\ UNCHANGED <<kind, account, cli, intent, signIn, clock, live, troubles, history>>

(***************************************************************************)
(* What the holder writes.                                                 *)
(***************************************************************************)
Credential(g, local) ==
    [here |-> TRUE, gen |-> g, local |-> local, needsReauth |-> FALSE]

(* fault: the credential is stored whatever is there by now. *)
PersistBlindly(p) ==
    /\ At(p, "answered") \/ At(p, "adopting")
    /\ account.here
    /\ account' = Credential(flight[p].fresh, At(p, "adopting"))
    /\ Go(p, "leaving", flight[p].gen, flight[p].fresh,
          IF At(p, "adopting") THEN flight[p].clear
          ELSE IF kind = "anthropic" THEN flight[p].gen ELSE None)
    /\ login' = IF At(p, "adopting") THEN grant[flight[p].fresh] ELSE login
    /\ UNCHANGED <<kind, cli, intent, signIn, verdicts, clock, live, troubles,
                   redeemed, asked, imports, grant, spoilt>>

(* mergeAccountCredential under the store's own lock: the credential is
   stored only over the generation it succeeds. *)
Persist(p) ==
    /\ At(p, "answered") \/ At(p, "adopting")
    /\ account.here
    /\ LET adopting == At(p, "adopting")
           current == account.gen = flight[p].gen IN
       /\ account' = IF current THEN Credential(flight[p].fresh, adopting)
                     ELSE account
       /\ login' = IF current /\ adopting THEN grant[flight[p].fresh] ELSE login
       /\ Go(p, "leaving", flight[p].gen, flight[p].fresh,
             IF adopting THEN flight[p].clear
             ELSE IF kind = "anthropic" THEN flight[p].gen ELSE None)
    /\ UNCHANGED <<kind, cli, intent, signIn, verdicts, clock, live, troubles,
                   redeemed, asked, imports, grant, spoilt>>

(* The account has gone. *)
PersistNowhere(p) ==
    /\ At(p, "answered") \/ At(p, "adopting")
    /\ ~account.here
    /\ End(p)
    /\ UNCHANGED <<kind, account, cli, intent, signIn, verdicts, clock, live, troubles,
                   history>>

(* fault: the mark is put on whatever credential is there by now. *)
MarkBlindly(p) ==
    /\ At(p, "refused")
    /\ account' = IF account.here THEN [account EXCEPT !.needsReauth = TRUE] ELSE account
    /\ flight' = [flight EXCEPT ![p].pc = "leaving"]
    /\ UNCHANGED <<kind, cli, intent, lock, signIn, verdicts, clock, live, troubles,
                   history>>

(* markAccountNeedsReauthIfGeneration. *)
Mark(p) ==
    /\ At(p, "refused")
    /\ account' = IF account.here /\ account.gen = flight[p].gen
                  THEN [account EXCEPT !.needsReauth = TRUE] ELSE account
    /\ flight' = [flight EXCEPT ![p].pc = "leaving"]
    /\ UNCHANGED <<kind, cli, intent, lock, signIn, verdicts, clock, live, troubles,
                   history>>

(* The store's lock or the disk refuses the write. *)
StoreFails(p) ==
    /\ Trouble
    /\ At(p, "answered") \/ At(p, "adopting") \/ At(p, "refused")
    /\ End(p)
    /\ UNCHANGED <<kind, account, cli, intent, signIn, verdicts, clock, live, history>>

(* After the write: remove the intent, if it is still that one, and the
   lock. *)
Leave(p) ==
    /\ At(p, "leaving")
    /\ intent' = IF intent = flight[p].clear THEN None ELSE intent
    /\ End(p)
    /\ UNCHANGED <<kind, account, cli, signIn, verdicts, clock, live, troubles, history>>

(***************************************************************************)
(* A sign-in: runLogin, and loginAnthropic and loginXai which it calls.    *)
(***************************************************************************)
SignsIn(p, pc) == signIn[p].pc = pc
NoSignInNow(p) == signIn' = [signIn EXCEPT ![p] = NoSignIn]

SignInGoes(p, pc, g, local) ==
    signIn' = [signIn EXCEPT ![p] = [pc |-> pc, gen |-> g, local |-> local]]

(* The browser's login brings a new grant. *)
BrowserAuthorizes(p) ==
    /\ SignsIn(p, "idle")
    /\ Mint(None, None)
    /\ SignInGoes(p, "saving", minted + 1, FALSE)
    /\ UNCHANGED <<kind, account, cli, intent, lock, flight, verdicts, troubles, redeemed,
                   asked, imports, login, spoilt>>

(* An import finds the local tool's login and shares it or, if it has
   lapsed, sends its refresh token: outside the lock, without an intent. *)
DetectLocal(p) ==
    /\ Trouble
    /\ SignsIn(p, "idle") /\ kind # "generic" /\ cli # None
    /\ IF Fresh(cli)
       THEN SignInGoes(p, "saving", cli, TRUE)
       ELSE SignInGoes(p, "asking", cli, FALSE)
    /\ UNCHANGED <<kind, account, cli, intent, lock, flight, verdicts, clock, live,
                   history>>

ImportRedeems(p) ==
    LET g == signIn[p].gen IN
    /\ SignsIn(p, "asking")
    /\ Rotate(g)
    /\ imported' = imported \cup {g}

(* Only Anthropic's import counts the answer as the tool's. *)
ImportAnswered(p) ==
    /\ ImportRedeems(p)
    /\ SignInGoes(p, "saving", minted + 1, kind = "anthropic")
    /\ UNCHANGED <<kind, account, cli, intent, lock, flight, verdicts, troubles,
                   redeemed, asked, late, spoilt>>

ImportAnswerLost(p) ==
    /\ Trouble
    /\ ImportRedeems(p)
    /\ NoSignInNow(p)
    /\ UNCHANGED <<kind, account, cli, intent, lock, flight, verdicts, redeemed, asked,
                   late, spoilt>>

(* The server refuses, or cannot be reached. *)
ImportFails(p) ==
    /\ SignsIn(p, "asking")
    /\ IF signIn[p].gen \in live THEN Trouble ELSE UNCHANGED troubles
    /\ NoSignInNow(p)
    /\ UNCHANGED <<kind, account, cli, intent, lock, flight, verdicts, clock, live, history>>

(* saveCredential, saveAccountCredential: whatever is stored by now is
   replaced. *)
SaveSignIn(p) ==
    LET g == signIn[p].gen IN
    /\ SignsIn(p, "saving")
    /\ account' = Credential(g, signIn[p].local)
    /\ login' = grant[g]
    /\ late' = (late \/ ~Fresh(g))
    /\ NoSignInNow(p)
    /\ UNCHANGED <<kind, cli, intent, lock, flight, verdicts, clock, live, troubles,
                   redeemed, asked, imported, grant, spoilt>>

(* The store's lock or the disk refuses, or the account to renew has gone. *)
SignInFails(p) ==
    /\ Trouble
    /\ SignsIn(p, "saving")
    /\ NoSignInNow(p)
    /\ UNCHANGED <<kind, account, cli, intent, lock, flight, verdicts, clock, live, history>>

(***************************************************************************)
(* The rest of the world.                                                  *)
(***************************************************************************)
(* removeAccount, removeCredential. *)
Remove ==
    /\ Trouble
    /\ account.here
    /\ account' = NoAccount
    /\ UNCHANGED <<kind, cli, intent, lock, flight, signIn, verdicts, clock, live, history>>

(* The local tool logs in, or refreshes its own credential. *)
CliMoves ==
    /\ kind # "generic"
    /\ \/ Mint(None, None)
       \/ cli \in live /\ Mint(cli, grant[cli])
    /\ cli' = minted + 1
    /\ UNCHANGED <<kind, account, intent, lock, flight, signIn, verdicts, troubles,
                   redeemed, asked, imports, login, spoilt>>

(* The grant is withdrawn at the provider. *)
Revoke(g) ==
    /\ Trouble
    /\ g \in live
    /\ live' = live \ {g}
    /\ UNCHANGED <<kind, account, cli, intent, lock, flight, signIn, verdicts, clock,
                   history>>

(* A process dies, and its lock stays. *)
Crash(p) ==
    /\ Trouble
    /\ ~At(p, "idle") \/ ~SignsIn(p, "idle")
    /\ NoSignInNow(p)
    /\ flight' = [flight EXCEPT ![p] = NoFlight]
    /\ verdicts' = [verdicts EXCEPT ![p] = {}]
    /\ lock' = IF lock.owner = p THEN [lock EXCEPT !.owner = Dead] ELSE lock
    /\ UNCHANGED <<kind, account, cli, intent, clock, live, history>>

(* The intent file is damaged, once. *)
IntentSpoils ==
    /\ Trouble
    /\ ~spoilt /\ intent \in Gens
    /\ intent' = Unreadable /\ spoilt' = TRUE
    /\ UNCHANGED <<kind, account, cli, lock, flight, signIn, verdicts, clock, live,
                   redeemed, asked, imports, grant, login>>

(* Time: the lock passes two minutes, a verdict 30 seconds, and access
   tokens come to their last minute in the order of issue. *)
LockAges ==
    /\ lock.owner # Nobody /\ ~lock.old
    /\ IF lock.owner = Dead THEN UNCHANGED troubles ELSE Trouble
    /\ lock' = [lock EXCEPT !.old = TRUE]
    /\ UNCHANGED <<kind, account, cli, intent, flight, signIn, verdicts, clock, live,
                   history>>

VerdictsExpire(p) ==
    /\ verdicts[p] # {}
    /\ verdicts' = [verdicts EXCEPT ![p] = {}]
    /\ UNCHANGED <<kind, account, cli, intent, lock, flight, signIn, clock, live, troubles,
                   history>>

TimePasses ==
    /\ lapsed < minted /\ lapsed' = lapsed + 1
    /\ UNCHANGED <<kind, account, cli, intent, lock, flight, signIn, verdicts, minted, live,
                   troubles, history>>

RefreshStep(p) ==
    \/ Resolve(p) \/ ForceRefresh(p)
    \/ AcquireLock(p) \/ LockTimesOut(p) \/ Look(p)
    \/ ServerAnswers(p) \/ AnswerLost(p) \/ NoAnswer(p) \/ ServerRefuses(p)
    \/ Persist(p) \/ PersistNowhere(p) \/ Mark(p) \/ StoreFails(p) \/ Leave(p)

SignInStep(p) ==
    \/ BrowserAuthorizes(p) \/ DetectLocal(p)
    \/ ImportAnswered(p) \/ ImportAnswerLost(p) \/ ImportFails(p)
    \/ SaveSignIn(p) \/ SignInFails(p)

WorldStep ==
    \/ \E p \in Procs : SignInStep(p)
    \/ Remove \/ CliMoves \/ IntentSpoils
    \/ \E g \in Gens : Revoke(g)
    \/ \E p \in Procs : Crash(p) \/ VerdictsExpire(p)
    \/ LockAges \/ TimePasses

Next == (\E p \in Procs : RefreshStep(p)) \/ WorldStep

Spec == Init /\ [][Next]_vars

(***************************************************************************)
(* Properties.                                                             *)
(***************************************************************************)
(* Every value the variables hold is of its shape. *)
TypeOK ==
    /\ kind \in Kinds
    /\ account \in AccountRecord
    /\ cli \in Gens \cup {None}
    /\ intent \in 0 .. MaxGen + 1
    /\ lock \in [owner : Procs \cup {Nobody, Dead}, old : BOOLEAN]
    /\ flight \in [Procs -> FlightRecord]
    /\ signIn \in [Procs -> SignInRecord]
    /\ verdicts \in [Procs -> SUBSET Gens]
    /\ minted \in Gens /\ lapsed \in 0 .. minted
    /\ live \in SUBSET Gens /\ troubles \in Nat
    /\ redeemed \in SUBSET Gens /\ asked \in SUBSET Gens
    /\ imported \in SUBSET Gens /\ late \in BOOLEAN
    /\ grant \in [Gens -> Gens \cup {None}] /\ login \in Gens
    /\ spoilt \in BOOLEAN

(* What the intent file is for (refreshAnthropicAccountWithLock): an Anthropic
   refresh token that the server has exchanged for a refresh is not sent by
   one again, whatever process died, answer was lost or lock was taken over
   in between.  A sign-in writes no intent: what one has used up is not
   covered, nor what comes after one has stored a credential that had lapsed
   since it was obtained. *)
RedeemedOnce ==
    (kind = "anthropic" /\ ~late) =>
        \A p \in Procs : At(p, "asking") => flight[p].gen \notin redeemed

(* Within the same limits, a stored Anthropic credential whose refresh token
   a refresh has used up is known to be: by its intent, by its mark, or by
   the refresh that is about to store the successor. *)
LostAnswerIsRemembered ==
    (kind = "anthropic" /\ ~late /\ account.here /\ account.gen \in redeemed) =>
        \/ intent \in {account.gen, Unreadable}
        \/ account.needsReauth
        \/ \E p \in Procs : At(p, "answered") /\ flight[p].gen = account.gen

(* A token a refresh has used up is neither sent by another refresh nor
   forgotten to be used up: the one without the other would be luck. *)
UsedTokensAreRetired == RedeemedOnce /\ LostAnswerIsRemembered

(* 030_refresh_lock.md of the lock: "It prevents only same-account
   refresh-token double-spend".  Without those limits: no Anthropic refresh
   token that the server has exchanged is out to it, for a refresh or for an
   import. *)
TokensAreSpentOnce ==
    kind = "anthropic" => \A p \in Procs :
        /\ At(p, "asking") => flight[p].gen \notin redeemed \cup imported
        /\ SignsIn(p, "asking") => signIn[p].gen \notin redeemed \cup imported

(* A refresh that was running when a new login was stored does not put its
   credential over that login, nor one descending from an older login
   (mergeAccountCredential). *)
LatestLoginWins == account.here => grant[account.gen] = login

(* An account is marked for a new login only when the server would not take
   its refresh token any more, or an Anthropic refresh sent it with unknown
   outcome (or an intent file became unreadable); never for the failure of an
   older one (markAccountNeedsReauthIfGeneration). *)
MarkHasReason ==
    account.needsReauth =>
        \/ account.gen \notin live
        \/ kind = "anthropic" /\ (account.gen \in asked \/ spoilt)

(* oauth-refresh.test.ts "Anthropic transient failures do not mark
   needsReauth": an account whose refresh token the server still takes is
   not marked for a new login. *)
TransientFailureKeepsLogin ==
    (account.needsReauth /\ ~spoilt) => account.gen \notin live

=============================================================================
