---------------------------- MODULE CodexRefresh ----------------------------
(***************************************************************************)
(* Token refresh of codex/account-store.ts: the store of credentials with  *)
(* its generations, the single flight inside a process, the lock file      *)
(* between processes, and the token server that answers late or never.     *)
(*                                                                         *)
(* The token server numbers what it issues.  A grant is a refresh token; a *)
(* record's refreshGrantFingerprint is a hash of it, so the grant stands   *)
(* for both.  A token is fresh while it is further than REFRESH_SKEW_MS    *)
(* from its expiry.                                                        *)
(*                                                                         *)
(* What a process runs between two awaits is split where another process   *)
(* can look in: at each use of the lock file, and between the load and the *)
(* atomic write of the store file.                                         *)
(*                                                                         *)
(* A lock never looks old while its holder runs: the fetch is cut off      *)
(* after 30 s and a lock counts as stale after REFRESH_LOCK_STALE_MS, 60 s.*)
(***************************************************************************)
EXTENDS Integers, FiniteSets

CONSTANTS
    Ids,            \* pool account ids
    Processes,      \* proxy processes that share the home directory
    Callers,        \* calls of getValidCodexToken that may overlap
    ProcessOf,      \* the process a caller runs in
    NoCaller,
    NoWrite,
    InitialGrants,  \* grants of the accounts at the start, as functions
    MaxIssued,      \* bound of what the token server issues
    MaxEdits,       \* bound of logins and deletions
    MaxCrashes      \* bound of the processes that die

Numbers == 1 .. MaxIssued

(* A credential is an access token with its grant; both are 0 when there   *)
(* is none (a tombstone, an error).                                        *)
Credential == {x \in [access : 0 .. MaxIssued, grant : 0 .. MaxIssued] : x.access = 0 <=> x.grant = 0}
NoCredential == [access |-> 0, grant |-> 0]
Record == {x \in [access : 0 .. MaxIssued, grant : 0 .. MaxIssued, gen : Nat] : x.access = 0 <=> x.grant = 0}

ASSUME RefreshAssumption ==
    /\ ProcessOf \in [Callers -> Processes]
    /\ Ids # {} /\ NoCaller \notin Callers
    /\ NoWrite \notin [Ids -> Record]
    /\ MaxIssued \in Nat /\ MaxEdits \in Nat /\ MaxCrashes \in Nat
    /\ InitialGrants \subseteq [Ids -> Numbers]

VARIABLES
    store,          \* codex-accounts.json
    writing,        \* per process: what it is about to write there
    file,           \* the lock file of each grant
    maker,          \* who created that file; NoCaller once it is gone or dead
    leader,         \* refreshLocks: the caller that leads each flight
    call,           \* per caller: what its call stack holds
    fresh,          \* access tokens that have not expired
    redeemable,     \* grants the token server still accepts
    issued,         \* number of the last thing it issued
    edits, crashes,
    loginOf,        \* observer: the login each issued thing descends from
    logins          \* observer: the newest login that has been stored

vars == <<store, writing, file, maker, leader, call, fresh, redeemable, issued,
          edits, crashes, loginOf, logins>>
locks == <<file, maker>>
server == <<fresh, redeemable, issued, loginOf>>
bounds == <<edits, crashes>>

Synchronous == {
    "opening",      \* about to create the lock file
    "judging",      \* found one there
    "unlinking",    \* judged it stale, about to remove it
    "creating"}     \* created it, about to write it
Leading == Synchronous \cup {
    "waiting",      \* sleeps before it tries the lock file again
    "fetch",        \* waits for the token server
    "answered",     \* the token server has answered
    "settled"}      \* has its result, about to release lock and flight
Phases == Leading \cup {
    "idle",
    "joined",       \* awaits the leader of the flight
    "resumed",      \* the leader has settled
    "returned"}     \* has returned a token to its caller

(* `got` is the credential in hand; `gen` the generation that goes with it *)
NoCall == [phase |-> "idle", id |-> CHOOSE id \in Ids : TRUE, grant |-> 0, gen |-> 0,
           got |-> NoCredential]
Call == [phase : Phases, id : Ids, grant : 0 .. MaxIssued, gen : Nat, got : Credential]

(* Every account starts with an expired access token under its own number. *)
Init ==
    /\ \E grant \in InitialGrants :
        /\ store = [id \in Ids |-> [access |-> grant[id], grant |-> grant[id], gen |-> 1]]
        /\ redeemable = {grant[id] : id \in Ids}
    /\ issued \in redeemable /\ \A n \in redeemable : n <= issued
    /\ loginOf = [n \in Numbers |-> IF n \in redeemable THEN n ELSE 0]
    /\ logins = issued
    /\ writing = [p \in Processes |-> NoWrite]
    /\ file = [g \in Numbers |-> "none"]
    /\ maker = [g \in Numbers |-> NoCaller]
    /\ leader = [p \in Processes |-> [g \in Numbers |-> NoCaller]]
    /\ call = [c \in Callers |-> NoCall]
    /\ fresh = {}
    /\ edits = 0 /\ crashes = 0

-----------------------------------------------------------------------------
(* Processes: what may run.                                                *)

(* The process is inside synchronous code.                                 *)
Busy(p) ==
    \/ writing[p] # NoWrite
    \/ \E c \in Callers : ProcessOf[c] = p /\ call[c].phase \in Synchronous

(* Promise reactions run before the next task of the event loop.           *)
Reacting(p) == \E c \in Callers : ProcessOf[c] = p /\ call[c].phase \in {"settled", "resumed"}

MayRun(p) == ~ Busy(p) /\ ~ Reacting(p)

-----------------------------------------------------------------------------
(* The store.                                                              *)

Present(id) == store[id].grant # 0
Fresh(id) == Present(id) /\ store[id].access \in fresh
Holds(id) == [access |-> store[id].access, grant |-> store[id].grant]

(* saveCodexAccountCredential, the write of ...IfGeneration, and the       *)
(* tombstone: the whole file is loaded, changed and written.               *)
Save(p, id, cred) ==
    writing' = [writing EXCEPT ![p] = [store EXCEPT ![id] =
        [access |-> cred.access, grant |-> cred.grant, gen |-> store[id].gen + 1]]]

(* fault: the generation is not compared.                                  *)
MaySaveAnyGeneration(id, gen) == Present(id)

(* The test of saveCodexAccountCredentialIfGeneration.                     *)
MaySave(id, gen) == Present(id) /\ store[id].gen = gen

(* atomicWriteFile: a temporary file is renamed over the store.            *)
Persist(p) ==
    /\ writing[p] # NoWrite
    /\ store' = writing[p]
    /\ writing' = [writing EXCEPT ![p] = NoWrite]
    /\ logins' \in {logins} \cup {loginOf[store'[id].grant] : id \in {i \in Ids : store'[i].grant # 0}}
    /\ logins' >= logins /\ \A id \in Ids : store'[id].grant # 0 => loginOf[store'[id].grant] <= logins'
    /\ UNCHANGED <<locks, leader, call, server, bounds>>

-----------------------------------------------------------------------------
(* One call of getValidCodexToken.                                         *)

Goto(c, phase) == call' = [call EXCEPT ![c].phase = phase]

(* fault: the flights are kept per account instead of per grant.           *)
FlightOfAccount(c, id) ==
    LET other == leader[ProcessOf[c]][store[id].grant] IN
    IF other # NoCaller /\ call[other].id = id THEN other ELSE NoCaller

(* refreshLocks.get                                                        *)
Flight(c, id) == leader[ProcessOf[c]][store[id].grant]

(* From the top: a stored fresh token is returned; a refresh of the same   *)
(* grant in this process is joined; otherwise this call leads one.         *)
Enter(c, id) ==
    LET new == [phase |-> "opening", id |-> id, grant |-> store[id].grant, gen |-> 0,
                got |-> NoCredential] IN
    /\ Present(id)
    /\ \/ /\ Fresh(id)
          /\ call' = [call EXCEPT ![c] = [new EXCEPT !.phase = "returned", !.gen = store[id].gen,
                                                    !.got = Holds(id)]]
          /\ UNCHANGED leader
       \/ /\ ~ Fresh(id) /\ Flight(c, id) # NoCaller
          /\ call' = [call EXCEPT ![c] = [new EXCEPT !.phase = "joined"]]
          /\ UNCHANGED leader
       \/ /\ ~ Fresh(id) /\ Flight(c, id) = NoCaller
          /\ leader' = [leader EXCEPT ![ProcessOf[c]][store[id].grant] = c]
          /\ call' = [call EXCEPT ![c] = new]

Start(c, id) ==
    /\ call[c].phase = "idle" /\ MayRun(ProcessOf[c])
    /\ Enter(c, id)
    /\ UNCHANGED <<store, writing, locks, server, bounds, logins>>

(* withCodexRefreshFileLock: openSync with "wx".                           *)
Open(c) ==
    LET g == call[c].grant IN
    /\ call[c].phase = "opening" \/ (call[c].phase = "waiting" /\ MayRun(ProcessOf[c]))
    /\ \/ /\ file[g] = "none"
          /\ file' = [file EXCEPT ![g] = "empty"]
          /\ maker' = [maker EXCEPT ![g] = c]
          /\ Goto(c, "creating")
       \/ /\ file[g] # "none"
          /\ Goto(c, "judging")
          /\ UNCHANGED locks
    /\ UNCHANGED <<store, writing, leader, server, bounds, logins>>

(* fault: a lock file without readable content is respected.               *)
StaleWhenReadable(g) == file[g] = "old"

(* isRefreshLockStale: old, or not readable, or gone.                      *)
Stale(g) == file[g] \in {"old", "empty", "none"}

Judge(c) ==
    /\ call[c].phase = "judging"
    /\ Goto(c, IF Stale(call[c].grant) THEN "unlinking" ELSE "waiting")
    /\ UNCHANGED <<store, writing, locks, leader, server, bounds, logins>>

Removed(g) ==
    /\ file' = [file EXCEPT ![g] = "none"]
    /\ maker' = [maker EXCEPT ![g] = NoCaller]

Unlink(c) ==
    /\ call[c].phase = "unlinking"
    /\ Removed(call[c].grant)
    /\ Goto(c, "opening")
    /\ UNCHANGED <<store, writing, leader, server, bounds, logins>>

Settle(c, cred, gen) ==
    call' = [call EXCEPT ![c] = [@ EXCEPT !.phase = "settled", !.got = cred, !.gen = gen]]

(* findFreshCredentialForGrant                                             *)
FreshAliases(g, id) == {other \in Ids \ {id} : store[other].grant = g /\ Fresh(other)}

(* The lock file is written (through its descriptor: if it has been        *)
(* removed meanwhile, the file now under its name is not touched), and     *)
(* what is done under the lock happens up to the fetch.                    *)
Locked(c) ==
    LET x == call[c]
        id == x.id
        aliases == FreshAliases(x.grant, id) IN
    /\ x.phase = "creating"
    /\ file' = IF maker[x.grant] = c THEN [file EXCEPT ![x.grant] = "written"] ELSE file
    /\ \/ /\ ~ Present(id) \/ (store[id].grant # x.grant /\ ~ Fresh(id))
          /\ Settle(c, NoCredential, 0)
          /\ UNCHANGED writing
       \/ /\ Fresh(id)
          /\ Settle(c, Holds(id), store[id].gen)
          /\ UNCHANGED writing
       \/ /\ store[id].grant = x.grant /\ ~ Fresh(id)
          /\ \E other \in aliases :
                /\ Save(ProcessOf[c], id, Holds(other))
                /\ Settle(c, Holds(other), store[id].gen + 1)
       \/ /\ store[id].grant = x.grant /\ ~ Fresh(id) /\ aliases = {}
          /\ call' = [call EXCEPT ![c] = [@ EXCEPT !.phase = "fetch", !.gen = store[id].gen]]
          /\ UNCHANGED writing
    /\ UNCHANGED <<store, maker, leader, server, bounds, logins>>

(* The answer is saved, unless the record has moved on.                    *)
SaveAnswer(c) ==
    LET x == call[c] IN
    /\ x.phase = "answered" /\ MayRun(ProcessOf[c])
    /\ \/ /\ MaySave(x.id, x.gen)
          /\ Save(ProcessOf[c], x.id, x.got)
          /\ Settle(c, x.got, x.gen + 1)
       \/ /\ ~ MaySave(x.id, x.gen)
          /\ Settle(c, NoCredential, 0)
          /\ UNCHANGED writing
    /\ UNCHANGED <<store, locks, leader, server, bounds, logins>>

Deliver(x, cred, gen) ==
    IF cred = NoCredential THEN NoCall
    ELSE [x EXCEPT !.phase = "returned", !.got = cred, !.gen = gen]

Joined(c) == {d \in Callers : /\ ProcessOf[d] = ProcessOf[c]
                              /\ call[d].phase = "joined" /\ call[d].grant = call[c].grant}

FlightEnds(c) == leader' = [leader EXCEPT ![ProcessOf[c]][call[c].grant] = NoCaller]

(* finally: the lock file is removed, whoever made it, and the flight is   *)
(* over; the callers that joined it go on with its result.                 *)
Release(c) ==
    LET x == call[c] IN
    /\ x.phase = "settled" /\ ~ Busy(ProcessOf[c])
    /\ Removed(x.grant)
    /\ FlightEnds(c)
    /\ call' = [d \in Callers |->
            IF d = c THEN Deliver(x, x.got, x.gen)
            ELSE IF d \in Joined(c)
                 THEN [call[d] EXCEPT !.phase = "resumed", !.got = x.got, !.gen = x.gen]
            ELSE call[d]]
    /\ UNCHANGED <<store, writing, server, bounds, logins>>

(* fault: a caller that joined takes over the leader's generation.         *)
LeadersGeneration(x) == x.gen

(* The generation a caller that joined returns.                            *)
OwnGeneration(x) == store[x.id].gen + 1

(* A caller that joined: it fails with the leader; or saves the leader's   *)
(* credential under its own id if that still has the grant; or begins      *)
(* again.                                                                  *)
Resume(c) ==
    LET x == call[c] IN
    /\ x.phase = "resumed" /\ ~ Busy(ProcessOf[c])
    /\ \/ /\ x.got = NoCredential \/ ~ Present(x.id)
          /\ call' = [call EXCEPT ![c] = NoCall]
          /\ UNCHANGED <<writing, leader>>
       \/ /\ x.got # NoCredential /\ store[x.id].grant = x.grant
          /\ Save(ProcessOf[c], x.id, x.got)
          /\ call' = [call EXCEPT ![c] = Deliver(x, x.got, OwnGeneration(x))]
          /\ UNCHANGED leader
       \/ /\ x.got # NoCredential /\ store[x.id].grant # x.grant
          /\ Enter(c, x.id)
          /\ UNCHANGED writing
    /\ UNCHANGED <<store, locks, server, bounds, logins>>

(* CodexCredentialRefreshLockTimeoutError, after REFRESH_LOCK_WAIT_MS.     *)
LockTimeout(c) ==
    /\ call[c].phase = "judging" /\ ~ Stale(call[c].grant)
    /\ FlightEnds(c)
    /\ call' = [d \in Callers |->
            IF d \in Joined(c) \cup {c} THEN NoCall ELSE call[d]]
    /\ UNCHANGED <<store, writing, locks, server, bounds, logins>>

(* The caller uses the token and is done.                                  *)
Use(c) ==
    /\ call[c].phase = "returned" /\ MayRun(ProcessOf[c])
    /\ call' = [call EXCEPT ![c] = NoCall]
    /\ UNCHANGED <<store, writing, locks, leader, server, bounds, logins>>

-----------------------------------------------------------------------------
(* The token server (external) and time.                                   *)

(* fault: an answer without refresh_token takes the stored one away.       *)
RenewedOrNone(g, n, rotate) == IF rotate THEN n ELSE 0

(* The grant after a refresh: data.refresh_token ?? the one that was sent. *)
Renewed(g, n, rotate) == IF rotate THEN n ELSE g

(* The server accepts a grant, and replaces it or leaves refresh_token out *)
(* of its answer.                                                          *)
Redeem(c, rotate) ==
    LET g == call[c].grant
        n == issued + 1 IN
    /\ call[c].phase = "fetch" /\ g \in redeemable
    /\ n <= MaxIssued
    /\ issued' = n
    /\ fresh' = fresh \cup {n}
    /\ loginOf' = [loginOf EXCEPT ![n] = loginOf[g]]
    /\ redeemable' = IF rotate THEN (redeemable \ {g}) \cup {n} ELSE redeemable
    /\ call' = [call EXCEPT ![c] = [@ EXCEPT !.phase = "answered",
                                       !.got = [access |-> n, grant |-> Renewed(g, n, rotate)]]]
    /\ UNCHANGED <<store, writing, locks, leader, bounds, logins>>

(* fault: the fetch has no time limit; only a refused grant ends it.       *)
FetchRefused(c) ==
    /\ call[c].phase = "fetch" /\ MayRun(ProcessOf[c])
    /\ call[c].grant \notin redeemable
    /\ Settle(c, NoCredential, 0)
    /\ UNCHANGED <<store, writing, locks, leader, server, bounds, logins>>

(* It refuses, or no answer arrives within 30 s; then it may still have    *)
(* taken the grant.                                                        *)
FetchFails(c) ==
    /\ call[c].phase \in {"fetch", "answered"} /\ MayRun(ProcessOf[c])
    /\ redeemable' \in IF call[c].phase = "fetch" THEN {redeemable, redeemable \ {call[c].grant}}
                       ELSE {redeemable}
    /\ Settle(c, NoCredential, 0)
    /\ UNCHANGED <<store, writing, locks, leader, fresh, issued, loginOf, bounds, logins>>

(* The expiry of a token that is not stored would change nothing.         *)
Expire(n) ==
    /\ n \in fresh /\ \E id \in Ids : store[id].access = n
    /\ fresh' = fresh \ {n}
    /\ UNCHANGED <<store, writing, locks, leader, call, redeemable, issued, loginOf, bounds, logins>>

(* A lock file whose maker is dead has been there for 60 s.                *)
LockAges(g) ==
    /\ file[g] = "written" /\ maker[g] = NoCaller
    /\ file' = [file EXCEPT ![g] = "old"]
    /\ UNCHANGED <<store, writing, maker, leader, call, server, bounds, logins>>

-----------------------------------------------------------------------------
(* Logins, deletions, crashes.                                             *)

(* A completed login, or an import, saves a new credential.                *)
LogIn(p, id) ==
    LET n == issued + 1 IN
    /\ MayRun(p)
    /\ edits < MaxEdits /\ edits' = edits + 1
    /\ n <= MaxIssued /\ issued' = n
    /\ fresh' = fresh \cup {n}
    /\ redeemable' = redeemable \cup {n}
    /\ loginOf' = [loginOf EXCEPT ![n] = n]
    /\ Save(p, id, [access |-> n, grant |-> n])
    /\ UNCHANGED <<store, locks, leader, call, crashes, logins>>

(* tombstoneCodexAccount                                                   *)
Delete(p, id) ==
    /\ MayRun(p)
    /\ edits < MaxEdits /\ edits' = edits + 1
    /\ Save(p, id, NoCredential)
    /\ UNCHANGED <<store, locks, leader, call, server, crashes, logins>>

(* A process dies and is started again; its lock files stay.               *)
Crash(p) ==
    LET dead == {c \in Callers : ProcessOf[c] = p} IN
    /\ crashes < MaxCrashes /\ crashes' = crashes + 1
    /\ writing' = [writing EXCEPT ![p] = NoWrite]
    /\ call' = [c \in Callers |-> IF c \in dead THEN NoCall ELSE call[c]]
    /\ leader' = [leader EXCEPT ![p] = [g \in Numbers |-> NoCaller]]
    /\ maker' = [g \in Numbers |-> IF maker[g] \in dead THEN NoCaller ELSE maker[g]]
    /\ \E lost \in SUBSET {call[c].grant : c \in {d \in dead : call[d].phase = "fetch"}} :
            redeemable' = redeemable \ lost
    /\ UNCHANGED <<store, file, fresh, issued, loginOf, edits, logins>>

-----------------------------------------------------------------------------

Progress(c) ==
    Open(c) \/ Judge(c) \/ Unlink(c) \/ Locked(c) \/ SaveAnswer(c) \/ Release(c) \/ Resume(c) \/ Use(c)

Step(c) ==
    \/ \E id \in Ids : Start(c, id)
    \/ Progress(c)
    \/ LockTimeout(c)
    \/ \E rotate \in BOOLEAN : Redeem(c, rotate)
    \/ FetchFails(c)

Next ==
    \/ \E c \in Callers : Step(c)
    \/ \E n \in Numbers : Expire(n) \/ LockAges(n)
    \/ \E p \in Processes : Persist(p) \/ Crash(p) \/ \E id \in Ids : LogIn(p, id) \/ Delete(p, id)

Spec == Init /\ [][Next]_vars

(* The event loop serves its tasks in turn: none that is ready again and   *)
(* again is put off for ever, and a fetch ends at its time limit.  A lock  *)
(* is given up after REFRESH_LOCK_WAIT_MS by whoever keeps finding it.     *)
(* Clocks move on.                                                         *)
Fairness ==
    /\ \A p \in Processes : WF_vars(Persist(p))
    /\ \A c \in Callers : SF_vars(Progress(c) \/ FetchFails(c)) /\ SF_vars(LockTimeout(c))
    /\ \A g \in Numbers : WF_vars(LockAges(g))

FairSpec == Spec /\ Fairness

-----------------------------------------------------------------------------

(* Types of all variables (account-store.ts's record, the lock files and   *)
(* the frames of getValidCodexToken).                                      *)
TypeOK ==
    /\ store \in [Ids -> Record]
    /\ writing \in [Processes -> [Ids -> Record] \cup {NoWrite}]
    /\ file \in [Numbers -> {"none", "empty", "written", "old"}]
    /\ maker \in [Numbers -> Callers \cup {NoCaller}]
    /\ leader \in [Processes -> [Numbers -> Callers \cup {NoCaller}]]
    /\ call \in [Callers -> Call]
    /\ fresh \subseteq Numbers
    /\ redeemable \subseteq Numbers
    /\ issued \in 0 .. MaxIssued
    /\ edits \in Nat /\ crashes \in Nat
    /\ loginOf \in [Numbers -> 0 .. MaxIssued]
    /\ logins \in 0 .. MaxIssued

(* A grant has one refresh at a time in a process: two accounts or two     *)
(* requests that need the same refresh token never lead a flight each,     *)
(* whatever joined, failed, timed out or crashed before.                   *)
SingleFlight ==
    \A c, d \in Callers :
        /\ c # d /\ ProcessOf[c] = ProcessOf[d]
        /\ call[c].phase \in Leading /\ call[d].phase \in Leading
        => call[c].grant # call[d].grant

(* A token is returned with the generation of the record that holds it:    *)
(* while that generation is live, the record is exactly this credential    *)
(* (the auth context is checked against the generation before the token is *)
(* sent).                                                                  *)
GenerationNamesToken ==
    \A c \in Callers :
        LET x == call[c] IN
        x.phase = "returned" /\ x.gen = store[x.id].gen => x.got = Holds(x.id)

StoredLogin == [id \in Ids |-> IF store[id].grant # 0 THEN loginOf[store[id].grant] ELSE 0]
Generations == [id \in Ids |-> store[id].gen]

Promise == INSTANCE CodexCredentials WITH login <- StoredLogin, gen <- Generations

(* With one process, the store keeps what CodexCredentials promises: no    *)
(* refresh that ends late overwrites a newer login or revives a deleted    *)
(* account, whichever flight, alias or crash it comes from.                *)
CredentialPromise == Promise!Spec

(* Every call of getValidCodexToken ends, with a token or an error: also   *)
(* those that joined a flight, and those that met the lock of a dead       *)
(* process.                                                                *)
CallsEnd == \A c \in Callers : call[c].phase # "idle" ~> call[c].phase = "idle"

Abandoned(g) == file[g] # "none" /\ maker[g] = NoCaller

(* The lock file of a dead process does not stand in the way for ever: it  *)
(* is removed, unless nobody asks for that grant any more.                 *)
LocksAreTaken ==
    \A g \in Numbers :
        Abandoned(g) ~> (~ Abandoned(g) \/ [](\A c \in Callers : call[c].phase # "judging"))

(* Neither a dead process nor what it left on disk keeps a later call      *)
(* waiting for ever.                                                       *)
DeathsAreOvercome == CallsEnd /\ LocksAreTaken

(* No grant is sent to the token server by two processes at once (the      *)
(* reason for the lock file).                                              *)
OneRefreshPerGrant ==
    \A c, d \in Callers :
        c # d /\ call[c].phase = "fetch" /\ call[d].phase = "fetch" => call[c].grant # call[d].grant
=============================================================================
