--------------------------- MODULE CodexInjection ---------------------------
(***************************************************************************)
(* How the proxy puts itself into the user's Codex configuration and takes *)
(* itself out again: src/codex/inject.ts and src/codex/journal.ts, with    *)
(* the commands of src/cli/index.ts that call them.                        *)
(*                                                                         *)
(* Three files are shared by the running proxy, by short-lived commands,   *)
(* by the user and by Codex itself: config.toml, the profile, and the      *)
(* journal, which holds the two as they were before the injection, what    *)
(* they were after it (a hash), and the process that wrote it.  Nothing    *)
(* locks them: whatever a command read may have changed when it comes to   *)
(* write, so that a read and the write that rests on it are two steps.     *)
(* Any process may die between two steps.                                  *)
(*                                                                         *)
(* A configuration is what the code tells apart: the changes of the user   *)
(* it contains, the root model_provider and openai_base_url, and whether   *)
(* an injection has normalised the rest of it (context window, service     *)
(* tier, features, catalog), which only the journal can undo.              *)
(***************************************************************************)
EXTENDS Naturals

CONSTANTS
    Edits,       \* changes the user or Codex makes to config.toml
    Open,        \* is the proxy bound beyond loopback (legacy injection)?
    MaxCommands, \* bound: commands, and starts of the proxy
    MaxMeddling, \* bound: changes of provider or address by others
    MaxCrashes   \* bound: processes that die

ASSUME InjectionConstants ==
    Open \in BOOLEAN /\ MaxCommands \in Nat /\ MaxMeddling \in Nat /\ MaxCrashes \in Nat

Actors == {"proxy", "cli"}
None == "none"

Configs == [edits : SUBSET Edits, provider : {None, "opencodex", "other"},
            url : {None, "ours", "own"}, shaped : BOOLEAN]
Profiles == {None, "ours", "own"}

VARIABLES
    config,   \* config.toml
    profile,  \* opencodex.config.toml
    journal,  \* openprovider-journal.json
    actor,    \* each process: where it is, and what it keeps in locals
    up,       \* does the proxy run?
    commands, \* commands begun so far
    crashes,  \* deaths so far
    meddling, \* changes by others so far
    own,      \* history: the configuration as the user wants it
    exposed,  \* history: edits made where a command may overwrite them
    calm,     \* history: nothing but one command at a time since `own'
    injected  \* history: an injection was written and not taken back

bounds == <<commands, crashes, meddling>>
history == <<own, exposed, calm, injected>>
vars == <<config, profile, journal, actor, up, bounds, history>>

NoJournal == [here |-> FALSE, config |-> [edits |-> {}, provider |-> None,
                 url |-> None, shaped |-> FALSE],
              profile |-> None, marked |-> FALSE,
              injected |-> [edits |-> {}, provider |-> None, url |-> None,
                            shaped |-> FALSE],
              owner |-> None]

(* raw: the configuration, taken: the journal, as this process read them.  *)
Resting == [pc |-> "rest", raw |-> NoJournal.config, then |-> "end",
            taken |-> NoJournal, configOk |-> FALSE, profileOk |-> FALSE]

Init ==
    /\ config = NoJournal.config /\ profile = None
    /\ journal = NoJournal
    /\ actor = [a \in Actors |-> Resting]
    /\ up = FALSE
    /\ commands = 0 /\ crashes = 0 /\ meddling = 0
    /\ own = config /\ exposed = {} /\ calm = TRUE /\ injected = FALSE

At(a, pc) == actor[a].pc = pc
Quiet == \A a \in Actors : At(a, "rest")
Go(a, pc) == actor' = [actor EXCEPT ![a].pc = pc]
Become(a, pc) == actor' = [actor EXCEPT ![a] = [Resting EXCEPT !.pc = pc]]

-----------------------------------------------------------------------------
(* What the code reads off a configuration, and its two transforms. *)

(* externalCodexModelProvider *)
External(c) == c.provider = "other"

(* fault: whatever is injected counts as native. *)
NeverOwned(c) == FALSE

(* hasInjectedCodexRouting: the table it looks for is called "openprovider". *)
HasInjectedRouting(c) == c.url = "ours" \/ c.provider = "openprovider"

(* Does plain Codex go to the proxy? *)
Routed(c) == c.url = "ours" \/ c.provider = "opencodex"

(* injectCodexConfig's chain of transforms; the user's own address stays. *)
Injected(c) ==
    [c EXCEPT !.shaped = TRUE,
              !.provider = IF Open THEN "opencodex" ELSE None,
              !.url = IF c.url = "own" THEN "own" ELSE IF Open THEN None ELSE "ours"]

(* stripOpencodexConfig *)
Stripped(c) ==
    [c EXCEPT !.provider = IF @ = "opencodex" THEN None ELSE @,
              !.url = IF @ = "ours" THEN None ELSE @]

-----------------------------------------------------------------------------
(* injectCodexConfig.                                                      *)

(* A process that ends leaves its journal without a living owner: the file *)
(* itself, and what another process has read of it.                        *)
Orphaned(j, a) == [j EXCEPT !.owner = IF @ = a THEN "gone" ELSE @]
Leave(a, j) ==
    /\ actor' = [b \in Actors |->
                    IF b = a THEN Resting
                    ELSE [actor[b] EXCEPT !.taken = Orphaned(@, a)]]
    /\ journal' = Orphaned(j, a)

(* The command is over: a short-lived process ends, the proxy stays. *)
Finish(a, j) ==
    IF a = "cli" THEN Leave(a, j)
    ELSE actor' = [actor EXCEPT ![a] = Resting] /\ journal' = j

Read(a) ==
    /\ At(a, "read")
    /\ IF External(config) THEN Become(a, "forget")
       ELSE actor' = [actor EXCEPT ![a].pc = "journal", ![a].raw = config]
    /\ UNCHANGED <<config, profile, journal, up, bounds, history>>

(* Another provider is in charge: removeJournal. *)
Forget(a) ==
    /\ At(a, "forget")
    /\ Finish(a, NoJournal)
    /\ UNCHANGED <<config, profile, up, bounds, history>>

(* writeJournal: a native configuration replaces any older snapshot; the   *)
(* profile is read for it here.                                            *)
WriteJournal(a) ==
    /\ At(a, "journal")
    /\ journal' = IF HasInjectedRouting(actor[a].raw) THEN journal
                  ELSE [NoJournal EXCEPT !.here = TRUE, !.config = actor[a].raw,
                                         !.profile = profile, !.owner = a]
    /\ Go(a, "config")
    /\ UNCHANGED <<config, profile, up, bounds, history>>

WriteConfig(a) ==
    /\ At(a, "config")
    /\ config' = Injected(actor[a].raw)
    /\ injected' = TRUE
    /\ Go(a, "profile")
    /\ UNCHANGED <<profile, journal, up, bounds, own, exposed, calm>>

WriteProfile(a) ==
    /\ At(a, "profile")
    /\ profile' = "ours"
    /\ Go(a, "mark")
    /\ UNCHANGED <<config, journal, up, bounds, history>>

(* fault: the missing journal is not noticed. *)
MarkAnyway(a) ==
    /\ At(a, "mark")
    /\ IF ~journal.marked
       THEN /\ actor' = [actor EXCEPT ![a].pc = "remark", ![a].taken = journal]
            /\ UNCHANGED journal
       ELSE Finish(a, journal)
    /\ UNCHANGED <<config, profile, up, bounds, history>>

(* markJournalInjectedState: the first mark stays; otherwise the journal   *)
(* is read, ...                                                            *)
MarkJournal(a) ==
    /\ At(a, "mark")
    /\ IF journal.here /\ ~journal.marked
       THEN /\ actor' = [actor EXCEPT ![a].pc = "remark", ![a].taken = journal]
            /\ UNCHANGED journal
       ELSE Finish(a, journal)
    /\ UNCHANGED <<config, profile, up, bounds, history>>

(* ... and written back with the mark, over whatever is there by then.     *)
Remark(a) ==
    /\ At(a, "remark")
    /\ Finish(a, [actor[a].taken EXCEPT !.marked = TRUE,
                                        !.injected = Injected(actor[a].raw)])
    /\ UNCHANGED <<config, profile, up, bounds, history>>

-----------------------------------------------------------------------------
(* restoreJournalState, which restoreNativeCodex and reconcileJournal      *)
(* share.                                                                  *)

(* fault: whatever is there is taken for what was injected. *)
AlwaysUnchanged(j) == TRUE

(* fault: a journal without a mark does not count. *)
MarkedOnly(j) == j.marked /\ config = j.injected

ConfigUnchanged(j) == ~j.marked \/ config = j.injected
ProfileUnchanged(j) == ~j.marked \/ profile = "ours"

(* Without a journal nothing is restored. *)
Reload(a) ==
    /\ At(a, "reload")
    /\ actor' = [actor EXCEPT ![a].pc = IF journal.here THEN "compare" ELSE "drop",
                              ![a].taken = journal]
    /\ UNCHANGED <<config, profile, journal, up, bounds, history>>

(* Both files are read and compared with what the injection wrote; ...     *)
Compare(a) ==
    /\ At(a, "compare")
    /\ actor' = [actor EXCEPT ![a].pc = "configBack",
                              ![a].configOk = ConfigUnchanged(actor[a].taken),
                              ![a].profileOk = ProfileUnchanged(actor[a].taken)]
    /\ UNCHANGED <<config, profile, journal, up, bounds, history>>

(* ... then the configuration goes back, whatever is there by now; then    *)
(* the profile, and the journal.                                           *)
ConfigBack(a) ==
    /\ At(a, "configBack")
    /\ config' = IF actor[a].configOk THEN actor[a].taken.config ELSE config
    /\ injected' = (injected /\ ~actor[a].configOk)
    /\ Go(a, "profileBack")
    /\ UNCHANGED <<profile, journal, up, bounds, own, exposed, calm>>

ProfileBack(a) ==
    /\ At(a, "profileBack")
    /\ profile' = IF actor[a].profileOk THEN actor[a].taken.profile ELSE profile
    /\ Go(a, "drop")
    /\ UNCHANGED <<config, journal, up, bounds, history>>

Complete(a) == actor[a].configOk /\ actor[a].profileOk

(* What follows: a start or an ensure goes on, a restore strips what the   *)
(* journal could not take back.                                            *)
DropJournal(a) ==
    LET j == IF Complete(a) THEN NoJournal ELSE journal
    IN  /\ At(a, "drop")
        /\ CASE actor[a].then = "inject" -> Become(a, "read") /\ journal' = j
             [] actor[a].then = "strip" /\ ~actor[a].configOk ->
                  /\ actor' = [actor EXCEPT ![a] = [Resting EXCEPT !.pc = "strip", !.taken = actor[a].taken]]
                  /\ journal' = j
             [] OTHER -> Finish(a, j)
        /\ UNCHANGED <<config, profile, up, bounds, history>>

(* removeCodexConfig: the configuration is read, ...                       *)
Strip(a) ==
    /\ At(a, "strip")
    /\ actor' = [actor EXCEPT ![a].pc = "stripWrite", ![a].raw = config]
    /\ UNCHANGED <<config, profile, journal, up, bounds, history>>

(* ... and its stripped form written.  A configuration without the proxy's *)
(* routing is written too if something else of it, below this model, was   *)
(* stripped, and otherwise left alone.                                     *)
StripWrite(a) ==
    LET raw == actor[a].raw
    IN  /\ At(a, "stripWrite")
        /\ \/ config' = Stripped(raw) /\ injected' = FALSE
           \/ /\ Stripped(raw) = raw
              /\ injected' = (injected /\ config # raw)
              /\ UNCHANGED config
        /\ actor' = [actor EXCEPT ![a].pc = "unlink", ![a].raw = Resting.raw]
        /\ UNCHANGED <<profile, journal, up, bounds, own, exposed, calm>>

(* The profile goes, unless there was a journal to decide about it. *)
UnlinkProfile(a) ==
    /\ At(a, "unlink")
    /\ profile' = IF actor[a].taken.here THEN profile ELSE None
    /\ Finish(a, journal)
    /\ UNCHANGED <<config, up, bounds, history>>

(* restoreNativeCodex; the shutdown handler skips it for an external       *)
(* provider, and so leaves the journal.                                    *)
Restore(a) ==
    /\ At(a, "restore")
    /\ \/ ~External(config) /\ Go(a, "reload") /\ UNCHANGED journal
       \/ External(config) /\ Go(a, "forget") /\ UNCHANGED journal
       \/ External(config) /\ a = "proxy" /\ Finish(a, journal)
    /\ UNCHANGED <<config, profile, up, bounds, history>>

Proceed(a) ==
    IF actor[a].then = "inject" THEN Become(a, "read") /\ UNCHANGED journal
    ELSE Finish(a, journal)

(* handleStart and handleEnsure reconcile unless a provider is in charge.  *)
Reconcile(a) ==
    /\ At(a, "reconcile")
    /\ IF External(config) THEN Proceed(a) ELSE Go(a, "check") /\ UNCHANGED journal
    /\ UNCHANGED <<config, profile, up, bounds, history>>

(* reconcileJournal: the journal of a process that is gone is replayed.    *)
Check(a) ==
    /\ At(a, "check")
    /\ IF journal.here /\ journal.owner = "gone"
       THEN Go(a, "reload") /\ UNCHANGED journal
       ELSE Proceed(a)
    /\ UNCHANGED <<config, profile, up, bounds, history>>

-----------------------------------------------------------------------------
(* The commands. *)

Begin(a, pc, then) ==
    /\ At(a, "rest")
    /\ commands < MaxCommands /\ commands' = commands + 1
    /\ actor' = [actor EXCEPT ![a] = [Resting EXCEPT !.pc = pc, !.then = then]]
    /\ calm' = (calm /\ Quiet)
    /\ UNCHANGED <<config, profile, journal, crashes, meddling, own, exposed, injected>>

(* handleStart: reconcile, listen, inject. *)
Start == ~up /\ up' = TRUE /\ Begin("proxy", "reconcile", "inject")

(* The dashboard's sync, in the running proxy. *)
Resync == up /\ Begin("proxy", "read", "end") /\ UNCHANGED up

(* The shutdown handler's syncCleanup, and /api/stop. *)
Shutdown == up /\ Begin("proxy", "restore", "strip") /\ UNCHANGED up

(* The proxy exits, after a shutdown; or at once, as a service or to be    *)
(* replaced, without a restore.                                            *)
Exit ==
    /\ up /\ At("proxy", "rest")
    /\ up' = FALSE
    /\ Leave("proxy", journal)
    /\ UNCHANGED <<config, profile, bounds, history>>

(* handleEnsure: reconcile, and inject if the proxy runs; a second start   *)
(* reconciles too before it sees that the proxy runs.                      *)
Ensure ==
    /\ \E then \in {"end"} \cup (IF up THEN {"inject"} ELSE {}) :
          Begin("cli", "reconcile", then)
    /\ UNCHANGED up

(* `sync', `init' and `restore back' inject, `stop' and `restore' restore. *)
Command == (Begin("cli", "read", "end") \/ Begin("cli", "restore", "strip")) /\ UNCHANGED up

Crash(a) ==
    /\ crashes < MaxCrashes /\ crashes' = crashes + 1
    /\ IF a = "proxy" THEN up ELSE ~At(a, "rest")
    /\ Leave(a, journal)
    /\ up' = (up /\ a # "proxy")
    /\ UNCHANGED <<config, profile, commands, meddling, history>>

-----------------------------------------------------------------------------
(* The user, Codex, and managers of other providers. *)

(* May a command overwrite what is written now?  It has read the           *)
(* configuration, or found that it need not look, and not yet written it;  *)
(* or an injection has not set its mark, or died before it did.            *)
Unsafe ==
    \/ \E a \in Actors :
          \/ actor[a].pc \in {"journal", "config", "stripWrite"}
          \/ actor[a].pc = "compare" /\ ~actor[a].taken.marked
          \/ actor[a].pc = "configBack" /\ actor[a].configOk
    \/ journal.here /\ ~journal.marked

(* The user's wish follows a change; what was lost before is given up when *)
(* a change is made in peace.                                              *)
Wish(c) ==
    LET peace == Quiet /\ ~injected /\ ~Unsafe
    IN  /\ config' = c
        /\ own' = IF peace THEN c ELSE [own EXCEPT !.edits = @ \cup c.edits]
        /\ calm' = peace

Edit(e) ==
    /\ e \notin own.edits \cup config.edits
    /\ Wish([config EXCEPT !.edits = @ \cup {e}])
    /\ exposed' = IF Unsafe THEN exposed \cup {e} ELSE exposed
    /\ UNCHANGED <<profile, journal, actor, up, bounds, injected>>

(* Another manager takes Codex over or gives it back, the user sets an     *)
(* address of their own, or removes the proxy's by hand.                   *)
Meddle ==
    /\ meddling < MaxMeddling /\ meddling' = meddling + 1
    /\ \/ Wish([config EXCEPT !.provider = IF @ = "other" THEN None ELSE "other"])
       \/ config.url # "own" /\ Wish([config EXCEPT !.url = "own"])
       \/ config.url # None /\ Wish([config EXCEPT !.url = None])
    /\ UNCHANGED <<profile, journal, actor, up, commands, crashes, exposed, injected>>

EditProfile ==
    /\ meddling < MaxMeddling /\ meddling' = meddling + 1
    /\ profile' = "own"
    /\ UNCHANGED <<config, journal, actor, up, commands, crashes, history>>

-----------------------------------------------------------------------------
Inject(a) ==
    \/ Read(a) \/ Forget(a) \/ WriteJournal(a) \/ WriteConfig(a) \/ WriteProfile(a)
    \/ MarkJournal(a) \/ Remark(a)

TakeBack(a) ==
    \/ Restore(a) \/ Reconcile(a) \/ Check(a)
    \/ Reload(a) \/ Compare(a) \/ ConfigBack(a) \/ ProfileBack(a) \/ DropJournal(a)
    \/ Strip(a) \/ StripWrite(a) \/ UnlinkProfile(a)

Next ==
    \/ \E a \in Actors : Inject(a) \/ TakeBack(a) \/ Crash(a)
    \/ Start \/ Resync \/ Shutdown \/ Exit \/ Ensure \/ Command
    \/ \E e \in Edits : Edit(e)
    \/ Meddle \/ EditProfile

Spec == Init /\ [][Next]_vars

-----------------------------------------------------------------------------
JournalRecord ==
    [here : BOOLEAN, config : Configs, profile : Profiles, marked : BOOLEAN,
     injected : Configs, owner : Actors \cup {None, "gone"}]

Pcs == {"rest", "read", "forget", "journal", "config", "profile", "mark", "remark",
        "restore", "reconcile", "check", "reload", "compare", "configBack",
        "profileBack", "drop", "strip", "stripWrite", "unlink"}
Sequels == {"end", "inject", "strip"}
ActorRecord ==
    [pc : Pcs, raw : Configs, then : Sequels, taken : JournalRecord,
     configOk : BOOLEAN, profileOk : BOOLEAN]

(* A journal has an owner, and nothing is left of a removed one. *)
WellFormed(j) ==
    /\ j \in JournalRecord
    /\ j.here \/ j = NoJournal
    /\ j.here => j.owner # None

(* A process that is to write a journal back, or to compare with it, has   *)
(* one.                                                                    *)
Ready(r) ==
    /\ WellFormed(r.taken)
    /\ r.pc \in {"remark", "compare"} => r.taken.here

(* Every value is of its shape. *)
TypeOK ==
    /\ config \in Configs /\ profile \in Profiles
    /\ WellFormed(journal)
    /\ actor \in [Actors -> ActorRecord] /\ \A a \in Actors : Ready(actor[a])
    /\ up \in BOOLEAN
    /\ commands \in 0 .. MaxCommands /\ crashes \in 0 .. MaxCrashes /\ meddling \in 0 .. MaxMeddling
    /\ own \in Configs /\ exposed \subseteq Edits
    /\ calm \in BOOLEAN /\ injected \in BOOLEAN

(* What a restore or a replayed journal writes goes to the proxy no more:  *)
(* its own routing is never taken for the user's original (writeJournal:   *)
(* "which would survive `opr stop` and make the injection unremovable").   *)
RestoreLeavesNative == ~injected => ~Routed(config)

(* A change the user or Codex made to config.toml outlives every           *)
(* injection, restore, restart and replay of an old journal, in any order  *)
(* and by whatever process, unless it was made while a command was between *)
(* reading the file and writing it, or before an injection, under way or   *)
(* dead half-way, had set its mark (restoreJournalState's hashes).         *)
EditsSurvive == own.edits \ exposed \subseteq config.edits

(* Where commands did not overlap and nobody changed the injected file,    *)
(* taking the injection back gives exactly the user's configuration,       *)
(* through any number of crashes, restarts and repeated injections.        *)
RestoreIsExact == calm /\ Quiet /\ ~injected /\ own.url # "own" => config = own
=============================================================================
