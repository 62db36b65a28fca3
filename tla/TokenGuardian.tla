--------------------------- MODULE TokenGuardian ----------------------------
(***************************************************************************)
(* The background sweep of src/oauth/token-guardian.ts over the account of *)
(* OAuthRefresh, for a provider whose refresh policy is "proactive".  The  *)
(* sweep looks one interval ahead; the resolver it calls looks one minute  *)
(* ahead.                                                                  *)
(***************************************************************************)
EXTENDS OAuthRefresh

VARIABLES
    due,       \* generations up to this expire before the next sweep
    backoff,   \* the sweep leaves the account alone for a while
    reported   \* the credential a sweep counted as refreshed last

guardianVars == <<due, backoff, reported>>

GuardianInit == Init /\ due = 0 /\ backoff = FALSE /\ reported = None

(* The accounts a sweep picks. *)
Chosen ==
    /\ account.here /\ ~account.needsReauth
    /\ account.gen <= due
    /\ ~backoff

(* getValidAccessTokenForAccount returns the stored token as long as it is
   fresh, and the sweep counts it as refreshed; ... *)
SweepFindsFresh ==
    /\ Chosen /\ Fresh(account.gen)
    /\ reported' = account.gen /\ backoff' = FALSE
    /\ UNCHANGED <<vars, due>>

(* ... otherwise it starts a refresh, whose end the sweep awaits: ... *)
SweepRefreshes(p) ==
    /\ Chosen /\ Resolve(p)
    /\ UNCHANGED guardianVars

(* ... a stored credential is counted, ... *)
SweepSucceeds(p) ==
    /\ Persist(p)
    /\ account'.gen # account.gen
    /\ reported' = account'.gen /\ backoff' = FALSE
    /\ UNCHANGED due

(* ... a failure, recorded without a token, makes it wait. *)
SweepFails(p) ==
    /\ ServerRefuses(p) \/ NoAnswer(p) \/ StoreFails(p) \/ LockTimesOut(p)
    /\ backoff' = TRUE
    /\ UNCHANGED <<due, reported>>

BackoffEnds ==
    /\ backoff /\ backoff' = FALSE
    /\ UNCHANGED <<vars, due, reported>>

ComesDue ==
    /\ due < minted /\ due' = due + 1
    /\ UNCHANGED <<vars, backoff, reported>>

(* A token in its last minute is one that expires before the next sweep. *)
OtherStep == Next /\ lapsed' <= due /\ UNCHANGED guardianVars

GuardianNext ==
    \/ SweepFindsFresh
    \/ \E p \in Procs : SweepRefreshes(p) \/ SweepSucceeds(p) \/ SweepFails(p)
    \/ BackoffEnds \/ ComesDue \/ OtherStep

GuardianSpec == GuardianInit /\ [][GuardianNext]_<<vars, guardianVars>>

(* token-guardian.ts:113 "refreshes every proactive-policy credential that
   will expire before the next sweep": what a sweep counts as refreshed
   does not expire before the next one. *)
SweepRefreshesAhead ==
    [][reported' # reported => reported' > due']_<<vars, guardianVars>>
=============================================================================
