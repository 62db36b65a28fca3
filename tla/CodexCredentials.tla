-------------------------- MODULE CodexCredentials --------------------------
(***************************************************************************)
(* What the store of Codex pool credentials promises to the rest of the    *)
(* program (routing pins, auth contexts): under each account id there is   *)
(* the credential of one login, or none, and a generation that moves with  *)
(* every change.  A refresh renews a credential that is there; it never    *)
(* brings back a deleted account or an older login.                        *)
(*                                                                         *)
(* The actions are written as conditions on the next state, so that TLC    *)
(* can test a step of an implementation against them.                      *)
(***************************************************************************)
EXTENDS Naturals

CONSTANT Ids        \* pool account ids

VARIABLES
    logins,     \* number of the newest login so far
    login,      \* per id: the login its credential comes from, 0 without one
    gen         \* per id: the generation of its record

vars == <<logins, login, gen>>

Init ==
    /\ logins \in Nat
    /\ login \in [Ids -> 0 .. logins]
    /\ gen \in [Ids -> Nat]

Store(id, number) ==
    /\ login' = [login EXCEPT ![id] = number]
    /\ gen' = [gen EXCEPT ![id] = @ + 1]

LogIn(id) ==
    /\ login'[id] > logins
    /\ Store(id, login'[id])
    /\ logins' = login'[id]

(* Accounts may share a refresh token (aliases); with it the account may   *)
(* be given the credential of a newer login than its own.                  *)
Refresh(id) ==
    /\ login[id] > 0
    /\ login[id] <= login'[id] /\ login'[id] <= logins
    /\ Store(id, login'[id])
    /\ UNCHANGED logins

Delete(id) ==
    /\ Store(id, 0)
    /\ UNCHANGED logins

Next == \E id \in Ids : LogIn(id) \/ Refresh(id) \/ Delete(id)

Spec == Init /\ [][Next]_vars
=============================================================================
