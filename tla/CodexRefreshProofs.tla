------------------------- MODULE CodexRefreshProofs -------------------------
(***************************************************************************)
(* Theorems about CodexRefresh, for any accounts, processes, callers and   *)
(* bounds: its types and the single flight for any number of processes;    *)
(* that the store keeps the promise of CodexCredentials, and that a token  *)
(* comes with the generation that names it, for one process (with more,    *)
(* updates of the store file can be lost, and both fail).                  *)
(***************************************************************************)
EXTENDS CodexRefresh, TLAPS

USE RefreshAssumption DEF Numbers

-----------------------------------------------------------------------------
(* Types.                                                                  *)

LEMMA NoCallIsCall == NoCall \in Call
  BY DEF NoCall, NoCredential, Credential, Call, Phases

LEMMA DeliverIsCall ==
    ASSUME NEW x \in Call, NEW cred \in Credential, NEW gen \in Nat
    PROVE  Deliver(x, cred, gen) \in Call
  BY NoCallIsCall DEF Deliver, Call, Phases

LEMMA CallFields ==
    ASSUME NEW x \in Call
    PROVE  /\ x.phase \in Phases /\ x.id \in Ids /\ x.grant \in 0 .. MaxIssued
           /\ x.gen \in Nat /\ x.got \in Credential
  BY DEF Call

LEMMA CallUpdates ==
    ASSUME NEW x \in Call, NEW phase \in Phases, NEW cred \in Credential, NEW gen \in Nat
    PROVE  /\ [x EXCEPT !.phase = phase] \in Call
           /\ [x EXCEPT !.phase = phase, !.got = cred] \in Call
           /\ [x EXCEPT !.phase = phase, !.gen = gen] \in Call
           /\ [x EXCEPT !.phase = phase, !.got = cred, !.gen = gen] \in Call
           /\ [x EXCEPT !.phase = phase, !.gen = gen, !.got = cred] \in Call
  BY DEF Call

LEMMA SettleIsCall ==
    ASSUME TypeOK, NEW c \in Callers, NEW cred \in Credential, NEW gen \in Nat,
           Settle(c, cred, gen)
    PROVE  call' \in [Callers -> Call]
<1>1. [call[c] EXCEPT !.phase = "settled", !.got = cred, !.gen = gen] \in Call
  BY CallUpdates DEF TypeOK, Phases, Leading
<1> QED BY <1>1 DEF TypeOK, Settle

LEMMA GotoIsCall ==
    ASSUME TypeOK, NEW c \in Callers, NEW phase \in Phases, Goto(c, phase)
    PROVE  call' \in [Callers -> Call]
<1>1. [call[c] EXCEPT !.phase = phase] \in Call
  BY CallUpdates, NoCallIsCall, CallFields DEF TypeOK
<1>2. call' = [call EXCEPT ![c] = [call[c] EXCEPT !.phase = phase]]
  BY DEF Goto
<1> QED BY <1>1, <1>2 DEF TypeOK

(* What the moves of a call change.                                        *)
LEMMA GotoFields ==
    ASSUME TypeOK, NEW c \in Callers, NEW phase \in Phases, Goto(c, phase)
    PROVE  /\ \A d \in Callers \ {c} : call'[d] = call[d]
           /\ call'[c].phase = phase /\ call'[c].id = call[c].id /\ call'[c].grant = call[c].grant
           /\ call'[c].got = call[c].got /\ call'[c].gen = call[c].gen
<1>1. call[c] \in Call /\ call'[c] = [call[c] EXCEPT !.phase = phase]
  BY DEF TypeOK, Goto
<1> QED BY <1>1 DEF TypeOK, Goto, Call

LEMMA SettleFields ==
    ASSUME TypeOK, NEW c \in Callers, NEW cred, NEW gen, Settle(c, cred, gen)
    PROVE  /\ \A d \in Callers \ {c} : call'[d] = call[d]
           /\ call'[c].phase = "settled" /\ call'[c].id = call[c].id /\ call'[c].grant = call[c].grant
           /\ call'[c].got = cred /\ call'[c].gen = gen
<1>1. call[c] \in Call /\ call'[c] = [call[c] EXCEPT !.phase = "settled", !.got = cred, !.gen = gen]
  BY DEF TypeOK, Settle
<1> QED BY <1>1 DEF TypeOK, Settle, Call

LEMMA DeliverFields ==
    ASSUME NEW x \in Call, NEW cred, NEW gen
    PROVE  \/ Deliver(x, cred, gen) = NoCall /\ cred = NoCredential
           \/ /\ Deliver(x, cred, gen).phase = "returned" /\ cred # NoCredential
              /\ Deliver(x, cred, gen).id = x.id
              /\ Deliver(x, cred, gen).got = cred /\ Deliver(x, cred, gen).gen = gen
  BY DEF Deliver, Call

LEMMA RedeemFields ==
    ASSUME TypeOK, NEW c \in Callers, NEW rotate, Redeem(c, rotate)
    PROVE  /\ \A d \in Callers \ {c} : call'[d] = call[d]
           /\ call'[c].phase = "answered" /\ call'[c].id = call[c].id /\ call'[c].grant = call[c].grant
           /\ call'[c].got.grant = Renewed(call[c].grant, issued', rotate) /\ call'[c].gen = call[c].gen
<1>1. /\ call[c] \in Call
      /\ call'[c] = [call[c] EXCEPT !.phase = "answered",
                        !.got = [access |-> issued', grant |-> Renewed(call[c].grant, issued', rotate)]]
  BY DEF TypeOK, Redeem
<1> QED BY <1>1 DEF TypeOK, Redeem, Call

(* After Locked: an error; the stored credential; an alias's; or the fetch *)
LEMMA LockedCases ==
    ASSUME TypeOK, NEW c \in Callers, Locked(c)
    PROVE  LET x == call[c] IN
           /\ x.phase = "creating" /\ x.id \in Ids /\ UNCHANGED <<store, leader, loginOf, issued, logins>>
           /\ \A d \in Callers \ {c} : call'[d] = call[d]
           /\ call'[c].id = x.id /\ call'[c].grant = x.grant
           /\ \/ /\ call'[c].phase = "settled" /\ call'[c].got = NoCredential /\ UNCHANGED writing
              \/ /\ call'[c].phase = "settled" /\ Fresh(x.id) /\ UNCHANGED writing
                 /\ call'[c].got = Holds(x.id) /\ call'[c].gen = store[x.id].gen
              \/ /\ call'[c].phase = "settled" /\ store[x.id].grant = x.grant
                 /\ \E other \in Ids :
                        /\ store[other].grant = x.grant /\ Present(other)
                        /\ Save(ProcessOf[c], x.id, Holds(other))
                        /\ call'[c].got = Holds(other)
                 /\ call'[c].gen = store[x.id].gen + 1
              \/ /\ call'[c].phase = "fetch" /\ store[x.id].grant = x.grant /\ UNCHANGED writing
                 /\ call'[c].gen = store[x.id].gen
<1> DEFINE x == call[c]
<1>1. x \in Call /\ x.id \in Ids
  BY CallFields DEF TypeOK
<1>2. CASE Settle(c, NoCredential, 0) /\ UNCHANGED writing
  BY <1>1, <1>2, SettleFields DEF Locked, server
<1>3. CASE Fresh(x.id) /\ Settle(c, Holds(x.id), store[x.id].gen) /\ UNCHANGED writing
  BY <1>1, <1>3, SettleFields DEF Locked, server
<1>4. CASE /\ store[x.id].grant = x.grant
           /\ \E other \in FreshAliases(x.grant, x.id) :
                /\ Save(ProcessOf[c], x.id, Holds(other))
                /\ Settle(c, Holds(other), store[x.id].gen + 1)
  BY <1>1, <1>4, SettleFields DEF Locked, server, FreshAliases, Fresh
<1>5. CASE /\ store[x.id].grant = x.grant /\ UNCHANGED writing
           /\ call' = [call EXCEPT ![c] = [x EXCEPT !.phase = "fetch", !.gen = store[x.id].gen]]
  <2>1. /\ call'[c] = [x EXCEPT !.phase = "fetch", !.gen = store[x.id].gen]
        /\ \A d \in Callers \ {c} : call'[d] = call[d]
    BY <1>5 DEF TypeOK
  <2>2. /\ call'[c].phase = "fetch" /\ call'[c].gen = store[x.id].gen
        /\ call'[c].id = x.id /\ call'[c].grant = x.grant
    BY <2>1, <1>1 DEF Call
  <2> QED BY <1>1, <1>5, <2>1, <2>2 DEF Locked, server
<1> QED BY <1>2, <1>3, <1>4, <1>5 DEF Locked

LEMMA ReleaseCases ==
    ASSUME TypeOK, NEW c \in Callers, Release(c), NEW d \in Callers
    PROVE  \/ d = c /\ call'[d] = Deliver(call[c], call[c].got, call[c].gen)
           \/ /\ d # c /\ call[d].phase = "joined" /\ call[d].grant = call[c].grant
              /\ call'[d].phase = "resumed" /\ call'[d].id = call[d].id /\ call'[d].grant = call[d].grant
              /\ call'[d].got = call[c].got
           \/ d # c /\ call'[d] = call[d]
<1>1. CASE d = c
  BY <1>1 DEF Release
<1>2. CASE d # c /\ d \in Joined(c)
  <2>1. /\ call[d] \in Call
        /\ call'[d] = [call[d] EXCEPT !.phase = "resumed", !.got = call[c].got, !.gen = call[c].gen]
    BY <1>2 DEF Release, TypeOK
  <2> QED BY <1>2, <2>1 DEF Call, Joined
<1>3. CASE d # c /\ d \notin Joined(c)
  BY <1>3 DEF Release
<1> QED BY <1>1, <1>2, <1>3

LEMMA SaveIsWriting ==
    ASSUME TypeOK, NEW p \in Processes, NEW id \in Ids, NEW cred \in Credential, Save(p, id, cred)
    PROVE  writing' \in [Processes -> [Ids -> Record] \cup {NoWrite}]
<1>1. [access |-> cred.access, grant |-> cred.grant, gen |-> store[id].gen + 1] \in Record
  BY DEF TypeOK, Record, Credential
<1> QED BY <1>1 DEF TypeOK, Save

LEMMA EnterTypes ==
    ASSUME TypeOK, NEW c \in Callers, NEW id \in Ids, Enter(c, id)
    PROVE  /\ call' \in [Callers -> Call]
           /\ leader' \in [Processes -> [Numbers -> Callers \cup {NoCaller}]]
<1> DEFINE new == [phase |-> "opening", id |-> id, grant |-> store[id].grant, gen |-> 0,
                   got |-> NoCredential]
<1>1. store[id] \in Record /\ store[id].grant \in Numbers /\ Holds(id) \in Credential
  BY DEF Enter, Present, TypeOK, Record, Credential, Holds
<1>2. new \in Call
  <2>1. NoCredential \in Credential BY DEF NoCredential, Credential
  <2>2. "opening" \in Phases BY DEF Phases, Leading, Synchronous
  <2> QED BY <1>1, <2>1, <2>2 DEF Call
<1>3. /\ [new EXCEPT !.phase = "joined"] \in Call
      /\ [new EXCEPT !.phase = "returned", !.gen = store[id].gen, !.got = Holds(id)] \in Call
  <2>1. {"joined", "returned"} \subseteq Phases BY DEF Phases
  <2>2. store[id].gen \in Nat BY <1>1 DEF Record
  <2> HIDE DEF new
  <2> QED BY <1>1, <1>2, <2>1, <2>2, CallUpdates
<1> HIDE DEF new
<1>4. call' \in [Callers -> Call]
  <2>1. \/ call' = [call EXCEPT ![c] = new]
        \/ call' = [call EXCEPT ![c] = [new EXCEPT !.phase = "joined"]]
        \/ call' = [call EXCEPT ![c] = [new EXCEPT !.phase = "returned", !.gen = store[id].gen,
                                                  !.got = Holds(id)]]
    BY DEF Enter, new
  <2> QED BY <2>1, <1>2, <1>3 DEF TypeOK
<1>5. leader' \in [Processes -> [Numbers -> Callers \cup {NoCaller}]]
  <2>1. \/ leader' = leader
        \/ leader' = [leader EXCEPT ![ProcessOf[c]][store[id].grant] = c]
    BY DEF Enter
  <2>2. ProcessOf[c] \in Processes /\ leader \in [Processes -> [Numbers -> Callers \cup {NoCaller}]]
    BY DEF TypeOK
  <2>3. [leader[ProcessOf[c]] EXCEPT ![store[id].grant] = c] \in [Numbers -> Callers \cup {NoCaller}]
    BY <2>2
  <2> QED BY <2>1, <2>2, <2>3
<1> QED BY <1>4, <1>5

LEMMA RemovedTypes ==
    ASSUME TypeOK, NEW g, Removed(g)
    PROVE  /\ file' \in [Numbers -> {"none", "empty", "written", "old"}]
           /\ maker' \in [Numbers -> Callers \cup {NoCaller}]
  BY DEF TypeOK, Removed

LEMMA FlightEndsTypes ==
    ASSUME TypeOK, NEW c \in Callers, FlightEnds(c)
    PROVE  leader' \in [Processes -> [Numbers -> Callers \cup {NoCaller}]]
  BY DEF TypeOK, FlightEnds

LEMMA TypeInit == Init => TypeOK
<1> SUFFICES ASSUME Init PROVE TypeOK OBVIOUS
<1> PICK grant \in InitialGrants :
        /\ store = [id \in Ids |-> [access |-> grant[id], grant |-> grant[id], gen |-> 1]]
        /\ redeemable = {grant[id] : id \in Ids}
  BY DEF Init
<1>1. grant \in [Ids -> Numbers] /\ redeemable \subseteq Numbers OBVIOUS
<1>2. store \in [Ids -> Record]
  BY <1>1 DEF Record
<1>3. issued \in Numbers
  BY <1>1 DEF Init
<1>4. call \in [Callers -> Call]
  BY NoCallIsCall DEF Init
<1> QED BY <1>1, <1>2, <1>3, <1>4 DEF Init, TypeOK

LEMMA TypeNext == TypeOK /\ [Next]_vars => TypeOK'
<1> SUFFICES ASSUME TypeOK, [Next]_vars PROVE TypeOK' OBVIOUS
<1>0. NoCredential \in Credential /\ NoCall \in Call
  BY NoCallIsCall DEF NoCredential, Credential
<1>1. ASSUME NEW c \in Callers, NEW id \in Ids, Start(c, id) PROVE TypeOK'
  BY <1>1, EnterTypes DEF TypeOK, Start, server, locks, bounds
<1>2. ASSUME NEW c \in Callers, Open(c) PROVE TypeOK'
  <2>1. call' \in [Callers -> Call]
    BY <1>2, GotoIsCall DEF Open, Phases, Leading, Synchronous
  <2>2. /\ file' \in [Numbers -> {"none", "empty", "written", "old"}]
        /\ maker' \in [Numbers -> Callers \cup {NoCaller}]
    <3>1. \/ UNCHANGED <<file, maker>>
          \/ /\ file' = [file EXCEPT ![call[c].grant] = "empty"]
             /\ maker' = [maker EXCEPT ![call[c].grant] = c]
      BY <1>2 DEF Open, locks
    <3>2. /\ file \in [Numbers -> {"none", "empty", "written", "old"}]
          /\ maker \in [Numbers -> Callers \cup {NoCaller}]
      BY DEF TypeOK
    <3>3. CASE UNCHANGED <<file, maker>>
      BY <3>2, <3>3
    <3>4. CASE /\ file' = [file EXCEPT ![call[c].grant] = "empty"]
               /\ maker' = [maker EXCEPT ![call[c].grant] = c]
      <4>1. file' \in [Numbers -> {"none", "empty", "written", "old"}]
        BY <3>2, <3>4
      <4>2. maker' \in [Numbers -> Callers \cup {NoCaller}]
        BY <3>2, <3>4
      <4> QED BY <4>1, <4>2
    <3> QED BY <3>1, <3>3, <3>4
  <2> QED BY <1>2, <2>1, <2>2 DEF TypeOK, Open, server, bounds
<1>3. ASSUME NEW c \in Callers, Judge(c) PROVE TypeOK'
  <2>1. call' \in [Callers -> Call]
    BY <1>3, GotoIsCall DEF Judge, Phases, Leading, Synchronous
  <2> QED BY <1>3, <2>1 DEF TypeOK, Judge, server, locks, bounds
<1>4. ASSUME NEW c \in Callers, Unlink(c) PROVE TypeOK'
  <2>1. call' \in [Callers -> Call]
    BY <1>4, GotoIsCall DEF Unlink, Phases, Leading, Synchronous
  <2> QED BY <1>4, <2>1, RemovedTypes DEF TypeOK, Unlink, server, bounds
<1>5. ASSUME NEW c \in Callers, Locked(c) PROVE TypeOK'
  <2> DEFINE id == call[c].id
  <2>1. id \in Ids
    BY CallFields DEF TypeOK
  <2>2. \A other \in Ids : Holds(other) \in Credential /\ store[other].gen \in Nat
    BY DEF TypeOK, Holds, Record, Credential
  <2>3. call' \in [Callers -> Call] /\ writing' \in [Processes -> [Ids -> Record] \cup {NoWrite}]
    <3>1. CASE Settle(c, NoCredential, 0) /\ UNCHANGED writing
      BY <3>1, <1>0, SettleIsCall DEF TypeOK
    <3>2. CASE Settle(c, Holds(id), store[id].gen) /\ UNCHANGED writing
      BY <3>2, <2>1, <2>2, SettleIsCall DEF TypeOK
    <3>3. CASE \E other \in FreshAliases(call[c].grant, id) :
                    /\ Save(ProcessOf[c], id, Holds(other))
                    /\ Settle(c, Holds(other), store[id].gen + 1)
      BY <3>3, <2>1, <2>2, SettleIsCall, SaveIsWriting DEF FreshAliases
    <3>4. CASE /\ call' = [call EXCEPT ![c] = [call[c] EXCEPT !.phase = "fetch", !.gen = store[id].gen]]
               /\ UNCHANGED writing
      <4>1. [call[c] EXCEPT !.phase = "fetch", !.gen = store[id].gen] \in Call
        BY <2>1, <2>2, CallUpdates, <1>0 DEF TypeOK, Phases, Leading
      <4> QED BY <3>4, <4>1 DEF TypeOK
    <3> QED BY <1>5, <3>1, <3>2, <3>3, <3>4 DEF Locked
  <2>4. file' \in [Numbers -> {"none", "empty", "written", "old"}]
    BY <1>5 DEF TypeOK, Locked
  <2> QED BY <1>5, <2>3, <2>4 DEF TypeOK, Locked, server, bounds
<1>6. ASSUME NEW c \in Callers, SaveAnswer(c) PROVE TypeOK'
  <2>1. call[c].id \in Ids /\ call[c].got \in Credential /\ call[c].gen + 1 \in Nat
    BY CallFields DEF TypeOK
  <2>2. call' \in [Callers -> Call] /\ writing' \in [Processes -> [Ids -> Record] \cup {NoWrite}]
    BY <1>6, <2>1, <1>0, SettleIsCall, SaveIsWriting DEF SaveAnswer, TypeOK
  <2> QED BY <1>6, <2>2 DEF TypeOK, SaveAnswer, server, bounds, locks
<1>7. ASSUME NEW c \in Callers, Release(c) PROVE TypeOK'
  <2>1. ASSUME NEW d \in Callers PROVE call'[d] \in Call
    <3>1. /\ Deliver(call[c], call[c].got, call[c].gen) \in Call
          /\ [call[d] EXCEPT !.phase = "resumed", !.got = call[c].got, !.gen = call[c].gen] \in Call
          /\ call[d] \in Call
      BY CallFields, CallUpdates, DeliverIsCall DEF TypeOK, Phases
    <3> QED BY <1>7, <3>1 DEF Release
  <2>2. call' \in [Callers -> Call]
    BY <1>7, <2>1 DEF Release
  <2> QED BY <1>7, <2>2, RemovedTypes, FlightEndsTypes DEF TypeOK, Release, server, bounds
<1>8. ASSUME NEW c \in Callers, Resume(c) PROVE TypeOK'
  <2>1. call[c].id \in Ids /\ call[c].got \in Credential /\ call[c] \in Call
    BY CallFields DEF TypeOK
  <2>2. OwnGeneration(call[c]) \in Nat
    BY <2>1 DEF OwnGeneration, TypeOK, Record
  <2>3. /\ call' \in [Callers -> Call]
        /\ writing' \in [Processes -> [Ids -> Record] \cup {NoWrite}]
        /\ leader' \in [Processes -> [Numbers -> Callers \cup {NoCaller}]]
    <3>1. CASE call' = [call EXCEPT ![c] = NoCall] /\ UNCHANGED <<writing, leader>>
      BY <3>1, <1>0 DEF TypeOK
    <3>2. CASE /\ Save(ProcessOf[c], call[c].id, call[c].got)
               /\ call' = [call EXCEPT ![c] = Deliver(call[c], call[c].got, OwnGeneration(call[c]))]
               /\ UNCHANGED leader
      <4>1. Deliver(call[c], call[c].got, OwnGeneration(call[c])) \in Call
        BY <2>1, <2>2, DeliverIsCall
      <4> QED BY <3>2, <4>1, <2>1, SaveIsWriting DEF TypeOK
    <3>3. CASE Enter(c, call[c].id) /\ UNCHANGED writing
      BY <3>3, <2>1, EnterTypes DEF TypeOK
    <3> QED BY <1>8, <3>1, <3>2, <3>3 DEF Resume
  <2> QED BY <1>8, <2>3 DEF TypeOK, Resume, server, locks, bounds
<1>9. ASSUME NEW c \in Callers, Use(c) PROVE TypeOK'
  BY <1>9, <1>0 DEF TypeOK, Use, server, locks, bounds
<1>10. ASSUME NEW c \in Callers, LockTimeout(c) PROVE TypeOK'
  <2>1. call' \in [Callers -> Call]
    BY <1>10, <1>0 DEF TypeOK, LockTimeout
  <2> QED BY <1>10, <2>1, FlightEndsTypes DEF TypeOK, LockTimeout, server, locks, bounds
<1>11. ASSUME NEW c \in Callers, NEW rotate \in BOOLEAN, Redeem(c, rotate) PROVE TypeOK'
  <2> DEFINE g == call[c].grant
             n == issued + 1
  <2>1. g \in Numbers /\ n \in Numbers
    BY <1>11 DEF Redeem, TypeOK
  <2>2. [access |-> n, grant |-> Renewed(g, n, rotate)] \in Credential
    BY <2>1 DEF Credential, Renewed
  <2>3. [call[c] EXCEPT !.phase = "answered", !.got = [access |-> n, grant |-> Renewed(g, n, rotate)]] \in Call
    BY <2>2, CallUpdates DEF TypeOK, Phases, Leading
  <2>4. call' \in [Callers -> Call]
    BY <1>11, <2>3 DEF Redeem, TypeOK
  <2>5. loginOf' \in [Numbers -> 0 .. MaxIssued]
    BY <1>11, <2>1 DEF Redeem, TypeOK
  <2>6. fresh' \subseteq Numbers /\ redeemable' \subseteq Numbers /\ issued' \in 0 .. MaxIssued
    BY <1>11, <2>1 DEF Redeem, TypeOK
  <2> QED BY <1>11, <2>4, <2>5, <2>6 DEF TypeOK, Redeem, locks, bounds
<1>12. ASSUME NEW c \in Callers, FetchFails(c) PROVE TypeOK'
  <2>1. call' \in [Callers -> Call]
    BY <1>12, <1>0, SettleIsCall DEF FetchFails
  <2> QED BY <1>12, <2>1 DEF TypeOK, FetchFails, locks, bounds
<1>13. ASSUME NEW n \in Numbers, Expire(n) PROVE TypeOK'
  BY <1>13 DEF TypeOK, Expire, locks, bounds
<1>14. ASSUME NEW g \in Numbers, LockAges(g) PROVE TypeOK'
  BY <1>14 DEF TypeOK, LockAges, server, bounds
<1>15. ASSUME NEW p \in Processes, Persist(p) PROVE TypeOK'
  <2>1. store' \in [Ids -> Record]
    BY <1>15 DEF TypeOK, Persist
  <2>2. \A id \in Ids : store'[id].grant # 0 => store'[id].grant \in Numbers
    BY <2>1 DEF Record
  <2>3. logins' \in 0 .. MaxIssued
    BY <1>15, <2>2 DEF TypeOK, Persist
  <2> QED BY <1>15, <2>1, <2>3 DEF TypeOK, Persist, server, locks, bounds
<1>16. ASSUME NEW p \in Processes, Crash(p) PROVE TypeOK'
  <2>1. call' \in [Callers -> Call] /\ maker' \in [Numbers -> Callers \cup {NoCaller}]
    BY <1>16, <1>0 DEF TypeOK, Crash
  <2>2. leader' \in [Processes -> [Numbers -> Callers \cup {NoCaller}]]
    BY <1>16 DEF TypeOK, Crash
  <2>3. redeemable' \subseteq Numbers
    BY <1>16 DEF TypeOK, Crash
  <2>4. writing' \in [Processes -> [Ids -> Record] \cup {NoWrite}]
    BY <1>16 DEF TypeOK, Crash
  <2>5. crashes' \in Nat /\ UNCHANGED <<store, file, fresh, issued, loginOf, edits, logins>>
    BY <1>16 DEF TypeOK, Crash
  <2> QED BY <2>1, <2>2, <2>3, <2>4, <2>5 DEF TypeOK
<1>17. ASSUME NEW p \in Processes, NEW id \in Ids, LogIn(p, id) PROVE TypeOK'
  <2>1. issued + 1 \in Numbers
    BY <1>17 DEF TypeOK, LogIn
  <2>2. [access |-> issued + 1, grant |-> issued + 1] \in Credential
    BY <2>1 DEF Credential
  <2>3. writing' \in [Processes -> [Ids -> Record] \cup {NoWrite}]
    BY <1>17, <2>2, SaveIsWriting DEF LogIn
  <2> QED BY <1>17, <2>1, <2>3 DEF TypeOK, LogIn, locks
<1>18. ASSUME NEW p \in Processes, NEW id \in Ids, Delete(p, id) PROVE TypeOK'
  <2>1. writing' \in [Processes -> [Ids -> Record] \cup {NoWrite}]
    BY <1>18, <1>0, SaveIsWriting DEF Delete
  <2> QED BY <1>18, <2>1 DEF TypeOK, Delete, server, locks
<1>19. CASE UNCHANGED vars
  BY <1>19 DEF TypeOK, vars
<1> QED
  BY <1>1, <1>2, <1>3, <1>4, <1>5, <1>6, <1>7, <1>8, <1>9, <1>10, <1>11, <1>12, <1>13, <1>14,
     <1>15, <1>16, <1>17, <1>18, <1>19 DEF Next, Step, Progress

(* Every reachable state is well typed: the store, the lock files, the     *)
(* flights and every call's frame.                                         *)
THEOREM TypeCorrect == Spec => []TypeOK
  BY TypeInit, TypeNext, PTL DEF Spec

-----------------------------------------------------------------------------
(* The single flight, and one piece of synchronous code at a time.         *)

FlightsAreLed ==
    \A c \in Callers : call[c].phase \in Leading =>
        call[c].grant \in Numbers /\ leader[ProcessOf[c]][call[c].grant] = c

Exclusion ==
    \A c \in Callers : call[c].phase \in Synchronous =>
        /\ writing[ProcessOf[c]] = NoWrite
        /\ \A d \in Callers :
                ProcessOf[d] = ProcessOf[c] /\ call[d].phase \in Synchronous => d = c

LEMMA FlightsKept ==
    ASSUME FlightsAreLed, UNCHANGED leader,
           \A c \in Callers : call'[c].phase \in Leading =>
                call[c].phase \in Leading /\ call'[c].grant = call[c].grant
    PROVE  FlightsAreLed'
  BY DEF FlightsAreLed

LEMMA ExclusionKept ==
    ASSUME Exclusion,
           \A c \in Callers : call'[c].phase \in Synchronous =>
                /\ call[c].phase \in Synchronous
                /\ writing[ProcessOf[c]] = NoWrite => writing'[ProcessOf[c]] = NoWrite
    PROVE  Exclusion'
  BY DEF Exclusion

(* What a call that enters becomes.                                        *)
LEMMA EnterCases ==
    ASSUME TypeOK, NEW c \in Callers, NEW id \in Ids, Enter(c, id)
    PROVE  /\ store[id].grant \in Numbers
           /\ call'[c].id = id /\ call'[c].grant = store[id].grant
           /\ \A d \in Callers \ {c} : call'[d] = call[d]
           /\ \/ /\ call'[c].phase = "returned" /\ UNCHANGED leader
                 /\ call'[c].gen = store[id].gen /\ call'[c].got = Holds(id)
              \/ call'[c].phase = "joined" /\ UNCHANGED leader
              \/ /\ call'[c].phase = "opening"
                 /\ leader[ProcessOf[c]][store[id].grant] = NoCaller
                 /\ leader' = [leader EXCEPT ![ProcessOf[c]][store[id].grant] = c]
<1> DEFINE new == [phase |-> "opening", id |-> id, grant |-> store[id].grant, gen |-> 0,
                   got |-> NoCredential]
<1>1. store[id].grant \in Numbers
  BY DEF Enter, Present, TypeOK, Record
<1>2. CASE /\ call' = [call EXCEPT ![c] = [new EXCEPT !.phase = "returned", !.gen = store[id].gen,
                                                     !.got = Holds(id)]]
           /\ UNCHANGED leader
  BY <1>1, <1>2 DEF TypeOK
<1>3. CASE /\ call' = [call EXCEPT ![c] = [new EXCEPT !.phase = "joined"]]
           /\ UNCHANGED leader
  BY <1>1, <1>3 DEF TypeOK
<1>4. CASE /\ leader[ProcessOf[c]][store[id].grant] = NoCaller
           /\ leader' = [leader EXCEPT ![ProcessOf[c]][store[id].grant] = c]
           /\ call' = [call EXCEPT ![c] = new]
  BY <1>1, <1>4 DEF TypeOK
<1> QED BY <1>2, <1>3, <1>4 DEF Enter, Flight

(* A call that enters leads only where nobody leads.                       *)
LEMMA EnterFlights ==
    ASSUME TypeOK, FlightsAreLed, NEW c \in Callers, NEW id \in Ids, Enter(c, id)
    PROVE  FlightsAreLed'
<1> SUFFICES ASSUME NEW d \in Callers, call'[d].phase \in Leading
             PROVE  call'[d].grant \in Numbers /\ leader'[ProcessOf[d]][call'[d].grant] = d
  BY DEF FlightsAreLed
<1>1. CASE call'[c].phase \in {"returned", "joined"} /\ UNCHANGED leader
  <2>1. d # c
    BY <1>1 DEF Leading, Synchronous
  <2>2. call'[d] = call[d]
    BY <2>1, EnterCases
  <2> QED BY <1>1, <2>2 DEF FlightsAreLed
<1>2. CASE /\ leader[ProcessOf[c]][store[id].grant] = NoCaller
           /\ leader' = [leader EXCEPT ![ProcessOf[c]][store[id].grant] = c]
  <2>1. leader'[ProcessOf[c]][store[id].grant] = c
    BY <1>2, EnterCases DEF TypeOK
  <2>2. CASE d = c
    BY <2>1, <2>2, EnterCases
  <2>3. CASE d # c
    <3>1. /\ call[d].grant \in Numbers /\ leader[ProcessOf[d]][call[d].grant] = d
          /\ call'[d] = call[d]
      BY <2>3, EnterCases DEF FlightsAreLed
    <3>2. leader'[ProcessOf[d]][call[d].grant] = leader[ProcessOf[d]][call[d].grant]
      BY <1>2, <3>1 DEF TypeOK
    <3> QED BY <3>1, <3>2
  <2> QED BY <2>2, <2>3
<1> QED BY <1>1, <1>2, EnterCases

LEMMA FlightEndsFlights ==
    ASSUME TypeOK, FlightsAreLed, NEW c \in Callers, call[c].phase \in Leading, FlightEnds(c),
           call'[c].phase \notin Leading,
           \A d \in Callers \ {c} : call'[d].phase \in Leading =>
                call[d].phase \in Leading /\ call'[d].grant = call[d].grant
    PROVE  FlightsAreLed'
<1> SUFFICES ASSUME NEW d \in Callers \ {c}, call'[d].phase \in Leading
             PROVE  call[d].grant \in Numbers /\ leader'[ProcessOf[d]][call[d].grant] = d
  BY DEF FlightsAreLed
<1>1. /\ call[d].grant \in Numbers /\ leader[ProcessOf[d]][call[d].grant] = d
      /\ call[c].grant \in Numbers /\ leader[ProcessOf[c]][call[c].grant] = c
  BY DEF FlightsAreLed
<1> QED BY <1>1 DEF FlightEnds, TypeOK

LEMMA FlightsNext == TypeOK /\ FlightsAreLed /\ [Next]_vars => FlightsAreLed'
<1> SUFFICES ASSUME TypeOK, FlightsAreLed, [Next]_vars PROVE FlightsAreLed' OBVIOUS
<1> USE DEF Leading, Synchronous
<1>1. ASSUME NEW c \in Callers, NEW id \in Ids, Start(c, id) PROVE FlightsAreLed'
  BY <1>1, EnterFlights DEF Start
<1>2. ASSUME NEW c \in Callers, Open(c) \/ Judge(c) \/ Unlink(c) PROVE FlightsAreLed'
  <2>1. PICK phase \in Synchronous \cup {"waiting"} : Goto(c, phase)
    BY <1>2 DEF Open, Judge, Unlink
  <2> QED BY <1>2, <2>1, GotoFields, FlightsKept DEF Open, Judge, Unlink, Phases
<1>3. ASSUME NEW c \in Callers, Locked(c) PROVE FlightsAreLed'
  BY <1>3, LockedCases, FlightsKept
<1>4. ASSUME NEW c \in Callers, SaveAnswer(c) PROVE FlightsAreLed'
  BY <1>4, SettleFields, FlightsKept DEF SaveAnswer
<1>5. ASSUME NEW c \in Callers, Release(c) PROVE FlightsAreLed'
  <2>1. call'[c].phase \notin Leading
    BY <1>5, ReleaseCases, DeliverFields DEF TypeOK, NoCall
  <2>2. ASSUME NEW d \in Callers \ {c}, call'[d].phase \in Leading
        PROVE  call[d].phase \in Leading /\ call'[d].grant = call[d].grant
    BY <1>5, <2>2, ReleaseCases
  <2>3. call[c].phase \in Leading
    BY <1>5 DEF Release
  <2> QED BY <1>5, <2>3, <2>1, <2>2, FlightEndsFlights DEF Release
<1>6. ASSUME NEW c \in Callers, Resume(c) PROVE FlightsAreLed'
  <2>1. CASE Enter(c, call[c].id)
    BY <2>1, EnterFlights, CallFields DEF TypeOK
  <2>2. CASE UNCHANGED leader /\ \E x \in {NoCall, Deliver(call[c], call[c].got, OwnGeneration(call[c]))} :
                call' = [call EXCEPT ![c] = x]
    <3>1. call'[c].phase \notin Leading /\ \A d \in Callers \ {c} : call'[d] = call[d]
      BY <2>2, DeliverFields DEF TypeOK, NoCall
    <3> QED BY <2>2, <3>1, FlightsKept
  <2> QED BY <1>6, <2>1, <2>2 DEF Resume
<1>7. ASSUME NEW c \in Callers, LockTimeout(c) PROVE FlightsAreLed'
  <2>1. /\ call[c].phase = "judging" /\ FlightEnds(c)
        /\ \A d \in Callers : call'[d] = IF d \in Joined(c) \cup {c} THEN NoCall ELSE call[d]
    BY <1>7 DEF LockTimeout
  <2>2. NoCall.phase \notin Leading
    BY DEF NoCall
  <2> QED BY <2>1, <2>2, FlightEndsFlights DEF TypeOK
<1>8. ASSUME NEW c \in Callers, Use(c) PROVE FlightsAreLed'
  <2>1. call'[c] = NoCall /\ UNCHANGED leader /\ \A d \in Callers \ {c} : call'[d] = call[d]
    BY <1>8 DEF Use, TypeOK
  <2>2. NoCall.phase \notin Leading
    BY DEF NoCall
  <2> QED BY <2>1, <2>2, FlightsKept
<1>9. ASSUME NEW c \in Callers, NEW rotate \in BOOLEAN, Redeem(c, rotate) PROVE FlightsAreLed'
  BY <1>9, RedeemFields, FlightsKept DEF Redeem
<1>10. ASSUME NEW c \in Callers, FetchFails(c) PROVE FlightsAreLed'
  BY <1>10, SettleFields, FlightsKept DEF FetchFails
<1>11. ASSUME NEW p \in Processes, Crash(p) PROVE FlightsAreLed'
  <2> SUFFICES ASSUME NEW c \in Callers, call'[c].phase \in Leading
               PROVE  call'[c].grant \in Numbers /\ leader'[ProcessOf[c]][call'[c].grant] = c
    BY DEF FlightsAreLed
  <2>1. ProcessOf[c] # p /\ call'[c] = call[c]
    BY <1>11 DEF Crash, NoCall
  <2> QED BY <1>11, <2>1 DEF Crash, FlightsAreLed, TypeOK
<1>12. CASE UNCHANGED <<call, leader>>
  BY <1>12 DEF FlightsAreLed
<1> QED
  BY <1>1, <1>2, <1>3, <1>4, <1>5, <1>6, <1>7, <1>8, <1>9, <1>10, <1>11, <1>12
  DEF Next, Step, Progress, Expire, LockAges, Persist, LogIn, Delete, vars

(* A grant has one refresh at a time in each process, for any number of    *)
(* processes, callers and accounts.                                        *)
THEOREM SingleFlightHolds == Spec => []SingleFlight
<1>1. Init => FlightsAreLed
  BY DEF Init, FlightsAreLed, NoCall, Leading, Synchronous
<1>2. FlightsAreLed => SingleFlight
  BY DEF FlightsAreLed, SingleFlight
<1> QED BY TypeCorrect, <1>1, FlightsNext, <1>2, PTL DEF Spec

(* Synchronous code of a process is exclusive, so that its load and write  *)
(* of the store are not torn by another call of the same process.          *)
LEMMA ExclusionNext == TypeOK /\ Exclusion /\ [Next]_vars => Exclusion'
<1> SUFFICES ASSUME TypeOK, Exclusion, [Next]_vars PROVE Exclusion' OBVIOUS
<1> USE DEF Synchronous
<1>1. ASSUME NEW c \in Callers, NEW id \in Ids, Enter(c, id), ~ Busy(ProcessOf[c]), UNCHANGED writing
      PROVE  Exclusion'
  BY <1>1, EnterCases DEF Busy, Exclusion
<1>2. ASSUME NEW c \in Callers, NEW id \in Ids, NEW cred, Save(ProcessOf[c], id, cred),
             call'[c].phase \notin Synchronous,
             \A d \in Callers \ {c} : call'[d] = call[d],
             call[c].phase \in Synchronous \/ ~ Busy(ProcessOf[c])
      PROVE  Exclusion'
  <2>1. \A q \in Processes \ {ProcessOf[c]} : writing'[q] = writing[q]
    BY <1>2 DEF Save, TypeOK
  <2>2. \A d \in Callers : ProcessOf[d] = ProcessOf[c] => call'[d].phase \notin Synchronous
    BY <1>2 DEF Busy, Exclusion
  <2> QED BY <1>2, <2>1, <2>2 DEF Exclusion
<1>3. ASSUME NEW q \in Processes, NEW id \in Ids, NEW cred, Save(q, id, cred), UNCHANGED call, ~ Busy(q)
      PROVE  Exclusion'
  BY <1>3 DEF Save, TypeOK, Busy, Exclusion
<1>4. ASSUME NEW c \in Callers, NEW id \in Ids, Start(c, id) PROVE Exclusion'
  BY <1>1, <1>4 DEF Start, MayRun
<1>5. ASSUME NEW c \in Callers, Open(c) PROVE Exclusion'
  <2>1. PICK phase \in Synchronous : Goto(c, phase)
    BY <1>5 DEF Open
  <2> QED BY <1>5, <2>1, GotoFields DEF Open, MayRun, Busy, Exclusion, Phases, Leading
<1>6. ASSUME NEW c \in Callers, Judge(c) \/ Unlink(c) PROVE Exclusion'
  <2>1. PICK phase \in Synchronous \cup {"waiting"} : Goto(c, phase)
    BY <1>6 DEF Judge, Unlink
  <2> QED BY <1>6, <2>1, GotoFields, ExclusionKept DEF Judge, Unlink, Phases, Leading
<1>7. ASSUME NEW c \in Callers, Locked(c) PROVE Exclusion'
  <2>1. CASE UNCHANGED writing
    BY <1>7, <2>1, LockedCases, ExclusionKept
  <2>2. CASE ~ UNCHANGED writing
    BY <1>2, <1>7, <2>2, LockedCases
  <2> QED BY <2>1, <2>2
<1>8. ASSUME NEW c \in Callers, SaveAnswer(c) PROVE Exclusion'
  <2>1. CASE UNCHANGED writing
    BY <1>8, <2>1, SettleFields, ExclusionKept DEF SaveAnswer
  <2>2. CASE Save(ProcessOf[c], call[c].id, call[c].got)
    BY <1>2, <1>8, <2>2, SettleFields, CallFields DEF SaveAnswer, MayRun, TypeOK
  <2> QED BY <1>8, <2>1, <2>2 DEF SaveAnswer
<1>9. ASSUME NEW c \in Callers, Release(c) PROVE Exclusion'
  <2>1. \A d \in Callers : call'[d].phase \in Synchronous => call'[d] = call[d]
    <3>1. Deliver(call[c], call[c].got, call[c].gen).phase \in {"idle", "returned"}
      BY DeliverFields DEF TypeOK, NoCall
    <3> QED BY <1>9, <3>1, ReleaseCases
  <2> QED BY <1>9, <2>1, ExclusionKept DEF Release
<1>10. ASSUME NEW c \in Callers, Resume(c) PROVE Exclusion'
  <2>1. call[c].id \in Ids
    BY CallFields DEF TypeOK
  <2>2. CASE Enter(c, call[c].id) /\ UNCHANGED writing
    BY <1>1, <1>10, <2>1, <2>2 DEF Resume
  <2>3. CASE \E x \in {NoCall, Deliver(call[c], call[c].got, OwnGeneration(call[c]))} :
                call' = [call EXCEPT ![c] = x]
    <3>1. call'[c].phase \notin Synchronous /\ \A d \in Callers \ {c} : call'[d] = call[d]
      BY <2>3, DeliverFields DEF TypeOK, NoCall
    <3>2. CASE UNCHANGED writing
      BY <3>1, <3>2, ExclusionKept
    <3>3. CASE Save(ProcessOf[c], call[c].id, call[c].got)
      BY <1>2, <1>10, <2>1, <3>1, <3>3 DEF Resume
    <3> QED BY <1>10, <3>2, <3>3, <1>1, <2>1 DEF Resume
  <2> QED BY <1>10, <2>2, <2>3 DEF Resume
<1>11. ASSUME NEW c \in Callers, LockTimeout(c) \/ Use(c) PROVE Exclusion'
  <2>1. \A d \in Callers : call'[d].phase \in Synchronous => call'[d] = call[d]
    <3>1. CASE LockTimeout(c)
      <4>1. \A d \in Callers : call'[d] = IF d \in Joined(c) \cup {c} THEN NoCall ELSE call[d]
        BY <3>1 DEF LockTimeout
      <4>2. NoCall.phase \notin Synchronous
        BY DEF NoCall
      <4> QED BY <4>1, <4>2
    <3>2. CASE Use(c)
      BY <3>2 DEF Use, TypeOK, NoCall
    <3> QED BY <1>11, <3>1, <3>2
  <2> QED BY <1>11, <2>1, ExclusionKept DEF LockTimeout, Use
<1>12. ASSUME NEW c \in Callers, NEW rotate \in BOOLEAN, Redeem(c, rotate) PROVE Exclusion'
  BY <1>12, RedeemFields, ExclusionKept DEF Redeem
<1>13. ASSUME NEW c \in Callers, FetchFails(c) PROVE Exclusion'
  BY <1>13, SettleFields, ExclusionKept DEF FetchFails
<1>14. ASSUME NEW q \in Processes, Persist(q) PROVE Exclusion'
  BY <1>14, ExclusionKept DEF Persist, TypeOK
<1>15. ASSUME NEW q \in Processes, Crash(q) PROVE Exclusion'
  <2>1. \A d \in Callers : call'[d].phase \in Synchronous => call'[d] = call[d]
    BY <1>15 DEF Crash, NoCall
  <2> QED BY <1>15, <2>1, ExclusionKept DEF Crash, TypeOK
<1>16. ASSUME NEW q \in Processes, NEW id \in Ids, LogIn(q, id) \/ Delete(q, id) PROVE Exclusion'
  BY <1>3, <1>16 DEF LogIn, Delete, MayRun
<1>17. CASE UNCHANGED <<call, writing>>
  BY <1>17 DEF Exclusion
<1> QED
  BY <1>4, <1>5, <1>6, <1>7, <1>8, <1>9, <1>10, <1>11, <1>12, <1>13, <1>14, <1>15, <1>16, <1>17
  DEF Next, Step, Progress, Expire, LockAges, vars

-----------------------------------------------------------------------------
(* One process: its store implements CodexCredentials, and a returned      *)
(* token is the one its generation names.                                  *)
(*                                                                         *)
(* The inductive invariant follows a grant from the record it is read from *)
(* to the answer that is saved: everything a call holds descends from a    *)
(* stored login (CallSound), what is about to be written renews, replaces  *)
(* or removes one record (WriteSound), and a result belongs to its         *)
(* generation (NameSound).                                                 *)

HIDE RefreshAssumption DEF Numbers


(* A grant that descends from a stored login.                              *)
Sound(g) == g \in 1 .. issued /\ loginOf[g] \in 1 .. logins

StoreSound ==
    /\ logins <= issued
    /\ \A id \in Ids : Present(id) => Sound(store[id].grant)

(* A call's grant is no newer than the login its account has now; its      *)
(* answer is no older than its grant; and while the generation it read     *)
(* before the fetch is live, the account still has that grant.             *)
CallSound(c) ==
    LET x == call[c] IN
    /\ x.phase = "returned" => x.got # NoCredential
    /\ x.phase \notin {"idle", "returned"} =>
        /\ Sound(x.grant)
        /\ x.phase \in Leading /\ Present(x.id) => loginOf[x.grant] <= loginOf[store[x.id].grant]
        /\ x.phase \in {"answered", "settled", "resumed"} /\ x.got # NoCredential =>
                Sound(x.got.grant) /\ loginOf[x.grant] <= loginOf[x.got.grant]
        /\ x.phase \in {"fetch", "answered"} =>
                /\ x.gen <= store[x.id].gen
                /\ x.gen = store[x.id].gen /\ Present(x.id) => store[x.id].grant = x.grant

(* What may be written under an account: a tombstone, a login newer than   *)
(* all, or a credential no older than the one that is there.               *)
Allowed(id, r) ==
    \/ r.grant = 0
    \/ r.grant \in 1 .. issued /\ loginOf[r.grant] \in logins + 1 .. issued
    \/ Present(id) /\ Sound(r.grant) /\ loginOf[store[id].grant] <= loginOf[r.grant]

WriteSound(p) ==
    writing[p] # NoWrite =>
        \E id \in Ids, r \in Record :
            /\ writing[p] = [store EXCEPT ![id] = r]
            /\ r.gen = store[id].gen + 1
            /\ Allowed(id, r)

HoldsIn(s, id) == [access |-> s[id].access, grant |-> s[id].grant]

(* A result belongs to its generation, in the store as it is and as it is  *)
(* about to be written.                                                    *)
NameSound(c) ==
    LET x == call[c]
        w == writing[ProcessOf[c]] IN
    x.got # NoCredential /\ x.phase \in {"settled", "returned"} =>
        /\ x.gen = store[x.id].gen => x.got = HoldsIn(store, x.id)
        /\ w = NoWrite => x.gen <= store[x.id].gen
        /\ w # NoWrite => /\ x.gen <= w[x.id].gen
                          /\ x.gen = w[x.id].gen => x.got = HoldsIn(w, x.id)

StoreInv(p) ==
    /\ StoreSound /\ WriteSound(p)
    /\ \A c \in Callers : CallSound(c) /\ NameSound(c)

-----------------------------------------------------------------------------
(* What every step but the write of the store leaves as it is.             *)

StoreKept ==
    /\ UNCHANGED <<store, logins>>
    /\ issued <= issued'
    /\ \A n \in 1 .. issued : loginOf'[n] = loginOf[n]

LEMMA SoundKept ==
    ASSUME TypeOK, TypeOK', StoreKept, NEW g, Sound(g)
    PROVE  Sound(g)' /\ loginOf'[g] = loginOf[g]
  BY DEF TypeOK, StoreKept, Sound

LEMMA StoreSoundKept ==
    ASSUME TypeOK, TypeOK', StoreKept, StoreSound
    PROVE  StoreSound'
<1>1. \A id \in Ids : Present(id)' => Sound(store[id].grant)'
  BY SoundKept DEF StoreKept, StoreSound, Present
<1> QED BY <1>1 DEF StoreKept, StoreSound, TypeOK

LEMMA CallSoundKept ==
    ASSUME TypeOK, TypeOK', StoreKept, StoreSound, NEW c \in Callers, CallSound(c), call'[c] = call[c]
    PROVE  CallSound(c)'
<1>1. call[c].id \in Ids
  BY CallFields DEF TypeOK
<1>2. Present(call[c].id)' = Present(call[c].id)
  BY DEF StoreKept, Present
<1>3. Present(call[c].id) => loginOf'[store[call[c].id].grant] = loginOf[store[call[c].id].grant]
  BY <1>1, SoundKept DEF StoreSound
<1> QED BY <1>1, <1>2, <1>3, SoundKept DEF CallSound, StoreKept

LEMMA AllowedKept ==
    ASSUME TypeOK, TypeOK', StoreKept, StoreSound, NEW id \in Ids, NEW r, Allowed(id, r)
    PROVE  Allowed(id, r)'
<1>1. CASE r.grant = 0
  BY <1>1 DEF Allowed
<1>2. CASE r.grant \in 1 .. issued /\ loginOf[r.grant] \in logins + 1 .. issued
  BY <1>2 DEF Allowed, StoreKept, TypeOK
<1>3. CASE Present(id) /\ Sound(r.grant) /\ loginOf[store[id].grant] <= loginOf[r.grant]
  <2>1. Sound(r.grant)' /\ loginOf'[r.grant] = loginOf[r.grant]
    BY <1>3, SoundKept
  <2>2. loginOf'[store[id].grant] = loginOf[store[id].grant]
    BY <1>3, SoundKept DEF StoreSound
  <2> QED BY <1>3, <2>1, <2>2 DEF Allowed, StoreKept, Present
<1> QED BY <1>1, <1>2, <1>3 DEF Allowed

LEMMA WriteSoundKept ==
    ASSUME TypeOK, TypeOK', StoreKept, StoreSound, NEW p, WriteSound(p), UNCHANGED writing
    PROVE  WriteSound(p)'
<1> SUFFICES ASSUME writing[p] # NoWrite
             PROVE  \E id \in Ids, r \in Record :
                        writing[p] = [store EXCEPT ![id] = r] /\ r.gen = store[id].gen + 1 /\ Allowed(id, r)'
  BY DEF WriteSound, StoreKept
<1> QED BY AllowedKept DEF WriteSound

LEMMA NameSoundKept ==
    ASSUME UNCHANGED <<store, writing>>, NEW c \in Callers, NameSound(c), call'[c] = call[c]
    PROVE  NameSound(c)'
  BY DEF NameSound, HoldsIn

-----------------------------------------------------------------------------
(* A save.                                                                 *)

LEMMA Saved ==
    ASSUME TypeOK, NEW p \in Processes, NEW id \in Ids, NEW cred \in Credential, Save(p, id, cred)
    PROVE  /\ writing'[p] # NoWrite
           /\ \E r \in Record : /\ writing'[p] = [store EXCEPT ![id] = r]
                                /\ r.gen = store[id].gen + 1 /\ r.grant = cred.grant
           /\ writing'[p][id].gen = store[id].gen + 1
           /\ HoldsIn(writing'[p], id) = cred
           /\ \A other \in Ids \ {id} : writing'[p][other] = store[other]
<1> DEFINE r == [access |-> cred.access, grant |-> cred.grant, gen |-> store[id].gen + 1]
<1>1. r \in Record
  BY DEF TypeOK, Record, Credential
<1>2. writing'[p] = [store EXCEPT ![id] = r]
  BY DEF TypeOK, Save
<1> HIDE DEF r
<1>3. [store EXCEPT ![id] = r] \in [Ids -> Record]
  BY <1>1 DEF TypeOK
<1>4. /\ writing'[p] # NoWrite /\ writing'[p][id] = r
      /\ \A other \in Ids \ {id} : writing'[p][other] = store[other]
  <2>1. writing'[p] # NoWrite
    BY <1>2, <1>3, RefreshAssumption
  <2>2. DOMAIN store = Ids
    BY DEF TypeOK
  <2> QED BY <2>1, <2>2, <1>2
<1>5. r.gen = store[id].gen + 1 /\ r.grant = cred.grant /\ [access |-> r.access, grant |-> r.grant] = cred
  BY DEF r, Credential
<1> QED BY <1>1, <1>2, <1>4, <1>5 DEF HoldsIn

LEMMA SaveIsSound ==
    ASSUME TypeOK, StoreKept, NEW p \in Processes, NEW id \in Ids, NEW cred \in Credential,
           Save(p, id, cred), Allowed(id, cred)'
    PROVE  WriteSound(p)'
<1>1. PICK r \in Record : /\ writing'[p] = [store EXCEPT ![id] = r]
                          /\ r.gen = store[id].gen + 1 /\ r.grant = cred.grant
  BY Saved
<1>2. Allowed(id, r)'
  BY <1>1 DEF Allowed
<1>3. writing'[p] = [store' EXCEPT ![id] = r] /\ r.gen = store'[id].gen + 1
  BY <1>1 DEF StoreKept
<1>4. WriteSound(p)' <=> (writing'[p] # NoWrite =>
        \E i \in Ids, q \in Record :
            writing'[p] = [store' EXCEPT ![i] = q] /\ q.gen = store'[i].gen + 1 /\ Allowed(i, q)')
  BY DEF WriteSound
<1> QED BY <1>2, <1>3, <1>4

LEMMA SaveKeepsNames ==
    ASSUME TypeOK, NEW P, Processes = {P}, NEW id \in Ids, NEW cred \in Credential,
           Save(P, id, cred), writing[P] = NoWrite, UNCHANGED store,
           NEW d \in Callers, NameSound(d), call'[d] = call[d]
    PROVE  NameSound(d)'
<1> DEFINE x == call[d]
<1>0. ProcessOf[d] = P /\ P \in Processes
  BY RefreshAssumption
<1> SUFFICES ASSUME x.got # NoCredential, x.phase \in {"settled", "returned"}
             PROVE  /\ x.gen = store[x.id].gen => x.got = HoldsIn(store, x.id)
                    /\ x.gen <= writing'[P][x.id].gen
                    /\ x.gen = writing'[P][x.id].gen => x.got = HoldsIn(writing'[P], x.id)
  BY <1>0, Saved DEF NameSound, HoldsIn
<1>1. /\ x.gen = store[x.id].gen => x.got = HoldsIn(store, x.id)
      /\ x.gen <= store[x.id].gen
  BY <1>0 DEF NameSound
<1>2. x.id \in Ids /\ x.gen \in Nat
  BY CallFields DEF TypeOK
<1>3. store[x.id].gen \in Nat
  BY <1>2 DEF TypeOK, Record
<1>4. CASE x.id = id
  <2>1. writing'[P][id].gen = store[id].gen + 1
    BY <1>0, Saved
  <2> QED BY <2>1, <1>1, <1>2, <1>3, <1>4
<1>5. CASE x.id # id
  <2>1. writing'[P][x.id] = store[x.id]
    BY <1>0, <1>2, <1>5, Saved
  <2> QED BY <2>1, <1>1, <1>5 DEF HoldsIn
<1> QED BY <1>1, <1>4, <1>5

(* One call moves, and may begin a write that is allowed.                  *)
LEMMA OthersKept ==
    ASSUME TypeOK, TypeOK', StoreKept, NEW P, Processes = {P}, StoreInv(P),
           NEW c \in Callers, \A d \in Callers \ {c} : call'[d] = call[d],
           CallSound(c)', NameSound(c)',
           \/ UNCHANGED writing
           \/ /\ writing[P] = NoWrite
              /\ \E id \in Ids, cred \in Credential : Save(P, id, cred) /\ Allowed(id, cred)'
    PROVE  StoreInv(P)'
<1>0. P \in Processes
  OBVIOUS
<1>1. StoreSound'
  BY StoreSoundKept DEF StoreInv
<1>2. ASSUME NEW d \in Callers PROVE CallSound(d)'
  BY CallSoundKept DEF StoreInv
<1>3. CASE UNCHANGED writing
  <2>1. WriteSound(P)'
    BY <1>3, WriteSoundKept DEF StoreInv
  <2>2. ASSUME NEW d \in Callers PROVE NameSound(d)'
    BY <1>3, NameSoundKept DEF StoreInv, StoreKept
  <2> QED BY <1>1, <1>2, <2>1, <2>2 DEF StoreInv
<1>4. ASSUME writing[P] = NoWrite, NEW id \in Ids, NEW cred \in Credential,
             Save(P, id, cred), Allowed(id, cred)'
      PROVE  StoreInv(P)'
  <2>1. WriteSound(P)'
    BY <1>0, <1>4, SaveIsSound
  <2>2. ASSUME NEW d \in Callers PROVE NameSound(d)'
    BY <1>4, SaveKeepsNames DEF StoreInv, StoreKept
  <2> QED BY <1>1, <1>2, <2>1, <2>2 DEF StoreInv
<1> QED BY <1>3, <1>4

(* Several calls change, and nothing is written.                           *)
LEMMA CallsKept ==
    ASSUME TypeOK, TypeOK', StoreKept, UNCHANGED writing, NEW P, StoreInv(P),
           \A d \in Callers : call'[d] = call[d] \/ (CallSound(d)' /\ NameSound(d)')
    PROVE  StoreInv(P)'
<1>1. StoreSound' /\ WriteSound(P)'
  BY StoreSoundKept, WriteSoundKept DEF StoreInv
<1>2. ASSUME NEW d \in Callers PROVE CallSound(d)' /\ NameSound(d)'
  BY CallSoundKept, NameSoundKept DEF StoreInv, StoreKept
<1> QED BY <1>1, <1>2 DEF StoreInv

-----------------------------------------------------------------------------
(* The steps of a call.                                                    *)

LEMMA EnterIsSound ==
    ASSUME TypeOK, TypeOK', NEW P, Processes = {P}, StoreInv(P), NEW c \in Callers, NEW id \in Ids,
           Enter(c, id), writing[P] = NoWrite,
           UNCHANGED <<store, writing, issued, logins, loginOf>>
    PROVE  StoreInv(P)'
<1>0. ProcessOf[c] = P
  BY RefreshAssumption
<1>1. StoreKept
  BY DEF StoreKept, TypeOK
<1>2. Sound(store[id].grant)'
  BY <1>1, SoundKept DEF Enter, StoreInv, StoreSound
<1>3. store[id].gen \in Nat
  BY DEF TypeOK, Record
<1>4. loginOf[store[id].grant] \in Nat
  BY EnterCases, RefreshAssumption DEF TypeOK, Numbers
<1>5. /\ call'[c].id = id /\ call'[c].grant = store[id].grant
      /\ \A d \in Callers \ {c} : call'[d] = call[d]
      /\ store' = store /\ writing' = writing /\ loginOf' = loginOf
  BY EnterCases
<1>6. CASE call'[c].phase = "returned" /\ call'[c].gen = store[id].gen /\ call'[c].got = Holds(id)
  <2>1. CallSound(c)'
    <3>1. Holds(id) # NoCredential
      BY DEF Enter, Present, Holds, NoCredential
    <3> QED BY <1>6, <3>1 DEF CallSound
  <2>2. NameSound(c)'
    BY <1>0, <1>3, <1>5, <1>6 DEF NameSound, Holds, HoldsIn
  <2> QED BY <1>1, <1>5, <2>1, <2>2, OthersKept
<1>7. CASE call'[c].phase \in {"joined", "opening"}
  <2>1. CallSound(c)'
    BY <1>2, <1>4, <1>5, <1>7 DEF CallSound
  <2>2. NameSound(c)'
    BY <1>7 DEF NameSound
  <2> QED BY <1>1, <1>5, <2>1, <2>2, OthersKept
<1> QED BY <1>6, <1>7, EnterCases

LEMMA GotoIsSound ==
    ASSUME TypeOK, TypeOK', NEW P, Processes = {P}, StoreInv(P), NEW c \in Callers,
           NEW phase \in Synchronous \cup {"waiting"}, Goto(c, phase),
           call[c].phase \in Synchronous \cup {"waiting"},
           UNCHANGED <<store, writing, issued, logins, loginOf>>
    PROVE  StoreInv(P)'
<1>1. StoreKept
  BY DEF StoreKept, TypeOK
<1>2. /\ call'[c].phase = phase /\ call'[c].id = call[c].id /\ call'[c].grant = call[c].grant
      /\ \A d \in Callers \ {c} : call'[d] = call[d]
  BY GotoFields DEF Phases, Leading
<1>3. CallSound(c)'
  BY <1>2 DEF StoreInv, CallSound, Sound, Present, Leading, Synchronous
<1>4. NameSound(c)'
  BY <1>2 DEF NameSound, Synchronous
<1> QED BY <1>1, <1>2, <1>3, <1>4, OthersKept

(* A call gives up with an error.                                          *)
LEMMA FailIsSound ==
    ASSUME TypeOK, TypeOK', NEW P, Processes = {P}, StoreInv(P), NEW c \in Callers,
           call[c].phase \in Leading, call'[c].phase = "settled", call'[c].got = NoCredential,
           call'[c].id = call[c].id, call'[c].grant = call[c].grant,
           \A d \in Callers \ {c} : call'[d] = call[d],
           UNCHANGED <<store, writing, issued, logins, loginOf>>
    PROVE  StoreInv(P)'
<1>1. StoreKept
  BY DEF StoreKept, TypeOK
<1>2. CallSound(c)'
  BY DEF StoreInv, CallSound, Sound, Present, Leading, Synchronous
<1>3. NameSound(c)'
  BY DEF NameSound
<1> QED BY <1>1, <1>2, <1>3, OthersKept

LEMMA LockedIsSound ==
    ASSUME TypeOK, TypeOK', Exclusion, NEW P, Processes = {P}, StoreInv(P), NEW c \in Callers, Locked(c)
    PROVE  StoreInv(P)'
<1> DEFINE x == call[c]
<1> PICK id \in Ids, g \in {x.grant} : id = x.id
  BY CallFields DEF TypeOK
<1>0. ProcessOf[c] = P /\ P \in Processes
  BY RefreshAssumption
<1>1. /\ x.phase = "creating" /\ id \in Ids
      /\ store' = store /\ loginOf' = loginOf /\ issued' = issued /\ logins' = logins
      /\ \A d \in Callers \ {c} : call'[d] = call[d]
      /\ call'[c].id = id /\ call'[c].grant = g
  BY LockedCases
<1>2. StoreKept
  BY <1>1 DEF StoreKept, TypeOK
<1>3. x.phase \in Leading /\ writing[P] = NoWrite
  BY <1>0, <1>1 DEF Exclusion, Leading, Synchronous
<1>4. Sound(g) /\ Sound(g)'
  BY <1>1, <1>2, SoundKept DEF StoreInv, CallSound
<1>5. /\ \A i \in Ids : store[i].gen \in Nat /\ Holds(i) \in Credential
      /\ Present(id) => Sound(store[id].grant) /\ loginOf[g] <= loginOf[store[id].grant]
      /\ loginOf[g] \in Nat
  <2>1. \A i \in Ids : store[i].gen \in Nat /\ Holds(i) \in Credential
    BY DEF TypeOK, Record, Holds, Credential
  <2>2. loginOf[g] \in Nat
    BY <1>4, RefreshAssumption DEF Sound
  <2> QED BY <1>1, <1>3, <2>1, <2>2 DEF StoreInv, StoreSound, CallSound
<1>6. CASE call'[c].phase = "settled" /\ call'[c].got = NoCredential /\ UNCHANGED writing
  BY <1>1, <1>3, <1>6, FailIsSound
<1>7. CASE /\ call'[c].phase = "settled" /\ Fresh(id) /\ UNCHANGED writing
           /\ call'[c].got = Holds(id) /\ call'[c].gen = store[id].gen
  <2>1. CallSound(c)'
    <3>1. Sound(store[id].grant)' /\ loginOf[g] <= loginOf[store[id].grant]
      BY <1>1, <1>2, <1>5, <1>7, SoundKept DEF Fresh
    <3>2. call'[c].got.grant = store[id].grant
      BY <1>7 DEF Holds
    <3> QED BY <1>1, <1>4, <1>7, <3>1, <3>2 DEF CallSound
  <2>2. NameSound(c)'
    BY <1>0, <1>1, <1>3, <1>5, <1>7 DEF NameSound, Holds, HoldsIn
  <2> QED BY <1>1, <1>2, <1>7, <2>1, <2>2, OthersKept
<1>8. ASSUME call'[c].phase = "settled", store[id].grant = g,
             NEW cred \in Credential, cred.grant = g, Save(P, id, cred),
             call'[c].got = cred, call'[c].gen = store[id].gen + 1
      PROVE  StoreInv(P)'
  <2>1. Allowed(id, cred)'
    BY <1>1, <1>4, <1>5, <1>8 DEF Allowed, Present, Sound
  <2>2. CallSound(c)'
    BY <1>1, <1>4, <1>5, <1>8 DEF CallSound
  <2>3. NameSound(c)'
    <3>1. /\ writing'[P] # NoWrite /\ writing'[P][id].gen = store[id].gen + 1
          /\ HoldsIn(writing'[P], id) = cred
      BY <1>0, <1>1, <1>8, Saved
    <3>2. call'[c].gen # store'[id].gen /\ call'[c].gen <= writing'[P][id].gen
      BY <3>1, <1>1, <1>5, <1>8
    <3> QED BY <1>0, <1>1, <1>8, <3>1, <3>2 DEF NameSound, HoldsIn
  <2> QED BY <1>1, <1>2, <1>3, <1>8, <2>1, <2>2, <2>3, OthersKept
<1>9. CASE /\ call'[c].phase = "fetch" /\ store[id].grant = g /\ UNCHANGED writing
           /\ call'[c].gen = store[id].gen
  <2>1. CallSound(c)'
    BY <1>1, <1>4, <1>5, <1>9 DEF CallSound
  <2>2. NameSound(c)'
    BY <1>9 DEF NameSound
  <2> QED BY <1>1, <1>2, <1>9, <2>1, <2>2, OthersKept
<1>10. ASSUME NEW other \in Ids, store[other].grant = g
       PROVE  Holds(other) \in Credential /\ Holds(other).grant = g
  BY <1>5, <1>10 DEF Holds
<1> QED BY <1>0, <1>6, <1>7, <1>8, <1>9, <1>10, LockedCases

LEMMA SaveAnswerIsSound ==
    ASSUME TypeOK, TypeOK', NEW P, Processes = {P}, StoreInv(P), NEW c \in Callers, SaveAnswer(c)
    PROVE  StoreInv(P)'
<1> DEFINE x == call[c]
<1> PICK id \in Ids, cred \in Credential, g \in {x.grant} : id = x.id /\ cred = x.got
  BY CallFields DEF TypeOK
<1>0. ProcessOf[c] = P /\ P \in Processes
  BY RefreshAssumption
<1>1. /\ x.phase = "answered" /\ x.phase \in Leading /\ writing[P] = NoWrite
      /\ store' = store /\ loginOf' = loginOf /\ issued' = issued /\ logins' = logins
  BY <1>0 DEF SaveAnswer, MayRun, Busy, Leading, server
<1>2. StoreKept
  BY <1>1 DEF StoreKept, TypeOK
<1>3. id \in Ids /\ cred \in Credential /\ x.gen \in Nat
  BY CallFields DEF TypeOK
<1>4. CASE Settle(c, NoCredential, 0) /\ UNCHANGED writing
  BY <1>1, <1>4, SettleFields, FailIsSound
<1>5. CASE MaySave(id, x.gen) /\ Save(ProcessOf[c], id, cred) /\ Settle(c, cred, x.gen + 1)
  <2>1. /\ call'[c].phase = "settled" /\ call'[c].id = id /\ call'[c].grant = g
        /\ call'[c].got = cred /\ call'[c].gen = x.gen + 1
        /\ \A d \in Callers \ {c} : call'[d] = call[d]
    BY <1>5, SettleFields
  <2>2. Present(id) /\ store[id].gen = x.gen /\ store[id].grant = g /\ Sound(g)
    BY <1>1, <1>5 DEF MaySave, StoreInv, CallSound
  <2>3. cred # NoCredential => Sound(cred.grant) /\ loginOf[g] <= loginOf[cred.grant]
    BY <1>1 DEF StoreInv, CallSound
  <2>4. cred = NoCredential => cred.grant = 0
    BY DEF NoCredential
  <2>5. Allowed(id, cred)'
    BY <1>1, <2>2, <2>3, <2>4 DEF Allowed, Present, Sound
  <2>6. CallSound(c)'
    BY <1>1, <2>1, <2>2, <2>3, RefreshAssumption DEF CallSound, Sound, TypeOK, Numbers
  <2>7. NameSound(c)'
    <3>1. /\ writing'[P] # NoWrite /\ writing'[P][id].gen = x.gen + 1
          /\ HoldsIn(writing'[P], id) = cred
      BY <1>0, <1>3, <1>5, <2>2, Saved
    <3>2. call'[c].gen # store'[id].gen /\ call'[c].gen <= writing'[P][id].gen
      BY <3>1, <1>1, <1>3, <2>1, <2>2
    <3> QED BY <1>0, <2>1, <3>1, <3>2 DEF NameSound, HoldsIn
  <2> QED BY <1>0, <1>1, <1>2, <1>3, <1>5, <2>1, <2>5, <2>6, <2>7, OthersKept
<1> QED BY <1>4, <1>5 DEF SaveAnswer

LEMMA ReleaseIsSound ==
    ASSUME TypeOK, TypeOK', NEW P, Processes = {P}, StoreInv(P), NEW c \in Callers, Release(c)
    PROVE  StoreInv(P)'
<1>0. /\ call[c].phase = "settled"
      /\ store' = store /\ loginOf' = loginOf /\ issued' = issued /\ logins' = logins /\ writing' = writing
  BY DEF Release, server
<1>1. StoreKept
  BY <1>0 DEF StoreKept, TypeOK
<1>2. ASSUME NEW d \in Callers, call'[d] # call[d] PROVE CallSound(d)' /\ NameSound(d)'
  <2>1. CASE d = c /\ call'[d] = NoCall
    BY <2>1 DEF NoCall, CallSound, NameSound
  <2>2. CASE /\ d = c /\ call'[d].phase = "returned" /\ call'[d].id = call[c].id
             /\ call'[d].got = call[c].got /\ call[c].got # NoCredential /\ call'[d].gen = call[c].gen
    <3>1. CallSound(d)'
      BY <2>2 DEF CallSound
    <3>2. NameSound(d)'
      BY <1>0, <2>2 DEF StoreInv, NameSound, HoldsIn
    <3> QED BY <3>1, <3>2
  <2>3. CASE /\ call[d].phase = "joined" /\ call[d].grant = call[c].grant
             /\ call'[d].phase = "resumed" /\ call'[d].grant = call[d].grant
             /\ call'[d].got = call[c].got
    <3>1. CallSound(d)'
      BY <1>0, <2>3 DEF StoreInv, CallSound, Sound, Leading, Synchronous
    <3>2. NameSound(d)'
      BY <2>3 DEF NameSound
    <3> QED BY <3>1, <3>2
  <2> QED BY <1>2, <2>1, <2>2, <2>3, ReleaseCases, DeliverFields DEF TypeOK
<1> QED BY <1>0, <1>1, <1>2, CallsKept

LEMMA ResumeIsSound ==
    ASSUME TypeOK, TypeOK', NEW P, Processes = {P}, StoreInv(P), NEW c \in Callers, Resume(c)
    PROVE  StoreInv(P)'
<1> DEFINE x == call[c]
<1> PICK id \in Ids, cred \in Credential, g \in {x.grant} : id = x.id /\ cred = x.got
  BY CallFields DEF TypeOK
<1>0. ProcessOf[c] = P /\ P \in Processes
  BY RefreshAssumption
<1>1. /\ x.phase = "resumed" /\ writing[P] = NoWrite
      /\ store' = store /\ loginOf' = loginOf /\ issued' = issued /\ logins' = logins
  BY <1>0 DEF Resume, Busy, server
<1>2. StoreKept
  BY <1>1 DEF StoreKept, TypeOK
<1>3. CASE call' = [call EXCEPT ![c] = NoCall] /\ UNCHANGED writing
  <2>1. call'[c] = NoCall /\ \A d \in Callers \ {c} : call'[d] = call[d]
    BY <1>3 DEF TypeOK
  <2>2. CallSound(c)' /\ NameSound(c)'
    BY <2>1 DEF NoCall, CallSound, NameSound
  <2> QED BY <1>2, <1>3, <2>1, <2>2, OthersKept
<1>4. CASE Enter(c, id) /\ UNCHANGED writing
  BY <1>1, <1>4, EnterIsSound
<1>5. CASE /\ cred # NoCredential /\ store[id].grant = g /\ Save(P, id, cred)
           /\ call' = [call EXCEPT ![c] = Deliver(x, cred, OwnGeneration(x))]
  <2>1. /\ call'[c].phase = "returned" /\ call'[c].id = id
        /\ call'[c].got = cred /\ call'[c].gen = store[id].gen + 1
        /\ \A d \in Callers \ {c} : call'[d] = call[d]
    BY <1>5, DeliverFields DEF TypeOK, OwnGeneration
  <2>2. /\ Sound(g) /\ Sound(cred.grant) /\ loginOf[g] <= loginOf[cred.grant]
        /\ store[id].gen \in Nat
    BY <1>1, <1>5 DEF StoreInv, CallSound, TypeOK, Record
  <2>3. Allowed(id, cred)'
    BY <1>1, <1>5, <2>2 DEF Allowed, Present, Sound
  <2>4. CallSound(c)'
    BY <1>5, <2>1 DEF CallSound
  <2>5. NameSound(c)'
    <3>1. /\ writing'[P] # NoWrite /\ writing'[P][id].gen = store[id].gen + 1
          /\ HoldsIn(writing'[P], id) = cred
      BY <1>0, <1>5, Saved
    <3>2. call'[c].gen # store'[id].gen /\ call'[c].gen <= writing'[P][id].gen
      BY <1>1, <2>1, <2>2, <3>1
    <3> QED BY <1>0, <2>1, <3>1, <3>2 DEF NameSound, HoldsIn
  <2> QED BY <1>1, <1>2, <1>5, <2>1, <2>3, <2>4, <2>5, OthersKept
<1> QED BY <1>0, <1>3, <1>4, <1>5 DEF Resume

LEMMA RedeemIsSound ==
    ASSUME TypeOK, TypeOK', NEW P, Processes = {P}, StoreInv(P), NEW c \in Callers,
           NEW rotate \in BOOLEAN, Redeem(c, rotate)
    PROVE  StoreInv(P)'
<1> DEFINE x == call[c]
<1> PICK id \in Ids, g \in {x.grant} : id = x.id
  BY CallFields DEF TypeOK
<1> PICK n : n = issued + 1
  OBVIOUS
<1>1. /\ x.phase = "fetch" /\ x.phase \in Leading /\ n \in Numbers /\ issued' = n
      /\ store' = store /\ logins' = logins /\ writing' = writing
      /\ loginOf' = [loginOf EXCEPT ![n] = loginOf[g]]
  BY RefreshAssumption DEF Redeem, Leading, TypeOK, Numbers
<1>2. StoreKept
  BY <1>1, RefreshAssumption DEF StoreKept, TypeOK, Numbers
<1>3. /\ Sound(g)
      /\ Present(id) => loginOf[g] <= loginOf[store[id].grant]
      /\ x.gen <= store[id].gen
      /\ x.gen = store[id].gen /\ Present(id) => store[id].grant = g
  BY <1>1 DEF StoreInv, CallSound
<1>4. Sound(g)' /\ loginOf'[g] = loginOf[g] /\ Sound(n)' /\ loginOf'[n] = loginOf[g]
      /\ loginOf[g] \in Nat
  <2>1. Sound(g)' /\ loginOf'[g] = loginOf[g]
    BY <1>2, <1>3, SoundKept
  <2>2. n \in 1 .. issued' /\ loginOf'[n] = loginOf[g]
    BY <1>1, RefreshAssumption DEF TypeOK, Numbers
  <2> QED BY <1>1, <1>3, <2>1, <2>2, RefreshAssumption DEF Sound
<1>5. /\ call'[c].phase = "answered" /\ call'[c].id = id /\ call'[c].grant = g
      /\ call'[c].got.grant \in {g, n} /\ call'[c].gen = x.gen
      /\ \A d \in Callers \ {c} : call'[d] = call[d]
  BY <1>1, RedeemFields DEF Renewed
<1>6. CallSound(c)'
  <2>1. Present(id) => loginOf'[store[id].grant] = loginOf[store[id].grant]
    BY <1>2, SoundKept DEF StoreInv, StoreSound
  <2>2. PICK r : r = call'[c].got.grant
    OBVIOUS
  <2>3. Sound(r)' /\ loginOf'[g] <= loginOf'[r]
    BY <1>4, <1>5, <2>2
  <2> QED BY <1>1, <1>3, <1>4, <1>5, <2>1, <2>2, <2>3 DEF CallSound, Present
<1>7. NameSound(c)'
  BY <1>5 DEF NameSound
<1> QED BY <1>1, <1>2, <1>5, <1>6, <1>7, OthersKept

-----------------------------------------------------------------------------
(* Every step.                                                             *)

Quiet(P) == [Next]_vars /\ ~ Persist(P)

LEMMA QuietKeepsStore ==
    ASSUME TypeOK, NEW P, Processes = {P}, Quiet(P)
    PROVE  StoreKept
<1> USE RefreshAssumption DEF Numbers
<1>1. CASE UNCHANGED <<store, logins, issued, loginOf>>
  BY <1>1 DEF StoreKept, TypeOK
<1>2. CASE /\ UNCHANGED <<store, logins>> /\ issued' = issued + 1
           /\ \E m : loginOf' = [loginOf EXCEPT ![issued + 1] = m]
  BY <1>2 DEF StoreKept, TypeOK
<1>3. ASSUME NEW c \in Callers, Step(c) PROVE StoreKept
  <2>1. ASSUME NEW rotate \in BOOLEAN, Redeem(c, rotate) PROVE StoreKept
    BY <1>2, <2>1 DEF Redeem
  <2>2. CASE Progress(c)
    BY <1>1, <2>2 DEF Progress, Open, Judge, Unlink, Locked, SaveAnswer, Release, Resume, Use, server
  <2>3. CASE LockTimeout(c) \/ FetchFails(c) \/ \E id \in Ids : Start(c, id)
    BY <1>1, <2>3 DEF LockTimeout, FetchFails, Start, server
  <2> QED BY <1>3, <2>1, <2>2, <2>3 DEF Step
<1>4. ASSUME NEW n \in Numbers, Expire(n) \/ LockAges(n) PROVE StoreKept
  BY <1>1, <1>4 DEF Expire, LockAges, server
<1>5. ASSUME NEW id \in Ids, LogIn(P, id) PROVE StoreKept
  BY <1>2, <1>5 DEF LogIn
<1>6. ASSUME NEW id \in Ids, Delete(P, id) PROVE StoreKept
  BY <1>1, <1>6 DEF Delete, server
<1>7. CASE Crash(P)
  BY <1>1, <1>7 DEF Crash
<1>8. CASE UNCHANGED vars
  BY <1>1, <1>8 DEF vars
<1> QED BY <1>3, <1>4, <1>5, <1>6, <1>7, <1>8 DEF Quiet, Next

LEMMA EditIsSound ==
    ASSUME TypeOK, TypeOK', StoreKept, NEW P, Processes = {P}, StoreInv(P), UNCHANGED call, MayRun(P),
           NEW id \in Ids, NEW cred \in Credential, Save(P, id, cred), Allowed(id, cred)'
    PROVE  StoreInv(P)'
<1>1. P \in Processes /\ writing[P] = NoWrite /\ store' = store
  BY DEF MayRun, Busy, StoreKept
<1>2. StoreSound' /\ WriteSound(P)'
  BY <1>1, StoreSoundKept, SaveIsSound DEF StoreInv
<1>3. ASSUME NEW d \in Callers PROVE CallSound(d)' /\ NameSound(d)'
  BY <1>1, CallSoundKept, SaveKeepsNames DEF StoreInv
<1> QED BY <1>2, <1>3 DEF StoreInv

LEMMA QuietIsSound ==
    ASSUME TypeOK, TypeOK', Exclusion, NEW P, Processes = {P}, StoreInv(P), Quiet(P)
    PROVE  StoreInv(P)'
<1>0. StoreKept /\ P \in Processes /\ \A c \in Callers : ProcessOf[c] = P
  BY QuietKeepsStore, RefreshAssumption
<1>1. ASSUME NEW c \in Callers, NEW id \in Ids, Start(c, id) PROVE StoreInv(P)'
  BY <1>0, <1>1, EnterIsSound DEF Start, MayRun, Busy, server
<1>2. ASSUME NEW c \in Callers, Open(c) \/ Judge(c) \/ Unlink(c) PROVE StoreInv(P)'
  <2>1. PICK phase \in Synchronous \cup {"waiting"} : Goto(c, phase)
    BY <1>2 DEF Open, Judge, Unlink, Synchronous
  <2>2. call[c].phase \in Synchronous \cup {"waiting"}
    BY <1>2 DEF Open, Judge, Unlink, Synchronous
  <2> QED BY <1>2, <2>1, <2>2, GotoIsSound DEF Open, Judge, Unlink, server
<1>3. ASSUME NEW c \in Callers, LockTimeout(c) PROVE StoreInv(P)'
  <2>1. ASSUME NEW d \in Callers PROVE call'[d] = call[d] \/ (CallSound(d)' /\ NameSound(d)')
    BY <1>3 DEF LockTimeout, NoCall, CallSound, NameSound
  <2> QED BY <1>0, <1>3, <2>1, CallsKept DEF LockTimeout
<1>4. ASSUME NEW c \in Callers, Use(c) PROVE StoreInv(P)'
  <2>1. ASSUME NEW d \in Callers PROVE call'[d] = call[d] \/ (CallSound(d)' /\ NameSound(d)')
    BY <1>4 DEF Use, NoCall, CallSound, NameSound, TypeOK
  <2> QED BY <1>0, <1>4, <2>1, CallsKept DEF Use
<1>5. ASSUME NEW c \in Callers, FetchFails(c) PROVE StoreInv(P)'
  BY <1>5, SettleFields, FailIsSound DEF FetchFails, Leading
<1>6. CASE Crash(P)
  <2>1. writing'[P] = NoWrite /\ \A d \in Callers : call'[d] = NoCall
    BY <1>0, <1>6 DEF Crash, TypeOK
  <2>2. ASSUME NEW d \in Callers PROVE CallSound(d)' /\ NameSound(d)'
    <3>1. call'[d] = NoCall
      BY <2>1
    <3>2. call'[d].phase = "idle" /\ call'[d].got = NoCredential
      BY <3>1 DEF NoCall
    <3> QED BY <3>2 DEF CallSound, NameSound
  <2>3. WriteSound(P)'
    BY <2>1 DEF WriteSound
  <2> QED BY <1>0, <2>2, <2>3, StoreSoundKept DEF StoreInv
<1>7. ASSUME NEW n \in Numbers, Expire(n) \/ LockAges(n) PROVE StoreInv(P)'
  BY <1>0, <1>7, CallsKept DEF Expire, LockAges
<1>8. ASSUME NEW id \in Ids, LogIn(P, id) PROVE StoreInv(P)'
  <2> PICK n : n = issued + 1
    OBVIOUS
  <2>1. n \in 1 .. issued' /\ n \in Numbers /\ loginOf'[n] = n /\ logins' < n /\ issued' = n
    BY <1>0, <1>8, RefreshAssumption DEF LogIn, StoreInv, StoreSound, TypeOK, Numbers, StoreKept
  <2>2. PICK cred : cred = [access |-> n, grant |-> n]
    OBVIOUS
  <2>3. cred \in Credential /\ Allowed(id, cred)'
    BY <2>1, <2>2, RefreshAssumption DEF Credential, Numbers, Allowed, TypeOK
  <2> QED BY <1>0, <1>8, <2>2, <2>3, EditIsSound DEF LogIn
<1>9. ASSUME NEW id \in Ids, Delete(P, id) PROVE StoreInv(P)'
  <2>1. NoCredential \in Credential /\ Allowed(id, NoCredential)'
    BY RefreshAssumption DEF NoCredential, Credential, Allowed
  <2> QED BY <1>0, <1>9, <2>1, EditIsSound DEF Delete
<1>10. CASE UNCHANGED vars
  BY <1>0, <1>10, CallsKept DEF vars
<1> QED
  BY <1>0, <1>1, <1>2, <1>3, <1>4, <1>5, <1>6, <1>7, <1>8, <1>9, <1>10,
     LockedIsSound, SaveAnswerIsSound, ReleaseIsSound, ResumeIsSound, RedeemIsSound
  DEF Quiet, Next, Step, Progress

(* The write of the store file.                                            *)
Persists(P, id, r) ==
    /\ store' = [store EXCEPT ![id] = r]
    /\ writing[P] = store' /\ writing[P] # NoWrite /\ writing'[P] = NoWrite
    /\ r.gen = store[id].gen + 1
    /\ UNCHANGED <<call, issued, loginOf>>
    /\ logins <= logins' /\ logins' <= issued
    /\ \/ r.grant = 0 /\ logins' = logins
       \/ /\ r.grant \in 1 .. issued /\ loginOf[r.grant] > logins
          /\ logins' = loginOf[r.grant]
       \/ /\ Present(id) /\ Sound(r.grant) /\ loginOf[store[id].grant] <= loginOf[r.grant]
          /\ logins' = logins

LEMMA Persisted ==
    ASSUME TypeOK, TypeOK', NEW P, Processes = {P}, StoreInv(P), Persist(P)
    PROVE  \E id \in Ids, r \in Record : Persists(P, id, r)
<1> USE RefreshAssumption DEF Numbers
<1>1. PICK id \in Ids, r \in Record :
        writing[P] = [store EXCEPT ![id] = r] /\ r.gen = store[id].gen + 1 /\ Allowed(id, r)
  BY DEF StoreInv, WriteSound, Persist
<1> SUFFICES Persists(P, id, r)
  OBVIOUS
<1>2. /\ store' = [store EXCEPT ![id] = r]
      /\ writing[P] = store' /\ writing[P] # NoWrite /\ writing'[P] = NoWrite
      /\ UNCHANGED <<call, issued, loginOf>>
  BY <1>1 DEF Persist, TypeOK, server
<1>3. store'[id] = r /\ \A i \in Ids \ {id} : store'[i] = store[i]
  BY <1>2 DEF TypeOK
<1>4. \A i \in Ids \ {id} : store'[i].grant # 0 => loginOf[store'[i].grant] \in 1 .. logins
  BY <1>3 DEF StoreInv, StoreSound, Present, Sound
<1>5. /\ logins' >= logins
      /\ r.grant # 0 => loginOf[r.grant] <= logins'
      /\ logins' = logins \/ \E i \in Ids : store'[i].grant # 0 /\ logins' = loginOf[store'[i].grant]
  BY <1>2, <1>3 DEF Persist
<1>6. logins \in Nat /\ logins' \in Nat /\ issued \in Nat /\ logins <= issued
  BY DEF TypeOK, StoreInv, StoreSound
<1>7. CASE r.grant = 0
  <2>1. logins' = logins
    BY <1>3, <1>4, <1>5, <1>6, <1>7
  <2> QED BY <1>1, <1>2, <1>6, <1>7, <2>1 DEF Persists
<1>8. CASE r.grant \in 1 .. issued /\ loginOf[r.grant] \in logins + 1 .. issued
  <2>1. r.grant # 0 /\ loginOf[r.grant] > logins /\ loginOf[r.grant] <= issued
    BY <1>6, <1>8
  <2>2. logins' = loginOf[r.grant]
    BY <1>3, <1>4, <1>5, <1>6, <1>8, <2>1
  <2> QED BY <1>1, <1>2, <1>6, <1>8, <2>1, <2>2 DEF Persists
<1>9. CASE Present(id) /\ Sound(r.grant) /\ loginOf[store[id].grant] <= loginOf[r.grant]
  <2>1. logins' = logins
    BY <1>3, <1>4, <1>5, <1>6, <1>9 DEF Sound
  <2> QED BY <1>1, <1>2, <1>6, <1>9, <2>1 DEF Persists
<1> QED BY <1>1, <1>7, <1>8, <1>9 DEF Allowed

LEMMA PersistIsSound ==
    ASSUME TypeOK, TypeOK', NEW P, Processes = {P}, StoreInv(P), Persist(P)
    PROVE  StoreInv(P)'
<1> USE RefreshAssumption DEF Numbers
<1>0. P \in Processes /\ \A c \in Callers : ProcessOf[c] = P
  OBVIOUS
<1>1. PICK id \in Ids, r \in Record : Persists(P, id, r)
  BY Persisted
<1>2. store'[id] = r /\ \A i \in Ids \ {id} : store'[i] = store[i]
  BY <1>1 DEF TypeOK, Persists
<1>3. /\ logins \in Nat /\ logins' \in Nat /\ issued \in Nat /\ issued <= MaxIssued
      /\ \A i \in Ids : store[i].gen \in Nat
  BY DEF TypeOK, Record
<1>4. ASSUME NEW g, Sound(g)
      PROVE  /\ Sound(g)' /\ loginOf'[g] = loginOf[g]
             /\ loginOf[g] \in Nat /\ loginOf[g] <= logins
  BY <1>1, <1>3, <1>4 DEF Sound, Persists
<1>5. StoreSound'
  <2>1. ASSUME NEW i \in Ids, store'[i].grant # 0 PROVE Sound(store[i].grant)'
    <3>1. PICK g : g = store'[i].grant
      OBVIOUS
    <3>2. CASE i # id
      <4>1. Sound(g)
        BY <1>2, <2>1, <3>1, <3>2 DEF StoreInv, StoreSound, Present
      <4> QED BY <1>4, <3>1, <4>1
    <3>3. CASE i = id
      <4>1. g = r.grant /\ g # 0
        BY <1>2, <2>1, <3>1, <3>3
      <4>2. CASE Sound(g)
        BY <1>4, <3>1, <4>2
      <4>3. CASE g \in 1 .. issued /\ loginOf[g] > logins /\ logins' = loginOf[g]
        <5>1. Sound(g)'
          BY <1>1, <1>3, <4>3 DEF Sound, Persists
        <5> QED BY <3>1, <5>1
      <4> QED BY <1>1, <4>1, <4>2, <4>3 DEF Persists
    <3> QED BY <3>2, <3>3
  <2> QED BY <1>1, <2>1 DEF StoreSound, Present, Persists
<1>6. WriteSound(P)'
  BY <1>1 DEF WriteSound, Persists
<1>7. ASSUME NEW c \in Callers PROVE CallSound(c)'
  <2> DEFINE x == call[c]
  <2>0. call' = call /\ loginOf' = loginOf
    BY <1>1 DEF Persists
  <2> SUFFICES ASSUME x.phase \notin {"idle", "returned"}
               PROVE  CallSound(c)'
    BY <2>0 DEF StoreInv, CallSound
  <2>1. PICK g, a : g = x.grant /\ a = x.got.grant
    OBVIOUS
  <2>2. x.id \in Ids /\ x.gen \in Nat
    BY CallFields DEF TypeOK
  <2>3. Sound(g) /\ Sound(g)' /\ loginOf[g] \in Nat /\ loginOf[g] <= logins
    BY <1>4, <2>1 DEF StoreInv, CallSound
  <2>4. x.phase \in {"answered", "settled", "resumed"} /\ x.got # NoCredential =>
            Sound(a)' /\ loginOf[g] <= loginOf[a]
    BY <1>4, <2>1 DEF StoreInv, CallSound
  <2>5. x.phase \in Leading /\ store'[x.id].grant # 0 => loginOf[g] <= loginOf[store'[x.id].grant]
    <3>1. CASE x.id # id
      <4>1. x.phase \in Leading /\ store[x.id].grant # 0 => loginOf[g] <= loginOf[store[x.id].grant]
        BY <2>1 DEF StoreInv, CallSound, Present
      <4> QED BY <1>2, <2>2, <3>1, <4>1
    <3>2. CASE x.id = id /\ r.grant # 0
      <4>1. CASE loginOf[r.grant] > logins /\ logins' = loginOf[r.grant]
        BY <1>2, <1>3, <2>3, <3>2, <4>1
      <4>2. CASE Present(id) /\ Sound(r.grant) /\ loginOf[store[id].grant] <= loginOf[r.grant]
        <5>1. /\ x.phase \in Leading => loginOf[g] <= loginOf[store[id].grant]
              /\ loginOf[store[id].grant] \in Nat /\ loginOf[r.grant] \in Nat
          BY <1>4, <2>1, <3>2, <4>2 DEF StoreInv, StoreSound, CallSound
        <5> QED BY <1>2, <2>3, <3>2, <4>2, <5>1
      <4> QED BY <1>1, <3>2, <4>1, <4>2 DEF Persists
    <3> QED BY <1>2, <3>1, <3>2
  <2>6. x.phase \in {"fetch", "answered"} =>
            /\ x.gen <= store'[x.id].gen
            /\ x.gen = store'[x.id].gen /\ store'[x.id].grant # 0 => store'[x.id].grant = g
    <3>1. x.phase \in {"fetch", "answered"} =>
            /\ x.gen <= store[x.id].gen
            /\ x.gen = store[x.id].gen /\ store[x.id].grant # 0 => store[x.id].grant = g
      BY <2>1 DEF StoreInv, CallSound, Present
    <3>2. CASE x.id # id
      BY <1>2, <2>2, <3>1, <3>2
    <3>3. CASE x.id = id
      <4>1. store'[id].gen = store[id].gen + 1
        BY <1>1, <1>2 DEF Persists
      <4> QED BY <1>3, <2>2, <3>1, <3>3, <4>1
    <3> QED BY <3>2, <3>3
  <2> QED BY <2>0, <2>1, <2>3, <2>4, <2>5, <2>6 DEF CallSound, Present
<1>8. ASSUME NEW c \in Callers PROVE NameSound(c)'
  <2>1. call[c].got # NoCredential /\ call[c].phase \in {"settled", "returned"} =>
            /\ call[c].gen <= store'[call[c].id].gen
            /\ call[c].gen = store'[call[c].id].gen => call[c].got = HoldsIn(store', call[c].id)
    BY <1>0, <1>1 DEF StoreInv, NameSound, Persists
  <2> QED BY <1>0, <1>1, <2>1 DEF NameSound, HoldsIn, Persists
<1> QED BY <1>5, <1>6, <1>7, <1>8 DEF StoreInv

-----------------------------------------------------------------------------
(* The refinement.                                                         *)

LEMMA InitIsSound ==
    ASSUME NEW P, Processes = {P}, Init
    PROVE  StoreInv(P) /\ Exclusion /\ Promise!Init
<1> USE RefreshAssumption DEF Numbers
<1>1. PICK grant \in InitialGrants :
        /\ store = [id \in Ids |-> [access |-> grant[id], grant |-> grant[id], gen |-> 1]]
        /\ redeemable = {grant[id] : id \in Ids}
  BY DEF Init
<1>2. /\ \A id \in Ids : grant[id] \in Numbers /\ grant[id] <= issued
      /\ issued \in Numbers /\ logins = issued
  BY <1>1 DEF Init
<1>3. \A id \in Ids : Sound(store[id].grant) /\ loginOf[store[id].grant] = grant[id]
  BY <1>1, <1>2 DEF Init, Sound
<1>4. StoreSound
  BY <1>2, <1>3 DEF StoreSound
<1>5. WriteSound(P) /\ \A c \in Callers : call[c] = NoCall
  BY DEF Init, WriteSound
<1>6. ASSUME NEW c \in Callers PROVE CallSound(c) /\ NameSound(c) /\ call[c].phase \notin Synchronous
  <2>0. call[c] = NoCall
    BY <1>5
  <2>1. call[c].phase = "idle" /\ call[c].got = NoCredential
    BY <2>0 DEF NoCall
  <2> QED BY <2>1 DEF CallSound, NameSound, Synchronous
<1>7. Promise!Init
  <2>1. \A id \in Ids : StoredLogin[id] \in 0 .. logins /\ Generations[id] \in Nat
    BY <1>1, <1>2, <1>3 DEF StoredLogin, Generations
  <2> QED BY <1>2, <2>1 DEF Promise!Init, StoredLogin, Generations
<1> QED BY <1>4, <1>5, <1>6, <1>7 DEF StoreInv, Exclusion

LEMMA NextRefines ==
    ASSUME TypeOK, TypeOK', NEW P, Processes = {P}, StoreInv(P), [Next]_vars
    PROVE  [Promise!Next]_(Promise!vars)
<1>1. CASE ~ Persist(P)
  <2>1. StoreKept
    BY <1>1, QuietKeepsStore DEF Quiet
  <2>2. \A id \in Ids : store[id].grant # 0 => loginOf'[store[id].grant] = loginOf[store[id].grant]
    BY <2>1, SoundKept DEF StoreInv, StoreSound, Present
  <2> QED BY <2>1, <2>2 DEF StoreKept, StoredLogin, Generations, Promise!vars
<1>2. CASE Persist(P)
  <2>1. PICK id \in Ids, r \in Record : Persists(P, id, r)
    BY <1>2, Persisted
  <2>2. store'[id] = r /\ \A i \in Ids \ {id} : store'[i] = store[i]
    BY <2>1 DEF TypeOK, Persists
  <2> DEFINE m == IF r.grant # 0 THEN loginOf[r.grant] ELSE 0
  <2>3. Promise!Store(id, m)
    <3>1. StoredLogin' = [StoredLogin EXCEPT ![id] = m]
      BY <2>1, <2>2 DEF StoredLogin, Persists
    <3>2. Generations' = [Generations EXCEPT ![id] = @ + 1]
      BY <2>1, <2>2 DEF Generations, Persists
    <3> QED BY <3>1, <3>2 DEF Promise!Store
  <2>4. StoredLogin'[id] = m
    BY <2>1, <2>2 DEF StoredLogin, Persists
  <2>5. logins \in Nat /\ logins' \in Nat
    BY DEF TypeOK
  <2>6. CASE r.grant = 0 /\ logins' = logins
    <3>1. Promise!Delete(id)
      BY <2>3, <2>6 DEF Promise!Delete
    <3> QED BY <3>1 DEF Promise!Next
  <2>7. CASE r.grant # 0 /\ loginOf[r.grant] > logins /\ logins' = loginOf[r.grant]
    <3>1. Promise!LogIn(id)
      BY <2>3, <2>4, <2>7 DEF Promise!LogIn
    <3> QED BY <3>1 DEF Promise!Next
  <2>8. CASE /\ Present(id) /\ Sound(r.grant) /\ loginOf[store[id].grant] <= loginOf[r.grant]
             /\ logins' = logins
    <3>1. Sound(store[id].grant)
      BY <2>8 DEF StoreInv, StoreSound
    <3>2. StoredLogin[id] = loginOf[store[id].grant] /\ m = loginOf[r.grant] /\ m <= logins
      BY <2>5, <2>8 DEF StoredLogin, Present, Sound
    <3>3. Promise!Refresh(id)
      BY <2>3, <2>4, <2>5, <2>8, <3>1, <3>2 DEF Promise!Refresh, Sound
    <3> QED BY <3>3 DEF Promise!Next
  <2> QED BY <2>1, <2>5, <2>6, <2>7, <2>8 DEF Persists
<1> QED BY <1>1, <1>2

LEMMA Invariance ==
    ASSUME NEW P, Processes = {P}
    PROVE  Spec => [](TypeOK /\ Exclusion /\ StoreInv(P))
<1>1. Init => TypeOK /\ Exclusion /\ StoreInv(P)
  BY TypeInit, InitIsSound
<1>2. ASSUME TypeOK /\ Exclusion /\ StoreInv(P), [Next]_vars
      PROVE  (TypeOK /\ Exclusion /\ StoreInv(P))'
  <2>1. TypeOK' /\ Exclusion'
    BY <1>2, TypeNext, ExclusionNext
  <2>2. StoreInv(P)'
    BY <1>2, <2>1, PersistIsSound, QuietIsSound DEF Quiet
  <2> QED BY <2>1, <2>2
<1> QED BY <1>1, <1>2, PTL DEF Spec

(* With one process, however many calls, accounts and crashes: the store   *)
(* does what CodexCredentials promises.                                    *)
THEOREM StoreKeepsPromise ==
    ASSUME NEW P, Processes = {P}
    PROVE  Spec => CredentialPromise
<1>1. Init => Promise!Init
  BY InitIsSound
<1>2. TypeOK /\ TypeOK' /\ StoreInv(P) /\ [Next]_vars => [Promise!Next]_(Promise!vars)
  BY NextRefines
<1>3. Spec => [](TypeOK /\ Exclusion /\ StoreInv(P))
  BY Invariance
<1> QED BY <1>1, <1>2, <1>3, PTL DEF Spec, CredentialPromise, Promise!Spec

(* With one process, a token that was returned is the stored one as long   *)
(* as its generation is live.                                              *)
THEOREM TokensAreNamed ==
    ASSUME NEW P, Processes = {P}
    PROVE  Spec => []GenerationNamesToken
<1>1. ASSUME TypeOK /\ Exclusion /\ StoreInv(P) PROVE GenerationNamesToken
  BY <1>1 DEF StoreInv, CallSound, NameSound, GenerationNamesToken, HoldsIn, Holds
<1> QED BY <1>1, Invariance, PTL

(* What a pin or an auth context that kept a generation may rely on        *)
(* (isCodexAccountGenerationLive): generations never go back, the login    *)
(* behind a live one is still the same, no account goes back to an earlier *)
(* login, and a deleted account has a credential again only after a login  *)
(* that is newer than every other.                                         *)
OldLoginsStayOut ==
    [][\A id \in Ids :
          /\ Generations[id] <= Generations'[id]
          /\ Generations'[id] = Generations[id] => StoredLogin'[id] = StoredLogin[id]
          /\ StoredLogin'[id] < StoredLogin[id] => StoredLogin'[id] = 0
          /\ StoredLogin[id] = 0 /\ StoredLogin'[id] # 0 => StoredLogin'[id] > logins]_vars

(* What CodexCredentials is told of the store.                             *)
LEMMA StoreTypes ==
    TypeOK => Generations \in [Ids -> Nat] /\ StoredLogin \in [Ids -> Nat] /\ logins \in Nat
<1> SUFFICES ASSUME TypeOK
             PROVE  Generations \in [Ids -> Nat] /\ StoredLogin \in [Ids -> Nat] /\ logins \in Nat
  OBVIOUS
<1>1. \A id \in Ids : store[id] \in Record
  BY DEF TypeOK
<1>2. \A id \in Ids : store[id].gen \in Nat
  BY <1>1 DEF Record
<1>3. \A id \in Ids : store[id].grant # 0 => loginOf[store[id].grant] \in Nat
  <2>1. \A g \in Numbers : loginOf[g] \in Nat
    BY DEF TypeOK
  <2>2. \A id \in Ids : store[id].grant # 0 => store[id].grant \in Numbers
    BY <1>1 DEF Record, Numbers
  <2> QED BY <2>1, <2>2
<1> QED BY <1>2, <1>3 DEF Generations, StoredLogin, TypeOK

(* No account holds a login newer than the last.                           *)
LEMMA StoredAreKnown ==
    ASSUME TypeOK, StoreSound
    PROVE  \A id \in Ids : StoredLogin[id] <= logins
<1> SUFFICES ASSUME NEW id \in Ids PROVE StoredLogin[id] <= logins
  OBVIOUS
<1>1. logins \in Nat
  BY StoreTypes
<1>2. CASE store[id].grant = 0
  BY <1>1, <1>2 DEF StoredLogin
<1>3. CASE store[id].grant # 0
  BY <1>3 DEF StoredLogin, StoreSound, Sound, Present
<1> QED BY <1>2, <1>3

(* With one process, the store keeps old logins out, whatever refreshes    *)
(* end late, in whatever order, and whoever shares their grants: each step *)
(* is one of CodexCredentials, and no stored login is newer than the last. *)
THEOREM GenerationsTell ==
    ASSUME NEW P, Processes = {P}
    PROVE  Spec => OldLoginsStayOut
<1> DEFINE L == StoredLogin
           G == Generations
           Out == \A id \in Ids :
                     /\ G[id] <= G'[id]
                     /\ G'[id] = G[id] => L'[id] = L[id]
                     /\ L'[id] < L[id] => L'[id] = 0
                     /\ L[id] = 0 /\ L'[id] # 0 => L'[id] > logins
<1>1. TypeOK => G \in [Ids -> Nat] /\ L \in [Ids -> Nat] /\ logins \in Nat
  BY StoreTypes
<1>2. TypeOK /\ TypeOK' /\ StoreSound /\ [Promise!Next]_(Promise!vars) => Out
  <2> SUFFICES ASSUME TypeOK, TypeOK', StoreSound, [Promise!Next]_(Promise!vars), NEW id \in Ids
               PROVE  /\ G[id] <= G'[id]
                      /\ G'[id] = G[id] => L'[id] = L[id]
                      /\ L'[id] < L[id] => L'[id] = 0
                      /\ L[id] = 0 /\ L'[id] # 0 => L'[id] > logins
    OBVIOUS
  <2>1. /\ G \in [Ids -> Nat] /\ L \in [Ids -> Nat] /\ logins \in Nat
        /\ G' \in [Ids -> Nat] /\ L' \in [Ids -> Nat]
    <3>1. TypeOK' => (Generations \in [Ids -> Nat] /\ StoredLogin \in [Ids -> Nat] /\ logins \in Nat)'
      BY StoreTypes, PTL
    <3> QED BY <1>1, <3>1
  <2>2. CASE UNCHANGED Promise!vars
    <3>1. G' = G /\ L' = L
      BY <2>2 DEF Promise!vars
    <3> HIDE DEF G, L
    <3> QED BY <2>1, <3>1
  <2>3. ASSUME NEW other \in Ids, Promise!LogIn(other) \/ Promise!Refresh(other) \/ Promise!Delete(other)
        PROVE  /\ G[id] <= G'[id]
               /\ G'[id] = G[id] => L'[id] = L[id]
               /\ L'[id] < L[id] => L'[id] = 0
               /\ L[id] = 0 /\ L'[id] # 0 => L'[id] > logins
    <3>1. PICK number : /\ L' = [L EXCEPT ![other] = number]
                        /\ G' = [G EXCEPT ![other] = @ + 1]
                        /\ \/ number = 0 \/ number > logins
                           \/ L[other] > 0 /\ L[other] <= number
      BY <2>3 DEF Promise!LogIn, Promise!Refresh, Promise!Delete, Promise!Store
    <3> HIDE DEF G, L
    <3>2. CASE other = id
      <4>1. /\ G'[id] = G[id] + 1 /\ L'[id] = number /\ number \in Nat
            /\ G[id] \in Nat /\ L[id] \in Nat
        BY <2>1, <3>1, <3>2
      <4>2. number = 0 \/ number > logins \/ (L[id] > 0 /\ L[id] <= number)
        BY <3>1, <3>2
      <4>3. L[id] <= logins
        BY StoredAreKnown DEF L
      <4> QED BY <4>1, <4>2, <4>3, <2>1
    <3>3. CASE other # id
      <4>1. G'[id] = G[id] /\ L'[id] = L[id]
        BY <2>1, <3>1, <3>3
      <4> QED BY <2>1, <4>1
    <3> QED BY <3>2, <3>3
  <2> QED BY <2>2, <2>3 DEF Promise!Next
<1>3. TypeOK /\ TypeOK' /\ StoreInv(P) /\ [Next]_vars => [Out]_vars
  BY <1>2, NextRefines DEF StoreInv
<1>4. Spec => [](TypeOK /\ Exclusion /\ StoreInv(P))
  BY Invariance
<1> QED BY <1>3, <1>4, PTL DEF Spec, OldLoginsStayOut

=============================================================================
