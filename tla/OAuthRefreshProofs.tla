------------------------ MODULE OAuthRefreshProofs -------------------------
(***************************************************************************)
(* Theorems about OAuthRefresh, for any number of processes and any        *)
(* bounds.                                                                 *)
(*                                                                         *)
(* The heart is that an Anthropic account never comes back to a generation *)
(* that a refresh sent to the server.  What a refresh is about to store    *)
(* was never sent (AnswersAreNew, AdoptionsAreNew), nor what a sign-in     *)
(* stores before it lapses, for what was sent has lapsed (SentAreLapsed).  *)
(* So a generation that was sent either is the account's, and then the     *)
(* intent file names it or the account is marked (SentIsRemembered), or    *)
(* has gone for good; and then no refresh that leaves late can take the    *)
(* intent away from the account's (ClearsAreSpent).                        *)
(*                                                                         *)
(* All of this holds beside the token guardian too: its sweeps take steps  *)
(* of OAuthRefresh, or none (SweepsAreCallers).                            *)
(***************************************************************************)
EXTENDS TokenGuardian, TLAPS

Issued == 1 .. minted

(* Generations are named only once they were issued. *)
IssuedOnly ==
    /\ account.here => account.gen \in Issued
    /\ ~account.here => account = NoAccount
    /\ cli \in 0 .. minted
    /\ asked \subseteq Issued /\ redeemed \subseteq asked /\ live \subseteq Issued
    /\ \A g \in Issued : grant[g] \in Gens

(* Intents are Anthropic's, of generations that were sent. *)
IntentsAreSent ==
    /\ intent = Unreadable => spoilt
    /\ intent \in Gens => kind = "anthropic" /\ intent \in asked

(* The server would not take g, or Anthropic may have used it up. *)
Doubtful(g) == g \notin live \/ (kind = "anthropic" /\ (g \in asked \/ spoilt))

FlightSound(p) ==
    LET x == flight[p] IN
    /\ x.pc \in {"asking", "answered"} => x.gen \in asked /\ x.clear = None
    /\ x.pc = "answered" => x.fresh \in Issued /\ grant[x.fresh] = grant[x.gen]
    /\ x.pc = "adopting" => x.gen \in Issued /\ x.fresh \in Issued
    /\ x.pc = "refused" => /\ x.gen \in Issued /\ Doubtful(x.gen)
                           /\ x.clear \in {None, x.gen}
    /\ x.clear = Unreadable => spoilt
    /\ x.clear \in Gens => x.clear \in asked

(* The server's answer is known to nobody else before it is stored. *)
AnswersAreNew ==
    \A p \in Procs : At(p, "answered") =>
        LET f == flight[p].fresh IN
        /\ f \notin asked /\ account.gen # f /\ cli # f
        /\ \A q \in Procs \ {p} :
             At(q, "answered") \/ At(q, "adopting") => flight[q].fresh # f
        /\ \A q \in Procs : At(q, "adopting") => flight[q].gen # f

(* What is adopted came from the local tool, which moves on to later ones:
   so does an adoption of what another one brings. *)
AdoptionsLeadOn ==
    \A p \in Procs : At(p, "adopting") =>
        LET x == flight[p] IN
        /\ x.gen # cli /\ x.gen # x.fresh /\ x.fresh <= cli
        /\ \A q \in Procs : At(q, "adopting") /\ flight[q].gen = x.fresh =>
                flight[q].gen < flight[q].fresh

(* So does an adoption of what a sign-in brings.  Nobody else brings that,
   except the local tool. *)
SignInsSound ==
    \A s \in Procs : SignsIn(s, "saving") =>
        LET g == signIn[s].gen IN
        /\ g \in Issued
        /\ account.gen = g => g <= cli
        /\ \A q \in Procs :
             /\ At(q, "answered") => flight[q].fresh # g
             /\ At(q, "adopting") /\ flight[q].gen = g => g < flight[q].fresh
             /\ q # s /\ SignsIn(q, "saving") /\ signIn[q].gen = g => g <= cli

(* Anthropic only from here on, and before a sign-in has stored a lapsed
   credential.  A generation is sent when it is lapsed. *)
SentAreLapsed ==
    /\ asked \subseteq 1 .. lapsed
    /\ \A p \in Procs : At(p, "locking") \/ At(p, "holding") => flight[p].caller <= lapsed

(* Every request in flight is the only one its generation was named in. *)
SentOnce ==
    \A p \in Procs : At(p, "asking") =>
        /\ flight[p].gen \notin redeemed
        /\ \A q \in Procs \ {p} : At(q, "asking") => flight[q].gen # flight[p].gen

(* What the account may adopt is later than anything adopted that was sent. *)
AdoptionsAreNew ==
    \A p, q \in Procs :
        /\ At(p, "adopting") /\ account.gen = flight[p].gen
        /\ At(q, "adopting") /\ flight[q].fresh \in asked
        => flight[q].fresh < flight[p].fresh

SentIsRemembered ==
    account.here /\ account.gen \in asked =>
        intent \in {account.gen, Unreadable} \/ account.needsReauth

(* The intent a flight is going to remove is not needed any more when it
   does. *)
ClearsAreSpent ==
    \A p \in Procs :
        LET x == flight[p] IN
        /\ x.pc = "adopting" /\ account.here /\ x.clear = account.gen => x.gen = account.gen
        /\ x.pc = "adopting" /\ x.clear = Unreadable /\ intent = Unreadable
             /\ account.gen \in asked => x.gen = account.gen
        /\ x.pc = "leaving" /\ account.here /\ x.clear = account.gen => account.needsReauth
        /\ x.pc = "leaving" /\ x.clear = Unreadable /\ intent = Unreadable =>
             account.gen \notin asked

AnthropicInv ==
    (kind = "anthropic" /\ ~late) =>
        /\ SentAreLapsed /\ SentOnce /\ AdoptionsAreNew
        /\ SentIsRemembered /\ ClearsAreSpent

IInv ==
    /\ TypeOK /\ IssuedOnly /\ IntentsAreSent /\ \A p \in Procs : FlightSound(p)
    /\ AnswersAreNew /\ AdoptionsLeadOn /\ SignInsSound /\ AnthropicInv
    /\ LatestLoginWins /\ MarkHasReason

-----------------------------------------------------------------------------
(* Records.                                                                *)

LEMMA Numbers ==
    /\ None \in 0 .. MaxGen + 1 /\ None \in Gens \cup {None} /\ None \notin Gens
    /\ Unreadable \in 0 .. MaxGen + 1 /\ Unreadable \notin Gens /\ Unreadable # None
    /\ Gens \subseteq 0 .. MaxGen + 1 /\ Gens \subseteq Nat
    /\ 0 .. MaxGen + 1 = Gens \cup {None, Unreadable}
  BY OAuthConstants DEF Gens, None, Unreadable

LEMMA FlightFields ==
    ASSUME NEW x \in FlightRecord
    PROVE  /\ x.pc \in Pcs /\ x.caller \in Gens \cup {None} /\ x.gen \in Gens \cup {None}
           /\ x.fresh \in Gens \cup {None} /\ x.clear \in 0 .. MaxGen + 1
  BY DEF FlightRecord

LEMMA NoFlightIsFlight == NoFlight \in FlightRecord
  BY OAuthConstants DEF NoFlight, FlightRecord, Pcs, None

LEMMA CredentialIsAccount ==
    /\ NoAccount \in AccountRecord
    /\ \A g \in Gens \cup {None}, local \in BOOLEAN : Credential(g, local) \in AccountRecord
  BY DEF NoAccount, Credential, AccountRecord, None

LEMMA Marked ==
    ASSUME NEW x \in AccountRecord
    PROVE  LET y == [x EXCEPT !.needsReauth = TRUE] IN
           /\ y \in AccountRecord /\ y.here = x.here /\ y.gen = x.gen /\ y.needsReauth
  BY DEF AccountRecord

(* The flight of one process moves, those of the others do not. *)
Moves(p, y) ==
    /\ y \in FlightRecord
    /\ flight' \in [Procs -> FlightRecord]
    /\ flight'[p] = y
    /\ \A q \in Procs \ {p} : flight'[q] = flight[q]

LEMMA FlightMoves ==
    ASSUME TypeOK, NEW p \in Procs, NEW y \in FlightRecord,
           flight' = [flight EXCEPT ![p] = y]
    PROVE  Moves(p, y)
  BY DEF TypeOK, Moves

LEMMA GoRecord ==
    ASSUME NEW x \in FlightRecord, NEW pc \in Pcs, NEW gen \in Gens \cup {None},
           NEW fresh \in Gens \cup {None}, NEW clear \in 0 .. MaxGen + 1
    PROVE  LET z == [pc |-> pc, caller |-> x.caller, gen |-> gen, fresh |-> fresh,
                     clear |-> clear] IN
           /\ [x EXCEPT !.pc = pc, !.gen = gen, !.fresh = fresh, !.clear = clear] = z
           /\ z \in FlightRecord
<1> DEFINE y == [x EXCEPT !.pc = pc, !.gen = gen, !.fresh = fresh, !.clear = clear]
           z == [pc |-> pc, caller |-> x.caller, gen |-> gen, fresh |-> fresh,
                 clear |-> clear]
<1>1. z \in FlightRecord
  BY FlightFields DEF FlightRecord
<1>2. y \in FlightRecord
  BY DEF FlightRecord
<1>3. /\ y.pc = pc /\ y.caller = x.caller /\ y.gen = gen
      /\ y.fresh = fresh /\ y.clear = clear
  BY DEF FlightRecord
<1> HIDE DEF y
<1>4. y = z
  BY <1>2, <1>3 DEF FlightRecord
<1> QED BY <1>1, <1>4 DEF y

LEMMA GoMoves ==
    ASSUME TypeOK, NEW p \in Procs, NEW pc \in Pcs, NEW gen \in Gens \cup {None},
           NEW fresh \in Gens \cup {None}, NEW clear \in 0 .. MaxGen + 1,
           Go(p, pc, gen, fresh, clear)
    PROVE  /\ Moves(p, [pc |-> pc, caller |-> flight[p].caller, gen |-> gen,
                        fresh |-> fresh, clear |-> clear])
           /\ lock' = lock
<1> DEFINE y == [flight[p] EXCEPT !.pc = pc, !.gen = gen, !.fresh = fresh, !.clear = clear]
           z == [pc |-> pc, caller |-> flight[p].caller, gen |-> gen,
                 fresh |-> fresh, clear |-> clear]
<1>1. flight[p] \in FlightRecord
  BY DEF TypeOK
<1>2. y = z /\ z \in FlightRecord
  BY <1>1, GoRecord
<1>3. flight' = [flight EXCEPT ![p] = z] /\ lock' = lock
  BY <1>2 DEF Go
<1> QED BY <1>2, <1>3, FlightMoves

LEMMA PhaseRecord ==
    ASSUME NEW x \in FlightRecord, NEW pc \in Pcs
    PROVE  LET z == [pc |-> pc, caller |-> x.caller, gen |-> x.gen, fresh |-> x.fresh,
                     clear |-> x.clear] IN
           [x EXCEPT !.pc = pc] = z /\ z \in FlightRecord
  BY FlightFields DEF FlightRecord

LEMMA PhaseMoves ==
    ASSUME TypeOK, NEW p \in Procs, NEW pc \in Pcs,
           flight' = [flight EXCEPT ![p].pc = pc]
    PROVE  Moves(p, [pc |-> pc, caller |-> flight[p].caller, gen |-> flight[p].gen,
                     fresh |-> flight[p].fresh, clear |-> flight[p].clear])
<1> DEFINE y == [flight[p] EXCEPT !.pc = pc]
           z == [pc |-> pc, caller |-> flight[p].caller, gen |-> flight[p].gen,
                 fresh |-> flight[p].fresh, clear |-> flight[p].clear]
<1>1. flight[p] \in FlightRecord
  BY DEF TypeOK
<1>2. y = z /\ z \in FlightRecord
  BY <1>1, PhaseRecord
<1>3. flight' = [flight EXCEPT ![p] = z]
  BY <1>2
<1> QED BY <1>2, <1>3, FlightMoves

LEMMA EndMoves ==
    ASSUME TypeOK, NEW p \in Procs, flight' = [flight EXCEPT ![p] = NoFlight]
    PROVE  Moves(p, NoFlight)
  BY NoFlightIsFlight, FlightMoves

LEMMA ReleasedType ==
    ASSUME TypeOK, NEW p \in Procs
    PROVE  Released(p) \in [owner : Procs \cup {Nobody, Dead}, old : BOOLEAN]
  BY DEF TypeOK, Released, NoLock

-----------------------------------------------------------------------------
(* What the holder finds, by what it does about it.                        *)

(* Sign-ins end, if they move at all. *)
SignInsEnd == \A s \in Procs : signIn'[s] = signIn[s] \/ signIn'[s].pc = "idle"

(* Nothing but the flight, the lock, the verdicts and ending sign-ins moves. *)
Quiet ==
    /\ UNCHANGED <<kind, account, cli, intent, clock, live, redeemed, asked, imports,
                   grant, login, spoilt>>
    /\ SignInsEnd

Stable == UNCHANGED <<kind, account, cli, signIn, verdicts, clock, live, troubles,
                      redeemed, imports, grant, login, spoilt>>

LooksAway(p) == End(p) /\ UNCHANGED <<intent, asked>>

DropsIntent(p) ==
    /\ kind = "anthropic" /\ account.here
    /\ intent \notin {Unreadable, account.gen} /\ intent' = None
    /\ account.needsReauth \/ AlreadyRefreshed(p, account.gen)
    /\ End(p) /\ UNCHANGED asked

Declines(p) ==
    /\ kind = "anthropic" /\ account.here
    /\ intent \in {Unreadable, account.gen}
    /\ Go(p, "refused", account.gen, None, None)
    /\ UNCHANGED <<intent, asked>>

Adopts(p) ==
    /\ account.here /\ CliIsNewer
    /\ Go(p, "adopting", account.gen, cli, IF kind = "anthropic" THEN intent ELSE None)
    /\ UNCHANGED <<intent, asked>>

AsksFreely(p) ==
    /\ kind # "anthropic" /\ account.here
    /\ Ask(p, account.gen) \/ (CliIsNewer /\ Ask(p, cli))
    /\ UNCHANGED intent

AsksOnRecord(p) ==
    /\ kind = "anthropic" /\ account.here /\ ~account.needsReauth
    /\ ~AlreadyRefreshed(p, account.gen)
    /\ intent \notin {Unreadable, account.gen} /\ intent' = account.gen
    /\ Ask(p, account.gen)

LEMMA LookCases ==
    ASSUME NEW p \in Procs, Look(p)
    PROVE  /\ At(p, "holding") /\ Stable
           /\ \/ LooksAway(p) \/ DropsIntent(p) \/ Declines(p) \/ Adopts(p)
              \/ AsksFreely(p) \/ AsksOnRecord(p)
<1>1. At(p, "holding") /\ Stable
  BY DEF Look, Stable
<1> SUFFICES \/ LooksAway(p) \/ DropsIntent(p) \/ Declines(p) \/ Adopts(p)
             \/ AsksFreely(p) \/ AsksOnRecord(p)
  BY <1>1
<1>2. CASE ~account.here /\ End(p) /\ UNCHANGED <<intent, asked>>
  BY <1>2 DEF LooksAway
<1>3. CASE account.here /\ kind = "anthropic" /\ LookAnthropic(p)
  BY <1>3 DEF LookAnthropic, DropsIntent, Declines, Adopts, AsksOnRecord
<1>4. CASE account.here /\ kind = "xai" /\ LookXai(p)
  <2>1. kind # "anthropic"
    BY <1>4
  <2>2. CASE CliIsNewer
    BY <1>4, <2>1, <2>2 DEF LookXai, LooksAway, Adopts, AsksFreely
  <2>3. CASE ~CliIsNewer
    BY <1>4, <2>1, <2>3 DEF LookXai, LooksAway, Adopts, AsksFreely
  <2> QED BY <2>2, <2>3
<1>5. CASE account.here /\ kind = "generic" /\ LookGeneric(p)
  BY <1>5 DEF LookGeneric, LooksAway, AsksFreely
<1> QED BY <1>2, <1>3, <1>4, <1>5 DEF Look

-----------------------------------------------------------------------------
(* Types.                                                                  *)

LEMMA SignInEnds ==
    ASSUME TypeOK, NEW p \in Procs, NoSignInNow(p)
    PROVE  /\ signIn' \in [Procs -> SignInRecord] /\ SignInsEnd
           /\ \A s \in Procs \ {p} : signIn'[s] = signIn[s]
           /\ signIn'[p].pc = "idle"
<1>1. NoSignIn \in SignInRecord /\ NoSignIn.pc = "idle"
  BY DEF NoSignIn, SignInRecord
<1> QED BY <1>1 DEF NoSignInNow, TypeOK, SignInsEnd

LEMMA SignInMoves ==
    ASSUME TypeOK, NEW p \in Procs, NEW pc \in {"asking", "saving"}, NEW g \in Gens,
           NEW local \in BOOLEAN, SignInGoes(p, pc, g, local)
    PROVE  /\ signIn' \in [Procs -> SignInRecord]
           /\ \A s \in Procs \ {p} : signIn'[s] = signIn[s]
           /\ signIn'[p].pc = pc /\ signIn'[p].gen = g
<1> DEFINE x == [pc |-> pc, gen |-> g, local |-> local]
<1>1. x \in SignInRecord /\ x.pc = pc /\ x.gen = g
  BY DEF SignInRecord
<1>2. signIn' = [signIn EXCEPT ![p] = x]
  BY DEF SignInGoes
<1> HIDE DEF x
<1> QED BY <1>1, <1>2 DEF TypeOK

LEMMA IssuedAreGens ==
    ASSUME TypeOK
    PROVE  Issued \subseteq Gens
  BY OAuthConstants DEF TypeOK, Issued, Gens

LEMMA MintTypes ==
    ASSUME TypeOK, IssuedOnly, NEW spent, NEW under \in Gens \cup {None}, Mint(spent, under)
    PROVE  /\ minted + 1 \in Gens /\ minted' \in Gens /\ lapsed' \in 0 .. minted'
           /\ live' \in SUBSET Gens /\ grant' \in [Gens -> Gens \cup {None}]
<1>1. minted \in 1 .. MaxGen /\ minted < MaxGen /\ minted' = minted + 1 /\ lapsed' = lapsed
  BY DEF TypeOK, Mint, Gens
<1>2. minted + 1 \in Gens /\ minted' \in Gens /\ lapsed' \in 0 .. minted'
  BY <1>1, OAuthConstants DEF Gens, TypeOK
<1>3. live' \in SUBSET Gens
  BY <1>2 DEF TypeOK, Mint
<1>4. grant' \in [Gens -> Gens \cup {None}]
  <2> DEFINE v == IF under = None THEN minted + 1 ELSE under
  <2>1. v \in Gens \cup {None} /\ grant' = [grant EXCEPT ![minted + 1] = v]
    BY <1>2 DEF Mint
  <2> HIDE DEF v
  <2> QED BY <2>1 DEF TypeOK
<1> QED BY <1>2, <1>3, <1>4

LEMMA AskTypes ==
    ASSUME TypeOK, NEW p \in Procs, NEW g \in Gens, Ask(p, g)
    PROVE  flight' \in [Procs -> FlightRecord] /\ lock' = lock /\ asked' \in SUBSET Gens
<1>1. Go(p, "asking", g, None, None)
  BY DEF Ask
<1>2. flight' \in [Procs -> FlightRecord] /\ lock' = lock
  BY <1>1, GoMoves, Numbers DEF Moves, Pcs
<1> QED BY <1>2 DEF Ask, TypeOK

LEMMA EndTypes ==
    ASSUME TypeOK, NEW p \in Procs, End(p)
    PROVE  /\ Moves(p, NoFlight) /\ flight' \in [Procs -> FlightRecord]
           /\ lock' \in [owner : Procs \cup {Nobody, Dead}, old : BOOLEAN]
  BY EndMoves, ReleasedType DEF End, Moves

LEMMA LookTypes ==
    ASSUME TypeOK, IssuedOnly, NEW p \in Procs, Look(p)
    PROVE  TypeOK'
<1>1. /\ kind \in Kinds /\ account.gen \in Gens \cup {None}
      /\ account.here => account.gen \in Gens
      /\ CliIsNewer => cli \in Gens
      /\ cli \in Gens \cup {None} /\ intent \in 0 .. MaxGen + 1
  BY Numbers, OAuthConstants DEF TypeOK, IssuedOnly, Issued, AccountRecord, CliIsNewer, Fresh, Gens
<1>2. "refused" \in Pcs /\ "adopting" \in Pcs /\ None \in 0 .. MaxGen + 1
      /\ None \in Gens \cup {None}
  BY Numbers DEF Pcs
<1>3. Stable
  BY LookCases
<1>4. CASE LooksAway(p)
  BY <1>3, <1>4, EndTypes DEF LooksAway, TypeOK, Stable, clock, imports
<1>5. CASE DropsIntent(p)
  BY <1>2, <1>3, <1>5, EndTypes DEF DropsIntent, TypeOK, Stable, clock, imports
<1>6. CASE Declines(p)
  <2>1. flight' \in [Procs -> FlightRecord] /\ lock' = lock
    BY <1>1, <1>2, <1>6, GoMoves DEF Declines, Moves
  <2> QED BY <1>3, <1>6, <2>1 DEF Declines, TypeOK, Stable, clock, imports
<1>7. CASE Adopts(p)
  <2>1. flight' \in [Procs -> FlightRecord] /\ lock' = lock
    BY <1>1, <1>2, <1>7, GoMoves DEF Adopts, Moves
  <2> QED BY <1>3, <1>7, <2>1 DEF Adopts, TypeOK, Stable, clock, imports
<1>8. CASE AsksFreely(p)
  <2>1. flight' \in [Procs -> FlightRecord] /\ lock' = lock /\ asked' \in SUBSET Gens
    BY <1>1, <1>8, AskTypes DEF AsksFreely
  <2> QED BY <1>3, <1>8, <2>1 DEF AsksFreely, TypeOK, Stable, clock, imports
<1>9. CASE AsksOnRecord(p)
  <2>1. flight' \in [Procs -> FlightRecord] /\ lock' = lock /\ asked' \in SUBSET Gens
    BY <1>1, <1>9, AskTypes DEF AsksOnRecord
  <2>2. intent' \in 0 .. MaxGen + 1
    BY <1>1, <1>9, OAuthConstants DEF AsksOnRecord, Gens
  <2> QED BY <1>3, <1>9, <2>1, <2>2 DEF AsksOnRecord, TypeOK, Stable, clock, imports
<1> QED BY <1>4, <1>5, <1>6, <1>7, <1>8, <1>9, LookCases

LEMMA AnswerMoves ==
    ASSUME TypeOK, NEW p \in Procs, NEW f \in Gens,
           flight' = [flight EXCEPT ![p].pc = "answered", ![p].fresh = f]
    PROVE  Moves(p, [pc |-> "answered", caller |-> flight[p].caller, gen |-> flight[p].gen,
                     fresh |-> f, clear |-> flight[p].clear])
<1> DEFINE x == flight[p]
           y == [x EXCEPT !.pc = "answered", !.fresh = f]
           z == [pc |-> "answered", caller |-> x.caller, gen |-> x.gen, fresh |-> f,
                 clear |-> x.clear]
<1>1. x \in FlightRecord
  BY DEF TypeOK
<1> HIDE DEF x
<1>2. z \in FlightRecord
  BY <1>1, FlightFields DEF FlightRecord, Pcs
<1>3. y \in FlightRecord /\ y.pc = "answered" /\ y.caller = x.caller /\ y.gen = x.gen
      /\ y.fresh = f /\ y.clear = x.clear
  BY <1>1 DEF FlightRecord, Pcs
<1> HIDE DEF y
<1>4. y = z
  BY <1>2, <1>3 DEF FlightRecord
<1>5. flight' = [flight EXCEPT ![p] = y]
  BY DEF x, y
<1> QED BY <1>2, <1>4, <1>5, FlightMoves DEF x

LEMMA PersistTypes ==
    ASSUME TypeOK, IssuedOnly, NEW p \in Procs, FlightSound(p), Persist(p)
    PROVE  TypeOK'
<1>1. flight[p] \in FlightRecord /\ account \in AccountRecord
  BY DEF TypeOK
<1>2. flight[p].fresh \in Gens \cup {None} /\ flight[p].gen \in Gens \cup {None}
      /\ flight[p].clear \in 0 .. MaxGen + 1
  BY <1>1, FlightFields
<1>3. At(p, "adopting") => grant[flight[p].fresh] \in Gens
  BY DEF At, FlightSound, IssuedOnly
<1>4. account' \in AccountRecord /\ login' \in Gens
  <2>1. Credential(flight[p].fresh, At(p, "adopting")) \in AccountRecord
    BY <1>2, CredentialIsAccount DEF At
  <2>2. account' = Credential(flight[p].fresh, At(p, "adopting")) \/ account' = account
    BY DEF Persist
  <2>3. login' = login \/ (At(p, "adopting") /\ login' = grant[flight[p].fresh])
    BY DEF Persist
  <2> QED BY <1>1, <1>3, <2>1, <2>2, <2>3 DEF TypeOK
<1>5. flight' \in [Procs -> FlightRecord] /\ lock' = lock
  <2> DEFINE clear == IF At(p, "adopting") THEN flight[p].clear
                      ELSE IF kind = "anthropic" THEN flight[p].gen ELSE None
  <2>1. clear \in 0 .. MaxGen + 1
    BY <1>2, Numbers
  <2>2. Go(p, "leaving", flight[p].gen, flight[p].fresh, clear)
    BY DEF Persist
  <2> HIDE DEF clear
  <2> QED BY <1>2, <2>1, <2>2, GoMoves DEF Moves, Pcs
<1> QED BY <1>4, <1>5 DEF Persist, TypeOK, clock, imports

LEMMA ProcessTypes ==
    ASSUME TypeOK, IssuedOnly, NEW p \in Procs, FlightSound(p), RefreshStep(p)
    PROVE  TypeOK'
<1>1. flight[p] \in FlightRecord /\ account \in AccountRecord
  BY DEF TypeOK
<1>2. flight[p].fresh \in Gens \cup {None} /\ flight[p].gen \in Gens \cup {None}
      /\ flight[p].clear \in 0 .. MaxGen + 1 /\ account.gen \in Gens \cup {None}
  BY <1>1, FlightFields DEF AccountRecord
<1>3. CASE Resolve(p) \/ ForceRefresh(p)
  <2>1. Start(p) /\ UNCHANGED <<kind, account, cli, intent, lock, signIn, verdicts, clock, live,
                                history>>
    BY <1>3 DEF Resolve, ForceRefresh
  <2>2. troubles' \in Nat
    BY <1>3 DEF Resolve, ForceRefresh, Trouble, TypeOK
  <2>3. [NoFlight EXCEPT !.pc = "locking", !.caller = account.gen] \in FlightRecord
    BY <1>2, NoFlightIsFlight DEF FlightRecord, Pcs
  <2>4. flight' \in [Procs -> FlightRecord]
    BY <2>1, <2>3 DEF Start, TypeOK
  <2> QED BY <2>1, <2>2, <2>4 DEF TypeOK, clock, history, imports
<1>4. CASE AcquireLock(p)
  <2>1. flight' \in [Procs -> FlightRecord]
    BY <1>4, PhaseMoves DEF AcquireLock, Moves, Pcs
  <2> QED BY <1>4, <2>1 DEF AcquireLock, TypeOK, clock, history, imports
<1>5. CASE LockTimesOut(p)
  BY <1>5, NoFlightIsFlight DEF LockTimesOut, TypeOK, clock, history, imports
<1>6. CASE Look(p)
  BY <1>6, LookTypes
<1>7. CASE ServerAnswers(p)
  <2>1. flight[p].gen \in Gens /\ grant[flight[p].gen] \in Gens \cup {None}
    BY <1>7 DEF ServerAnswers, Redeem, At, FlightSound, TypeOK
  <2>2. Mint(flight[p].gen, grant[flight[p].gen]) /\ redeemed' = redeemed \cup {flight[p].gen}
        /\ login' = login
    BY <1>7 DEF ServerAnswers, Redeem, Rotate
  <2>3. /\ minted + 1 \in Gens /\ minted' \in Gens /\ lapsed' \in 0 .. minted'
        /\ live' \in SUBSET Gens /\ grant' \in [Gens -> Gens \cup {None}]
    BY <2>1, <2>2, MintTypes
  <2>4. flight' \in [Procs -> FlightRecord]
    BY <1>7, <2>3, AnswerMoves DEF ServerAnswers, Moves
  <2> QED BY <1>7, <2>1, <2>2, <2>3, <2>4 DEF ServerAnswers, TypeOK, imports
<1>8. CASE AnswerLost(p)
  <2>1. flight[p].gen \in Gens /\ grant[flight[p].gen] \in Gens \cup {None}
    BY <1>8 DEF AnswerLost, Redeem, At, FlightSound, TypeOK
  <2>2. Mint(flight[p].gen, grant[flight[p].gen]) /\ redeemed' = redeemed \cup {flight[p].gen}
        /\ login' = login /\ End(p) /\ troubles' \in Nat
    BY <1>8 DEF AnswerLost, Redeem, Rotate, Trouble, TypeOK
  <2>3. /\ minted' \in Gens /\ lapsed' \in 0 .. minted'
        /\ live' \in SUBSET Gens /\ grant' \in [Gens -> Gens \cup {None}]
    BY <2>1, <2>2, MintTypes
  <2> QED BY <1>8, <2>1, <2>2, <2>3, EndTypes DEF AnswerLost, TypeOK, imports
<1>9. CASE NoAnswer(p) \/ StoreFails(p) \/ PersistNowhere(p)
  <2>1. End(p) /\ UNCHANGED <<kind, account, cli, intent, signIn, verdicts, clock, live, history>>
        /\ troubles' \in Nat
    BY <1>9 DEF NoAnswer, StoreFails, PersistNowhere, Trouble, TypeOK
  <2> QED BY <2>1, EndTypes DEF TypeOK, clock, history, imports
<1>10. CASE ServerRefuses(p)
  <2> DEFINE clear == IF kind = "anthropic" THEN flight[p].gen ELSE None
  <2>1. clear \in 0 .. MaxGen + 1 /\ flight[p].gen \in Gens
    BY <1>2, <1>10, Numbers DEF ServerRefuses, FlightSound, At, TypeOK
  <2>2. Go(p, "refused", flight[p].gen, None, clear)
    BY <1>10 DEF ServerRefuses
  <2> HIDE DEF clear
  <2>3. flight' \in [Procs -> FlightRecord] /\ lock' = lock
    BY <2>1, <2>2, Numbers, GoMoves DEF Moves, Pcs
  <2>4. verdicts' \in [Procs -> SUBSET Gens]
    BY <1>10, <2>1 DEF ServerRefuses, TypeOK
  <2> QED BY <1>10, <2>3, <2>4 DEF ServerRefuses, TypeOK, clock, history, imports
<1>11. CASE Persist(p)
  BY <1>11, PersistTypes
<1>12. CASE Mark(p)
  <2>1. account' \in AccountRecord
    BY <1>1, <1>12, Marked DEF Mark
  <2>2. flight' \in [Procs -> FlightRecord]
    BY <1>12, PhaseMoves DEF Mark, Moves, Pcs
  <2> QED BY <1>12, <2>1, <2>2 DEF Mark, TypeOK, clock, history, imports
<1>13. CASE Leave(p)
  BY <1>13, EndTypes, Numbers DEF Leave, TypeOK, clock, history, imports
<1> QED BY <1>3, <1>4, <1>5, <1>6, <1>7, <1>8, <1>9, <1>10, <1>11, <1>12, <1>13 DEF RefreshStep

LEMMA SignInTypes ==
    ASSUME TypeOK, IssuedOnly, NEW p \in Procs, SignInsSound, SignInStep(p)
    PROVE  TypeOK'
<1>1. CASE BrowserAuthorizes(p)
  <2>1. /\ minted + 1 \in Gens /\ minted' \in Gens /\ lapsed' \in 0 .. minted'
        /\ live' \in SUBSET Gens /\ grant' \in [Gens -> Gens \cup {None}]
    BY <1>1, MintTypes, Numbers DEF BrowserAuthorizes
  <2>2. signIn' \in [Procs -> SignInRecord]
    BY <1>1, <2>1, SignInMoves DEF BrowserAuthorizes
  <2> QED BY <1>1, <2>1, <2>2 DEF BrowserAuthorizes, TypeOK, imports
<1>2. CASE DetectLocal(p)
  <2>1. cli \in Gens
    BY <1>2 DEF DetectLocal, TypeOK
  <2>2. signIn' \in [Procs -> SignInRecord]
    BY <1>2, <2>1, SignInMoves DEF DetectLocal
  <2>3. troubles' \in Nat
    BY <1>2 DEF DetectLocal, Trouble, TypeOK
  <2> QED BY <1>2, <2>2, <2>3 DEF DetectLocal, TypeOK, clock, history, imports
<1>3. CASE ImportAnswered(p) \/ ImportAnswerLost(p)
  <2>1. signIn[p].gen \in live /\ ImportRedeems(p)
    BY <1>3 DEF ImportAnswered, ImportAnswerLost, ImportRedeems, Rotate
  <2>2. signIn[p].gen \in Gens /\ grant[signIn[p].gen] \in Gens \cup {None}
    BY <2>1 DEF TypeOK
  <2>3. /\ minted + 1 \in Gens /\ minted' \in Gens /\ lapsed' \in 0 .. minted'
        /\ live' \in SUBSET Gens /\ grant' \in [Gens -> Gens \cup {None}]
    BY <2>1, <2>2, MintTypes DEF ImportRedeems, Rotate
  <2>4. signIn' \in [Procs -> SignInRecord]
    <3>1. (kind = "anthropic") \in BOOLEAN
      OBVIOUS
    <3> QED BY <1>3, <2>3, <3>1, SignInMoves, SignInEnds DEF ImportAnswered, ImportAnswerLost
  <2>5. imported' \in SUBSET Gens /\ login' = login
    BY <2>1, <2>2 DEF ImportRedeems, Rotate, TypeOK
  <2>6. troubles' \in Nat
    BY <1>3 DEF ImportAnswered, ImportAnswerLost, Trouble, TypeOK
  <2>7. UNCHANGED <<kind, account, cli, intent, lock, flight, verdicts, redeemed, asked,
                    late, spoilt>>
    BY <1>3 DEF ImportAnswered, ImportAnswerLost
  <2> QED BY <2>3, <2>4, <2>5, <2>6, <2>7 DEF TypeOK
<1>4. CASE ImportFails(p) \/ SignInFails(p)
  <2>1. signIn' \in [Procs -> SignInRecord]
    BY <1>4, SignInEnds DEF ImportFails, SignInFails
  <2>2. troubles' \in Nat
    BY <1>4 DEF ImportFails, SignInFails, Trouble, TypeOK
  <2>3. UNCHANGED <<kind, account, cli, intent, lock, flight, verdicts, clock, live, history>>
    BY <1>4 DEF ImportFails, SignInFails
  <2> QED BY <2>1, <2>2, <2>3 DEF TypeOK, clock, history, imports
<1>5. CASE SaveSignIn(p)
  <2>1. signIn[p].gen \in Gens /\ grant[signIn[p].gen] \in Gens /\ signIn[p].local \in BOOLEAN
    BY <1>5, IssuedAreGens DEF SaveSignIn, SignInsSound, IssuedOnly, TypeOK, SignInRecord
  <2>2. account' \in AccountRecord
    BY <1>5, <2>1, CredentialIsAccount DEF SaveSignIn
  <2>3. signIn' \in [Procs -> SignInRecord]
    BY <1>5, SignInEnds DEF SaveSignIn
  <2>4. late' \in BOOLEAN
    BY <1>5 DEF SaveSignIn, TypeOK
  <2> QED BY <1>5, <2>1, <2>2, <2>3, <2>4 DEF SaveSignIn, TypeOK, clock
<1> QED BY <1>1, <1>2, <1>3, <1>4, <1>5 DEF SignInStep

LEMMA WorldTypes ==
    ASSUME TypeOK, IssuedOnly, SignInsSound, WorldStep
    PROVE  TypeOK'
<1>1. account \in AccountRecord
  BY DEF TypeOK
<1>2. ASSUME NEW p \in Procs, SignInStep(p)
      PROVE  TypeOK'
  BY <1>2, SignInTypes
<1>3. CASE Remove
  BY <1>3, CredentialIsAccount DEF Remove, TypeOK, Trouble, clock, history, imports
<1>4. CASE CliMoves
  <2>1. PICK spent, under \in Gens \cup {None} : Mint(spent, under)
    BY <1>4, Numbers DEF CliMoves, TypeOK
  <2>2. /\ minted + 1 \in Gens /\ minted' \in Gens /\ lapsed' \in 0 .. minted'
        /\ live' \in SUBSET Gens /\ grant' \in [Gens -> Gens \cup {None}]
    BY <2>1, MintTypes
  <2> QED BY <1>4, <2>2 DEF CliMoves, TypeOK, imports
<1>5. CASE IntentSpoils
  BY <1>5, Numbers DEF IntentSpoils, TypeOK, Trouble, clock, imports
<1>6. CASE \E g \in Gens : Revoke(g)
  BY <1>6 DEF Revoke, TypeOK, Trouble, clock, history, imports
<1>7. ASSUME NEW p \in Procs, Crash(p)
      PROVE  TypeOK'
  <2>1. lock' \in [owner : Procs \cup {Nobody, Dead}, old : BOOLEAN]
    BY <1>7 DEF Crash, TypeOK
  <2> QED BY <1>7, <2>1, NoFlightIsFlight, SignInEnds DEF Crash, TypeOK, Trouble, clock,
             history, imports
<1>8. ASSUME NEW p \in Procs, VerdictsExpire(p)
       PROVE  TypeOK'
  BY <1>8 DEF VerdictsExpire, TypeOK, clock, history, imports
<1>9. CASE LockAges
  <2>1. troubles' \in Nat
    BY <1>9 DEF LockAges, TypeOK, Trouble
  <2>2. lock' \in [owner : Procs \cup {Nobody, Dead}, old : BOOLEAN]
    BY <1>9 DEF LockAges, TypeOK
  <2> QED BY <1>9, <2>1, <2>2 DEF LockAges, TypeOK, clock, history, imports
<1>10. CASE TimePasses
  <2>1. lapsed' \in 0 .. minted'
    BY <1>10, OAuthConstants DEF TimePasses, TypeOK, Gens
  <2> QED BY <1>10, <2>1 DEF TimePasses, TypeOK, history, imports
<1> QED BY <1>2, <1>3, <1>4, <1>5, <1>6, <1>7, <1>8, <1>9, <1>10 DEF WorldStep

-----------------------------------------------------------------------------
(* The steps of the invariant, by what they change.                        *)

LEMMA QuietFacts ==
    ASSUME IInv, TypeOK', Quiet
    PROVE  /\ IssuedOnly' /\ IntentsAreSent' /\ LatestLoginWins' /\ MarkHasReason'
           /\ \A g : Doubtful(g)' <=> Doubtful(g)
  BY DEF IInv, Quiet, clock, imports, IssuedOnly, Issued, IntentsAreSent, LatestLoginWins,
     MarkHasReason,
         Doubtful

(* No refresh that matters to a sign-in is new, nor is the account. *)
LEMMA SignInsStay ==
    ASSUME IInv, SignInsEnd, cli' = cli,
           minted' = minted \/ Issued' = Issued \cup {minted + 1},
           account'.gen \in {account.gen, None},
           \A q \in Procs : \/ flight'[q] = flight[q]
                            \/ flight'[q].pc \notin {"answered", "adopting"}
    PROVE  SignInsSound'
<1> SUFFICES ASSUME NEW s \in Procs, SignsIn(s, "saving")'
             PROVE  LET g == signIn'[s].gen IN
                    /\ g \in Issued'
                    /\ account'.gen = g => g <= cli'
                    /\ \A q \in Procs :
                         /\ At(q, "answered")' => flight'[q].fresh # g
                         /\ At(q, "adopting")' /\ flight'[q].gen = g => g < flight'[q].fresh
                         /\ q # s /\ SignsIn(q, "saving")' /\ signIn'[q].gen = g => g <= cli'
  BY DEF SignInsSound
<1>1. signIn'[s] = signIn[s] /\ SignsIn(s, "saving")
  BY DEF SignInsEnd, SignsIn
<1>2. signIn[s].gen \in Issued /\ Issued \subseteq Issued' /\ signIn[s].gen # None
  BY <1>1, IssuedAreGens, Numbers DEF IInv, SignInsSound, Issued
<1> QED BY <1>1, <1>2 DEF IInv, SignInsSound, SignInsEnd, SignsIn, At

(* A refresh starts, waits for the lock, takes it, or ends; or only the
   lock or the verdicts change. *)
LEMMA Settles ==
    ASSUME IInv, TypeOK', Quiet, NEW p \in Procs, NEW y, Moves(p, y),
           y.pc \in {"idle", "locking", "holding"}, y.clear \in {None, flight[p].clear},
           kind = "anthropic" /\ ~late /\ y.pc # "idle" => y.caller <= lapsed
    PROVE  IInv'
<1>1. flight'[p] = y /\ \A q \in Procs \ {p} : flight'[q] = flight[q]
  BY DEF Moves
<1>2. UNCHANGED <<kind, account, cli, intent, minted, lapsed, live, redeemed, asked,
                  grant, login, spoilt, late>>
  BY DEF Quiet, clock, imports
<1>3. /\ IssuedOnly' /\ IntentsAreSent' /\ LatestLoginWins' /\ MarkHasReason'
      /\ \A g : Doubtful(g)' <=> Doubtful(g)
  BY QuietFacts
<1>4. \A q \in Procs : FlightSound(q)'
  BY <1>1, <1>2, <1>3, Numbers DEF IInv, FlightSound, Issued
<1>5. AnswersAreNew' /\ AdoptionsLeadOn' /\ SignInsSound'
  <2>1. AnswersAreNew' /\ AdoptionsLeadOn'
    BY <1>1, <1>2 DEF IInv, AnswersAreNew, AdoptionsLeadOn, At
  <2>2. SignInsSound'
    BY <1>1, <1>2, SignInsStay DEF Quiet
  <2> QED BY <2>1, <2>2
<1>6. AnthropicInv'
  <2> SUFFICES ASSUME kind = "anthropic", ~late PROVE AnthropicInv'
    BY <1>2 DEF AnthropicInv
  <2>1. SentAreLapsed'
    BY <1>1, <1>2 DEF IInv, AnthropicInv, SentAreLapsed, At
  <2>2. SentOnce' /\ AdoptionsAreNew'
    BY <1>1, <1>2 DEF IInv, AnthropicInv, SentOnce, AdoptionsAreNew, At
  <2>3. SentIsRemembered' /\ ClearsAreSpent'
    BY <1>1, <1>2 DEF IInv, AnthropicInv, SentIsRemembered, ClearsAreSpent
  <2> QED BY <2>1, <2>2, <2>3 DEF AnthropicInv
<1> QED BY <1>3, <1>4, <1>5, <1>6 DEF IInv

(* Only the lock or the verdicts change. *)
LEMMA Waits ==
    ASSUME IInv, TypeOK', Quiet, flight' = flight
    PROVE  IInv'
<1>1. UNCHANGED <<kind, account, cli, intent, minted, lapsed, live, redeemed, asked,
                  grant, login, spoilt, flight, late>>
  BY DEF Quiet, clock, imports
<1>2. IssuedOnly' /\ IntentsAreSent' /\ LatestLoginWins' /\ MarkHasReason'
  BY QuietFacts
<1>3. \A q \in Procs : FlightSound(q)'
  BY <1>1 DEF IInv, FlightSound, Issued, Doubtful
<1>4. AnswersAreNew' /\ AdoptionsLeadOn' /\ SignInsSound'
  <2>1. AnswersAreNew' /\ AdoptionsLeadOn'
    BY <1>1 DEF IInv, AnswersAreNew, AdoptionsLeadOn, At
  <2>2. SignInsSound'
    BY <1>1, SignInsStay DEF Quiet
  <2> QED BY <2>1, <2>2
<1>5. AnthropicInv'
  BY <1>1 DEF IInv, AnthropicInv, SentAreLapsed, SentOnce, AdoptionsAreNew, SentIsRemembered,
              ClearsAreSpent, At
<1> QED BY <1>2, <1>3, <1>4, <1>5 DEF IInv

(* The account's own intent, or the server, refuses a generation. *)
LEMMA Refuses ==
    ASSUME IInv, TypeOK', Quiet, NEW p \in Procs, NEW y, Moves(p, y),
           y.pc = "refused", y.gen \in Issued, Doubtful(y.gen),
           y.clear = None \/ (y.clear = y.gen /\ y.gen \in asked)
    PROVE  IInv'
<1>1. flight'[p] = y /\ \A q \in Procs \ {p} : flight'[q] = flight[q]
  BY DEF Moves
<1>2. UNCHANGED <<kind, account, cli, intent, minted, lapsed, live, redeemed, asked,
                  grant, login, spoilt, late>>
  BY DEF Quiet, clock, imports
<1>3. /\ IssuedOnly' /\ IntentsAreSent' /\ LatestLoginWins' /\ MarkHasReason'
      /\ \A g : Doubtful(g)' <=> Doubtful(g)
  BY QuietFacts
<1>4. y.clear # Unreadable
  BY Numbers DEF IInv, TypeOK
<1>5. \A q \in Procs : FlightSound(q)'
  BY <1>1, <1>2, <1>3, <1>4, Numbers DEF IInv, FlightSound, Issued
<1>6. AnswersAreNew' /\ AdoptionsLeadOn' /\ SignInsSound'
  <2>1. AnswersAreNew' /\ AdoptionsLeadOn'
    BY <1>1, <1>2 DEF IInv, AnswersAreNew, AdoptionsLeadOn, At
  <2>2. SignInsSound'
    BY <1>1, <1>2, SignInsStay DEF Quiet
  <2> QED BY <2>1, <2>2
<1>7. AnthropicInv'
  <2> SUFFICES ASSUME kind = "anthropic", ~late PROVE AnthropicInv'
    BY <1>2 DEF AnthropicInv
  <2>1. SentAreLapsed'
    BY <1>1, <1>2 DEF IInv, AnthropicInv, SentAreLapsed, At
  <2>2. SentOnce' /\ AdoptionsAreNew'
    BY <1>1, <1>2 DEF IInv, AnthropicInv, SentOnce, AdoptionsAreNew, At
  <2>3. SentIsRemembered' /\ ClearsAreSpent'
    BY <1>1, <1>2 DEF IInv, AnthropicInv, SentIsRemembered, ClearsAreSpent
  <2> QED BY <2>1, <2>2, <2>3 DEF AnthropicInv
<1> QED BY <1>3, <1>5, <1>6, <1>7 DEF IInv

LEMMA AdoptsStep ==
    ASSUME IInv, TypeOK', NEW p \in Procs, Adopts(p), Stable
    PROVE  IInv'
<1> DEFINE clear == IF kind = "anthropic" THEN intent ELSE None
           y == [pc |-> "adopting", caller |-> flight[p].caller, gen |-> account.gen,
                 fresh |-> cli, clear |-> clear]
<1>1. /\ TypeOK /\ IssuedOnly /\ IntentsAreSent /\ account.here /\ Fresh(cli)
      /\ cli # account.gen /\ cli \in Issued /\ account.gen \in Issued
  <2>1. cli # None /\ cli \in 0 .. minted
    BY DEF Adopts, CliIsNewer, Fresh, IInv, IssuedOnly
  <2>2. cli \in 1 .. minted
    BY <2>1 DEF None, IInv, TypeOK, Gens
  <2> QED BY <2>2 DEF Adopts, CliIsNewer, IInv, IssuedOnly, Issued
<1>2. flight'[p] = y /\ \A q \in Procs \ {p} : flight'[q] = flight[q]
  <2>1. Go(p, "adopting", account.gen, cli, clear)
    BY DEF Adopts
  <2>2. /\ account.gen \in Gens \cup {None} /\ cli \in Gens \cup {None}
        /\ clear \in 0 .. MaxGen + 1 /\ "adopting" \in Pcs
    BY <1>1, Numbers DEF TypeOK, AccountRecord, Pcs
  <2> HIDE DEF clear
  <2> QED BY <1>1, <2>1, <2>2, GoMoves DEF Moves
<1>3. Quiet /\ UNCHANGED <<kind, account, cli, intent, minted, lapsed, live, redeemed, asked,
                  grant, login, spoilt, late>>
  BY DEF Stable, Adopts, Quiet, SignInsEnd, clock, imports
<1>4. /\ IssuedOnly' /\ IntentsAreSent' /\ LatestLoginWins' /\ MarkHasReason'
      /\ \A g : Doubtful(g)' <=> Doubtful(g)
  BY <1>3, QuietFacts
<1>5. (y.clear = Unreadable => spoilt) /\ (y.clear \in Gens => y.clear \in asked)
  BY <1>1, Numbers DEF IntentsAreSent
<1> HIDE DEF clear
<1>6. \A q \in Procs : FlightSound(q)'
  BY <1>1, <1>2, <1>3, <1>4, <1>5 DEF IInv, FlightSound, Issued
<1>7. AnswersAreNew'
  BY <1>2, <1>3 DEF IInv, AnswersAreNew, At
<1>8. AdoptionsLeadOn' /\ SignInsSound'
  <2>1. AdoptionsLeadOn'
    BY <1>1, <1>2, <1>3 DEF IInv, AdoptionsLeadOn, At, Issued, TypeOK, Gens
  <2>2. UNCHANGED signIn /\ y.pc = "adopting" /\ y.gen = account.gen /\ y.fresh = cli
    BY DEF Stable
  <2> HIDE DEF y
  <2>3. SignInsSound'
    BY <1>1, <1>2, <1>3, <2>2 DEF IInv, SignInsSound, SignsIn, At, Issued, TypeOK, Gens
  <2> QED BY <2>1, <2>3
<1>9. AnthropicInv'
  <2> SUFFICES ASSUME kind = "anthropic", ~late PROVE AnthropicInv'
    BY <1>3 DEF AnthropicInv
  <2>1. SentAreLapsed'
    BY <1>2, <1>3 DEF IInv, AnthropicInv, SentAreLapsed, At
  <2>2. cli \notin asked /\ \A g \in asked : g < cli
    BY <1>1 DEF IInv, AnthropicInv, SentAreLapsed, Fresh, TypeOK, Issued, Gens
  <2>3. SentOnce' /\ AdoptionsAreNew'
    BY <1>2, <1>3, <2>2 DEF IInv, AnthropicInv, SentOnce, AdoptionsAreNew, At
  <2>4. SentIsRemembered' /\ ClearsAreSpent'
    BY <1>2, <1>3 DEF IInv, AnthropicInv, SentIsRemembered, ClearsAreSpent
  <2> QED BY <2>1, <2>3, <2>4 DEF AnthropicInv
<1> QED BY <1>4, <1>6, <1>7, <1>8, <1>9 DEF IInv

(* A generation is sent: any number of times for other providers, ... *)
LEMMA AsksFreelyStep ==
    ASSUME IInv, TypeOK', NEW p \in Procs, AsksFreely(p), Stable
    PROVE  IInv'
<1>1. PICK g \in {account.gen, cli} : Ask(p, g) /\ g \in Issued
  <2>1. CliIsNewer => cli \in Issued
    BY DEF CliIsNewer, Fresh, IInv, IssuedOnly, TypeOK, Issued, None, Gens
  <2>2. account.gen \in Issued
    BY DEF AsksFreely, IInv, IssuedOnly
  <2> QED BY <2>1, <2>2 DEF AsksFreely
<1> DEFINE y == [pc |-> "asking", caller |-> flight[p].caller, gen |-> g,
                 fresh |-> None, clear |-> None]
<1>2. flight'[p] = y /\ \A q \in Procs \ {p} : flight'[q] = flight[q]
  <2>1. g \in Gens \cup {None}
    BY <1>1 DEF IInv, TypeOK, AccountRecord
  <2> QED BY <1>1, <2>1, GoMoves, Numbers DEF Ask, IInv, Moves, Pcs
<1>3. /\ asked' = asked \cup {g} /\ kind # "anthropic"
      /\ UNCHANGED <<kind, account, cli, intent, minted, lapsed, live, redeemed,
                     grant, login, spoilt, late>>
  BY <1>1 DEF Stable, AsksFreely, Ask, clock, imports
<1>4. IssuedOnly' /\ IntentsAreSent' /\ LatestLoginWins' /\ MarkHasReason'
  BY <1>1, <1>3 DEF IInv, IssuedOnly, Issued, IntentsAreSent, LatestLoginWins, MarkHasReason
<1>5. \A q \in Procs : FlightSound(q)'
  BY <1>2, <1>3, Numbers DEF IInv, FlightSound, Issued, Doubtful
<1>6. AnswersAreNew' /\ AdoptionsLeadOn' /\ SignInsSound'
  <2>1. AnswersAreNew' /\ AdoptionsLeadOn'
    BY <1>1, <1>2, <1>3 DEF IInv, AnswersAreNew, AdoptionsLeadOn, At
  <2>2. SignInsSound'
    BY <1>2, <1>3, SignInsStay DEF Stable, SignInsEnd
  <2> QED BY <2>1, <2>2
<1> QED BY <1>3, <1>4, <1>5, <1>6 DEF IInv, AnthropicInv

(* ... and once for Anthropic, after the intent was written. *)
LEMMA AsksOnRecordStep ==
    ASSUME IInv, TypeOK', NEW p \in Procs, AsksOnRecord(p), Stable, At(p, "holding")
    PROVE  IInv' /\ (~late => account.gen \notin asked) /\ flight'[p].gen = account.gen
<1> DEFINE g == account.gen
           y == [pc |-> "asking", caller |-> flight[p].caller, gen |-> g,
                 fresh |-> None, clear |-> None]
<1>1. g \in Issued /\ g \in Gens /\ Ask(p, g) /\ account.here /\ ~account.needsReauth
  BY IssuedAreGens DEF AsksOnRecord, IInv, IssuedOnly
<1>2. flight'[p] = y /\ \A q \in Procs \ {p} : flight'[q] = flight[q]
  BY <1>1, GoMoves, Numbers DEF Ask, IInv, Moves, Pcs
<1>3. /\ asked' = asked \cup {g} /\ kind = "anthropic" /\ intent' = g
      /\ intent # g /\ intent # Unreadable
      /\ UNCHANGED <<kind, account, cli, minted, lapsed, live, redeemed,
                     grant, login, spoilt, late>>
  BY <1>1 DEF Stable, AsksOnRecord, Ask, clock, imports
<1>4. IssuedOnly' /\ IntentsAreSent' /\ LatestLoginWins' /\ MarkHasReason'
  BY <1>1, <1>3, Numbers DEF IInv, IssuedOnly, Issued, IntentsAreSent, LatestLoginWins,
     MarkHasReason
<1>5. \A q \in Procs : FlightSound(q)'
  BY <1>2, <1>3, Numbers DEF IInv, FlightSound, Issued, Doubtful
<1>6. AnswersAreNew' /\ AdoptionsLeadOn' /\ SignInsSound'
  <2>1. AnswersAreNew' /\ AdoptionsLeadOn'
    BY <1>1, <1>2, <1>3 DEF IInv, AnswersAreNew, AdoptionsLeadOn, At
  <2>2. SignInsSound'
    BY <1>2, <1>3, SignInsStay DEF Stable, SignInsEnd
  <2> QED BY <2>1, <2>2
<1>7. ASSUME ~late PROVE g \notin asked
  BY <1>1, <1>3, <1>7 DEF IInv, AnthropicInv, SentIsRemembered
<1>8. AnthropicInv'
  <2> SUFFICES ASSUME ~late PROVE AnthropicInv'
    BY <1>3 DEF AnthropicInv
  <2>1. g \in 1 .. lapsed
    <3>1. g = flight[p].caller \/ ~Fresh(g)
      BY DEF AsksOnRecord, AlreadyRefreshed
    <3>2. flight[p].caller <= lapsed
      BY <1>3 DEF IInv, AnthropicInv, SentAreLapsed
    <3>3. g \in Nat /\ g >= 1 /\ lapsed \in Int /\ g # None
      BY <1>1, Numbers DEF IInv, TypeOK, Gens
    <3>4. g <= lapsed
      <4>1. CASE g = flight[p].caller
        BY <3>2, <4>1
      <4>2. CASE ~Fresh(g)
        BY <3>3, <4>2 DEF Fresh
      <4> QED BY <3>1, <4>1, <4>2
    <3> QED BY <3>3, <3>4
  <2>2. SentAreLapsed'
    BY <1>2, <1>3, <2>1 DEF IInv, AnthropicInv, SentAreLapsed, At
  <2>3. SentOnce'
    BY <1>2, <1>3, <1>7 DEF IInv, AnthropicInv, SentOnce, At, IssuedOnly, FlightSound
  <2>4. AdoptionsAreNew'
    BY <1>2, <1>3 DEF IInv, AnthropicInv, AdoptionsAreNew, AdoptionsLeadOn, At
  <2>5. SentIsRemembered'
    BY <1>1, <1>3 DEF SentIsRemembered
  <2>6. ClearsAreSpent'
    BY <1>1, <1>2, <1>3, Numbers DEF IInv, AnthropicInv, ClearsAreSpent
  <2> QED BY <2>2, <2>3, <2>4, <2>5, <2>6 DEF AnthropicInv
<1> QED BY <1>2, <1>4, <1>5, <1>6, <1>7, <1>8 DEF IInv

(* An intent of another generation is removed by one who finds the account
   refreshed or marked. *)
LEMMA DropsIntentStep ==
    ASSUME IInv, TypeOK', NEW p \in Procs, DropsIntent(p), Stable
    PROVE  IInv'
<1>1. flight'[p] = NoFlight /\ \A q \in Procs \ {p} : flight'[q] = flight[q]
  BY EndTypes DEF DropsIntent, IInv, Moves
<1>2. /\ kind = "anthropic" /\ intent' = None /\ intent \notin {Unreadable, account.gen}
      /\ UNCHANGED <<kind, account, cli, minted, lapsed, live, asked, redeemed,
                     grant, login, spoilt, late>>
  BY DEF Stable, DropsIntent, clock, imports
<1>3. IssuedOnly' /\ IntentsAreSent' /\ LatestLoginWins' /\ MarkHasReason'
  BY <1>2, Numbers DEF IInv, IssuedOnly, Issued, IntentsAreSent, LatestLoginWins, MarkHasReason
<1>4. \A q \in Procs : FlightSound(q)'
  BY <1>1, <1>2, Numbers DEF IInv, FlightSound, Issued, Doubtful, NoFlight
<1>5. AnswersAreNew' /\ AdoptionsLeadOn' /\ SignInsSound'
  <2>1. AnswersAreNew' /\ AdoptionsLeadOn'
    BY <1>1, <1>2 DEF IInv, AnswersAreNew, AdoptionsLeadOn, At, NoFlight
  <2>2. SignInsSound'
    BY <1>1, <1>2, SignInsStay DEF Stable, SignInsEnd, NoFlight
  <2> QED BY <2>1, <2>2
<1>6. AnthropicInv'
  <2> SUFFICES ASSUME ~late PROVE AnthropicInv'
    BY <1>2 DEF AnthropicInv
  <2>1. SentAreLapsed' /\ SentOnce' /\ AdoptionsAreNew'
    BY <1>1, <1>2 DEF IInv, AnthropicInv, SentAreLapsed, SentOnce, AdoptionsAreNew, At, NoFlight
  <2>2. SentIsRemembered' /\ ClearsAreSpent'
    BY <1>1, <1>2, Numbers DEF IInv, AnthropicInv, SentIsRemembered, ClearsAreSpent, NoFlight
  <2> QED BY <2>1, <2>2 DEF AnthropicInv
<1> QED BY <1>3, <1>4, <1>5, <1>6 DEF IInv

-----------------------------------------------------------------------------
(* A new generation is issued.                                             *)

LEMMA MintFacts ==
    ASSUME TypeOK, IssuedOnly, NEW spent, NEW under \in Gens \cup {None}, Mint(spent, under)
    PROVE  /\ minted' = minted + 1 /\ lapsed' = lapsed /\ minted + 1 \in Gens
           /\ Issued' = Issued \cup {minted + 1} /\ minted + 1 \notin Issued
           /\ \A g \in Issued : grant'[g] = grant[g]
           /\ grant'[minted + 1] = IF under = None THEN minted + 1 ELSE under
           /\ \A g \in Issued' : grant'[g] \in Gens
           /\ live' \subseteq Issued' /\ spent \notin (live' \ {minted + 1})
           /\ \A g \in Issued : g \notin live => g \notin live'
<1>1. /\ minted \in 1 .. MaxGen /\ minted < MaxGen /\ minted' = minted + 1 /\ lapsed' = lapsed
      /\ live' = (live \ {spent}) \cup {minted + 1}
      /\ grant' = [grant EXCEPT ![minted + 1] = IF under = None THEN minted + 1 ELSE under]
  BY DEF TypeOK, Mint, Gens
<1>2. minted + 1 \in Gens /\ Issued' = Issued \cup {minted + 1} /\ minted + 1 \notin Issued
  BY <1>1, OAuthConstants DEF Gens, Issued
<1>3. /\ \A g \in Issued : grant'[g] = grant[g]
      /\ grant'[minted + 1] = IF under = None THEN minted + 1 ELSE under
  BY <1>1, <1>2, IssuedAreGens DEF TypeOK
<1>4. \A g \in Issued' : grant'[g] \in Gens
  <2>1. grant'[minted + 1] \in Gens
    BY <1>2, <1>3
  <2> QED BY <1>2, <1>3, <2>1 DEF IssuedOnly
<1>5. live' \subseteq Issued' /\ spent \notin (live' \ {minted + 1})
      /\ \A g \in Issued : g \notin live => g \notin live'
  BY <1>1, <1>2 DEF IssuedOnly
<1> QED BY <1>1, <1>2, <1>3, <1>4, <1>5

(* Nothing but the server, the clock and the trouble of it moves. *)
LEMMA MintKeeps ==
    ASSUME IInv, NEW spent, NEW under \in Gens \cup {None}, Mint(spent, under),
           UNCHANGED <<kind, asked, spoilt, late>>
    PROVE  /\ \A g \in Issued : Doubtful(g) => Doubtful(g)'
           /\ kind = "anthropic" /\ ~late => asked \subseteq 1 .. lapsed'
           /\ \A q \in Procs : FlightSound(q) /\ flight'[q] = flight[q] => FlightSound(q)'
<1>1. TypeOK /\ IssuedOnly
  BY DEF IInv
<1>2. \A g \in Issued : Doubtful(g) => Doubtful(g)'
  BY <1>1, MintFacts DEF Doubtful
<1>3. kind = "anthropic" /\ ~late => asked \subseteq 1 .. lapsed'
  BY <1>1, MintFacts DEF IInv, AnthropicInv, SentAreLapsed
<1>4. ASSUME NEW q \in Procs, FlightSound(q), flight'[q] = flight[q]
      PROVE  FlightSound(q)'
  <2>1. UNCHANGED flight[q] /\ (flight[q].pc \in {"asking", "answered"} => flight[q].gen \in Issued)
    BY <1>1, <1>4 DEF FlightSound, IssuedOnly
  <2> QED BY <1>1, <1>2, <1>4, <2>1, MintFacts DEF FlightSound
<1> QED BY <1>2, <1>3, <1>4

LEMMA ServerAnswersStep ==
    ASSUME IInv, TypeOK', NEW p \in Procs, ServerAnswers(p)
    PROVE  IInv'
<1> DEFINE g == flight[p].gen
           m == minted + 1
           y == [pc |-> "answered", caller |-> flight[p].caller, gen |-> g,
                 fresh |-> m, clear |-> flight[p].clear]
<1>1. /\ TypeOK /\ IssuedOnly /\ FlightSound(p) /\ flight[p].pc = "asking"
      /\ g \in asked /\ g \in Issued /\ g \in Gens /\ flight[p].clear = None
  BY IssuedAreGens DEF IInv, ServerAnswers, Redeem, At, FlightSound, IssuedOnly
<1>2. grant[g] \in Gens /\ Mint(g, grant[g])
  BY <1>1 DEF ServerAnswers, Redeem, Rotate, IssuedOnly
<1>3. /\ minted' = m /\ lapsed' = lapsed /\ m \in Gens
      /\ Issued' = Issued \cup {m} /\ m \notin Issued
      /\ \A i \in Issued : grant'[i] = grant[i]
      /\ grant'[m] = grant[g]
      /\ \A i \in Issued' : grant'[i] \in Gens
      /\ live' \subseteq Issued'
      /\ \A i \in Issued : i \notin live => i \notin live'
  BY <1>1, <1>2, MintFacts, Numbers
<1>4. flight'[p] = y /\ \A q \in Procs \ {p} : flight'[q] = flight[q]
  BY <1>1, <1>3, AnswerMoves DEF ServerAnswers, Moves
<1>5. /\ redeemed' = redeemed \cup {g}
      /\ UNCHANGED <<kind, account, cli, intent, asked, login, spoilt, late>>
  BY DEF ServerAnswers, Redeem, Rotate, imports
<1>6. /\ \A i \in Issued : Doubtful(i) => Doubtful(i)'
      /\ kind = "anthropic" /\ ~late => asked \subseteq 1 .. lapsed'
      /\ \A q \in Procs : FlightSound(q) /\ flight'[q] = flight[q] => FlightSound(q)'
  BY <1>2, <1>5, MintKeeps
<1> HIDE DEF g, m
<1>7. IssuedOnly'
  <2>1. cli \in 0 .. minted'
    BY <1>3 DEF IInv, IssuedOnly, TypeOK, Gens, m
  <2> QED BY <1>1, <1>3, <1>5, <2>1 DEF IssuedOnly
<1>8. IntentsAreSent' /\ LatestLoginWins' /\ MarkHasReason'
  BY <1>1, <1>3, <1>5 DEF IInv, IssuedOnly, IntentsAreSent, LatestLoginWins, MarkHasReason,
     NoAccount
<1>9. \A q \in Procs : FlightSound(q)'
  <2>1. FlightSound(p)'
    BY <1>1, <1>3, <1>4, <1>5, Numbers DEF FlightSound
  <2> QED BY <1>4, <1>6, <2>1 DEF IInv
<1>10. AnswersAreNew'
  <2>1. m \notin asked /\ account.gen # m /\ cli # m
    <3>1. account.gen # m
      BY <1>1, <1>3, Numbers DEF IssuedOnly, NoAccount
    <3>2. cli # m
      BY <1>1 DEF IssuedOnly, TypeOK, Gens, m
    <3> QED BY <1>1, <1>3, <3>1, <3>2 DEF IssuedOnly
  <2>2. \A q \in Procs : At(q, "answered") \/ At(q, "adopting") => flight[q].fresh # m
    BY <1>3 DEF IInv, FlightSound, At
  <2>3. \A q \in Procs : At(q, "adopting") => flight[q].gen # m
    BY <1>3 DEF IInv, FlightSound, At
  <2> QED BY <1>4, <1>5, <2>1, <2>2, <2>3 DEF IInv, AnswersAreNew, At
<1>11. AdoptionsLeadOn'
  BY <1>4, <1>5 DEF IInv, AdoptionsLeadOn, At
<1>12. SignInsSound'
  <2>1. UNCHANGED signIn
    BY DEF ServerAnswers
  <2>2. y.pc = "answered" /\ y.fresh = m
    OBVIOUS
  <2> HIDE DEF y
  <2> QED BY <1>3, <1>4, <1>5, <2>1, <2>2 DEF IInv, SignInsSound, SignsIn, At
<1>13. AnthropicInv'
  <2> SUFFICES ASSUME kind = "anthropic", ~late PROVE AnthropicInv'
    BY <1>5 DEF AnthropicInv
  <2>1. SentAreLapsed'
    BY <1>3, <1>4, <1>5 DEF IInv, AnthropicInv, SentAreLapsed, At
  <2>2. SentOnce'
    BY <1>1, <1>4, <1>5 DEF IInv, AnthropicInv, SentOnce, At, g
  <2>3. AdoptionsAreNew'
    BY <1>4, <1>5 DEF IInv, AnthropicInv, AdoptionsAreNew, At
  <2>4. SentIsRemembered' /\ ClearsAreSpent'
    BY <1>4, <1>5 DEF IInv, AnthropicInv, SentIsRemembered, ClearsAreSpent
  <2> QED BY <2>1, <2>2, <2>3, <2>4 DEF AnthropicInv
<1> QED BY <1>7, <1>8, <1>9, <1>10, <1>11, <1>12, <1>13 DEF IInv

LEMMA AnswerLostStep ==
    ASSUME IInv, TypeOK', NEW p \in Procs, AnswerLost(p)
    PROVE  IInv'
<1> DEFINE g == flight[p].gen
           m == minted + 1
<1>1. /\ TypeOK /\ IssuedOnly /\ FlightSound(p) /\ flight[p].pc = "asking"
      /\ g \in asked /\ g \in Issued /\ g \in Gens /\ flight[p].clear = None
  BY IssuedAreGens DEF IInv, AnswerLost, Redeem, At, FlightSound, IssuedOnly
<1>2. grant[g] \in Gens /\ Mint(g, grant[g])
  BY <1>1 DEF AnswerLost, Redeem, Rotate, IssuedOnly
<1>3. /\ minted' = m /\ lapsed' = lapsed /\ m \in Gens
      /\ Issued' = Issued \cup {m} /\ m \notin Issued
      /\ \A i \in Issued : grant'[i] = grant[i]
      /\ \A i \in Issued' : grant'[i] \in Gens
      /\ live' \subseteq Issued'
      /\ \A i \in Issued : i \notin live => i \notin live'
  BY <1>1, <1>2, MintFacts, Numbers
<1>4. flight'[p] = NoFlight /\ \A q \in Procs \ {p} : flight'[q] = flight[q]
  BY <1>1, EndTypes DEF AnswerLost, Moves
<1>5. /\ redeemed' = redeemed \cup {g}
      /\ UNCHANGED <<kind, account, cli, intent, asked, login, spoilt, late>>
  BY DEF AnswerLost, Redeem, Rotate, imports
<1>6. /\ \A i \in Issued : Doubtful(i) => Doubtful(i)'
      /\ kind = "anthropic" /\ ~late => asked \subseteq 1 .. lapsed'
      /\ \A q \in Procs : FlightSound(q) /\ flight'[q] = flight[q] => FlightSound(q)'
  BY <1>2, <1>5, MintKeeps
<1> HIDE DEF g, m
<1>7. IssuedOnly'
  <2>1. cli \in 0 .. minted'
    BY <1>3 DEF IInv, IssuedOnly, TypeOK, Gens, m
  <2> QED BY <1>1, <1>3, <1>5, <2>1 DEF IssuedOnly
<1>8. IntentsAreSent' /\ LatestLoginWins' /\ MarkHasReason'
  BY <1>1, <1>3, <1>5 DEF IInv, IssuedOnly, IntentsAreSent, LatestLoginWins, MarkHasReason,
     NoAccount
<1>9. \A q \in Procs : FlightSound(q)'
  <2>1. FlightSound(p)'
    BY <1>1, <1>4, Numbers DEF FlightSound, NoFlight
  <2> QED BY <1>4, <1>6, <2>1 DEF IInv
<1>10. AnswersAreNew' /\ AdoptionsLeadOn' /\ SignInsSound'
  <2>1. AnswersAreNew' /\ AdoptionsLeadOn'
    BY <1>4, <1>5 DEF IInv, AnswersAreNew, AdoptionsLeadOn, At, NoFlight
  <2>2. SignInsSound'
    BY <1>3, <1>4, <1>5, SignInsStay DEF AnswerLost, SignInsEnd, NoFlight, m
  <2> QED BY <2>1, <2>2
<1>11. AnthropicInv'
  <2> SUFFICES ASSUME kind = "anthropic", ~late PROVE AnthropicInv'
    BY <1>5 DEF AnthropicInv
  <2>1. SentAreLapsed'
    BY <1>3, <1>4, <1>5 DEF IInv, AnthropicInv, SentAreLapsed, At, NoFlight
  <2>2. SentOnce'
    BY <1>1, <1>4, <1>5 DEF IInv, AnthropicInv, SentOnce, At, g, NoFlight
  <2>3. AdoptionsAreNew'
    BY <1>4, <1>5 DEF IInv, AnthropicInv, AdoptionsAreNew, At, NoFlight
  <2>4. SentIsRemembered' /\ ClearsAreSpent'
    BY <1>4, <1>5, Numbers DEF IInv, AnthropicInv, SentIsRemembered, ClearsAreSpent, NoFlight
  <2> QED BY <2>1, <2>2, <2>3, <2>4 DEF AnthropicInv
<1> QED BY <1>7, <1>8, <1>9, <1>10, <1>11 DEF IInv

-----------------------------------------------------------------------------
(* The account gets another credential.                                    *)

(* It is one that was never sent, that no answer brings any more; a sign-in
   or an adoption that has to do with it is the local tool's. *)
LEMMA AccountMoves ==
    ASSUME IInv, TypeOK', IssuedOnly', IntentsAreSent', \A q \in Procs : FlightSound(q)',
           NEW v, account'.here, account'.gen = v, ~account'.needsReauth, login' = grant'[v],
           kind = "anthropic" /\ ~late' => v \notin asked,
           \A q \in Procs : flight'[q] = flight[q] \/ flight'[q].pc = "leaving",
           kind = "anthropic" /\ ~late' => \A q, r \in Procs :
               /\ flight'[q].pc = "adopting" /\ flight[q].gen = v
               /\ flight'[r].pc = "adopting" /\ flight[r].fresh \in asked
               => flight[r].fresh < flight[q].fresh,
           \A q \in Procs : flight'[q].pc = "answered" => flight[q].fresh # v,
           SignInsEnd, \A s \in Procs : SignsIn(s, "saving")' /\ signIn[s].gen = v => v <= cli,
           late => late',
           UNCHANGED <<kind, cli, intent, asked, redeemed, spoilt, minted, lapsed>>
    PROVE  IInv'
<1>1. LatestLoginWins' /\ MarkHasReason'
  BY DEF LatestLoginWins, MarkHasReason
<1>2. AnswersAreNew' /\ AdoptionsLeadOn'
  BY DEF IInv, AnswersAreNew, AdoptionsLeadOn, At
<1>3. SignInsSound'
  BY DEF IInv, SignInsSound, SignInsEnd, SignsIn, At, Issued
<1>4. AnthropicInv'
  <2> SUFFICES ASSUME kind = "anthropic", ~late' PROVE AnthropicInv'
    BY DEF AnthropicInv
  <2>1. SentAreLapsed' /\ SentOnce' /\ SentIsRemembered'
    BY DEF IInv, AnthropicInv, SentAreLapsed, SentOnce, SentIsRemembered, At
  <2>2. AdoptionsAreNew'
    BY DEF AdoptionsAreNew, At
  <2>3. v \in Gens
    BY IssuedAreGens, OAuthConstants DEF IssuedOnly, Issued, TypeOK, Gens
  <2>4. ClearsAreSpent'
    BY <2>3 DEF FlightSound, ClearsAreSpent
  <2> QED BY <2>1, <2>2, <2>4 DEF AnthropicInv
<1> QED BY <1>1, <1>2, <1>3, <1>4 DEF IInv

LEMMA CredentialFields ==
    ASSUME NEW g, NEW local
    PROVE  /\ Credential(g, local).here /\ Credential(g, local).gen = g
           /\ ~Credential(g, local).needsReauth
  BY DEF Credential

(* A refresh has written what it had to, the account keeps its credential:
   one that was marked has a reason. *)
LEMMA Writes ==
    ASSUME IInv, TypeOK', NEW p \in Procs, NEW y, Moves(p, y), y.pc = "leaving",
           y.clear \in Gens => y.clear \in asked, y.clear = Unreadable => spoilt,
           kind = "anthropic" /\ ~late /\ account.here /\ y.clear = account.gen =>
                account'.needsReauth,
           kind = "anthropic" /\ ~late /\ y.clear = Unreadable /\ intent = Unreadable =>
                account.gen \notin asked,
           account' = account \/ (/\ account.here /\ Doubtful(account.gen)
                                  /\ account' = [account EXCEPT !.needsReauth = TRUE]),
           UNCHANGED <<kind, cli, intent, clock, live, redeemed, asked, grant, login, spoilt,
                       late>>,
           SignInsEnd
    PROVE  IInv'
<1>1. flight'[p] = y /\ \A q \in Procs \ {p} : flight'[q] = flight[q]
  BY DEF Moves
<1>2. UNCHANGED <<kind, cli, intent, minted, lapsed, live, redeemed, asked, grant, login,
                  spoilt, late>>
  BY DEF clock, imports
<1>3. /\ account'.here = account.here /\ account'.gen = account.gen
      /\ account.needsReauth => account'.needsReauth
      /\ account'.needsReauth => account.needsReauth \/ Doubtful(account.gen)
      /\ ~account'.here => account' = account
  BY Marked DEF IInv, TypeOK
<1>4. IssuedOnly' /\ IntentsAreSent' /\ LatestLoginWins'
  BY <1>2, <1>3 DEF IInv, IssuedOnly, Issued, IntentsAreSent, LatestLoginWins
<1>5. MarkHasReason'
  BY <1>2, <1>3 DEF IInv, MarkHasReason, Doubtful
<1>6. \A q \in Procs : FlightSound(q)'
  BY <1>1, <1>2 DEF IInv, FlightSound, Issued, Doubtful
<1>7. AnswersAreNew' /\ AdoptionsLeadOn' /\ SignInsSound'
  <2>1. AnswersAreNew' /\ AdoptionsLeadOn'
    BY <1>1, <1>2, <1>3 DEF IInv, AnswersAreNew, AdoptionsLeadOn, At
  <2>2. SignInsSound'
    BY <1>1, <1>2, <1>3, SignInsStay
  <2> QED BY <2>1, <2>2
<1>8. AnthropicInv'
  <2> SUFFICES ASSUME kind = "anthropic", ~late PROVE AnthropicInv'
    BY <1>2 DEF AnthropicInv
  <2>1. SentAreLapsed' /\ SentOnce' /\ AdoptionsAreNew'
    BY <1>1, <1>2, <1>3 DEF IInv, AnthropicInv, SentAreLapsed, SentOnce, AdoptionsAreNew, At
  <2>2. SentIsRemembered' /\ ClearsAreSpent'
    BY <1>1, <1>2, <1>3 DEF IInv, AnthropicInv, SentIsRemembered, ClearsAreSpent
  <2> QED BY <2>1, <2>2 DEF AnthropicInv
<1> QED BY <1>4, <1>5, <1>6, <1>7, <1>8 DEF IInv

LEMMA PersistStep == ASSUME IInv, TypeOK', NEW p \in Procs, Persist(p) PROVE IInv'
<1> DEFINE f == flight[p]
           clear == IF At(p, "adopting") THEN f.clear
                    ELSE IF kind = "anthropic" THEN f.gen ELSE None
           y == [pc |-> "leaving", caller |-> f.caller, gen |-> f.gen, fresh |-> f.fresh,
                 clear |-> clear]
<1>1. /\ TypeOK /\ IssuedOnly /\ FlightSound(p) /\ account.here
      /\ f.pc \in {"answered", "adopting"} /\ f.fresh \in Issued /\ f \in FlightRecord
      /\ f.pc = "answered" => f.gen \in asked /\ grant[f.fresh] = grant[f.gen]
  BY DEF IInv, Persist, At, FlightSound, TypeOK
<1>2. clear \in Gens => clear \in asked
  BY <1>1, Numbers DEF FlightSound, At
<1>3. clear = Unreadable => f.pc = "adopting" /\ spoilt
  BY <1>1, IssuedAreGens, Numbers DEF FlightSound, At, IssuedOnly
<1>4. Moves(p, y)
  <2>1. /\ f.gen \in Gens \cup {None} /\ f.fresh \in Gens \cup {None}
        /\ clear \in 0 .. MaxGen + 1
    BY <1>1, FlightFields, Numbers
  <2>2. Go(p, "leaving", f.gen, f.fresh, clear)
    BY DEF Persist
  <2> HIDE DEF clear
  <2> QED BY <1>1, <2>1, <2>2, GoMoves DEF Pcs
<1>5. flight'[p] = y /\ \A q \in Procs \ {p} : flight'[q] = flight[q]
  BY <1>4 DEF Moves
<1>6. UNCHANGED <<kind, cli, intent, minted, lapsed, live, redeemed, asked, grant, spoilt, late>>
  BY DEF Persist, clock, imports
<1>7. CASE account.gen = f.gen
  <2>1. account' = Credential(f.fresh, At(p, "adopting")) /\ login' = grant[f.fresh]
    BY <1>1, <1>7 DEF Persist, IInv, LatestLoginWins, At
  <2>2. account'.here /\ account'.gen = f.fresh /\ ~account'.needsReauth
    BY <2>1, CredentialFields
  <2>3. IssuedOnly' /\ IntentsAreSent'
    BY <1>1, <1>6, <2>2 DEF IInv, IssuedOnly, Issued, IntentsAreSent
  <2>4. \A q \in Procs : FlightSound(q)'
    BY <1>2, <1>3, <1>5, <1>6 DEF IInv, FlightSound, Issued, Doubtful
  <2>5. kind = "anthropic" /\ ~late => f.fresh \notin asked
    BY <1>1, <1>7 DEF IInv, AnthropicInv, AdoptionsAreNew, AnswersAreNew, At, Issued, TypeOK, Gens
  <2>6. ASSUME kind = "anthropic", ~late, NEW q \in Procs, NEW r \in Procs,
               flight'[q].pc = "adopting", flight[q].gen = f.fresh,
               flight'[r].pc = "adopting", flight[r].fresh \in asked
        PROVE  flight[r].fresh < flight[q].fresh
    <3>1. /\ flight[q].pc = "adopting" /\ flight[r].pc = "adopting"
          /\ flight[q].fresh \in Issued /\ flight[r].fresh \in Issued
      BY <1>5, <2>6 DEF IInv, FlightSound
    <3>2. f.pc = "adopting" /\ f.fresh < flight[q].fresh
      BY <1>1, <2>6, <3>1 DEF IInv, AnswersAreNew, AdoptionsLeadOn, At
    <3>3. flight[r].fresh < f.fresh
      BY <1>1, <1>7, <2>6, <3>1, <3>2 DEF IInv, AnthropicInv, AdoptionsAreNew, At
    <3> QED BY <1>1, <3>1, <3>2, <3>3, IssuedAreGens, Numbers
  <2>7. ASSUME NEW q \in Procs, flight'[q].pc = "answered" PROVE flight[q].fresh # f.fresh
    BY <1>1, <1>5, <2>7 DEF IInv, AnswersAreNew, At
  <2>8. \A q \in Procs : flight'[q] = flight[q] \/ flight'[q].pc = "leaving"
    BY <1>5
  <2>9. UNCHANGED signIn /\ SignInsEnd
    BY DEF Persist, SignInsEnd
  <2>10. ASSUME NEW s \in Procs, SignsIn(s, "saving")', signIn[s].gen = f.fresh
         PROVE  f.fresh <= cli
    BY <1>1, <2>9, <2>10 DEF IInv, SignInsSound, AdoptionsLeadOn, SignsIn, At
  <2> HIDE DEF f
  <2> QED BY <1>6, <2>1, <2>2, <2>3, <2>4, <2>5, <2>6, <2>7, <2>8, <2>9, <2>10, AccountMoves
<1>8. CASE account.gen # f.gen
  <2>1. account' = account /\ login' = login
    BY <1>8 DEF Persist
  <2>2. kind = "anthropic" /\ ~late => clear # account.gen
    BY <1>1, <1>8 DEF IInv, AnthropicInv, ClearsAreSpent, At
  <2>3. kind = "anthropic" /\ ~late /\ clear = Unreadable /\ intent = Unreadable =>
          account.gen \notin asked
    BY <1>1, <1>3, <1>8 DEF IInv, AnthropicInv, ClearsAreSpent, At
  <2>4. UNCHANGED clock
    BY <1>6 DEF clock
  <2>5. SignInsEnd
    BY DEF Persist, SignInsEnd
  <2> HIDE DEF clear
  <2> QED BY <1>2, <1>3, <1>4, <1>6, <2>1, <2>2, <2>3, <2>4, <2>5, Writes
<1> QED BY <1>7, <1>8

LEMMA MarkStep == ASSUME IInv, TypeOK', NEW p \in Procs, Mark(p) PROVE IInv'
<1> DEFINE f == flight[p]
           y == [pc |-> "leaving", caller |-> f.caller, gen |-> f.gen, fresh |-> f.fresh,
                 clear |-> f.clear]
<1>1. /\ TypeOK /\ IssuedOnly /\ FlightSound(p) /\ f.pc = "refused" /\ f.gen \in Issued
      /\ Doubtful(f.gen) /\ f.clear \in {None, f.gen} /\ (f.clear \in Gens => f.clear \in asked)
  BY DEF IInv, Mark, At, FlightSound
<1>2. f.clear # Unreadable /\ None \notin Issued
  BY <1>1, IssuedAreGens, Numbers
<1>3. Moves(p, y)
  BY <1>1, PhaseMoves DEF Mark, Pcs
<1>4. UNCHANGED <<kind, cli, intent, clock, live, redeemed, asked, grant, login, spoilt, late>>
  BY DEF Mark, history, imports
<1>5. account' = account \/ (/\ account.here /\ Doubtful(account.gen)
                             /\ account' = [account EXCEPT !.needsReauth = TRUE])
  BY <1>1 DEF Mark
<1>6. SignInsEnd
  BY DEF Mark, SignInsEnd
<1>7. account.here /\ f.clear = account.gen => account'.needsReauth
  BY <1>1, <1>2, Marked DEF Mark, IssuedOnly, TypeOK
<1> QED BY <1>1, <1>2, <1>3, <1>4, <1>5, <1>6, <1>7, Writes

LEMMA LeaveStep == ASSUME IInv, TypeOK', NEW p \in Procs, Leave(p) PROVE IInv'
<1> DEFINE c == flight[p].clear
<1>1. /\ TypeOK /\ FlightSound(p) /\ flight[p].pc = "leaving"
      /\ intent' = IF intent = c THEN None ELSE intent
  BY DEF IInv, Leave, At
<1>2. flight'[p] = NoFlight /\ \A q \in Procs \ {p} : flight'[q] = flight[q]
  BY <1>1, EndTypes DEF Leave, Moves
<1>3. UNCHANGED <<kind, account, cli, minted, lapsed, live, redeemed, asked, grant, login,
                  spoilt, late>>
  BY DEF Leave, clock, history, imports
<1>4. IssuedOnly' /\ IntentsAreSent' /\ LatestLoginWins' /\ MarkHasReason'
  BY <1>1, <1>3, Numbers DEF IInv, IssuedOnly, Issued, IntentsAreSent, LatestLoginWins,
     MarkHasReason
<1>5. \A q \in Procs : FlightSound(q)'
  BY <1>2, <1>3, Numbers DEF IInv, FlightSound, Issued, Doubtful, NoFlight
<1>6. AnswersAreNew' /\ AdoptionsLeadOn' /\ SignInsSound'
  <2>1. AnswersAreNew' /\ AdoptionsLeadOn'
    BY <1>2, <1>3 DEF IInv, AnswersAreNew, AdoptionsLeadOn, At, NoFlight
  <2>2. SignInsSound'
    BY <1>2, <1>3, SignInsStay DEF Leave, SignInsEnd, NoFlight
  <2> QED BY <2>1, <2>2
<1>7. AnthropicInv'
  <2> SUFFICES ASSUME kind = "anthropic", ~late PROVE AnthropicInv'
    BY <1>3 DEF AnthropicInv
  <2>1. SentAreLapsed' /\ SentOnce' /\ AdoptionsAreNew'
    BY <1>2, <1>3 DEF IInv, AnthropicInv, SentAreLapsed, SentOnce, AdoptionsAreNew, At, NoFlight
  <2>2. SentIsRemembered'
    <3> SUFFICES ASSUME account.here, account.gen \in asked, ~account.needsReauth
                 PROVE  intent' \in {account.gen, Unreadable}
      BY <1>3 DEF SentIsRemembered
    <3>1. intent \in {account.gen, Unreadable}
      BY DEF IInv, AnthropicInv, SentIsRemembered
    <3>2. intent # c
      BY <1>1, <3>1 DEF IInv, AnthropicInv, ClearsAreSpent
    <3> QED BY <1>1, <3>1, <3>2
  <2>3. ClearsAreSpent'
    BY <1>1, <1>2, <1>3, Numbers DEF IInv, AnthropicInv, ClearsAreSpent, NoFlight
  <2> QED BY <2>1, <2>2, <2>3 DEF AnthropicInv
<1> QED BY <1>4, <1>5, <1>6, <1>7 DEF IInv

-----------------------------------------------------------------------------
(* A sign-in.                                                              *)

(* The server issues a credential to a sign-in; its answer may be lost. *)
LEMMA SignInObtains ==
    ASSUME IInv, TypeOK', NEW p \in Procs, NEW spent, NEW under \in Gens \cup {None},
           Mint(spent, under), \A s \in Procs \ {p} : signIn'[s] = signIn[s],
           signIn'[p].pc = "saving" => signIn'[p].gen = minted + 1,
           UNCHANGED <<kind, account, cli, intent, flight, redeemed, asked, late, login, spoilt>>
    PROVE  IInv'
<1> DEFINE m == minted + 1
<1>1. TypeOK /\ IssuedOnly
  BY DEF IInv
<1>2. /\ minted' = m /\ lapsed' = lapsed /\ m \in Gens
      /\ Issued' = Issued \cup {m} /\ m \notin Issued
      /\ \A g \in Issued : grant'[g] = grant[g]
      /\ \A g \in Issued' : grant'[g] \in Gens
      /\ live' \subseteq Issued'
      /\ \A g \in Issued : g \notin live => g \notin live'
  BY <1>1, MintFacts
<1>3. /\ kind = "anthropic" /\ ~late => asked \subseteq 1 .. lapsed'
      /\ \A q \in Procs : FlightSound(q)'
  BY MintKeeps DEF IInv
<1>4. cli \in 0 .. minted' /\ cli # m
  BY <1>1, <1>2 DEF IssuedOnly, TypeOK, Gens
<1> HIDE DEF m
<1>5. IssuedOnly'
  BY <1>1, <1>2, <1>4 DEF IssuedOnly
<1>6. IntentsAreSent' /\ LatestLoginWins' /\ MarkHasReason'
  BY <1>1, <1>2 DEF IInv, IssuedOnly, IntentsAreSent, LatestLoginWins, MarkHasReason, NoAccount
<1>7. AnswersAreNew' /\ AdoptionsLeadOn'
  BY DEF IInv, AnswersAreNew, AdoptionsLeadOn, At
<1>8. SignInsSound'
  <2>1. account.gen # m
    BY <1>1, <1>2, Numbers DEF IssuedOnly, NoAccount
  <2>2. \A q \in Procs : /\ flight[q].pc = "adopting" => flight[q].gen # m
                         /\ flight[q].pc = "answered" => flight[q].fresh # m
    BY <1>2 DEF IInv, FlightSound
  <2>3. \A s \in Procs : signIn[s].pc = "saving" => signIn[s].gen # m
    BY <1>2 DEF IInv, SignInsSound, SignsIn
  <2> QED BY <1>2, <2>1, <2>2, <2>3 DEF IInv, SignInsSound, SignsIn, At, m
<1>9. AnthropicInv'
  BY <1>2, <1>3 DEF IInv, AnthropicInv, SentAreLapsed, SentOnce, AdoptionsAreNew,
     SentIsRemembered, ClearsAreSpent, At
<1> QED BY <1>3, <1>5, <1>6, <1>7, <1>8, <1>9 DEF IInv

LEMMA BrowserAuthorizesStep ==
    ASSUME IInv, TypeOK', NEW p \in Procs, BrowserAuthorizes(p)
    PROVE  IInv'
<1>1. /\ Mint(None, None) /\ None \in Gens \cup {None} /\ minted + 1 \in Gens
      /\ SignInGoes(p, "saving", minted + 1, FALSE)
  BY MintTypes, Numbers DEF BrowserAuthorizes, IInv
<1>2. /\ \A s \in Procs \ {p} : signIn'[s] = signIn[s]
      /\ signIn'[p].gen = minted + 1
  BY <1>1, SignInMoves DEF IInv
<1> QED BY <1>1, <1>2, SignInObtains DEF BrowserAuthorizes, imports

LEMMA ImportAnswersStep ==
    ASSUME IInv, TypeOK', NEW p \in Procs, ImportAnswered(p) \/ ImportAnswerLost(p)
    PROVE  IInv'
<1> DEFINE g == signIn[p].gen
<1>1. TypeOK /\ IssuedOnly /\ g \in live /\ Mint(g, grant[g]) /\ UNCHANGED login
  BY DEF IInv, ImportAnswered, ImportAnswerLost, ImportRedeems, Rotate
<1>2. grant[g] \in Gens \cup {None} /\ minted + 1 \in Gens
  <2>1. grant[g] \in Gens \cup {None}
    BY <1>1 DEF IssuedOnly
  <2> QED BY <1>1, <2>1, MintTypes
<1>3. /\ \A s \in Procs \ {p} : signIn'[s] = signIn[s]
      /\ signIn'[p].pc = "saving" => signIn'[p].gen = minted + 1
  <2>1. CASE ImportAnswered(p)
    <3>1. (kind = "anthropic") \in BOOLEAN
      OBVIOUS
    <3>2. SignInGoes(p, "saving", minted + 1, kind = "anthropic")
      BY <2>1 DEF ImportAnswered
    <3> QED BY <1>1, <1>2, <3>1, <3>2, SignInMoves
  <2>2. CASE ImportAnswerLost(p)
    BY <1>1, <2>2, SignInEnds DEF ImportAnswerLost
  <2> QED BY <2>1, <2>2
<1>4. UNCHANGED <<kind, account, cli, intent, flight, redeemed, asked, late, spoilt>>
  BY DEF ImportAnswered, ImportAnswerLost
<1> HIDE DEF g
<1> QED BY <1>1, <1>2, <1>3, <1>4, SignInObtains

LEMMA DetectLocalStep ==
    ASSUME IInv, TypeOK', NEW p \in Procs, DetectLocal(p)
    PROVE  IInv'
<1>1. TypeOK /\ IssuedOnly /\ cli \in Gens /\ cli \in Issued
  BY DEF DetectLocal, IInv, IssuedOnly, TypeOK, Issued, None, Gens
<1>2. UNCHANGED <<kind, account, cli, intent, minted, lapsed, live, flight, redeemed, asked,
                  late, grant, login, spoilt>>
  BY DEF DetectLocal, clock, history, imports
<1>3. /\ \A s \in Procs \ {p} : signIn'[s] = signIn[s]
      /\ signIn'[p].gen = cli
  BY <1>1, SignInMoves DEF DetectLocal
<1>4. IssuedOnly' /\ IntentsAreSent' /\ LatestLoginWins' /\ MarkHasReason'
  BY <1>2 DEF IInv, IssuedOnly, Issued, IntentsAreSent, LatestLoginWins, MarkHasReason
<1>5. \A q \in Procs : FlightSound(q)'
  BY <1>2 DEF IInv, FlightSound, Issued, Doubtful
<1>6. AnswersAreNew' /\ AdoptionsLeadOn'
  BY <1>2 DEF IInv, AnswersAreNew, AdoptionsLeadOn, At
<1>7. SignInsSound'
  BY <1>1, <1>2, <1>3 DEF IInv, AnswersAreNew, AdoptionsLeadOn, SignInsSound, SignsIn, At,
     Issued, TypeOK, Gens
<1>8. AnthropicInv'
  BY <1>2 DEF IInv, AnthropicInv, SentAreLapsed, SentOnce, AdoptionsAreNew, SentIsRemembered,
     ClearsAreSpent, At
<1> QED BY <1>4, <1>5, <1>6, <1>7, <1>8 DEF IInv

LEMMA SaveSignInStep ==
    ASSUME IInv, TypeOK', NEW p \in Procs, SaveSignIn(p)
    PROVE  IInv'
<1> DEFINE g == signIn[p].gen
<1>1. /\ TypeOK /\ IssuedOnly /\ SignsIn(p, "saving") /\ g \in Issued /\ g \in Gens
      /\ account' = Credential(g, signIn[p].local) /\ login' = grant[g]
      /\ late' = (late \/ ~Fresh(g)) /\ NoSignInNow(p)
  BY IssuedAreGens DEF IInv, SaveSignIn, SignInsSound
<1>2. UNCHANGED <<kind, cli, intent, flight, minted, lapsed, live, redeemed, asked, grant, spoilt>>
  BY DEF SaveSignIn, clock
<1>3. account'.here /\ account'.gen = g /\ ~account'.needsReauth
  BY <1>1, CredentialFields
<1>4. SignInsEnd /\ signIn'[p].pc = "idle"
  BY <1>1, SignInEnds
<1>5. IssuedOnly' /\ IntentsAreSent'
  BY <1>1, <1>2, <1>3 DEF IInv, IssuedOnly, Issued, IntentsAreSent
<1>6. \A q \in Procs : FlightSound(q)'
  BY <1>2 DEF IInv, FlightSound, Issued, Doubtful
<1>7. kind = "anthropic" /\ ~late' => lapsed < g /\ \A i \in asked : i <= lapsed
  <2>1. ~late' => ~late /\ Fresh(g)
    BY <1>1
  <2>2. kind = "anthropic" /\ ~late => asked \subseteq 1 .. lapsed
    BY DEF IInv, AnthropicInv, SentAreLapsed
  <2>3. lapsed \in Int /\ g \in Int
    BY <1>1 DEF TypeOK, Gens
  <2> QED BY <2>1, <2>2, <2>3 DEF Fresh
<1>8. lapsed \in Int /\ g \in Int /\ \A i \in Issued : i \in Int
  BY <1>1 DEF TypeOK, Issued, Gens
<1>9. kind = "anthropic" /\ ~late' => g \notin asked
  BY <1>7, <1>8
<1>10. ASSUME kind = "anthropic", ~late', NEW q \in Procs, NEW r \in Procs,
              flight'[q].pc = "adopting", flight[q].gen = g,
              flight'[r].pc = "adopting", flight[r].fresh \in asked
       PROVE  flight[r].fresh < flight[q].fresh
  <2>1. g < flight[q].fresh /\ flight[q].fresh \in Issued /\ flight[r].fresh \in Issued
    BY <1>1, <1>2, <1>10 DEF IInv, SignInsSound, FlightSound, At
  <2> QED BY <1>7, <1>8, <1>10, <2>1
<1>11. \A q \in Procs : flight'[q].pc = "answered" => flight[q].fresh # g
  BY <1>1, <1>2 DEF IInv, SignInsSound, At
<1>12. \A s \in Procs : SignsIn(s, "saving")' /\ signIn[s].gen = g => g <= cli
  BY <1>1, <1>4 DEF IInv, SignInsSound, SignInsEnd, SignsIn
<1> HIDE DEF g
<1> QED BY <1>1, <1>2, <1>3, <1>4, <1>5, <1>6, <1>9, <1>10, <1>11, <1>12, AccountMoves

LEMMA SignInStepHolds ==
    ASSUME IInv, TypeOK', NEW p \in Procs, SignInStep(p)
    PROVE  IInv'
<1>1. CASE ImportFails(p) \/ SignInFails(p)
  <2>1. Quiet /\ flight' = flight
    BY <1>1, SignInEnds DEF ImportFails, SignInFails, Quiet, history, IInv
  <2> QED BY <2>1, Waits
<1> QED BY <1>1, BrowserAuthorizesStep, DetectLocalStep, ImportAnswersStep, SaveSignInStep
        DEF SignInStep

-----------------------------------------------------------------------------
(* The rest of the world.                                                  *)

LEMMA CliMovesStep == ASSUME IInv, TypeOK', CliMoves PROVE IInv'
<1> DEFINE m == minted + 1
<1>1. TypeOK /\ IssuedOnly
  BY DEF IInv
<1>2. PICK spent, under \in Gens \cup {None} : Mint(spent, under)
  BY <1>1, Numbers DEF CliMoves, TypeOK
<1>3. /\ minted' = m /\ lapsed' = lapsed /\ m \in Gens
      /\ Issued' = Issued \cup {m} /\ m \notin Issued
      /\ \A i \in Issued : grant'[i] = grant[i]
      /\ \A i \in Issued' : grant'[i] \in Gens
      /\ live' \subseteq Issued'
      /\ \A i \in Issued : i \notin live => i \notin live'
  BY <1>1, <1>2, MintFacts
<1>4. /\ cli' = m
      /\ UNCHANGED <<kind, account, intent, flight, redeemed, asked, login, spoilt, late>>
  BY DEF CliMoves, imports
<1>5. /\ kind = "anthropic" /\ ~late => asked \subseteq 1 .. lapsed'
      /\ \A q \in Procs : FlightSound(q)'
  BY <1>2, <1>4, MintKeeps DEF IInv
<1> HIDE DEF m
<1>6. IssuedOnly'
  <2>1. m \in 0 .. minted'
    BY <1>3, Numbers DEF Issued
  <2> QED BY <1>1, <1>3, <1>4, <2>1 DEF IssuedOnly
<1>7. IntentsAreSent' /\ LatestLoginWins' /\ MarkHasReason'
  BY <1>1, <1>3, <1>4 DEF IInv, IssuedOnly, IntentsAreSent, LatestLoginWins, MarkHasReason,
     NoAccount
<1>8. \A q \in Procs : /\ flight[q].pc = "adopting" => flight[q].gen # m
                       /\ flight[q].pc = "answered" => flight[q].fresh # m
  BY <1>3 DEF IInv, FlightSound
<1>9. AnswersAreNew' /\ AdoptionsLeadOn' /\ SignInsSound'
  <2>1. AnswersAreNew' /\ AdoptionsLeadOn'
    BY <1>1, <1>3, <1>4, <1>8 DEF IInv, AnswersAreNew, AdoptionsLeadOn, At, IssuedOnly, TypeOK,
       Gens, m, FlightSound, Issued
  <2>2. UNCHANGED signIn
    BY DEF CliMoves, imports
  <2>3. \A g \in Issued : g <= m
    BY <1>1 DEF Issued, TypeOK, Gens, m
  <2>4. SignInsSound'
    BY <1>3, <1>4, <2>2, <2>3 DEF IInv, SignInsSound, SignsIn, At
  <2> QED BY <2>1, <2>4
<1>10. AnthropicInv'
  BY <1>3, <1>4, <1>5 DEF IInv, AnthropicInv, SentAreLapsed, SentOnce, AdoptionsAreNew,
     SentIsRemembered, ClearsAreSpent, At
<1> QED BY <1>6, <1>7, <1>5, <1>9, <1>10 DEF IInv

LEMMA RemoveStep == ASSUME IInv, TypeOK', Remove PROVE IInv'
<1>1. /\ account' = NoAccount /\ TypeOK
      /\ UNCHANGED <<kind, cli, intent, minted, lapsed, live, flight, redeemed, asked, grant,
                     login, spoilt, late>>
  BY DEF IInv, Remove, clock, history, imports
<1>2. ~account'.here /\ account'.gen = None /\ ~account'.needsReauth
  BY <1>1 DEF NoAccount
<1>3. IssuedOnly' /\ IntentsAreSent' /\ LatestLoginWins' /\ MarkHasReason'
  BY <1>1, <1>2 DEF IInv, IssuedOnly, Issued, IntentsAreSent, LatestLoginWins, MarkHasReason
<1>4. \A q \in Procs : FlightSound(q)'
  BY <1>1 DEF IInv, FlightSound, Issued, Doubtful
<1>5. \A q \in Procs : /\ flight[q].pc = "adopting" => flight[q].gen # None
                       /\ flight[q].pc = "answered" => flight[q].fresh # None
  BY <1>1, IssuedAreGens, Numbers DEF IInv, FlightSound
<1>6. AnswersAreNew' /\ AdoptionsLeadOn' /\ SignInsSound'
  <2>1. AnswersAreNew' /\ AdoptionsLeadOn'
    BY <1>1, <1>2, <1>5 DEF IInv, AnswersAreNew, AdoptionsLeadOn, At
  <2>2. SignInsSound'
    BY <1>1, <1>2, SignInsStay DEF Remove, SignInsEnd
  <2> QED BY <2>1, <2>2
<1>7. None \notin asked
  BY Numbers DEF IInv, TypeOK
<1>8. AnthropicInv'
  BY <1>1, <1>2, <1>5, <1>7 DEF IInv, AnthropicInv, SentAreLapsed, SentOnce, AdoptionsAreNew,
     SentIsRemembered, ClearsAreSpent, At
<1> QED BY <1>3, <1>4, <1>6, <1>8 DEF IInv

LEMMA RevokeStep == ASSUME IInv, TypeOK', NEW g \in Gens, Revoke(g) PROVE IInv'
<1>1. /\ live' \subseteq live
      /\ UNCHANGED <<kind, account, cli, intent, minted, lapsed, flight, redeemed, asked, grant,
                     login, spoilt, late>>
  BY DEF Revoke, clock, history, imports
<1>2. IssuedOnly' /\ IntentsAreSent' /\ LatestLoginWins' /\ MarkHasReason'
  BY <1>1 DEF IInv, IssuedOnly, Issued, IntentsAreSent, LatestLoginWins, MarkHasReason
<1>3. \A q \in Procs : FlightSound(q)'
  BY <1>1 DEF IInv, FlightSound, Issued, Doubtful
<1>4. AnswersAreNew' /\ AdoptionsLeadOn' /\ SignInsSound'
  <2>1. AnswersAreNew' /\ AdoptionsLeadOn'
    BY <1>1 DEF IInv, AnswersAreNew, AdoptionsLeadOn, At
  <2>2. SignInsSound'
    BY <1>1, SignInsStay DEF Revoke, SignInsEnd
  <2> QED BY <2>1, <2>2
<1>5. AnthropicInv'
  BY <1>1 DEF IInv, AnthropicInv, SentAreLapsed, SentOnce, AdoptionsAreNew,
     SentIsRemembered, ClearsAreSpent, At
<1> QED BY <1>2, <1>3, <1>4, <1>5 DEF IInv

LEMMA IntentSpoilsStep == ASSUME IInv, TypeOK', IntentSpoils PROVE IInv'
<1>1. /\ intent' = Unreadable /\ intent \in Gens /\ ~spoilt /\ spoilt'
      /\ UNCHANGED <<kind, account, cli, minted, lapsed, live, flight, redeemed, asked, grant,
                     login, late>>
  BY DEF IntentSpoils, clock, imports
<1>2. IssuedOnly' /\ IntentsAreSent' /\ LatestLoginWins' /\ MarkHasReason'
  BY <1>1, Numbers DEF IInv, IssuedOnly, Issued, IntentsAreSent, LatestLoginWins, MarkHasReason
<1>3. \A q \in Procs : FlightSound(q)'
  BY <1>1 DEF IInv, FlightSound, Issued, Doubtful
<1>4. AnswersAreNew' /\ AdoptionsLeadOn' /\ SignInsSound'
  <2>1. AnswersAreNew' /\ AdoptionsLeadOn'
    BY <1>1 DEF IInv, AnswersAreNew, AdoptionsLeadOn, At
  <2>2. SignInsSound'
    BY <1>1, SignInsStay DEF IntentSpoils, SignInsEnd
  <2> QED BY <2>1, <2>2
<1>5. \A q \in Procs : flight[q].clear # Unreadable
  BY <1>1 DEF IInv, FlightSound
<1>6. AnthropicInv'
  BY <1>1, <1>5 DEF IInv, AnthropicInv, SentAreLapsed, SentOnce, AdoptionsAreNew,
     SentIsRemembered, ClearsAreSpent, At
<1> QED BY <1>2, <1>3, <1>4, <1>6 DEF IInv

LEMMA TimePassesStep == ASSUME IInv, TypeOK', TimePasses PROVE IInv'
<1>1. /\ lapsed' = lapsed + 1 /\ lapsed \in Nat /\ TypeOK
      /\ UNCHANGED <<kind, account, cli, intent, minted, live, flight, redeemed, asked, grant,
                     login, spoilt, late>>
  BY DEF TimePasses, history, imports, IInv, TypeOK
<1>2. IssuedOnly' /\ IntentsAreSent' /\ LatestLoginWins' /\ MarkHasReason'
  BY <1>1 DEF IInv, IssuedOnly, Issued, IntentsAreSent, LatestLoginWins, MarkHasReason
<1>3. \A q \in Procs : FlightSound(q)'
  BY <1>1 DEF IInv, FlightSound, Issued, Doubtful
<1>4. AnswersAreNew' /\ AdoptionsLeadOn' /\ SignInsSound'
  <2>1. AnswersAreNew' /\ AdoptionsLeadOn'
    BY <1>1 DEF IInv, AnswersAreNew, AdoptionsLeadOn, At
  <2>2. SignInsSound'
    BY <1>1, SignInsStay DEF TimePasses, SignInsEnd
  <2> QED BY <2>1, <2>2
<1>5. AnthropicInv'
  <2> SUFFICES ASSUME kind = "anthropic", ~late PROVE AnthropicInv'
    BY <1>1 DEF AnthropicInv
  <2>1. \A q \in Procs : flight[q].caller \in Nat
    BY <1>1, FlightFields, Numbers DEF TypeOK, None
  <2>2. SentAreLapsed'
    BY <1>1, <2>1 DEF IInv, AnthropicInv, SentAreLapsed, At
  <2>3. SentOnce' /\ AdoptionsAreNew' /\ SentIsRemembered' /\ ClearsAreSpent'
    BY <1>1 DEF IInv, AnthropicInv, SentOnce, AdoptionsAreNew, SentIsRemembered,
       ClearsAreSpent, At
  <2> QED BY <2>2, <2>3 DEF AnthropicInv
<1> QED BY <1>2, <1>3, <1>4, <1>5 DEF IInv

-----------------------------------------------------------------------------
(* All steps.                                                              *)

LEMMA InitHolds == ASSUME Init PROVE IInv
<1>1. account \in AccountRecord /\ account.here /\ account.gen = 1 /\ ~account.needsReauth
      /\ 1 \in Gens /\ kind \in Kinds /\ cli \in {1, None}
  BY OAuthConstants DEF Init, AccountRecord, Gens
<1>2. TypeOK
  <2>1. flight \in [Procs -> FlightRecord] /\ lock \in [owner : Procs \cup {Nobody, Dead}, old : BOOLEAN]
    BY NoFlightIsFlight DEF Init, NoLock
  <2>2. grant \in [Gens -> Gens \cup {None}]
    BY <1>1 DEF Init
  <2>3. verdicts \in [Procs -> SUBSET Gens]
    BY DEF Init
  <2>4. minted \in Gens /\ lapsed \in 0 .. minted /\ live \in SUBSET Gens
    BY <1>1 DEF Init
  <2>5. intent \in 0 .. MaxGen + 1 /\ cli \in Gens \cup {None} /\ login \in Gens
    BY <1>1, Numbers DEF Init
  <2>6. signIn \in [Procs -> SignInRecord]
    BY DEF Init, NoSignIn, SignInRecord, None
  <2> QED BY <1>1, <2>1, <2>2, <2>3, <2>4, <2>5, <2>6 DEF Init, TypeOK
<1>3. IssuedOnly /\ IntentsAreSent /\ LatestLoginWins /\ MarkHasReason
  BY <1>1, Numbers DEF Init, IssuedOnly, Issued, IntentsAreSent, LatestLoginWins,
     MarkHasReason, None
<1>4. \A q \in Procs : FlightSound(q)
  BY Numbers DEF Init, FlightSound, NoFlight
<1>5. AnswersAreNew /\ AdoptionsLeadOn /\ SignInsSound
  BY DEF Init, AnswersAreNew, AdoptionsLeadOn, SignInsSound, At, NoFlight, SignsIn, NoSignIn
<1>6. AnthropicInv
  BY DEF Init, AnthropicInv, SentAreLapsed, SentOnce, AdoptionsAreNew, SentIsRemembered,
         ClearsAreSpent, At, NoFlight
<1> QED BY <1>2, <1>3, <1>4, <1>5, <1>6 DEF IInv

LEMMA EndsQuietly ==
    ASSUME IInv, TypeOK', NEW p \in Procs, Quiet, flight' = [flight EXCEPT ![p] = NoFlight]
    PROVE  IInv'
<1>1. Moves(p, NoFlight)
  BY EndMoves DEF IInv
<1>2. NoFlight.pc = "idle" /\ NoFlight.clear = None
  BY DEF NoFlight
<1> HIDE DEF NoFlight
<1> QED BY <1>1, <1>2, Settles

LEMMA LookStep ==
    ASSUME IInv, TypeOK', NEW p \in Procs, Look(p)
    PROVE  /\ IInv'
           /\ At(p, "asking")' /\ kind = "anthropic" /\ ~late => flight'[p].gen \notin asked
<1>1. Stable /\ At(p, "holding") /\ TypeOK /\ IssuedOnly
  BY LookCases DEF IInv
<1>2. CASE LooksAway(p)
  <2>1. Quiet /\ flight' = [flight EXCEPT ![p] = NoFlight] /\ flight'[p] = NoFlight
    BY <1>1, <1>2, EndTypes DEF Stable, LooksAway, End, Quiet, SignInsEnd, Moves
  <2>2. ~At(p, "asking")'
    BY <2>1 DEF At, NoFlight
  <2> QED BY <2>1, <2>2, EndsQuietly
<1>3. CASE DropsIntent(p)
  BY <1>1, <1>3, DropsIntentStep, EndTypes DEF DropsIntent, Moves, At, NoFlight
<1>4. CASE Declines(p)
  <2> DEFINE y == [pc |-> "refused", caller |-> flight[p].caller, gen |-> account.gen,
                   fresh |-> None, clear |-> None]
  <2>1. account.gen \in Issued /\ account.gen \in Gens
    BY <1>1, <1>4, IssuedAreGens DEF Declines, IssuedOnly
  <2>2. Moves(p, y)
    BY <1>1, <1>4, <2>1, Numbers, GoMoves DEF Declines, Pcs
  <2>3. Quiet
    BY <1>1, <1>4 DEF Stable, Declines, Quiet, SignInsEnd
  <2>4. Doubtful(account.gen)
    BY <1>4, <2>1 DEF Declines, IInv, IntentsAreSent, Doubtful
  <2> QED BY <2>1, <2>2, <2>3, <2>4, Refuses DEF At, Moves
<1>5. CASE Adopts(p)
  <2>1. flight'[p].pc = "adopting"
    <3> DEFINE clear == IF kind = "anthropic" THEN intent ELSE None
    <3>1. /\ account.gen \in Gens \cup {None} /\ cli \in Gens \cup {None}
          /\ clear \in 0 .. MaxGen + 1
      BY <1>1, Numbers DEF TypeOK, AccountRecord
    <3>2. Go(p, "adopting", account.gen, cli, clear)
      BY <1>5 DEF Adopts
    <3> HIDE DEF clear
    <3>3. "adopting" \in Pcs
      BY DEF Pcs
    <3>4. Moves(p, [pc |-> "adopting", caller |-> flight[p].caller, gen |-> account.gen,
                    fresh |-> cli, clear |-> clear])
      BY <1>1, <3>1, <3>2, <3>3, GoMoves
    <3> QED BY <3>4 DEF Moves
  <2> QED BY <1>1, <1>5, <2>1, AdoptsStep DEF At
<1>6. CASE AsksFreely(p)
  BY <1>1, <1>6, AsksFreelyStep DEF AsksFreely
<1>7. CASE AsksOnRecord(p)
  BY <1>1, <1>7, AsksOnRecordStep
<1> QED BY <1>2, <1>3, <1>4, <1>5, <1>6, <1>7, LookCases

LEMMA ServerRefusesStep == ASSUME IInv, TypeOK', NEW p \in Procs, ServerRefuses(p) PROVE IInv'
<1> DEFINE g == flight[p].gen
           clear == IF kind = "anthropic" THEN g ELSE None
           y == [pc |-> "refused", caller |-> flight[p].caller, gen |-> g,
                 fresh |-> None, clear |-> clear]
<1>1. TypeOK /\ g \in asked /\ g \in Issued /\ g \in Gens /\ g \notin live
  BY IssuedAreGens DEF IInv, FlightSound, IssuedOnly, ServerRefuses, At
<1>2. Moves(p, y)
  <2>1. Go(p, "refused", g, None, clear) /\ clear \in 0 .. MaxGen + 1
    BY <1>1, Numbers DEF ServerRefuses
  <2> HIDE DEF clear
  <2> QED BY <1>1, <2>1, Numbers, GoMoves DEF Pcs
<1>3. Quiet /\ Doubtful(g)
  BY <1>1 DEF ServerRefuses, Quiet, SignInsEnd, Doubtful, history, imports
<1> QED BY <1>1, <1>2, <1>3, Refuses

LEMMA ProcessStep ==
    ASSUME IInv, NEW p \in Procs, RefreshStep(p)
    PROVE  IInv'
<1>1. TypeOK /\ IssuedOnly /\ FlightSound(p)
  BY DEF IInv
<1>2. TypeOK'
  BY <1>1, ProcessTypes
<1>3. CASE Resolve(p) \/ ForceRefresh(p)
  <2> DEFINE y == [NoFlight EXCEPT !.pc = "locking", !.caller = account.gen]
  <2>1. Start(p) /\ Quiet
    BY <1>3 DEF Resolve, ForceRefresh, Quiet, history, imports, SignInsEnd
  <2>2. /\ y \in FlightRecord /\ y.pc = "locking" /\ y.clear = None /\ y.caller = account.gen
    BY <1>1, NoFlightIsFlight DEF TypeOK, AccountRecord, FlightRecord, Pcs, NoFlight
  <2>3. Moves(p, y)
    BY <1>1, <2>1, <2>2, FlightMoves DEF Start
  <2>4. kind = "anthropic" => account.gen <= lapsed
    <3> SUFFICES ASSUME kind = "anthropic" PROVE account.gen <= lapsed
      OBVIOUS
    <3>1. account.gen \in Issued /\ ~Fresh(account.gen)
      BY <1>1, <1>3, <2>1 DEF Resolve, ForceRefresh, Start, IssuedOnly
    <3> QED BY <1>1, <3>1, IssuedAreGens, Numbers DEF Fresh, TypeOK, Gens
  <2> HIDE DEF y
  <2> QED BY <1>2, <2>1, <2>2, <2>3, <2>4, Settles
<1>4. CASE AcquireLock(p)
  <2> DEFINE y == [pc |-> "holding", caller |-> flight[p].caller, gen |-> flight[p].gen,
                   fresh |-> flight[p].fresh, clear |-> flight[p].clear]
  <2>1. Quiet /\ At(p, "locking")
    BY <1>4 DEF AcquireLock, Quiet, history, imports, SignInsEnd
  <2>2. Moves(p, y)
    BY <1>1, <1>4, PhaseMoves DEF AcquireLock, Pcs
  <2>3. kind = "anthropic" /\ ~late => y.caller <= lapsed
    BY <2>1 DEF IInv, AnthropicInv, SentAreLapsed
  <2> QED BY <1>2, <2>1, <2>2, <2>3, Settles
<1>5. CASE LockTimesOut(p) \/ NoAnswer(p) \/ StoreFails(p) \/ PersistNowhere(p)
  <2>1. Quiet /\ flight' = [flight EXCEPT ![p] = NoFlight]
    BY <1>5 DEF LockTimesOut, NoAnswer, StoreFails, PersistNowhere, End, Quiet, history,
       imports, SignInsEnd
  <2> QED BY <1>2, <2>1, EndsQuietly
<1>6. CASE Look(p)
  BY <1>2, <1>6, LookStep
<1>7. CASE ServerAnswers(p)
  BY <1>2, <1>7, ServerAnswersStep
<1>8. CASE AnswerLost(p)
  BY <1>2, <1>8, AnswerLostStep
<1>9. CASE ServerRefuses(p)
  BY <1>2, <1>9, ServerRefusesStep
<1>10. CASE Persist(p)
  BY <1>2, <1>10, PersistStep
<1>11. CASE Mark(p)
  BY <1>2, <1>11, MarkStep
<1>12. CASE Leave(p)
  BY <1>2, <1>12, LeaveStep
<1> QED BY <1>3, <1>4, <1>5, <1>6, <1>7, <1>8, <1>9, <1>10, <1>11, <1>12 DEF RefreshStep

LEMMA WorldSteps == ASSUME IInv, WorldStep PROVE IInv'
<1>1. TypeOK'
  BY WorldTypes DEF IInv
<1>2. ASSUME NEW p \in Procs, Crash(p) PROVE IInv'
  <2>1. Quiet /\ flight' = [flight EXCEPT ![p] = NoFlight]
    BY <1>2, SignInEnds DEF IInv, Crash, Quiet, history, imports, SignInsEnd
  <2> QED BY <1>1, <2>1, EndsQuietly
<1>3. ASSUME NEW p \in Procs, VerdictsExpire(p) PROVE IInv'
  BY <1>1, <1>3, Waits DEF VerdictsExpire, Quiet, history, imports, SignInsEnd
<1>4. CASE LockAges
  BY <1>1, <1>4, Waits DEF LockAges, Quiet, history, imports, SignInsEnd
<1> QED BY <1>1, <1>2, <1>3, <1>4, SignInStepHolds, RemoveStep, CliMovesStep,
           IntentSpoilsStep, RevokeStep, TimePassesStep DEF WorldStep

(* Every reachable state satisfies the inductive invariant.                *)
THEOREM Invariance == Spec => []IInv
<1>1. Init => IInv
  BY InitHolds
<1>2. IInv /\ [Next]_vars => IInv'
  <2> SUFFICES ASSUME IInv, [Next]_vars PROVE IInv'
    OBVIOUS
  <2>1. CASE Next
    BY <2>1, ProcessStep, WorldSteps DEF Next
  <2>2. CASE UNCHANGED vars
    <3>1. Quiet /\ flight' = flight /\ TypeOK'
      BY <2>2 DEF vars, history, imports, clock, Quiet, SignInsEnd, IInv, TypeOK
    <3> QED BY <3>1, Waits
  <2> QED BY <2>1, <2>2
<1> QED BY <1>1, <1>2, PTL DEF Spec

-----------------------------------------------------------------------------
(* What it implies.                                                        *)

(* Every value the variables hold is of its shape. *)
THEOREM Typing == Spec => []TypeOK
<1>1. IInv => TypeOK
  BY DEF IInv
<1> QED BY <1>1, Invariance, PTL

(* An Anthropic token that a refresh has used up is neither sent by another
   one nor forgotten to be used up: the intent file names it, or the account
   is marked.  So it is until a sign-in stores a lapsed credential. *)
THEOREM UsedTokensRetire == Spec => []UsedTokensAreRetired
<1>1. IInv => UsedTokensAreRetired
  <2> SUFFICES ASSUME IInv PROVE UsedTokensAreRetired
    OBVIOUS
  <2>1. RedeemedOnce
    BY DEF IInv, AnthropicInv, SentOnce, RedeemedOnce
  <2>2. LostAnswerIsRemembered
    BY DEF IInv, IssuedOnly, AnthropicInv, SentIsRemembered, LostAnswerIsRemembered
  <2> QED BY <2>1, <2>2 DEF UsedTokensAreRetired
<1> QED BY <1>1, Invariance, PTL

(* No refresh puts its credential over a login stored meanwhile. *)
THEOREM LatestLoginStays == Spec => []LatestLoginWins
<1>1. IInv => LatestLoginWins
  BY DEF IInv
<1> QED BY <1>1, Invariance, PTL

(* An account is marked for a new login for a reason of its own. *)
THEOREM MarksHaveReasons == Spec => []MarkHasReason
<1>1. IInv => MarkHasReason
  BY DEF IInv
<1> QED BY <1>1, Invariance, PTL

(* Stronger than what the runs check: of all refreshes of all processes one
   at most sends an Anthropic generation to the server, whether or not it was
   exchanged and whatever became of the answer.  An import may send it too,
   and the limit is the one of RedeemedOnce. *)
NeverAskedTwice ==
    [][kind = "anthropic" /\ ~late =>
         \A p \in Procs : ~At(p, "asking") /\ At(p, "asking")' =>
             flight'[p].gen \notin asked]_vars

LEMMA GoPhase ==
    ASSUME TypeOK, NEW p \in Procs, NEW pc, NEW gen, NEW fresh, NEW clear,
           Go(p, pc, gen, fresh, clear)
    PROVE  flight'[p].pc = pc /\ \A q \in Procs \ {p} : flight'[q] = flight[q]
<1> DEFINE y == [flight[p] EXCEPT !.pc = pc, !.gen = gen, !.fresh = fresh, !.clear = clear]
<1>1. flight' = [flight EXCEPT ![p] = y]
  BY DEF Go
<1>2. y.pc = pc
  BY DEF TypeOK, FlightRecord
<1> HIDE DEF y
<1> QED BY <1>1, <1>2 DEF TypeOK

(* A step that brings a process to ask is its look at the store. *)
LEMMA AskingIsLooking ==
    ASSUME TypeOK, Next, NEW p \in Procs, ~At(p, "asking"), At(p, "asking")'
    PROVE  Look(p)
<1>1. ASSUME NEW q \in Procs, NEW y, Moves(q, y), y.pc # "asking"
      PROVE  FALSE
  BY <1>1 DEF Moves, At
<1>2. ASSUME flight' = flight
      PROVE  FALSE
  BY <1>2 DEF At
<1>3. ASSUME NEW q \in Procs, flight' = [flight EXCEPT ![q] = NoFlight]
      PROVE  FALSE
  BY <1>1, <1>3, EndMoves DEF NoFlight
<1>4. ASSUME NEW q \in Procs, NEW pc \in Pcs, pc # "asking", flight' = [flight EXCEPT ![q].pc = pc]
      PROVE  FALSE
  BY <1>4 DEF At, TypeOK, FlightRecord
<1>5. CASE WorldStep
  BY <1>2, <1>3, <1>5 DEF WorldStep, SignInStep, BrowserAuthorizes, DetectLocal, ImportAnswered,
     ImportAnswerLost, ImportFails, SaveSignIn, SignInFails, Remove, CliMoves, IntentSpoils,
     Revoke, Crash, VerdictsExpire, LockAges, TimePasses
<1>6. ASSUME NEW q \in Procs, RefreshStep(q)
      PROVE  Look(p)
  <2>1. CASE Look(q)
    <3>1. p = q
      <4>1. \A r \in Procs \ {q} : flight'[r] = flight[r]
        <5>1. LooksAway(q) \/ DropsIntent(q) => End(q)
          BY DEF LooksAway, DropsIntent
        <5>2. Declines(q) \/ Adopts(q) \/ AsksFreely(q) \/ AsksOnRecord(q) =>
                \E pc, gen, fresh, clear : Go(q, pc, gen, fresh, clear)
          BY DEF Declines, Adopts, AsksFreely, AsksOnRecord, Ask
        <5> QED BY <2>1, <5>1, <5>2, LookCases, EndTypes, GoPhase DEF Moves
      <4> QED BY <4>1 DEF At
    <3> QED BY <2>1, <3>1
  <2>2. CASE Resolve(q) \/ ForceRefresh(q)
    <3> DEFINE y == [NoFlight EXCEPT !.pc = "locking", !.caller = account.gen]
    <3>1. flight[q].pc = "idle" /\ flight' = [flight EXCEPT ![q] = y]
      BY <2>2 DEF Resolve, ForceRefresh, Start, At
    <3>2. y.pc = "locking"
      BY DEF NoFlight
    <3> HIDE DEF y
    <3>3. \A r \in Procs : flight'[r] = IF r = q THEN y ELSE flight[r]
      BY <3>1 DEF TypeOK
    <3> QED BY <3>1, <3>2, <3>3 DEF At
  <2>3. CASE LockTimesOut(q) \/ AnswerLost(q) \/ NoAnswer(q) \/ PersistNowhere(q) \/ StoreFails(q)
             \/ Leave(q)
    BY <1>3, <2>3 DEF LockTimesOut, AnswerLost, NoAnswer, PersistNowhere, StoreFails, Leave, End
  <2>4. CASE AcquireLock(q) \/ Mark(q)
    BY <1>4, <2>4 DEF AcquireLock, Mark, Pcs
  <2>5. CASE ServerAnswers(q)
    BY <2>5 DEF ServerAnswers, Redeem, At, TypeOK, FlightRecord
  <2>6. CASE ServerRefuses(q) \/ Persist(q)
    <3>1. \E pc, gen, fresh, clear : pc # "asking" /\ Go(q, pc, gen, fresh, clear)
      BY <2>6 DEF ServerRefuses, Persist
    <3> QED BY <3>1, GoPhase DEF At
  <2> QED BY <1>6, <2>1, <2>2, <2>3, <2>4, <2>5, <2>6 DEF RefreshStep
<1> QED BY <1>5, <1>6 DEF Next

(* Each Anthropic generation is sent by one refresh at most. *)
THEOREM AskedOnce == Spec => NeverAskedTwice
<1>1. ASSUME IInv, [Next]_vars, kind = "anthropic", ~late, NEW p \in Procs, ~At(p, "asking"),
             At(p, "asking")'
      PROVE  flight'[p].gen \notin asked
  <2>1. CASE Next
    <3>1. Look(p) /\ TypeOK /\ IssuedOnly
      BY <1>1, <2>1, AskingIsLooking DEF IInv
    <3>2. TypeOK'
      BY <3>1, LookTypes
    <3> QED BY <1>1, <3>1, <3>2, LookStep
  <2>2. CASE UNCHANGED vars
    BY <1>1, <2>2 DEF vars, At
  <2> QED BY <1>1, <2>1, <2>2
<1>2. IInv /\ [Next]_vars =>
        [kind = "anthropic" /\ ~late =>
           \A p \in Procs : ~At(p, "asking") /\ At(p, "asking")' =>
               flight'[p].gen \notin asked]_vars
  BY <1>1
<1> QED BY <1>2, Invariance, PTL DEF Spec, NeverAskedTwice

-----------------------------------------------------------------------------
(* The token guardian.                                                     *)

(* What a sweep does to the account is what any caller of the resolver may
   do, or nothing (token-guardian.ts calls getValidAccessTokenForAccount and
   keeps its own books). *)
LEMMA GuardianSteps == GuardianNext => Next \/ UNCHANGED vars
<1> SUFFICES ASSUME GuardianNext PROVE Next \/ UNCHANGED vars
  OBVIOUS
<1>1. CASE SweepFindsFresh
  BY <1>1 DEF SweepFindsFresh
<1>2. ASSUME NEW p \in Procs, SweepRefreshes(p) PROVE Next
  BY <1>2 DEF SweepRefreshes, Next, RefreshStep
<1>3. ASSUME NEW p \in Procs, SweepSucceeds(p) PROVE Next
  BY <1>3 DEF SweepSucceeds, Next, RefreshStep
<1>4. ASSUME NEW p \in Procs, SweepFails(p) PROVE Next
  BY <1>4 DEF SweepFails, Next, RefreshStep
<1>5. CASE BackoffEnds \/ ComesDue
  BY <1>5 DEF BackoffEnds, ComesDue
<1>6. CASE OtherStep
  BY <1>6 DEF OtherStep
<1> QED BY <1>1, <1>2, <1>3, <1>4, <1>5, <1>6 DEF GuardianNext

THEOREM SweepsAreCallers == GuardianSpec => Spec
<1>1. GuardianInit => Init
  BY DEF GuardianInit
<1>2. [GuardianNext]_<<vars, guardianVars>> => [Next]_vars
  BY GuardianSteps
<1> QED BY <1>1, <1>2, PTL DEF GuardianSpec, Spec

(* So no sweep, whenever it looks and however it backs off, gets a token
   sent that a refresh has used up (within the limits of RedeemedOnce),
   undoes a login or marks an account without a reason. *)
THEOREM SweepsAreSafe ==
    GuardianSpec => [](UsedTokensAreRetired /\ LatestLoginWins /\ MarkHasReason)
BY SweepsAreCallers, UsedTokensRetire, LatestLoginStays, MarksHaveReasons, PTL

=============================================================================
