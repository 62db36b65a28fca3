------------------------- MODULE ResponseStateProofs -------------------------
(***************************************************************************)
(* Proofs about ResponseState, for any requests, responses, kinds of       *)
(* adapter, sizes and limits.                                              *)
(*                                                                         *)
(* The first half: what is stored under a response is its whole history,   *)
(* but for adapters that do not look whether they were given one.  This    *)
(* does not depend on which entries the limits drop, only on the fact that *)
(* dropping, saving and loading make no entry up.                          *)
(*                                                                         *)
(* The second half: eviction takes what the limits ask for and nothing     *)
(* else, and the running counter of bytes is the sum of what is stored.    *)
(* This needs sums over finite sets, what each operation of the store      *)
(* does to a map that is well kept, and the types.                         *)
(***************************************************************************)
EXTENDS ResponseState, FiniteSetTheorems, WellFoundedInduction, TLAPS

(* k, w and c are the responses known, their histories and the cut turns.  *)
Truthful(items, history, c) == items = history \/ (items # <<>> /\ items[1] \in c)

EntrySound(e, k, w, c) ==
    /\ e.items \in History
    /\ e.id \in Responses => e.id \in k /\ Truthful(e.items, w[e.id], c)

(* What a request will store: the history the client continues, or one     *)
(* that is cut already, or nothing but the turn itself, which is then cut. *)
HeldSound(q, c) ==
    /\ q.held \in History /\ q.base \in History
    /\ q.records => Truthful(q.held, q.base, c) \/ (q.cuts /\ q.held = <<>>)

RequestSound(q, k, w, c) ==
    \/ q = Idle
    \/ q.phase = "sent" /\ HeldSound(q, c)
    \/ /\ q.phase = "inspecting" /\ HeldSound(q, c)
       /\ q.id \in k /\ w[q.id] = Append(q.base, q.id)

Sound ==
    /\ known \subseteq Responses
    /\ whole \in [Responses -> History]
    /\ DOMAIN request = Requests
    /\ \A r \in Requests : RequestSound(request[r], known, whole, cut)
    /\ \A e \in memory.entries \cup disk : EntrySound(e, known, whole, cut)

-----------------------------------------------------------------------------
(* What the operations of the store do to its entries *)

(* deleteEntry takes entries away and adds none.                           *)
LEMMA DeleteTakes ==
    ASSUME NEW m, NEW gone
    PROVE  Delete(m, gone).entries = m.entries \ gone
  BY DEF Delete

(* pruneResponses makes no entry up.                                       *)
LEMMA PruneTakes ==
    ASSUME NEW m
    PROVE  Prune(m).entries \subseteq m.entries
  <1> DEFINE live == Delete(m, {e \in m.entries : Expired(e.at)})
             Surplus(e) == /\ Reached(live.entries, e)
                           /\ Cardinality(Newer(live.entries, e)) >= MaxResponses
             counted == Delete(live, {e \in live.entries : Surplus(e)})
             Heavy(e) == /\ Reached(counted.entries, e)
                         /\ Newer(counted.entries, e) # {}
                         /\ counted.bytes - Bytes(Older(counted.entries, e)) > ByteCap
  <1>1. Prune(m) = Delete(counted, {e \in counted.entries : Heavy(e)})
    BY DEF Prune
  <1>2. live.entries \subseteq m.entries
    BY DeleteTakes
  <1> HIDE DEF live
  <1>3. counted.entries \subseteq live.entries
    BY DeleteTakes
  <1> HIDE DEF counted, Heavy
  <1>4. QED
    BY <1>1, <1>2, <1>3, DeleteTakes

(* Loading brings in what the snapshot has and nothing else.               *)
LEMMA LoadedEntries ==
    EnsureLoaded.entries \subseteq memory.entries \cup disk
  <1>1. Read(disk).entries = disk
    BY DEF Read
  <1>2. QED
    BY <1>1, PruneTakes DEF EnsureLoaded

(* setEntry adds one entry, under the id and with the items it is given.   *)
LEMMA SetEntryAdds ==
    ASSUME NEW m, NEW id, NEW items
    PROVE  \A e \in SetEntry(m, id, items).entries :
               e \in m.entries \/ (e.id = id /\ e.items = items)
  BY DeleteTakes DEF SetEntry

(* persistNow saves what is there.                                         *)
LEMMA SnapshotTakes ==
    ASSUME NEW entries
    PROVE  Snapshot(entries) \subseteq entries
  BY DEF Snapshot

-----------------------------------------------------------------------------
(* What is sound stays sound *)

(* More known responses, more cut turns, the old histories as they were.   *)
Extends(k, w, c, k2, w2, c2) ==
    /\ k \subseteq k2 /\ c \subseteq c2
    /\ \A n \in k : w2[n] = w[n]

(* A history is fixed when the response ends: entries and requests that    *)
(* were sound before another turn ended are sound after.                   *)
LEMMA SoundLasts ==
    ASSUME NEW k, NEW w, NEW c, NEW k2, NEW w2, NEW c2,
           Extends(k, w, c, k2, w2, c2)
    PROVE  /\ \A e : EntrySound(e, k, w, c) => EntrySound(e, k2, w2, c2)
           /\ \A q : RequestSound(q, k, w, c) => RequestSound(q, k2, w2, c2)
  <1>1. \A items, history : Truthful(items, history, c) => Truthful(items, history, c2)
    BY DEF Truthful, Extends
  <1>2. \A e : EntrySound(e, k, w, c) => EntrySound(e, k2, w2, c2)
    BY <1>1 DEF EntrySound, Extends
  <1>3. \A q : HeldSound(q, c) => HeldSound(q, c2)
    BY <1>1 DEF HeldSound
  <1>4. \A q : RequestSound(q, k, w, c) => RequestSound(q, k2, w2, c2)
    BY <1>3 DEF RequestSound, Extends
  <1>5. QED
    BY <1>2, <1>4

(* What rememberResponseState adds to the history it was given.            *)
LEMMA StoredIsTruthful ==
    ASSUME NEW q, NEW id \in Names, NEW c, NEW c2, HeldSound(q, c), q.records,
           c \subseteq c2, q.cuts => id \in c2
    PROVE  /\ Append(q.held, id) \in History
           /\ Truthful(Append(q.held, id), Append(q.base, id), c2)
  <1>1. q.held \in Seq(Names) /\ q.base \in Seq(Names)
    BY DEF HeldSound, History
  <1>2. CASE q.held = q.base
    BY <1>1, <1>2 DEF Truthful, History
  <1>3. CASE q.held # <<>> /\ q.held[1] \in c
    <2>1. Append(q.held, id)[1] = q.held[1] /\ Append(q.held, id) # <<>>
      BY <1>1, <1>3
    <2>2. QED
      BY <1>1, <1>3, <2>1 DEF Truthful, History
  <1>4. CASE q.cuts /\ q.held = <<>>
    <2>1. Append(q.held, id)[1] = id /\ Append(q.held, id) # <<>>
      BY <1>1, <1>4
    <2>2. QED
      BY <1>1, <1>4, <2>1 DEF Truthful, History
  <1>5. QED
    BY <1>2, <1>3, <1>4 DEF HeldSound, Truthful

(* Whatever a request is routed to, what it will store is sound.           *)
LEMMA RoutedSound ==
    ASSUME NEW r \in Requests, NEW misses \in BOOLEAN,
           NEW input \in History, NEW base \in History,
           misses => input = <<>>, ~misses => Truthful(input, base, cut),
           Routed(r, misses, input, base),
           DOMAIN request = Requests,
           \A s \in Requests : RequestSound(request[s], known, whole, cut)
    PROVE  /\ DOMAIN request' = Requests
           /\ \A s \in Requests : RequestSound(request'[s], known, whole, cut)
  <1>1. PICK way \in Ways(r, misses) : request' = [request EXCEPT ![r] = Sent(way, misses, input, base)]
    BY DEF Routed
  <1> DEFINE q == Sent(way, misses, input, base)
  <1>2. /\ q.phase = "sent" /\ q.records = Records(way.kind, way.keep, way.purpose, misses)
        /\ q.held = (IF q.records THEN input ELSE <<>>)
        /\ q.cuts = (q.records /\ misses /\ way.kind \notin Guarded)
        /\ q.base = (IF way.purpose = "compaction" THEN <<>> ELSE base)
    BY DEF Sent
  <1>3. <<>> \in History
    BY DEF History
  <1>4. q.held \in History /\ q.base \in History
    BY <1>2, <1>3
  <1>5. ASSUME q.records
        PROVE  Truthful(q.held, q.base, cut) \/ (q.cuts /\ q.held = <<>>)
    <2>1. way.purpose # "compaction" /\ ~(way.kind = "passthrough" /\ misses)
      BY <1>2, <1>5 DEF Records
    <2>2. q.held = input /\ q.base = base
      BY <1>2, <1>5, <2>1
    <2>3. CASE misses
      <3>1. way.kind \notin Guarded
        BY <1>1, <2>1, <2>3 DEF Ways, Guarded
      <3>2. QED
        BY <1>2, <1>5, <2>2, <2>3, <3>1
    <2>4. CASE ~misses
      BY <2>2, <2>4
    <2>5. QED
      BY <2>3, <2>4
  <1>6. RequestSound(q, known, whole, cut)
    BY <1>2, <1>4, <1>5 DEF RequestSound, HeldSound
  <1>7. request' = [request EXCEPT ![r] = q]
    BY <1>1
  <1> HIDE DEF q
  <1>8. QED
    BY <1>6, <1>7

(* Whatever rememberResponseState finds, drops or loads, the entries are   *)
(* sound afterwards.                                                       *)
LEMMA RememberSound ==
    ASSUME NEW q, NEW id \in Names, Remember(q, id), HeldSound(q, cut),
           \A e \in memory.entries \cup disk : EntrySound(e, known, whole, cut),
           known \subseteq known', \A n \in known : whole'[n] = whole[n],
           id \in Responses => id \in known' /\ whole'[id] = Append(q.base, id)
    PROVE  /\ Extends(known, whole, cut, known', whole', cut')
           /\ \A e \in memory'.entries \cup disk' : EntrySound(e, known', whole', cut')
  <1>1. cut \subseteq cut'
    BY DEF Remember
  <1>2. Extends(known, whole, cut, known', whole', cut')
    BY <1>1 DEF Extends
  <1>3. \A e : EntrySound(e, known, whole, cut) => EntrySound(e, known', whole', cut')
    BY <1>2, SoundLasts
  <1>4. CASE q.records
    <2> DEFINE items == Append(q.held, id)
    <2>1. /\ memory' = Prune(SetEntry(EnsureLoaded, id, items)) /\ disk' = disk
          /\ q.cuts => id \in cut'
      BY <1>4 DEF Remember
    <2>2. items \in History /\ Truthful(items, Append(q.base, id), cut')
      BY <1>1, <1>4, <2>1, StoredIsTruthful
    <2>3. \A e \in memory'.entries : e \in memory.entries \cup disk \/ (e.id = id /\ e.items = items)
      <3> HIDE DEF items
      <3>1. \A e \in SetEntry(EnsureLoaded, id, items).entries :
                e \in EnsureLoaded.entries \/ (e.id = id /\ e.items = items)
        BY SetEntryAdds, Zenon
      <3>2. memory'.entries \subseteq SetEntry(EnsureLoaded, id, items).entries
        BY <2>1, PruneTakes
      <3>3. QED
        BY <3>1, <3>2, LoadedEntries
    <2>4. \A e : e.id = id /\ e.items = items => EntrySound(e, known', whole', cut')
      BY <2>2 DEF EntrySound
    <2>5. QED
      BY <1>2, <1>3, <2>1, <2>3, <2>4
  <1>5. CASE ~q.records
    BY <1>2, <1>3, <1>5 DEF Remember, store
  <1>6. QED
    BY <1>4, <1>5

-----------------------------------------------------------------------------
(* The invariant *)

(* The store starts empty.                                                 *)
LEMMA SoundInit == Init => Sound
  <1>1. <<>> \in History
    BY DEF History
  <1>2. QED
    BY <1>1 DEF Init, Sound, RequestSound, Empty

(* A turn that ends gets its history and leaves the others theirs.         *)
LEMMA MintExtends ==
    ASSUME Sound, NEW r \in Requests, NEW id \in Responses, Mint(r, id),
           request[r].base \in History
    PROVE  /\ known' \subseteq Responses /\ whole' \in [Responses -> History]
           /\ known \subseteq known' /\ \A n \in known : whole'[n] = whole[n]
           /\ id \in known' /\ whole'[id] = Append(request[r].base, id)
  <1>1. Append(request[r].base, id) \in History
    BY DEF History, Names
  <1>2. QED
    BY <1>1 DEF Sound, Mint

(* Each step keeps what is stored, held and sent sound: recording by       *)
(* RememberSound, routing by RoutedSound, the others because they only     *)
(* take entries and requests away.                                         *)
LEMMA SoundStep == Sound /\ [Next]_vars => Sound'
  <1> SUFFICES ASSUME Sound, [Next]_vars PROVE Sound'
    OBVIOUS
  <1> USE DEF Sound
  <1>1. ASSUME NEW r \in Requests, Start(r) PROVE Sound'
    <2>1. PICK history \in {<<>>} \cup {whole[p] : p \in known} : Routed(r, FALSE, history, history)
      BY <1>1 DEF Start
    <2>2. history \in History
      <3>1. <<>> \in History
        BY DEF History
      <3>2. QED
        BY <2>1, <3>1
    <2>3. /\ DOMAIN request' = Requests
          /\ \A s \in Requests : RequestSound(request'[s], known, whole, cut)
      BY <2>1, <2>2, RoutedSound DEF Truthful
    <2>4. QED
      BY <1>1, <2>3 DEF Start, store, observers
  <1>2. ASSUME NEW r \in Requests, NEW p \in known, Chain(r, p) PROVE Sound'
    <2>1. Prune(EnsureLoaded).entries \subseteq memory.entries \cup disk
      BY PruneTakes, LoadedEntries
    <2>2. /\ memory' = Prune(EnsureLoaded) /\ disk' = disk
          /\ known' = known /\ whole' = whole /\ cut' = cut
      BY <1>2 DEF Chain
    <2>3. whole[p] \in History /\ <<>> \in History
      BY DEF History
    <2>4. /\ DOMAIN request' = Requests
          /\ \A s \in Requests : RequestSound(request'[s], known, whole, cut)
      <3>1. CASE request' = request
        BY <3>1
      <3>2. CASE Routed(r, TRUE, <<>>, whole[p])
        BY <2>3, <3>2, RoutedSound
      <3>3. ASSUME NEW e \in Prune(EnsureLoaded).entries, e.id = p,
                   Routed(r, FALSE, e.items, whole[p])
            PROVE  /\ DOMAIN request' = Requests
                   /\ \A s \in Requests : RequestSound(request'[s], known, whole, cut)
        <4>1. e.items \in History /\ Truthful(e.items, whole[p], cut)
          BY <2>1, <3>3 DEF EntrySound
        <4>2. QED
          BY <2>3, <3>3, <4>1, RoutedSound
      <3>4. QED
        BY <1>2, <3>1, <3>2, <3>3 DEF Chain
    <2>5. QED
      BY <2>1, <2>2, <2>4
  <1>3. ASSUME NEW r \in Requests, NEW id \in Responses, Answer(r, id) PROVE Sound'
    <2>1. HeldSound(request[r], cut) /\ Mint(r, id) /\ Remember(request[r], id)
      BY <1>3 DEF Answer, RequestSound, Idle
    <2>2. request[r].base \in History
      BY <2>1 DEF HeldSound
    <2>3. QED
      BY <1>3, <2>1, <2>2, MintExtends, RememberSound, SoundLasts DEF Answer, RequestSound, Names
  <1>4. ASSUME NEW r \in Requests, NEW id \in Responses, Overtake(r, id) PROVE Sound'
    <2>1. HeldSound(request[r], cut) /\ Mint(r, id)
      BY <1>4 DEF Overtake, RequestSound, Idle
    <2>2. request[r].base \in History
      BY <2>1 DEF HeldSound
    <2>3. /\ known' \subseteq Responses /\ whole' \in [Responses -> History]
          /\ Extends(known, whole, cut, known', whole', cut')
          /\ id \in known' /\ whole'[id] = Append(request[r].base, id)
      BY <1>4, <2>1, <2>2, MintExtends DEF Overtake, Extends
    <2>4. /\ memory' = memory /\ disk' = disk /\ cut' = cut
          /\ request' = [request EXCEPT ![r].phase = "inspecting", ![r].id = id]
      BY <1>4 DEF Overtake, store
    <2>5. \A s \in Requests \ {r} : RequestSound(request'[s], known', whole', cut')
      BY <2>3, <2>4, SoundLasts
    <2>6. RequestSound(request'[r], known', whole', cut')
      BY <2>1, <2>3, <2>4 DEF RequestSound, HeldSound
    <2>7. \A e \in memory'.entries \cup disk' : EntrySound(e, known', whole', cut')
      BY <2>3, <2>4, SoundLasts
    <2>8. QED
      BY <2>3, <2>4, <2>5, <2>6, <2>7
  <1>5. ASSUME NEW r \in Requests, AnswerUnnamed(r) PROVE Sound'
    <2>1. HeldSound(request[r], cut) /\ Remember(request[r], Unnamed)
      BY <1>5 DEF AnswerUnnamed, RequestSound, Idle
    <2>2. Unnamed \in Names /\ Unnamed \notin Responses
      BY ResponseAssumption DEF Names
    <2>3. /\ known' = known /\ whole' = whole
          /\ request' = [request EXCEPT ![r] = Idle]
      BY <1>5 DEF AnswerUnnamed
    <2>4. /\ Extends(known, whole, cut, known', whole', cut')
          /\ \A e \in memory'.entries \cup disk' : EntrySound(e, known', whole', cut')
      BY <2>1, <2>2, <2>3, RememberSound
    <2>5. \A s \in Requests : RequestSound(request'[s], known', whole', cut')
      BY <2>3, <2>4, SoundLasts DEF RequestSound
    <2>6. QED
      BY <2>3, <2>4, <2>5
  <1>6. ASSUME NEW r \in Requests, Inspect(r) PROVE Sound'
    <2>1. /\ HeldSound(request[r], cut) /\ Remember(request[r], request[r].id)
          /\ request[r].id \in known
          /\ whole[request[r].id] = Append(request[r].base, request[r].id)
      BY <1>6 DEF Inspect, RequestSound, Idle
    <2>2. QED
      BY <1>6, <2>1, RememberSound, SoundLasts DEF Inspect, RequestSound, Names
  <1>7. ASSUME NEW r \in Requests, Abandon(r) PROVE Sound'
    BY <1>7 DEF Abandon, RequestSound, store, observers
  <1>8. CASE Persist
    BY <1>8, SnapshotTakes DEF Persist, Write
  <1>9. CASE Crash
    BY <1>9 DEF Crash, Forget, Empty, RequestSound
  <1>10. CASE Stop
    BY <1>10, SnapshotTakes DEF Stop, Forget, Empty, RequestSound
  <1>11. CASE Tick
    BY <1>11 DEF Tick, store, observers
  <1>12. CASE UNCHANGED vars
    BY <1>12 DEF vars, store, observers
  <1>13. QED
    BY <1>1, <1>2, <1>3, <1>4, <1>5, <1>6, <1>7, <1>8, <1>9, <1>10, <1>11, <1>12 DEF Next

(* What is stored under a response is its whole history, or starts at a    *)
(* turn an adapter recorded without asking whether it had what came before,*)
(* for any limits, failures, restarts and overlapping requests.            *)
THEOREM TurnsAreWhole == Spec => []RecordedTurnsAreWhole
  <1>1. Sound => RecordedTurnsAreWhole
    BY DEF Sound, EntrySound, Truthful, RecordedTurnsAreWhole
  <1>2. QED
    BY <1>1, SoundInit, SoundStep, PTL DEF Spec

-----------------------------------------------------------------------------
(* Adapters that look whether the previous response was found *)

NothingCut ==
    /\ cut = {}
    /\ DOMAIN request = Requests
    /\ \A r \in Requests : request[r] = Idle \/ ~request[r].cuts

(* No step of such adapters records or sends a turn that lacks those       *)
(* before it.                                                              *)
LEMMA NothingCutStep ==
    ASSUME \A r \in Requests : Kinds[r] \subseteq Guarded
    PROVE  NothingCut /\ [Next]_vars => NothingCut'
  <1> SUFFICES ASSUME NothingCut, [Next]_vars PROVE NothingCut'
    OBVIOUS
  <1> USE DEF NothingCut
  <1>1. ASSUME NEW r \in Requests, NEW misses, NEW input, NEW base, Routed(r, misses, input, base)
        PROVE  /\ DOMAIN request' = Requests
               /\ \A s \in Requests : request'[s] = Idle \/ ~request'[s].cuts
    <2>1. PICK way \in Ways(r, misses) : request' = [request EXCEPT ![r] = Sent(way, misses, input, base)]
      BY <1>1 DEF Routed
    <2>2. way.kind \in Guarded
      BY DEF Ways
    <2>3. ~Sent(way, misses, input, base).cuts
      BY <2>2 DEF Sent
    <2>4. QED
      BY <2>1, <2>3
  <1>2. ASSUME NEW r \in Requests, NEW id, Remember(request[r], id), request[r] # Idle,
               request' = [request EXCEPT ![r] = Idle]
        PROVE  NothingCut'
    BY <1>2 DEF Remember
  <1>3. ASSUME NEW r \in Requests, Start(r) PROVE NothingCut'
    BY <1>1, <1>3 DEF Start, observers
  <1>4. ASSUME NEW r \in Requests, NEW p \in known, Chain(r, p) PROVE NothingCut'
    <2>1. cut' = cut
      BY <1>4 DEF Chain
    <2>2. \/ request' = request
          \/ \E misses, input, base : Routed(r, misses, input, base)
      BY <1>4 DEF Chain
    <2>3. QED
      BY <1>1, <2>1, <2>2
  <1>5. ASSUME NEW r \in Requests, NEW id \in Responses, Answer(r, id) PROVE NothingCut'
    <2>1. request[r] # Idle
      BY <1>5 DEF Answer, Idle
    <2>2. QED
      BY <1>2, <1>5, <2>1 DEF Answer
  <1>6. ASSUME NEW r \in Requests, NEW id \in Responses, Overtake(r, id) PROVE NothingCut'
    <2>1. /\ request[r] # Idle /\ cut' = cut
          /\ request' = [request EXCEPT ![r].phase = "inspecting", ![r].id = id]
      BY <1>6 DEF Overtake, Idle
    <2>2. QED
      BY <2>1
  <1>7. ASSUME NEW r \in Requests, AnswerUnnamed(r) PROVE NothingCut'
    <2>1. request[r] # Idle
      BY <1>7 DEF AnswerUnnamed, Idle
    <2>2. QED
      BY <1>2, <1>7, <2>1 DEF AnswerUnnamed
  <1>8. ASSUME NEW r \in Requests, Inspect(r) PROVE NothingCut'
    <2>1. request[r] # Idle
      BY <1>8 DEF Inspect, Idle
    <2>2. QED
      BY <1>2, <1>8, <2>1 DEF Inspect
  <1>9. ASSUME NEW r \in Requests, Abandon(r) PROVE NothingCut'
    BY <1>9 DEF Abandon, observers
  <1>10. CASE Persist
    BY <1>10 DEF Persist
  <1>11. CASE Crash \/ Stop
    BY <1>11 DEF Crash, Stop, Forget
  <1>12. CASE Tick
    BY <1>12 DEF Tick, observers
  <1>13. CASE UNCHANGED vars
    BY <1>13 DEF vars, observers
  <1>14. QED
    BY <1>3, <1>4, <1>5, <1>6, <1>7, <1>8, <1>9, <1>10, <1>11, <1>12, <1>13 DEF Next

(* Where every request goes to an adapter that looks, as passthrough and   *)
(* Kiro do, no truncated conversation is ever stored or replayed.          *)
THEOREM GuardedTurnsAreWhole ==
    ASSUME \A r \in Requests : Kinds[r] \subseteq Guarded
    PROVE  Spec => []NoTruncatedReplay
  <1>1. Init => NothingCut
    BY DEF Init, NothingCut
  <1>2. Sound /\ NothingCut => NoTruncatedReplay
    BY DEF Sound, EntrySound, Truthful, NothingCut, NoTruncatedReplay
  <1>3. QED
    BY <1>1, <1>2, SoundInit, SoundStep, NothingCutStep, PTL DEF Spec

-----------------------------------------------------------------------------
(* Sums over finite sets.  The sizes are sums by the fold of the community *)
(* modules, which takes the elements in an order of its own: a sum is a    *)
(* function on the subsets that obeys the fold's equation.                 *)

(* A set of numbers that is not empty has a least.                         *)
LEMMA LeastNumber ==
    ASSUME NEW S \in SUBSET Nat, S # {}
    PROVE  \E n \in S : \A m \in S : n <= m
  <1>1. PICK n \in S : \A m \in S : ~ (<<m, n>> \in OpToRel(<, Nat))
    BY NatLessThanWellFounded, WFMin
  <1>2. ASSUME NEW m \in S PROVE n <= m
    <2>1. m \in Nat /\ n \in Nat
      OBVIOUS
    <2>2. m < n => <<m, n>> \in OpToRel(<, Nat)
      BY <2>1 DEF OpToRel
    <2>3. ~ (m < n)
      BY <1>1, <2>2
    <2> QED
      BY <2>1, <2>3
  <1> QED
    BY <1>2

(* Of the subsets of a finite set that err, one has none smaller that errs. *)
LEMMA SmallestErring ==
    ASSUME NEW S, IsFiniteSet(S), NEW Bad \in SUBSET SUBSET S, Bad # {}
    PROVE  \E s \in Bad : /\ IsFiniteSet(s) /\ Cardinality(s) \in Nat
                          /\ \A u \in SUBSET S : Cardinality(u) < Cardinality(s) => u \notin Bad
  <1>1. \A s \in SUBSET S : IsFiniteSet(s) /\ Cardinality(s) \in Nat
    BY FS_Subset, FS_CardinalityType
  <1> DEFINE sizes == {Cardinality(s) : s \in Bad}
  <1>2. sizes \in SUBSET Nat /\ sizes # {}
    BY <1>1
  <1>3. PICK n \in sizes : \A m \in sizes : n <= m
    <2> HIDE DEF sizes
    <2> QED
      BY <1>2, LeastNumber
  <1>4. PICK s \in Bad : n = Cardinality(s)
    OBVIOUS
  <1>5. ASSUME NEW u \in Bad PROVE ~ (Cardinality(u) < Cardinality(s))
    <2>1. Cardinality(u) \in Nat /\ Cardinality(s) \in Nat /\ Cardinality(s) <= Cardinality(u)
      BY <1>1, <1>3, <1>4
    <2> QED
      BY <2>1
  <1> QED
    BY <1>1, <1>5

(* A finite set with an element less.                                      *)
LEMMA Smaller ==
    ASSUME NEW s, IsFiniteSet(s), NEW x \in s
    PROVE  /\ Cardinality(s \ {x}) < Cardinality(s)
           /\ Cardinality(s) \in Nat /\ Cardinality(s \ {x}) = Cardinality(s) - 1
  <1>1. IsFiniteSet(s \ {x}) /\ Cardinality(s \ {x}) = Cardinality(s) - 1
    BY FS_RemoveElement
  <1>2. Cardinality(s) \in Nat
    BY FS_CardinalityType
  <1> QED
    BY <1>1, <1>2

Chosen(s) == CHOOSE x \in s : TRUE

(* The fold's equation, for the weights w.                                 *)
IsSum(f, S, w) ==
    f = [s \in SUBSET S |-> IF s = {} THEN 0 ELSE w[Chosen(s)] + f[s \ {Chosen(s)}]]

(* On the subsets of a finite set there is such a function.                *)
LEMMA SumExists ==
    ASSUME NEW S, IsFiniteSet(S), NEW w \in [S -> Nat]
    PROVE  \E f : IsSum(f, S, w)
  <1> DEFINE Small(n) == {s \in SUBSET S : Cardinality(s) <= n}
             Sum(f, n) == f = [s \in Small(n) |->
                                 IF s = {} THEN 0 ELSE w[Chosen(s)] + f[s \ {Chosen(s)}]]
             Bad == {n \in Nat : ~ \E f : Sum(f, n)}
  <1>1. \A s \in SUBSET S : IsFiniteSet(s) /\ Cardinality(s) \in Nat
    BY FS_Subset, FS_CardinalityType
  <1>2. \A s \in SUBSET S : s # {} => Chosen(s) \in s
    BY DEF Chosen
  <1>3. 0 \notin Bad
    <2> DEFINE f == [s \in Small(0) |-> 0]
    <2>1. \A s \in Small(0) : s = {}
      BY <1>1, FS_EmptySet
    <2>2. Sum(f, 0)
      BY <2>1
    <2> QED
      BY <2>2
  <1>4. ASSUME NEW n \in Nat, n \notin Bad PROVE n + 1 \notin Bad
    <2>1. PICK f : Sum(f, n)
      BY <1>4
    <2> DEFINE g == [s \in Small(n + 1) |->
                       IF s = {} THEN 0 ELSE w[Chosen(s)] + f[s \ {Chosen(s)}]]
    <2>2. ASSUME NEW s \in Small(n) PROVE g[s] = f[s]
      <3>1. s \in Small(n + 1)
        BY <1>1
      <3>2. f[s] = IF s = {} THEN 0 ELSE w[Chosen(s)] + f[s \ {Chosen(s)}]
        BY <2>1
      <3> QED
        BY <3>1, <3>2
    <2>3. ASSUME NEW s \in Small(n + 1), s # {} PROVE s \ {Chosen(s)} \in Small(n)
      <3>1. Chosen(s) \in s /\ IsFiniteSet(s) /\ Cardinality(s) <= n + 1
        BY <1>1, <1>2, <2>3
      <3> DEFINE left == s \ {Chosen(s)}
      <3>2. Cardinality(left) = Cardinality(s) - 1 /\ Cardinality(s) \in Nat
        BY <3>1, Smaller
      <3>3. left \in SUBSET S
        OBVIOUS
      <3>4. Cardinality(left) <= n
        BY <3>1, <3>2
      <3> QED
        BY <3>3, <3>4
    <2>4. \A s \in Small(n + 1) : s # {} => g[s \ {Chosen(s)}] = f[s \ {Chosen(s)}]
      BY <2>2, <2>3
    <2>5. Sum(g, n + 1)
      BY <2>4
    <2> HIDE DEF Sum, g
    <2> QED
      BY <2>5
  <1>5. Bad = {}
    <2> SUFFICES ASSUME Bad # {} PROVE FALSE
      OBVIOUS
    <2>1. PICK n \in Bad : \A m \in Bad : n <= m
      <3>1. Bad \in SUBSET Nat
        OBVIOUS
      <3> HIDE DEF Bad
      <3> QED
        BY <3>1, LeastNumber
    <2>2. n \in Nat /\ n # 0
      BY <1>3
    <2>3. n - 1 \in Nat /\ n - 1 + 1 = n /\ ~ (n <= n - 1)
      BY <2>2
    <2>4. n - 1 \notin Bad
      BY <2>1, <2>3
    <2> QED
      BY <1>4, <2>3, <2>4
  <1>6. PICK f : Sum(f, Cardinality(S))
    <2>1. Cardinality(S) \in Nat
      BY <1>1
    <2> HIDE DEF Sum
    <2> QED
      BY <1>5, <2>1
  <1>7. Small(Cardinality(S)) = SUBSET S
    BY FS_Subset
  <1> HIDE DEF Small
  <1> QED
    BY <1>6, <1>7 DEF IsSum

(* Equal weights have equal sums, and the sums are numbers.                *)
LEMMA SumsAgree ==
    ASSUME NEW S, IsFiniteSet(S), NEW T \in SUBSET S, NEW w \in [S -> Nat],
           NEW f, IsSum(f, S, w), NEW g, IsSum(g, T, w)
    PROVE  \A s \in SUBSET T : f[s] = g[s] /\ f[s] \in Nat
  <1> DEFINE Bad == {s \in SUBSET T : ~ (f[s] = g[s] /\ f[s] \in Nat)}
  <1> SUFFICES ASSUME Bad # {} PROVE FALSE
    OBVIOUS
  <1>1. IsFiniteSet(T)
    BY FS_Subset
  <1>2. PICK s \in Bad : /\ IsFiniteSet(s) /\ Cardinality(s) \in Nat
                         /\ \A u \in SUBSET T : Cardinality(u) < Cardinality(s) => u \notin Bad
    <2>1. Bad \in SUBSET SUBSET T
      OBVIOUS
    <2> HIDE DEF Bad
    <2> QED
      BY <1>1, <2>1, SmallestErring
  <1>3. s \in SUBSET T /\ s \in SUBSET S
    OBVIOUS
  <1>4. /\ f[s] = IF s = {} THEN 0 ELSE w[Chosen(s)] + f[s \ {Chosen(s)}]
        /\ g[s] = IF s = {} THEN 0 ELSE w[Chosen(s)] + g[s \ {Chosen(s)}]
    BY <1>3 DEF IsSum
  <1>5. CASE s = {}
    BY <1>4, <1>5
  <1>6. CASE s # {}
    <2>1. Chosen(s) \in s
      BY <1>6 DEF Chosen
    <2>2. s \ {Chosen(s)} \in SUBSET T /\ s \ {Chosen(s)} \notin Bad
      BY <1>2, <1>3, <2>1, Smaller
    <2>3. w[Chosen(s)] \in Nat
      BY <1>3, <2>1
    <2> QED
      BY <1>4, <1>6, <2>2, <2>3
  <1> QED
    BY <1>5, <1>6

(* Any element may be taken first.                                         *)
LEMMA SumTakes ==
    ASSUME NEW S, IsFiniteSet(S), NEW w \in [S -> Nat], NEW f, IsSum(f, S, w)
    PROVE  \A s \in SUBSET S : \A x \in s : f[s] = w[x] + f[s \ {x}]
  <1> DEFINE Bad == {s \in SUBSET S : \E x \in s : f[s] # w[x] + f[s \ {x}]}
  <1> SUFFICES ASSUME Bad # {} PROVE FALSE
    OBVIOUS
  <1>1. \A s \in SUBSET S : f[s] \in Nat
    BY SumsAgree
  <1>2. PICK s \in Bad : /\ IsFiniteSet(s) /\ Cardinality(s) \in Nat
                         /\ \A u \in SUBSET S : Cardinality(u) < Cardinality(s) => u \notin Bad
    <2>1. Bad \in SUBSET SUBSET S
      OBVIOUS
    <2> HIDE DEF Bad
    <2> QED
      BY <2>1, SmallestErring
  <1>3. PICK x \in s : f[s] # w[x] + f[s \ {x}]
    OBVIOUS
  <1> DEFINE c == Chosen(s)
  <1>4. c \in s /\ s # {} /\ s \in SUBSET S
    BY <1>3 DEF Chosen
  <1> HIDE DEF c
  <1>5. f[s] = w[c] + f[s \ {c}]
    BY <1>4 DEF IsSum, c
  <1>6. x # c
    BY <1>3, <1>5
  <1>7. s \ {x} \notin Bad /\ s \ {c} \notin Bad
    BY <1>2, <1>3, <1>4, Smaller
  <1>8. f[s \ {c}] = w[x] + f[(s \ {c}) \ {x}]
    BY <1>3, <1>4, <1>6, <1>7
  <1>9. f[s \ {x}] = w[c] + f[(s \ {x}) \ {c}]
    BY <1>3, <1>4, <1>6, <1>7
  <1>10. (s \ {c}) \ {x} = (s \ {x}) \ {c}
    OBVIOUS
  <1>11. /\ w[x] \in Nat /\ w[c] \in Nat /\ f[(s \ {x}) \ {c}] \in Nat
    BY <1>1, <1>3, <1>4
  <1>12. f[s] = w[x] + f[s \ {x}]
    <2> DEFINE rest == f[(s \ {x}) \ {c}]
    <2>1. f[s \ {c}] = w[x] + rest /\ f[s \ {x}] = w[c] + rest
      BY <1>8, <1>9, <1>10
    <2>2. rest \in Nat
      BY <1>11
    <2> HIDE DEF rest
    <2> QED
      BY <1>5, <1>11, <2>1, <2>2
  <1> QED
    BY <1>3, <1>12

(* The size of a history is a number.                                      *)
LEMMA SizeType ==
    ASSUME NEW items \in History
    PROVE  Size(items) \in Nat
  <1> DEFINE D == DOMAIN items
             w == [i \in D |-> Weight[items[i]]]
             Folds(g) == g = [s \in SUBSET D |->
                      IF s = {} THEN 0
                      ELSE Weight[items[CHOOSE x \in s : TRUE]] + g[s \ {CHOOSE x \in s : TRUE}]]
             f == CHOOSE g : Folds(g)
  <1>1. Size(items) = f[D]
    BY DEF Size, MapThenSumSet, MapThenFoldSet
  <1>2. IsFiniteSet(D)
    <2>1. D = 1 .. Len(items) /\ Len(items) \in Nat
      BY DEF History
    <2> QED
      BY <2>1, FS_Interval
  <1>3. w \in [D -> Nat]
    BY ResponseAssumption DEF History
  <1>4. \A g : IsSum(g, D, w) <=> Folds(g)
    BY DEF IsSum, Chosen
  <1>5. IsSum(f, D, w)
    <2>1. \E g : IsSum(g, D, w)
      <3> HIDE DEF D, w
      <3> QED
        BY <1>2, <1>3, SumExists
    <2> HIDE DEF w, D, Folds
    <2>2. Folds(f)
      BY <1>4, <2>1
    <2> HIDE DEF f
    <2> QED
      BY <1>4, <2>2
  <1> HIDE DEF f, w, D, Folds
  <1>6. \A s \in SUBSET D : f[s] = f[s] /\ f[s] \in Nat
    BY <1>2, <1>3, <1>5, SumsAgree
  <1> QED
    BY <1>1, <1>6

(* The bytes of entries are such a sum, for one function of weights.       *)
LEMMA BytesSum ==
    ASSUME NEW S \in SUBSET Entry, IsFiniteSet(S)
    PROVE  LET w == [e \in S |-> Size(e.items)] IN
           /\ w \in [S -> Nat]
           /\ \A T \in SUBSET S : \E f : IsSum(f, T, w) /\ Bytes(T) = f[T]
  <1> DEFINE w == [e \in S |-> Size(e.items)]
  <1>1. w \in [S -> Nat]
    BY SizeType DEF Entry
  <1>2. ASSUME NEW T \in SUBSET S
        PROVE  \E f : IsSum(f, T, w) /\ Bytes(T) = f[T]
    <2> DEFINE Folds(g) == g = [s \in SUBSET T |->
                      IF s = {} THEN 0
                      ELSE Size((CHOOSE x \in s : TRUE).items) + g[s \ {CHOOSE x \in s : TRUE}]]
               f == CHOOSE g : Folds(g)
               v == [e \in T |-> Size(e.items)]
    <2>1. Bytes(T) = f[T]
      BY DEF Bytes, MapThenSumSet, MapThenFoldSet
    <2>2. \A g : (IsSum(g, T, w) <=> Folds(g)) /\ (IsSum(g, T, w) <=> IsSum(g, T, v))
      BY DEF IsSum, Chosen
    <2>3. v \in [T -> Nat] /\ IsFiniteSet(T)
      BY SizeType, FS_Subset DEF Entry
    <2>4. \E g : IsSum(g, T, v)
      <3> HIDE DEF v
      <3> QED
        BY <2>3, SumExists
    <2> HIDE DEF v, w, Folds
    <2>5. Folds(f)
      BY <2>2, <2>4
    <2> HIDE DEF f
    <2>6. IsSum(f, T, w)
      BY <2>2, <2>5
    <2> QED
      BY <2>1, <2>6
  <1> QED
    BY <1>1, <1>2

(* Adding an entry adds its size.                                          *)
LEMMA BytesAdd ==
    ASSUME NEW S \in SUBSET Entry, IsFiniteSet(S)
    PROVE  /\ Bytes(S) \in Nat /\ Bytes({}) = 0
           /\ \A e \in S : Bytes(S) = Size(e.items) + Bytes(S \ {e})
  <1> DEFINE w == [e \in S |-> Size(e.items)]
  <1>1. w \in [S -> Nat] /\ \A T \in SUBSET S : \E f : IsSum(f, T, w) /\ Bytes(T) = f[T]
    BY BytesSum
  <1>2. \A e \in S : w[e] = Size(e.items)
    OBVIOUS
  <1> HIDE DEF w
  <1>3. PICK f : IsSum(f, S, w) /\ Bytes(S) = f[S]
    BY <1>1
  <1>4. \A T \in SUBSET S : Bytes(T) = f[T] /\ f[T] \in Nat
    <2> SUFFICES ASSUME NEW T \in SUBSET S PROVE Bytes(T) = f[T] /\ f[T] \in Nat
      OBVIOUS
    <2>1. PICK g : IsSum(g, T, w) /\ Bytes(T) = g[T]
      BY <1>1
    <2> QED
      BY <1>1, <1>3, <2>1, SumsAgree
  <1>5. \A e \in S : f[S] = w[e] + f[S \ {e}]
    BY <1>1, <1>3, SumTakes
  <1>6. f[{}] = 0
    BY <1>3 DEF IsSum
  <1> QED
    BY <1>2, <1>4, <1>5, <1>6

(* Taking entries away takes their bytes away.                             *)
LEMMA BytesTake ==
    ASSUME NEW S \in SUBSET Entry, IsFiniteSet(S), NEW T \in SUBSET S
    PROVE  /\ Bytes(S \ T) = Bytes(S) - Bytes(T)
           /\ Bytes(S) \in Nat /\ Bytes(T) \in Nat /\ Bytes(T) <= Bytes(S)
  <1>1. \A U \in SUBSET S : U \in SUBSET Entry /\ IsFiniteSet(U) /\ Bytes(U) \in Nat
    <2>1. \A U \in SUBSET S : U \in SUBSET Entry /\ IsFiniteSet(U)
      BY FS_Subset
    <2> QED
      BY <2>1, BytesAdd
  <1>2. \A U \in SUBSET S : Bytes(S \ U) = Bytes(S) - Bytes(U)
    <2> DEFINE Bad == {U \in SUBSET S : Bytes(S \ U) # Bytes(S) - Bytes(U)}
    <2> SUFFICES ASSUME Bad # {} PROVE FALSE
      OBVIOUS
    <2>1. PICK U \in Bad : /\ IsFiniteSet(U) /\ Cardinality(U) \in Nat
                           /\ \A V \in SUBSET S : Cardinality(V) < Cardinality(U) => V \notin Bad
      <3>1. Bad \in SUBSET SUBSET S
        OBVIOUS
      <3> HIDE DEF Bad
      <3> QED
        BY <3>1, SmallestErring
    <2>2. CASE U = {}
      <3>1. Bytes({}) = 0 /\ S \ {} = S
        BY BytesAdd
      <3> QED
        BY <1>1, <2>2, <3>1
    <2>3. CASE U # {}
      <3>1. PICK e \in U : TRUE
        BY <2>3
      <3>2. U \ {e} \in SUBSET S /\ U \ {e} \notin Bad
        BY <2>1, <3>1, Smaller
      <3>3. Bytes(S \ (U \ {e})) = Bytes(S) - Bytes(U \ {e})
        BY <3>2
      <3>4. Bytes(U) = Size(e.items) + Bytes(U \ {e})
        BY <1>1, <3>1, BytesAdd
      <3> DEFINE V == S \ (U \ {e})
      <3>5. V \in SUBSET S /\ e \in V /\ V \ {e} = S \ U
        BY <3>1
      <3>6. Bytes(V) = Size(e.items) + Bytes(S \ U)
        <4> HIDE DEF V
        <4> QED
          BY <1>1, <3>5, BytesAdd
      <3>7. Size(e.items) \in Nat
        BY <3>1, SizeType DEF Entry
      <3>8. Bytes(U) \in Nat /\ Bytes(U \ {e}) \in Nat /\ Bytes(S \ U) \in Nat /\ Bytes(S) \in Nat
        BY <1>1, <3>2
      <3>9. Bytes(S \ U) = Bytes(S) - Bytes(U)
        BY <3>3, <3>4, <3>6, <3>7, <3>8
      <3> QED
        BY <3>9
    <2> QED
      BY <2>2, <2>3
  <1>3. Bytes(S \ T) \in Nat /\ Bytes(S) \in Nat /\ Bytes(T) \in Nat
    BY <1>1
  <1> QED
    BY <1>2, <1>3

-----------------------------------------------------------------------------
(* What the operations of the store keep.  A store is well kept when it is *)
(* finite, has one entry under a key and in a place, and its counter is    *)
(* the sum of the sizes.                                                   *)

Distinct(S) == \A e, f \in S : e.id = f.id \/ e.order = f.order => e = f

WellKept(m) ==
    /\ m \in [entries : SUBSET Entry, bytes : Nat]
    /\ IsFiniteSet(m.entries) /\ Distinct(m.entries)
    /\ m.bytes = Bytes(m.entries)

(* deleteEntry: the counter never falls below zero, so nothing is lost by  *)
(* stopping it there.                                                      *)
LEMMA DeleteKeeps ==
    ASSUME NEW m, WellKept(m), NEW gone \in SUBSET m.entries
    PROVE  /\ WellKept(Delete(m, gone))
           /\ Delete(m, gone).entries = m.entries \ gone
           /\ Delete(m, gone).bytes = m.bytes - Bytes(gone)
  <1> DEFINE S == m.entries
  <1>1. S \in SUBSET Entry /\ IsFiniteSet(S) /\ Distinct(S) /\ m.bytes = Bytes(S) /\ m.bytes \in Nat
    BY DEF WellKept
  <1>2. /\ Bytes(S \ gone) = Bytes(S) - Bytes(gone)
        /\ Bytes(gone) \in Nat /\ Bytes(gone) <= Bytes(S)
    BY <1>1, BytesTake
  <1>3. Delete(m, gone) = [entries |-> S \ gone, bytes |-> m.bytes - Bytes(gone)]
    <2>1. ~ (m.bytes - Bytes(gone) < 0)
      BY <1>1, <1>2
    <2> QED
      BY <2>1 DEF Delete
  <1>4. IsFiniteSet(S \ gone) /\ Distinct(S \ gone) /\ m.bytes - Bytes(gone) \in Nat
    BY <1>1, <1>2, FS_Subset DEF Distinct
  <1> QED
    BY <1>1, <1>2, <1>3, <1>4 DEF WellKept

(* The end of the map is after all that is in it.                          *)
LEMMA Places ==
    ASSUME NEW S \in SUBSET Entry, IsFiniteSet(S)
    PROVE  Place(S) \in Nat /\ \A e \in S : e.order < Place(S)
  <1>1. CASE S = {}
    BY <1>1 DEF Place
  <1>2. CASE S # {}
    <2> DEFINE orders == {e.order : e \in S}
               Above(e) == {f \in S : f.order > e.order}
               Cuts == {Above(e) : e \in S}
    <2>1. PICK s \in Cuts : \A u \in SUBSET S : Cardinality(u) < Cardinality(s) => u \notin Cuts
      <3>1. Cuts \in SUBSET SUBSET S /\ Cuts # {}
        BY <1>2
      <3> HIDE DEF Cuts
      <3> QED
        BY <3>1, SmallestErring
    <2>2. PICK e \in S : s = Above(e)
      OBVIOUS
    <2>3. \A f \in S : f.order \in Nat
      BY DEF Entry
    <2>4. ASSUME NEW f \in S, f.order > e.order PROVE FALSE
      <3>1. Above(f) \in SUBSET Above(e) /\ f \in Above(e) /\ f \notin Above(f)
        BY <2>3, <2>4
      <3>2. Above(f) \in SUBSET S /\ Above(f) \in Cuts /\ Above(e) \in SUBSET S
        OBVIOUS
      <3>3. IsFiniteSet(Above(e)) /\ Cardinality(Above(e)) \in Nat /\ Cardinality(Above(f)) \in Nat
        BY <3>2, FS_Subset, FS_CardinalityType
      <3>4. Cardinality(Above(f)) < Cardinality(Above(e))
        <4>1. Above(f) # Above(e)
          BY <3>1
        <4> HIDE DEF Above
        <4>2. /\ Cardinality(Above(f)) <= Cardinality(Above(e))
              /\ Cardinality(Above(e)) # Cardinality(Above(f))
          BY <3>1, <3>3, <4>1, FS_Subset
        <4> QED
          BY <3>3, <4>2
      <3> QED
        BY <2>1, <2>2, <3>2, <3>4
    <2>5. e.order \in orders /\ \A n \in orders : e.order >= n
      BY <2>3, <2>4
    <2>6. Max(orders) \in orders /\ \A n \in orders : Max(orders) >= n
      <3> HIDE DEF orders
      <3> QED
        BY <2>5 DEF Max
    <2>7. Place(S) = 1 + Max(orders)
      BY <1>2 DEF Place
    <2>8. Max(orders) \in Nat /\ \A f \in S : Max(orders) >= f.order
      BY <2>3, <2>6
    <2> HIDE DEF orders
    <2> QED
      BY <2>3, <2>7, <2>8
  <1> QED
    BY <1>1, <1>2

(* The entry of this moment, at the end of the map.                        *)
Latest(S, id) == \E e \in S : e.id = id /\ e.at = now /\ Newer(S, e) = {}

(* setEntry: the entry goes to the end of the map, and the others stay.    *)
LEMMA SetEntryKeeps ==
    ASSUME NEW m, WellKept(m), NEW id \in Names, NEW items \in History, now \in Nat,
           NEW before, before = SetEntry(m, id, items)
    PROVE  /\ WellKept(before)
           /\ \A e \in m.entries : e.id # id => e \in before.entries
           /\ Latest(before.entries, id)
  <1> DEFINE gone == {e \in m.entries : e.id = id}
             rest == Delete(m, gone)
             entry == [id |-> id, at |-> now, items |-> items, order |-> Place(rest.entries)]
             all == rest.entries \cup {entry}
  <1>1. WellKept(rest) /\ rest.entries = m.entries \ gone
    <2>1. gone \in SUBSET m.entries
      OBVIOUS
    <2> HIDE DEF gone
    <2> QED
      BY <2>1, DeleteKeeps
  <1>2. \A e \in rest.entries : e.id # id
    BY <1>1
  <1>3. {e \in m.entries : e.id # id} = rest.entries
    BY <1>1
  <1>4. SetEntry(m, id, items) = [entries |-> all, bytes |-> rest.bytes + Size(items)]
    BY DEF SetEntry
  <1> HIDE DEF rest
  <1>5. rest.entries \in SUBSET Entry /\ IsFiniteSet(rest.entries) /\ Distinct(rest.entries)
    BY <1>1 DEF WellKept
  <1>6. Place(rest.entries) \in Nat /\ \A e \in rest.entries : e.order < Place(rest.entries)
    BY <1>5, Places
  <1>7. /\ entry \in Entry /\ entry.id = id /\ entry.at = now /\ entry.items = items
        /\ entry.order = Place(rest.entries) /\ entry \notin rest.entries
    BY <1>2, <1>6 DEF Entry
  <1> HIDE DEF entry
  <1>8. all \in SUBSET Entry /\ IsFiniteSet(all) /\ all \ {entry} = rest.entries /\ entry \in all
    BY <1>5, <1>7, FS_AddElement
  <1>9. \A e \in rest.entries : e.order \in Nat /\ e.order < entry.order
    BY <1>5, <1>6, <1>7 DEF Entry
  <1>10. Distinct(all)
    BY <1>2, <1>5, <1>7, <1>9 DEF Distinct
  <1>11. Bytes(all) = Size(items) + Bytes(rest.entries)
    BY <1>7, <1>8, BytesAdd
  <1>12. /\ rest.bytes + Size(items) \in Nat /\ rest.bytes + Size(items) = Bytes(all)
    BY <1>1, <1>11, SizeType DEF WellKept
  <1>13. Newer(all, entry) = {}
    BY <1>6, <1>7, <1>9 DEF Newer
  <1>14. WellKept(SetEntry(m, id, items))
    <2> HIDE DEF all
    <2> QED
      BY <1>4, <1>8, <1>10, <1>12 DEF WellKept
  <1>15. SetEntry(m, id, items).entries = all /\ entry \in all /\ rest.entries \subseteq all
    BY <1>4
  <1> HIDE DEF all
  <1> QED
    BY <1>3, <1>7, <1>13, <1>14, <1>15 DEF Latest

(* What the limits ask for among the entries L that are not too old.       *)
OverAmong(L) ==
    {e \in L : /\ Newer(L, e) # {}
               /\ \/ Cardinality({e} \cup Newer(L, e)) > MaxResponses
                  \/ Bytes({e} \cup Newer(L, e)) > ByteCap}

Live(S) == {e \in S : ~ Expired(e.at)}

(* OverLimits is that, of those that are not too old.                      *)
LEMMA OverLimitsAmongLive == \A S : OverLimits(S) = OverAmong(Live(S))
  BY DEF OverLimits, OverAmong, Live

(* They ask for no more when there is less.                                *)
LEMMA LessIsAsked ==
    ASSUME NEW L \in SUBSET Entry, IsFiniteSet(L), NEW K \in SUBSET L
    PROVE  OverAmong(K) \subseteq OverAmong(L)
  <1> SUFFICES ASSUME NEW e \in OverAmong(K) PROVE e \in OverAmong(L)
    OBVIOUS
  <1> DEFINE few == {e} \cup Newer(K, e)
             many == {e} \cup Newer(L, e)
  <1>1. e \in K /\ e \in L /\ Newer(K, e) # {} /\ Newer(K, e) \subseteq Newer(L, e)
    BY DEF OverAmong, Newer
  <1>2. few \in SUBSET many /\ many \in SUBSET L
    BY <1>1 DEF Newer
  <1>3. Cardinality(few) > MaxResponses \/ Bytes(few) > ByteCap
    BY DEF OverAmong
  <1>4. e \in OverAmong(L) <=> Newer(L, e) # {} /\ (Cardinality(many) > MaxResponses \/ Bytes(many) > ByteCap)
    BY <1>1 DEF OverAmong
  <1> HIDE DEF few, many
  <1>5. IsFiniteSet(many) /\ many \in SUBSET Entry
    BY <1>2, FS_Subset
  <1>6. /\ Cardinality(few) \in Nat /\ Cardinality(many) \in Nat
        /\ Cardinality(few) <= Cardinality(many)
        /\ Bytes(few) \in Nat /\ Bytes(many) \in Nat /\ Bytes(few) <= Bytes(many)
    BY <1>2, <1>5, FS_Subset, FS_CardinalityType, BytesTake
  <1>7. MaxResponses \in Nat /\ ByteCap \in Nat
    BY ResponseAssumption
  <1> QED
    BY <1>1, <1>3, <1>4, <1>6, <1>7

(* Of some entries, one is the oldest.                                     *)
LEMMA Oldest ==
    ASSUME NEW S \in SUBSET Entry, S # {}
    PROVE  \E h \in S : \A e \in S : h.order <= e.order
  <1> DEFINE orders == {e.order : e \in S}
  <1>1. orders \in SUBSET Nat /\ orders # {}
    BY DEF Entry
  <1>2. \E n \in orders : \A k \in orders : n <= k
    <2> HIDE DEF orders
    <2> QED
      BY <1>1, LeastNumber
  <1> QED
    BY <1>2

(* What is within the limits, but for a nameless entry at the head.        *)
Bounded(S) ==
    /\ Cardinality(S) <= MaxResponses
    /\ Bytes(S) <= ByteCap \/ Cardinality(S) <= 1

HeadIsNameless(S) == \E e \in S : e.id = Unnamed /\ Older(S, e) = {}

(* pruneResponses brings the store within its limits, and an entry that is *)
(* neither too old nor asked for by the limits survives it.                *)
LEMMA PruneKeeps ==
    ASSUME NEW m, WellKept(m), now \in Nat
    PROVE  /\ WellKept(Prune(m))
           /\ Prune(m).entries \subseteq m.entries
           /\ Bounded(Prune(m).entries) \/ HeadIsNameless(Prune(m).entries)
           /\ Live(m.entries) \ OverLimits(m.entries) \subseteq Prune(m).entries
  <1> DEFINE old == {e \in m.entries : Expired(e.at)}
             live == Delete(m, old)
             Surplus(e) == /\ Reached(live.entries, e)
                           /\ Cardinality(Newer(live.entries, e)) >= MaxResponses
             surplus == {e \in live.entries : Surplus(e)}
             counted == Delete(live, surplus)
             Heavy(e) == /\ Reached(counted.entries, e)
                         /\ Newer(counted.entries, e) # {}
                         /\ counted.bytes - Bytes(Older(counted.entries, e)) > ByteCap
             heavy == {e \in counted.entries : Heavy(e)}
             final == Delete(counted, heavy)
             L == live.entries
             C == counted.entries
             F == final.entries
  <1>1. Prune(m) = final
    BY DEF Prune
  <1>2. WellKept(live) /\ L = m.entries \ old
    <2>1. old \in SUBSET m.entries
      OBVIOUS
    <2> HIDE DEF old
    <2> QED
      BY <2>1, DeleteKeeps
  <1>3. L = Live(m.entries)
    BY <1>2 DEF Live
  <1> HIDE DEF live
  <1>4. WellKept(counted) /\ C = L \ surplus
    <2>1. surplus \in SUBSET live.entries
      OBVIOUS
    <2> HIDE DEF surplus
    <2> QED
      BY <1>2, <2>1, DeleteKeeps
  <1> HIDE DEF counted
  <1>5. WellKept(final) /\ F = C \ heavy
    <2>1. heavy \in SUBSET counted.entries
      OBVIOUS
    <2> HIDE DEF heavy
    <2> QED
      BY <1>4, <2>1, DeleteKeeps
  <1> HIDE DEF final
  <1>6. /\ L \in SUBSET Entry /\ IsFiniteSet(L) /\ Distinct(L)
        /\ C \in SUBSET Entry /\ IsFiniteSet(C) /\ Distinct(C) /\ counted.bytes = Bytes(C)
        /\ F \in SUBSET Entry /\ IsFiniteSet(F)
        /\ F \subseteq C /\ C \subseteq L /\ L \subseteq m.entries
    BY <1>2, <1>4, <1>5 DEF WellKept
  <1>7. \A e \in L : e.order \in Nat
    BY <1>6 DEF Entry
  <1>8. \A e \in L : e \in surplus <=> Surplus(e)
    OBVIOUS
  <1>9. \A e \in C : e \in heavy <=> Heavy(e)
    OBVIOUS
  <1> HIDE DEF surplus, heavy
  <1>10. MaxResponses \in Nat \ {0} /\ ByteCap \in Nat
    BY ResponseAssumption
  <1>11. Bounded(F) \/ HeadIsNameless(F)
    <2>1. CASE F = {}
      <3>1. Cardinality(F) = 0 /\ Bytes(F) = 0
        BY <1>6, <2>1, BytesAdd, FS_EmptySet
      <3> QED
        BY <1>10, <3>1 DEF Bounded
    <2>2. CASE F # {}
      <3>1. PICK h \in F : \A e \in F : h.order <= e.order
        BY <1>6, <2>2, Oldest
      <3>2. CASE h.id = Unnamed
        <4>1. Older(F, h) = {}
          BY <1>6, <1>7, <3>1 DEF Older
        <4> QED
          BY <3>2, <4>1 DEF HeadIsNameless
      <3>3. CASE h.id # Unnamed
        <4>1. h \in C /\ h \in L /\ ~ Heavy(h) /\ ~ Surplus(h)
          BY <1>4, <1>5, <1>6, <1>8, <1>9
        <4>2. Reached(C, h)
          <5>1. ASSUME NEW f \in Older(C, h) PROVE f.id # Unnamed
            <6>1. f \in C /\ f.order < h.order /\ f \notin F
              BY <1>6, <1>7, <3>1 DEF Older
            <6>2. Reached(C, f)
              BY <1>5, <1>9, <6>1
            <6> QED
              BY <6>2 DEF Reached
          <5> QED
            BY <3>3, <5>1 DEF Reached
        <4>3. Reached(L, h)
          <5>1. ASSUME NEW f \in Older(L, h) PROVE f.id # Unnamed
            <6>1. f \in L /\ f.order < h.order
              BY DEF Older
            <6>2. CASE f \in C
              BY <4>2, <6>1, <6>2 DEF Reached, Older
            <6>3. CASE f \notin C
              <7>1. Reached(L, f)
                BY <1>4, <1>8, <6>1, <6>3
              <7> QED
                BY <7>1 DEF Reached
            <6> QED
              BY <6>2, <6>3
          <5> QED
            BY <3>3, <5>1 DEF Reached
        <4>4. F \subseteq {h} \cup Newer(C, h) /\ Newer(C, h) \subseteq Newer(L, h)
          <5>1. ASSUME NEW e \in F, e # h PROVE e.order > h.order
            <6>1. e.order # h.order /\ e.order \in Nat /\ h.order \in Nat
              BY <1>6, <1>7, <4>1, <5>1 DEF Distinct
            <6> QED
              BY <3>1, <6>1
          <5> QED
            BY <1>6, <5>1 DEF Newer
        <4>5. Cardinality(F) <= MaxResponses
          <5> DEFINE N == Newer(L, h)
          <5>1. N \in SUBSET L /\ IsFiniteSet(N) /\ Cardinality(N) \in Nat /\ h \notin N
            BY <1>6, <1>7, <4>1, FS_Subset, FS_CardinalityType DEF Newer
          <5>2. Cardinality(N) < MaxResponses
            BY <1>10, <4>1, <4>3, <5>1
          <5> HIDE DEF N
          <5>3. IsFiniteSet(N \cup {h}) /\ Cardinality(N \cup {h}) = Cardinality(N) + 1
            BY <5>1, FS_AddElement
          <5>4. F \in SUBSET (N \cup {h})
            BY <4>4 DEF N
          <5>5. Cardinality(F) <= Cardinality(N \cup {h}) /\ Cardinality(F) \in Nat
            BY <1>6, <5>3, <5>4, FS_Subset, FS_CardinalityType
          <5> QED
            BY <1>10, <5>1, <5>2, <5>3, <5>5
        <4>6. CASE Newer(C, h) = {}
          <5>1. F = {h}
            BY <4>4, <4>6
          <5>2. Cardinality(F) = 1
            BY <5>1, FS_Singleton
          <5> QED
            BY <4>5, <5>2 DEF Bounded
        <4>7. CASE Newer(C, h) # {}
          <5> DEFINE O == Older(C, h)
          <5>1. O \in SUBSET C
            BY DEF Older
          <5>2. ~ (counted.bytes - Bytes(O) > ByteCap)
            BY <4>1, <4>2, <4>7
          <5>3. F \in SUBSET (C \ O)
            BY <1>6, <1>7, <3>1 DEF Older
          <5> HIDE DEF O
          <5>4. /\ Bytes(C \ O) = Bytes(C) - Bytes(O)
                /\ Bytes(C) \in Nat /\ Bytes(O) \in Nat
            BY <1>6, <5>1, BytesTake
          <5>5. C \ O \in SUBSET Entry /\ IsFiniteSet(C \ O)
            BY <1>6, FS_Subset
          <5>6. Bytes(F) <= Bytes(C \ O) /\ Bytes(F) \in Nat /\ Bytes(C \ O) \in Nat
            BY <5>3, <5>5, BytesTake
          <5>7. Bytes(F) <= ByteCap
            BY <1>6, <1>10, <5>2, <5>4, <5>6
          <5> QED
            BY <4>5, <5>7 DEF Bounded
        <4> QED
          BY <4>6, <4>7
      <3> QED
        BY <3>2, <3>3
    <2> QED
      BY <2>1, <2>2
  <1>12. ASSUME NEW e \in L, e \notin OverAmong(L) PROVE e \in F
    <2> DEFINE N == Newer(L, e)
               many == {e} \cup N
    <2>1. /\ N \in SUBSET L /\ e \notin N /\ IsFiniteSet(N)
          /\ Cardinality(N) \in Nat /\ many \in SUBSET L
      BY <1>6, <1>7, FS_Subset, FS_CardinalityType DEF Newer
    <2>2. N # {} => ~ (Cardinality(many) > MaxResponses) /\ ~ (Bytes(many) > ByteCap)
      BY <1>12 DEF OverAmong
    <2>3. Cardinality(many) = Cardinality(N) + 1
      <3>1. many = N \cup {e}
        OBVIOUS
      <3> HIDE DEF N, many
      <3> QED
        BY <2>1, <3>1, FS_AddElement
    <2>4. N = {} => Cardinality(N) = 0
      BY FS_EmptySet
    <2>5. ~ Surplus(e)
      <3>1. Cardinality(N) < MaxResponses
        <4> HIDE DEF N, many
        <4> QED
          BY <1>10, <2>1, <2>2, <2>3, <2>4
      <3>2. ~ (Cardinality(N) >= MaxResponses)
        <4> HIDE DEF N
        <4> QED
          BY <1>10, <2>1, <3>1
      <3> QED
        BY <3>2
    <2>6. e \in C
      BY <1>4, <1>8, <2>5
    <2>7. ~ Heavy(e)
      <3> SUFFICES ASSUME Newer(C, e) # {}, counted.bytes - Bytes(Older(C, e)) > ByteCap
                   PROVE  FALSE
        OBVIOUS
      <3> DEFINE O == Older(C, e)
                 few == {e} \cup Newer(C, e)
      <3>1. C \ O = few
        <4>1. \A f \in C : f \in O \/ f = e \/ f.order > e.order
          BY <1>6, <1>7, <2>6 DEF Older, Distinct
        <4> QED
          BY <1>6, <1>7, <2>6, <4>1 DEF Older, Newer
      <3>2. O \in SUBSET C /\ few \in SUBSET many /\ N # {}
        BY <1>6 DEF Older, Newer
      <3>3. ~ (Bytes(many) > ByteCap)
        BY <2>2, <3>2
      <3>4. many \in SUBSET Entry /\ IsFiniteSet(many)
        BY <1>6, <2>1, FS_Subset
      <3> HIDE DEF O, few, many, N
      <3>5. Bytes(C \ O) = Bytes(C) - Bytes(O)
        BY <1>6, <3>2, BytesTake
      <3>6. Bytes(few) <= Bytes(many) /\ Bytes(few) \in Nat /\ Bytes(many) \in Nat
        BY <3>2, <3>4, BytesTake
      <3>7. Bytes(few) > ByteCap
        BY <1>6, <3>1, <3>5 DEF O
      <3> QED
        BY <1>10, <3>3, <3>6, <3>7
    <2> QED
      BY <1>5, <1>9, <2>6, <2>7
  <1>13. OverLimits(m.entries) = OverAmong(L)
    BY <1>3, OverLimitsAmongLive
  <1> QED
    BY <1>1, <1>3, <1>5, <1>6, <1>11, <1>12, <1>13

-----------------------------------------------------------------------------
(* What the snapshot keeps *)

(* persistNow writes no more than its total.                               *)
LEMMA SnapshotFits ==
    ASSUME NEW S \in SUBSET Entry, IsFiniteSet(S), Distinct(S)
    PROVE  Bytes(Snapshot(S)) <= SnapshotTotalMax
  <1> DEFINE small == {e \in S : Size(e.items) <= SnapshotEntryMax}
             kept == Snapshot(S)
             Upward(e) == {e} \cup Newer(small, e)
  <1>1. kept = {e \in small : Bytes(Upward(e)) <= SnapshotTotalMax}
    BY DEF Snapshot
  <1>2. kept \in SUBSET small /\ small \in SUBSET S
    BY <1>1
  <1>3. /\ small \in SUBSET Entry /\ IsFiniteSet(small)
        /\ kept \in SUBSET Entry /\ IsFiniteSet(kept)
    BY <1>2, FS_Subset
  <1>4. SnapshotTotalMax \in Nat
    BY ResponseAssumption
  <1> HIDE DEF kept
  <1>5. CASE kept = {}
    BY <1>3, <1>4, <1>5, BytesAdd DEF kept
  <1>6. CASE kept # {}
    <2>1. PICK h \in kept : \A e \in kept : h.order <= e.order
      BY <1>3, <1>6, Oldest
    <2>2. ASSUME NEW e \in kept, e # h PROVE e \in Newer(small, h)
      <3>1. e.order # h.order /\ e.order \in Nat /\ h.order \in Nat
        BY <1>2, <1>3, <2>2 DEF Distinct, Entry
      <3>2. QED
        BY <1>2, <2>1, <3>1 DEF Newer
    <2>3. Bytes(Upward(h)) <= SnapshotTotalMax
      BY <1>1
    <2>4. Upward(h) \in SUBSET small /\ kept \in SUBSET Upward(h)
      BY <1>2, <2>2 DEF Newer
    <2> HIDE DEF Upward, small
    <2>5. Upward(h) \in SUBSET Entry /\ IsFiniteSet(Upward(h))
      BY <1>3, <2>4, FS_Subset
    <2>6. Bytes(kept) <= Bytes(Upward(h)) /\ Bytes(kept) \in Nat /\ Bytes(Upward(h)) \in Nat
      BY <2>4, <2>5, BytesTake
    <2>7. QED
      BY <1>4, <2>3, <2>6 DEF kept
  <1>7. QED
    BY <1>5, <1>6

(* What may not be left out of the snapshot is in it.                      *)
LEMMA SnapshotKeeps ==
    ASSUME NEW S \in SUBSET Entry, IsFiniteSet(S), Distinct(S)
    PROVE  S \ LeftOut(S) \subseteq Snapshot(S)
  <1> SUFFICES ASSUME NEW e \in S, e \notin LeftOut(S) PROVE e \in Snapshot(S)
    OBVIOUS
  <1> DEFINE small == {f \in S : Size(f.items) <= SnapshotEntryMax}
             fellows == {f \in S : f.order >= e.order /\ ~(Size(f.items) > SnapshotEntryMax)}
             upward == {e} \cup Newer(small, e)
  <1>1. ~(Size(e.items) > SnapshotEntryMax) /\ ~(Bytes(fellows) > SnapshotTotalMax)
    BY DEF LeftOut
  <1>2. \A f \in S : Size(f.items) \in Nat /\ f.order \in Nat
    BY SizeType DEF Entry
  <1>3. SnapshotEntryMax \in Nat /\ SnapshotTotalMax \in Nat
    BY ResponseAssumption
  <1>4. \A f \in S : ~(Size(f.items) > SnapshotEntryMax) <=> f \in small
    BY <1>2, <1>3
  <1>5. fellows = upward
    <2>1. \A f \in S : f.order >= e.order => f = e \/ f.order > e.order
      BY <1>2 DEF Distinct
    <2>2. \A f \in S : f \in small => Size(f.items) <= SnapshotEntryMax
      OBVIOUS
    <2>3. e \in fellows
      BY <1>1, <1>2
    <2>4. QED
      BY <1>2, <1>4, <2>1, <2>3 DEF Newer
  <1>6. upward \in SUBSET Entry /\ e \in small
    BY <1>1, <1>4, <1>5
  <1>7. e \in Snapshot(S) <=> Bytes(upward) <= SnapshotTotalMax
    BY <1>6 DEF Snapshot
  <1>8. Bytes(upward) <= SnapshotTotalMax
    <2>1. upward \in SUBSET S /\ ~(Bytes(upward) > SnapshotTotalMax)
      BY <1>1, <1>5
    <2> HIDE DEF upward
    <2>2. Bytes(upward) \in Nat
      BY <1>6, <2>1, FS_Subset, BytesAdd
    <2>3. QED
      BY <1>3, <2>1, <2>2
  <1>9. QED
    BY <1>7, <1>8
-----------------------------------------------------------------------------
(* The invariant of the store.  A response that is owed is in the store,   *)
(* not too old and not asked for by the limits, and so is it in the last   *)
(* snapshot unless it was recorded since.                                  *)

Remembered(x, S) == \E e \in S : e.id = x.id /\ e.at >= x.at /\ e \notin OverLimits(S)

StoreKept ==
    /\ now \in Nat /\ loaded \in BOOLEAN /\ timer \in BOOLEAN
    /\ WellKept(memory)
    /\ Bounded(memory.entries) \/ HeadIsNameless(memory.entries)
    /\ disk \in SUBSET Entry /\ IsFiniteSet(disk) /\ Distinct(disk)
    /\ Bytes(disk) <= SnapshotTotalMax
    /\ timer => loaded
    /\ ~loaded => unsaved = {}
    /\ unsaved \in SUBSET Responses
    /\ owed \in SUBSET [id : Responses, at : Nat]
    /\ \A x \in owed : /\ x.at <= now /\ now - x.at <= TTL
                       /\ loaded => Remembered(x, memory.entries)
                       /\ x.id \notin unsaved => Remembered(x, disk)

RequestsKept ==
    /\ turns \in Nat /\ restarts \in Nat
    /\ request \in [Requests -> Turn \cup {Idle}]
    /\ known \in SUBSET Responses
    /\ whole \in [Responses -> History]
    /\ cut \in SUBSET Names

Kept == StoreKept /\ RequestsKept

(* What the run checks of the types follows.                               *)
LEMMA KeptIsTyped == Kept => TypeOK
  BY DEF Kept, StoreKept, RequestsKept, WellKept, Distinct, TypeOK

(* What the run checks of evictions follows.                               *)
LEMMA KeptIsExact == StoreKept => EvictionIsExact
  <1> SUFFICES ASSUME StoreKept PROVE EvictionIsExact
    OBVIOUS
  <1>1. NothingElseIsForgotten
    <2> SUFFICES ASSUME NEW x \in owed
                 PROVE  x.id \in IdsOf(IF loaded THEN memory.entries ELSE disk)
      BY DEF NothingElseIsForgotten
    <2>1. Remembered(x, IF loaded THEN memory.entries ELSE disk)
      BY DEF StoreKept
    <2>2. QED
      BY <2>1 DEF Remembered, IdsOf
  <1>2. LimitsHold
    BY DEF StoreKept, LimitsHold, StoreIsBounded, Bounded, HeadIsNameless
  <1>3. BytesAreCounted
    BY DEF StoreKept, WellKept, BytesAreCounted
  <1>4. QED
    BY <1>1, <1>2, <1>3 DEF EvictionIsExact

(* Where nothing is expired that an owed response could be, an entry that  *)
(* remembers one survives pruneResponses and is asked for by no limit      *)
(* afterwards.                                                             *)
LEMMA PruneRemembers ==
    ASSUME NEW m, WellKept(m), now \in Nat, NEW x, x.at \in Nat, now - x.at <= TTL,
           Remembered(x, m.entries)
    PROVE  Remembered(x, Prune(m).entries)
  <1> DEFINE P == Prune(m).entries
  <1>1. PICK e \in m.entries : e.id = x.id /\ e.at >= x.at /\ e \notin OverLimits(m.entries)
    BY DEF Remembered
  <1>2. /\ WellKept(Prune(m)) /\ P \subseteq m.entries
        /\ Live(m.entries) \ OverLimits(m.entries) \subseteq P
    BY PruneKeeps
  <1>3. m.entries \in SUBSET Entry /\ IsFiniteSet(m.entries)
    BY DEF WellKept
  <1> HIDE DEF P
  <1>4. e \in P
    <2>1. e.at \in Nat /\ TTL \in Nat
      BY <1>3, ResponseAssumption DEF Entry
    <2>2. e \in Live(m.entries)
      BY <1>1, <2>1 DEF Live, Expired
    <2>3. QED
      BY <1>1, <1>2, <2>2
  <1>5. e \notin OverLimits(P)
    <2>1. Live(P) \in SUBSET Live(m.entries) /\ Live(m.entries) \in SUBSET m.entries
      BY <1>2 DEF Live
    <2>2. Live(m.entries) \in SUBSET Entry /\ IsFiniteSet(Live(m.entries))
      BY <1>3, <2>1, FS_Subset
    <2>3. OverAmong(Live(P)) \subseteq OverAmong(Live(m.entries))
      BY <2>1, <2>2, LessIsAsked
    <2>4. QED
      BY <1>1, <2>3, OverLimitsAmongLive
  <1>6. Remembered(x, P)
    BY <1>1, <1>4, <1>5 DEF Remembered
  <1>7. QED
    BY <1>6 DEF P

(* A smaller store asks for less.                                          *)
LEMMA FewerRemember ==
    ASSUME NEW S \in SUBSET Entry, IsFiniteSet(S), NEW R \in SUBSET S, NEW x,
           \E e \in R : e.id = x.id /\ e.at >= x.at /\ e \notin OverLimits(S)
    PROVE  Remembered(x, R)
  <1>1. Live(R) \in SUBSET Live(S) /\ Live(S) \in SUBSET S
    BY DEF Live
  <1>2. Live(S) \in SUBSET Entry /\ IsFiniteSet(Live(S))
    BY <1>1, FS_Subset
  <1>3. OverLimits(R) \subseteq OverLimits(S)
    BY <1>1, <1>2, LessIsAsked, OverLimitsAmongLive
  <1>4. QED
    BY <1>3 DEF Remembered

(* The file read back.                                                     *)
LEMMA ReadKeeps ==
    ASSUME NEW S \in SUBSET Entry, IsFiniteSet(S), Distinct(S)
    PROVE  WellKept(Read(S)) /\ Read(S).entries = S
  <1>1. Bytes(S) \in Nat
    BY BytesAdd
  <1>2. QED
    BY <1>1 DEF Read, WellKept

(* ensureLoaded gives a store that is well kept and remembers every        *)
(* response that is owed.                                                  *)
LEMMA LoadKeeps ==
    ASSUME StoreKept
    PROVE  /\ WellKept(EnsureLoaded)
           /\ \A x \in owed : Remembered(x, EnsureLoaded.entries)
  <1>1. CASE loaded
    BY <1>1 DEF StoreKept, EnsureLoaded
  <1>2. CASE ~loaded
    <2>1. disk \in SUBSET Entry /\ IsFiniteSet(disk) /\ Distinct(disk) /\ now \in Nat
      BY DEF StoreKept
    <2>2. WellKept(Read(disk)) /\ Read(disk).entries = disk
      BY <2>1, ReadKeeps
    <2>3. ASSUME NEW x \in owed PROVE Remembered(x, Prune(Read(disk)).entries)
      <3>1. x.at \in Nat /\ now - x.at <= TTL /\ Remembered(x, disk)
        BY <1>2 DEF StoreKept
      <3>2. QED
        BY <2>1, <2>2, <3>1, PruneRemembers
    <2>4. WellKept(Prune(Read(disk)))
      BY <2>1, <2>2, PruneKeeps
    <2>5. QED
      BY <1>2, <2>3, <2>4 DEF EnsureLoaded
  <1>3. QED
    BY <1>1, <1>2

(* rememberResponseState keeps the store, whatever it finds in it.         *)
LEMMA RememberKeeps ==
    ASSUME StoreKept, NEW q, NEW id \in Names, Remember(q, id), q.held \in History, now' = now
    PROVE  StoreKept'
  <1>1. CASE ~q.records
    BY <1>1 DEF Remember, store, StoreKept, Remembered, OverLimits, Expired, HeadIsNameless, Bounded, WellKept
  <1>2. CASE q.records
    <2> DEFINE start == EnsureLoaded
               items == Append(q.held, id)
               before == SetEntry(start, id, items)
               left == Without(OverLimits(before.entries))
    <2>1. /\ memory' = Prune(before) /\ loaded' = TRUE /\ timer' = TRUE /\ disk' = disk
          /\ owed' = left \cup Named(id)
          /\ unsaved' = (unsaved \cup {id}) \cap {x.id : x \in owed'}
      BY <1>2 DEF Remember
    <2>2. WellKept(start) /\ \A x \in owed : Remembered(x, start.entries)
      BY LoadKeeps
    <2>3. items \in History
      BY DEF History
    <2>4. /\ now \in Nat /\ TTL \in Nat /\ owed \in SUBSET [id : Responses, at : Nat]
          /\ \A x \in owed : x.at <= now /\ now - x.at <= TTL
      BY ResponseAssumption DEF StoreKept
    <2> HIDE DEF start, items
    <2>5. /\ WellKept(before)
          /\ \A e \in start.entries : e.id # id => e \in before.entries
          /\ Latest(before.entries, id)
      <3>1. before = SetEntry(start, id, items)
        OBVIOUS
      <3>2. WellKept(start) /\ now \in Nat
        BY <2>2, <2>4
      <3> HIDE DEF before
      <3>3. WellKept(before)
        BY <2>3, <3>1, <3>2, SetEntryKeeps
      <3>4. \A e \in start.entries : e.id # id => e \in before.entries
        BY <2>3, <3>1, <3>2, SetEntryKeeps
      <3>5. Latest(before.entries, id)
        BY <2>3, <3>1, <3>2, SetEntryKeeps
      <3>6. QED
        BY <3>3, <3>4, <3>5
    <2> HIDE DEF before
    <2>6. /\ WellKept(Prune(before))
          /\ Bounded(Prune(before).entries) \/ HeadIsNameless(Prune(before).entries)
      BY <2>4, <2>5, PruneKeeps
    <2>7. ASSUME NEW x \in Named(id)
          PROVE  x \in [id : Responses, at : Nat] /\ x.id = id /\ x.at = now
      BY <2>4 DEF Named
    <2>8. ASSUME NEW x \in [id : Responses, at : Nat], x.id = id, x.at <= now
          PROVE  Remembered(x, before.entries)
      <3>1. PICK e \in before.entries : e.id = id /\ e.at = now /\ Newer(before.entries, e) = {}
        BY <2>5 DEF Latest
      <3>2. e \notin OverLimits(before.entries)
        <4>1. Newer(Live(before.entries), e) = {}
          BY <3>1 DEF Newer, Live
        <4>2. e \notin OverAmong(Live(before.entries))
          BY <4>1 DEF OverAmong
        <4>3. QED
          BY <4>2, OverLimitsAmongLive
      <3>3. e.at >= x.at
        BY <2>4, <2>8, <3>1
      <3>4. QED
        BY <2>8, <3>1, <3>2, <3>3 DEF Remembered
    <2>9. ASSUME NEW x \in left, x.id # id PROVE Remembered(x, before.entries)
      <3>1. x \in owed /\ x.id \notin IdsOf(OverLimits(before.entries))
        BY DEF Without
      <3>2. PICK e \in start.entries : e.id = x.id /\ e.at >= x.at
        BY <2>2, <3>1 DEF Remembered
      <3>3. e \in before.entries /\ e \notin OverLimits(before.entries)
        BY <2>5, <2>9, <3>1, <3>2 DEF IdsOf
      <3>4. QED
        BY <3>2, <3>3 DEF Remembered
    <2>10. left \in SUBSET owed
      BY DEF Without
    <2>11. owed' \in SUBSET [id : Responses, at : Nat]
      BY <2>1, <2>4, <2>7, <2>10
    <2> HIDE DEF left
    <2>12. ASSUME NEW x \in owed'
           PROVE  x.at <= now' /\ now' - x.at <= TTL /\ Remembered(x, memory'.entries)
      <3>1. x \in [id : Responses, at : Nat]
        BY <2>11
      <3>2. x.at <= now /\ now - x.at <= TTL /\ Remembered(x, before.entries)
        <4>1. CASE x \in left /\ x.id # id
          BY <2>4, <2>9, <2>10, <4>1
        <4>2. CASE x \in left /\ x.id = id
          BY <2>4, <2>8, <2>10, <3>1, <4>2
        <4>3. CASE x \in Named(id)
          BY <2>4, <2>7, <2>8, <3>1, <4>3
        <4>4. QED
          BY <2>1, <4>1, <4>2, <4>3
      <3>3. Remembered(x, Prune(before).entries)
        BY <2>4, <2>5, <3>1, <3>2, PruneRemembers
      <3>4. QED
        BY <2>1, <3>2, <3>3
    <2>13. ASSUME NEW x \in owed', x.id \notin unsaved'
           PROVE  Remembered(x, disk')
      <3>1. x.id \notin unsaved /\ x.id # id
        BY <2>1, <2>13
      <3>2. x \in owed
        BY <2>1, <2>7, <2>10, <3>1
      <3>3. QED
        BY <2>1, <3>1, <3>2 DEF StoreKept
    <2>14. /\ \A x : Remembered(x, memory'.entries) => Remembered(x, memory.entries)'
           /\ \A x : Remembered(x, disk') => Remembered(x, disk)'
      BY DEF Remembered, OverLimits, Expired
    <2>15. QED
      BY <2>1, <2>4, <2>6, <2>11, <2>12, <2>13, <2>14 DEF StoreKept
  <1>3. QED
    BY <1>1, <1>2

(* expandPreviousResponseInput keeps the store: it loads and prunes, and   *)
(* takes nothing that is still owed.                                       *)
LEMMA ChainKeeps ==
    ASSUME StoreKept, NEW r, NEW p, Chain(r, p)
    PROVE  StoreKept'
  <1> DEFINE start == EnsureLoaded
             entries == (IF loaded THEN memory ELSE Read(disk)).entries
  <1>1. /\ memory' = Prune(start) /\ loaded' = TRUE
        /\ owed' = Without(OverLimits(entries))
        /\ timer' = timer /\ disk' = disk /\ now' = now /\ unsaved' = unsaved
    BY DEF Chain
  <1>2. WellKept(start) /\ \A x \in owed : Remembered(x, start.entries)
    BY LoadKeeps
  <1> HIDE DEF start, entries
  <1>3. /\ now \in Nat /\ owed \in SUBSET [id : Responses, at : Nat]
        /\ \A x \in owed : x.at <= now /\ now - x.at <= TTL
    BY DEF StoreKept
  <1>4. /\ WellKept(Prune(start))
        /\ Bounded(Prune(start).entries) \/ HeadIsNameless(Prune(start).entries)
    BY <1>2, <1>3, PruneKeeps
  <1>5. owed' \in SUBSET owed
    BY <1>1 DEF Without
  <1>6. ASSUME NEW x \in owed' PROVE Remembered(x, memory'.entries)
    <2>1. x \in owed /\ x.at \in Nat /\ now - x.at <= TTL
      BY <1>3, <1>5
    <2>2. Remembered(x, Prune(start).entries)
      BY <1>2, <1>3, <2>1, PruneRemembers
    <2>3. QED
      BY <1>1, <2>2
  <1>7. /\ \A x : Remembered(x, memory'.entries) => Remembered(x, memory.entries)'
        /\ \A x : Remembered(x, disk) => Remembered(x, disk)'
    BY <1>1 DEF Remembered, OverLimits, Expired
  <1>8. QED
    BY <1>1, <1>3, <1>4, <1>5, <1>6, <1>7 DEF StoreKept

(* What a snapshot of the store remembers.                                 *)
LEMMA SnapshotRemembers ==
    ASSUME StoreKept, loaded
    PROVE  LET saved == Snapshot(memory.entries) IN
           /\ saved \in SUBSET Entry /\ IsFiniteSet(saved) /\ Distinct(saved)
           /\ Bytes(saved) <= SnapshotTotalMax
           /\ \A x \in owed : x.id \notin IdsOf(LeftOut(memory.entries)) => Remembered(x, saved)
  <1> DEFINE S == memory.entries
             saved == Snapshot(S)
  <1>1. S \in SUBSET Entry /\ IsFiniteSet(S) /\ Distinct(S)
    BY DEF StoreKept, WellKept
  <1>2. saved \in SUBSET S /\ IsFiniteSet(saved)
    BY <1>1, FS_Subset DEF Snapshot
  <1>3. Distinct(saved)
    BY <1>1, <1>2 DEF Distinct
  <1>4. Bytes(saved) <= SnapshotTotalMax
    BY <1>1, SnapshotFits
  <1>5. S \ LeftOut(S) \subseteq saved
    BY <1>1, SnapshotKeeps
  <1>6. ASSUME NEW x \in owed, x.id \notin IdsOf(LeftOut(S)) PROVE Remembered(x, saved)
    <2>1. PICK e \in S : e.id = x.id /\ e.at >= x.at /\ e \notin OverLimits(S)
      BY DEF StoreKept, Remembered
    <2>2. e \in saved
      BY <1>5, <1>6, <2>1 DEF IdsOf
    <2> HIDE DEF saved, S
    <2>3. QED
      BY <1>1, <1>2, <2>1, <2>2, FewerRemember
  <1>7. QED
    BY <1>1, <1>2, <1>3, <1>4, <1>6

(* Nothing is too old before its hour, and the limits ask for less of what *)
(* is left as time goes by.                                                *)
LEMMA TickKeeps ==
    ASSUME StoreKept, Tick
    PROVE  StoreKept'
  <1>1. /\ now' = now + 1 /\ owed' = {x \in owed : now' - x.at <= TTL}
        /\ memory' = memory /\ loaded' = loaded /\ timer' = timer /\ disk' = disk
        /\ unsaved' = unsaved
    BY DEF Tick, store
  <1>2. now \in Nat /\ owed \in SUBSET [id : Responses, at : Nat]
    BY DEF StoreKept
  <1>3. \A x \in owed' : x \in owed /\ x.at <= now' /\ now' - x.at <= TTL
    BY <1>1, <1>2 DEF StoreKept
  <1>4. ASSUME NEW S \in SUBSET Entry, IsFiniteSet(S), NEW x, Remembered(x, S)
        PROVE  \E e \in S : /\ e.id = x.id /\ e.at >= x.at
                            /\ e \notin OverAmong({f \in S : ~(now' - f.at > TTL)})
    <2> DEFINE later == {f \in S : ~(now' - f.at > TTL)}
    <2>1. TTL \in Nat /\ \A f \in S : f.at \in Nat
      BY ResponseAssumption DEF Entry
    <2>2. later \in SUBSET Live(S) /\ Live(S) \in SUBSET S
      BY <1>1, <1>2, <2>1 DEF Live, Expired
    <2> HIDE DEF later
    <2>3. Live(S) \in SUBSET Entry /\ IsFiniteSet(Live(S))
      BY <1>4, <2>2, FS_Subset
    <2>4. OverAmong(later) \subseteq OverLimits(S)
      BY <2>2, <2>3, LessIsAsked, OverLimitsAmongLive
    <2>5. QED
      BY <1>4, <2>4 DEF Remembered, later
  <1>5. /\ memory.entries \in SUBSET Entry /\ IsFiniteSet(memory.entries)
        /\ disk \in SUBSET Entry /\ IsFiniteSet(disk)
    BY DEF StoreKept, WellKept
  <1>6. /\ \A x : Remembered(x, memory.entries) => Remembered(x, memory.entries)'
        /\ \A x : Remembered(x, disk) => Remembered(x, disk)'
    <2>1. OverLimits(memory.entries)' = OverAmong({f \in memory.entries : ~(now' - f.at > TTL)})
      BY <1>1 DEF OverLimits, OverAmong, Expired
    <2>2. OverLimits(disk)' = OverAmong({f \in disk : ~(now' - f.at > TTL)})
      BY <1>1 DEF OverLimits, OverAmong, Expired
    <2>3. QED
      BY <1>1, <1>4, <1>5, <2>1, <2>2 DEF Remembered
  <1>7. now' \in Nat
    BY <1>1, <1>2
  <1>8. QED
    BY <1>1, <1>3, <1>6, <1>7 DEF StoreKept, WellKept, HeadIsNameless, Bounded

(* Only the clock changes what the limits hold of given entries.           *)
LEMMA SameTime ==
    ASSUME now' = now
    PROVE  /\ \A x : memory' = memory => (Remembered(x, memory.entries) => Remembered(x, memory.entries)')
           /\ \A x : Remembered(x, disk') => Remembered(x, disk)'
  BY DEF Remembered, OverLimits, Expired

(* The snapshot, whether or not it can be written.                         *)
LEMMA PersistKeeps ==
    ASSUME StoreKept, Persist
    PROVE  StoreKept'
  <1>1. /\ loaded /\ timer' = FALSE /\ memory' = memory /\ loaded' = loaded
        /\ now' = now /\ owed' = owed
    BY DEF Persist, StoreKept
  <1>2. /\ \A x : Remembered(x, memory.entries) => Remembered(x, memory.entries)'
        /\ \A x : Remembered(x, disk') => Remembered(x, disk)'
    BY <1>1, SameTime
  <1>3. CASE Write
    <2> DEFINE saved == Snapshot(memory.entries)
    <2>1. /\ saved \in SUBSET Entry /\ IsFiniteSet(saved) /\ Distinct(saved)
          /\ Bytes(saved) <= SnapshotTotalMax
          /\ \A x \in owed : x.id \notin IdsOf(LeftOut(memory.entries)) => Remembered(x, saved)
      BY <1>1, SnapshotRemembers
    <2>2. disk' = saved /\ unsaved' = IdsOf(LeftOut(memory.entries)) \cap Responses
      BY <1>3 DEF Write
    <2> HIDE DEF saved
    <2>3. \A x \in owed : x.id \notin unsaved' => Remembered(x, disk)'
      BY <1>2, <2>1, <2>2 DEF StoreKept
    <2>4. QED
      BY <1>1, <1>2, <2>1, <2>2, <2>3 DEF StoreKept, WellKept, HeadIsNameless, Bounded
  <1>4. CASE UNCHANGED <<disk, unsaved>>
    <2>1. \A x : Remembered(x, disk) => Remembered(x, disk)'
      BY <1>2, <1>4
    <2>2. QED
      BY <1>1, <1>2, <1>4, <2>1 DEF StoreKept, WellKept, HeadIsNameless, Bounded
  <1>5. QED
    BY <1>3, <1>4 DEF Persist

(* An empty store is well kept.                                            *)
LEMMA EmptyKept == WellKept(Empty) /\ Bounded(Empty.entries)
  <1>1. Bytes({}) = 0 /\ IsFiniteSet({}) /\ Cardinality({}) = 0
    <2>1. {} \in SUBSET Entry /\ IsFiniteSet({})
      BY FS_EmptySet
    <2>2. QED
      BY <2>1, BytesAdd, FS_EmptySet
  <1>2. MaxResponses \in Nat \ {0}
    BY ResponseAssumption
  <1>3. QED
    BY <1>1, <1>2 DEF Empty, WellKept, Bounded, Distinct

(* What is owed after the process has ended is in the file it leaves.      *)
LEMMA EndKeeps ==
    ASSUME StoreKept, Crash \/ Stop
    PROVE  StoreKept'
  <1>1. /\ memory' = Empty /\ loaded' = FALSE /\ timer' = FALSE /\ now' = now /\ unsaved' = {}
    BY DEF Crash, Stop, Forget
  <1>2. \A x : Remembered(x, disk') => Remembered(x, disk)'
    BY <1>1, SameTime
  <1>3. /\ disk' \in SUBSET Entry /\ IsFiniteSet(disk') /\ Distinct(disk')
        /\ Bytes(disk') <= SnapshotTotalMax
        /\ owed' \in SUBSET owed
        /\ \A x \in owed' : Remembered(x, disk')
    <2>1. CASE disk' = disk /\ owed' = {x \in owed : x.id \notin unsaved}
      BY <2>1 DEF StoreKept
    <2>2. CASE timer /\ disk' = Snapshot(memory.entries) /\ owed' = Without(LeftOut(memory.entries))
      <3> DEFINE saved == Snapshot(memory.entries)
      <3>1. loaded
        BY <2>2 DEF StoreKept
      <3>2. /\ saved \in SUBSET Entry /\ IsFiniteSet(saved) /\ Distinct(saved)
            /\ Bytes(saved) <= SnapshotTotalMax
            /\ \A x \in owed : x.id \notin IdsOf(LeftOut(memory.entries)) => Remembered(x, saved)
        BY <3>1, SnapshotRemembers
      <3> HIDE DEF saved
      <3>3. disk' = saved
        BY <2>2 DEF saved
      <3>4. QED
        BY <2>2, <3>2, <3>3 DEF Without
    <2>3. QED
      BY <2>1, <2>2 DEF Crash, Stop
  <1>4. WellKept(memory)' /\ Bounded(memory.entries)'
    BY <1>1, EmptyKept DEF WellKept, Bounded
  <1>5. QED
    BY <1>1, <1>2, <1>3, <1>4 DEF StoreKept

-----------------------------------------------------------------------------
(* The shape of the requests and of what is recorded about the turns       *)

(* A history with one turn more.                                           *)
LEMMA HistoriesGrow ==
    ASSUME NEW h \in History, NEW id \in Names
    PROVE  Append(h, id) \in History /\ <<>> \in History
  BY DEF History

(* A request that is sent has the shape of one.                            *)
LEMMA RoutedTyped ==
    ASSUME RequestsKept, NEW r \in Requests, NEW misses \in BOOLEAN,
           NEW input \in History, NEW base \in History, Routed(r, misses, input, base)
    PROVE  request' \in [Requests -> Turn \cup {Idle}]
  <1>1. PICK way \in Ways(r, misses) : request' = [request EXCEPT ![r] = Sent(way, misses, input, base)]
    BY DEF Routed
  <1> DEFINE q == Sent(way, misses, input, base)
  <1>2. <<>> \in History /\ Unnamed \in Names
    BY DEF History, Names
  <1>3. Records(way.kind, way.keep, way.purpose, misses) \in BOOLEAN
    BY <1>1 DEF Records, Ways
  <1>4. q \in Turn
    BY <1>2, <1>3 DEF Sent, Turn
  <1> HIDE DEF q
  <1>5. QED
    BY <1>1, <1>4 DEF RequestsKept, q

(* So have the histories when a turn ends.                                 *)
LEMMA MintTyped ==
    ASSUME RequestsKept, NEW r \in Requests, request[r] \in Turn, NEW id \in Responses, Mint(r, id)
    PROVE  /\ turns' \in Nat /\ known' \in SUBSET Responses
           /\ whole' \in [Responses -> History]
  <1>1. Append(request[r].base, id) \in History
    BY HistoriesGrow DEF Turn, Names
  <1>2. QED
    BY <1>1 DEF RequestsKept, Mint, Finish

(* Who is recorded, and what was cut.                                      *)
LEMMA RememberTyped ==
    ASSUME RequestsKept, NEW q, NEW id \in Names, Remember(q, id)
    PROVE  cut' \in SUBSET Names
  BY DEF RequestsKept, Remember

(* Each step keeps the store by the lemma on what it does to the store,    *)
(* and the requests by their types.                                        *)
LEMMA KeptStep == Kept /\ [Next]_vars => Kept'
  <1> SUFFICES ASSUME Kept, [Next]_vars PROVE Kept'
    OBVIOUS
  <1>1. StoreKept /\ RequestsKept
    BY DEF Kept
  <1>2. \A r \in Requests : request[r] \in Turn \/ request[r] = Idle
    BY <1>1 DEF RequestsKept
  <1>3. Idle \notin Turn /\ Idle.phase = "idle"
    BY DEF Idle, Turn
  <1>4. ASSUME UNCHANGED <<store, now, owed, unsaved>> PROVE StoreKept'
    BY <1>1, <1>4 DEF store, StoreKept, Remembered, OverLimits, Expired, HeadIsNameless, Bounded, WellKept
  <1>5. ASSUME NEW r \in Requests, request' = [request EXCEPT ![r] = Idle]
        PROVE  request' \in [Requests -> Turn \cup {Idle}]
    BY <1>1, <1>5 DEF RequestsKept
  <1>6. ASSUME NEW r \in Requests, Start(r) PROVE Kept'
    <2>1. PICK history \in {<<>>} \cup {whole[p] : p \in known} : Routed(r, FALSE, history, history)
      BY <1>6 DEF Start
    <2>2. history \in History
      <3>1. <<>> \in History
        BY DEF History
      <3>2. \A p \in known : whole[p] \in History
        BY <1>1 DEF RequestsKept
      <3>3. QED
        BY <2>1, <3>1, <3>2
    <2>3. request' \in [Requests -> Turn \cup {Idle}]
      BY <1>1, <2>1, <2>2, RoutedTyped
    <2>4. UNCHANGED <<store, now, known, bounds, observers>>
      BY <1>6 DEF Start
    <2>5. QED
      BY <1>1, <1>4, <2>3, <2>4 DEF Kept, RequestsKept, bounds, observers
  <1>7. ASSUME NEW r \in Requests, NEW p \in known, Chain(r, p) PROVE Kept'
    <2>1. StoreKept'
      BY <1>1, <1>7, ChainKeeps
    <2>2. whole[p] \in History /\ <<>> \in History
      BY <1>1 DEF RequestsKept, History
    <2>3. WellKept(Prune(EnsureLoaded))
      BY <1>1, LoadKeeps, PruneKeeps DEF StoreKept
    <2>4. \A e \in Prune(EnsureLoaded).entries : e.items \in History
      BY <2>3 DEF WellKept, Entry
    <2>5. request' \in [Requests -> Turn \cup {Idle}]
      <3>1. \/ request' = request
            \/ Routed(r, TRUE, <<>>, whole[p])
            \/ \E e \in Prune(EnsureLoaded).entries : Routed(r, FALSE, e.items, whole[p])
        BY <1>7 DEF Chain
      <3>2. CASE request' = request
        BY <1>1, <3>2 DEF RequestsKept
      <3>3. CASE Routed(r, TRUE, <<>>, whole[p])
        BY <1>1, <2>2, <3>3, RoutedTyped
      <3>4. ASSUME NEW e \in Prune(EnsureLoaded).entries, Routed(r, FALSE, e.items, whole[p])
            PROVE  request' \in [Requests -> Turn \cup {Idle}]
        BY <1>1, <2>2, <2>4, <3>4, RoutedTyped
      <3>5. QED
        BY <3>1, <3>2, <3>3, <3>4
    <2>6. known' = known /\ whole' = whole /\ cut' = cut /\ turns' = turns /\ restarts' = restarts
      BY <1>7 DEF Chain, bounds
    <2>7. QED
      BY <1>1, <2>1, <2>5, <2>6 DEF Kept, RequestsKept
  <1>8. ASSUME NEW r \in Requests, NEW id \in Responses, Answer(r, id) PROVE Kept'
    <2>1. /\ request[r] \in Turn /\ Mint(r, id) /\ Remember(request[r], id)
          /\ now' = now /\ restarts' = restarts /\ request' = [request EXCEPT ![r] = Idle]
      BY <1>2, <1>3, <1>8 DEF Answer
    <2>2. id \in Names /\ request[r].held \in History
      BY <2>1 DEF Names, Turn
    <2>3. StoreKept'
      BY <1>1, <2>1, <2>2, RememberKeeps
    <2>4. RequestsKept'
      BY <1>1, <1>5, <2>1, <2>2, MintTyped, RememberTyped DEF RequestsKept
    <2>5. QED
      BY <2>3, <2>4 DEF Kept
  <1>9. ASSUME NEW r \in Requests, AnswerUnnamed(r) PROVE Kept'
    <2>1. /\ request[r] \in Turn /\ Finish /\ Remember(request[r], Unnamed)
          /\ UNCHANGED <<now, known, restarts, whole>> /\ request' = [request EXCEPT ![r] = Idle]
      BY <1>2, <1>3, <1>9 DEF AnswerUnnamed
    <2>2. Unnamed \in Names /\ request[r].held \in History
      BY <2>1 DEF Names, Turn
    <2>3. StoreKept'
      BY <1>1, <2>1, <2>2, RememberKeeps
    <2>4. RequestsKept'
      BY <1>1, <1>5, <2>1, <2>2, RememberTyped DEF RequestsKept, Finish
    <2>5. QED
      BY <2>3, <2>4 DEF Kept
  <1>10. ASSUME NEW r \in Requests, NEW id \in Responses, Overtake(r, id) PROVE Kept'
    <2>1. /\ request[r] \in Turn /\ Mint(r, id)
          /\ request' = [request EXCEPT ![r].phase = "inspecting", ![r].id = id]
          /\ UNCHANGED <<store, now, restarts, cut, owed, unsaved>>
      BY <1>2, <1>3, <1>10 DEF Overtake
    <2>2. StoreKept'
      BY <1>4, <2>1
    <2>3. request' \in [Requests -> Turn \cup {Idle}]
      <3> DEFINE q == [request[r] EXCEPT !.phase = "inspecting", !.id = id]
      <3>1. q \in Turn
        BY <2>1 DEF Turn, Names
      <3>2. request' = [request EXCEPT ![r] = q]
        BY <2>1
      <3> HIDE DEF q
      <3>3. QED
        BY <1>1, <3>1, <3>2 DEF RequestsKept
    <2>4. RequestsKept'
      BY <1>1, <2>1, <2>3, MintTyped DEF RequestsKept
    <2>5. QED
      BY <2>2, <2>4 DEF Kept
  <1>11. ASSUME NEW r \in Requests, Inspect(r) PROVE Kept'
    <2>1. /\ request[r] \in Turn /\ Remember(request[r], request[r].id)
          /\ UNCHANGED <<now, known, bounds, whole>> /\ request' = [request EXCEPT ![r] = Idle]
      BY <1>2, <1>3, <1>11 DEF Inspect
    <2>2. request[r].id \in Names /\ request[r].held \in History
      BY <2>1 DEF Turn
    <2>3. StoreKept'
      BY <1>1, <2>1, <2>2, RememberKeeps
    <2>4. RequestsKept'
      BY <1>1, <1>5, <2>1, <2>2, RememberTyped DEF RequestsKept, bounds
    <2>5. QED
      BY <2>3, <2>4 DEF Kept
  <1>12. ASSUME NEW r \in Requests, Abandon(r) PROVE Kept'
    <2>1. StoreKept'
      BY <1>4, <1>12 DEF Abandon, observers
    <2>2. RequestsKept'
      BY <1>1, <1>5, <1>12 DEF Abandon, RequestsKept, bounds, observers
    <2>3. QED
      BY <2>1, <2>2 DEF Kept
  <1>13. CASE Persist
    BY <1>1, <1>13, PersistKeeps DEF Kept, Persist, RequestsKept, bounds
  <1>14. CASE Crash \/ Stop
    <2>1. RequestsKept'
      BY <1>1, <1>14 DEF Crash, Stop, Forget, RequestsKept
    <2>2. QED
      BY <1>1, <1>14, <2>1, EndKeeps DEF Kept
  <1>15. CASE Tick
    BY <1>1, <1>15, TickKeeps DEF Kept, Tick, RequestsKept, bounds
  <1>16. CASE UNCHANGED vars
    <2>1. StoreKept'
      BY <1>4, <1>16 DEF vars, observers
    <2>2. QED
      BY <1>1, <1>16, <2>1 DEF vars, observers, bounds, Kept, RequestsKept
  <1>17. QED
    BY <1>6, <1>7, <1>8, <1>9, <1>10, <1>11, <1>12, <1>13, <1>14, <1>15, <1>16 DEF Next

(* The store starts empty, and so does the file.                           *)
LEMMA KeptInit == Init => Kept
  <1> SUFFICES ASSUME Init PROVE Kept
    OBVIOUS
  <1>1. IsFiniteSet({}) /\ Distinct({}) /\ Bytes({}) = 0 /\ SnapshotTotalMax \in Nat
    <2>1. {} \in SUBSET Entry /\ IsFiniteSet({})
      BY FS_EmptySet
    <2>2. QED
      BY <2>1, BytesAdd, ResponseAssumption DEF Distinct
  <1>2. StoreKept
    <2>1. /\ now = 0 /\ loaded = FALSE /\ timer = FALSE /\ disk = {}
          /\ unsaved = {} /\ owed = {}
      BY DEF Init
    <2>2. WellKept(memory) /\ Bounded(memory.entries)
      BY EmptyKept DEF Init
    <2>3. Bytes(disk) <= SnapshotTotalMax /\ IsFiniteSet(disk) /\ Distinct(disk)
      BY <1>1, <2>1
    <2>4. QED
      BY <2>1, <2>2, <2>3 DEF StoreKept
  <1>3. RequestsKept
    BY DEF Init, RequestsKept, History
  <1>4. QED
    BY <1>2, <1>3 DEF Kept

(* For any limits, sizes and requests: the store, its file, the clock and  *)
(* every request have the shape the code gives them, and the map has one   *)
(* entry under a key and one in a place, through every load and restart.   *)
THEOREM Typing == Spec => []TypeOK
  BY KeptInit, KeptStep, KeptIsTyped, PTL DEF Spec

(* Eviction takes what the limits ask for and nothing else: a response that *)
(* was recorded can be named until its hour, a limit or the end of the     *)
(* process takes it; what is kept is within the limits, but for a nameless *)
(* head; the counter is the sum.                                           *)
THEOREM ForgetsExactly == Spec => []EvictionIsExact
  <1>1. Kept => EvictionIsExact
    BY KeptIsExact DEF Kept
  <1>2. QED
    BY <1>1, KeptInit, KeptStep, PTL DEF Spec

=============================================================================
