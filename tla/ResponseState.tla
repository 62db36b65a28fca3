---------------------------- MODULE ResponseState ----------------------------
(***************************************************************************)
(* The continuation store of responses/state.ts and the requests that fill *)
(* it and read it (server/responses/core.ts).                              *)
(*                                                                         *)
(* A client either sends its whole history or names the previous response  *)
(* and sends only what is new; the proxy then puts the stored turns of     *)
(* that response in front.  A turn stands for the input items of a request *)
(* together with the output items of its response and bears the name of    *)
(* the response; a history is a sequence of turns.                         *)
(*                                                                         *)
(* The proxy answers requests one event at a time: every action is what    *)
(* runs between two awaits.                                                *)
(***************************************************************************)
EXTENDS Integers, Sequences, FiniteSets, FiniteSetsExt

CONSTANTS
    Requests,           \* requests that may overlap
    Responses,          \* ids of responses, each given out once
    Unnamed,            \* the id "" that all responses of some paths share
    Kinds,              \* the kinds of adapter each request may be routed to
    Weight,             \* serialized size of each turn
    MaxResponses,       \* MAX_STORED_RESPONSES
    TTL,                \* RESPONSE_TTL_MS
    ByteCap,            \* MAX_STORED_RESPONSE_BYTES
    SnapshotEntryMax,   \* SNAPSHOT_ENTRY_MAX_BYTES
    SnapshotTotalMax,   \* SNAPSHOT_TOTAL_MAX_BYTES
    MaxTurns,           \* bound of the turns that reach their end
    MaxTime,            \* bound of the clock
    MaxRestarts         \* bound of the times the process ends

AllKinds == {"passthrough", "kiro", "cursor", "translated"}
Names == Responses \cup {Unnamed}

ASSUME ResponseAssumption ==
    /\ Unnamed \notin Responses
    /\ Kinds \in [Requests -> SUBSET AllKinds]
    /\ Weight \in [Names -> Nat]
    /\ MaxResponses \in Nat \ {0} /\ TTL \in Nat /\ ByteCap \in Nat
    /\ SnapshotEntryMax \in Nat /\ SnapshotTotalMax \in Nat
    /\ MaxTurns \in Nat /\ MaxTime \in Nat /\ MaxRestarts \in Nat

History == Seq(Names)

(* An entry of the map states.  A Map keeps the order of insertion: order  *)
(* is the entry's place in it.                                             *)
Entry == [id : Names, at : Nat, items : History, order : Nat]

VARIABLES
    memory,     \* states and storedResponseBytes
    loaded,
    timer,      \* persistTimer is set
    disk,       \* the entries of responses-state.json
    now,
    request,    \* per request: what its handler holds
    known,      \* the responses whose end a client has seen
    turns,
    restarts,
    whole,      \* observer: the history up to and with each response
    cut,        \* observer: turns recorded after a missed expansion
    owed,       \* observer: the responses recorded and not rightly gone
    unsaved     \* observer: those the snapshot does not have yet

store == <<memory, loaded, timer, disk>>
observers == <<whole, cut, owed, unsaved>>
bounds == <<turns, restarts>>
vars == <<store, now, request, known, bounds, observers>>

Idle == [phase |-> "idle"]
Turn == [phase : {"sent", "inspecting"}, id : Names, teed : BOOLEAN, records : BOOLEAN,
         held : History,    \* the input it will store
         base : History,    \* observer: the history the client continues
         cuts : BOOLEAN]    \* observer: its input lacks the turns before

-----------------------------------------------------------------------------
(* Sizes and order *)

Size(items) == MapThenSumSet(LAMBDA i : Weight[items[i]], DOMAIN items)
Bytes(entries) == MapThenSumSet(LAMBDA e : Size(e.items), entries)

Newer(entries, e) == {f \in entries : f.order > e.order}
Older(entries, e) == {f \in entries : f.order < e.order}
Expired(at) == now - at > TTL

-----------------------------------------------------------------------------
(* The store *)

Empty == [entries |-> {}, bytes |-> 0]

(* deleteEntry, for all of gone. *)
Delete(m, gone) ==
    LET left == m.bytes - Bytes(gone)
    IN  [entries |-> m.entries \ gone, bytes |-> IF left < 0 THEN 0 ELSE left]

Place(entries) == IF entries = {} THEN 1 ELSE 1 + Max({e.order : e \in entries})

(* fault: sets the key without deleteEntry, so that the replaced entry      *)
(* stays in the count of bytes.                                            *)
SetEntryAlone(m, id, items) ==
    LET rest == {e \in m.entries : e.id # id}
    IN  [entries |-> rest \cup {[id |-> id, at |-> now, items |-> items, order |-> Place(rest)]},
         bytes |-> m.bytes + Size(items)]

(* fault: a list in place of a map.                                        *)
SetEntryAgain(m, id, items) ==
    [entries |-> m.entries \cup {[id |-> id, at |-> now, items |-> items, order |-> Place(m.entries)]},
     bytes |-> m.bytes + Size(items)]

SetEntry(m, id, items) ==
    LET rest == Delete(m, {e \in m.entries : e.id = id})
        entry == [id |-> id, at |-> now, items |-> items, order |-> Place(rest.entries)]
    IN  [entries |-> rest.entries \cup {entry}, bytes |-> rest.bytes + Size(items)]

(* The loops that evict the oldest stop where its id is "".                *)
Reached(entries, e) == \A f \in {e} \cup Older(entries, e) : f.id # Unnamed

(* fault: only the count is limited.                                       *)
PruneByCount(m) ==
    LET live == Delete(m, {e \in m.entries : Expired(e.at)})
        Surplus(e) == Reached(live.entries, e) /\ Cardinality(Newer(live.entries, e)) >= MaxResponses
    IN  Delete(live, {e \in live.entries : Surplus(e)})

(* Drops what is too old, then the oldest beyond the count, then the       *)
(* oldest while the counter is above the cap, but never the last one.      *)
Prune(m) ==
    LET live == Delete(m, {e \in m.entries : Expired(e.at)})
        Surplus(e) == /\ Reached(live.entries, e)
                      /\ Cardinality(Newer(live.entries, e)) >= MaxResponses
        counted == Delete(live, {e \in live.entries : Surplus(e)})
        Heavy(e) == /\ Reached(counted.entries, e)
                    /\ Newer(counted.entries, e) # {}
                    /\ counted.bytes - Bytes(Older(counted.entries, e)) > ByteCap
    IN  Delete(counted, {e \in counted.entries : Heavy(e)})

Read(entries) == [entries |-> entries, bytes |-> Bytes(entries)]
EnsureLoaded == IF loaded THEN memory ELSE Prune(Read(disk))

(* fault: the snapshot ends at an entry that is too big.                   *)
SnapshotToBig(entries) ==
    {e \in entries : /\ \A f \in {e} \cup Newer(entries, e) : Size(f.items) <= SnapshotEntryMax
                     /\ Bytes({e} \cup Newer(entries, e)) <= SnapshotTotalMax}

(* Newest first: an entry that is too big is passed over, and the first    *)
(* one that would exceed the total ends the snapshot.                      *)
Snapshot(entries) ==
    LET small == {e \in entries : Size(e.items) <= SnapshotEntryMax}
    IN  {e \in small : Bytes({e} \cup Newer(small, e)) <= SnapshotTotalMax}

-----------------------------------------------------------------------------
(* What the observers hold against the store *)

(* The limits alone, computed from the entries and not from the counter,   *)
(* allow these to go; the newest never.                                    *)
OverLimits(entries) ==
    LET live == {e \in entries : ~Expired(e.at)}
        AndNewer(e) == {e} \cup Newer(live, e)
    IN  {e \in live : /\ Newer(live, e) # {}
                      /\ \/ Cardinality(AndNewer(e)) > MaxResponses
                         \/ Bytes(AndNewer(e)) > ByteCap}

(* The snapshot may leave these out: too big, or too much that is newer.   *)
LeftOut(entries) ==
    LET TooBig(e) == Size(e.items) > SnapshotEntryMax
        Fellows(e) == {f \in entries : f.order >= e.order /\ ~TooBig(f)}
    IN  {e \in entries : TooBig(e) \/ Bytes(Fellows(e)) > SnapshotTotalMax}

IdsOf(entries) == {e.id : e \in entries}
Without(entries) == {x \in owed : x.id \notin IdsOf(entries)}
Named(id) == {[id |-> n, at |-> now] : n \in {id} \cap Responses}

-----------------------------------------------------------------------------
(* Requests *)

Forced == {"kiro", "cursor"}  \* adapterNeedsForcedContinuation
Guarded == {"passthrough", "kiro"}
Purposes == {"turn", "webSearch", "compaction"}

(* fault: a passthrough records what was not expanded.                     *)
RecordsAnyway(kind, keep, purpose, misses) ==
    IF kind = "passthrough" THEN purpose # "compaction"
    ELSE purpose = "turn" /\ (keep \/ kind \in Forced)

(* Whether the handler of a request will call rememberResponseState and    *)
(* have it store the response.  A passthrough forces the store but refuses *)
(* what was not expanded; kiro and cursor force it too.  The web search    *)
(* loop, which cursor never enters, records nothing.                       *)
Records(kind, keep, purpose, misses) ==
    IF kind = "passthrough"
    THEN purpose # "compaction" /\ ~misses
    ELSE /\ purpose = "turn" \/ (purpose = "webSearch" /\ kind = "cursor")
         /\ keep \/ kind \in Forced

Ways(r, misses) ==
    [kind : {kind \in Kinds[r] : ~(kind = "kiro" /\ misses)}, keep : BOOLEAN, purpose : Purposes]

Sent(way, misses, input, base) ==
    LET records == Records(way.kind, way.keep, way.purpose, misses)
    IN  [phase |-> "sent", id |-> Unnamed, teed |-> way.kind = "passthrough",
         records |-> records, held |-> IF records THEN input ELSE <<>>,
         cuts |-> records /\ misses /\ way.kind \notin Guarded,
         base |-> IF way.purpose = "compaction" THEN <<>> ELSE base]

Init ==
    /\ memory = Empty /\ loaded = FALSE /\ timer = FALSE /\ disk = {}
    /\ now = 0 /\ turns = 0 /\ restarts = 0
    /\ request = [r \in Requests |-> Idle]
    /\ known = {} /\ whole = [n \in Responses |-> <<>>]
    /\ cut = {} /\ owed = {} /\ unsaved = {}

(* A request is routed to some kind of adapter for some purpose; Kiro      *)
(* answers 400 to one whose previous response is not in the store.         *)
Routed(r, misses, input, base) ==
    \E q \in {Sent(way, misses, input, base) : way \in Ways(r, misses)} :
        request' = [request EXCEPT ![r] = q]

(* The client sends its own copy of the history: nothing is looked up.     *)
Start(r) ==
    /\ request[r] = Idle /\ turns < MaxTurns
    /\ \E history \in {<<>>} \cup {whole[p] : p \in known} : Routed(r, FALSE, history, history)
    /\ UNCHANGED <<store, now, known, bounds, observers>>

(* The client names the previous response.  When it is not in the store,   *)
(* every adapter but Kiro goes on without it.                              *)
Chain(r, p) ==
    LET before == IF loaded THEN memory ELSE Read(disk)
        after == Prune(EnsureLoaded)
        found == {e \in after.entries : e.id = p}
        refused == "kiro" \in Kinds[r] /\ found = {} /\ UNCHANGED request
    IN  /\ request[r] = Idle
        /\ memory' = after /\ loaded' = TRUE
        /\ owed' = Without(OverLimits(before.entries))
        /\ \/ refused
           \/ found = {} /\ Routed(r, TRUE, <<>>, whole[p])
           \/ \E e \in found : Routed(r, FALSE, e.items, whole[p])
        /\ UNCHANGED <<timer, disk, now, known, bounds, whole, cut, unsaved>>

(* rememberResponseState stores what the request held and the new turn.    *)
Remember(q, id) ==
    LET before == SetEntry(EnsureLoaded, id, Append(q.held, id))
    IN  IF q.records
        THEN /\ memory' = Prune(before) /\ loaded' = TRUE /\ timer' = TRUE
             /\ owed' = Without(OverLimits(before.entries)) \cup Named(id)
             /\ unsaved' = (unsaved \cup {id}) \cap {x.id : x \in owed'}
             /\ cut' = IF q.cuts THEN cut \cup {id} ELSE cut
             /\ UNCHANGED disk
        ELSE UNCHANGED <<store, owed, unsaved, cut>>

Finish ==
    /\ turns < MaxTurns
    /\ turns' = turns + 1

Mint(r, id) ==
    /\ Finish
    /\ id \in Responses \ known
    /\ known' = known \cup {id}
    /\ whole' = [whole EXCEPT ![id] = Append(request[r].base, id)]

(* The response ends, completed or out of output tokens: it is recorded,   *)
(* then the client sees its end.                                           *)
Answer(r, id) ==
    /\ request[r].phase = "sent"
    /\ Mint(r, id)
    /\ Remember(request[r], id)
    /\ request' = [request EXCEPT ![r] = Idle]
    /\ UNCHANGED <<now, restarts>>

(* The same for a response that goes out under the id "", on the WebSocket *)
(* and in the image loop: nobody can name it later.                        *)
AnswerUnnamed(r) ==
    /\ request[r].phase = "sent" /\ ~request[r].teed
    /\ Finish
    /\ Remember(request[r], Unnamed)
    /\ request' = [request EXCEPT ![r] = Idle]
    /\ UNCHANGED <<now, known, restarts, whole>>

(* A passthrough stream is teed: the client may have read its end before   *)
(* the inspecting branch has.                                              *)
Overtake(r, id) ==
    /\ request[r].phase = "sent" /\ request[r].teed
    /\ Mint(r, id)
    /\ request' = [request EXCEPT ![r].phase = "inspecting", ![r].id = id]
    /\ UNCHANGED <<store, now, restarts, cut, owed, unsaved>>

Inspect(r) ==
    /\ request[r].phase = "inspecting"
    /\ Remember(request[r], request[r].id)
    /\ request' = [request EXCEPT ![r] = Idle]
    /\ UNCHANGED <<now, known, bounds, whole>>

(* The response failed or was filtered, or the client went away, perhaps   *)
(* with the end of the stream still to be inspected.                       *)
Abandon(r) ==
    /\ request[r] # Idle
    /\ request' = [request EXCEPT ![r] = Idle]
    /\ UNCHANGED <<store, now, known, bounds, observers>>

-----------------------------------------------------------------------------
(* The snapshot, the end of the process, the clock *)

Write ==
    /\ disk' = Snapshot(memory.entries)
    /\ unsaved' = IdsOf(LeftOut(memory.entries)) \cap Responses

(* The timer fires; trouble with the disk is swallowed.                    *)
Persist ==
    /\ timer
    /\ timer' = FALSE
    /\ Write \/ UNCHANGED <<disk, unsaved>>
    /\ UNCHANGED <<memory, loaded, now, request, known, bounds, whole, cut, owed>>

Forget ==
    /\ restarts < MaxRestarts
    /\ restarts' = restarts + 1
    /\ memory' = Empty /\ loaded' = FALSE /\ timer' = FALSE
    /\ request' = [r \in Requests |-> Idle]
    /\ UNCHANGED <<now, known, turns, whole, cut>>

(* The process dies; the next one finds the last snapshot.                 *)
Crash ==
    /\ Forget
    /\ owed' = {x \in owed : x.id \notin unsaved} /\ unsaved' = {}
    /\ UNCHANGED disk

(* drainAndShutdown aborts the turns that remain and flushes the snapshot. *)
Stop ==
    /\ Forget
    /\ disk' = IF timer THEN Snapshot(memory.entries) ELSE disk
    /\ owed' = IF timer THEN Without(LeftOut(memory.entries))
                ELSE {x \in owed : x.id \notin unsaved}
    /\ unsaved' = {}

Tick ==
    /\ now < MaxTime
    /\ now' = now + 1
    /\ owed' = {x \in owed : now' - x.at <= TTL}
    /\ UNCHANGED <<store, request, known, bounds, whole, cut, unsaved>>

Next ==
    \/ \E r \in Requests :
         \/ Start(r)
         \/ \E p \in known : Chain(r, p)
         \/ \E id \in Responses : Answer(r, id) \/ Overtake(r, id)
         \/ AnswerUnnamed(r) \/ Inspect(r) \/ Abandon(r)
    \/ Persist \/ Crash \/ Stop \/ Tick

Spec == Init /\ [][Next]_vars

-----------------------------------------------------------------------------
(* Properties *)

(* Every stored turn, counter and request has the shape the code gives it, *)
(* and the map has one entry under a key and one in a place.               *)
TypeOK ==
    /\ memory \in [entries : SUBSET Entry, bytes : Nat]
    /\ loaded \in BOOLEAN /\ timer \in BOOLEAN
    /\ disk \in SUBSET Entry
    /\ \A e, f \in memory.entries : e.id = f.id \/ e.order = f.order => e = f
    /\ now \in Nat /\ turns \in Nat /\ restarts \in Nat
    /\ request \in [Requests -> Turn \cup {Idle}]
    /\ known \in SUBSET Responses
    /\ whole \in [Responses -> History]
    /\ cut \in SUBSET Names /\ unsaved \in SUBSET Responses
    /\ owed \in SUBSET [id : Responses, at : Nat]

(* What is stored under a response is its whole history, whatever expired, *)
(* was evicted, lost or overtaken before: a replay gives the model all of  *)
(* the conversation.  Only an adapter that does not look whether its       *)
(* previous response was found can store a cut one.                        *)
RecordedTurnsAreWhole ==
    \A e \in memory.entries \cup disk :
        e.id \in Responses => e.items = whole[e.id] \/ (e.items # <<>> /\ e.items[1] \in cut)

(* A response that was recorded can be named until its hour is over, a     *)
(* limit has passed over it, or the process has ended before a snapshot    *)
(* had it: the limits taken from the entries themselves, not from the      *)
(* counter of bytes, and whatever requests overlapped.                     *)
NothingElseIsForgotten ==
    \A x \in owed : x.id \in IdsOf(IF loaded THEN memory.entries ELSE disk)

(* state.ts:9: "In-memory high-water byte cap across all entries", and :11 *)
(* "Oldest-first eviction applies past this mark": what is kept stays      *)
(* within the limits, but for a single response too big by itself.         *)
StoreIsBounded ==
    /\ Cardinality(memory.entries) <= MaxResponses
    /\ Bytes(memory.entries) <= ByteCap \/ Cardinality(memory.entries) <= 1

(* Only a nameless entry at the head of the map, where eviction stops,     *)
(* lets the store outgrow its limits; the snapshot never outgrows its own. *)
LimitsHold ==
    /\ StoreIsBounded \/ \E e \in memory.entries : e.id = Unnamed /\ Older(memory.entries, e) = {}
    /\ Bytes(disk) <= SnapshotTotalMax

(* The running counter, never recomputed while the process lives, is the   *)
(* sum of the sizes of what is stored.                                     *)
BytesAreCounted == memory.bytes = Bytes(memory.entries)

(* Eviction takes what the limits ask for and nothing else, through every  *)
(* replacement, expiry, restart and failed snapshot: a store that forgets  *)
(* too little outgrows its caps, one that forgets too much breaks threads. *)
EvictionIsExact == NothingElseIsForgotten /\ LimitsHold /\ BytesAreCounted

(* core.ts:1394: "Never record a body whose own previous_response_id       *)
(* failed to expand: its input is a delta, and storing it would replay a   *)
(* truncated conversation."                                                *)
NoTruncatedReplay ==
    \A e \in memory.entries : e.id \in Responses => e.items = whole[e.id]

=============================================================================
