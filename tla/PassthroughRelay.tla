-------------------------- MODULE PassthroughRelay --------------------------
(***************************************************************************)
(* The native passthrough of one server: what happens to a turn between    *)
(* the headers of the upstream and the end of its stream, in the shapes of *)
(* src/server/responses/core.ts, and the drain that ends all of them       *)
(* (src/server/lifecycle.ts).                                              *)
(*                                                                         *)
(*   tee     the body is split: one branch goes to the client through      *)
(*           relaySseWithFailedTail, the other to an inspector that        *)
(*           records how the turn ended;                                   *)
(*   native  the same on Windows, with no relay around the client's branch *)
(*   eager   one producer reads, inspects, and fills a bounded queue.      *)
(*                                                                         *)
(* Every turn has two abort controllers: that of the fetch, which the end  *)
(* of the client's request also aborts, and that of the turn, which the    *)
(* drain aborts and which aborts the fetch.  A chunk is a complete event:  *)
(* a delta, the terminal, or a terminal whose closing blank line is        *)
(* missing (the inspector finds it only when the body ends).               *)
(***************************************************************************)
EXTENDS Integers, Sequences

CONSTANTS
    Turns,       \* requests that may arrive
    Shapes,      \* the shapes the platform and configuration allow
    MaxChunks,   \* bound: chunks an upstream sends
    QueueCap,    \* chunks the eager relay queues before it pauses
    DrainChunks, \* chunks the eager relay reads after the client left
    Deadline     \* polls of the server's drain

ASSUME RelayConstants ==
    /\ Shapes \subseteq {"tee", "native", "eager"}
    /\ MaxChunks \in Nat /\ QueueCap \in Nat /\ DrainChunks \in Nat \ {0}
    /\ Deadline \in Nat

Chunks == {"delta", "terminal", "tail"}
Outcomes == {"terminal", "incomplete", "failed", "cancelled"}

VARIABLES
    turn,   \* each turn's state
    server, \* "serving", "draining" or "stopped"
    polls   \* polls the drain has left

vars == <<turn, server, polls>>

TurnRecord ==
    [phase : {"idle", "connecting", "streaming", "done"},
     shape : Shapes,
     source : {"open", "ended", "reset"},   \* the upstream's end of the body
     sent : 0 .. MaxChunks,                 \* chunks the upstream sent
     told : BOOLEAN,                        \* was its terminal among them?
     pipe : Seq(Chunks),                    \* sent and not yet read
     fetch : {"live", "aborted", "broken"}, \* broken: reads are rejected
     aborted : BOOLEAN,                     \* the turn's own controller
     left : BOOLEAN,                        \* the client closed the connection
     hungUp : BOOLEAN,                      \* ... and its stream was cancelled
     cancelled : BOOLEAN,                   \* `cancelled` of relay or inspector
     tail : BOOLEAN,                        \* an unclosed terminal is buffered
     reported : BOOLEAN,                    \* the inspector reported a terminal
     queued : 0 .. MaxChunks,               \* eager: since the client's last pull
     paused : BOOLEAN,                      \* eager: awaits the pause gate
     window : {"unarmed", "open", "over"},  \* eager: the discard-drain window
     drained : 0 .. DrainChunks,            \* eager: chunks read and discarded
     shut : BOOLEAN,                        \* the server's drain aborted it
     log : Outcomes \cup {"none", "refused"},  \* the request log's entry
     health : Seq(Outcomes)]                \* outcomes given to account health

Init ==
    /\ turn \in [Turns -> {[
           phase |-> "idle", shape |-> s, source |-> "open", sent |-> 0,
           told |-> FALSE, pipe |-> <<>>, fetch |-> "live", aborted |-> FALSE,
           left |-> FALSE, hungUp |-> FALSE, cancelled |-> FALSE,
           tail |-> FALSE, reported |-> FALSE, queued |-> 0, paused |-> FALSE,
           window |-> "unarmed", drained |-> 0, shut |-> FALSE,
           log |-> "none", health |-> <<>>] : s \in Shapes}]
    /\ server = "serving"
    /\ polls = Deadline

Become(t, x) == turn' = [turn EXCEPT ![t] = x]
Streaming(t) == turn[t].phase = "streaming"
Eager(t) == Streaming(t) /\ turn[t].shape = "eager"
Teed(t) == Streaming(t) /\ turn[t].shape # "eager"

(* activeTurns: a turn is registered while it streams. *)
activeTurns == {t \in Turns : Streaming(t)}

-----------------------------------------------------------------------------
(* The outcomes of a turn. *)

(* finalizeNativePassthroughLog: the first entry stays. *)
Logged(x, entry) == [x EXCEPT !.log = IF @ = "none" THEN entry ELSE @]

(* reportNativeTerminal: account health, then the request log. *)
Reported(x, status) == [Logged(x, status) EXCEPT !.health = Append(@, status)]

Seen(x) == [Reported(x, "terminal") EXCEPT !.reported = TRUE]

(* The inspector's feed: only the first terminal is reported. *)
Inspected(x, chunk) ==
    CASE chunk = "terminal" /\ ~x.reported -> Seen(x)
      [] chunk = "tail" -> [x EXCEPT !.tail = TRUE]
      [] OTHER -> x

(* The inspector's finish: what is left in the buffer may be the terminal. *)
Finished(x) == IF x.tail /\ ~x.reported THEN Seen(x) ELSE x

Done(x) == [x EXCEPT !.phase = "done", !.paused = FALSE]

FetchAborted(x) == [x EXCEPT !.fetch = IF @ = "live" THEN "aborted" ELSE @]

(* The turn's controller aborts the fetch.  It wakes a paused eager relay; *)
(* a teed inspector logs the turn as cancelled and stops reading.          *)
TurnAborted(x) ==
    LET y == [FetchAborted(x) EXCEPT !.aborted = TRUE]
    IN  IF x.aborted THEN x
        ELSE IF x.shape = "eager" THEN [y EXCEPT !.paused = FALSE]
        ELSE Logged([y EXCEPT !.cancelled = TRUE], "cancelled")

-----------------------------------------------------------------------------
(* A request arrives, and its upstream answers. *)

Arrive(t) ==
    /\ server = "serving"
    /\ turn[t].phase = "idle"
    /\ Become(t, [turn[t] EXCEPT !.phase = "connecting"])
    /\ UNCHANGED <<server, polls>>

(* The turn is registered only now: a drain does not wait for one that    *)
(* still waits for its headers.                                           *)
HeadersArrive(t) ==
    /\ turn[t].phase = "connecting" /\ turn[t].fetch = "live"
    /\ Become(t, [turn[t] EXCEPT !.phase = "streaming"])
    /\ UNCHANGED <<server, polls>>

ConnectFails(t) ==
    /\ turn[t].phase = "connecting"
    /\ Become(t, Done(Logged(turn[t], "refused")))
    /\ UNCHANGED <<server, polls>>

(* The upstream: chunks, at most one terminal, then the end or a reset.   *)
Send(t, chunk) ==
    LET x == turn[t] IN
    /\ Streaming(t) /\ x.source = "open" /\ x.fetch = "live"
    /\ x.sent < MaxChunks
    /\ ~x.tail /\ \A i \in DOMAIN x.pipe : x.pipe[i] # "tail"
    /\ x.told => chunk = "delta"
    /\ Become(t, [x EXCEPT !.sent = @ + 1, !.pipe = Append(@, chunk),
                           !.told = @ \/ chunk # "delta"])
    /\ UNCHANGED <<server, polls>>

SourceEnds(t, how) ==
    /\ Streaming(t) /\ turn[t].source = "open" /\ turn[t].fetch = "live"
    /\ Become(t, [turn[t] EXCEPT !.source = how])
    /\ UNCHANGED <<server, polls>>

(* An aborted fetch rejects the reads of its body, and what was not read is lost. *)
FetchBreaks(t) ==
    /\ Streaming(t) /\ turn[t].fetch = "aborted"
    /\ Become(t, [turn[t] EXCEPT !.fetch = "broken", !.pipe = <<>>])
    /\ UNCHANGED <<server, polls>>

-----------------------------------------------------------------------------
(* The client leaves.  Bun aborts the request's signal and cancels the     *)
(* response's stream, in either order.                                     *)

ClientLeaves(t) ==
    /\ turn[t].phase \in {"connecting", "streaming"} /\ ~turn[t].left
    /\ Become(t, [turn[t] EXCEPT !.left = TRUE])
    /\ UNCHANGED <<server, polls>>

(* linkAbortSignal(upstream, options.abortSignal) *)
SignalAborts(t) ==
    /\ turn[t].phase \in {"connecting", "streaming"}
    /\ turn[t].left /\ turn[t].fetch = "live"
    /\ Become(t, FetchAborted(turn[t]))
    /\ UNCHANGED <<server, polls>>

(* fault: a cancel is logged when it comes, not when the relay stops. *)
LoggedAtOnce(x) ==
    [Logged(x, "cancelled") EXCEPT
       !.cancelled = TRUE, !.paused = FALSE,
       !.window = IF @ = "unarmed" THEN "open" ELSE @]

(* The eager relay's cancelled flag, its timer and its pause gate. *)
Discarding(x) ==
    [x EXCEPT !.cancelled = TRUE, !.paused = FALSE,
              !.window = IF @ = "unarmed" THEN "open" ELSE @]

StreamCancelled(t) ==
    LET x == [turn[t] EXCEPT !.hungUp = TRUE] IN
    /\ Streaming(t) /\ turn[t].left /\ ~turn[t].hungUp
    /\ Become(t, CASE x.shape = "tee" -> FetchAborted(x)
                   [] x.shape = "native" -> x
                   [] x.shape = "eager" -> Discarding(x))
    /\ UNCHANGED <<server, polls>>

-----------------------------------------------------------------------------
(* The teed inspector. *)

InspectorReads(t) ==
    LET x == turn[t] IN
    /\ Teed(t) /\ ~x.cancelled /\ x.pipe # <<>>
    /\ Become(t, Inspected([x EXCEPT !.pipe = Tail(@)], Head(x.pipe)))
    /\ UNCHANGED <<server, polls>>

(* The body ended, or the abort listener cancelled the reader. *)
InspectorEnds(t) ==
    LET x == Finished(turn[t]) IN
    /\ Teed(t)
    /\ \/ turn[t].cancelled
       \/ turn[t].pipe = <<>> /\ turn[t].source = "ended" /\ turn[t].fetch # "broken"
    /\ Become(t, Done(IF x.reported \/ x.cancelled THEN x
                      ELSE Reported(x, "incomplete")))
    /\ UNCHANGED <<server, polls>>

ReadFails(x) ==
    x.pipe = <<>> /\ (x.source = "reset" \/ x.fetch = "broken")

InspectorFails(t) ==
    LET x == turn[t] IN
    /\ Teed(t) /\ ReadFails(x)
    /\ Become(t, Done(IF x.reported \/ x.cancelled THEN x
                      ELSE Reported(x, "failed")))
    /\ UNCHANGED <<server, polls>>

-----------------------------------------------------------------------------
(* The eager relay's producer. *)

(* The finally block, after a synthetic terminal was recorded. *)
Stopped(x) ==
    LET y == IF x.cancelled /\ ~x.reported THEN Logged(x, "cancelled") ELSE x
    IN  Done(IF x.cancelled \/ x.aborted THEN TurnAborted(y) ELSE y)

(* fault: the relay's end is recorded although a terminal was. *)
SyntheticToo(x, status) ==
    IF x.cancelled \/ x.aborted THEN x ELSE Reported(x, status)

Synthetic(x, status) ==
    IF x.reported \/ x.cancelled \/ x.aborted THEN x ELSE Reported(x, status)

(* One chunk for the client, which may pause the producer.  The controller *)
(* refuses it when the client is gone and the cancel not yet delivered.     *)
Enqueued(x) ==
    LET y == [x EXCEPT !.queued = @ + 1]
    IN  [y EXCEPT !.paused = y.queued > QueueCap /\ ~y.aborted]

(* fault: one chunk too many is read after the client left. *)
ReadsOneMore(x) ==
    x.reported \/ x.drained > DrainChunks \/ x.window = "over"

(* What ends the discard-drain after a chunk. *)
DrainIsOver(x) ==
    x.reported \/ x.drained >= DrainChunks \/ x.window = "over"

ProducerReads(t) ==
    LET x == Inspected([turn[t] EXCEPT !.pipe = Tail(@)], Head(turn[t].pipe)) IN
    /\ Eager(t) /\ ~turn[t].paused /\ turn[t].pipe # <<>>
    /\ IF x.cancelled
       THEN LET y == [x EXCEPT !.drained = @ + 1]
            IN  Become(t, IF DrainIsOver(y) THEN Stopped(y) ELSE y)
       ELSE \/ Become(t, Enqueued(x))
            \/ x.left /\ Become(t, Discarding(x))
    /\ UNCHANGED <<server, polls>>

ProducerEnds(t) ==
    LET x == turn[t] IN
    /\ Eager(t) /\ ~x.paused
    /\ x.pipe = <<>> /\ x.source = "ended" /\ x.fetch # "broken"
    /\ Become(t, Stopped(Synthetic(Finished(x), "incomplete")))
    /\ UNCHANGED <<server, polls>>

ProducerFails(t) ==
    /\ Eager(t) /\ ~turn[t].paused /\ ReadFails(turn[t])
    /\ Become(t, Stopped(Synthetic(turn[t], "failed")))
    /\ UNCHANGED <<server, polls>>

(* fault: a read is not raced against the turn's abort. *)
ProducerWaits(t) ==
    /\ Eager(t) /\ turn[t].aborted /\ ReadFails(turn[t])
    /\ Become(t, Stopped(turn[t]))
    /\ UNCHANGED <<server, polls>>

(* Every read is raced against the turn's own abort. *)
ProducerAborts(t) ==
    /\ Eager(t) /\ ~turn[t].paused /\ turn[t].aborted
    /\ Become(t, Stopped(turn[t]))
    /\ UNCHANGED <<server, polls>>

(* The client has read everything that was queued. *)
ClientPulls(t) ==
    /\ Eager(t) /\ ~turn[t].left /\ turn[t].queued > 0
    /\ Become(t, [turn[t] EXCEPT !.queued = 0, !.paused = FALSE])
    /\ UNCHANGED <<server, polls>>

WindowPasses(t) ==
    /\ Eager(t) /\ turn[t].window = "open"
    /\ Become(t, [turn[t] EXCEPT !.window = "over"])
    /\ UNCHANGED <<server, polls>>

DrainTimerFires(t) ==
    /\ Eager(t) /\ turn[t].window = "over" /\ ~turn[t].aborted
    /\ Become(t, TurnAborted(turn[t]))
    /\ UNCHANGED <<server, polls>>

-----------------------------------------------------------------------------
(* drainAndShutdown. *)

DrainStarts ==
    /\ server = "serving"
    /\ server' = "draining"
    /\ UNCHANGED <<turn, polls>>

DrainWaits ==
    /\ server = "draining" /\ activeTurns # {} /\ polls > 0
    /\ polls' = polls - 1
    /\ UNCHANGED <<turn, server>>

(* fault: the drain waits for every turn. *)
NoneActive == activeTurns = {}

DrainIsDue == activeTurns = {} \/ polls = 0

(* What still runs is aborted; then every connection is closed. *)
DrainEnds ==
    /\ server = "draining" /\ DrainIsDue
    /\ turn' = [t \in Turns |->
           LET x == [turn[t] EXCEPT !.left = @ \/ turn[t].phase \in {"connecting", "streaming"}]
           IN  IF t \in activeTurns
               THEN TurnAborted([x EXCEPT !.shut = TRUE]) ELSE x]
    /\ server' = "stopped"
    /\ UNCHANGED polls

-----------------------------------------------------------------------------
Inspect(t) == InspectorReads(t) \/ InspectorEnds(t) \/ InspectorFails(t)

Produce(t) ==
    ProducerReads(t) \/ ProducerEnds(t) \/ ProducerFails(t) \/ ProducerAborts(t)

Upstream(t) ==
    \/ \E chunk \in Chunks : Send(t, chunk)
    \/ \E how \in {"ended", "reset"} : SourceEnds(t, how)
    \/ FetchBreaks(t)

Client(t) ==
    ClientLeaves(t) \/ SignalAborts(t) \/ StreamCancelled(t) \/ ClientPulls(t)

Drain == DrainStarts \/ DrainWaits \/ DrainEnds

Next ==
    \/ \E t \in Turns :
          \/ Arrive(t) \/ HeadersArrive(t) \/ ConnectFails(t)
          \/ Upstream(t) \/ Client(t) \/ Inspect(t) \/ Produce(t)
          \/ WindowPasses(t) \/ DrainTimerFires(t)
    \/ Drain

Spec == Init /\ [][Next]_vars

(* The runtime runs what is ready: loops, timers, the drain's poll, and    *)
(* the news that a client left.  A connect attempt times out.  That an     *)
(* aborted fetch rejects its reads is granted to the teed shapes alone;    *)
(* the eager relay is written not to rely on it.  Nothing is asked of the  *)
(* upstream or of a client that reads slowly.                              *)
Fairness ==
    /\ \A t \in Turns :
          /\ WF_vars(ConnectFails(t))
          /\ WF_vars(SignalAborts(t)) /\ WF_vars(StreamCancelled(t))
          /\ WF_vars(Teed(t) /\ FetchBreaks(t))
          /\ WF_vars(Inspect(t)) /\ WF_vars(Produce(t))
          /\ WF_vars(WindowPasses(t)) /\ WF_vars(DrainTimerFires(t))
    /\ WF_vars(DrainWaits \/ DrainEnds)

FairSpec == Spec /\ Fairness

-----------------------------------------------------------------------------
TypeOK ==
    /\ turn \in [Turns -> TurnRecord]
    /\ server \in {"serving", "draining", "stopped"}
    /\ polls \in 0 .. Deadline

(* A terminal the upstream really sent is what the turn is remembered by,  *)
(* in the log and in the account's health, although the client left before *)
(* the inspector came to it (relay-eager.ts: "never downgraded to cancel").*)
RealTerminalWins ==
    \A t \in Turns :
        turn[t].reported /\ ~turn[t].shut =>
            turn[t].log = "terminal" /\ turn[t].health = <<"terminal">>

(* Account health hears of a turn at most once, and a turn that ended is   *)
(* in the log, except an eager one that the drain cut off.  A turn is      *)
(* logged as cancelled only when somebody did end it.                      *)
EndIsRecordedOnce ==
    \A t \in Turns :
        LET x == turn[t] IN
        /\ Len(x.health) <= 1
        /\ x.phase = "done" => x.log # "none" \/ (x.shut /\ x.shape = "eager")
        /\ x.log = "cancelled" => x.left

(* The turn of a client that left, and one the drain aborted, comes to an  *)
(* end whatever the upstream does: no producer stays behind a full queue   *)
(* or in a silent read, so no turn stays registered.                       *)
AbandonedTurnsEnd ==
    \A t \in Turns :
        turn[t].left \/ turn[t].aborted ~> turn[t].phase = "done"

(* The server stops, although a turn may never end (drainAndShutdown). *)
DrainTerminates == server = "draining" ~> server = "stopped"

(* Nothing is waited for in vain: neither by a turn nobody reads any more, *)
(* nor by the server that shuts down.                                      *)
TurnsAndDrainEnd == AbandonedTurnsEnd /\ DrainTerminates

(* A client that leaves is not a failure of the upstream: consumeFor-      *)
(* Inspection says "abort-driven client cancellation still wins".          *)
CancelIsNoFailure ==
    \A t \in Turns :
        turn[t].log = "failed" => turn[t].source = "reset"
=============================================================================
