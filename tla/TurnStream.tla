------------------------------ MODULE TurnStream ------------------------------
(***************************************************************************)
(* The live events of turns: what runTurn, resume() and withTerminal of    *)
(* packages/core/src/agent-runtime.ts emit, and the two streams a host     *)
(* hands to a consumer, the iterator of packages/june/src/turn-events.ts   *)
(* and the server-sent events of packages/june/src/agent-durable.ts        *)
(* (sseTurnStream).                                                        *)
(*                                                                         *)
(* The run of a turn is abstract: it opens, emits some events and ends in  *)
(* one of the ways runTurn ends, at any point.  start() and resume() may   *)
(* be called at any point of it too, the microtasks between its rejection  *)
(* and its settlement included.  Holding, replacing and resetting are in   *)
(* AgentSession; one actor, which does not die (its streams die with it).  *)
(***************************************************************************)
EXTENDS TurnIds, Functions

CONSTANTS
    Kinds,          \* streams to consider: "iterator", "sse"
    MaxProgress,    \* bound: events of a run between its start and its end
    MaxDeliveries,  \* bound: calls of start() and resume()
    MaxStreams,     \* bound: consumers
    MaxFailures,    \* bound: failures of the store, tool or model
    MaxLeaves       \* bound: consumers that leave early and cancels

ASSUME TurnStreamAssumption ==
    /\ Kinds \subseteq {"iterator", "sse"}
    /\ {MaxProgress, MaxDeliveries, MaxStreams, MaxFailures, MaxLeaves} \subseteq Nat

VARIABLES
    park,           \* the turn that waits for an answer (the store): {turn} or {}
    suspended,      \* whether the session's status says so
    chain,          \* the runs of the actor, [turn, kind]; the first may have begun
    run,            \* how far the first run is
    cancels,        \* turns that were asked to cancel
    emitted,        \* the events of each turn
    streams,        \* the consumers' streams, oldest first
    used            \* what the bounds count

engine == <<park, suspended, chain, run, cancels>>
vars == <<idVars, engine, emitted, streams, used>>

Idle == [phase |-> "idle", from |-> 0, progress |-> 0, announced |-> FALSE]
Terminal == {"completed", "failed", "cancelled", "requested"}

Within(what, bound) == used[what] < bound /\ used' = [used EXCEPT ![what] = @ + 1]

StreamInit ==
    /\ MintInit
    /\ park = {} /\ suspended = FALSE /\ chain = <<>> /\ run = Idle /\ cancels = {}
    /\ emitted = <<>> /\ streams = <<>>
    /\ used = [deliveries |-> 0, failures |-> 0, leaves |-> 0]
-----------------------------------------------------------------------------
(* The subscribers of a turn.                                              *)

Stream(turn, kind, from) ==
    [turn |-> turn, kind |-> kind, from |-> from, queue |-> <<>>, got |-> <<>>,
     subscribed |-> TRUE, terminal |-> FALSE, state |-> "ready"]

\* Mutant: the iterator is only woken by events that are not the last.
ReceivedAsleep(s, type) ==
    [s EXCEPT !.queue = Append(@, type), !.terminal = @ \/ type \in Terminal]

\* The subscriber's callback: buffer the event, and wake the consumer.  The
\* server-sent stream closes, and unsubscribes, on the turn's terminal event.
Received(s, type) ==
    [s EXCEPT !.queue = Append(@, type),
              !.terminal = @ \/ type \in Terminal,
              !.subscribed = ~(s.kind = "sse" /\ type \in Terminal),
              !.state = IF @ = "waiting" THEN "ready" ELSE @]

EventsOf(turn) == IF turn \in DOMAIN emitted THEN emitted[turn] ELSE <<>>

\* sink.emit, synchronous.
Logged(turn, type) ==
    [t \in DOMAIN emitted \union {turn} |-> IF t = turn THEN Append(EventsOf(t), type) ELSE emitted[t]]
Told(turn, type) ==
    [k \in DOMAIN streams |-> IF streams[k].subscribed /\ streams[k].turn = turn
                              THEN Received(streams[k], type) ELSE streams[k]]

Emit(turn, type) == emitted' = Logged(turn, type) /\ streams' = Told(turn, type)

EmitNothing == UNCHANGED <<emitted, streams>>

\* A consumer subscribes in the turn that starts or resumes, before any event of
\* the run; or nobody does (a detached turn).
Subscribe(turn, before, from) ==
    \/ streams' = before
    \/ /\ Len(before) < MaxStreams
       /\ \E kind \in Kinds : streams' = Append(before, Stream(turn, kind, from))
-----------------------------------------------------------------------------
(* Callers.                                                                *)

Queued(turn, kind) == chain' = Append(chain, [turn |-> turn, kind |-> kind])

\* The session is suspended by another turn.
ForeignPark(turn) == suspended /\ ~(park \subseteq {turn})

\* start()
Start(turn) ==
    /\ ~ForeignPark(turn)
    /\ Within("deliveries", MaxDeliveries)
    /\ Queued(turn, "turn")
    /\ emitted' = emitted /\ Subscribe(turn, streams, Len(EventsOf(turn)))
    /\ UNCHANGED <<park, suspended, run, cancels>>

Send == Mint /\ Start(ids'[Len(ids')])
Redeliver == \E turn \in Range(ids) : Start(turn) /\ UNCHANGED idVars

\* resume(): the streams still open see the answer, a new one only what follows.
Answer ==
    /\ Within("deliveries", MaxDeliveries)
    /\ \E turn \in park :
        /\ Queued(turn, "resume") /\ park' = {} /\ suspended' = FALSE
        /\ emitted' = Logged(turn, "resolved")
        /\ Subscribe(turn, Told(turn, "resolved"), Len(EventsOf(turn)) + 1)
    /\ UNCHANGED <<idVars, run, cancels>>

Cancel ==
    /\ Within("leaves", MaxLeaves)
    /\ \E k \in DOMAIN chain : cancels' = cancels \union {chain[k].turn}
    /\ EmitNothing /\ UNCHANGED <<idVars, park, suspended, chain, run>>
-----------------------------------------------------------------------------
(* The run at the head of the chain.  announced is withTerminal's flag.    *)

Op == Head(chain)

\* Mutant: withTerminal does not listen.
GoesUnheard(phase, type) == Emit(Op.turn, type) /\ run' = [run EXCEPT !.phase = phase]

\* The run goes on to a phase and emits an event, or none.
Goes(phase, type) ==
    /\ Emit(Op.turn, type)
    /\ run' = [run EXCEPT !.phase = phase, !.announced = @ \/ type \in Terminal]

GoesSilently(phase) == EmitNothing /\ run' = [run EXCEPT !.phase = phase]

StoreFails == Within("failures", MaxFailures)
StoreHolds == used' = used

RefusedOverPark == Op.kind = "turn" /\ ForeignPark(Op.turn)

\* withTerminal subscribes and calls run(), which goes as far as its first await:
\* a turn that is refused, cancelled early or cannot be stored ends here.
Begin(phase, type, announced) ==
    /\ run' = [Idle EXCEPT !.phase = phase, !.announced = announced, !.from = Len(EventsOf(Op.turn))]
    /\ IF type = "none" THEN EmitNothing ELSE Emit(Op.turn, type)

Begins ==
    /\ chain # <<>> /\ run.phase = "idle"
    /\ \/ /\ RefusedOverPark
          /\ Begin("threw", "none", FALSE) /\ StoreHolds /\ suspended' = suspended
       \/ /\ ~RefusedOverPark /\ Op.turn \in cancels
          /\ Begin("threw", "cancelled", TRUE) /\ StoreHolds /\ suspended' = suspended
       \/ /\ ~RefusedOverPark /\ Op.turn \notin cancels
          /\ \/ Begin("threw", "none", FALSE) /\ StoreFails /\ suspended' = suspended
             \/ Begin("running", "started", FALSE) /\ StoreHolds /\ suspended' = FALSE
    /\ UNCHANGED <<idVars, park, chain, cancels>>

Progress ==
    /\ run.phase = "running" /\ run.progress < MaxProgress
    /\ Emit(Op.turn, "progress") /\ run' = [run EXCEPT !.progress = @ + 1]
    /\ UNCHANGED <<idVars, park, suspended, chain, cancels, used>>

Completes ==
    /\ run.phase = "running" /\ Goes("returned", "completed") /\ StoreHolds
    /\ suspended' = FALSE /\ UNCHANGED <<idVars, park, chain, cancels>>

Fails ==
    /\ run.phase = "running" /\ Goes("threw", "failed") /\ StoreFails
    /\ UNCHANGED <<idVars, park, suspended, chain, cancels>>

\* A store that fails while a cancel or a park is recorded: nothing is emitted.
Cancels ==
    /\ run.phase = "running" /\ Op.turn \in cancels
    /\ \/ Goes("threw", "cancelled") /\ StoreHolds /\ suspended' = FALSE
       \/ GoesSilently("threw") /\ StoreFails /\ suspended' = suspended
    /\ UNCHANGED <<idVars, park, chain, cancels>>

Parks ==
    /\ run.phase = "running"
    /\ \/ /\ Goes("threw", "requested") /\ StoreHolds
          /\ park' = IF park = {} THEN {Op.turn} ELSE park
          /\ suspended' = TRUE
       \/ GoesSilently("threw") /\ StoreFails /\ UNCHANGED <<park, suspended>>
    /\ UNCHANGED <<idVars, chain, cancels>>

\* Mutant: a rejection is passed on as it is.
WithoutTerminal ==
    /\ run.phase \in {"threw", "returned"} /\ GoesSilently("settling")
    /\ UNCHANGED <<idVars, park, suspended, chain, cancels, used>>

\* withTerminal's two branches, and the end of its subscription.
WithTerminal ==
    /\ run.phase \in {"threw", "returned"}
    /\ IF run.phase = "threw" /\ ~run.announced THEN Goes("settling", "failed")
                                                ELSE GoesSilently("settling")
    /\ UNCHANGED <<idVars, park, suspended, chain, cancels, used>>

\* track()'s clear: the request to cancel goes with the last run of its turn.
Settle ==
    /\ run.phase = "settling"
    /\ chain' = Tail(chain) /\ run' = Idle
    /\ cancels' = cancels \ ({Op.turn} \ {op.turn : op \in Range(Tail(chain))})
    /\ EmitNothing /\ UNCHANGED <<idVars, park, suspended, used>>

Engine == Begins \/ Progress \/ Completes \/ Fails \/ Cancels \/ Parks \/ WithTerminal \/ Settle
-----------------------------------------------------------------------------
(* The consumers.                                                          *)

\* Mutant: the end is looked at before the buffer.
PulledEndFirst(s) ==
    IF s.terminal THEN [s EXCEPT !.state = "done", !.subscribed = FALSE]
    ELSE IF s.queue # <<>> THEN [s EXCEPT !.got = Append(@, Head(s.queue)), !.queue = Tail(@)]
    ELSE [s EXCEPT !.state = "waiting"]

\* next(): the buffer first, then the end, else wait to be woken.
Pulled(s) ==
    IF s.queue # <<>> THEN [s EXCEPT !.got = Append(@, Head(s.queue)), !.queue = Tail(@)]
    ELSE IF s.terminal THEN [s EXCEPT !.state = "done", !.subscribed = FALSE]
    ELSE [s EXCEPT !.state = "waiting"]

Pull(k) ==
    /\ k \in DOMAIN streams /\ streams[k].state = "ready"
    /\ streams' = [streams EXCEPT ![k] = Pulled(@)]
    /\ UNCHANGED <<idVars, engine, emitted, used>>

\* return() of the iterator, cancel() of the stream.
Left(s) == [s EXCEPT !.state = "left", !.subscribed = FALSE, !.queue = <<>>]

Leave(k) ==
    /\ k \in DOMAIN streams /\ streams[k].state \in {"ready", "waiting"}
    /\ Within("leaves", MaxLeaves)
    /\ streams' = [streams EXCEPT ![k] = Left(@)]
    /\ UNCHANGED <<idVars, engine, emitted>>

StreamNext ==
    \/ Send \/ Redeliver \/ Answer \/ Cancel
    \/ Engine
    \/ \E k \in 1..MaxStreams : Pull(k) \/ Leave(k)

StreamSpec == StreamInit /\ [][StreamNext]_vars
-----------------------------------------------------------------------------
\* The terminal events of a turn after the first `from` of its events.
TerminalsFrom(turn, from) ==
    {i \in from + 1 .. Len(EventsOf(turn)) : EventsOf(turn)[i] \in Terminal}

\* Every run emits one terminal event and never two, whichever way it ends: by
\* runTurn, which may throw before or after it emitted, or by withTerminal.
OneTerminal ==
    run.phase # "idle" =>
        /\ \A i, j \in TerminalsFrom(Op.turn, run.from) : i = j
        /\ run.phase = "settling" => TerminalsFrom(Op.turn, run.from) # {}

\* What a consumer was given, and what waits for it, are the events of its turn
\* since it subscribed: none lost, doubled or out of order, and all up to now
\* while it is subscribed.  It ends only once it was given a terminal event, and
\* a server-sent stream ends with it.
StreamIsWhole ==
    \A k \in DOMAIN streams :
        LET s == streams[k]  seen == s.got \o s.queue  all == EventsOf(s.turn)
        IN  /\ s.state # "left" =>
                 /\ s.from + Len(seen) <= Len(all)
                 /\ \A i \in 1..Len(seen) : seen[i] = all[s.from + i]
                 /\ s.subscribed => s.from + Len(seen) = Len(all)
            /\ s.state = "done" => \E i \in 1..Len(s.got) : s.got[i] \in Terminal
            /\ s.kind = "sse" => \A i \in 1..Len(seen) - 1 : seen[i] \notin Terminal

\* A consumer that waits is sure to be woken: its end is not in its buffer already,
\* and a run that has not emitted its terminal event yet will emit one to it -- also
\* when that run is refused, cancelled before it opens, or failed by its store.
NobodyIsStranded ==
    \A k \in DOMAIN streams :
        LET s == streams[k]
        IN  /\ s.state = "waiting" => s.queue = <<>> /\ ~s.terminal
            /\ s.state \in {"ready", "waiting"} /\ ~s.terminal =>
                 \E i \in DOMAIN chain :
                     /\ chain[i].turn = s.turn
                     /\ \/ i > 1 \/ run.phase \in {"idle", "running"}
                        \/ run.phase = "threw" /\ ~run.announced
=============================================================================
