---------------------------- MODULE AgentSession ----------------------------
(***************************************************************************)
(* One durable agent session: the actor AgentSession and the turn engine   *)
(* runTurn of packages/core/src/agent-runtime.ts, over one SessionStore.   *)
(*                                                                         *)
(* JavaScript is single threaded, so an action is the code between two     *)
(* awaits.  pc says where the operation at the head of the inbox (the      *)
(* promise chain) stands: "idle" before it begins, then "loop", awaiting a *)
(* "model" or a "tool", "parking", and "settling" once it is over.  A      *)
(* host's request is a task of its own: it runs while the engine awaits a  *)
(* model or a tool, or is at rest.  Code inside the process (an observer,  *)
(* a caller of several methods in a row) may also call in the microtasks   *)
(* between: InlineCallers.                                                 *)
(*                                                                         *)
(* Abstractions.  Texts, tool results and the model's words are dropped: a *)
(* message keeps its role, its turn and its calls.  A reason for a cancel, *)
(* the answerers of a request and the host context of a held turn are      *)
(* dropped.  No announcement hook is installed (env.announce is false) and *)
(* no file is attached.  Log positions are 1-based: model step n is the    *)
(* step whose reply is log[n].  The opening's transaction and the          *)
(* setStatus("running") after it are one step: only "suspended" is ever    *)
(* read back from the status.  The ids of the calls in one reply differ.   *)
(* A tool names the input it asks for; here each call asks once, under its *)
(* own id: a call that asks twice, or under another call's name, is not    *)
(* modelled.                                                               *)
(*                                                                         *)
(* A definition under "Mutants" is a plausible bug of the one it precedes; *)
(* no specification uses it.                                               *)
(***************************************************************************)
EXTENDS Integers, Sequences, FiniteSets

CONSTANTS
    Turns,          \* turn ids a client may deliver
    Calls,          \* provider call ids of the tool calls a reply may hold
    LocalCalls,     \* calls of synchronous tools: effect and record in one tx
    AskCalls,       \* calls of async tools that wait on requestInput
    FatalCalls,     \* calls of tools the turn lacks, or that throw FatalToolError
    Batches,        \* the replies of the model: sequences of calls, << >> is final
    QueueTurns,     \* turns delivered with ifSuspended: "queue"
    ReplaceTurns,   \* turns delivered with replace: true
    Principals,     \* trusted identities an event may carry
    PrincipalOf,    \* the identity each turn's event carries, or NoPrincipal
    NoPrincipal, NoTurn, NoCall,
    InlineCallers,  \* may a caller run in the microtasks of a settling turn?
    MaxDeliveries,  \* bound: deliveries of one turn id
    MaxBatches,     \* bound: replies with tool calls
    MaxNotes, MaxCancels, MaxResets,  \* bounds: calls of note, cancel, reset
    MaxFailures,    \* bound: thrown model calls, tools and resets
    MaxCrashes      \* bound: deaths of the process

ASSUME ConstantsAssumption ==
    /\ LocalCalls \subseteq Calls /\ AskCalls \subseteq Calls
    /\ FatalCalls \subseteq Calls
    /\ LocalCalls \cap AskCalls = {}
    /\ Batches \subseteq Seq(Calls) /\ << >> \in Batches
    /\ \A b \in Batches : \A i, j \in DOMAIN b : b[i] = b[j] => i = j
    /\ QueueTurns \subseteq Turns /\ ReplaceTurns \subseteq Turns
    /\ QueueTurns \cap ReplaceTurns = {}     \* start() refuses the combination
    /\ PrincipalOf \in [Turns -> Principals \cup {NoPrincipal}]
    /\ NoPrincipal \notin Principals /\ NoTurn \notin Turns /\ NoCall \notin Calls
    /\ InlineCallers \in BOOLEAN
    /\ MaxDeliveries \in Nat /\ MaxBatches \in Nat /\ MaxNotes \in Nat
    /\ MaxCancels \in Nat /\ MaxResets \in Nat /\ MaxFailures \in Nat
    /\ MaxCrashes \in Nat

VARIABLES
    \* the SessionStore, which survives a crash
    log,            \* the messages
    modelSteps,     \* n of every "model:n" step
    toolSteps,      \* <<at, call>> of every "tool:at:call" step
    answers,        \* <<turn, call>> of every "input:turn:id" step
    park,           \* the "suspended" step: the parked turn and its call
    status,
    held,           \* the "inbound-queue" step: turns held behind a park
    heldNotes,      \* how many notes the "held-notes" step keeps
    initiator,      \* the "session:initiator" step
    generation,     \* how many generations reset() has archived
    \* the actor's memory, which does not
    inbox,          \* the promise chain: operations not yet settled
    cancels,        \* cancelRequests
    pendingReset,
    live,           \* does a host hold an actor for this session?
    pc,
    \* bookkeeping of the model: what the bounds count, local tools that ran
    used, ran, twice

steps    == <<modelSteps, toolSteps, answers>>
session  == <<initiator, generation>>
store    == <<log, steps, park, status, held, heldNotes, session>>
actor    == <<inbox, cancels, pendingReset, live>>
effects  == <<ran, twice>>
vars     == <<store, actor, pc, used, effects>>
-----------------------------------------------------------------------------
(* Messages and the transcript.                                            *)

Message == [role: {"user", "assistant", "tool", "note"},
            turn: Turns \cup {NoTurn}, calls: Batches, call: Calls \cup {NoCall}]

OpeningMsg(t)   == [role |-> "user", turn |-> t, calls |-> << >>, call |-> NoCall]
ReplyMsg(t, b)  == [role |-> "assistant", turn |-> t, calls |-> b, call |-> NoCall]
ResultMsg(t, c) == [role |-> "tool", turn |-> t, calls |-> << >>, call |-> c]
NoteMsg         == [role |-> "note", turn |-> NoTurn, calls |-> << >>, call |-> NoCall]
Notes(n)        == [i \in 1..n |-> NoteMsg]

CallsOf(m) == {m.calls[i] : i \in DOMAIN m.calls}

IsLastAssistant(at, n) ==     \* log[at] is the latest assistant message of log[1..n]
    /\ at \in 1..n /\ log[at].role = "assistant"
    /\ \A j \in at+1..n : log[j].role # "assistant"

Answered(at, n) == {log[j].call : j \in {k \in at+1..n : log[k].role = "tool"}}

\* The calls of the latest reply that no result answers, if that reply is one
\* of a turn in ts; over the first n messages.
OwedBy(ts, n) ==
    UNION {CallsOf(log[at]) \ Answered(at, n) :
             at \in {k \in 1..n : IsLastAssistant(k, n) /\ log[k].turn \in ts}}

\* Mutant: a note never waits.
OwesNothing == FALSE

OwesToolResults    == OwedBy(Turns, Len(log)) # {}
UnansweredCalls(t) == OwedBy({t}, Len(log))

\* The position of the latest reply.
BatchAt == CHOOSE at \in 1..Len(log) : IsLastAssistant(at, Len(log))

\* The i-th call of the latest reply is the first still owed to turn t.
IsFirstOwed(t, i) ==
    /\ i \in DOMAIN log[BatchAt].calls
    /\ log[BatchAt].calls[i] \in UnansweredCalls(t)
    /\ \A j \in 1..i-1 : log[BatchAt].calls[j] \notin UnansweredCalls(t)

IsNextCall(t, c) ==
    \E i \in DOMAIN log[BatchAt].calls : IsFirstOwed(t, i) /\ log[BatchAt].calls[i] = c

\* Mutants: any opening will do; a replay opens its turn again.
HasAnyOpening(t) == \E i \in DOMAIN log : log[i].role = "user"
NeverOpened(t)   == FALSE

HasOpeningMessage(t) == \E i \in DOMAIN log : log[i].role = "user" /\ log[i].turn = t

\* The turn loop ends on a final reply; notes are context and are skipped.
EndsInFinalReply ==
    \E i \in DOMAIN log :
        /\ log[i].role = "assistant" /\ log[i].calls = << >>
        /\ \A j \in i+1..Len(log) : log[j].role = "note"

\* Mutants: keyed by the call id alone (#167); counted from the wrong end.
ToolStepIdByCall(at, c)    == <<1, c>>
ToolStepIdOffByTwo(at, c)  == <<at - 2, c>>

ToolStepId(at, c) == <<at, c>>
-----------------------------------------------------------------------------
(* The inbox.  The head is the operation in progress; a turn's promise is  *)
(* in the running map exactly while an operation of that turn is here.     *)

Op == [kind: {"turn", "resume", "note", "reset"}, turn: Turns \cup {NoTurn}]
TurnOp(t)   == [kind |-> "turn", turn |-> t]
ResumeOp(t) == [kind |-> "resume", turn |-> t]
NoteOp      == [kind |-> "note", turn |-> NoTurn]
ResetOp     == [kind |-> "reset", turn |-> NoTurn]

Park == [turn: Turns, call: Calls]
NoPark == [turn |-> NoTurn, call |-> NoCall]

RunningIn(q) == {q[i].turn : i \in DOMAIN q} \ {NoTurn}
Running == RunningIn(inbox)
Current == Head(inbox).turn
HeldTurns == {held[i] : i \in DOMAIN held}

parkedTurnId == IF status = "suspended" THEN park.turn ELSE NoTurn

\* Mutant: the newest of the held turns is started.
DrainedNewest(q, h) ==
    IF ~pendingReset /\ status # "suspended" /\ RunningIn(q) = {} /\ h # << >>
    THEN Append(q, TurnOp(h[Len(h)])) ELSE q

\* The inbox q after drain(): the oldest of the held turns h is started if the
\* session can run it now.
Drained(q, h) ==
    IF ~pendingReset /\ status # "suspended" /\ RunningIn(q) = {} /\ h # << >>
    THEN Append(q, TurnOp(Head(h))) ELSE q

\* The held turns once t is released; hold() holds a turn once.
HeldWithout(t) ==
    IF t \notin HeldTurns THEN held
    ELSE LET i == CHOOSE k \in DOMAIN held : held[k] = t
         IN  SubSeq(held, 1, i - 1) \o SubSeq(held, i + 1, Len(held))

\* idle(): nothing in the actor's memory matters (no announcement is in flight).
IsIdle == Running = {} /\ ~pendingReset

\* A tool may await in a finally block between requestInput and the park.
HostMayCall ==
    \/ pc \in {"model", "tool", "parking"}
    \/ pc = "idle" /\ inbox = << >>

CallerMayRun == InlineCallers \/ HostMayCall

Count(what) == used' = [used EXCEPT ![what] = @ + 1]
Within(what, bound) == used[what] < bound
-----------------------------------------------------------------------------
Init ==
    /\ log = << >> /\ modelSteps = {} /\ toolSteps = {} /\ answers = {}
    /\ park = NoPark /\ status = "new" /\ held = << >> /\ heldNotes = 0
    /\ initiator = NoPrincipal /\ generation = 0
    /\ inbox = << >> /\ cancels = {} /\ pendingReset = FALSE /\ live = FALSE
    /\ pc = "idle"
    /\ used = [deliveries |-> [t \in Turns |-> 0], batches |-> 0, notes |-> 0,
               cancels |-> 0, resets |-> 0, failures |-> 0, crashes |-> 0]
    /\ ran = {} /\ twice = {}

(* Calls on the session: start, cancel, resume, note, reset.  The host     *)
(* builds the actor first if it holds none.                                *)

MustHold(t) ==
    /\ t \in QueueTurns /\ ~pendingReset /\ t # parkedTurnId
    /\ parkedTurnId # NoTurn \/ held # << >>

ForeignPark(t) == status = "suspended" /\ park # NoPark /\ park.turn # t

Deliver(t) ==
    /\ CallerMayRun
    /\ used.deliveries[t] < MaxDeliveries
    /\ used' = [used EXCEPT !.deliveries[t] = @ + 1]
    /\ live' = TRUE

\* start(): the turn is held; a redelivery is not held again.
StartHolds(t) ==
    /\ Deliver(t)
    /\ MustHold(t)
    /\ held' = IF t \in HeldTurns \/ HasOpeningMessage(t) THEN held ELSE Append(held, t)
    /\ inbox' = Drained(inbox, held')
    /\ UNCHANGED <<log, steps, park, status, heldNotes, session, cancels, pendingReset,
                   pc, effects>>

\* start(): the turn goes on the chain, behind a held turn that can run now;
\* replace first asks every unfinished turn to cancel.  start() throws, and
\* changes nothing, when another turn is parked and no reset is pending.
StartBegins(t) ==
    /\ Deliver(t)
    /\ ~MustHold(t)
    /\ ForeignPark(t) => pendingReset
    /\ LET q == IF parkedTurnId = NoTurn THEN Drained(inbox, held) ELSE inbox
       IN  /\ inbox' = Append(q, TurnOp(t))
           /\ cancels' = IF t \in ReplaceTurns THEN cancels \cup RunningIn(q) ELSE cancels
    /\ UNCHANGED <<store, pendingReset, pc, effects>>

Cancel(t) ==
    /\ CallerMayRun /\ Within("cancels", MaxCancels) /\ Count("cancels")
    /\ t \in Running \ cancels
    /\ cancels' = cancels \cup {t}
    /\ UNCHANGED <<store, inbox, pendingReset, live, pc, effects>>

\* Mutant: the answered checkpoint is left in the store.
ResumeKeepsPark(t) ==
    /\ CallerMayRun /\ ~pendingReset /\ park.turn = t
    /\ <<t, park.call>> \notin answers
    /\ answers' = answers \cup {<<t, park.call>>}
    /\ status' = "running"
    /\ inbox' = Append(inbox, ResumeOp(t)) /\ live' = TRUE
    /\ UNCHANGED <<log, modelSteps, toolSteps, park, held, heldNotes, session, cancels,
                   pendingReset, pc, used, effects>>

\* An authorised answer.  putStep is insert-only: an answer that is already
\* there makes the transaction throw, and nothing changes.
Resume(t) ==
    /\ CallerMayRun
    /\ ~pendingReset /\ park.turn = t
    /\ <<t, park.call>> \notin answers
    /\ answers' = answers \cup {<<t, park.call>>}
    /\ park' = NoPark
    /\ status' = "running"
    /\ inbox' = Append(inbox, ResumeOp(t)) /\ live' = TRUE
    /\ UNCHANGED <<log, modelSteps, toolSteps, held, heldNotes, session, cancels,
                   pendingReset, pc, used, effects>>

Note ==
    /\ CallerMayRun /\ Within("notes", MaxNotes) /\ Count("notes")
    /\ inbox' = Append(inbox, NoteOp) /\ live' = TRUE
    /\ UNCHANGED <<store, cancels, pendingReset, pc, effects>>

Reset ==
    /\ CallerMayRun /\ Within("resets", MaxResets) /\ Count("resets")
    /\ cancels' = cancels \cup Running
    /\ pendingReset' = TRUE
    /\ inbox' = Append(inbox, ResetOp) /\ live' = TRUE
    /\ UNCHANGED <<store, pc, effects>>

\* A host builds the actor over its store: the constructor and the hooks, no
\* drain().  A read (transcript, pending) does no more than this.
Rebuild ==
    /\ CallerMayRun /\ ~live
    /\ live' = TRUE
    /\ UNCHANGED <<store, inbox, cancels, pendingReset, pc, used, effects>>

\* A host drops an actor that says it is idle; its memory goes with it.
Evict ==
    /\ HostMayCall /\ live /\ IsIdle
    /\ live' = FALSE /\ inbox' = << >> /\ cancels' = {} /\ pc' = "idle"
    /\ UNCHANGED <<store, pendingReset, used, effects>>
-----------------------------------------------------------------------------
(* The operation at the head of the chain begins.                          *)

AtHead(kinds) == pc = "idle" /\ inbox # << >> /\ Head(inbox).kind \in kinds

TurnBegins == AtHead({"turn", "resume"})

\* Mutant: the park is only looked at in start().
NeverRefuse == FALSE

\* An answered turn continues without looking at the park again.
MustRefuse == Head(inbox).kind = "turn" /\ ForeignPark(Current)

\* Another turn parked since start() looked: the turn fails, nothing is stored.
RefuseOverPark ==
    /\ TurnBegins /\ MustRefuse
    /\ pc' = "settling"
    /\ UNCHANGED <<store, actor, used, effects>>

\* Cancelled before it began: it vanishes without a trace.
CancelEarly ==
    /\ TurnBegins /\ ~MustRefuse /\ Current \in cancels
    /\ pc' = "settling"
    /\ UNCHANGED <<store, actor, used, effects>>

Released == IF heldNotes > 0 /\ ~OwesToolResults THEN heldNotes ELSE 0
Opening(t) == IF HasOpeningMessage(t) THEN << >> ELSE <<OpeningMsg(t)>>

\* Mutants: the seat is claimed after the opening's transaction; it goes to
\* the latest identity.
OpenTurnThenClaim ==
    /\ TurnBegins /\ ~MustRefuse /\ Current \notin cancels
    /\ log' = log \o Notes(Released) \o Opening(Current)
    /\ heldNotes' = heldNotes - Released
    /\ initiator' = IF HasOpeningMessage(Current) /\ initiator = NoPrincipal
                    THEN PrincipalOf[Current] ELSE initiator
    /\ status' = "running"
    /\ pc' = IF HasOpeningMessage(Current) THEN "loop" ELSE "idle"
    /\ UNCHANGED <<steps, park, held, generation, actor, used, effects>>
OpenTurnReclaims ==
    /\ TurnBegins /\ ~MustRefuse /\ Current \notin cancels
    /\ log' = log \o Notes(Released) \o Opening(Current)
    /\ heldNotes' = heldNotes - Released
    /\ initiator' = IF PrincipalOf[Current] # NoPrincipal THEN PrincipalOf[Current]
                    ELSE initiator
    /\ status' = "running"
    /\ pc' = "loop"
    /\ UNCHANGED <<steps, park, held, generation, actor, used, effects>>

\* Held notes join a log that owes no result, then the opening is appended and
\* the session's seat claimed by the first identified turn, in one transaction.
OpenTurn ==
    /\ TurnBegins /\ ~MustRefuse /\ Current \notin cancels
    /\ log' = log \o Notes(Released) \o Opening(Current)
    /\ heldNotes' = heldNotes - Released
    /\ initiator' = IF initiator = NoPrincipal THEN PrincipalOf[Current] ELSE initiator
    /\ status' = "running"
    /\ pc' = "loop"
    /\ UNCHANGED <<steps, park, held, generation, actor, used, effects>>

\* note(): appended, or kept while the log owes results.
RunNote ==
    /\ AtHead({"note"})
    /\ IF OwesToolResults
       THEN heldNotes' = heldNotes + 1 /\ UNCHANGED log
       ELSE log' = Append(log, NoteMsg) /\ UNCHANGED heldNotes
    /\ inbox' = Tail(inbox)
    /\ UNCHANGED <<steps, park, status, held, session, cancels, pendingReset, live, pc,
                   used, effects>>

\* reset(): messages, steps and status are archived in one transaction.
RunReset ==
    /\ AtHead({"reset"})
    /\ log' = << >> /\ modelSteps' = {} /\ toolSteps' = {} /\ answers' = {}
    /\ park' = NoPark /\ status' = "new" /\ held' = << >> /\ heldNotes' = 0
    /\ initiator' = NoPrincipal /\ generation' = generation + 1
    /\ ran' = {} /\ twice' = twice
    /\ inbox' = Tail(inbox) /\ pendingReset' = FALSE
    /\ UNCHANGED <<cancels, live, pc, used>>

ResetFails ==
    /\ AtHead({"reset"}) /\ Within("failures", MaxFailures) /\ Count("failures")
    /\ inbox' = Tail(inbox) /\ pendingReset' = FALSE
    /\ UNCHANGED <<store, cancels, live, pc, effects>>
-----------------------------------------------------------------------------
(* The turn loop.                                                          *)

Owing     == pc = "loop" /\ ~EndsInFinalReply /\ UnansweredCalls(Current) # {}
NotOwing  == pc = "loop" /\ ~EndsInFinalReply /\ UnansweredCalls(Current) = {}
Settling(outcome) == pc' = "settling" /\ status' = outcome

\* A final reply ends the log.
Complete ==
    /\ pc = "loop" /\ EndsInFinalReply
    /\ Settling("done")
    /\ UNCHANGED <<log, steps, park, held, heldNotes, session, actor, used, effects>>

\* Mutant: a cancelled turn stops between two calls and answers none.
CancelLeavesBatch ==
    /\ Owing /\ Current \in cancels
    /\ Settling("done")
    /\ UNCHANGED <<log, steps, park, held, heldNotes, session, actor, used, effects>>

\* Every call still owed gets a "cancelled" result, in one transaction.  Calls
\* run in the reply's order, so the ones owed are those from the first owed on.
CancelToolBatch ==
    /\ Owing /\ Current \in cancels
    /\ \E i \in DOMAIN log[BatchAt].calls :
          /\ IsFirstOwed(Current, i)
          /\ LET n == Len(log[BatchAt].calls) - i + 1
                 owed == [k \in 1..n |-> log[BatchAt].calls[i + k - 1]]
             IN  /\ log' = log \o [k \in 1..n |-> ResultMsg(Current, owed[k])]
                 /\ toolSteps' = toolSteps \cup {ToolStepId(BatchAt, owed[k]) : k \in 1..n}
    /\ Settling("done")
    /\ UNCHANGED <<modelSteps, answers, park, held, heldNotes, session, actor, used, effects>>

RunsTool(c) ==
    /\ Owing /\ Current \notin cancels
    /\ IsNextCall(Current, c)
    /\ ToolStepId(BatchAt, c) \notin toolSteps

InTool(c) == pc = "tool" /\ IsNextCall(Current, c)
IsAnswered(c) == <<Current, c>> \in answers

\* The turn fails, its status stays "running" and its batch owed.
FatalTool(c) ==
    /\ c \in FatalCalls /\ (RunsTool(c) \/ InTool(c))
    /\ pc' = "settling"
    /\ UNCHANGED <<store, actor, used, effects>>

\* The result, a value or an error text, is checkpointed with its message.
Record(c) ==
    /\ toolSteps' = toolSteps \cup {ToolStepId(BatchAt, c)}
    /\ log' = Append(log, ResultMsg(Current, c))
    /\ pc' = "loop"
    /\ UNCHANGED <<modelSteps, answers, park, status, held, heldNotes, session, actor>>

RanNow(c) ==
    /\ ran' = ran \cup {<<BatchAt, c>>}
    /\ twice' = IF <<BatchAt, c>> \in ran THEN twice \cup {<<BatchAt, c>>} ELSE twice

\* Mutant: the effect commits, the record is left to a later transaction.
LocalToolThenRecord(c) ==
    /\ RunsTool(c) /\ c \in LocalCalls \ FatalCalls
    /\ pc' = "tool"
    /\ RanNow(c)
    /\ UNCHANGED <<store, actor, used>>

\* A synchronous tool: its effect commits with the record.
LocalTool(c) ==
    /\ RunsTool(c) /\ c \in LocalCalls \ FatalCalls
    /\ Record(c)
    /\ RanNow(c)
    /\ UNCHANGED used

\* It throws: its transaction rolls back, the error is recorded in another one.
LocalToolThrows(c) ==
    /\ RunsTool(c) /\ c \in LocalCalls \ FatalCalls
    /\ Within("failures", MaxFailures) /\ Count("failures")
    /\ Record(c)
    /\ UNCHANGED effects

\* An asynchronous tool is awaited.
RemoteTool(c) ==
    /\ RunsTool(c) /\ c \notin LocalCalls
    /\ pc' = "tool"
    /\ UNCHANGED <<store, actor, used, effects>>

\* Mutant: a turn continued by an answer does not release them.
ReleaseInFirstRunOnly ==
    /\ NotOwing /\ heldNotes > 0 /\ Head(inbox).kind = "turn"
    /\ log' = log \o Notes(heldNotes) /\ heldNotes' = 0
    /\ UNCHANGED <<steps, park, status, held, session, actor, pc, used, effects>>

\* Notes held behind the batch just answered join the log before the model is
\* asked; the loop then reads the log again.
ReleaseHeldNotes ==
    /\ NotOwing /\ heldNotes > 0
    /\ log' = log \o Notes(heldNotes) /\ heldNotes' = 0
    /\ UNCHANGED <<steps, park, status, held, session, actor, pc, used, effects>>

CancelBeforeModel ==
    /\ NotOwing /\ heldNotes = 0 /\ Current \in cancels
    /\ Settling("done")
    /\ UNCHANGED <<log, steps, park, held, heldNotes, session, actor, used, effects>>

AskModel ==
    /\ NotOwing /\ heldNotes = 0 /\ Current \notin cancels
    /\ Len(log) + 1 \notin modelSteps
    /\ pc' = "model"
    /\ UNCHANGED <<store, actor, used, effects>>
-----------------------------------------------------------------------------
(* A model call or an asynchronous tool returns.                           *)

\* The cancel request is read again before the reply is committed.
ModelReplies(b) ==
    /\ pc = "model" /\ Current \notin cancels
    /\ IF b = << >> THEN UNCHANGED used
       ELSE Within("batches", MaxBatches) /\ Count("batches")
    /\ modelSteps' = modelSteps \cup {Len(log) + 1}
    /\ log' = Append(log, ReplyMsg(Current, b))
    /\ pc' = "loop"
    /\ UNCHANGED <<toolSteps, answers, park, status, held, heldNotes, session, actor, effects>>

\* A cancel request is noticed at a delta, or after the last one.
ModelCancelled ==
    /\ pc = "model" /\ Current \in cancels
    /\ Settling("done")
    /\ UNCHANGED <<log, steps, park, held, heldNotes, session, actor, used, effects>>

\* The provider throws, or stops abnormally with an empty reply.
ModelFails ==
    /\ pc = "model" /\ Within("failures", MaxFailures) /\ Count("failures")
    /\ pc' = "settling"
    /\ UNCHANGED <<store, actor, effects>>

RemoteReturns(c) ==
    /\ InTool(c) /\ c \notin FatalCalls /\ (c \in AskCalls => IsAnswered(c))
    /\ Record(c)
    /\ UNCHANGED <<used, effects>>

\* It throws before it has its answer: that is the call's result.
RemoteThrows(c) ==
    /\ InTool(c) /\ c \in AskCalls \ FatalCalls /\ ~IsAnswered(c)
    /\ Within("failures", MaxFailures) /\ Count("failures")
    /\ Record(c)
    /\ UNCHANGED effects

\* requestInput finds no answer and throws the suspend signal...
RequestInput(c) ==
    /\ InTool(c) /\ c \in AskCalls /\ ~IsAnswered(c)
    /\ pc' = "parking"
    /\ UNCHANGED <<store, actor, used, effects>>

\* ...which runTurn catches: a checkpoint already there is kept.
ParkTurn(c) ==
    /\ pc = "parking" /\ IsNextCall(Current, c)
    /\ park' = IF park = NoPark THEN [turn |-> Current, call |-> c] ELSE park
    /\ Settling("suspended")
    /\ UNCHANGED <<log, steps, held, heldNotes, session, actor, used, effects>>
-----------------------------------------------------------------------------
\* Mutants: the next held turn waits for the next call; a cancel request
\* outlives its turn.
SettleWithoutDrain ==
    /\ pc = "settling"
    /\ cancels' = IF Current \in RunningIn(Tail(inbox)) THEN cancels
                  ELSE cancels \ {Current}
    /\ held' = HeldWithout(Current)
    /\ inbox' = Tail(inbox)
    /\ pc' = "idle"
    /\ UNCHANGED <<log, steps, park, status, heldNotes, session, pendingReset, live,
                   used, effects>>
SettleKeepsCancels ==
    /\ pc = "settling"
    /\ held' = HeldWithout(Current)
    /\ inbox' = Drained(Tail(inbox), held')
    /\ pc' = "idle"
    /\ UNCHANGED <<log, steps, park, status, heldNotes, session, cancels, pendingReset,
                   live, used, effects>>

\* settle(): the turn leaves the running map unless a later operation of it is
\* on the chain; it is released if it was held; the next held turn may start.
Settle ==
    /\ pc = "settling"
    /\ cancels' = IF Current \in RunningIn(Tail(inbox)) THEN cancels
                  ELSE cancels \ {Current}
    /\ held' = HeldWithout(Current)
    /\ inbox' = Drained(Tail(inbox), held')
    /\ pc' = "idle"
    /\ UNCHANGED <<log, steps, park, status, heldNotes, session, pendingReset, live,
                   used, effects>>

\* The process dies.
Crash ==
    /\ Within("crashes", MaxCrashes) /\ Count("crashes")
    /\ inbox' = << >> /\ cancels' = {} /\ pendingReset' = FALSE /\ live' = FALSE
    /\ pc' = "idle"
    /\ UNCHANGED <<store, effects>>

\* Nothing runs and nobody calls.
Rest == pc = "idle" /\ inbox = << >> /\ UNCHANGED vars
-----------------------------------------------------------------------------
Call ==
    \/ \E t \in Turns : StartHolds(t) \/ StartBegins(t) \/ Cancel(t) \/ Resume(t)
    \/ Note \/ Reset \/ Rebuild \/ Evict

Engine ==
    \/ RefuseOverPark \/ CancelEarly \/ OpenTurn \/ RunNote \/ RunReset \/ ResetFails
    \/ Complete \/ CancelToolBatch \/ ReleaseHeldNotes \/ CancelBeforeModel \/ AskModel
    \/ \E c \in Calls :
          \/ FatalTool(c) \/ LocalTool(c) \/ LocalToolThrows(c) \/ RemoteTool(c)
          \/ RemoteReturns(c) \/ RemoteThrows(c) \/ RequestInput(c) \/ ParkTurn(c)
    \/ \E b \in Batches : ModelReplies(b)
    \/ ModelCancelled \/ ModelFails \/ Settle

Next == Call \/ Engine \/ Crash \/ Rest

Spec == Init /\ [][Next]_vars

\* The process keeps running what it has begun, providers and tools return,
\* and whoever a parked turn waits for answers.
FairSpec == Spec /\ WF_vars(Engine) /\ WF_vars(\E t \in Turns : Resume(t))
-----------------------------------------------------------------------------
(* Properties.                                                             *)

\* Every variable holds a value of its type.
TypeOK ==
    /\ log \in Seq(Message)
    /\ modelSteps \subseteq Nat \ {0}
    /\ toolSteps \subseteq (Nat \ {0}) \X Calls
    /\ answers \subseteq Turns \X Calls
    /\ park \in Park \cup {NoPark}
    /\ status \in {"new", "running", "suspended", "done"}
    /\ held \in Seq(Turns)
    /\ heldNotes \in Nat
    /\ initiator \in Principals \cup {NoPrincipal}
    /\ generation \in Nat
    /\ inbox \in Seq(Op)
    /\ cancels \subseteq Turns
    /\ pendingReset \in BOOLEAN
    /\ live \in BOOLEAN
    /\ pc \in {"idle", "loop", "model", "tool", "parking", "settling"}
    /\ used \in [deliveries : [Turns -> Nat], batches : Nat, notes : Nat,
                 cancels : Nat, resets : Nat, failures : Nat, crashes : Nat]
    /\ ran \subseteq (Nat \ {0}) \X Calls
    /\ twice \subseteq (Nat \ {0}) \X Calls

\* The latest reply before position j.
BatchBefore(j) == CHOOSE at \in 1..j-1 : IsLastAssistant(at, j-1)

\* The steps table and the transcript say the same thing, whatever crashes:
\* a model step for each reply, a tool step for each result, at the reply that
\* made the call.  A step without its message would make the turn loop skip the
\* call and spin on an unchanged log; a message without its step would run the
\* tool again (modelStep, toolStep, cancelToolBatch).
CheckpointsMatchLog ==
    /\ modelSteps = {i \in DOMAIN log : log[i].role = "assistant"}
    /\ toolSteps = {<<BatchBefore(j), log[j].call>> :
                      j \in {i \in DOMAIN log : log[i].role = "tool"}}

\* The effect of a synchronous tool commits at most once per call, across
\* crashes, redeliveries, parks and resumes (toolStep's one transaction).
LocalExactlyOnce == twice = {}

\* A turn opens once in a generation, however often it is delivered, held,
\* replayed or resumed.
OpensOnce ==
    \A i, j \in DOMAIN log :
        log[i].role = "user" /\ log[j].role = "user" /\ log[i].turn = log[j].turn => i = j

\* The seat belongs to the first identified turn that opened in this
\* generation, and to nobody before: opening and claim cannot be told apart
\* by a crash, and a later identity never takes the seat.
SeatIsFirstIdentified ==
    LET identified == {i \in DOMAIN log : log[i].role = "user"
                                          /\ PrincipalOf[log[i].turn] # NoPrincipal}
    IN  IF identified = {} THEN initiator = NoPrincipal
        ELSE \E i \in identified : /\ initiator = PrincipalOf[log[i].turn]
                                   /\ \A j \in identified : i <= j

\* What the model API demands of the transcript: once a reply makes calls,
\* nothing but their results comes next (no note, no other turn's opening), and
\* the model is not asked while one is missing.
ProviderClean ==
    /\ \A j \in DOMAIN log : log[j].role # "tool" => OwedBy(Turns, j - 1) = {}
    /\ pc = "model" => ~OwesToolResults

\* A turn that completes returns its own reply, not the tail of another turn.
EndsInOwnReply ==
    \E i \in DOMAIN log : /\ log[i].turn = Current
                         /\ \A j \in i+1..Len(log) : log[j].role = "note"
RepliesOwn == [][Complete => EndsInOwnReply]_vars

\* While the engine is at rest, "suspended" and the checkpoint agree, and the
\* answer continues the parked turn at the very call that asked: that call is
\* the next one owed, and its answer can still be stored.
ParkIsResumable ==
    pc = "idle" =>
        /\ status = "suspended" <=> park # NoPark
        /\ park # NoPark => /\ IsNextCall(park.turn, park.call)
                            /\ <<park.turn, park.call>> \notin answers

\* While a turn is parked no other turn opens, so nothing gets between its
\* call and the answer.
ParkHoldsTheFloor ==
    [][\A t \in Turns : HasOpeningMessage(t)' /\ ~HasOpeningMessage(t) /\ park # NoPark
          => park.turn = t]_vars

\* Held turns wait for a reason: when an actor exists, nothing runs and nothing
\* is coming, the session is parked (drain() after every settle, and in every
\* start()).
HeldBehindPark ==
    live /\ pc = "idle" /\ inbox = << >> /\ held # << >> => status = "suspended"

\* A session at rest owes nobody anything it could give now.
AtRest == ParkIsResumable /\ HeldBehindPark

\* An actor that says it is idle may be dropped and rebuilt: it keeps no
\* operation and no cancel request that a later delivery would have met.
IdleLosesNothing == HostMayCall /\ IsIdle => pc = "idle" /\ inbox = << >> /\ cancels = {}

\* Held turns run in the order of their arrival: a later one waits behind an
\* earlier one, and one that opens is the first in line.
HeldBefore(t, u) == \E i, j \in DOMAIN held : i < j /\ held[i] = t /\ held[j] = u

HeldInOrder ==
    [][/\ \A t \in HeldTurns, u \in Turns :
            /\ u \notin HeldTurns \/ HeldBefore(t, u)
            /\ t # u /\ t \in HeldTurns' /\ u \in HeldTurns'
            => HeldBefore(t, u)'
       /\ \A t \in HeldTurns : HasOpeningMessage(t)' /\ ~HasOpeningMessage(t)
                                 => t = Head(held)]_vars

TurnsSettle     == \A t \in Turns : t \in Running ~> t \notin Running
HeldTurnsDrain  == \A t \in Turns : t \in HeldTurns ~> t \notin HeldTurns
HeldNotesJoin   == heldNotes > 0 ~> heldNotes = 0

\* Liveness: every accepted turn settles, every held turn gets its run, every
\* held note joins the transcript.
NothingWaitsForever == TurnsSettle /\ HeldTurnsDrain /\ HeldNotesJoin
=============================================================================
