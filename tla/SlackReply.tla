------------------------------ MODULE SlackReply ------------------------------
(***************************************************************************)
(* A turn's reply in Slack: the three renderers of slackChannel            *)
(* (packages/core/src/channels.ts) -- streamRender, renderOnce and         *)
(* resumeRender -- between the events of a turn, which reach them through  *)
(* observeTurnEvents or an SSE stream, and a Slack that refuses calls,     *)
(* loses answers and lets the reader press Stop.                           *)
(*                                                                         *)
(* Text is a sequence of tokens, 1, 2, ... as the turn says them, and a    *)
(* note ("the turn failed") is one token more.  A renderer is the list of  *)
(* the calls and reads it still has to make: a call that throws replaces   *)
(* the list by that of the catch clause.  The target is a thread.          *)
(***************************************************************************)
EXTENDS Integers, Sequences, FiniteSets, SequencesExt

CONSTANTS
    Kinds,          \* renderers to consider: "stream", "once", "resume"
    MdMax,          \* the most tokens one call may carry (MD_MAX)
    MaxText,        \* bound: tokens a turn says
    MaxCalls,       \* bound: tools a turn calls
    MaxFaults,      \* bound: calls to Slack that fail, and links that break
    MaxStops        \* bound: presses of Stop

ASSUME SlackReplyAssumption ==
    /\ Kinds \subseteq {"stream", "once", "resume"}
    /\ MdMax \in Nat \ {0} /\ MaxText \in Nat /\ MaxCalls \in Nat
    /\ MaxFaults \in Nat /\ MaxStops \in Nat

VARIABLES
    mode,           \* which renderer, and the options of the channel; never changes
    turn,           \* the turn: what it has said, in this step and in all, and how it stands
    queue,          \* the events on their way to the renderer
    link,           \* what carries them: "up", "cut" (ended early) or "dropped" (it throws)
    r,              \* the renderer; `gaveUp' is text it gave up, and `missed' a call that failed
                    \* and that nothing makes again, its text or what it was to clear
    thread,         \* what the thread shows
    spent           \* what the bounds count

replyVars == <<mode, turn, queue, link, r, thread, spent>>

Note == 0
Event(type, text) == [type |-> type, text |-> text]
Outcomes == {"completed", "failed", "cancelled", "parked"}

Spend(what, bound) == spent[what] < bound /\ spent' = [spent EXCEPT ![what] = @ + 1]
-----------------------------------------------------------------------------
ReplyInit ==
    /\ mode \in [kind : Kinds, live : BOOLEAN, status : BOOLEAN, tasks : BOOLEAN, hold : BOOLEAN]
    /\ mode.kind # "stream" => ~mode.live /\ ~mode.tasks /\ ~mode.hold
    /\ mode.kind = "resume" => ~mode.status
    /\ turn = [said |-> 0, step |-> <<>>, calls |-> 0, state |-> "running"]
    /\ queue = <<>> /\ link = "up"
    /\ r = [plan |-> CASE mode.kind = "resume" -> <<"working", "next">>
                       [] mode.status -> <<"status", "next">>
                       [] OTHER -> <<"next">>,
            pending |-> <<>>, final |-> <<>>, step |-> <<>>, files |-> FALSE,
            started |-> FALSE, ts |-> FALSE, stopped |-> FALSE, broken |-> FALSE,
            streamed |-> FALSE, posted |-> FALSE, statusShown |-> mode.status, caught |-> FALSE,
            taken |-> <<>>, gaveUp |-> FALSE, missed |-> FALSE, lost |-> FALSE, loud |-> FALSE]
    /\ thread = [shown |-> <<>>, stream |-> "none", status |-> FALSE, asked |-> FALSE,
                message |-> "buttons"]
    /\ spent = [failures |-> 0, stops |-> 0]

(* The turn.  What it says in a step streams as deltas when the model does. *)

Emit(events) == queue' = IF link = "up" THEN queue \o events ELSE queue

Say ==
    /\ turn.state = "running" /\ turn.said < MaxText
    /\ LET token == turn.said + 1 IN
       /\ turn' = [turn EXCEPT !.said = token, !.step = Append(@, token)]
       /\ Emit(IF mode.live THEN <<Event("delta", <<token>>)>> ELSE <<>>)
    /\ UNCHANGED <<mode, link, r, thread, spent>>

CallTool ==
    /\ turn.state = "running" /\ turn.calls < MaxCalls
    /\ turn' = [turn EXCEPT !.calls = @ + 1, !.step = <<>>]
    /\ \E files \in {<<>>, <<Event("attached", <<>>)>>} :
           Emit(<<Event("requested", <<>>), Event("acted", <<>>)>> \o files)
    /\ UNCHANGED <<mode, link, r, thread, spent>>

End(outcome) ==
    /\ turn.state = "running"
    /\ turn' = [turn EXCEPT !.state = outcome]
    /\ Emit(<<Event(outcome, IF outcome = "completed" THEN turn.step ELSE <<>>)>>)
    /\ UNCHANGED <<mode, link, r, thread, spent>>

\* The stream of events ends before the turn does, as an end or as an error.
Break ==
    /\ link = "up" /\ turn.state = "running" /\ Spend("failures", MaxFaults)
    /\ link' \in {"cut", "dropped"}
    /\ UNCHANGED <<mode, turn, queue, r, thread>>

PressStop ==
    /\ thread.stream = "open" /\ Spend("stops", MaxStops)
    /\ thread' = [thread EXCEPT !.stream = "stopped"]
    /\ UNCHANGED <<mode, turn, queue, link, r>>
-----------------------------------------------------------------------------
(* The renderer.                                                           *)

Step(name) == r.plan # <<>> /\ Head(r.plan) = name
Done == r.plan = <<>>
Pop == Tail(r.plan)

Finish == <<"flush", "stop", "post">>

\* push(): a note joins the text, unless the reader stopped it.
Pushed(token) == IF r.stopped THEN r.pending ELSE Append(r.pending, token)

(* When a call, or the next event, throws, a catch clause replaces what is left to do.      *)

\* The salvage: a note, what did not stream, and the status.  push() may flush or not; a
\* call that throws in push() or in finish() leaves the rest of that one undone.
StreamCatch ==
    IF r.caught
    THEN {[r EXCEPT !.plan = IF Len(@) = 5 THEN Tail(@) ELSE <<"wipe">>,
                    !.gaveUp = @ \/ Len(r.plan) # 5]}
    ELSE {[r EXCEPT !.plan = flush \o Finish \o <<"wipe">>, !.caught = TRUE, !.loud = TRUE,
                    !.pending = Pushed(Note)] : flush \in {<<"flush">>, <<>>}}

\* Mutant: the status stays.
OnceCatchLeaves == {[r EXCEPT !.plan = <<>>, !.caught = TRUE, !.loud = TRUE, !.gaveUp = @ \/ Step("post")]}

\* The reply, if it is its post that threw, is given up.
OnceCatch == {[r EXCEPT !.plan = <<"wipe">>, !.caught = TRUE, !.loud = TRUE, !.gaveUp = @ \/ Step("post")]}

\* The message tells of the failure, unless telling it is what threw.
ResumeCatch ==
    IF r.caught
    THEN {[r EXCEPT !.plan = <<>>, !.missed = TRUE]}
    ELSE {[r EXCEPT !.plan = <<"failed">>, !.caught = TRUE, !.loud = TRUE]}

CatchClauses ==
    CASE mode.kind = "stream" -> StreamCatch
      [] mode.kind = "once" -> OnceCatch
      [] OTHER -> ResumeCatch

\* How a call to Slack may end: "lost" is a call that Slack made and whose answer was lost.
Failures == {"refused", "throws", "lost"}
Call(answer) ==
    \/ answer = "ok" /\ UNCHANGED spent
    \/ answer \in Failures /\ Spend("failures", MaxFaults)
Made(answer) == answer \in {"ok", "lost"}

\* After the call: `ok' is the renderer when it is answered, `no' when it is refused.
Answered(answer, ok, no) ==
    CASE answer = "ok" -> r' = ok
      [] answer = "refused" -> r' = no
      [] OTHER -> \E c \in CatchClauses : r' = [c EXCEPT !.lost = @ \/ answer = "lost"]

\* What Slack shows in the thread takes the status line away.
Shows(text) == [thread EXCEPT !.shown = @ \o text, !.status = FALSE]

\* setStatus() never throws, and may have no effect.
SetStatus(name, on, statusShown) ==
    /\ Step(name)
    /\ \E answer \in {"ok", "refused"} :
           /\ Call(answer)
           /\ thread' = IF Made(answer) THEN [thread EXCEPT !.status = on] ELSE thread
           /\ r' = [r EXCEPT !.plan = Pop, !.statusShown = statusShown,
                             !.missed = @ \/ (~on /\ ~Made(answer))]
    /\ UNCHANGED <<mode, turn, queue, link>>

ShowStatus == SetStatus("status", TRUE, TRUE)
Wipe == r.statusShown /\ SetStatus("wipe", FALSE, TRUE)

\* The status is cleared by hand when nothing was posted to clear it.
ClearNow == r.statusShown /\ ~r.posted /\ SetStatus("clear", FALSE, TRUE)

SkipClear ==
    /\ \/ Step("wipe") /\ ~r.statusShown
       \/ Step("clear") /\ (~r.statusShown \/ r.posted)
    /\ r' = [r EXCEPT !.plan = Pop]
    /\ UNCHANGED <<mode, turn, queue, link, thread, spent>>

\* Mutant: the text that opens the stream stays in the buffer.
RemainderKept(slice) == IF r.started THEN SubSeq(r.pending, Len(slice) + 1, Len(r.pending)) ELSE r.pending

\* What stays in the buffer when a slice of it was sent.
Remainder(slice) == SubSeq(r.pending, Len(slice) + 1, Len(r.pending))
Slice == SubSeq(r.pending, 1, IF Len(r.pending) < MdMax THEN Len(r.pending) ELSE MdMax)

\* Mutant: a hard failure of an append empties the buffer.
BreakAndDrop == [r EXCEPT !.broken = TRUE, !.loud = TRUE, !.pending = <<>>]

\* A hard failure of an append: the tail is kept for chat.postMessage.
BreakOff == [r EXCEPT !.broken = TRUE, !.loud = TRUE]

\* flush(): the first text opens the stream, lazily...
Open ==
    /\ Step("flush") /\ r.pending # <<>> /\ ~r.stopped /\ ~r.broken /\ ~r.started
    /\ \E answer \in {"ok"} \cup Failures :
           /\ Call(answer)
           /\ thread' = IF Made(answer) THEN [Shows(Slice) EXCEPT !.stream = "open"] ELSE thread
           /\ \/ /\ answer \in {"ok", "refused"}
                 /\ r' = [r EXCEPT !.started = TRUE, !.ts = answer = "ok",
                                   !.pending = IF answer = "ok" THEN Remainder(Slice) ELSE @]
              \/ /\ answer \in {"throws", "lost"}
                 /\ \E c \in CatchClauses :
                        r' = [c EXCEPT !.started = TRUE, !.lost = @ \/ (answer = "lost")]
    /\ UNCHANGED <<mode, turn, queue, link>>

\* ...the rest is appended slice by slice...
AppendText ==
    /\ Step("flush") /\ r.pending # <<>> /\ ~r.stopped /\ ~r.broken /\ r.started /\ r.ts
    /\ IF thread.stream = "stopped"
       THEN /\ r' = [r EXCEPT !.plan = Pop, !.stopped = TRUE, !.pending = <<>>]
            /\ UNCHANGED <<thread, spent>>
       ELSE \E answer \in {"ok"} \cup Failures :
                /\ Call(answer)
                /\ thread' = IF Made(answer) THEN Shows(Slice) ELSE thread
                /\ Answered(answer, [r EXCEPT !.pending = Remainder(Slice)], BreakOff)
    /\ UNCHANGED <<mode, turn, queue, link>>

\* ...and there is nothing to do without a stream that takes it.
Flushed ==
    /\ Step("flush")
    /\ r.pending = <<>> \/ r.stopped \/ r.broken \/ (r.started /\ ~r.ts)
    /\ r' = [r EXCEPT !.plan = Pop]
    /\ UNCHANGED <<mode, turn, queue, link, thread, spent>>

\* pushChunk(), after its flush: a task chunk opens the stream or is appended to it.
Chunk ==
    /\ Step("chunk")
    /\ IF r.broken \/ (r.started /\ ~r.ts) THEN r' = [r EXCEPT !.plan = Pop] /\ UNCHANGED <<thread, spent>>
       ELSE IF thread.stream = "stopped"
       THEN /\ r' = [r EXCEPT !.plan = Pop, !.stopped = TRUE, !.pending = <<>>]
            /\ UNCHANGED <<thread, spent>>
       ELSE \E answer \in {"ok"} \cup Failures :
                /\ Call(answer)
                /\ thread' = IF Made(answer) THEN [Shows(<<>>) EXCEPT !.stream = "open"] ELSE thread
                /\ \/ /\ answer \in {"ok", "refused"}
                      /\ r' = [r EXCEPT !.plan = Pop, !.started = TRUE,
                                        !.ts = @ \/ answer = "ok",
                                        !.loud = @ \/ (r.started /\ answer # "ok")]
                   \/ /\ answer \in {"throws", "lost"}
                      /\ \E c \in CatchClauses : r' = [c EXCEPT !.started = TRUE]
    /\ UNCHANGED <<mode, turn, queue, link>>

\* finish(), after its flush: an unbroken stream is stopped, whatever the answer is...
StopStream ==
    /\ Step("stop")
    /\ IF ~r.ts \/ r.broken \/ r.stopped THEN r' = [r EXCEPT !.plan = Pop] /\ UNCHANGED <<thread, spent>>
       ELSE \E answer \in {"ok"} \cup Failures :
                /\ Call(answer)
                /\ thread' = IF Made(answer) THEN [thread EXCEPT !.stream = "closed"] ELSE thread
                /\ Answered(answer, [r EXCEPT !.plan = Pop], [r EXCEPT !.plan = Pop])
    /\ UNCHANGED <<mode, turn, queue, link>>

\* ...and what no stream took is posted, once for all.  The answer is not looked at.
PostRest ==
    /\ Step("post") /\ r.pending # <<>> /\ ~r.stopped /\ (~r.ts \/ r.broken)
    /\ \E answer \in {"ok"} \cup Failures :
           /\ Call(answer)
           /\ thread' = IF Made(answer) THEN Shows(r.pending) ELSE thread
           /\ Answered(answer, [r EXCEPT !.plan = Pop, !.posted = TRUE],
                               [r EXCEPT !.plan = Pop, !.posted = TRUE, !.gaveUp = TRUE, !.missed = TRUE])
    /\ UNCHANGED <<mode, turn, queue, link>>

\* Nothing is left to post: whether the stream shows anything.
Posted ==
    /\ Step("post")
    /\ r.pending = <<>> \/ r.stopped \/ (r.ts /\ ~r.broken)
    /\ r' = [r EXCEPT !.plan = Pop, !.posted = r.stopped \/ r.ts]
    /\ UNCHANGED <<mode, turn, queue, link, thread, spent>>

\* deliverFiles() never throws: a file that cannot be uploaded is reported and noted.
Files ==
    /\ Step("files")
    /\ IF ~r.files THEN r' = [r EXCEPT !.plan = Pop] /\ UNCHANGED <<thread, spent>>
       ELSE \E answer \in {"ok", "refused"} :
                /\ Call(answer)
                /\ thread' = IF Made(answer) THEN Shows(<<>>) ELSE thread
                /\ r' = [r EXCEPT !.plan = Pop, !.posted = TRUE,
                                  !.missed = @ \/ ~Made(answer), !.loud = @ \/ ~Made(answer)]
    /\ UNCHANGED <<mode, turn, queue, link>>

\* postApproval(): a refusal is reported, and the status cleared.
Prompt ==
    /\ Step("prompt")
    /\ \E answer \in {"ok"} \cup Failures :
           /\ Call(answer)
           /\ thread' = IF Made(answer) THEN [Shows(<<>>) EXCEPT !.asked = TRUE] ELSE thread
           /\ Answered(answer, [r EXCEPT !.plan = Pop],
                               [r EXCEPT !.loud = TRUE, !.plan = IF Pop = <<>> THEN <<"wipe">> ELSE Pop])
    /\ UNCHANGED <<mode, turn, queue, link>>

\* updateMessage() on the message that held the buttons.
Update ==
    /\ ~Done /\ Head(r.plan) \in {"working", "awaiting", "outcome", "failed"}
    /\ \E answer \in {"ok"} \cup Failures :
           /\ Call(answer)
           /\ thread' = IF Made(answer) THEN [thread EXCEPT !.message = Head(r.plan)] ELSE thread
           /\ Answered(answer, [r EXCEPT !.plan = Pop], [r EXCEPT !.plan = Pop, !.missed = TRUE])
    /\ UNCHANGED <<mode, turn, queue, link>>
-----------------------------------------------------------------------------
(* The events.                                                             *)

Then(plan) == [r EXCEPT !.plan = plan]
Again(steps) == [r EXCEPT !.plan = steps \o <<"next">>]

\* A task chunk follows the text that was said before it.
TaskChunk == IF mode.tasks /\ ~r.stopped THEN <<"flush", "chunk">> ELSE <<>>

\* showProgress(): the text of a step that ended in a tool call.
Progress ==
    IF mode.hold /\ r.step # <<>>
    THEN IF mode.tasks THEN TaskChunk ELSE <<"status">>
    ELSE <<>>

\* The turn parked: finish what streamed, then the files, then the prompt.
Ask == (IF r.started THEN Finish ELSE <<>>) \o <<"files", "prompt">>

\* What streamRender may do with an event.  A delta is flushed at once, or later.
Streamed(e) ==
    IF r.stopped THEN {Then(<<>>)} ELSE
    CASE e.type = "delta" /\ mode.hold -> {[Again(<<>>) EXCEPT !.step = @ \o e.text]}
      [] e.type = "delta" /\ ~mode.hold ->
             {[Again(flush) EXCEPT !.pending = @ \o e.text, !.streamed = TRUE,
                                   !.taken = @ \o e.text] :
                  flush \in IF r.started /\ (~r.ts \/ r.broken) THEN {<<>>}
                            ELSE IF r.started /\ Len(r.pending) + 1 < MdMax THEN {<<>>, <<"flush">>}
                            ELSE {<<"flush">>}}
      [] e.type = "requested" -> {[Again(Progress \o TaskChunk) EXCEPT !.step = <<>>]}
      [] e.type = "acted" -> {Again(TaskChunk)}
      [] e.type = "attached" -> {[Again(<<>>) EXCEPT !.files = TRUE]}
      [] e.type = "completed" -> {[Again(<<>>) EXCEPT !.final = e.text]}
      [] e.type = "failed" -> {[Then(Finish) EXCEPT !.pending = Pushed(Note)]}
      [] e.type = "cancelled" ->
             {IF r.started THEN [Then(Finish) EXCEPT !.pending = Pushed(Note)] ELSE Then(<<>>)}
      [] e.type = "parked" -> {Then(Ask)}

\* What renderOnce does with one: a failure throws.
Rendered(e) ==
    CASE e.type = "completed" -> {[Again(<<>>) EXCEPT !.final = e.text]}
      [] e.type = "attached" -> {[Again(<<>>) EXCEPT !.files = TRUE]}
      [] e.type = "failed" -> CatchClauses
      [] e.type = "cancelled" -> {Then(<<>>)}
      [] e.type = "parked" -> {Then(Ask)}
      [] OTHER -> {Again(<<>>)}

\* Mutant: a turn that failed is returned from.
ResumedSilently(e) ==
    CASE e.type = "completed" -> {[Again(<<>>) EXCEPT !.final = e.text]}
      [] e.type \in {"failed", "cancelled"} -> {Then(<<>>)}
      [] e.type = "parked" -> {Then(<<"files", "prompt", "awaiting">>)}
      [] OTHER -> {Again(<<>>)}

\* What resumeRender does with one: a cancelled turn is passed over.
Resumed(e) ==
    CASE e.type = "completed" -> {[Again(<<>>) EXCEPT !.final = e.text]}
      [] e.type = "attached" -> {[Again(<<>>) EXCEPT !.files = TRUE]}
      [] e.type = "failed" -> {Then(<<"failed">>)}
      [] e.type = "parked" -> {Then(<<"files", "prompt", "awaiting">>)}
      [] OTHER -> {Again(<<>>)}

Handle ==
    /\ Step("next") /\ queue # <<>>
    /\ queue' = Tail(queue)
    /\ r' \in CASE mode.kind = "stream" -> Streamed(Head(queue))
                [] mode.kind = "once" -> Rendered(Head(queue))
                [] OTHER -> Resumed(Head(queue))
    /\ UNCHANGED <<mode, turn, link, thread, spent>>

\* The events are over: a reply that did not stream goes out whole.
Text == IF r.streamed THEN <<>> ELSE r.final
Whole ==
    [r EXCEPT !.pending = IF r.stopped THEN @ ELSE @ \o Text, !.taken = @ \o Text,
              !.plan = (IF mode.kind = "once" THEN <<"post">>
                        ELSE IF r.started \/ Text # <<>> THEN Finish ELSE <<>>)
                       \o <<"files", "clear">>]

\* Mutant: only a terminal event, or an error, ends the events.
OverAtTerminal ==
    /\ Step("next") /\ queue = <<>>
    /\ \/ link = "cut" /\ r' = r
       \/ link = "dropped" /\ r' \in CatchClauses
       \/ /\ link = "up" /\ turn.state # "running"
          /\ r' = IF mode.kind = "resume" THEN Then(<<"outcome", "files">>) ELSE Whole
    /\ UNCHANGED <<mode, turn, queue, link, thread, spent>>

\* There are no more events: the end of the reply, whatever ended them.
Over ==
    /\ Step("next") /\ queue = <<>>
    /\ \/ link = "dropped" /\ r' \in CatchClauses
       \/ /\ link = "cut" \/ (link = "up" /\ turn.state # "running")
          /\ r' = IF mode.kind = "resume" THEN Then(<<"outcome", "files">>) ELSE Whole
    /\ UNCHANGED <<mode, turn, queue, link, thread, spent>>

CallSlack ==
    \/ ShowStatus \/ Wipe \/ ClearNow \/ SkipClear \/ Open \/ AppendText \/ Flushed \/ Chunk
    \/ StopStream \/ PostRest \/ Posted \/ Files \/ Prompt \/ Update

Render == Handle \/ Over \/ CallSlack
Turn == Say \/ CallTool \/ \E outcome \in Outcomes : End(outcome)
Rested == Done /\ turn.state # "running" /\ UNCHANGED replyVars

ReplyNext == Turn \/ Break \/ PressStop \/ Render \/ Rested

ReplySpec == ReplyInit /\ [][ReplyNext]_replyVars

\* A call to Slack is answered or fails, and the renderer, like the turn, goes on.
FairSpec == ReplySpec /\ WF_replyVars(Render) /\ WF_replyVars(\E outcome \in Outcomes : End(outcome))
-----------------------------------------------------------------------------
(* Properties.                                                             *)

\* Where a token first shows.
First(token) == CHOOSE i \in DOMAIN thread.shown :
                    thread.shown[i] = token /\ \A j \in 1..(i - 1) : thread.shown[j] # token

\* Nothing the renderer was given silently truncates: when it is done, and before it asks
\* for an approval, all of it shows, in order -- in the stream, or in the message that
\* salvages the rest of a stream that broke -- unless the reader stopped it or what
\* salvages it failed too.
NothingTruncates ==
    Done \/ thread.asked =>
        \/ r.stopped \/ r.gaveUp
        \/ /\ \A i \in DOMAIN r.taken : r.taken[i] \in Range(thread.shown)
           /\ \A i, j \in DOMAIN r.taken : i < j => First(r.taken[i]) < First(r.taken[j])

\* No token shows twice, whatever is refused, retried or salvaged, unless Slack made a call
\* whose answer was lost, or the prompt of a parked turn threw: its catch clause posts again
\* what was posted without a stream.
ShownOnce ==
    \/ r.lost \/ (turn.state = "parked" /\ r.caught /\ ~thread.asked)
    \/ \A i, j \in DOMAIN thread.shown :
                  thread.shown[i] = thread.shown[j] /\ thread.shown[i] # Note => i = j

\* "is thinking..." does not stay behind a renderer that is done, however it ended: it was
\* cleared by what was posted, or by hand, also when the turn failed or its events broke off.
\* A cancelled turn leaves it to its successor, and the answer of the call that was to clear
\* it, a post, an upload or a status call, is not looked at.
StatusCleared ==
    Done => ~thread.status \/ r.missed \/ turn.state = "cancelled"

\* A prompt whose answer was accepted does not stay on its buttons or on "Working...", unless
\* Slack refused an update, or the one of the catch clause threw.
PromptMovesOn ==
    Done /\ mode.kind = "resume" => thread.message \notin {"buttons", "working"} \/ r.missed

\* Nothing provisional stays behind a renderer that is done.
NothingLingers == StatusCleared /\ PromptMovesOn

\* A turn that parked either shows its buttons or is reported: "that must be loud (onError),
\* not a silently bricked approval" (channels.ts:566).
ParkIsAskable == Done /\ turn.state = "parked" => thread.asked \/ r.loud

\* Liveness: a renderer ends once its turn has ended or its stream of events has.
RenderEnds == turn.state # "running" \/ link # "up" ~> Done
=============================================================================
