----------------------------- MODULE SlackInbound -----------------------------
(***************************************************************************)
(* What reaches Slack's webhook (packages/core/src/channels.ts) and what   *)
(* becomes of it: events, which Slack delivers again until it sees a 2xx,  *)
(* and clicks on the buttons of an approval.  The webhook answers at once  *)
(* and works on in the background, in an isolate that may be recycled; the *)
(* turn runs on its host, which renders it itself when the channel is      *)
(* wired there (durableChannelSurface, agent-durable.ts), or else leaves   *)
(* that to the isolate.                                                    *)
(***************************************************************************)
EXTENDS Integers, Sequences, FiniteSets, SequencesExt

CONSTANTS
    Events, Isolates, Users,
    Approvers,      \* the users who may answer the approval
    Hosts,          \* hosts to consider: "delivers", "refuses" (501), "streams" (no runDelivered)
    Cap,            \* SLACK_SEEN_MAX
    Attempts,       \* how often Slack delivers an event that is not ACKed
    Arrivals,       \* bound: what arrives in one behaviour, sets of "events" and "clicks"
    MaxClicks,      \* bound: clicks
    MaxFailures,    \* bound: answers that are lost and callbacks that throw
    MaxRecycles     \* bound: isolates that are recycled

ASSUME SlackInboundAssumption ==
    /\ "click" \notin Events /\ Approvers \subseteq Users /\ Hosts \subseteq {"delivers", "refuses", "streams"}
    /\ Arrivals \subseteq SUBSET {"events", "clicks"} /\ Cap \in Nat \ {0} /\ Attempts \in Nat \ {0}
    /\ MaxClicks \in Nat /\ MaxFailures \in Nat /\ MaxRecycles \in Nat

VARIABLES
    host,           \* the turns' host; never changes
    slack,          \* for each event, how often it was sent and whether Slack saw a 2xx
    wire,           \* deliveries on their way to the webhook of an isolate
    seen,           \* the events each isolate has ACKed, oldest first
    tasks,          \* the background work of each delivery and each click
    turns,          \* for each delivery, the turn it started: "none", "running", "rendered"
    approval,       \* whether the parked turn was answered, and what its message shows
    evicted,        \* events an isolate has forgotten while Slack might deliver them again
    used            \* what the bounds count

vars == <<host, slack, wire, seen, tasks, turns, approval, evicted, used>>

Deliveries == Events \X (1..Attempts)
Clicks == {"click"} \X (1..MaxClicks)
Idle == [stage |-> "idle", isolate |-> "none", user |-> "nobody"]

Within(what, bound) == used[what] < bound /\ used' = [used EXCEPT ![what] = @ + 1]
Maybe(fails) == IF fails THEN Within("failures", MaxFailures) ELSE UNCHANGED used
-----------------------------------------------------------------------------
Init ==
    /\ host \in Hosts
    /\ \E arriving \in Arrivals :
           /\ slack = [e \in Events |-> [sent |-> IF "events" \in arriving THEN 0 ELSE Attempts,
                                        acked |-> FALSE]]
           /\ used = [clicks |-> IF "clicks" \in arriving THEN 0 ELSE MaxClicks,
                      failures |-> 0, recycles |-> 0]
    /\ wire = {}
    /\ seen = [i \in Isolates |-> <<>>]
    /\ tasks = [d \in Deliveries \cup Clicks |-> Idle]
    /\ turns = [d \in Deliveries |-> "none"]
    /\ approval = [answered |-> FALSE, renderer |-> "none", message |-> "buttons"]
    /\ evicted = {}

Goto(t, stage) == tasks' = [tasks EXCEPT ![t].stage = stage]
Started(i, u) == [stage |-> "ready", isolate |-> i, user |-> u]

(* Slack.                                                                  *)

\* An event is delivered, and again while no 2xx was seen, to any isolate.
Send(e, i) ==
    /\ ~slack[e].acked /\ slack[e].sent < Attempts
    /\ slack' = [slack EXCEPT ![e].sent = @ + 1]
    /\ wire' = wire \cup {[delivery |-> <<e, slack[e].sent + 1>>, isolate |-> i]}
    /\ UNCHANGED <<host, seen, tasks, turns, approval, evicted, used>>

\* Slack is through with an event: it will not be delivered again.
Settled(e) ==
    /\ slack[e].acked \/ slack[e].sent = Attempts
    /\ \A p \in wire : p.delivery[1] # e

\* A click, while the message has its buttons.
Click(c, u, i) ==
    /\ approval.message = "buttons" /\ c[2] = used.clicks + 1 /\ Within("clicks", MaxClicks)
    /\ tasks' = [tasks EXCEPT ![c] = Started(i, u)]
    /\ UNCHANGED <<host, slack, wire, seen, turns, approval, evicted>>
-----------------------------------------------------------------------------
(* The webhook.                                                            *)

\* slackRemember(): the event goes to the tail, and over the cap the oldest goes.
Remembered(i, e) ==
    LET all == Append(seen[i], e) IN
    IF Len(all) > Cap THEN Tail(all) ELSE all

\* The answer of the webhook: a 2xx ends the deliveries, if it comes back to Slack.
Ack(p, lost) ==
    /\ Maybe(lost)
    /\ slack' = IF lost THEN slack ELSE [slack EXCEPT ![p.delivery[1]].acked = TRUE]
    /\ wire' = wire \ {p}

\* An event this isolate has handled is ACKed and dropped.
Duplicate(p) ==
    /\ p \in wire /\ p.delivery[1] \in Range(seen[p.isolate])
    /\ \E lost \in BOOLEAN : Ack(p, lost)
    /\ UNCHANGED <<host, seen, tasks, turns, approval, evicted>>

\* Mutant: the event is recorded when it is checked.
AcceptThrowsRecorded(p) ==
    /\ p \in wire /\ p.delivery[1] \notin Range(seen[p.isolate])
    /\ Within("failures", MaxFailures)
    /\ wire' = wire \ {p}
    /\ seen' = [seen EXCEPT ![p.isolate] = Remembered(p.isolate, p.delivery[1])]
    /\ UNCHANGED <<host, slack, tasks, turns, approval, evicted>>

\* The app's accept() throws: the delivery is answered by an error, and not recorded.
AcceptThrows(p) ==
    /\ p \in wire /\ p.delivery[1] \notin Range(seen[p.isolate])
    /\ Within("failures", MaxFailures)
    /\ wire' = wire \ {p}
    /\ UNCHANGED <<host, slack, seen, tasks, turns, approval, evicted>>

\* Otherwise the event is dispatched to the background, recorded and ACKed, with nothing
\* awaited in between.
Dispatch(p) ==
    /\ p \in wire /\ p.delivery[1] \notin Range(seen[p.isolate])
    /\ LET e == p.delivery[1]
           i == p.isolate IN
       /\ tasks' = [tasks EXCEPT ![p.delivery] = Started(i, "nobody")]
       /\ seen' = [seen EXCEPT ![i] = Remembered(i, e)]
       /\ evicted' = evicted \cup {f \in Range(seen[i]) \ Range(seen'[i]) : ~Settled(f)}
       /\ \E lost \in BOOLEAN : Ack(p, lost)
    /\ UNCHANGED <<host, turns, approval>>

\* The TTL is longer than Slack's retries: an id expires once it is not delivered again.
Expire(i) ==
    /\ seen[i] # <<>> /\ Settled(Head(seen[i]))
    /\ seen' = [seen EXCEPT ![i] = Tail(@)]
    /\ UNCHANGED <<host, slack, wire, tasks, turns, approval, evicted, used>>

\* The isolate is recycled: what it remembers, what it works on and what it was to answer
\* go with it.
Recycle(i) ==
    /\ Within("recycles", MaxRecycles)
    /\ seen' = [seen EXCEPT ![i] = <<>>]
    /\ tasks' = [t \in DOMAIN tasks |->
                    IF tasks[t].stage # "idle" /\ tasks[t].isolate = i
                    THEN [tasks[t] EXCEPT !.stage = "killed"] ELSE tasks[t]]
    /\ wire' = {p \in wire : p.isolate # i}
    /\ approval' = [approval EXCEPT !.renderer = IF @ = i THEN "none" ELSE @]
    /\ evicted' = evicted \cup {e \in Range(seen[i]) : ~Settled(e)}
    /\ UNCHANGED <<host, slack, turns>>
-----------------------------------------------------------------------------
(* The background work of an event.                                        *)

\* respondWhen() says no, or throws, which counts as a no.
Decline(d) ==
    /\ tasks[d].stage = "ready"
    /\ Goto(d, "done")
    /\ UNCHANGED <<host, slack, wire, seen, turns, approval, evicted, used>>

\* Mutant: whatever runDelivered() throws, the turn is streamed instead.
DeliverOrStream(d) ==
    /\ tasks[d].stage = "ready" /\ host = "delivers"
    /\ \E lost, started \in BOOLEAN :
           /\ Maybe(lost) /\ (started \/ lost)
           /\ turns' = IF started THEN [turns EXCEPT ![d] = "running"] ELSE turns
           /\ Goto(d, IF lost THEN "fallback" ELSE "done")
    /\ UNCHANGED <<host, slack, wire, seen, approval, evicted>>

\* runDelivered(): the host starts the turn and renders it.  When the answer is lost the
\* turn may run or not, and is not run again.
Deliver(d) ==
    /\ tasks[d].stage = "ready" /\ host = "delivers"
    /\ \E lost, started \in BOOLEAN :
           /\ Maybe(lost) /\ (started \/ lost)
           /\ turns' = IF started THEN [turns EXCEPT ![d] = "running"] ELSE turns
           /\ Goto(d, "done")
    /\ UNCHANGED <<host, slack, wire, seen, approval, evicted>>

\* A host that cannot deliver says so before it starts the turn: the isolate streams it.
Refuse(d) ==
    /\ tasks[d].stage = "ready" /\ host = "refuses"
    /\ Goto(d, "fallback")
    /\ UNCHANGED <<host, slack, wire, seen, turns, approval, evicted, used>>

\* runStream(): the turn starts on its host and the isolate renders it.
Stream(d) ==
    /\ tasks[d].stage = "fallback" \/ (tasks[d].stage = "ready" /\ host = "streams")
    /\ \E lost, started \in BOOLEAN :
           /\ Maybe(lost) /\ (started \/ lost)
           /\ turns' = IF started THEN [turns EXCEPT ![d] = IF @ = "none" THEN "running" ELSE "twice"]
                       ELSE turns
           /\ Goto(d, IF lost THEN "done" ELSE "rendering")
    /\ UNCHANGED <<host, slack, wire, seen, approval, evicted>>

\* The reply is rendered, by the host or by the isolate.
RenderReply(d) ==
    /\ turns[d] = "running" /\ (host = "delivers" \/ tasks[d].stage = "rendering")
    /\ turns' = [turns EXCEPT ![d] = "rendered"]
    /\ tasks' = [tasks EXCEPT ![d].stage = IF @ = "rendering" THEN "done" ELSE @]
    /\ UNCHANGED <<host, slack, wire, seen, approval, evicted, used>>
-----------------------------------------------------------------------------
(* The background work of a click.                                         *)

\* The host applies an answer once, and only an approver's.
Applies(c) == tasks[c].user \in Approvers /\ ~approval.answered

\* resumeDelivered(): the host applies the answer and renders what follows.  A rejection
\* tells the clicker and leaves the message alone; a host whose answer is lost renders all
\* the same.
ResumeDelivered(c) ==
    /\ tasks[c].stage = "ready" /\ host = "delivers"
    /\ approval' = IF Applies(c) THEN [approval EXCEPT !.answered = TRUE, !.renderer = "host"] ELSE approval
    /\ Goto(c, "done")
    /\ UNCHANGED <<host, slack, wire, seen, turns, evicted, used>>

RefuseResume(c) ==
    /\ tasks[c].stage = "ready" /\ host = "refuses"
    /\ Goto(c, "fallback")
    /\ UNCHANGED <<host, slack, wire, seen, turns, approval, evicted, used>>

\* Mutant: the message is touched before the first event is pulled.
UpdateThenResume(c) ==
    /\ tasks[c].stage = "fallback" \/ (tasks[c].stage = "ready" /\ host = "streams")
    /\ approval' = [approval EXCEPT !.answered = @ \/ Applies(c), !.message = "working",
                                    !.renderer = IF Applies(c) THEN tasks[c].isolate ELSE @]
    /\ Goto(c, "done")
    /\ UNCHANGED <<host, slack, wire, seen, turns, evicted, used>>

\* resumeStream(): the first event is pulled before the message is touched, and a
\* rejection comes instead of it.  Then the isolate renders, unless the host applied the
\* answer and the first event was lost on its way.
ResumeStream(c) ==
    /\ tasks[c].stage = "fallback" \/ (tasks[c].stage = "ready" /\ host = "streams")
    /\ \E lost \in BOOLEAN :
           /\ Maybe(lost) /\ (lost => Applies(c))
           /\ approval' = IF ~Applies(c) THEN approval
                          ELSE [approval EXCEPT !.answered = TRUE,
                                                !.renderer = IF lost THEN @ ELSE tasks[c].isolate]
    /\ Goto(c, "done")
    /\ UNCHANGED <<host, slack, wire, seen, turns, evicted>>

\* resumeRender(), by the host or the isolate: progress, then the outcome.
RenderResume ==
    /\ approval.renderer # "none" /\ approval.message \in {"buttons", "working"}
    /\ approval' = [approval EXCEPT !.message = IF @ = "buttons" THEN "working" ELSE "outcome"]
    /\ UNCHANGED <<host, slack, wire, seen, tasks, turns, evicted, used>>
-----------------------------------------------------------------------------
Webhook(p) == Duplicate(p) \/ AcceptThrows(p) \/ Dispatch(p)
Reply(d) == Deliver(d) \/ Refuse(d) \/ Stream(d) \/ RenderReply(d)
Answer(c) == ResumeDelivered(c) \/ RefuseResume(c) \/ ResumeStream(c)

\* Nothing is on its way or under way.
Quiet == wire = {} /\ \A t \in DOMAIN tasks : tasks[t].stage \in {"idle", "done", "killed"}
Rest == Quiet /\ UNCHANGED vars

Next ==
    \/ \E e \in Events, i \in Isolates : Send(e, i)
    \/ \E c \in Clicks, u \in Users, i \in Isolates : Click(c, u, i)
    \/ \E p \in wire : Webhook(p)
    \/ \E i \in Isolates : Expire(i) \/ Recycle(i)
    \/ \E d \in Deliveries : Decline(d) \/ Reply(d)
    \/ \E c \in Clicks : Answer(c)
    \/ RenderResume
    \/ Rest

Spec == Init /\ [][Next]_vars
-----------------------------------------------------------------------------
(* Properties.                                                             *)

\* The work of two deliveries of one event is never done in one isolate, however late,
\* often or in whatever order they come, unless the isolate was recycled or forgot the
\* event under its cap.
OncePerIsolate ==
    \A e \in Events \ evicted : \A m, n \in 1..Attempts :
        LET a == tasks[<<e, m>>]
            b == tasks[<<e, n>>] IN
        a # Idle /\ b # Idle /\ a.isolate = b.isolate => m = n

\* The work of a delivery starts one turn at most, also when the host refuses to deliver it
\* or its answer is lost ("re-running it here would double-post").
OneTurnPerDelivery == \A d \in Deliveries : turns[d] # "twice"

\* What Slack delivers is handled once: per isolate and per delivery ("handling the
\* redelivery again ran a second turn and posted a duplicate answer").
HandledOnce == OncePerIsolate /\ OneTurnPerDelivery

\* An event that Slack saw a 2xx for was dispatched: "a delivery that failed before its ACK
\* is retried and handled, never dropped".
NeverDropped ==
    \A e \in Events : slack[e].acked => \E n \in 1..Attempts : tasks[<<e, n>>] # Idle

\* A click that is refused -- not by an approver, or after another one -- leaves the
\* buttons alone: they go only once an answer was applied.
RefusalKeepsButtons == approval.message # "buttons" => approval.answered
=============================================================================
