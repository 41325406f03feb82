----------------------------- MODULE SlackProofs -----------------------------
(***************************************************************************)
(* Theorems about SlackInbound and SlackReply, for every value of their    *)
(* constants.                                                              *)
(***************************************************************************)
EXTENDS SlackInbound, SlackReply, SequenceTheorems, WellFoundedInduction, TLAPS

Stages == {"idle", "ready", "fallback", "rendering", "done", "killed"}
Task == [stage : Stages, isolate : Isolates \cup {"none"}, user : Users \cup {"nobody"}]
Works == Deliveries \cup Clicks

TypeInv ==
    /\ slack \in [Events -> [sent : 0..Attempts, acked : BOOLEAN]]
    /\ wire \subseteq [delivery : Deliveries, isolate : Isolates]
    /\ seen \in [Isolates -> Seq(Events)]
    /\ tasks \in [Works -> Task]
    /\ turns \in [Deliveries -> {"none", "running", "rendered", "twice"}]
    /\ approval \in [answered : BOOLEAN, renderer : Isolates \cup {"none", "host"},
                     message : {"buttons", "working", "outcome"}]
    /\ evicted \subseteq Events

\* A delivery is made once, and is on its way or in an isolate's hands, not both.
WireInv ==
    /\ \A t \in Works : tasks[t].stage = "idle" => tasks[t] = Idle
    /\ \A p \in wire : tasks[p.delivery] = Idle /\ p.delivery[2] <= slack[p.delivery[1]].sent
    /\ \A p, q \in wire : p.delivery = q.delivery => p = q
    /\ \A d \in Deliveries : tasks[d] # Idle => d[2] <= slack[d[1]].sent

\* An isolate that works on an event remembers it, for as long as it may come again.
Remembers(i, e) == e \in Range(seen[i])
Worked(e, n, i) == tasks[<<e, n>>] # Idle /\ tasks[<<e, n>>].isolate = i

SeenInv ==
    /\ \A e \in Events \ evicted, n \in 1..Attempts, i \in Isolates :
           Worked(e, n, i) => Remembers(i, e) \/ Settled(e)
    /\ \A e \in Events, i \in Isolates :
           Remembers(i, e) => \E n \in 1..Attempts : tasks[<<e, n>>] # Idle
    /\ \A e \in Events, n \in 1..Attempts : tasks[<<e, n>>].isolate \in Isolates \/ tasks[<<e, n>>] = Idle

\* A turn runs once its work has gone past the places that start one.
TurnInv ==
    \A d \in Deliveries : turns[d] # "twice" /\ (turns[d] # "none" => tasks[d].stage \in {"rendering", "done", "killed"})

\* Whoever renders what follows an answer was given it.
ApprovalInv ==
    /\ approval.renderer # "none" => approval.answered
    /\ approval.message # "buttons" => approval.answered

InboundInv ==
    /\ TypeInv /\ WireInv /\ SeenInv /\ TurnInv /\ ApprovalInv
    /\ OncePerIsolate /\ NeverDropped
-----------------------------------------------------------------------------
(* What an isolate remembers.                                              *)

\* The event comes in last, and only the oldest goes.
LEMMA AppendKeeps ==
    ASSUME NEW s \in Seq(Events), NEW e \in Events
    PROVE  /\ Append(s, e) \in Seq(Events) /\ Len(Append(s, e)) = Len(s) + 1 /\ Len(s) \in Nat
           /\ Append(s, e) # <<>>
           /\ e = Append(s, e)[Len(s) + 1] /\ e \in Range(Append(s, e))
           /\ Range(Append(s, e)) \subseteq Range(s) \cup {e}
<1>1. /\ Append(s, e) \in Seq(Events) /\ Len(Append(s, e)) = Len(s) + 1 /\ Len(s) \in Nat
      /\ Append(s, e)[Len(s) + 1] = e
      /\ \A i \in 1..Len(s) : Append(s, e)[i] = s[i]
      /\ DOMAIN Append(s, e) = 1..Len(s) + 1 /\ DOMAIN s = 1..Len(s)
  BY AppendProperties, LenProperties
<1>2. Append(s, e) # <<>>
  BY <1>1, EmptySeq
<1>3. Len(s) + 1 \in DOMAIN Append(s, e)
  BY <1>1
<1>4. ASSUME NEW i \in DOMAIN Append(s, e) PROVE Append(s, e)[i] \in Range(s) \cup {e}
  <2>1. CASE i = Len(s) + 1
    BY <1>1, <2>1
  <2>2. CASE i # Len(s) + 1
    <3>1. i \in 1..Len(s)
      BY <1>1, <2>2
    <3> QED
      BY <1>1, <3>1 DEF Range
  <2> QED
    BY <2>1, <2>2
<1> QED
  BY <1>1, <1>2, <1>3, <1>4 DEF Range

LEMMA TailKeeps ==
    ASSUME NEW s \in Seq(Events), s # <<>>
    PROVE  /\ Tail(s) \in Seq(Events)
           /\ Range(Tail(s)) \subseteq Range(s)
           /\ Range(s) \subseteq Range(Tail(s)) \cup {Head(s)}
           /\ Head(s) = s[1] /\ Len(s) \in Nat \ {0}
           /\ \A i \in 2..Len(s) : s[i] \in Range(Tail(s))
<1>1. /\ Tail(s) \in Seq(Events) /\ Len(Tail(s)) = Len(s) - 1 /\ Head(s) = s[1]
      /\ \A i \in 1..Len(Tail(s)) : Tail(s)[i] = s[i + 1]
      /\ Len(s) \in Nat \ {0}
  BY HeadTailProperties, EmptySeq
<1>2. DOMAIN s = 1..Len(s) /\ DOMAIN Tail(s) = 1..Len(Tail(s))
  BY <1>1, LenProperties
<1>3. ASSUME NEW i \in 2..Len(s) PROVE s[i] \in Range(Tail(s))
  <2>1. i - 1 \in DOMAIN Tail(s) /\ Tail(s)[i - 1] = s[(i - 1) + 1] /\ (i - 1) + 1 = i
    BY <1>1, <1>2
  <2> QED
    BY <2>1 DEF Range
<1>4. ASSUME NEW i \in DOMAIN Tail(s) PROVE Tail(s)[i] \in Range(s)
  <2>1. i + 1 \in DOMAIN s /\ Tail(s)[i] = s[i + 1]
    BY <1>1, <1>2
  <2> QED
    BY <2>1 DEF Range
<1>5. ASSUME NEW i \in DOMAIN s PROVE s[i] \in Range(Tail(s)) \cup {Head(s)}
  <2>1. i = 1 \/ i \in 2..Len(s)
    BY <1>1, <1>2
  <2> QED
    BY <1>1, <1>3, <2>1
<1> QED
  BY <1>1, <1>3, <1>4, <1>5 DEF Range

LEMMA RememberedDoes ==
    ASSUME TypeInv, NEW i \in Isolates, NEW e \in Events
    PROVE  /\ Remembered(i, e) \in Seq(Events)
           /\ e \in Range(Remembered(i, e))
           /\ Range(Remembered(i, e)) \subseteq Range(seen[i]) \cup {e}
<1>1. PICK s \in Seq(Events) : s = seen[i]
  BY DEF TypeInv
<1>2. PICK all \in Seq(Events) : /\ all = Append(s, e) /\ Len(all) = Len(s) + 1 /\ Len(s) \in Nat
                                /\ all # <<>> /\ e = all[Len(s) + 1] /\ e \in Range(all)
                                /\ Range(all) \subseteq Range(s) \cup {e}
  BY AppendKeeps
<1>3. Remembered(i, e) = IF Len(all) > Cap THEN Tail(all) ELSE all
  BY <1>1, <1>2 DEF Remembered
<1>4. CASE Len(all) > Cap
  <2>1. Len(s) + 1 \in 2..Len(all)
    BY <1>2, <1>4, SlackInboundAssumption
  <2>2. /\ Tail(all) \in Seq(Events) /\ Range(Tail(all)) \subseteq Range(all)
        /\ \A k \in 2..Len(all) : all[k] \in Range(Tail(all))
    BY <1>2, TailKeeps
  <2> QED
    BY <1>1, <1>2, <1>3, <1>4, <2>1, <2>2
<1>5. CASE ~(Len(all) > Cap)
  BY <1>1, <1>2, <1>3, <1>5
<1> QED
  BY <1>4, <1>5
-----------------------------------------------------------------------------
(* What the updates of the tasks do.                                       *)

LEMMA TaskUpdate ==
    ASSUME tasks \in [Works -> Task], NEW t \in Works, NEW task \in Task,
           tasks' = [tasks EXCEPT ![t] = task]
    PROVE  /\ tasks' \in [Works -> Task] /\ tasks'[t] = task
           /\ \A u \in Works \ {t} : tasks'[u] = tasks[u]
  OBVIOUS

LEMMA GotoDoes ==
    ASSUME tasks \in [Works -> Task], NEW t \in Works, NEW stage \in Stages \ {"idle"}, Goto(t, stage)
    PROVE  /\ tasks' \in [Works -> Task] /\ tasks'[t].stage = stage /\ tasks'[t].isolate = tasks[t].isolate
           /\ tasks'[t] # Idle
           /\ \A u \in Works \ {t} : tasks'[u] = tasks[u]
<1>1. PICK task : task = [tasks[t] EXCEPT !.stage = stage]
  OBVIOUS
<1>2. task \in Task /\ task.stage = stage /\ task.isolate = tasks[t].isolate
  BY <1>1 DEF Task
<1>3. tasks' = [tasks EXCEPT ![t] = task]
  BY <1>1 DEF Goto
<1>4. tasks'[t] = task
  BY <1>2, <1>3, TaskUpdate
<1>5. task # Idle
  BY <1>2 DEF Idle
<1> QED
  BY <1>2, <1>3, <1>4, <1>5, TaskUpdate

\* Whoever works on an event goes on to, and does not start another.
KeepsWork ==
    \A d \in Deliveries : /\ tasks'[d] = Idle <=> tasks[d] = Idle
                          /\ tasks'[d].isolate = tasks[d].isolate
KeepsMail == UNCHANGED <<slack, wire, seen, evicted>>

LEMMA DeliveriesAreNotClicks == \A d \in Deliveries, c \in Clicks : d # c
<1>1. \A d \in Deliveries : d[1] \in Events
  BY DEF Deliveries
<1>2. \A c \in Clicks : c[1] = "click"
  BY DEF Clicks
<1> QED
  BY <1>1, <1>2, SlackInboundAssumption

\* A task that has begun stays begun.
LEMMA WorkGoesOn ==
    ASSUME TypeInv, WireInv, NEW t \in Works, NEW stage \in Stages \ {"idle"},
           tasks[t].stage # "idle", Goto(t, stage)
    PROVE  /\ tasks' \in [Works -> Task] /\ KeepsWork
           /\ tasks'[t].stage = stage /\ \A u \in Works \ {t} : tasks'[u] = tasks[u]
           /\ \A u \in Works : tasks'[u].stage = "idle" => tasks'[u] = Idle
<1>1. /\ tasks' \in [Works -> Task] /\ tasks'[t].stage = stage /\ tasks'[t].isolate = tasks[t].isolate
      /\ tasks'[t] # Idle
      /\ \A u \in Works \ {t} : tasks'[u] = tasks[u]
  BY GotoDoes DEF TypeInv
<1>2. tasks[t] # Idle
  BY DEF Idle
<1>3. \A u \in Works : tasks'[u].stage = "idle" => tasks'[u] = Idle
  BY <1>1 DEF WireInv
<1>4. Deliveries \subseteq Works
  BY DEF Works
<1> QED
  BY <1>1, <1>2, <1>3, <1>4 DEF KeepsWork

\* The work of a delivery or a click, once it is in an isolate.
LEMMA ReplyDoes ==
    ASSUME TypeInv, WireInv, TurnInv, NEW d \in Deliveries, Decline(d) \/ Reply(d)
    PROVE  /\ tasks' \in [Works -> Task] /\ KeepsWork /\ KeepsMail
           /\ \A u \in Works : tasks'[u].stage = "idle" => tasks'[u] = Idle
           /\ turns' \in [Deliveries -> {"none", "running", "rendered", "twice"}]
           /\ approval' = approval /\ TurnInv'
<1>0. d \in Works /\ Deliveries \subseteq Works
  BY DEF Works
<1>t. turns \in [Deliveries -> {"none", "running", "rendered", "twice"}]
  BY DEF TypeInv
<1>k. tasks[d].stage \in {"ready", "fallback", "idle"} => turns[d] = "none"
  BY DEF TurnInv
<1>1. PICK stage \in Stages \ {"idle"} :
          /\ Goto(d, stage) /\ tasks[d].stage # "idle" /\ KeepsMail /\ approval' = approval
          /\ \/ turns' = turns /\ (turns[d] = "none" \/ stage \in {"rendering", "done", "killed"})
             \/ /\ turns' = [turns EXCEPT ![d] = "running"] \/ turns' = [turns EXCEPT ![d] = "rendered"]
                /\ stage \in {"rendering", "done", "killed"}
  <2>1. CASE Decline(d)
    BY <2>1 DEF Decline, KeepsMail, Stages
  <2>2. CASE Deliver(d)
    <3>1. PICK lost, started \in BOOLEAN : turns' = IF started THEN [turns EXCEPT ![d] = "running"] ELSE turns
      BY <2>2 DEF Deliver
    <3>2. "done" \in Stages \ {"idle"} /\ Goto(d, "done") /\ tasks[d].stage # "idle" /\ KeepsMail /\ approval' = approval
      BY <2>2 DEF Deliver, KeepsMail, Stages
    <3> QED
      BY <3>1, <3>2
  <2>3. CASE Refuse(d)
    <3>1. /\ "fallback" \in Stages \ {"idle"} /\ Goto(d, "fallback") /\ tasks[d].stage = "ready"
          /\ KeepsMail /\ approval' = approval /\ turns' = turns
      BY <2>3 DEF Refuse, KeepsMail, Stages
    <3> QED
      BY <1>k, <3>1
  <2>4. CASE Stream(d)
    <3>1. PICK lost, started \in BOOLEAN :
              /\ turns' = IF started THEN [turns EXCEPT ![d] = IF @ = "none" THEN "running" ELSE "twice"] ELSE turns
              /\ Goto(d, IF lost THEN "done" ELSE "rendering")
      BY <2>4 DEF Stream
    <3>2. turns[d] = "none" /\ tasks[d].stage # "idle" /\ KeepsMail /\ approval' = approval
      BY <1>k, <2>4 DEF Stream, KeepsMail
    <3>3. turns' = IF started THEN [turns EXCEPT ![d] = "running"] ELSE turns
      BY <1>t, <3>1, <3>2
    <3>4. PICK stage \in {"done", "rendering"} : Goto(d, stage)
      BY <3>1
    <3>5. stage \in Stages \ {"idle"}
      BY <3>4 DEF Stages
    <3> QED
      BY <3>2, <3>3, <3>4, <3>5
  <2>5. CASE RenderReply(d)
    <3>1. tasks[d].stage \in {"rendering", "done", "killed"}
      BY <2>5 DEF RenderReply, TurnInv
    <3>2. PICK stage \in {"done", "killed"} : stage = IF tasks[d].stage = "rendering" THEN "done" ELSE tasks[d].stage
      BY <3>1
    <3>3. Goto(d, stage)
      BY <2>5, <3>2 DEF RenderReply, Goto
    <3>4. turns' = [turns EXCEPT ![d] = "rendered"] /\ KeepsMail /\ approval' = approval
      BY <2>5 DEF RenderReply, KeepsMail
    <3>5. stage \in Stages \ {"idle"}
      BY <3>2 DEF Stages
    <3> QED
      BY <3>1, <3>2, <3>3, <3>4, <3>5
  <2> QED
    BY <2>1, <2>2, <2>3, <2>4, <2>5 DEF Reply
<1>2. /\ tasks' \in [Works -> Task] /\ KeepsWork
      /\ tasks'[d].stage = stage /\ \A u \in Works \ {d} : tasks'[u] = tasks[u]
      /\ \A u \in Works : tasks'[u].stage = "idle" => tasks'[u] = Idle
  BY <1>0, <1>1, WorkGoesOn
<1>3. turns' \in [Deliveries -> {"none", "running", "rendered", "twice"}]
  BY <1>t, <1>1
<1>4. TurnInv'
  <2> SUFFICES ASSUME NEW x \in Deliveries
               PROVE  turns'[x] # "twice" /\ (turns'[x] # "none" => tasks'[x].stage \in {"rendering", "done", "killed"})
    BY DEF TurnInv
  <2>1. CASE x = d
    BY <1>t, <1>1, <1>2, <2>1 DEF TurnInv
  <2>2. CASE x # d
    BY <1>0, <1>t, <1>1, <1>2, <2>2 DEF TurnInv
  <2> QED
    BY <2>1, <2>2
<1> QED
  BY <1>1, <1>2, <1>3, <1>4

LEMMA AnswerDoes ==
    ASSUME TypeInv, WireInv, TurnInv, ApprovalInv, NEW c \in Clicks,
           Answer(c) \/ \E u \in Users, i \in Isolates : Click(c, u, i)
    PROVE  /\ tasks' \in [Works -> Task] /\ KeepsWork /\ KeepsMail
           /\ \A u \in Works : tasks'[u].stage = "idle" => tasks'[u] = Idle
           /\ turns' = turns /\ TurnInv'
           /\ approval' \in [answered : BOOLEAN, renderer : Isolates \cup {"none", "host"},
                             message : {"buttons", "working", "outcome"}]
           /\ ApprovalInv'
<1>0. c \in Works /\ Deliveries \subseteq Works /\ \A d \in Deliveries : d # c
  BY DeliveriesAreNotClicks DEF Works
<1>a. /\ approval \in [answered : BOOLEAN, renderer : Isolates \cup {"none", "host"},
                        message : {"buttons", "working", "outcome"}]
      /\ tasks \in [Works -> Task]
  BY DEF TypeInv
<1>1. ASSUME Answer(c)
      PROVE  \E stage \in Stages \ {"idle"} :
                 Goto(c, stage) /\ tasks[c].stage # "idle" /\ KeepsMail /\ turns' = turns
  BY <1>1 DEF Answer, ResumeDelivered, RefuseResume, ResumeStream, KeepsMail, Stages
<1>2. /\ tasks' \in [Works -> Task] /\ KeepsWork /\ KeepsMail
      /\ \A u \in Works : tasks'[u].stage = "idle" => tasks'[u] = Idle
      /\ turns' = turns /\ \A d \in Deliveries : tasks'[d] = tasks[d]
  <2>1. CASE Answer(c)
    <3>1. PICK stage \in Stages \ {"idle"} : Goto(c, stage) /\ tasks[c].stage # "idle" /\ KeepsMail /\ turns' = turns
      BY <1>1, <2>1
    <3>2. /\ tasks' \in [Works -> Task] /\ KeepsWork
          /\ tasks'[c].stage = stage /\ \A u \in Works \ {c} : tasks'[u] = tasks[u]
          /\ \A u \in Works : tasks'[u].stage = "idle" => tasks'[u] = Idle
      BY <1>0, <3>1, WorkGoesOn
    <3> QED
      BY <1>0, <3>1, <3>2
  <2>2. CASE \E u \in Users, i \in Isolates : Click(c, u, i)
    <3>1. PICK u \in Users, i \in Isolates : Click(c, u, i)
      BY <2>2
    <3>2. PICK task : task = Started(i, u)
      OBVIOUS
    <3>3. task \in Task /\ task.stage # "idle"
      BY <3>2 DEF Task, Started, Stages
    <3>4. tasks' = [tasks EXCEPT ![c] = task] /\ KeepsMail /\ turns' = turns
      BY <3>1, <3>2 DEF Click, KeepsMail
    <3>5. tasks' \in [Works -> Task] /\ tasks'[c] = task /\ \A x \in Works \ {c} : tasks'[x] = tasks[x]
      BY <1>0, <1>a, <3>3, <3>4, TaskUpdate
    <3>6. \A x \in Works : tasks'[x].stage = "idle" => tasks'[x] = Idle
      BY <3>3, <3>5 DEF WireInv
    <3>7. \A d \in Deliveries : tasks'[d] = tasks[d]
      BY <1>0, <3>5
    <3> QED
      BY <3>4, <3>5, <3>6, <3>7 DEF KeepsWork
  <2> QED
    BY <2>1, <2>2
<1>3. TurnInv'
  BY <1>2 DEF TurnInv
<1>4. /\ approval' \in [answered : BOOLEAN, renderer : Isolates \cup {"none", "host"},
                         message : {"buttons", "working", "outcome"}]
      /\ ApprovalInv'
  <2>1. CASE approval' = approval
    BY <1>a, <2>1 DEF ApprovalInv
  <2>2. CASE \E renderer \in Isolates \cup {"none", "host"} :
                 approval' = [approval EXCEPT !.answered = TRUE, !.renderer = renderer]
    BY <1>a, <2>2 DEF ApprovalInv
  <2>3. CASE Answer(c)
    <3>1. tasks[c].isolate \in Isolates \cup {"none", "host"} /\ approval.renderer \in Isolates \cup {"none", "host"}
      BY <1>0, <1>a DEF Task
    <3>2. CASE ResumeDelivered(c) \/ RefuseResume(c)
      BY <2>1, <2>2, <3>2 DEF ResumeDelivered, RefuseResume
    <3>3. CASE ResumeStream(c)
      <4>1. PICK lost \in BOOLEAN :
                approval' = IF ~Applies(c) THEN approval
                            ELSE [approval EXCEPT !.answered = TRUE,
                                                  !.renderer = IF lost THEN @ ELSE tasks[c].isolate]
        BY <3>3 DEF ResumeStream
      <4>2. CASE ~Applies(c)
        BY <2>1, <4>1, <4>2
      <4>3. CASE Applies(c)
        <5>1. PICK renderer \in Isolates \cup {"none", "host"} :
                  renderer = IF lost THEN approval.renderer ELSE tasks[c].isolate
          BY <3>1
        <5>2. approval' = [approval EXCEPT !.answered = TRUE, !.renderer = renderer]
          BY <4>1, <4>3, <5>1
        <5> QED
          BY <2>2, <5>1, <5>2
      <4> QED
        BY <4>2, <4>3
    <3> QED
      BY <2>3, <3>2, <3>3 DEF Answer
  <2>4. CASE \E u \in Users, i \in Isolates : Click(c, u, i)
    BY <2>1, <2>4 DEF Click
  <2> QED
    BY <2>3, <2>4
<1> QED
  BY <1>2, <1>3, <1>4
-----------------------------------------------------------------------------
(* The mail: events on their way, and what is remembered of them.          *)

MailInv == WireInv /\ SeenInv /\ OncePerIsolate /\ NeverDropped
MailTypes ==
    /\ slack \in [Events -> [sent : 0..Attempts, acked : BOOLEAN]]
    /\ wire \subseteq [delivery : Deliveries, isolate : Isolates]
    /\ seen \in [Isolates -> Seq(Events)]
    /\ evicted \subseteq Events

LEMMA DeliveryParts ==
    /\ Attempts \in Nat \ {0}
    /\ \A d \in Deliveries : d[1] \in Events /\ d[2] \in 1..Attempts /\ d = <<d[1], d[2]>>
    /\ \A e \in Events, n \in 1..Attempts : <<e, n>> \in Deliveries
  BY SlackInboundAssumption DEF Deliveries

\* No new copy of an event that Slack is through with.
Dwindles == wire' \subseteq wire /\ \A e \in Events : slack'[e].sent = slack[e].sent /\ (slack[e].acked => slack'[e].acked)

LEMMA SettledStays ==
    ASSUME Dwindles, NEW e \in Events, Settled(e)
    PROVE  Settled(e)'
  BY DEF Dwindles, Settled

LEMMA AckDoes ==
    ASSUME TypeInv, NEW p \in wire, NEW lost \in BOOLEAN, Ack(p, lost)
    PROVE  /\ slack' \in [Events -> [sent : 0..Attempts, acked : BOOLEAN]]
           /\ wire' = wire \ {p} /\ Dwindles
           /\ p.delivery \in Deliveries /\ p.delivery[1] \in Events /\ p.isolate \in Isolates
           /\ \A e \in Events : slack'[e].acked => slack[e].acked \/ e = p.delivery[1]
<1>1. p.delivery \in Deliveries /\ p.delivery[1] \in Events /\ p.isolate \in Isolates
  BY DeliveryParts DEF TypeInv
<1>2. slack \in [Events -> [sent : 0..Attempts, acked : BOOLEAN]]
  BY DEF TypeInv
<1>3. CASE lost
  BY <1>1, <1>2, <1>3 DEF Ack, Dwindles
<1>4. CASE ~lost
  <2>1. PICK e \in Events : e = p.delivery[1]
    BY <1>1
  <2>2. slack' = [slack EXCEPT ![e].acked = TRUE] /\ wire' = wire \ {p}
    BY <1>4, <2>1 DEF Ack
  <2>3. /\ slack' \in [Events -> [sent : 0..Attempts, acked : BOOLEAN]]
        /\ slack'[e].sent = slack[e].sent /\ slack'[e].acked
        /\ \A f \in Events \ {e} : slack'[f] = slack[f]
    BY <1>2, <2>2
  <2> QED
    BY <1>1, <2>1, <2>2, <2>3 DEF Dwindles
<1> QED
  BY <1>3, <1>4

\* The parts that speak of what is remembered hold as long as nothing new is taken in
\* and what may come again is not forgotten.
LEMMA NothingTakenIn ==
    ASSUME TypeInv, MailInv, Dwindles, KeepsWork, evicted \subseteq evicted', evicted' \subseteq Events,
           \A i \in Isolates, e \in Events :
               /\ e \in Range(seen'[i]) => Remembers(i, e)
               /\ Remembers(i, e) => e \in Range(seen'[i]) \/ Settled(e) \/ e \in evicted',
           \A e \in Events : slack'[e].acked => slack[e].acked \/ \E i \in Isolates : Remembers(i, e),
           \A u \in Works : tasks'[u].stage = "idle" => tasks'[u] = Idle
    PROVE  MailInv'
<1>w. WireInv'
  <2>1. \A p \in wire' : p \in wire /\ p.delivery \in Deliveries /\ p.delivery[1] \in Events
    BY DeliveryParts DEF TypeInv, Dwindles
  <2>2. \A d \in Deliveries : d[1] \in Events
    BY DeliveryParts
  <2>3. \A p \in wire' : tasks'[p.delivery] = Idle /\ p.delivery[2] <= slack'[p.delivery[1]].sent
    BY <2>1 DEF MailInv, WireInv, Dwindles, KeepsWork
  <2>4. \A p, q \in wire' : p.delivery = q.delivery => p = q
    BY <2>1 DEF MailInv, WireInv
  <2>5. \A d \in Deliveries : tasks'[d] # Idle => d[2] <= slack'[d[1]].sent
    BY <2>2 DEF MailInv, WireInv, Dwindles, KeepsWork
  <2> QED
    BY <2>3, <2>4, <2>5 DEF WireInv
<1>k. \A e \in Events, n \in 1..Attempts :
          /\ tasks'[<<e, n>>] = Idle <=> tasks[<<e, n>>] = Idle
          /\ tasks'[<<e, n>>].isolate = tasks[<<e, n>>].isolate
  BY DeliveryParts DEF KeepsWork
<1>s. SeenInv'
  <2>1. ASSUME NEW e \in Events, e \notin evicted', NEW n \in 1..Attempts, NEW i \in Isolates, Worked(e, n, i)'
        PROVE  (Remembers(i, e) \/ Settled(e))'
    <3>1. Worked(e, n, i) /\ e \notin evicted
      BY <1>k, <2>1 DEF Worked
    <3>2. CASE Settled(e)
      BY <3>2, SettledStays
    <3>3. CASE ~Settled(e)
      <4>1. Remembers(i, e)
        BY <3>1, <3>3 DEF MailInv, SeenInv
      <4> QED
        BY <2>1, <3>3, <4>1 DEF Remembers
    <3> QED
      BY <3>2, <3>3
  <2>2. ASSUME NEW e \in Events, NEW i \in Isolates, Remembers(i, e)'
        PROVE  \E n \in 1..Attempts : tasks'[<<e, n>>] # Idle
    <3>1. Remembers(i, e)
      BY <2>2 DEF Remembers
    <3>2. PICK n \in 1..Attempts : tasks[<<e, n>>] # Idle
      BY <3>1 DEF MailInv, SeenInv
    <3> QED
      BY <1>k, <3>2
  <2>3. \A e \in Events, n \in 1..Attempts : tasks'[<<e, n>>].isolate \in Isolates \/ tasks'[<<e, n>>] = Idle
    BY <1>k DEF MailInv, SeenInv
  <2> QED
    BY <2>1, <2>2, <2>3 DEF SeenInv
<1>o. OncePerIsolate'
  <2>1. ASSUME NEW e \in Events, e \notin evicted', NEW m \in 1..Attempts, NEW n \in 1..Attempts,
               tasks'[<<e, m>>] # Idle, tasks'[<<e, n>>] # Idle, tasks'[<<e, m>>].isolate = tasks'[<<e, n>>].isolate
        PROVE  m = n
    <3>1. /\ tasks[<<e, m>>] # Idle /\ tasks[<<e, n>>] # Idle /\ tasks[<<e, m>>].isolate = tasks[<<e, n>>].isolate
          /\ e \in Events \ evicted
      BY <1>k, <2>1
    <3> QED
      BY <3>1 DEF MailInv, OncePerIsolate
  <2> QED
    BY <2>1 DEF OncePerIsolate
<1>n. NeverDropped'
  <2> SUFFICES ASSUME NEW e \in Events, slack'[e].acked PROVE \E n \in 1..Attempts : tasks'[<<e, n>>] # Idle
    BY DEF NeverDropped
  <2>1. PICK n \in 1..Attempts : tasks[<<e, n>>] # Idle
    <3>1. CASE slack[e].acked
      BY <3>1 DEF MailInv, NeverDropped
    <3>2. CASE \E i \in Isolates : Remembers(i, e)
      BY <3>2 DEF MailInv, SeenInv
    <3> QED
      BY <3>1, <3>2
  <2> QED
    BY <1>k, <2>1
<1> QED
  BY <1>w, <1>s, <1>o, <1>n DEF MailInv

\* A new copy is numbered past those that are on their way or in hand.
LEMMA SendDoes ==
    ASSUME TypeInv, MailInv, NEW e \in Events, NEW i \in Isolates, Send(e, i)
    PROVE  MailTypes' /\ MailInv'
<1> DEFINE n == slack[e].sent + 1
           new == [delivery |-> <<e, n>>, isolate |-> i]
<1>t. /\ slack \in [Events -> [sent : 0..Attempts, acked : BOOLEAN]]
      /\ wire \subseteq [delivery : Deliveries, isolate : Isolates]
  BY DEF TypeInv
<1>1. /\ n \in 1..Attempts /\ ~slack[e].acked /\ wire' = wire \cup {new}
      /\ slack' = [slack EXCEPT ![e].sent = n]
      /\ UNCHANGED <<seen, tasks, evicted>>
  BY <1>t, SlackInboundAssumption DEF Send
<1>2. <<e, n>> \in Deliveries /\ new \in [delivery : Deliveries, isolate : Isolates]
  BY <1>1 DEF Deliveries
<1>3. /\ slack' \in [Events -> [sent : 0..Attempts, acked : BOOLEAN]]
      /\ slack'[e].sent = n /\ slack'[e].acked = slack[e].acked
      /\ \A f \in Events \ {e} : slack'[f] = slack[f]
  BY <1>t, <1>1, SlackInboundAssumption
<1>4. MailTypes'
  BY <1>1, <1>2, <1>3 DEF MailTypes, TypeInv
<1>5. \A f \in Events : slack[f].sent <= slack'[f].sent /\ slack[f].sent \in Nat /\ slack'[f].sent \in Nat
  BY <1>t, <1>1, <1>3, SlackInboundAssumption
<1>6. tasks[<<e, n>>] = Idle
  <2>1. n = slack[e].sent + 1 /\ <<e, n>>[1] = e /\ <<e, n>>[2] = n /\ ~(n <= slack[e].sent)
    BY <1>5, <1>1
  <2> QED
    BY <1>2, <2>1 DEF MailInv, WireInv
<1>7. \A p \in wire : p.delivery # <<e, n>>
  <2> SUFFICES ASSUME NEW p \in wire, p.delivery = <<e, n>> PROVE FALSE
    OBVIOUS
  <2>1. p.delivery[1] = e /\ p.delivery[2] = n /\ ~(n <= slack[e].sent)
    BY <1>5, <1>1
  <2> QED
    BY <2>1 DEF MailInv, WireInv
<1>8. new.delivery = <<e, n>> /\ new.delivery[1] = e /\ new.delivery[2] = n
  OBVIOUS
<1> HIDE DEF new
<1>w. WireInv'
  <2>1. ASSUME NEW p \in wire' PROVE tasks'[p.delivery] = Idle /\ p.delivery[2] <= slack'[p.delivery[1]].sent
    <3>1. CASE p = new
      <4>1. n <= n
        BY <1>1
      <4> QED
        BY <1>1, <1>3, <1>6, <1>8, <3>1, <4>1
    <3>2. CASE p \in wire
      <4>1. /\ tasks[p.delivery] = Idle /\ p.delivery[2] <= slack[p.delivery[1]].sent
            /\ p.delivery[1] \in Events /\ p.delivery[2] \in Nat
        BY <1>t, <3>2, DeliveryParts DEF MailInv, WireInv
      <4> QED
        BY <1>1, <1>5, <4>1
    <3> QED
      BY <1>1, <3>1, <3>2
  <2>2. \A p, q \in wire' : p.delivery = q.delivery => p = q
    BY <1>1, <1>7, <1>8 DEF MailInv, WireInv
  <2>3. ASSUME NEW d \in Deliveries, tasks'[d] # Idle PROVE d[2] <= slack'[d[1]].sent
    <3>1. d[2] <= slack[d[1]].sent /\ d[1] \in Events /\ d[2] \in Nat
      BY <1>1, <2>3, DeliveryParts DEF MailInv, WireInv
    <3> QED
      BY <1>5, <3>1
  <2>4. \A t \in Works : tasks'[t].stage = "idle" => tasks'[t] = Idle
    BY <1>1 DEF MailInv, WireInv
  <2> QED
    BY <2>1, <2>2, <2>3, <2>4 DEF WireInv
<1>9. \A f \in Events : Settled(f) => Settled(f)'
  <2> SUFFICES ASSUME NEW f \in Events, Settled(f) PROVE Settled(f)'
    OBVIOUS
  <2>1. f # e
    BY <1>1, <1>5, SlackInboundAssumption DEF Settled, Send
  <2> QED
    BY <1>1, <1>3, <1>8, <2>1 DEF Settled
<1>s. SeenInv'
  <2>1. \A f \in Events \ evicted', k \in 1..Attempts, j \in Isolates :
            Worked(f, k, j)' => Remembers(j, f)' \/ Settled(f)'
    BY <1>1, <1>9 DEF MailInv, SeenInv, Worked, Remembers
  <2>2. \A f \in Events, j \in Isolates : Remembers(j, f)' => \E k \in 1..Attempts : tasks'[<<f, k>>] # Idle
    BY <1>1 DEF MailInv, SeenInv, Remembers
  <2>3. \A f \in Events, k \in 1..Attempts : tasks'[<<f, k>>].isolate \in Isolates \/ tasks'[<<f, k>>] = Idle
    BY <1>1 DEF MailInv, SeenInv
  <2> QED
    BY <2>1, <2>2, <2>3 DEF SeenInv
<1>o. OncePerIsolate'
  BY <1>1 DEF MailInv, OncePerIsolate
<1>n. NeverDropped'
  BY <1>1, <1>3 DEF MailInv, NeverDropped
<1> QED
  BY <1>4, <1>w, <1>s, <1>o, <1>n DEF MailInv

\* An event is taken in by an isolate that does not work on it, or forgot it too early.
LEMMA DispatchDoes ==
    ASSUME TypeInv, MailInv, TurnInv, NEW p \in wire, Dispatch(p)
    PROVE  MailTypes' /\ MailInv' /\ TurnInv' /\ tasks' \in [Works -> Task]
<1> DEFINE d == p.delivery
           e == p.delivery[1]
           i == p.isolate
           task == Started(i, "nobody")
<1>t. /\ tasks \in [Works -> Task] /\ seen \in [Isolates -> Seq(Events)] /\ evicted \subseteq Events
      /\ wire \subseteq [delivery : Deliveries, isolate : Isolates]
  BY DEF TypeInv
<1>0. PICK lost \in BOOLEAN : Ack(p, lost)
  BY DEF Dispatch
<1>1. /\ slack' \in [Events -> [sent : 0..Attempts, acked : BOOLEAN]]
      /\ wire' = wire \ {p} /\ Dwindles
      /\ d \in Deliveries /\ e \in Events /\ i \in Isolates
      /\ \A f \in Events : slack'[f].acked => slack[f].acked \/ f = e
  BY <1>0, AckDoes
<1>2. /\ tasks' = [tasks EXCEPT ![d] = task] /\ e \notin Range(seen[i])
      /\ seen' = [seen EXCEPT ![i] = Remembered(i, e)]
      /\ evicted' = evicted \cup {f \in Range(seen[i]) \ Range(seen'[i]) : ~Settled(f)}
      /\ turns' = turns
  BY DEF Dispatch
<1>3. task \in Task /\ task # Idle /\ task.isolate = i /\ task.stage # "idle" /\ d \in Works
  BY <1>1 DEF Task, Started, Stages, Idle, Works
<1>4. d[1] = e /\ d[2] \in 1..Attempts /\ d = <<e, d[2]>>
  BY <1>1, DeliveryParts
<1>5. ~Settled(e) /\ tasks[d] = Idle /\ d[2] <= slack[e].sent
  BY DEF Settled, MailInv, WireInv
<1> HIDE DEF d, e, i, task
<1>6. /\ tasks' \in [Works -> Task] /\ tasks'[d] = task /\ \A u \in Works \ {d} : tasks'[u] = tasks[u]
  BY <1>t, <1>2, <1>3, TaskUpdate
<1>7. /\ Remembered(i, e) \in Seq(Events) /\ e \in Range(Remembered(i, e))
      /\ Range(Remembered(i, e)) \subseteq Range(seen[i]) \cup {e}
  BY <1>1, RememberedDoes
<1>8. /\ seen' \in [Isolates -> Seq(Events)] /\ seen'[i] = Remembered(i, e)
      /\ \A j \in Isolates \ {i} : seen'[j] = seen[j]
  BY <1>t, <1>1, <1>2, <1>7
<1>9. evicted' \subseteq Events /\ evicted \subseteq evicted'
  <2>1. Range(seen[i]) \subseteq Events
    <3>1. PICK s \in Seq(Events) : s = seen[i]
      BY <1>t, <1>1
    <3>2. \A k \in DOMAIN s : s[k] \in Events
      BY <3>1
    <3> QED
      BY <3>1, <3>2 DEF Range
  <2> QED
    BY <1>t, <1>2, <2>1
<1>10. MailTypes'
  BY <1>t, <1>1, <1>8, <1>9 DEF MailTypes
<1>11. \A f \in Events : Settled(f) => Settled(f)'
  BY <1>1, SettledStays
<1>k. \A f \in Events, n \in 1..Attempts : <<f, n>> \in Works /\ (<<f, n>> # d => tasks'[<<f, n>>] = tasks[<<f, n>>])
  BY <1>6, DeliveryParts DEF Works
<1>w. WireInv'
  <2>1. ASSUME NEW q \in wire' PROVE tasks'[q.delivery] = Idle /\ q.delivery[2] <= slack'[q.delivery[1]].sent
    <3>1. q \in wire /\ q # p /\ q.delivery \in Deliveries /\ q.delivery[1] \in Events
      BY <1>t, <1>1, <2>1, DeliveryParts
    <3>2. q.delivery # d /\ q.delivery \in Works
      BY <3>1 DEF MailInv, WireInv, d, Works
    <3> QED
      BY <1>1, <1>6, <3>1, <3>2 DEF MailInv, WireInv, Dwindles
  <2>2. \A q, o \in wire' : q.delivery = o.delivery => q = o
    BY <1>1 DEF MailInv, WireInv
  <2>3. ASSUME NEW x \in Deliveries, tasks'[x] # Idle PROVE x[2] <= slack'[x[1]].sent
    <3>1. x[1] \in Events /\ x \in Works
      BY DeliveryParts DEF Works
    <3>2. x[2] <= slack[x[1]].sent
      <4>1. CASE x = d
        BY <1>4, <1>5, <4>1
      <4>2. CASE x # d
        BY <1>6, <2>3, <3>1, <4>2 DEF MailInv, WireInv
      <4> QED
        BY <4>1, <4>2
    <3> QED
      BY <1>1, <3>1, <3>2 DEF Dwindles
  <2>4. \A t \in Works : tasks'[t].stage = "idle" => tasks'[t] = Idle
    BY <1>3, <1>6 DEF MailInv, WireInv
  <2> QED
    BY <2>1, <2>2, <2>3, <2>4 DEF WireInv
<1>u. ASSUME NEW n \in 1..Attempts, Worked(e, n, i) PROVE e \in evicted
  BY <1>1, <1>2, <1>5, <1>u DEF MailInv, SeenInv, Remembers
<1>s. SeenInv'
  <2>1. ASSUME NEW f \in Events, f \notin evicted', NEW n \in 1..Attempts, NEW j \in Isolates, Worked(f, n, j)'
        PROVE  (Remembers(j, f) \/ Settled(f))'
    <3>1. CASE <<f, n>> = d
      <4>1. f = e /\ j = i
        BY <1>3, <1>4, <1>6, <2>1, <3>1 DEF Worked
      <4> QED
        BY <1>7, <1>8, <4>1 DEF Remembers
    <3>2. CASE <<f, n>> # d
      <4>1. Worked(f, n, j) /\ f \notin evicted
        BY <1>9, <1>k, <2>1, <3>2 DEF Worked
      <4>2. CASE Settled(f)
        BY <1>11, <4>2
      <4>3. CASE ~Settled(f)
        <5>1. f \in Range(seen[j])
          BY <4>1, <4>3 DEF MailInv, SeenInv, Remembers
        <5>2. f \in Range(seen'[j])
          BY <1>2, <1>8, <2>1, <4>3, <5>1
        <5> QED
          BY <5>2 DEF Remembers
      <4> QED
        BY <4>2, <4>3
    <3> QED
      BY <3>1, <3>2
  <2>2. ASSUME NEW f \in Events, NEW j \in Isolates, Remembers(j, f)'
        PROVE  \E n \in 1..Attempts : tasks'[<<f, n>>] # Idle
    <3>1. CASE f = e
      BY <1>3, <1>4, <1>6, <3>1
    <3>2. CASE f # e
      <4>1. Remembers(j, f)
        BY <1>7, <1>8, <2>2, <3>2 DEF Remembers
      <4>2. PICK n \in 1..Attempts : tasks[<<f, n>>] # Idle
        BY <4>1 DEF MailInv, SeenInv
      <4>3. <<f, n>> # d
        BY <1>5, <4>2
      <4> QED
        BY <1>k, <4>2, <4>3
    <3> QED
      BY <3>1, <3>2
  <2>3. ASSUME NEW f \in Events, NEW n \in 1..Attempts
        PROVE  tasks'[<<f, n>>].isolate \in Isolates \/ tasks'[<<f, n>>] = Idle
    BY <1>1, <1>3, <1>6, <1>k DEF MailInv, SeenInv
  <2> QED
    BY <2>1, <2>2, <2>3 DEF SeenInv
<1>o. OncePerIsolate'
  <2>1. ASSUME NEW f \in Events, f \notin evicted', NEW m \in 1..Attempts, NEW n \in 1..Attempts,
               tasks'[<<f, m>>] # Idle, tasks'[<<f, n>>] # Idle, tasks'[<<f, m>>].isolate = tasks'[<<f, n>>].isolate
        PROVE  m = n
    <3>0. f \notin evicted
      BY <1>9, <2>1
    <3>1. ASSUME NEW k \in 1..Attempts, <<f, k>> # d, tasks'[<<f, k>>] # Idle, tasks'[<<f, k>>].isolate = i, f = e
          PROVE  FALSE
      BY <1>k, <1>u, <3>0, <3>1 DEF Worked
    <3>2. CASE <<f, m>> = d
      <4>1. f = e /\ m = d[2] /\ tasks'[<<f, n>>].isolate = i
        BY <1>3, <1>4, <1>6, <2>1, <3>2
      <4>2. <<f, n>> = d
        BY <2>1, <3>1, <4>1
      <4> QED
        BY <4>1, <4>2, <1>4
    <3>3. CASE <<f, n>> = d
      <4>1. f = e /\ n = d[2] /\ tasks'[<<f, m>>].isolate = i
        BY <1>3, <1>4, <1>6, <2>1, <3>3
      <4>2. <<f, m>> = d
        BY <2>1, <3>1, <4>1
      <4> QED
        BY <4>1, <4>2, <1>4
    <3>4. CASE <<f, m>> # d /\ <<f, n>> # d
      <4>1. tasks[<<f, m>>] # Idle /\ tasks[<<f, n>>] # Idle /\ tasks[<<f, m>>].isolate = tasks[<<f, n>>].isolate
        BY <1>k, <2>1, <3>4
      <4> QED
        BY <3>0, <4>1 DEF MailInv, OncePerIsolate
    <3> QED
      BY <3>2, <3>3, <3>4
  <2> QED
    BY <2>1 DEF OncePerIsolate
<1>n. NeverDropped'
  <2> SUFFICES ASSUME NEW f \in Events, slack'[f].acked PROVE \E n \in 1..Attempts : tasks'[<<f, n>>] # Idle
    BY DEF NeverDropped
  <2>1. CASE f = e
    BY <1>3, <1>4, <1>6, <2>1
  <2>2. CASE f # e
    <3>1. PICK n \in 1..Attempts : tasks[<<f, n>>] # Idle
      BY <1>1, <2>2 DEF MailInv, NeverDropped
    <3>2. <<f, n>> # d
      BY <1>5, <3>1
    <3> QED
      BY <1>k, <3>1, <3>2
  <2> QED
    BY <2>1, <2>2
<1>12. TurnInv'
  <2> SUFFICES ASSUME NEW x \in Deliveries
               PROVE  turns'[x] # "twice" /\ (turns'[x] # "none" => tasks'[x].stage \in {"rendering", "done", "killed"})
    BY DEF TurnInv
  <2>1. x = d => turns[x] = "none"
    BY <1>5 DEF TurnInv, Idle
  <2> QED
    BY <1>2, <1>6, <2>1 DEF TurnInv, Works
<1> QED
  BY <1>6, <1>10, <1>12, <1>w, <1>s, <1>o, <1>n DEF MailInv

\* An id that expires belongs to an event that will not come again.
LEMMA ExpireDoes ==
    ASSUME TypeInv, MailInv, NEW i \in Isolates, Expire(i)
    PROVE  MailTypes' /\ MailInv'
<1>1. /\ seen \in [Isolates -> Seq(Events)] /\ seen[i] # <<>> /\ Settled(Head(seen[i]))
      /\ seen' = [seen EXCEPT ![i] = Tail(seen[i])]
      /\ UNCHANGED <<slack, wire, tasks, evicted>>
  BY DEF Expire, TypeInv
<1>2. PICK s \in Seq(Events) : s = seen[i]
  BY <1>1
<1>3. /\ Tail(s) \in Seq(Events) /\ Range(Tail(s)) \subseteq Range(s)
      /\ Range(s) \subseteq Range(Tail(s)) \cup {Head(s)}
  BY <1>1, <1>2, TailKeeps
<1>4. /\ seen' \in [Isolates -> Seq(Events)] /\ seen'[i] = Tail(s)
      /\ \A j \in Isolates \ {i} : seen'[j] = seen[j]
  BY <1>1, <1>2, <1>3
<1>5. MailTypes'
  BY <1>1, <1>4 DEF MailTypes, TypeInv
<1>6. Dwindles /\ KeepsWork
  BY <1>1 DEF Dwindles, KeepsWork
<1>7. ASSUME NEW j \in Isolates, NEW e \in Events
      PROVE  /\ e \in Range(seen'[j]) => Remembers(j, e)
             /\ Remembers(j, e) => e \in Range(seen'[j]) \/ Settled(e) \/ e \in evicted'
  <2>1. CASE j = i
    BY <1>1, <1>2, <1>3, <1>4, <2>1 DEF Remembers
  <2>2. CASE j # i
    BY <1>4, <2>2 DEF Remembers
  <2> QED
    BY <2>1, <2>2
<1>8. /\ evicted \subseteq evicted' /\ evicted' \subseteq Events
      /\ \A e \in Events : slack'[e].acked => slack[e].acked
      /\ \A u \in Works : tasks'[u].stage = "idle" => tasks'[u] = Idle
  BY <1>1 DEF TypeInv, MailInv, WireInv
<1> QED
  BY <1>5, <1>6, <1>7, <1>8, NothingTakenIn

\* A recycled isolate forgets, and what it forgets too early is written down.
LEMMA RecycleDoes ==
    ASSUME TypeInv, MailInv, TurnInv, ApprovalInv, NEW i \in Isolates, Recycle(i)
    PROVE  TypeInv' /\ MailInv' /\ TurnInv' /\ ApprovalInv'
<1>t. TypeInv
  OBVIOUS
<1>1. /\ seen' = [seen EXCEPT ![i] = <<>>] /\ wire' = {p \in wire : p.isolate # i}
      /\ evicted' = evicted \cup {e \in Range(seen[i]) : ~Settled(e)}
      /\ UNCHANGED <<slack, turns>>
  BY DEF Recycle
<1>2. /\ tasks' \in [Works -> Task]
      /\ \A t \in Works : /\ tasks[t].stage = "idle" => tasks'[t] = tasks[t]
                          /\ tasks[t].stage # "idle" => tasks'[t].stage \in {tasks[t].stage, "killed"}
                          /\ tasks'[t].isolate = tasks[t].isolate
  <2>0. tasks \in [Works -> Task] /\ DOMAIN tasks = Works
    BY <1>t DEF TypeInv
  <2>1. tasks' = [t \in Works |-> IF tasks[t].stage # "idle" /\ tasks[t].isolate = i
                                 THEN [tasks[t] EXCEPT !.stage = "killed"] ELSE tasks[t]]
    BY <2>0 DEF Recycle
  <2>2. ASSUME NEW t \in Works
        PROVE  /\ tasks'[t] \in Task
               /\ tasks[t].stage = "idle" => tasks'[t] = tasks[t]
               /\ tasks[t].stage # "idle" => tasks'[t].stage \in {tasks[t].stage, "killed"}
               /\ tasks'[t].isolate = tasks[t].isolate
    <3>1. PICK task \in Task : task = tasks[t]
      BY <2>0
    <3>2. PICK k : k = [task EXCEPT !.stage = "killed"]
      OBVIOUS
    <3>3. k \in Task /\ k.stage = "killed" /\ k.isolate = task.isolate
      BY <3>2 DEF Task, Stages
    <3>4. tasks'[t] = IF task.stage # "idle" /\ task.isolate = i THEN k ELSE task
      BY <2>1, <3>1, <3>2
    <3> QED
      BY <3>1, <3>3, <3>4
  <2>3. tasks' \in [Works -> Task]
    BY <2>1, <2>2
  <2> QED
    BY <2>2, <2>3
<1>3. \A t \in Works : tasks'[t] = Idle <=> tasks[t] = Idle
  <2> SUFFICES ASSUME NEW t \in Works PROVE tasks'[t] = Idle <=> tasks[t] = Idle
    OBVIOUS
  <2>1. CASE tasks[t].stage = "idle"
    BY <1>2, <2>1
  <2>2. CASE tasks[t].stage # "idle"
    <3>1. tasks'[t].stage # "idle"
      BY <1>2, <2>2
    <3> QED
      BY <2>2, <3>1 DEF Idle
  <2> QED
    BY <2>1, <2>2
<1>4. KeepsWork
  BY <1>2, <1>3 DEF KeepsWork, Works
<1>5. \A t \in Works : tasks'[t].stage = "idle" => tasks'[t] = Idle
  BY <1>2, <1>3 DEF MailInv, WireInv
<1>6. Dwindles
  BY <1>1 DEF Dwindles
<1>7. Range(seen[i]) \subseteq Events
  <2>1. PICK s \in Seq(Events) : s = seen[i]
    BY <1>t DEF TypeInv
  <2>2. \A k \in DOMAIN s : s[k] \in Events
    BY <2>1
  <2> QED
    BY <2>1, <2>2 DEF Range
<1>8. /\ seen' \in [Isolates -> Seq(Events)] /\ seen'[i] = <<>>
      /\ \A j \in Isolates \ {i} : seen'[j] = seen[j]
  BY <1>t, <1>1 DEF TypeInv
<1>9. ASSUME NEW j \in Isolates, NEW e \in Events
      PROVE  /\ e \in Range(seen'[j]) => Remembers(j, e)
             /\ Remembers(j, e) => e \in Range(seen'[j]) \/ Settled(e) \/ e \in evicted'
  <2>1. CASE j = i
    <3>1. Range(seen'[j]) = {}
      <4>1. DOMAIN seen'[j] = {}
        BY <1>8, <2>1
      <4> QED
        BY <4>1 DEF Range
    <3> QED
      BY <1>1, <2>1, <3>1 DEF Remembers
  <2>2. CASE j # i
    BY <1>8, <2>2 DEF Remembers
  <2> QED
    BY <2>1, <2>2
<1>10. evicted \subseteq evicted' /\ evicted' \subseteq Events
  BY <1>t, <1>1, <1>7 DEF TypeInv
<1>11. \A e \in Events : slack'[e].acked => slack[e].acked
  BY <1>1
<1>12. MailInv'
  BY <1>4, <1>5, <1>6, <1>9, <1>10, <1>11, NothingTakenIn
<1>13. TurnInv'
  <2> SUFFICES ASSUME NEW d \in Deliveries
               PROVE  turns'[d] # "twice" /\ (turns'[d] # "none" => tasks'[d].stage \in {"rendering", "done", "killed"})
    BY DEF TurnInv
  <2>1. d \in Works
    BY DEF Works
  <2> QED
    BY <1>1, <1>2, <2>1 DEF TurnInv
<1>14. /\ approval' \in [answered : BOOLEAN, renderer : Isolates \cup {"none", "host"},
                          message : {"buttons", "working", "outcome"}]
       /\ ApprovalInv'
  <2>1. approval \in [answered : BOOLEAN, renderer : Isolates \cup {"none", "host"},
                      message : {"buttons", "working", "outcome"}]
    BY <1>t DEF TypeInv
  <2>2. approval' = approval \/ approval' = [approval EXCEPT !.renderer = "none"]
    BY <2>1 DEF Recycle
  <2> QED
    BY <2>1, <2>2 DEF ApprovalInv
<1>15. TypeInv'
  BY <1>t, <1>1, <1>2, <1>8, <1>10, <1>14 DEF TypeInv
<1> QED
  BY <1>12, <1>13, <1>14, <1>15

\* What the whole of a step needs only when the mail and the work are as they were.
LEMMA MailKept ==
    ASSUME TypeInv, MailInv, KeepsMail, KeepsWork, \A u \in Works : tasks'[u].stage = "idle" => tasks'[u] = Idle
    PROVE  MailTypes' /\ MailInv'
<1>1. UNCHANGED <<slack, wire, seen, evicted>>
  BY DEF KeepsMail
<1>2. MailTypes'
  BY <1>1 DEF MailTypes, TypeInv
<1>3. Dwindles
  BY <1>1 DEF Dwindles
<1>4. \A i \in Isolates, e \in Events :
          /\ e \in Range(seen'[i]) => Remembers(i, e)
          /\ Remembers(i, e) => e \in Range(seen'[i]) \/ Settled(e) \/ e \in evicted'
  BY <1>1 DEF Remembers
<1>5. /\ evicted \subseteq evicted' /\ evicted' \subseteq Events
      /\ \A e \in Events : slack'[e].acked => slack[e].acked
  BY <1>1 DEF TypeInv
<1> QED
  BY <1>2, <1>3, <1>4, <1>5, NothingTakenIn
-----------------------------------------------------------------------------
LEMMA InboundInit == Init => InboundInv
<1> SUFFICES ASSUME Init PROVE InboundInv
  OBVIOUS
<1>1. PICK arriving \in Arrivals :
          slack = [e \in Events |-> [sent |-> IF "events" \in arriving THEN 0 ELSE Attempts, acked |-> FALSE]]
  BY DEF Init
<1>2. /\ wire = {} /\ seen = [i \in Isolates |-> <<>>] /\ evicted = {}
      /\ tasks = [d \in Works |-> Idle] /\ turns = [d \in Deliveries |-> "none"]
      /\ approval = [answered |-> FALSE, renderer |-> "none", message |-> "buttons"]
  BY DEF Init, Works
<1>3. Deliveries \subseteq Works /\ \A e \in Events, n \in 1..Attempts : <<e, n>> \in Works
  BY DeliveryParts DEF Works
<1>4. \A e \in Events : slack[e] \in [sent : 0..Attempts, acked : BOOLEAN]
  BY <1>1, SlackInboundAssumption
<1>5. TypeInv
  <2>1. slack \in [Events -> [sent : 0..Attempts, acked : BOOLEAN]]
    BY <1>1, <1>4
  <2>2. Idle \in Task
    BY DEF Idle, Task, Stages
  <2>3. tasks \in [Works -> Task] /\ seen \in [Isolates -> Seq(Events)]
    BY <1>2, <2>2
  <2> QED
    BY <1>2, <2>1, <2>3 DEF TypeInv
<1>6. WireInv
  BY <1>2, <1>3 DEF WireInv
<1>7. \A i \in Isolates, e \in Events : ~Remembers(i, e)
  <2>1. \A i \in Isolates : DOMAIN seen[i] = {}
    BY <1>2
  <2> QED
    BY <2>1 DEF Remembers, Range
<1>8. SeenInv
  BY <1>2, <1>3, <1>7 DEF SeenInv, Worked
<1>9. TurnInv /\ ApprovalInv
  BY <1>2 DEF TurnInv, ApprovalInv
<1>10. OncePerIsolate /\ NeverDropped
  BY <1>1, <1>2, <1>3 DEF OncePerIsolate, NeverDropped
<1> QED
  BY <1>5, <1>6, <1>8, <1>9, <1>10 DEF InboundInv

LEMMA InboundNext == InboundInv /\ [Next]_vars => InboundInv'
<1> SUFFICES ASSUME InboundInv, [Next]_vars PROVE InboundInv'
  OBVIOUS
<1>i. TypeInv /\ WireInv /\ TurnInv /\ ApprovalInv /\ MailInv
  BY DEF InboundInv, MailInv
<1>q. (TypeInv /\ MailInv /\ TurnInv /\ ApprovalInv)' => InboundInv'
  BY DEF InboundInv, MailInv
<1>t. ASSUME MailTypes', tasks' \in [Works -> Task], turns' = turns, approval' = approval PROVE TypeInv'
  BY <1>i, <1>t DEF MailTypes, TypeInv
<1>a. ASSUME approval' = approval PROVE ApprovalInv'
  BY <1>i, <1>a DEF ApprovalInv
<1>u. ASSUME tasks' = tasks, turns' = turns PROVE TurnInv' /\ tasks' \in [Works -> Task]
  BY <1>i, <1>u DEF TurnInv, TypeInv
<1>1. ASSUME NEW e \in Events, NEW i \in Isolates, Send(e, i) PROVE InboundInv'
  <2>1. UNCHANGED <<tasks, turns, approval>>
    BY <1>1 DEF Send
  <2>2. MailTypes' /\ MailInv'
    BY <1>i, <1>1, SendDoes
  <2> QED
    BY <1>q, <1>t, <1>a, <1>u, <2>1, <2>2
<1>2. ASSUME NEW c \in Clicks, Answer(c) \/ \E u \in Users, i \in Isolates : Click(c, u, i) PROVE InboundInv'
  <2>1. /\ tasks' \in [Works -> Task] /\ KeepsWork /\ KeepsMail
        /\ \A u \in Works : tasks'[u].stage = "idle" => tasks'[u] = Idle
        /\ turns' = turns /\ TurnInv'
        /\ approval' \in [answered : BOOLEAN, renderer : Isolates \cup {"none", "host"},
                          message : {"buttons", "working", "outcome"}]
        /\ ApprovalInv'
    BY <1>i, <1>2, AnswerDoes
  <2>2. MailTypes' /\ MailInv'
    BY <1>i, <2>1, MailKept
  <2>3. TypeInv'
    BY <1>i, <2>1, <2>2 DEF MailTypes, TypeInv
  <2> QED
    BY <1>q, <2>1, <2>2, <2>3
<1>3. ASSUME NEW p \in wire, Duplicate(p) \/ AcceptThrows(p) PROVE InboundInv'
  <2>1. UNCHANGED <<seen, tasks, turns, approval, evicted>>
    BY <1>3 DEF Duplicate, AcceptThrows
  <2>2. /\ slack' \in [Events -> [sent : 0..Attempts, acked : BOOLEAN]] /\ wire' = wire \ {p} /\ Dwindles
        /\ \A e \in Events : slack'[e].acked => slack[e].acked \/ \E i \in Isolates : Remembers(i, e)
    <3>1. CASE Duplicate(p)
      <4>1. PICK lost \in BOOLEAN : Ack(p, lost)
        BY <3>1 DEF Duplicate
      <4>2. Remembers(p.isolate, p.delivery[1])
        BY <3>1 DEF Duplicate, Remembers
      <4> QED
        BY <1>i, <4>1, <4>2, AckDoes
    <3>2. CASE AcceptThrows(p)
      BY <1>i, <3>2 DEF AcceptThrows, Dwindles, TypeInv
    <3> QED
      BY <1>3, <3>1, <3>2
  <2>3. MailTypes'
    BY <1>i, <2>1, <2>2 DEF MailTypes, TypeInv
  <2>4. KeepsWork /\ \A u \in Works : tasks'[u].stage = "idle" => tasks'[u] = Idle
    BY <1>i, <2>1 DEF KeepsWork, WireInv
  <2>5. /\ evicted \subseteq evicted' /\ evicted' \subseteq Events
        /\ \A i \in Isolates, e \in Events :
               /\ e \in Range(seen'[i]) => Remembers(i, e)
               /\ Remembers(i, e) => e \in Range(seen'[i]) \/ Settled(e) \/ e \in evicted'
    BY <1>i, <2>1 DEF TypeInv, Remembers
  <2>6. MailInv'
    BY <1>i, <2>2, <2>4, <2>5, NothingTakenIn
  <2> QED
    BY <1>q, <1>t, <1>a, <1>u, <2>1, <2>3, <2>6
<1>4. ASSUME NEW p \in wire, Dispatch(p) PROVE InboundInv'
  <2>1. UNCHANGED <<turns, approval>>
    BY <1>4 DEF Dispatch
  <2>2. MailTypes' /\ MailInv' /\ TurnInv' /\ tasks' \in [Works -> Task]
    BY <1>i, <1>4, DispatchDoes
  <2> QED
    BY <1>q, <1>t, <1>a, <2>1, <2>2
<1>5. ASSUME NEW i \in Isolates, Expire(i) PROVE InboundInv'
  <2>1. UNCHANGED <<tasks, turns, approval>>
    BY <1>5 DEF Expire
  <2>2. MailTypes' /\ MailInv'
    BY <1>i, <1>5, ExpireDoes
  <2> QED
    BY <1>q, <1>t, <1>a, <1>u, <2>1, <2>2
<1>6. ASSUME NEW i \in Isolates, Recycle(i) PROVE InboundInv'
  BY <1>i, <1>q, <1>6, RecycleDoes
<1>7. ASSUME NEW d \in Deliveries, Decline(d) \/ Reply(d) PROVE InboundInv'
  <2>1. /\ tasks' \in [Works -> Task] /\ KeepsWork /\ KeepsMail
        /\ \A u \in Works : tasks'[u].stage = "idle" => tasks'[u] = Idle
        /\ turns' \in [Deliveries -> {"none", "running", "rendered", "twice"}]
        /\ approval' = approval /\ TurnInv'
    BY <1>i, <1>7, ReplyDoes
  <2>2. MailTypes' /\ MailInv'
    BY <1>i, <2>1, MailKept
  <2>3. TypeInv'
    BY <1>i, <2>1, <2>2 DEF MailTypes, TypeInv
  <2> QED
    BY <1>q, <1>a, <2>1, <2>2, <2>3
<1>k. ASSUME UNCHANGED <<slack, wire, seen, tasks, evicted>> PROVE MailTypes' /\ MailInv'
  <2>1. KeepsMail /\ KeepsWork /\ \A u \in Works : tasks'[u].stage = "idle" => tasks'[u] = Idle
    BY <1>i, <1>k DEF KeepsMail, KeepsWork, WireInv
  <2> QED
    BY <1>i, <2>1, MailKept
<1>8. CASE RenderResume
  <2>1. UNCHANGED <<slack, wire, seen, tasks, turns, evicted>>
    BY <1>8 DEF RenderResume
  <2>2. MailTypes' /\ MailInv'
    BY <1>k, <2>1
  <2>3. /\ approval' \in [answered : BOOLEAN, renderer : Isolates \cup {"none", "host"},
                          message : {"buttons", "working", "outcome"}]
        /\ ApprovalInv'
    BY <1>i, <1>8 DEF RenderResume, ApprovalInv, TypeInv
  <2>4. TypeInv'
    BY <1>i, <1>u, <2>1, <2>2, <2>3 DEF MailTypes, TypeInv
  <2> QED
    BY <1>q, <1>u, <2>1, <2>2, <2>3, <2>4
<1>9. CASE UNCHANGED vars
  <2>1. UNCHANGED <<slack, wire, seen, tasks, turns, approval, evicted>>
    BY <1>9 DEF vars
  <2> QED
    BY <1>q, <1>t, <1>a, <1>u, <1>k, <2>1
<1> QED
  BY <1>1, <1>2, <1>3, <1>4, <1>5, <1>6, <1>7, <1>8, <1>9 DEF Next, Webhook, Rest

LEMMA Inbound == Spec => []InboundInv
  BY InboundInit, InboundNext, PTL DEF Spec

\* The work of an event is done once in an isolate, as long as the isolate neither was
\* recycled nor forgot the event under its cap, and the work of a delivery starts one turn
\* (slackRemember, the dispatch of the webhook, and the fallback of runDelivered).
THEOREM EventsAreHandledOnce == Spec => []HandledOnce
<1>1. InboundInv => HandledOnce
  BY DEF InboundInv, HandledOnce, OneTurnPerDelivery, TurnInv
<1> QED
  BY <1>1, Inbound, PTL

\* An event that Slack will not deliver again was dispatched: what is recorded as seen was
\* dispatched in the same breath, and an accept() that throws records nothing.
THEOREM EventsAreNeverDropped == Spec => []NeverDropped
<1>1. InboundInv => NeverDropped
  BY DEF InboundInv
<1> QED
  BY <1>1, Inbound, PTL

\* A message loses its buttons only to an answer that was applied (resumeStream's first
\* event is pulled before the message is touched).
THEOREM RefusalsKeepTheButtons == Spec => []RefusalKeepsButtons
<1>1. InboundInv => RefusalKeepsButtons
  BY DEF InboundInv, ApprovalInv, RefusalKeepsButtons
<1> QED
  BY <1>1, Inbound, PTL

-----------------------------------------------------------------------------

(* Text.  What the thread shows, sh, and what is still pending, pe, of     *)
(* what a renderer took, ta.                                               *)

\* The tokens of a text, in the order the turn said them: it has said n.
Ascends(text, n) == /\ \A i \in 1..Len(text) : text[i] \in 1..n
                    /\ \A i, j \in 1..Len(text) : i < j => text[i] < text[j]

\* Of the tokens T, none comes in the text before a smaller one that is not there yet.
InTurn(text, before, T) ==
    \A i \in 1..Len(text) : text[i] # Note =>
        \A y \in T : y < text[i] => y \in before \/ \E j \in 1..(i - 1) : text[j] = y

\* No token of the text is there already, or twice.
Fresh(text, before) ==
    \A i \in 1..Len(text) : text[i] # Note =>
        text[i] \notin before /\ \A j \in 1..(i - 1) : text[j] # text[i]

\* What was taken is shown or pending, in order, unless the reader stopped it (st).
Kept(sh, pe, ta, st, n) ==
    /\ Ascends(ta, n)
    /\ Range(sh) \cup Range(pe) \subseteq Range(ta) \cup {Note}
    /\ ~st => Range(ta) \subseteq Range(sh) \cup Range(pe)
    /\ InTurn(sh, {}, Range(ta)) /\ InTurn(pe, Range(sh), Range(ta))
    /\ st => pe = <<>>

LEMMA RangeIs ==
  ASSUME NEW s \in Seq(Nat)
  PROVE  \A x : x \in Range(s) <=> \E i \in 1..Len(s) : s[i] = x
BY RangeEquality

LEMMA InTurnJoins ==
  ASSUME NEW s \in Seq(Nat), NEW t \in Seq(Nat), NEW B, NEW T
  PROVE  InTurn(s \o t, B, T) <=> InTurn(s, B, T) /\ InTurn(t, B \cup Range(s), T)
<1> /\ s \o t \in Seq(Nat) /\ Len(s \o t) = Len(s) + Len(t)
    /\ \A i \in 1..Len(s) + Len(t) : (s \o t)[i] = IF i <= Len(s) THEN s[i] ELSE t[i - Len(s)]
  BY ConcatProperties
<1> Len(s) \in Nat /\ Len(t) \in Nat
  BY LenProperties
<1>1. ASSUME InTurn(s \o t, B, T) PROVE InTurn(s, B, T)
  <2> SUFFICES ASSUME NEW i \in 1..Len(s), s[i] # Note, NEW y \in T, y < s[i]
               PROVE  y \in B \/ \E j \in 1..(i - 1) : s[j] = y
    BY DEF InTurn
  <2>1. y \in B \/ \E j \in 1..(i - 1) : (s \o t)[j] = y
    BY <1>1, SMTT(20) DEF InTurn
  <2> QED BY <2>1
<1>2. ASSUME InTurn(s \o t, B, T) PROVE InTurn(t, B \cup Range(s), T)
  <2> SUFFICES ASSUME NEW i \in 1..Len(t), t[i] # Note, NEW y \in T, y < t[i]
               PROVE  y \in B \cup Range(s) \/ \E j \in 1..(i - 1) : t[j] = y
    BY DEF InTurn
  <2>1. PICK k \in Nat : k = Len(s) + i
    OBVIOUS
  <2>2. (s \o t)[k] = t[i] /\ k \in 1..Len(s \o t)
    BY <2>1
  <2>3. y \in B \/ \E j \in 1..(k - 1) : (s \o t)[j] = y
    BY <1>2, <2>2 DEF InTurn
  <2>4. ASSUME NEW j \in 1..(k - 1), (s \o t)[j] = y
        PROVE  y \in Range(s) \/ \E h \in 1..(i - 1) : t[h] = y
    <3>1. CASE j <= Len(s) BY <3>1, <2>1, <2>4, RangeIs
    <3>2. CASE j > Len(s)
      <4>1. j - Len(s) \in 1..(i - 1) /\ t[j - Len(s)] = y
        BY <3>2, <2>1, <2>4
      <4> QED BY <4>1
    <3> QED BY <3>1, <3>2
  <2> QED BY <2>3, <2>4
<1>3. ASSUME InTurn(s, B, T), InTurn(t, B \cup Range(s), T) PROVE InTurn(s \o t, B, T)
  <2> SUFFICES ASSUME NEW i \in 1..Len(s \o t), (s \o t)[i] # Note, NEW y \in T, y < (s \o t)[i]
               PROVE  y \in B \/ \E j \in 1..(i - 1) : (s \o t)[j] = y
    BY DEF InTurn
  <2>1. CASE i <= Len(s)
    <3>1. y \in B \/ \E j \in 1..(i - 1) : s[j] = y
      BY <1>3, <2>1 DEF InTurn
    <3> QED BY <3>1, <2>1
  <2>2. CASE i > Len(s)
    <3>1. i - Len(s) \in 1..Len(t) /\ (s \o t)[i] = t[i - Len(s)]
      BY <2>2
    <3>2. y \in B \/ y \in Range(s) \/ \E j \in 1..(i - Len(s) - 1) : t[j] = y
      BY <1>3, <3>1 DEF InTurn
    <3>3. ASSUME y \in Range(s) PROVE \E j \in 1..(i - 1) : (s \o t)[j] = y
      BY <3>3, <2>2, RangeIs
    <3>4. ASSUME NEW j \in 1..(i - Len(s) - 1), t[j] = y
          PROVE  \E h \in 1..(i - 1) : (s \o t)[h] = y
      <4>1. j + Len(s) \in 1..(i - 1) /\ (s \o t)[j + Len(s)] = t[j]
        BY <2>2
      <4> QED BY <4>1, <3>4
    <3> QED BY <3>2, <3>3, <3>4
  <2> QED BY <2>1, <2>2
<1> QED BY <1>1, <1>2, <1>3

LEMMA FreshJoins ==
  ASSUME NEW s \in Seq(Nat), NEW t \in Seq(Nat), NEW B
  PROVE  Fresh(s \o t, B) <=> Fresh(s, B) /\ Fresh(t, B \cup Range(s))
<1> /\ s \o t \in Seq(Nat) /\ Len(s \o t) = Len(s) + Len(t)
    /\ \A i \in 1..Len(s) + Len(t) : (s \o t)[i] = IF i <= Len(s) THEN s[i] ELSE t[i - Len(s)]
  BY ConcatProperties
<1> Len(s) \in Nat /\ Len(t) \in Nat
  BY LenProperties
<1>1. ASSUME Fresh(s \o t, B) PROVE Fresh(s, B)
  <2> SUFFICES ASSUME NEW i \in 1..Len(s), s[i] # Note
               PROVE  s[i] \notin B /\ \A j \in 1..(i - 1) : s[j] # s[i]
    BY DEF Fresh
  <2>1. (s \o t)[i] = s[i] /\ i \in 1..Len(s \o t)
    OBVIOUS
  <2>2. s[i] \notin B /\ \A j \in 1..(i - 1) : (s \o t)[j] # s[i]
    BY <1>1, <2>1 DEF Fresh
  <2> QED BY <2>2
<1>2. ASSUME Fresh(s \o t, B) PROVE Fresh(t, B \cup Range(s))
  <2> SUFFICES ASSUME NEW i \in 1..Len(t), t[i] # Note
               PROVE  t[i] \notin B \cup Range(s) /\ \A j \in 1..(i - 1) : t[j] # t[i]
    BY DEF Fresh
  <2>1. PICK k \in 1..Len(s \o t) : k = Len(s) + i
    BY SMTT(20)
  <2>2. t[i] \notin B /\ \A j \in 1..(k - 1) : (s \o t)[j] # t[i]
    <3>1. (s \o t)[k] = t[i]
      BY <2>1
    <3>2. (s \o t)[k] \notin B /\ \A j \in 1..(k - 1) : (s \o t)[j] # (s \o t)[k]
      <4>1. (s \o t)[k] # Note
        BY <3>1
      <4> QED BY <1>2, <4>1 DEF Fresh
    <3> QED BY <3>1, <3>2
  <2>3. t[i] \notin Range(s)
    <3>1. ASSUME NEW j \in 1..Len(s) PROVE s[j] # t[i]
      <4>1. j \in 1..(k - 1) /\ (s \o t)[j] = s[j]
        BY <2>1
      <4> QED BY <4>1, <2>2
    <3> QED BY <3>1, RangeIs
  <2>4. ASSUME NEW j \in 1..(i - 1) PROVE t[j] # t[i]
    <3>1. PICK h \in 1..(k - 1) : h = Len(s) + j
      BY <2>1
    <3>2. (s \o t)[h] = t[j]
      <4>1. h \in 1..Len(s) + Len(t) /\ ~(h <= Len(s)) /\ h - Len(s) = j
        BY <3>1, <2>1
      <4>2. (s \o t)[h] = t[h - Len(s)]
        BY <4>1
      <4> QED BY <4>1, <4>2
    <3> QED BY <3>1, <3>2, <2>2
  <2> QED BY <2>2, <2>3, <2>4
<1>3. ASSUME Fresh(s, B), Fresh(t, B \cup Range(s)) PROVE Fresh(s \o t, B)
  <2> SUFFICES ASSUME NEW i \in 1..Len(s \o t), (s \o t)[i] # Note
               PROVE  (s \o t)[i] \notin B /\ \A j \in 1..(i - 1) : (s \o t)[j] # (s \o t)[i]
    BY DEF Fresh
  <2>1. CASE i <= Len(s)
    <3>1. s[i] \notin B /\ \A j \in 1..(i - 1) : s[j] # s[i]
      BY <1>3, <2>1 DEF Fresh
    <3> QED BY <3>1, <2>1
  <2>2. CASE i > Len(s)
    <3>1. i - Len(s) \in 1..Len(t) /\ (s \o t)[i] = t[i - Len(s)]
      BY <2>2
    <3>2. /\ t[i - Len(s)] \notin B /\ t[i - Len(s)] \notin Range(s)
          /\ \A j \in 1..(i - Len(s) - 1) : t[j] # t[i - Len(s)]
      BY <1>3, <3>1 DEF Fresh
    <3>3. ASSUME NEW j \in 1..(i - 1) PROVE (s \o t)[j] # (s \o t)[i]
      <4>1. CASE j <= Len(s) BY <4>1, <3>1, <3>2, RangeIs
      <4>2. CASE j > Len(s)
        <5>1. j - Len(s) \in 1..(i - Len(s) - 1) /\ (s \o t)[j] = t[j - Len(s)]
          BY <4>2, <2>2
        <5> QED BY <5>1, <3>1, <3>2
      <4>3. j <= Len(s) \/ j > Len(s)
        OBVIOUS
      <4> QED BY <4>1, <4>2, <4>3
    <3> QED BY <3>1, <3>2, <3>3
  <2> QED BY <2>1, <2>2
<1> QED BY <1>1, <1>2, <1>3

LEMMA InTurnGrows ==
  ASSUME NEW t, NEW B, NEW C, NEW T, B \subseteq C, InTurn(t, B, T)
  PROVE  InTurn(t, C, T)
BY DEF InTurn

LEMMA FreshShrinks ==
  ASSUME NEW t, NEW B, NEW C, C \subseteq B, Fresh(t, B)
  PROVE  Fresh(t, C)
BY DEF Fresh

\* The last token of a text, if it is a note or the greatest of T and all others are there.
LEMMA NoteIsInTurn ==
  ASSUME NEW B, NEW T
  PROVE  InTurn(<<Note>>, B, T) /\ Fresh(<<Note>>, B)
BY DEF InTurn, Fresh

LEMMA AscendingIsInTurn ==
  ASSUME NEW n \in Nat, NEW u \in Seq(Nat), Ascends(u, n),
         NEW T, NEW B, \A y \in T : y \in B \/ y \in Range(u)
  PROVE  InTurn(u, B, T)
<1> SUFFICES ASSUME NEW i \in 1..Len(u), u[i] # Note, NEW y \in T, y < u[i]
             PROVE  y \in B \/ \E j \in 1..(i - 1) : u[j] = y
  BY DEF InTurn
<1> Len(u) \in Nat /\ \A k \in 1..Len(u) : u[k] \in Nat
  BY LenProperties, ElementOfSeq
<1>1. ASSUME y \notin B PROVE \E j \in 1..(i - 1) : u[j] = y
  <2>1. PICK j \in 1..Len(u) : u[j] = y
    BY <1>1, RangeIs
  <2>2. j < i
    <3> SUFFICES ASSUME ~(j < i) PROVE FALSE
      OBVIOUS
    <3>1. j = i \/ i < j
      OBVIOUS
    <3>2. u[i] <= u[j]
      BY <3>1 DEF Ascends
    <3> QED BY <3>2, <2>1
  <2> QED BY <2>1, <2>2
<1> QED BY <1>1

LEMMA AscendingIsFresh ==
  ASSUME NEW n \in Nat, NEW u \in Seq(Nat), Ascends(u, n),
         NEW B, \A i \in 1..Len(u) : u[i] \notin B
  PROVE  Fresh(u, B)
<1> Len(u) \in Nat /\ \A k \in 1..Len(u) : u[k] \in Nat
  BY LenProperties, ElementOfSeq
<1> QED BY DEF Fresh, Ascends

-----------------------------------------------------------------------------
(* What a call or an event does to the text: a part of what is pending is  *)
(* sent, and its answer arrives or is lost; a note or what the turn said   *)
(* is added; the reader stops it.                                          *)

LEMMA KeptSends ==
  ASSUME NEW sh \in Seq(Nat), NEW sl \in Seq(Nat), NEW re \in Seq(Nat), NEW ta \in Seq(Nat),
         NEW n \in Nat, Kept(sh, sl \o re, ta, FALSE, n)
  PROVE  Kept(sh \o sl, re, ta, FALSE, n)
<1>1. InTurn(sh, {}, Range(ta)) /\ InTurn(sl, Range(sh), Range(ta))
      /\ InTurn(re, Range(sh) \cup Range(sl), Range(ta))
  BY InTurnJoins DEF Kept
<1>2. InTurn(sl, {} \cup Range(sh), Range(ta))
  BY <1>1, InTurnGrows
<1>3. Range(sl \o re) = Range(sl) \cup Range(re) /\ Range(sh \o sl) = Range(sh) \cup Range(sl)
  BY RangeConcatenation
<1>4. InTurn(sh \o sl, {}, Range(ta))
  BY <1>1, <1>2, InTurnJoins
<1> QED BY <1>1, <1>3, <1>4 DEF Kept

LEMMA KeptLoses ==
  ASSUME NEW sh \in Seq(Nat), NEW sl \in Seq(Nat), NEW re \in Seq(Nat), NEW ta \in Seq(Nat),
         NEW n \in Nat, Kept(sh, sl \o re, ta, FALSE, n)
  PROVE  Kept(sh \o sl, sl \o re, ta, FALSE, n)
<1>1. InTurn(sh, {}, Range(ta)) /\ InTurn(sl, Range(sh), Range(ta))
  BY InTurnJoins DEF Kept
<1>2. InTurn(sl, {} \cup Range(sh), Range(ta))
  BY <1>1, InTurnGrows
<1>3. Range(sl \o re) = Range(sl) \cup Range(re) /\ Range(sh \o sl) = Range(sh) \cup Range(sl)
  BY RangeConcatenation
<1>4. InTurn(sh \o sl, {}, Range(ta))
  BY <1>1, <1>2, InTurnJoins
<1>5. InTurn(sl \o re, Range(sh \o sl), Range(ta))
  BY <1>3, InTurnGrows DEF Kept
<1> QED BY <1>3, <1>4, <1>5 DEF Kept

LEMMA KeptPosts ==
  ASSUME NEW sh \in Seq(Nat), NEW pe \in Seq(Nat), NEW ta \in Seq(Nat),
         NEW n \in Nat, Kept(sh, pe, ta, FALSE, n)
  PROVE  Kept(sh \o pe, pe, ta, FALSE, n)
<1>1. pe \o <<>> = pe /\ <<>> \in Seq(Nat)
  BY ConcatEmptySeq
<1> QED BY <1>1, KeptLoses

LEMMA KeptNotes ==
  ASSUME NEW sh \in Seq(Nat), NEW pe \in Seq(Nat), NEW ta \in Seq(Nat),
         NEW n \in Nat, Kept(sh, pe, ta, FALSE, n)
  PROVE  Kept(sh, Append(pe, Note), ta, FALSE, n)
<1> <<Note>> \in Seq(Nat)
  BY DEF Note
<1>1. Note \in Nat
  BY DEF Note
<1>2. Append(pe, Note) = pe \o <<Note>>
  BY <1>1, AppendIsConcat
<1>3. Range(<<Note>>) = {Note}
  BY DEF Range
<1>4. Range(pe \o <<Note>>) = Range(pe) \cup {Note}
  <2>1. \A s, t \in Seq(Nat) : Range(s \o t) = Range(s) \cup Range(t)
    BY RangeConcatenation
  <2> QED BY <2>1, <1>3
<1>5. InTurn(pe \o <<Note>>, Range(sh), Range(ta))
  BY <1>1, InTurnJoins, NoteIsInTurn DEF Kept
<1> QED BY <1>2, <1>4, <1>5 DEF Kept

LEMMA KeptStops ==
  ASSUME NEW sh \in Seq(Nat), NEW pe \in Seq(Nat), NEW ta \in Seq(Nat), NEW st,
         NEW n \in Nat, Kept(sh, pe, ta, st, n)
  PROVE  Kept(sh, <<>>, ta, TRUE, n)
<1>1. Range(<<>>) = {} /\ Len(<<>>) = 0
  BY DEF Range
<1>2. InTurn(<<>>, Range(sh), Range(ta))
  BY <1>1 DEF InTurn
<1> QED BY <1>1, <1>2 DEF Kept

LEMMA KeptTakes ==
  ASSUME NEW sh \in Seq(Nat), NEW pe \in Seq(Nat), NEW ta \in Seq(Nat), NEW u \in Seq(Nat),
         NEW st \in BOOLEAN, NEW n \in Nat, Kept(sh, pe, ta, st, n), Ascends(u, n),
         \A x \in Range(ta), y \in Range(u) : x < y
  PROVE  Kept(sh, IF st THEN pe ELSE pe \o u, ta \o u, st, n)
<1> /\ Len(ta) \in Nat /\ Len(u) \in Nat
    /\ \A i \in 1..Len(ta) : ta[i] \in Nat
    /\ \A i \in 1..Len(u) : u[i] \in Nat
  BY LenProperties, ElementOfSeq
<1>1. Range(ta \o u) = Range(ta) \cup Range(u) /\ Range(pe \o u) = Range(pe) \cup Range(u)
  BY RangeConcatenation
<1>2. Ascends(ta \o u, n)
  <2> /\ ta \o u \in Seq(Nat) /\ Len(ta \o u) = Len(ta) + Len(u)
      /\ \A i \in 1..Len(ta) + Len(u) : (ta \o u)[i] = IF i <= Len(ta) THEN ta[i] ELSE u[i - Len(ta)]
    BY ConcatProperties
  <2>1. \A i \in 1..Len(ta), j \in 1..Len(u) : ta[i] < u[j]
    BY RangeIs
  <2>2. Ascends(ta, n)
    BY DEF Kept
  <2>3. ASSUME NEW i \in 1..Len(ta \o u) PROVE (ta \o u)[i] \in 1..n
    <3>1. i <= Len(ta) \/ i - Len(ta) \in 1..Len(u)
      OBVIOUS
    <3> QED BY <2>2, <3>1 DEF Ascends
  <2>4. ASSUME NEW i \in 1..Len(ta \o u), NEW j \in 1..Len(ta \o u), i < j
        PROVE  (ta \o u)[i] < (ta \o u)[j]
    <3>1. CASE j <= Len(ta) BY <3>1, <2>2, <2>4 DEF Ascends
    <3>2. CASE i > Len(ta)
      <4>1. i - Len(ta) \in 1..Len(u) /\ j - Len(ta) \in 1..Len(u) /\ i - Len(ta) < j - Len(ta)
        BY <3>2, <2>4
      <4>2. u[i - Len(ta)] < u[j - Len(ta)]
        BY <4>1 DEF Ascends
      <4> QED BY <4>2, <3>2, <2>4
    <3>3. CASE i <= Len(ta) /\ j > Len(ta)
      <4>1. j - Len(ta) \in 1..Len(u)
        BY <3>3
      <4>2. PICK k \in 1..Len(u) : k = j - Len(ta)
        BY <4>1
      <4>3. ta[i] < u[k]
        BY <3>3, <2>1
      <4>4. (ta \o u)[i] = ta[i] /\ (ta \o u)[j] = u[k]
        BY <3>3, <4>2
      <4> QED BY <4>3, <4>4
    <3>4. j <= Len(ta) \/ i > Len(ta) \/ (i <= Len(ta) /\ j > Len(ta))
      OBVIOUS
    <3> QED BY <3>1, <3>2, <3>3, <3>4
  <2> QED BY <2>3, <2>4 DEF Ascends
<1>3. ASSUME NEW s \in Seq(Nat), NEW B, InTurn(s, B, Range(ta)),
             Range(s) \subseteq Range(ta) \cup {Note}
      PROVE  InTurn(s, B, Range(ta \o u))
  <2> SUFFICES ASSUME NEW i \in 1..Len(s), s[i] # Note, NEW y \in Range(ta \o u), y < s[i]
               PROVE  y \in B \/ \E j \in 1..(i - 1) : s[j] = y
    BY DEF InTurn
  <2>1. s[i] \in Range(ta)
    BY <1>3, RangeIs
  <2>2. y \notin Range(u)
    <3> SUFFICES ASSUME y \in Range(u) PROVE FALSE
      OBVIOUS
    <3>1. s[i] < y
      BY <2>1
    <3>2. s[i] \in Nat /\ y \in Nat
      <4>1. Range(u) \subseteq Nat /\ Range(ta) \subseteq Nat
        BY RangeOfSeq
      <4> QED BY <4>1, <2>1
    <3> QED BY <3>1, <3>2
  <2>3. y \in Range(ta)
    BY <2>2, <1>1
  <2> QED BY <2>3, <1>3 DEF InTurn
<1>4. InTurn(sh, {}, Range(ta \o u)) /\ InTurn(pe, Range(sh), Range(ta \o u))
  BY <1>3 DEF Kept
<1>5. ASSUME ~st PROVE InTurn(u, Range(sh) \cup Range(pe), Range(ta \o u))
  <2>1. \A y \in Range(ta \o u) : y \in Range(sh) \cup Range(pe) \/ y \in Range(u)
    BY <1>5, <1>1 DEF Kept
  <2> QED BY <2>1, AscendingIsInTurn
<1>6. CASE st
  BY <1>6, <1>1, <1>2, <1>4 DEF Kept
<1>7. CASE ~st
  <2>1. InTurn(pe \o u, Range(sh), Range(ta \o u))
    BY <1>4, <1>5, <1>7, InTurnJoins
  <2> QED BY <1>7, <1>1, <1>2, <1>4, <2>1 DEF Kept
<1> QED BY <1>6, <1>7

LEMMA KeptGrows ==
  ASSUME NEW sh, NEW pe, NEW ta \in Seq(Nat), NEW st, NEW n \in Nat, NEW m \in Nat, n <= m,
         Kept(sh, pe, ta, st, n)
  PROVE  Kept(sh, pe, ta, st, m)
BY DEF Kept, Ascends

\* No token shows twice, and none that is pending shows.
Unique(sh, pe) == Fresh(sh, {}) /\ Fresh(pe, Range(sh))

LEMMA UniqueSends ==
  ASSUME NEW sh \in Seq(Nat), NEW sl \in Seq(Nat), NEW re \in Seq(Nat), Unique(sh, sl \o re)
  PROVE  Unique(sh \o sl, re)
<1>1. Fresh(sl, Range(sh)) /\ Fresh(re, Range(sh) \cup Range(sl))
  BY FreshJoins DEF Unique
<1>2. Fresh(sl, {} \cup Range(sh))
  BY <1>1, FreshShrinks
<1>3. Fresh(sh \o sl, {})
  BY <1>2, FreshJoins DEF Unique
<1>4. Range(sh \o sl) = Range(sh) \cup Range(sl)
  BY RangeConcatenation
<1> QED BY <1>1, <1>3, <1>4 DEF Unique

LEMMA UniqueNotes ==
  ASSUME NEW sh, NEW pe \in Seq(Nat), Unique(sh, pe)
  PROVE  Unique(sh, Append(pe, Note))
<1> <<Note>> \in Seq(Nat)
  BY DEF Note
<1>1. Append(pe, Note) = pe \o <<Note>>
  BY AppendIsConcat DEF Note
<1>2. Fresh(pe \o <<Note>>, Range(sh))
  BY FreshJoins, NoteIsInTurn DEF Unique
<1> QED BY <1>1, <1>2 DEF Unique

LEMMA UniqueTakes ==
  ASSUME NEW sh \in Seq(Nat), NEW pe \in Seq(Nat), NEW ta \in Seq(Nat), NEW u \in Seq(Nat),
         NEW st \in BOOLEAN, NEW n \in Nat, Kept(sh, pe, ta, st, n), Ascends(u, n),
         \A x \in Range(ta), y \in Range(u) : x < y,
         Unique(sh, pe)
  PROVE  Unique(sh, pe \o u)
<1> Range(sh) \cup Range(pe) \subseteq Range(ta) \cup {Note}
  BY DEF Kept
<1>1. \A i \in 1..Len(u) : u[i] \notin Range(sh) \cup Range(pe)
  <2> SUFFICES ASSUME NEW i \in 1..Len(u), u[i] \in Range(ta) \cup {Note} PROVE FALSE
    OBVIOUS
  <2>1. u[i] \in 1..n /\ u[i] # Note
    BY DEF Ascends, Note
  <2>2. u[i] \in Range(u)
    BY RangeIs
  <2>3. u[i] < u[i]
    BY <2>1, <2>2
  <2> QED BY <2>1, <2>3
<1>2. Fresh(u, Range(sh) \cup Range(pe))
  BY <1>1, AscendingIsFresh
<1> QED BY <1>2, FreshJoins DEF Unique

LEMMA UniqueStops ==
  ASSUME NEW sh, NEW pe, Unique(sh, pe)
  PROVE  Unique(sh, <<>>)
BY DEF Unique, Fresh

\* Where a token first shows: First, of any text.
LEMMA FirstExists ==
  ASSUME NEW s \in Seq(Nat), NEW x \in Range(s)
  PROVE  \E i \in DOMAIN s : s[i] = x /\ \A j \in 1..(i - 1) : s[j] # x
<1> Len(s) \in Nat /\ DOMAIN s = 1..Len(s)
  BY LenProperties
<1> DEFINE S == {i \in 1..Len(s) : s[i] = x}
<1>1. S \subseteq Nat /\ S # {}
  BY RangeIs
<1>2. PICK i \in S : \A j \in S : ~(<<j, i>> \in OpToRel(<, Nat))
  BY <1>1, WFMin, NatLessThanWellFounded
<1>3. \A j \in S : ~(j < i)
  BY <1>1, <1>2 DEF OpToRel
<1>4. ASSUME NEW j \in 1..(i - 1) PROVE s[j] # x
  BY <1>3
<1> QED BY <1>4

-----------------------------------------------------------------------------
(* The plans of a renderer: in its loop over the events, ...               *)

Waiting == {<<"next">>, <<"status", "next">>}
Loop ==
    Waiting \cup
    {<<"working", "next">>, <<"flush", "next">>, <<"chunk", "next">>,
     <<"flush", "chunk", "next">>, <<"chunk", "flush", "chunk", "next">>,
     <<"flush", "chunk", "flush", "chunk", "next">>}
\* ... when the text is finished, and nothing or something follows, ...
Bare == {<<"flush", "stop", "post">>, <<"stop", "post">>, <<"post">>}
ClosingAsk ==
    {<<"flush", "stop", "post", "files", "prompt">>, <<"stop", "post", "files", "prompt">>,
     <<"post", "files", "prompt">>}
ClosingClear ==
    {<<"flush", "stop", "post", "files", "clear">>, <<"stop", "post", "files", "clear">>,
     <<"post", "files", "clear">>}
\* ... in the catch clause, ...
Salvage ==
    {<<"flush", "flush", "stop", "post", "wipe">>, <<"flush", "stop", "post", "wipe">>,
     <<"stop", "post", "wipe">>, <<"post", "wipe">>}
\* ... and when the text is out.
Asking == {<<"files", "prompt">>, <<"prompt">>, <<"files", "prompt", "awaiting">>, <<"prompt", "awaiting">>}
Ending ==
    Asking \cup {<<>>, <<"files", "clear">>, <<"clear">>, <<"wipe">>,
                 <<"awaiting">>, <<"outcome", "files">>, <<"files">>, <<"failed">>}
Closing == Bare \cup ClosingAsk \cup ClosingClear
Plans == Loop \cup Closing \cup Salvage \cup Ending

\* The plans of each of the three.
Leaving == {<<"files", "prompt">>, <<"prompt">>, <<"files", "clear">>, <<"clear">>, <<"wipe">>, <<>>}
StreamPlans == (Loop \ {<<"working", "next">>}) \cup Closing \cup Salvage \cup Leaving
OncePlans == Waiting \cup {<<"post", "files", "clear">>} \cup Leaving
ResumePlans ==
    {<<"working", "next">>, <<"next">>, <<"files", "prompt", "awaiting">>, <<"prompt", "awaiting">>,
     <<"awaiting">>, <<"outcome", "files">>, <<"files">>, <<"failed">>, <<>>}

Types == {"delta", "requested", "acted", "attached"} \cup Outcomes
Mode == [kind : {"stream", "once", "resume"}, live : BOOLEAN, status : BOOLEAN, tasks : BOOLEAN, hold : BOOLEAN]
ATurn == [said : Nat, step : Seq(Nat), calls : Nat, state : {"running"} \cup Outcomes]
AnEvent == [type : Types, text : Seq(Nat)]
Renderer ==
    [plan : Plans, pending : Seq(Nat), final : Seq(Nat), step : Seq(Nat), files : BOOLEAN,
     started : BOOLEAN, ts : BOOLEAN, stopped : BOOLEAN, broken : BOOLEAN,
     streamed : BOOLEAN, posted : BOOLEAN, statusShown : BOOLEAN, caught : BOOLEAN,
     taken : Seq(Nat), gaveUp : BOOLEAN, missed : BOOLEAN, lost : BOOLEAN, loud : BOOLEAN]
Thread ==
    [shown : Seq(Nat), stream : {"none", "open", "stopped", "closed"}, status : BOOLEAN,
     asked : BOOLEAN, message : {"buttons", "working", "awaiting", "outcome", "failed"}]

ReplyTypes ==
    /\ mode \in Mode /\ turn \in ATurn /\ queue \in Seq(AnEvent) /\ link \in {"up", "cut", "dropped"}
    /\ r \in Renderer /\ thread \in Thread
    /\ mode.kind # "stream" => ~mode.live /\ ~mode.tasks /\ ~mode.hold

\* Which plans go with which renderer, and what a plan tells of the renderer.
PlanInv ==
    /\ r.ts \/ r.broken \/ r.stopped \/ thread.stream # "none" => r.started
    /\ mode.kind = "stream" => r.plan \in StreamPlans
    /\ mode.kind = "once" => r.plan \in OncePlans
    /\ mode.kind = "resume" => r.plan \in ResumePlans /\ r.taken = <<>> /\ r.pending = <<>> /\ ~thread.status
    /\ mode.kind # "stream" => ~r.started /\ ~r.streamed
    /\ r.plan \in Salvage => r.caught
    /\ r.caught => r.plan \in Salvage \cup {<<>>, <<"wipe">>, <<"failed">>}
    /\ r.plan = <<"status", "next">> => ~r.started
    /\ mode.hold /\ ~mode.tasks /\ r.plan \in Loop => ~r.started /\ r.plan \in Waiting
    /\ r.plan \in Loop => ~r.posted
    /\ r.plan \in Asking \cup ClosingAsk => turn.state = "parked"
    /\ thread.asked => r.plan \in Salvage \cup {<<>>, <<"wipe">>, <<"awaiting">>, <<"failed">>}

\* What is on its way was said after what was taken, and an outcome is the turn's.
EventInv ==
    /\ Ascends(turn.step, turn.said) /\ Ascends(r.final, turn.said)
    /\ \A i \in 1..Len(queue) :
           /\ queue[i].type \in Outcomes => turn.state = queue[i].type
           /\ queue[i].type = "completed" => Ascends(queue[i].text, turn.said)
           /\ queue[i].type = "delta" =>
                 /\ Len(queue[i].text) = 1 /\ queue[i].text[1] \in 1..turn.said
                 /\ r.plan \in Loop => \A x \in Range(r.taken) : x < queue[i].text[1]
    /\ \A i, j \in 1..Len(queue) : i < j /\ queue[i].type = "delta" /\ queue[j].type = "delta" =>
           queue[i].text[1] < queue[j].text[1]

TextInv ==
    /\ Kept(thread.shown, r.pending, r.taken, r.stopped, turn.said)
    /\ r.plan \in Loop /\ ~r.streamed => r.taken = <<>>

FlushedOut == r.pending = <<>> \/ r.stopped \/ r.broken \/ ~r.ts
Salvaged == r.stopped \/ r.gaveUp \/ Range(r.taken) \subseteq Range(thread.shown)
OutInv ==
    /\ r.plan \in Ending \/ thread.asked => Salvaged
    /\ r.plan \in Closing \cup Salvage /\ Head(r.plan) # "flush" => FlushedOut
    /\ r.plan \in Loop /\ Head(r.plan) # "flush" /\ ~r.started => r.pending = <<>>

Twice == r.lost \/ (turn.state = "parked" /\ r.caught /\ ~thread.asked)
OnceInv ==
    Twice \/ /\ Fresh(thread.shown, {})
             /\ r.plan \notin Ending => Unique(thread.shown, r.pending)

LingerInv ==
    /\ thread.status => r.statusShown /\ ~r.ts /\ ~r.stopped /\ (r.posted => r.missed)
    /\ thread.status /\ ~r.missed /\ turn.state # "cancelled" =>
           r.plan # <<>> /\ (r.plan \in Bare => r.pending # <<>>)
    /\ mode.kind = "resume" /\ ~r.missed /\ r.plan \in {<<>>, <<"files">>} =>
           thread.message \notin {"buttons", "working"}

ReplyInv == ReplyTypes /\ PlanInv /\ EventInv /\ TextInv /\ OutInv /\ OnceInv /\ LingerInv
-----------------------------------------------------------------------------
(* Plans.  At each call or read, what follows it is of the same phase.     *)

LEMMA Tails ==
  ASSUME NEW a, NEW b, NEW c, NEW d, NEW e
  PROVE  /\ Tail(<<a>>) = <<>> /\ Tail(<<a, b>>) = <<b>> /\ Tail(<<a, b, c>>) = <<b, c>>
         /\ Tail(<<a, b, c, d>>) = <<b, c, d>> /\ Tail(<<a, b, c, d, e>>) = <<b, c, d, e>>
OBVIOUS

SamePhase(p, t) ==
    /\ t \in Plans
    /\ p \in Loop <=> t \in Loop
    /\ p \in Bare <=> t \in Bare
    /\ p \in ClosingAsk <=> t \in ClosingAsk
    /\ p \in ClosingClear <=> t \in ClosingClear
    /\ p \in Salvage <=> t \in Salvage

\* A call that only a stream makes: the plan before it, and the plan after it.
OfStream(p, t) == p \notin OncePlans \cup ResumePlans /\ (p \in StreamPlans => t \in StreamPlans)

LEMMA AtFlush ==
  ASSUME NEW p \in Plans, p # <<>>, Head(p) = "flush"
  PROVE  /\ SamePhase(p, Tail(p)) /\ OfStream(p, Tail(p)) /\ p \notin Ending /\ Tail(p) \notin Ending
         /\ p \notin Waiting /\ Tail(p) # <<"status", "next">>
<1>1. p \in {<<"flush", "next">>, <<"flush", "chunk", "next">>, <<"flush", "chunk", "flush", "chunk", "next">>, <<"flush", "stop", "post">>, <<"flush", "stop", "post", "files", "prompt">>, <<"flush", "stop", "post", "files", "clear">>, <<"flush", "flush", "stop", "post", "wipe">>, <<"flush", "stop", "post", "wipe">>}
  BY DEF Plans, Waiting, Loop, Closing, Bare, ClosingAsk, ClosingClear, Salvage, Asking, Ending
<1>2. CASE p = <<"flush", "next">>
  <2>1. Tail(p) = <<"next">>
    BY <1>2, Tails
  <2> QED BY <1>2, <2>1 DEF SamePhase, OfStream, Plans, Waiting, Loop, Closing, Bare, ClosingAsk, ClosingClear, Salvage, Asking, Ending, Leaving, StreamPlans, OncePlans, ResumePlans
<1>3. CASE p = <<"flush", "chunk", "next">>
  <2>1. Tail(p) = <<"chunk", "next">>
    BY <1>3, Tails
  <2> QED BY <1>3, <2>1 DEF SamePhase, OfStream, Plans, Waiting, Loop, Closing, Bare, ClosingAsk, ClosingClear, Salvage, Asking, Ending, Leaving, StreamPlans, OncePlans, ResumePlans
<1>4. CASE p = <<"flush", "chunk", "flush", "chunk", "next">>
  <2>1. Tail(p) = <<"chunk", "flush", "chunk", "next">>
    BY <1>4, Tails
  <2> QED BY <1>4, <2>1 DEF SamePhase, OfStream, Plans, Waiting, Loop, Closing, Bare, ClosingAsk, ClosingClear, Salvage, Asking, Ending, Leaving, StreamPlans, OncePlans, ResumePlans
<1>5. CASE p = <<"flush", "stop", "post">>
  <2>1. Tail(p) = <<"stop", "post">>
    BY <1>5, Tails
  <2> QED BY <1>5, <2>1 DEF SamePhase, OfStream, Plans, Waiting, Loop, Closing, Bare, ClosingAsk, ClosingClear, Salvage, Asking, Ending, Leaving, StreamPlans, OncePlans, ResumePlans
<1>6. CASE p = <<"flush", "stop", "post", "files", "prompt">>
  <2>1. Tail(p) = <<"stop", "post", "files", "prompt">>
    BY <1>6, Tails
  <2> QED BY <1>6, <2>1 DEF SamePhase, OfStream, Plans, Waiting, Loop, Closing, Bare, ClosingAsk, ClosingClear, Salvage, Asking, Ending, Leaving, StreamPlans, OncePlans, ResumePlans
<1>7. CASE p = <<"flush", "stop", "post", "files", "clear">>
  <2>1. Tail(p) = <<"stop", "post", "files", "clear">>
    BY <1>7, Tails
  <2> QED BY <1>7, <2>1 DEF SamePhase, OfStream, Plans, Waiting, Loop, Closing, Bare, ClosingAsk, ClosingClear, Salvage, Asking, Ending, Leaving, StreamPlans, OncePlans, ResumePlans
<1>8. CASE p = <<"flush", "flush", "stop", "post", "wipe">>
  <2>1. Tail(p) = <<"flush", "stop", "post", "wipe">>
    BY <1>8, Tails
  <2> QED BY <1>8, <2>1 DEF SamePhase, OfStream, Plans, Waiting, Loop, Closing, Bare, ClosingAsk, ClosingClear, Salvage, Asking, Ending, Leaving, StreamPlans, OncePlans, ResumePlans
<1>9. CASE p = <<"flush", "stop", "post", "wipe">>
  <2>1. Tail(p) = <<"stop", "post", "wipe">>
    BY <1>9, Tails
  <2> QED BY <1>9, <2>1 DEF SamePhase, OfStream, Plans, Waiting, Loop, Closing, Bare, ClosingAsk, ClosingClear, Salvage, Asking, Ending, Leaving, StreamPlans, OncePlans, ResumePlans
<1> QED BY <1>1, <1>2, <1>3, <1>4, <1>5, <1>6, <1>7, <1>8, <1>9

LEMMA AtChunk ==
  ASSUME NEW p \in Plans, p # <<>>, Head(p) = "chunk"
  PROVE  /\ p \in Loop /\ Tail(p) \in Loop /\ SamePhase(p, Tail(p)) /\ OfStream(p, Tail(p))
         /\ p \notin Ending /\ Tail(p) \notin Ending /\ p \notin Waiting /\ Tail(p) # <<"status", "next">>
<1>1. p \in {<<"chunk", "next">>, <<"chunk", "flush", "chunk", "next">>}
  BY DEF Plans, Waiting, Loop, Closing, Bare, ClosingAsk, ClosingClear, Salvage, Asking, Ending
<1>2. CASE p = <<"chunk", "next">>
  <2>1. Tail(p) = <<"next">>
    BY <1>2, Tails
  <2> QED BY <1>2, <2>1 DEF SamePhase, OfStream, Plans, Waiting, Loop, Closing, Bare, ClosingAsk, ClosingClear, Salvage, Asking, Ending, Leaving, StreamPlans, OncePlans, ResumePlans
<1>3. CASE p = <<"chunk", "flush", "chunk", "next">>
  <2>1. Tail(p) = <<"flush", "chunk", "next">>
    BY <1>3, Tails
  <2> QED BY <1>3, <2>1 DEF SamePhase, OfStream, Plans, Waiting, Loop, Closing, Bare, ClosingAsk, ClosingClear, Salvage, Asking, Ending, Leaving, StreamPlans, OncePlans, ResumePlans
<1> QED BY <1>1, <1>2, <1>3

LEMMA AtStop ==
  ASSUME NEW p \in Plans, p # <<>>, Head(p) = "stop"
  PROVE  /\ SamePhase(p, Tail(p)) /\ OfStream(p, Tail(p)) /\ p \notin Ending /\ Tail(p) \notin Ending
         /\ p \notin Loop
<1>1. p \in {<<"stop", "post">>, <<"stop", "post", "files", "prompt">>, <<"stop", "post", "files", "clear">>, <<"stop", "post", "wipe">>}
  BY DEF Plans, Waiting, Loop, Closing, Bare, ClosingAsk, ClosingClear, Salvage, Asking, Ending
<1>2. CASE p = <<"stop", "post">>
  <2>1. Tail(p) = <<"post">>
    BY <1>2, Tails
  <2> QED BY <1>2, <2>1 DEF SamePhase, OfStream, Plans, Waiting, Loop, Closing, Bare, ClosingAsk, ClosingClear, Salvage, Asking, Ending, Leaving, StreamPlans, OncePlans, ResumePlans
<1>3. CASE p = <<"stop", "post", "files", "prompt">>
  <2>1. Tail(p) = <<"post", "files", "prompt">>
    BY <1>3, Tails
  <2> QED BY <1>3, <2>1 DEF SamePhase, OfStream, Plans, Waiting, Loop, Closing, Bare, ClosingAsk, ClosingClear, Salvage, Asking, Ending, Leaving, StreamPlans, OncePlans, ResumePlans
<1>4. CASE p = <<"stop", "post", "files", "clear">>
  <2>1. Tail(p) = <<"post", "files", "clear">>
    BY <1>4, Tails
  <2> QED BY <1>4, <2>1 DEF SamePhase, OfStream, Plans, Waiting, Loop, Closing, Bare, ClosingAsk, ClosingClear, Salvage, Asking, Ending, Leaving, StreamPlans, OncePlans, ResumePlans
<1>5. CASE p = <<"stop", "post", "wipe">>
  <2>1. Tail(p) = <<"post", "wipe">>
    BY <1>5, Tails
  <2> QED BY <1>5, <2>1 DEF SamePhase, OfStream, Plans, Waiting, Loop, Closing, Bare, ClosingAsk, ClosingClear, Salvage, Asking, Ending, Leaving, StreamPlans, OncePlans, ResumePlans
<1> QED BY <1>1, <1>2, <1>3, <1>4, <1>5

LEMMA AtPost ==
  ASSUME NEW p \in Plans, p # <<>>, Head(p) = "post"
  PROVE  /\ p \in Bare => Tail(p) = <<>>
         /\ p \in ClosingAsk => Tail(p) = <<"files", "prompt">>
         /\ p \in ClosingClear => Tail(p) = <<"files", "clear">>
         /\ p \in Salvage => Tail(p) = <<"wipe">>
         /\ p \in Closing \cup Salvage /\ p \notin Ending /\ p \notin Loop /\ p \notin ResumePlans
         /\ p \in OncePlans => p \in ClosingClear
<1>1. p \in {<<"post">>, <<"post", "files", "prompt">>, <<"post", "files", "clear">>, <<"post", "wipe">>}
  BY DEF Plans, Waiting, Loop, Closing, Bare, ClosingAsk, ClosingClear, Salvage, Asking, Ending
<1>2. CASE p = <<"post">>
  <2>1. Tail(p) = <<>>
    BY <1>2, Tails
  <2> QED BY <1>2, <2>1 DEF SamePhase, OfStream, Plans, Waiting, Loop, Closing, Bare, ClosingAsk, ClosingClear, Salvage, Asking, Ending, Leaving, StreamPlans, OncePlans, ResumePlans
<1>3. CASE p = <<"post", "files", "prompt">>
  <2>1. Tail(p) = <<"files", "prompt">>
    BY <1>3, Tails
  <2> QED BY <1>3, <2>1 DEF SamePhase, OfStream, Plans, Waiting, Loop, Closing, Bare, ClosingAsk, ClosingClear, Salvage, Asking, Ending, Leaving, StreamPlans, OncePlans, ResumePlans
<1>4. CASE p = <<"post", "files", "clear">>
  <2>1. Tail(p) = <<"files", "clear">>
    BY <1>4, Tails
  <2> QED BY <1>4, <2>1 DEF SamePhase, OfStream, Plans, Waiting, Loop, Closing, Bare, ClosingAsk, ClosingClear, Salvage, Asking, Ending, Leaving, StreamPlans, OncePlans, ResumePlans
<1>5. CASE p = <<"post", "wipe">>
  <2>1. Tail(p) = <<"wipe">>
    BY <1>5, Tails
  <2> QED BY <1>5, <2>1 DEF SamePhase, OfStream, Plans, Waiting, Loop, Closing, Bare, ClosingAsk, ClosingClear, Salvage, Asking, Ending, Leaving, StreamPlans, OncePlans, ResumePlans
<1> QED BY <1>1, <1>2, <1>3, <1>4, <1>5

\* A plan is of one phase only.
LEMMA PhasesApart ==
  /\ \A p \in Loop : p \notin Closing \cup Salvage \cup Ending
  /\ \A p \in Closing : p \notin Salvage \cup Ending
  /\ \A p \in Bare : p \notin ClosingAsk \cup ClosingClear
  /\ \A p \in ClosingAsk : p \notin ClosingClear
  /\ \A p \in Salvage : p \notin Ending /\ p \in StreamPlans /\ p \notin OncePlans \cup ResumePlans
  /\ \A p \in Bare \cup ClosingAsk : p \in StreamPlans /\ p \notin OncePlans \cup ResumePlans
  /\ \A p \in Asking \cup ResumePlans : p \notin Closing \cup Salvage
<1>1. \A p \in Loop : p \notin Closing \cup Salvage \cup Ending
  BY DEF Plans, Waiting, Loop, Closing, Bare, ClosingAsk, ClosingClear, Salvage, Asking, Ending, Leaving,
         StreamPlans, OncePlans, ResumePlans
<1>2. \A p \in Closing : p \notin Salvage \cup Ending
  <2>1. \A p \in Bare : p \notin Salvage \cup Ending
    <3>1. <<"flush", "stop", "post">> \notin Salvage \cup Ending
      BY DEF Salvage, Asking, Ending
    <3>2. <<"stop", "post">> \notin Salvage \cup Ending
      BY DEF Salvage, Asking, Ending
    <3>3. <<"post">> \notin Salvage \cup Ending
      BY DEF Salvage, Asking, Ending
    <3> QED BY <3>1, <3>2, <3>3 DEF Bare
  <2>2. \A p \in ClosingAsk : p \notin Salvage \cup Ending
    BY DEF ClosingAsk, Salvage, Asking, Ending
  <2>3. \A p \in ClosingClear : p \notin Salvage \cup Ending
    BY DEF ClosingClear, Salvage, Asking, Ending
  <2> QED BY <2>1, <2>2, <2>3 DEF Closing
<1>3. \A p \in Bare : p \notin ClosingAsk \cup ClosingClear
  BY DEF Plans, Waiting, Loop, Closing, Bare, ClosingAsk, ClosingClear, Salvage, Asking, Ending, Leaving,
         StreamPlans, OncePlans, ResumePlans
<1>4. \A p \in ClosingAsk : p \notin ClosingClear
  BY DEF Plans, Waiting, Loop, Closing, Bare, ClosingAsk, ClosingClear, Salvage, Asking, Ending, Leaving,
         StreamPlans, OncePlans, ResumePlans
<1>5. \A p \in Salvage : p \notin Ending /\ p \in StreamPlans /\ p \notin OncePlans \cup ResumePlans
  BY DEF Plans, Waiting, Loop, Closing, Bare, ClosingAsk, ClosingClear, Salvage, Asking, Ending, Leaving,
         StreamPlans, OncePlans, ResumePlans
<1>6. \A p \in Bare \cup ClosingAsk : p \in StreamPlans /\ p \notin OncePlans \cup ResumePlans
  BY SMTT(20) DEF Plans, Waiting, Loop, Closing, Bare, ClosingAsk, ClosingClear, Salvage, Asking, Ending, Leaving,
         StreamPlans, OncePlans, ResumePlans
<1>7. \A p \in Asking \cup ResumePlans : p \notin Closing \cup Salvage
  BY DEF Plans, Waiting, Loop, Closing, Bare, ClosingAsk, ClosingClear, Salvage, Asking, Ending, Leaving,
         StreamPlans, OncePlans, ResumePlans
<1> QED BY <1>1, <1>2, <1>3, <1>4, <1>5, <1>6, <1>7

LEMMA AtOthers ==
  ASSUME NEW p \in Plans, p # <<>>
  PROVE  /\ Head(p) = "next" => p = <<"next">> /\ Tail(p) = <<>>
         /\ Head(p) = "status" => p = <<"status", "next">> /\ Tail(p) = <<"next">>
         /\ Head(p) = "wipe" => p = <<"wipe">> /\ Tail(p) = <<>>
         /\ Head(p) = "clear" => p = <<"clear">> /\ Tail(p) = <<>>
         /\ Head(p) = "files" => \/ p = <<"files", "prompt">> /\ Tail(p) = <<"prompt">>
                                 \/ p = <<"files", "clear">> /\ Tail(p) = <<"clear">>
                                 \/ p = <<"files", "prompt", "awaiting">> /\ Tail(p) = <<"prompt", "awaiting">>
                                 \/ p = <<"files">> /\ Tail(p) = <<>>
         /\ Head(p) = "prompt" => \/ p = <<"prompt">> /\ Tail(p) = <<>>
                                  \/ p = <<"prompt", "awaiting">> /\ Tail(p) = <<"awaiting">>
         /\ Head(p) = "working" => p = <<"working", "next">> /\ Tail(p) = <<"next">>
         /\ Head(p) = "awaiting" => p = <<"awaiting">> /\ Tail(p) = <<>>
         /\ Head(p) = "outcome" => p = <<"outcome", "files">> /\ Tail(p) = <<"files">>
         /\ Head(p) = "failed" => p = <<"failed">> /\ Tail(p) = <<>>
<1>1. /\ Head(p) = "next" => p = <<"next">>
      /\ Head(p) = "status" => p = <<"status", "next">>
      /\ Head(p) = "wipe" => p = <<"wipe">>
      /\ Head(p) = "clear" => p = <<"clear">>
      /\ Head(p) = "files" => p \in {<<"files", "prompt">>, <<"files", "clear">>, <<"files", "prompt", "awaiting">>, <<"files">>}
      /\ Head(p) = "prompt" => p \in {<<"prompt">>, <<"prompt", "awaiting">>}
      /\ Head(p) = "working" => p = <<"working", "next">>
      /\ Head(p) = "awaiting" => p = <<"awaiting">>
      /\ Head(p) = "outcome" => p = <<"outcome", "files">>
      /\ Head(p) = "failed" => p = <<"failed">>
  BY DEF Plans, Waiting, Loop, Closing, Bare, ClosingAsk, ClosingClear, Salvage, Asking, Ending
<1>2. /\ Tail(<<"next">>) = <<>> /\ Tail(<<"status", "next">>) = <<"next">> /\ Tail(<<"wipe">>) = <<>>
      /\ Tail(<<"clear">>) = <<>> /\ Tail(<<"files", "prompt">>) = <<"prompt">>
      /\ Tail(<<"files", "clear">>) = <<"clear">> /\ Tail(<<"files">>) = <<>>
      /\ Tail(<<"files", "prompt", "awaiting">>) = <<"prompt", "awaiting">>
      /\ Tail(<<"prompt">>) = <<>> /\ Tail(<<"prompt", "awaiting">>) = <<"awaiting">>
      /\ Tail(<<"working", "next">>) = <<"next">> /\ Tail(<<"awaiting">>) = <<>>
      /\ Tail(<<"outcome", "files">>) = <<"files">> /\ Tail(<<"failed">>) = <<>>
  BY Tails
<1> QED BY <1>1, <1>2, ZenonT(30)

LEMMA EndingPlans ==
  /\ Ending \subseteq Plans
  /\ \A p \in {<<>>, <<"wipe">>, <<"files", "clear">>, <<"clear">>} :
        p \in Ending \ Asking /\ p \in StreamPlans \cap OncePlans
  /\ \A p \in {<<"files", "prompt">>, <<"prompt">>} : p \in Asking \cap Ending /\ p \in StreamPlans \cap OncePlans
  /\ \A p \in {<<"files", "prompt", "awaiting">>, <<"prompt", "awaiting">>} :
        p \in Asking \cap Ending /\ p \in ResumePlans \ (StreamPlans \cup OncePlans)
  /\ \A p \in {<<"files">>, <<"awaiting">>, <<"outcome", "files">>, <<"failed">>} :
        p \in Ending \ Asking /\ p \in ResumePlans \ (StreamPlans \cup OncePlans)
  /\ <<>> \in ResumePlans
  /\ <<"next">> \in Waiting \cap Loop /\ <<"next">> \in StreamPlans \cap OncePlans /\ <<"next">> \in ResumePlans
  /\ <<"status", "next">> \in Waiting \cap Loop /\ <<"status", "next">> \in StreamPlans \cap OncePlans
  /\ <<"status", "next">> \notin ResumePlans
  /\ <<"working", "next">> \in Loop /\ <<"working", "next">> \in ResumePlans \ (StreamPlans \cup OncePlans)
  /\ Loop \cup Closing \cup Salvage \subseteq Plans
BY DEF Plans, Waiting, Loop, Closing, Bare, ClosingAsk, ClosingClear, Salvage, Asking, Ending, Leaving,
       StreamPlans, OncePlans, ResumePlans

LEMMA ConcatIs ==
  ASSUME NEW S, NEW u \in Seq(S), NEW v \in Seq(S), NEW w \in Seq(S), Len(w) = Len(u) + Len(v),
         \A i \in 1..Len(u) : w[i] = u[i], \A i \in 1..Len(v) : w[Len(u) + i] = v[i]
  PROVE  u \o v = w
<1>1. /\ u \o v \in Seq(S) /\ Len(u \o v) = Len(u) + Len(v)
      /\ \A i \in 1..Len(u) + Len(v) : (u \o v)[i] = IF i <= Len(u) THEN u[i] ELSE v[i - Len(u)]
  BY ConcatProperties
<1>2. Len(u) \in Nat /\ Len(v) \in Nat
  BY LenProperties
<1>3. ASSUME NEW i \in 1..Len(w) PROVE (u \o v)[i] = w[i]
  <2>1. CASE i <= Len(u) BY <1>1, <2>1, <1>2
  <2>2. CASE i > Len(u)
    <3>1. i - Len(u) \in 1..Len(v) BY <2>2, <1>2
    <3>2. w[Len(u) + (i - Len(u))] = v[i - Len(u)] BY <3>1
    <3>3. Len(u) + (i - Len(u)) = i BY <1>2
    <3> QED BY <1>1, <2>2, <3>2, <3>3, <1>2
  <2> QED BY <2>1, <2>2, <1>2
<1> QED BY <1>1, <1>3, SeqEqual

\* Lists of calls put together.
LEMMA Joined ==
  /\ \A a, b : <<a>> \o <<b>> = <<a, b>>
  /\ \A a, b, c : <<a>> \o <<b, c>> = <<a, b, c>>
  /\ \A a, b, c, d : <<a>> \o <<b, c, d>> = <<a, b, c, d>>
  /\ \A a, b, c : <<a, b>> \o <<c>> = <<a, b, c>>
  /\ \A a, b, c, d : <<a, b>> \o <<c, d>> = <<a, b, c, d>>
  /\ \A a, b, c, d : <<a, b, c>> \o <<d>> = <<a, b, c, d>>
  /\ \A a, b, c, d, e : <<a, b, c>> \o <<d, e>> = <<a, b, c, d, e>>
  /\ \A a, b, c, d, e : <<a, b, c, d>> \o <<e>> = <<a, b, c, d, e>>
<1>1. ASSUME NEW a, NEW b PROVE <<a>> \o <<b>> = <<a, b>>
  <2>1. PICK u, v, w : u = <<a>> /\ v = <<b>> /\ w = <<a, b>>
    OBVIOUS
  <2>2. u \in Seq({a, b}) /\ v \in Seq({a, b}) /\ w \in Seq({a, b})
    BY <2>1
  <2>3. Len(u) = 1 /\ Len(v) = 1 /\ Len(w) = 2
    BY <2>1
  <2>4. \A i \in 1..1 : w[i] = u[i]
    BY <2>1
  <2>5. \A i \in 1..1 : w[1 + i] = v[i]
    BY <2>1
  <2>6. /\ Len(w) = Len(u) + Len(v) /\ \A i \in 1..Len(u) : w[i] = u[i]
        /\ \A i \in 1..Len(v) : w[Len(u) + i] = v[i]
    BY <2>3, <2>4, <2>5
  <2>7. u \o v = w
    BY <2>2, <2>6, ConcatIs
  <2> QED BY <2>1, <2>7
<1>2. ASSUME NEW a, NEW b, NEW c PROVE <<a>> \o <<b, c>> = <<a, b, c>>
  <2>1. PICK u, v, w : u = <<a>> /\ v = <<b, c>> /\ w = <<a, b, c>>
    OBVIOUS
  <2>2. u \in Seq({a, b, c}) /\ v \in Seq({a, b, c}) /\ w \in Seq({a, b, c})
    BY <2>1
  <2>3. Len(u) = 1 /\ Len(v) = 2 /\ Len(w) = 3
    BY <2>1
  <2>4. \A i \in 1..1 : w[i] = u[i]
    BY <2>1
  <2>5. \A i \in 1..2 : w[1 + i] = v[i]
    BY <2>1
  <2>6. /\ Len(w) = Len(u) + Len(v) /\ \A i \in 1..Len(u) : w[i] = u[i]
        /\ \A i \in 1..Len(v) : w[Len(u) + i] = v[i]
    BY <2>3, <2>4, <2>5
  <2>7. u \o v = w
    BY <2>2, <2>6, ConcatIs
  <2> QED BY <2>1, <2>7
<1>3. ASSUME NEW a, NEW b, NEW c, NEW d PROVE <<a>> \o <<b, c, d>> = <<a, b, c, d>>
  <2>1. PICK u, v, w : u = <<a>> /\ v = <<b, c, d>> /\ w = <<a, b, c, d>>
    OBVIOUS
  <2>2. u \in Seq({a, b, c, d}) /\ v \in Seq({a, b, c, d}) /\ w \in Seq({a, b, c, d})
    BY <2>1
  <2>3. Len(u) = 1 /\ Len(v) = 3 /\ Len(w) = 4
    BY <2>1
  <2>4. \A i \in 1..1 : w[i] = u[i]
    BY <2>1
  <2>5. \A i \in 1..3 : w[1 + i] = v[i]
    BY <2>1
  <2>6. /\ Len(w) = Len(u) + Len(v) /\ \A i \in 1..Len(u) : w[i] = u[i]
        /\ \A i \in 1..Len(v) : w[Len(u) + i] = v[i]
    BY <2>3, <2>4, <2>5
  <2>7. u \o v = w
    BY <2>2, <2>6, ConcatIs
  <2> QED BY <2>1, <2>7
<1>4. ASSUME NEW a, NEW b, NEW c PROVE <<a, b>> \o <<c>> = <<a, b, c>>
  <2>1. PICK u, v, w : u = <<a, b>> /\ v = <<c>> /\ w = <<a, b, c>>
    OBVIOUS
  <2>2. u \in Seq({a, b, c}) /\ v \in Seq({a, b, c}) /\ w \in Seq({a, b, c})
    BY <2>1
  <2>3. Len(u) = 2 /\ Len(v) = 1 /\ Len(w) = 3
    BY <2>1
  <2>4. \A i \in 1..2 : w[i] = u[i]
    BY <2>1
  <2>5. \A i \in 1..1 : w[2 + i] = v[i]
    BY <2>1
  <2>6. /\ Len(w) = Len(u) + Len(v) /\ \A i \in 1..Len(u) : w[i] = u[i]
        /\ \A i \in 1..Len(v) : w[Len(u) + i] = v[i]
    BY <2>3, <2>4, <2>5
  <2>7. u \o v = w
    BY <2>2, <2>6, ConcatIs
  <2> QED BY <2>1, <2>7
<1>5. ASSUME NEW a, NEW b, NEW c, NEW d PROVE <<a, b>> \o <<c, d>> = <<a, b, c, d>>
  <2>1. PICK u, v, w : u = <<a, b>> /\ v = <<c, d>> /\ w = <<a, b, c, d>>
    OBVIOUS
  <2>2. u \in Seq({a, b, c, d}) /\ v \in Seq({a, b, c, d}) /\ w \in Seq({a, b, c, d})
    BY <2>1
  <2>3. Len(u) = 2 /\ Len(v) = 2 /\ Len(w) = 4
    BY <2>1
  <2>4. \A i \in 1..2 : w[i] = u[i]
    BY <2>1
  <2>5. \A i \in 1..2 : w[2 + i] = v[i]
    BY <2>1
  <2>6. /\ Len(w) = Len(u) + Len(v) /\ \A i \in 1..Len(u) : w[i] = u[i]
        /\ \A i \in 1..Len(v) : w[Len(u) + i] = v[i]
    BY <2>3, <2>4, <2>5
  <2>7. u \o v = w
    BY <2>2, <2>6, ConcatIs
  <2> QED BY <2>1, <2>7
<1>6. ASSUME NEW a, NEW b, NEW c, NEW d PROVE <<a, b, c>> \o <<d>> = <<a, b, c, d>>
  <2>1. PICK u, v, w : u = <<a, b, c>> /\ v = <<d>> /\ w = <<a, b, c, d>>
    OBVIOUS
  <2>2. u \in Seq({a, b, c, d}) /\ v \in Seq({a, b, c, d}) /\ w \in Seq({a, b, c, d})
    BY <2>1
  <2>3. Len(u) = 3 /\ Len(v) = 1 /\ Len(w) = 4
    BY <2>1
  <2>4. \A i \in 1..3 : w[i] = u[i]
    BY <2>1
  <2>5. \A i \in 1..1 : w[3 + i] = v[i]
    BY <2>1
  <2>6. /\ Len(w) = Len(u) + Len(v) /\ \A i \in 1..Len(u) : w[i] = u[i]
        /\ \A i \in 1..Len(v) : w[Len(u) + i] = v[i]
    BY <2>3, <2>4, <2>5
  <2>7. u \o v = w
    BY <2>2, <2>6, ConcatIs
  <2> QED BY <2>1, <2>7
<1>7. ASSUME NEW a, NEW b, NEW c, NEW d, NEW e PROVE <<a, b, c>> \o <<d, e>> = <<a, b, c, d, e>>
  <2>1. PICK u, v, w : u = <<a, b, c>> /\ v = <<d, e>> /\ w = <<a, b, c, d, e>>
    OBVIOUS
  <2>2. u \in Seq({a, b, c, d, e}) /\ v \in Seq({a, b, c, d, e}) /\ w \in Seq({a, b, c, d, e})
    BY <2>1
  <2>3. Len(u) = 3 /\ Len(v) = 2 /\ Len(w) = 5
    BY <2>1
  <2>4. \A i \in 1..3 : w[i] = u[i]
    BY <2>1
  <2>5. \A i \in 1..2 : w[3 + i] = v[i]
    BY <2>1
  <2>6. /\ Len(w) = Len(u) + Len(v) /\ \A i \in 1..Len(u) : w[i] = u[i]
        /\ \A i \in 1..Len(v) : w[Len(u) + i] = v[i]
    BY <2>3, <2>4, <2>5
  <2>7. u \o v = w
    BY <2>2, <2>6, ConcatIs
  <2> QED BY <2>1, <2>7
<1>8. ASSUME NEW a, NEW b, NEW c, NEW d, NEW e PROVE <<a, b, c, d>> \o <<e>> = <<a, b, c, d, e>>
  <2>1. PICK u, v, w : u = <<a, b, c, d>> /\ v = <<e>> /\ w = <<a, b, c, d, e>>
    OBVIOUS
  <2>2. u \in Seq({a, b, c, d, e}) /\ v \in Seq({a, b, c, d, e}) /\ w \in Seq({a, b, c, d, e})
    BY <2>1
  <2>3. Len(u) = 4 /\ Len(v) = 1 /\ Len(w) = 5
    BY <2>1
  <2>4. \A i \in 1..4 : w[i] = u[i]
    BY <2>1
  <2>5. \A i \in 1..1 : w[4 + i] = v[i]
    BY <2>1
  <2>6. /\ Len(w) = Len(u) + Len(v) /\ \A i \in 1..Len(u) : w[i] = u[i]
        /\ \A i \in 1..Len(v) : w[Len(u) + i] = v[i]
    BY <2>3, <2>4, <2>5
  <2>7. u \o v = w
    BY <2>2, <2>6, ConcatIs
  <2> QED BY <2>1, <2>7
<1> QED BY <1>1, <1>2, <1>3, <1>4, <1>5, <1>6, <1>7, <1>8

LEMMA FinishIs ==
  /\ <<"flush">> \o Finish \o <<"wipe">> = <<"flush", "flush", "stop", "post", "wipe">>
  /\ <<>> \o Finish \o <<"wipe">> = <<"flush", "stop", "post", "wipe">>
<1>1. <<"flush", "stop", "post">> \in Seq({"flush", "stop", "post"})
  OBVIOUS
<1>2. <<>> \o <<"flush", "stop", "post">> = <<"flush", "stop", "post">>
  BY <1>1, ConcatEmptySeq
<1>3. <<"flush">> \o <<"flush", "stop", "post">> = <<"flush", "flush", "stop", "post">>
  <2>1. \A a, b, c, d : <<a>> \o <<b, c, d>> = <<a, b, c, d>>
    BY Joined
  <2> QED BY <2>1
<1>4. <<"flush", "stop", "post">> \o <<"wipe">> = <<"flush", "stop", "post", "wipe">>
  <2>1. \A a, b, c, d : <<a, b, c>> \o <<d>> = <<a, b, c, d>>
    BY Joined
  <2> QED BY <2>1
<1>5. <<"flush", "flush", "stop", "post">> \o <<"wipe">> = <<"flush", "flush", "stop", "post", "wipe">>
  <2>1. \A a, b, c, d, e : <<a, b, c, d>> \o <<e>> = <<a, b, c, d, e>>
    BY Joined
  <2> QED BY <2>1
<1> QED BY <1>2, <1>3, <1>4, <1>5, Zenon DEF Finish

\* What the catch clauses make of a renderer.
SameWords(c) == c.taken = r.taken /\ c.stopped = r.stopped /\ c.streamed = r.streamed /\ c.final = r.final
SameStream(c) == c.started = r.started /\ c.ts = r.ts /\ c.broken = r.broken
SameReply(c) == c.posted = r.posted /\ c.statusShown = r.statusShown /\ c.lost = r.lost

LEMMA CatchDoes ==
  ASSUME ReplyTypes, PlanInv, r.plan # <<>>, r.plan # <<"wipe">>, NEW c \in CatchClauses
  PROVE  /\ c \in Renderer /\ c.caught /\ SameWords(c) /\ SameStream(c) /\ SameReply(c)
         /\ (r.gaveUp => c.gaveUp) /\ (r.missed => c.missed)
         /\ \/ c.pending = r.pending
            \/ ~r.stopped /\ mode.kind = "stream" /\ c.pending = Append(r.pending, Note)
         /\ mode.kind = "stream" => \/ c.plan \in Salvage /\ Head(c.plan) = "flush"
                                    \/ c.plan = <<"wipe">> /\ c.gaveUp
         /\ mode.kind = "once" => c.plan = <<"wipe">> /\ (Step("post") => c.gaveUp)
         /\ mode.kind = "resume" => c.plan = <<"failed">> \/ (c.plan = <<>> /\ c.missed)
<1> DEFINE Plan5 == <<"flush", "flush", "stop", "post", "wipe">>
           Plan4 == <<"flush", "stop", "post", "wipe">>
<1>0. /\ Tail(Plan5) = Plan4 /\ Head(Plan5) = "flush" /\ Head(Plan4) = "flush"
      /\ Len(Plan5) = 5 /\ Len(Plan4) = 4
      /\ Plan5 \in Salvage /\ Plan4 \in Salvage
  BY Tails DEF Salvage
<1> /\ Note \in Nat /\ r \in Renderer
  BY DEF Note, ReplyTypes
<1>1. Append(r.pending, Note) \in Seq(Nat)
  BY DEF Renderer
<1>2. mode.kind \in {"stream", "once", "resume"}
  BY DEF ReplyTypes, Mode
<1>3. <<"wipe">> \in Plans /\ <<"failed">> \in Plans /\ <<>> \in Plans /\ Salvage \subseteq Plans
  BY EndingPlans
<1>4. CASE mode.kind = "stream" /\ r.caught
  <2>1. c = [r EXCEPT !.plan = IF Len(@) = 5 THEN Tail(@) ELSE <<"wipe">>,
                      !.gaveUp = @ \/ Len(r.plan) # 5]
    BY <1>4 DEF CatchClauses, StreamCatch
  <2>2. /\ c.plan = IF Len(r.plan) = 5 THEN Tail(r.plan) ELSE <<"wipe">>
        /\ c.gaveUp <=> r.gaveUp \/ Len(r.plan) # 5
        /\ c.plan \in Plans => c \in Renderer
        /\ c.caught /\ c.pending = r.pending /\ c.missed = r.missed
        /\ SameWords(c) /\ SameStream(c) /\ SameReply(c)
    BY <2>1, <1>4 DEF Renderer, SameWords, SameStream, SameReply
  <2>3. r.plan \in Salvage
    <3>1. r.plan \in Salvage \cup {<<"failed">>} /\ r.plan \in StreamPlans
      BY <1>4 DEF PlanInv
    <3>2. <<"failed">> \notin StreamPlans
      BY EndingPlans
    <3> QED BY <3>1, <3>2
  <2>4. r.plan = Plan5 \/ Len(r.plan) # 5
    BY <2>3 DEF Salvage
  <2>5. CASE r.plan = Plan5
    <3>1. c.plan = Plan4
      BY <2>2, <2>5, <1>0
    <3> HIDE DEF Plan5, Plan4
    <3> QED BY <3>1, <1>0, <1>3, <2>2, <1>4
  <2>6. CASE Len(r.plan) # 5
    <3> HIDE DEF Plan5, Plan4
    <3> QED BY <2>2, <2>6, <1>3, <1>4
  <2> QED BY <2>4, <2>5, <2>6
<1>5. CASE mode.kind = "stream" /\ ~r.caught
  <2>1. PICK flush \in {<<"flush">>, <<>>} :
           c = [r EXCEPT !.plan = flush \o Finish \o <<"wipe">>, !.caught = TRUE, !.loud = TRUE,
                         !.pending = Pushed(Note)]
    BY <1>5 DEF CatchClauses, StreamCatch
  <2>2. <<"flush">> \o Finish \o <<"wipe">> = Plan5 /\ <<>> \o Finish \o <<"wipe">> = Plan4
    BY FinishIs
  <2>3. PICK p \in {Plan5, Plan4} :
           c = [r EXCEPT !.plan = p, !.caught = TRUE, !.loud = TRUE, !.pending = Pushed(Note)]
    BY <2>1, <2>2
  <2>4. Pushed(Note) \in Seq(Nat) /\ (Pushed(Note) = r.pending \/ (~r.stopped /\ Pushed(Note) = Append(r.pending, Note)))
    BY <1>1 DEF Pushed, Renderer
  <2>5. p \in Salvage /\ Head(p) = "flush"
    BY <2>3, <1>0
  <2> HIDE DEF Plan5, Plan4
  <2> QED BY <2>3, <2>4, <2>5, <1>3, <1>5 DEF Renderer, SameWords, SameStream, SameReply
<1>6. CASE mode.kind = "once"
  <2>1. PICK posting \in BOOLEAN : posting <=> Step("post")
    OBVIOUS
  <2>2. c = [r EXCEPT !.plan = <<"wipe">>, !.caught = TRUE, !.loud = TRUE, !.gaveUp = @ \/ posting]
    BY <1>6, <2>1, Zenon DEF CatchClauses, OnceCatch
  <2>3. /\ c \in Renderer /\ c.caught /\ SameWords(c) /\ SameStream(c) /\ SameReply(c)
        /\ c.plan = <<"wipe">> /\ (r.gaveUp => c.gaveUp) /\ (posting => c.gaveUp)
        /\ c.missed = r.missed /\ c.pending = r.pending
    BY <2>2, <1>3 DEF Renderer, SameWords, SameStream, SameReply
  <2> QED BY <2>1, <2>3, <1>6
<1>7. CASE mode.kind = "resume" /\ r.caught
  <2>1. c = [r EXCEPT !.plan = <<>>, !.missed = TRUE]
    BY <1>7 DEF CatchClauses, ResumeCatch
  <2> QED BY <2>1, <1>3, <1>7 DEF Renderer, SameWords, SameStream, SameReply
<1>8. CASE mode.kind = "resume" /\ ~r.caught
  <2>1. c = [r EXCEPT !.plan = <<"failed">>, !.caught = TRUE, !.loud = TRUE]
    BY <1>8 DEF CatchClauses, ResumeCatch
  <2> QED BY <2>1, <1>3, <1>8 DEF Renderer, SameWords, SameStream, SameReply
<1> QED BY <1>2, <1>4, <1>5, <1>6, <1>7, <1>8

-----------------------------------------------------------------------------
(* What keeps each part of the invariant.                                  *)

\* An event was handled, or none.
LEMMA TailIs ==
  ASSUME NEW q \in Seq(AnEvent), q # <<>>
  PROVE  /\ Tail(q) \in Seq(AnEvent) /\ Len(Tail(q)) = Len(q) - 1 /\ Len(q) \in Nat
         /\ \A i \in 1..Len(Tail(q)) : i + 1 \in 1..Len(q) /\ Tail(q)[i] = q[i + 1]
         /\ Head(q) = q[1] /\ 1 \in 1..Len(q)
<1> Len(q) \in Nat \ {0}
  BY EmptySeq
<1> QED BY HeadTailProperties

LEMMA EventsKept ==
  ASSUME ReplyTypes, EventInv, turn' = turn,
         queue' = queue \/ (queue # <<>> /\ queue' = Tail(queue)),
         r'.final = r.final \/ Ascends(r'.final, turn.said),
         r'.plan \in Loop => r.plan \in Loop /\ r'.taken = r.taken
  PROVE  EventInv'
<1> queue \in Seq(AnEvent)
  BY DEF ReplyTypes
<1>1. Ascends(turn'.step, turn'.said) /\ Ascends(r'.final, turn'.said)
  BY DEF EventInv
<1>2. CASE queue' = queue
  BY <1>1, <1>2 DEF EventInv
<1>3. CASE queue # <<>> /\ queue' = Tail(queue)
  <2>1. \A i \in 1..Len(queue') : i + 1 \in 1..Len(queue) /\ queue'[i] = queue[i + 1]
    BY <1>3, TailIs
  <2>2. ASSUME NEW i \in 1..Len(queue')
        PROVE  /\ queue'[i].type \in Outcomes => turn'.state = queue'[i].type
               /\ queue'[i].type = "completed" => Ascends(queue'[i].text, turn'.said)
               /\ queue'[i].type = "delta" =>
                     /\ Len(queue'[i].text) = 1 /\ queue'[i].text[1] \in 1..turn'.said
                     /\ r'.plan \in Loop => \A x \in Range(r'.taken) : x < queue'[i].text[1]
    BY <2>1 DEF EventInv
  <2>3. ASSUME NEW i \in 1..Len(queue'), NEW j \in 1..Len(queue'), i < j,
               queue'[i].type = "delta", queue'[j].type = "delta"
        PROVE  queue'[i].text[1] < queue'[j].text[1]
    BY <2>1, <2>3, SMTT(20) DEF EventInv
  <2> QED BY <1>1, <2>2, <2>3 DEF EventInv
<1> QED BY <1>2, <1>3

LEMMA TextKept ==
  ASSUME TextInv, thread'.shown = thread.shown, r'.pending = r.pending, SameWords(r'),
         turn'.said = turn.said, r'.plan \in Loop => r.plan \in Loop
  PROVE  TextInv'
BY DEF TextInv, SameWords

\* The renderer passed on to what follows in its plan.
LEMMA SalvagedKept ==
  ASSUME Salvaged, r'.stopped = r.stopped, r.gaveUp => r'.gaveUp, r'.taken = r.taken,
         Range(thread.shown) \subseteq Range(thread'.shown)
  PROVE  Salvaged'
BY DEF Salvaged

\* What the catch clause leaves alone.
SameOthers(q, c) ==
    /\ q.taken = c.taken /\ q.stopped = c.stopped /\ q.streamed = c.streamed /\ q.final = c.final
    /\ q.ts = c.ts /\ q.broken = c.broken /\ q.posted = c.posted /\ q.statusShown = c.statusShown
    /\ q.pending = c.pending /\ q.plan = c.plan /\ q.gaveUp = c.gaveUp /\ q.missed = c.missed

Thrown(c, st, lo) == [c EXCEPT !.started = st, !.lost = lo]

LEMMA ThrownIs ==
  ASSUME NEW c \in Renderer, NEW st \in BOOLEAN, NEW lo \in BOOLEAN
  PROVE  /\ Thrown(c, st, lo) \in Renderer
         /\ Thrown(c, st, lo).started = st /\ Thrown(c, st, lo).lost = lo
         /\ Thrown(c, st, lo).caught = c.caught /\ SameOthers(Thrown(c, st, lo), c)
BY DEF Thrown, Renderer, SameOthers

\* The call, or the read, threw.
LEMMA ThrownKeeps ==
  ASSUME ReplyInv, r.plan # <<>>, r.plan # <<"wipe">>, NEW c \in CatchClauses,
         NEW st \in BOOLEAN, NEW lo \in BOOLEAN, NEW sl \in Seq(Nat), NEW re \in Seq(Nat),
         r' = [c EXCEPT !.started = st, !.lost = lo],
         r.started => st, st => r.started \/ mode.kind = "stream", r.lost => lo,
         mode' = mode, turn' = turn, link' = link,
         queue' = queue \/ (queue # <<>> /\ queue' = Tail(queue)),
         thread' \in Thread, r.pending = sl \o re, thread'.shown = thread.shown \o sl,
         sl # <<>> => lo, r.stopped => sl = <<>>,
         thread'.stream # "none" => st,
         thread'.status => thread.status,
         thread.asked => thread'.asked,
         thread'.asked => thread.asked \/ (lo /\ r.plan \in Ending),
         r.plan \in Ending => \/ r.plan \in Asking
                              \/ mode.kind = "resume"
  PROVE  ReplyInv'
<1> ReplyTypes /\ PlanInv /\ EventInv /\ TextInv /\ OutInv /\ OnceInv /\ LingerInv
  BY DEF ReplyInv
<1> r \in Renderer /\ thread \in Thread /\ mode \in Mode /\ turn \in ATurn /\ queue \in Seq(AnEvent)
  BY DEF ReplyTypes
<1>0. mode.kind \in {"stream", "once", "resume"}
  BY DEF Mode
<1>1. /\ c \in Renderer /\ c.caught /\ SameWords(c) /\ SameStream(c) /\ SameReply(c)
      /\ (r.gaveUp => c.gaveUp) /\ (r.missed => c.missed)
      /\ \/ c.pending = r.pending
         \/ ~r.stopped /\ mode.kind = "stream" /\ c.pending = Append(r.pending, Note)
      /\ mode.kind = "stream" => \/ c.plan \in Salvage /\ Head(c.plan) = "flush"
                                 \/ c.plan = <<"wipe">> /\ c.gaveUp
      /\ mode.kind = "once" => c.plan = <<"wipe">> /\ (Step("post") => c.gaveUp)
      /\ mode.kind = "resume" => c.plan = <<"failed">> \/ (c.plan = <<>> /\ c.missed)
  BY CatchDoes
<1>2. /\ r' \in Renderer /\ r'.caught /\ SameWords(r') /\ r'.started = st /\ r'.lost = lo
      /\ r'.ts = r.ts /\ r'.broken = r.broken /\ r'.posted = r.posted /\ r'.statusShown = r.statusShown
      /\ r'.pending = c.pending /\ r'.plan = c.plan /\ r'.gaveUp = c.gaveUp /\ r'.missed = c.missed
  <2>1. c \in Renderer
    BY <1>1
  <2>2. r' = Thrown(c, st, lo)
    BY DEF Thrown
  <2>3. /\ r' \in Renderer /\ r'.started = st /\ r'.lost = lo
        /\ r'.caught = c.caught /\ SameOthers(r', c)
    BY <2>1, <2>2, ThrownIs
  <2> QED BY <1>1, <2>3 DEF SameOthers, SameWords, SameStream, SameReply
<1>3. ReplyTypes'
  <2>1. queue' \in Seq(AnEvent)
    BY TailIs
  <2> QED BY <1>2, <2>1 DEF ReplyTypes
<1>4. /\ r'.plan \in Salvage \/ r'.plan \in Ending \ Asking
      /\ r'.plan \notin Loop \cup Closing \cup Asking
      /\ mode.kind = "stream" => r'.plan \in StreamPlans
      /\ mode.kind = "once" => r'.plan \in OncePlans
      /\ mode.kind = "resume" => r'.plan \in ResumePlans
      /\ r'.plan \in Salvage \cup {<<>>, <<"wipe">>, <<"failed">>}
      /\ r'.plan = <<>> => mode.kind = "resume"
  <2>1. \A p \in {<<>>, <<"wipe">>, <<"failed">>} : p \in Ending \ Asking /\ p \notin Loop \cup Closing \cup Salvage
    BY EndingPlans, PhasesApart
  <2>2. <<"wipe">> # <<>> /\ <<>> \notin Salvage
    BY DEF Salvage
  <2>3. \A p \in Salvage : p \in StreamPlans /\ p \notin Loop \cup Closing /\ p \notin Ending
    BY PhasesApart
  <2>4. Asking \subseteq Ending
    BY DEF Ending
  <2>5. r'.plan \in Salvage \/ r'.plan \in {<<>>, <<"wipe">>, <<"failed">>}
    BY <1>0, <1>1, <1>2
  <2>6. r'.plan \in Salvage \/ r'.plan \in Ending \ Asking
    BY <2>1, <2>5
  <2>7. r'.plan \notin Loop \cup Closing \cup Asking
    BY <2>1, <2>3, <2>4, <2>5
  <2>8. /\ mode.kind = "stream" => r'.plan \in StreamPlans
        /\ mode.kind = "once" => r'.plan \in OncePlans
        /\ mode.kind = "resume" => r'.plan \in ResumePlans
    <3>1. <<"wipe">> \in StreamPlans \cap OncePlans /\ <<>> \in ResumePlans /\ <<"failed">> \in ResumePlans
      BY EndingPlans
    <3> QED BY <3>1, <1>1, <1>2, <2>3
  <2>9. r'.plan = <<>> => mode.kind = "resume"
    BY <1>0, <1>1, <1>2, <2>2
  <2> QED BY <2>5, <2>6, <2>7, <2>8, <2>9
<1>5. mode.kind = "resume" => r.taken = <<>> /\ r.pending = <<>> /\ ~thread.status
  BY DEF PlanInv
<1>6. PlanInv'
  <2>1. <<"status", "next">> \in Loop /\ ClosingAsk \subseteq Closing
    BY EndingPlans DEF Closing
  <2>2. r'.ts \/ r'.broken \/ r'.stopped \/ thread'.stream # "none" => r'.started
    BY <1>2 DEF PlanInv, SameWords
  <2>3. mode.kind = "resume" => r'.taken = <<>> /\ r'.pending = <<>> /\ ~thread'.status
    BY <1>1, <1>2, <1>5 DEF SameWords
  <2>4. mode.kind # "stream" => ~r'.started /\ ~r'.streamed
    BY <1>2 DEF PlanInv, SameWords
  <2> QED BY <1>2, <1>4, <2>1, <2>2, <2>3, <2>4 DEF PlanInv
<1>7. EventInv'
  BY <1>2, <1>4, EventsKept DEF SameWords
<1>8. /\ Kept(thread'.shown, r.pending, r.taken, r.stopped, turn.said)
      /\ Range(thread.shown) \subseteq Range(thread'.shown)
  <2> thread.shown \in Seq(Nat) /\ r.taken \in Seq(Nat) /\ turn.said \in Nat /\ r.stopped \in BOOLEAN
    BY DEF Thread, Renderer, ATurn
  <2>1. CASE r.stopped
    <3>1. thread'.shown = thread.shown
      BY <2>1, ConcatEmptySeq
    <3> QED BY <3>1 DEF TextInv
  <2>2. CASE ~r.stopped
    <3> DEFINE sh == thread.shown
               ta == r.taken
               n == turn.said
    <3>1. Kept(sh, sl \o re, ta, FALSE, n)
      BY <2>2 DEF TextInv
    <3>2. sh \in Seq(Nat) /\ ta \in Seq(Nat) /\ n \in Nat
      OBVIOUS
    <3> HIDE DEF sh, ta, n
    <3>3. Kept(sh \o sl, sl \o re, ta, FALSE, n)
      BY <3>1, <3>2, KeptLoses
    <3>4. Range(sh \o sl) = Range(sh) \cup Range(sl)
      BY <3>2, RangeConcatenation
    <3> QED BY <2>2, <3>3, <3>4 DEF sh, ta, n
  <2> QED BY <2>1, <2>2
<1>9. TextInv'
  <2> thread'.shown \in Seq(Nat) /\ r.pending \in Seq(Nat) /\ r.taken \in Seq(Nat) /\ turn.said \in Nat
    BY DEF Thread, Renderer, ATurn
  <2>1. Kept(thread'.shown, r'.pending, r.taken, r.stopped, turn.said)
    <3>1. CASE c.pending = r.pending
      BY <3>1, <1>2, <1>8
    <3>2. CASE ~r.stopped /\ c.pending = Append(r.pending, Note)
      <4>1. Kept(thread'.shown, r.pending, r.taken, FALSE, turn.said)
        BY <3>2, <1>8 DEF Renderer
      <4>2. \A sh, pe, ta \in Seq(Nat), n \in Nat : Kept(sh, pe, ta, FALSE, n) => Kept(sh, Append(pe, Note), ta, FALSE, n)
        BY KeptNotes
      <4>3. Kept(thread'.shown, Append(r.pending, Note), r.taken, FALSE, turn.said)
        BY <4>1, <4>2
      <4> QED BY <3>2, <4>3, <1>2 DEF Renderer
    <3> QED BY <3>1, <3>2, <1>1
  <2> QED BY <2>1, <1>2, <1>4 DEF TextInv, SameWords
<1>10. OutInv'
  <2>1. mode.kind = "stream" /\ r'.plan \in Ending => r'.gaveUp
    <3>1. r'.plan \in Salvage => r'.plan \notin Ending
      BY PhasesApart
    <3> QED BY <1>1, <1>2, <3>1
  <2>6. mode.kind = "once" => Salvaged'
    <3> SUFFICES ASSUME mode.kind = "once" PROVE Salvaged'
      OBVIOUS
    <3>1. r.plan \in Waiting \/ r.plan = <<"post", "files", "clear">> \/ r.plan \in Leaving
      BY DEF PlanInv, OncePlans
    <3>2. CASE r.plan \in Waiting
      <4>1. r.taken = <<>>
        BY <3>2 DEF PlanInv, TextInv, Loop
      <4> QED BY <4>1, <1>2 DEF Salvaged, SameWords, Range
    <3>3. CASE r.plan = <<"post", "files", "clear">>
      <4>1. Step("post")
        BY <3>3 DEF Step
      <4> QED BY <4>1, <1>1, <1>2 DEF Salvaged
    <3>4. CASE r.plan \in Leaving
      <4>1. r.plan \in Ending
        BY <3>4, EndingPlans DEF Leaving
      <4>2. Salvaged
        BY <4>1 DEF OutInv
      <4> QED BY <4>2, <1>1, <1>2, <1>8, SalvagedKept DEF SameWords
    <3> QED BY <3>1, <3>2, <3>3, <3>4
  <2>2. mode.kind = "resume" => Range(r'.taken) \subseteq Range(thread'.shown)
    <3>1. Range(<<>>) = {}
      BY DEF Range
    <3> QED BY <1>2, <1>5, <3>1 DEF SameWords
  <2>3. thread'.asked => Salvaged'
    <3>1. thread'.asked => Salvaged
      BY DEF OutInv
    <3> QED BY <3>1, <1>1, <1>2, <1>8, SalvagedKept DEF SameWords
  <2>4. r'.plan \in Ending \/ thread'.asked => Salvaged'
    BY <1>0, <2>1, <2>2, <2>3, <2>6 DEF Salvaged
  <2>5. r'.plan \in Closing \cup Salvage => Head(r'.plan) = "flush"
    <3>1. <<"wipe">> \notin Salvage /\ <<"failed">> \notin Salvage /\ <<>> \notin Salvage
      BY DEF Salvage
    <3> QED BY <1>0, <1>1, <1>2, <1>4, <3>1
  <2> QED BY <2>4, <2>5, <1>4 DEF OutInv
<1>11. OnceInv'
  <2> r.lost \in BOOLEAN /\ r.caught \in BOOLEAN
    BY DEF Renderer
  <2>1. CASE lo
    BY <2>1, <1>2 DEF OnceInv, Twice
  <2>2. CASE ~lo
    <3>1. sl = <<>> /\ ~r.lost /\ (thread'.asked <=> thread.asked)
      BY <2>2 DEF Thread
    <3>2. thread'.shown = thread.shown
      <4>1. thread.shown \in Seq(Nat)
        BY DEF Thread
      <4> QED BY <3>1, <4>1, ConcatEmptySeq
    <3>3. CASE Twice
      BY <3>3, <3>1, <1>2 DEF OnceInv, Twice
    <3>4. CASE ~Twice /\ r.plan \in Ending /\ mode.kind # "resume"
      <4>1. r.plan \in Asking
        BY <3>4
      <4>2. turn.state = "parked"
        BY <4>1 DEF PlanInv
      <4>3. ~thread.asked
        <5>1. r.plan \notin Salvage \cup {<<>>, <<"wipe">>, <<"awaiting">>, <<"failed">>}
          BY <4>1 DEF Asking, Salvage
        <5> QED BY <5>1 DEF PlanInv
      <4> QED BY <4>2, <4>3, <3>1, <1>2 DEF OnceInv, Twice
    <3>5. CASE ~Twice /\ r.plan \in Ending /\ mode.kind = "resume"
      <4>1. Fresh(thread'.shown, {})
        BY <3>5, <3>2 DEF OnceInv
      <4>2. r'.plan \in Ending
        BY <3>5, <1>1, <1>2, EndingPlans
      <4> QED BY <4>1, <4>2 DEF OnceInv
    <3>6. CASE ~Twice /\ r.plan \notin Ending
      <4>1. Unique(thread.shown, r.pending)
        BY <3>6 DEF OnceInv
      <4>2. Unique(thread'.shown, r'.pending)
        <5>1. \A pe \in Seq(Nat) : Unique(thread.shown, pe) => Unique(thread.shown, Append(pe, Note))
          BY UniqueNotes
        <5>2. r.pending \in Seq(Nat)
          BY DEF Renderer
        <5>3. Unique(thread.shown, Append(r.pending, Note))
          BY <4>1, <5>1, <5>2
        <5>4. r'.pending = r.pending \/ r'.pending = Append(r.pending, Note)
          BY <1>1, <1>2
        <5> QED BY <4>1, <5>3, <5>4, <3>2
      <4> QED BY <4>2 DEF OnceInv, Unique
    <3> QED BY <3>3, <3>4, <3>5, <3>6
  <2> QED BY <2>1, <2>2
<1>12. LingerInv'
  <2>1. r'.plan \notin Bare
    BY <1>4 DEF Closing
  <2>2. thread'.status => r'.statusShown /\ ~r'.ts /\ ~r'.stopped /\ (r'.posted => r'.missed)
    BY <1>1, <1>2 DEF LingerInv, SameWords
  <2>3. thread'.status => r'.plan # <<>>
    BY <1>4, <1>5
  <2>4. mode.kind = "resume" /\ r'.plan \in {<<>>, <<"files">>} => r'.missed
    <3>1. <<"failed">> # <<>> /\ <<"failed">> # <<"files">>
      OBVIOUS
    <3> QED BY <1>1, <1>2, <3>1
  <2> QED BY <2>1, <2>2, <2>3, <2>4 DEF LingerInv
<1> QED BY <1>3, <1>6, <1>7, <1>9, <1>10, <1>11, <1>12 DEF ReplyInv

\* No text was shown and nothing was taken: the renderer goes on, or adds a note.
LEMMA PassKeeps ==
  ASSUME ReplyInv, r' \in Renderer, thread' \in Thread, mode' = mode, turn' = turn, link' = link,
         queue' = queue \/ (queue # <<>> /\ queue' = Tail(queue)),
         r'.pending = r.pending \/ (~r.stopped /\ r'.pending = Append(r.pending, Note)),
         r'.final = r.final \/ Ascends(r'.final, turn.said),
         r'.taken = r.taken, r'.stopped = r.stopped, r'.streamed = r.streamed,
         r'.caught = r.caught, r'.lost = r.lost, r.gaveUp => r'.gaveUp,
         thread'.shown = thread.shown,
         r.caught => (thread'.asked <=> thread.asked),
         r'.plan \in Loop => r.plan \in Loop, r.plan \in Ending => r'.plan \in Ending,
         r'.plan \in Ending \/ thread'.asked => r.plan \in Ending \/ Salvaged
  PROVE  /\ ReplyTypes' /\ EventInv' /\ TextInv' /\ OnceInv'
         /\ r'.plan \in Ending \/ thread'.asked => Salvaged'
<1> ReplyTypes /\ PlanInv /\ EventInv /\ TextInv /\ OutInv /\ OnceInv
  BY DEF ReplyInv
<1> r \in Renderer /\ thread \in Thread /\ mode \in Mode /\ turn \in ATurn /\ queue \in Seq(AnEvent)
  BY DEF ReplyTypes
<1> /\ r.pending \in Seq(Nat) /\ r.taken \in Seq(Nat) /\ thread.shown \in Seq(Nat) /\ turn.said \in Nat
    /\ r.stopped \in BOOLEAN /\ r.caught \in BOOLEAN /\ r.lost \in BOOLEAN
    /\ thread.asked \in BOOLEAN /\ thread'.asked \in BOOLEAN
  BY DEF Renderer, Thread, ATurn
<1>1. ReplyTypes'
  <2>1. queue' \in Seq(AnEvent)
    BY TailIs
  <2> QED BY <2>1 DEF ReplyTypes
<1>2. EventInv'
  BY EventsKept
<1>3. TextInv'
  <2>1. Kept(thread.shown, r'.pending, r.taken, r.stopped, turn.said)
    <3>1. CASE r'.pending = r.pending
      BY <3>1 DEF TextInv
    <3>2. CASE ~r.stopped /\ r'.pending = Append(r.pending, Note)
      <4>1. Kept(thread.shown, r.pending, r.taken, FALSE, turn.said)
        BY <3>2 DEF TextInv
      <4>2. \A sh, pe, ta \in Seq(Nat), n \in Nat : Kept(sh, pe, ta, FALSE, n) => Kept(sh, Append(pe, Note), ta, FALSE, n)
        BY KeptNotes
      <4>3. Kept(thread.shown, Append(r.pending, Note), r.taken, FALSE, turn.said)
        BY <4>1, <4>2
      <4> QED BY <3>2, <4>3
    <3> QED BY <3>1, <3>2
  <2> QED BY <2>1 DEF TextInv
<1>4. OnceInv'
  <2>1. CASE Twice
    BY <2>1 DEF OnceInv, Twice
  <2>2. CASE ~Twice
    <3>1. Fresh(thread'.shown, {})
      BY <2>2 DEF OnceInv
    <3>2. ASSUME r'.plan \notin Ending PROVE Unique(thread'.shown, r'.pending)
      <4>1. Unique(thread.shown, r.pending)
        BY <2>2, <3>2 DEF OnceInv
      <4>2. \A pe \in Seq(Nat) : Unique(thread.shown, pe) => Unique(thread.shown, Append(pe, Note))
        BY UniqueNotes
      <4> QED BY <4>1, <4>2
    <3> QED BY <3>1, <3>2 DEF OnceInv
  <2> QED BY <2>1, <2>2
<1>5. r'.plan \in Ending \/ thread'.asked => Salvaged'
  <2>1. r'.plan \in Ending \/ thread'.asked => Salvaged
    BY DEF OutInv
  <2> QED BY <2>1, SalvagedKept
<1> QED BY <1>1, <1>2, <1>3, <1>4, <1>5

\* A status call: it names itself and what follows it.
LEMMA StatusKeeps ==
  ASSUME ReplyInv, NEW name \in {"status", "wipe", "clear"}, NEW on \in BOOLEAN,
         SetStatus(name, on, TRUE), on <=> name = "status",
         name = "clear" => ~r.posted
  PROVE  ReplyInv'
<1> ReplyTypes /\ PlanInv /\ EventInv /\ TextInv /\ OutInv /\ OnceInv /\ LingerInv
  BY DEF ReplyInv
<1> r \in Renderer /\ thread \in Thread /\ mode \in Mode
  BY DEF ReplyTypes
<1>1. PICK answer \in {"ok", "refused"} :
           /\ thread' = IF Made(answer) THEN [thread EXCEPT !.status = on] ELSE thread
           /\ r' = [r EXCEPT !.plan = Pop, !.statusShown = TRUE, !.missed = @ \/ (~on /\ ~Made(answer))]
  BY DEF SetStatus
<1>2. r.plan # <<>> /\ Head(r.plan) = name /\ r.plan \in Plans
  BY DEF SetStatus, Step, Renderer
<1>3. /\ name = "status" => r.plan = <<"status", "next">> /\ Pop = <<"next">>
      /\ name = "wipe" => r.plan = <<"wipe">> /\ Pop = <<>>
      /\ name = "clear" => r.plan = <<"clear">> /\ Pop = <<>>
  BY <1>2, AtOthers DEF Pop
<1>4. PICK made \in BOOLEAN : made <=> Made(answer)
  OBVIOUS
<1>5. Pop \in Plans
  BY <1>3, EndingPlans
<1>6. /\ r' \in Renderer /\ r'.plan = Pop /\ SameWords(r') /\ SameStream(r') /\ r'.pending = r.pending
      /\ r'.statusShown /\ r'.posted = r.posted /\ r'.lost = r.lost /\ r'.caught = r.caught
      /\ r'.gaveUp = r.gaveUp /\ (r'.missed <=> r.missed \/ (~on /\ ~made))
  BY <1>1, <1>4, <1>5 DEF Renderer, SameWords, SameStream
<1>7. /\ thread' \in Thread /\ thread'.shown = thread.shown /\ thread'.stream = thread.stream
      /\ thread'.asked = thread.asked /\ thread'.message = thread.message
      /\ made => (thread'.status <=> on)
      /\ ~made => (thread'.status <=> thread.status)
  BY <1>1, <1>4 DEF Thread
<1>8. mode' = mode /\ turn' = turn /\ link' = link /\ queue' = queue
  BY DEF SetStatus
<1>9. /\ name = "status" => r.plan \in Loop /\ r'.plan \in Loop \cap Waiting /\ r'.plan # <<"status", "next">>
      /\ name # "status" => /\ r.plan \in Ending /\ r'.plan \in Ending \ Asking
                            /\ r'.plan = <<>>
      /\ r.plan \in StreamPlans \cap OncePlans /\ r'.plan \in StreamPlans \cap OncePlans
      /\ r.plan \notin ResumePlans
  <2>1. <<"wipe">> \notin ResumePlans /\ <<"clear">> \notin ResumePlans /\ <<"next">> # <<"status", "next">>
    BY DEF ResumePlans
  <2> QED BY <1>3, <1>6, <2>1, EndingPlans
<1>10. \A p \in Loop : p \notin Closing \cup Salvage \cup Ending
  BY PhasesApart
<1>11. \A p \in Ending : p \notin Closing \cup Salvage \cup Loop
  BY PhasesApart
<1>12. mode.kind # "resume"
  BY <1>9 DEF PlanInv
<1>13. /\ ReplyTypes' /\ EventInv' /\ TextInv' /\ OnceInv'
       /\ r'.plan \in Ending \/ thread'.asked => Salvaged'
  <2>1. r'.plan \in Ending \/ thread'.asked => r.plan \in Ending \/ Salvaged
    BY <1>7, <1>9, <1>10 DEF OutInv
  <2> QED BY <1>6, <1>7, <1>8, <1>9, <1>10, <2>1, PassKeeps DEF SameWords
<1>14. PlanInv'
  <2>1. r'.ts \/ r'.broken \/ r'.stopped \/ thread'.stream # "none" => r'.started
    BY <1>6, <1>7 DEF PlanInv, SameWords, SameStream
  <2>2. mode'.kind # "stream" => ~r'.started /\ ~r'.streamed
    BY <1>6, <1>8 DEF PlanInv, SameWords, SameStream
  <2>3. r'.plan \notin Asking \cup ClosingAsk
    <3>1. ClosingAsk \subseteq Closing /\ Asking \subseteq Ending
      BY DEF Closing, Ending
    <3> QED BY <3>1, <1>9, <1>10, <1>11
  <2>4. r'.plan \notin Salvage
    BY <1>9, <1>10, <1>11
  <2>5. r'.caught => r'.plan \in {<<>>, <<"wipe">>, <<"failed">>}
    <3>1. r.plan \in Loop => r.plan \notin {<<>>, <<"wipe">>, <<"failed">>}
      BY <1>10, EndingPlans
    <3> QED BY <1>3, <1>6, <1>9, <1>10, <3>1 DEF PlanInv
  <2>6. mode'.hold /\ ~mode'.tasks /\ r'.plan \in Loop => ~r'.started /\ r'.plan \in Waiting
    BY <1>6, <1>8, <1>9, <1>11 DEF PlanInv, SameStream
  <2>7. r'.plan \in Loop => ~r'.posted
    BY <1>6, <1>9, <1>11 DEF PlanInv
  <2>8. thread'.asked => r'.plan \in {<<>>}
    <3>1. r.plan \in Loop => r.plan \notin Salvage \cup {<<>>, <<"wipe">>, <<"awaiting">>, <<"failed">>}
      BY <1>10, EndingPlans
    <3> QED BY <3>1, <1>7, <1>9 DEF PlanInv
  <2>9. r'.plan # <<"status", "next">>
    BY <1>9, <1>11, EndingPlans
  <2> QED BY <2>1, <2>2, <2>3, <2>4, <2>5, <2>6, <2>7, <2>8, <2>9, <1>8, <1>9, <1>12 DEF PlanInv
<1>15. OutInv'
  <2>1. r'.plan \notin Closing \cup Salvage
    BY <1>9, <1>10, <1>11
  <2>2. r'.plan \in Loop /\ ~r'.started => r'.pending = <<>>
    <3>1. r'.plan \in Loop => Head(r.plan) = "status" /\ r.plan \in Loop
      BY <1>2, <1>9, <1>11
    <3> QED BY <3>1, <1>6 DEF OutInv, SameStream
  <2> QED BY <2>1, <2>2, <1>13 DEF OutInv
<1>16. LingerInv'
  <2>1. thread'.status => ~r'.ts /\ ~r'.stopped /\ (r'.posted => r'.missed)
    <3>1. CASE thread'.status /\ name = "status"
      <4>1. ~r.started /\ ~r.posted
        BY <3>1, <1>3, <1>9 DEF PlanInv
      <4> QED BY <4>1, <1>6 DEF PlanInv, SameWords, SameStream
    <3>2. CASE thread'.status /\ name # "status"
      <4>1. thread.status
        BY <3>2, <1>7
      <4> QED BY <4>1, <1>6 DEF LingerInv, SameWords, SameStream
    <3> QED BY <3>1, <3>2
  <2>2. thread'.status /\ ~r'.missed => r'.plan \in Loop
    BY <1>6, <1>7, <1>9
  <2>3. r'.plan \in Loop => r'.plan # <<>> /\ r'.plan \notin Bare
    BY <1>10, EndingPlans DEF Closing
  <2> QED BY <2>1, <2>2, <2>3, <1>6, <1>8, <1>12 DEF LingerInv
<1> QED BY <1>13, <1>14, <1>15, <1>16 DEF ReplyInv

\* What a call that only a stream makes, and that is answered, does to the plan.
StaysStream ==
    /\ r.plan \notin OncePlans \cup ResumePlans /\ r'.plan \in StreamPlans
    /\ SamePhase(r.plan, r'.plan) /\ r.plan \notin Ending /\ r'.plan \notin Ending
    /\ r.plan \notin Waiting /\ r'.plan # <<"status", "next">>

LEMMA StreamOnly ==
  ASSUME ReplyTypes, PlanInv, r.plan \notin OncePlans \cup ResumePlans
  PROVE  mode.kind = "stream" /\ r.plan \in StreamPlans
BY DEF ReplyTypes, PlanInv, Mode

LEMMA StreamPlanKeeps ==
  ASSUME ReplyTypes, PlanInv, StaysStream, mode' = mode, turn' = turn,
         r'.caught = r.caught, r'.posted = r.posted, thread'.asked = thread.asked,
         r'.ts \/ r'.broken \/ r'.stopped \/ thread'.stream # "none" => r'.started
  PROVE  PlanInv'
<1>1. mode.kind = "stream"
  BY StreamOnly DEF StaysStream
<1>2. \A p \in {<<>>, <<"wipe">>, <<"failed">>, <<"awaiting">>} : p \in Ending
  BY EndingPlans
<1>3. r'.plan \notin Asking
  BY DEF StaysStream, Ending
<1>4. r'.plan \in ClosingAsk => turn'.state = "parked"
  BY DEF StaysStream, SamePhase, PlanInv
<1>5. r'.plan \in Salvage => r'.caught
  BY DEF StaysStream, SamePhase, PlanInv
<1>6. r'.caught => r'.plan \in Salvage
  BY <1>2 DEF StaysStream, SamePhase, PlanInv
<1>7. mode'.hold /\ ~mode'.tasks => r'.plan \notin Loop
  BY DEF StaysStream, SamePhase, PlanInv
<1>8. r'.plan \in Loop => ~r'.posted
  BY DEF StaysStream, SamePhase, PlanInv
<1>9. thread'.asked => r'.plan \in Salvage
  BY <1>2 DEF StaysStream, SamePhase, PlanInv
<1> QED BY <1>1, <1>3, <1>4, <1>5, <1>6, <1>7, <1>8, <1>9 DEF PlanInv, StaysStream

LEMMA StreamLingers ==
  ASSUME ReplyTypes, PlanInv, LingerInv, StaysStream, mode' = mode, turn' = turn,
         r'.posted = r.posted, r'.statusShown = r.statusShown, r'.gaveUp = r.gaveUp, r'.missed = r.missed,
         thread'.status => thread.status /\ ~r'.ts /\ ~r'.stopped /\ r'.pending = r.pending
  PROVE  LingerInv'
<1>1. mode.kind = "stream"
  BY StreamOnly DEF StaysStream
<1>2. r'.plan # <<>>
  BY EndingPlans DEF StaysStream
<1>3. r'.plan \in Bare => r.plan \in Bare
  BY DEF StaysStream, SamePhase
<1> QED BY <1>1, <1>2, <1>3 DEF LingerInv

LEMMA FlushStays ==
  ASSUME ReplyTypes, PlanInv, Step("flush")
  PROVE  /\ r.plan \notin OncePlans \cup ResumePlans /\ mode.kind = "stream"
         /\ r'.plan = r.plan => StaysStream
         /\ r'.plan = Pop => StaysStream
         /\ Pop \in Plans /\ r.plan \in Plans /\ Head(r.plan) = "flush" /\ r.plan # <<>> /\ r.plan # <<"wipe">>
         /\ r.plan \notin Ending
<1>1. r.plan \in Plans /\ r.plan # <<>> /\ Head(r.plan) = "flush"
  BY DEF ReplyTypes, Renderer, Step
<1>2. /\ SamePhase(r.plan, Pop) /\ OfStream(r.plan, Pop) /\ r.plan \notin Ending /\ Pop \notin Ending
      /\ r.plan \notin Waiting /\ Pop # <<"status", "next">>
  BY <1>1, AtFlush DEF Pop
<1>3. mode.kind = "stream" /\ r.plan \in StreamPlans
  BY <1>2, StreamOnly DEF OfStream
<1>4. r.plan # <<"status", "next">> /\ r.plan # <<"wipe">>
  BY <1>2, EndingPlans
<1> QED BY <1>1, <1>2, <1>3, <1>4 DEF StaysStream, OfStream, SamePhase

LEMMA FlushedKeeps ==
  ASSUME ReplyInv, Flushed
  PROVE  ReplyInv'
<1> ReplyTypes /\ PlanInv /\ EventInv /\ TextInv /\ OutInv /\ OnceInv /\ LingerInv
  BY DEF ReplyInv
<1> r \in Renderer /\ thread \in Thread
  BY DEF ReplyTypes
<1>1. Step("flush") /\ r' = [r EXCEPT !.plan = Pop]
      /\ UNCHANGED <<mode, turn, queue, link, thread>>
  BY DEF Flushed
<1>2. Pop \in Plans
  BY <1>1, FlushStays
<1>3. /\ r' \in Renderer /\ r'.plan = Pop /\ SameWords(r') /\ SameStream(r') /\ SameReply(r')
      /\ r'.pending = r.pending /\ r'.caught = r.caught /\ r'.gaveUp = r.gaveUp /\ r'.missed = r.missed
  BY <1>1, <1>2 DEF Renderer, SameWords, SameStream, SameReply
<1>4. StaysStream /\ mode.kind = "stream"
  BY <1>1, <1>3, FlushStays
<1>5. PlanInv'
  BY <1>1, <1>3, <1>4, StreamPlanKeeps DEF SameWords, SameStream, SameReply, PlanInv
<1>6. LingerInv'
  BY <1>1, <1>3, <1>4, StreamLingers DEF SameWords, SameStream, SameReply, LingerInv
<1>7. /\ ReplyTypes' /\ EventInv' /\ TextInv' /\ OnceInv'
      /\ r'.plan \in Ending \/ thread'.asked => Salvaged'
  <2>1. r'.plan \in Ending \/ thread'.asked => r.plan \in Ending \/ Salvaged
    BY <1>1, <1>4 DEF OutInv, StaysStream
  <2> QED BY <1>1, <1>3, <1>4, <2>1, PassKeeps DEF SameWords, SameReply, StaysStream, SamePhase
<1>8. OutInv'
  <2>1. FlushedOut' /\ (~r'.started => r'.pending = <<>>)
    BY <1>1, <1>3 DEF Flushed, FlushedOut, SameWords, SameStream, PlanInv, TextInv, Kept
  <2> QED BY <1>7, <2>1 DEF OutInv
<1> QED BY <1>5, <1>6, <1>7, <1>8 DEF ReplyInv

\* The reader stopped the stream: what is pending goes.
LEMMA StopKeeps ==
  ASSUME ReplyInv, StaysStream, thread' = thread, mode' = mode, turn' = turn, link' = link, queue' = queue,
         r' = [r EXCEPT !.plan = Pop, !.stopped = TRUE, !.pending = <<>>], Pop \in Plans,
         thread.stream = "stopped", ~thread.status
  PROVE  ReplyInv'
<1> ReplyTypes /\ PlanInv /\ EventInv /\ TextInv /\ OutInv /\ OnceInv /\ LingerInv
  BY DEF ReplyInv
<1> r \in Renderer /\ thread \in Thread /\ turn \in ATurn
  BY DEF ReplyTypes
<1> <<>> \in Seq(Nat)
  OBVIOUS
<1>1. /\ r' \in Renderer /\ r'.plan = Pop /\ SameStream(r') /\ SameReply(r')
      /\ r'.taken = r.taken /\ r'.final = r.final /\ r'.streamed = r.streamed
      /\ r'.pending = <<>> /\ r'.stopped = TRUE /\ r'.caught = r.caught /\ r'.gaveUp = r.gaveUp /\ r'.missed = r.missed
  BY DEF Renderer, SameStream, SameReply
<1>2. ReplyTypes'
  BY <1>1 DEF ReplyTypes
<1>3. PlanInv'
  BY <1>1, StreamPlanKeeps DEF SameStream, SameReply, PlanInv
<1>4. LingerInv'
  BY <1>1, StreamLingers DEF SameReply
<1>5. EventInv'
  BY <1>1, EventsKept DEF StaysStream, SamePhase
<1>6. TextInv'
  <2>1. \A sh, pe, ta \in Seq(Nat), st \in BOOLEAN, n \in Nat : Kept(sh, pe, ta, st, n) => Kept(sh, <<>>, ta, TRUE, n)
    BY KeptStops
  <2>2. /\ r.pending \in Seq(Nat) /\ r.taken \in Seq(Nat) /\ r.stopped \in BOOLEAN
        /\ thread.shown \in Seq(Nat) /\ turn.said \in Nat
    BY DEF Renderer, Thread, ATurn
  <2>3. Kept(thread.shown, r.pending, r.taken, r.stopped, turn.said)
    BY DEF TextInv
  <2>4. Kept(thread.shown, <<>>, r.taken, TRUE, turn.said)
    BY <2>1, <2>2, <2>3
  <2> QED BY <2>4, <1>1 DEF TextInv, StaysStream, SamePhase
<1>7. OutInv'
  BY <1>1 DEF OutInv, Salvaged, FlushedOut
<1>8. OnceInv'
  <2>1. CASE Twice
    BY <2>1, <1>1 DEF OnceInv, Twice, SameReply
  <2>2. CASE ~Twice
    <3>1. Unique(thread.shown, r.pending)
      BY <2>2 DEF OnceInv, StaysStream
    <3>2. Unique(thread.shown, <<>>)
      BY <3>1, UniqueStops
    <3> QED BY <3>2, <1>1 DEF OnceInv, Unique
  <2> QED BY <2>1, <2>2
<1> QED BY <1>2, <1>3, <1>4, <1>5, <1>6, <1>7, <1>8 DEF ReplyInv

\* Some of what is pending was shown, and is pending no more.
LEMMA SendKeeps ==
  ASSUME ReplyInv, StaysStream, mode' = mode, turn' = turn, link' = link, queue' = queue,
         NEW sl \in Seq(Nat), NEW re \in Seq(Nat), r.pending = sl \o re, ~r.stopped,
         r' \in Renderer, thread' \in Thread, thread'.shown = thread.shown \o sl,
         thread'.asked = thread.asked, ~thread'.status,
         r'.plan = r.plan, Head(r.plan) = "flush", r'.pending = re, SameWords(r'), SameReply(r'),
         r'.caught = r.caught, r'.gaveUp = r.gaveUp, r'.missed = r.missed,
         r'.ts \/ r'.broken \/ thread'.stream # "none" => r'.started
  PROVE  ReplyInv'
<1> ReplyTypes /\ PlanInv /\ EventInv /\ TextInv /\ OutInv /\ OnceInv /\ LingerInv
  BY DEF ReplyInv
<1> r \in Renderer /\ thread \in Thread /\ turn \in ATurn
  BY DEF ReplyTypes
<1>1. /\ thread.shown \in Seq(Nat) /\ r.taken \in Seq(Nat) /\ turn.said \in Nat
      /\ r.stopped \in BOOLEAN
  BY DEF Renderer, Thread, ATurn
<1>2. ReplyTypes'
  BY DEF ReplyTypes
<1>3. PlanInv'
  BY StreamPlanKeeps DEF SameReply, SameWords
<1>4. LingerInv'
  BY StreamLingers DEF SameReply
<1>5. EventInv'
  BY EventsKept DEF SameWords
<1>6. TextInv'
  <2>1. Kept(thread.shown, sl \o re, r.taken, FALSE, turn.said)
    BY <1>1 DEF TextInv
  <2>2. \A sh, ta \in Seq(Nat), n \in Nat :
           Kept(sh, sl \o re, ta, FALSE, n) => Kept(sh \o sl, re, ta, FALSE, n)
    BY KeptSends
  <2>3. Kept(thread.shown \o sl, re, r.taken, FALSE, turn.said)
    BY <1>1, <2>1, <2>2
  <2>4. r'.stopped = FALSE
    BY <1>1 DEF SameWords
  <2> QED BY <2>3, <2>4 DEF TextInv, SameWords
<1>7. OutInv'
  <2>1. Range(thread.shown \o sl) = Range(thread.shown) \cup Range(sl)
    BY <1>1, RangeConcatenation
  <2>2. thread'.asked => Salvaged'
    BY <2>1, SalvagedKept DEF OutInv, SameWords
  <2> QED BY <2>2 DEF OutInv, StaysStream
<1>8. OnceInv'
  <2>1. CASE Twice
    BY <2>1 DEF OnceInv, Twice, SameReply
  <2>2. CASE ~Twice
    <3>1. Unique(thread.shown, sl \o re)
      BY <2>2 DEF OnceInv, StaysStream
    <3>2. \A sh \in Seq(Nat) : Unique(sh, sl \o re) => Unique(sh \o sl, re)
      BY UniqueSends
    <3>3. Unique(thread.shown \o sl, re)
      BY <1>1, <3>1, <3>2
    <3> QED BY <3>3 DEF OnceInv, Unique
  <2> QED BY <2>1, <2>2
<1> QED BY <1>2, <1>3, <1>4, <1>5, <1>6, <1>7, <1>8 DEF ReplyInv

LEMMA SliceIs ==
  ASSUME NEW pe \in Seq(Nat), r.pending = pe
  PROVE  Slice \in Seq(Nat) /\ Remainder(Slice) \in Seq(Nat) /\ pe = Slice \o Remainder(Slice)
<1> DEFINE k == IF Len(pe) < MdMax THEN Len(pe) ELSE MdMax
<1> Len(pe) \in Nat
  BY LenProperties
<1>1. k \in Nat /\ k <= Len(pe)
  BY SlackReplyAssumption
<1> HIDE DEF k
<1>2. SubSeq(pe, 1, k) \in Seq(Nat) /\ Len(SubSeq(pe, 1, k)) = k
  BY <1>1, SubSeqProperties
<1>3. SubSeq(pe, k + 1, Len(pe)) \in Seq(Nat)
  BY <1>1, SubSeqProperties
<1>4. SubSeq(pe, 1, k) \o SubSeq(pe, k + 1, Len(pe)) = SubSeq(pe, 1, Len(pe))
  <2>1. 1 \in 1..Len(pe) + 1 /\ k \in 1 - 1..Len(pe) /\ Len(pe) \in k..Len(pe)
    BY <1>1
  <2>2. \A n \in k..Len(pe) : SubSeq(pe, 1, k) \o SubSeq(pe, k + 1, n) = SubSeq(pe, 1, n)
    BY <2>1, ConcatAdjacentSubSeq
  <2> QED BY <2>1, <2>2
<1>5. SubSeq(pe, 1, Len(pe)) = pe
  BY SubSeqFull
<1>6. Slice = SubSeq(pe, 1, k)
  BY DEF Slice, k
<1>7. Remainder(Slice) = SubSeq(pe, k + 1, Len(pe))
  BY <1>2, <1>6 DEF Remainder
<1> QED BY <1>2, <1>3, <1>4, <1>5, <1>6, <1>7

\* The text that opens the stream.
LEMMA OpenKeeps ==
  ASSUME ReplyInv, Open
  PROVE  ReplyInv'
<1> ReplyTypes /\ PlanInv /\ EventInv /\ TextInv /\ OutInv /\ OnceInv /\ LingerInv
  BY DEF ReplyInv
<1> r \in Renderer /\ thread \in Thread
  BY DEF ReplyTypes
<1>1. PICK answer \in {"ok"} \cup Failures :
           /\ thread' = IF Made(answer) THEN [Shows(Slice) EXCEPT !.stream = "open"] ELSE thread
           /\ \/ /\ answer \in {"ok", "refused"}
                 /\ r' = [r EXCEPT !.started = TRUE, !.ts = answer = "ok",
                                   !.pending = IF answer = "ok" THEN Remainder(Slice) ELSE @]
              \/ /\ answer \in {"throws", "lost"}
                 /\ \E c \in CatchClauses :
                        r' = [c EXCEPT !.started = TRUE, !.lost = @ \/ (answer = "lost")]
  BY DEF Open
<1>2. Step("flush") /\ ~r.stopped /\ ~r.started /\ UNCHANGED <<mode, turn, queue, link>>
  BY DEF Open
<1>3. PICK sl \in Seq(Nat), re \in Seq(Nat) : sl = Slice /\ re = Remainder(Slice) /\ r.pending = sl \o re
  BY SliceIs DEF Renderer
<1>4. /\ r.plan \in Plans /\ Head(r.plan) = "flush" /\ r.plan # <<>> /\ r.plan # <<"wipe">>
      /\ mode.kind = "stream" /\ r.plan \notin Ending
      /\ r'.plan = r.plan => StaysStream
  BY <1>2, FlushStays
<1>5. thread.shown \in Seq(Nat) /\ r.pending \in Seq(Nat) /\ <<>> \in Seq(Nat)
  BY DEF Thread, Renderer
<1>6. thread.shown \o sl \in Seq(Nat) /\ thread.shown \o <<>> = thread.shown /\ <<>> \o r.pending = r.pending
  BY <1>5, ConcatProperties, ConcatEmptySeq
<1>7. CASE answer = "ok"
  <2>1. thread' = [thread EXCEPT !.shown = thread.shown \o sl, !.status = FALSE, !.stream = "open"]
    BY <1>1, <1>3, <1>7 DEF Made, Shows
  <2>2. /\ thread' \in Thread /\ thread'.shown = thread.shown \o sl /\ ~thread'.status
        /\ thread'.asked = thread.asked
    BY <2>1, <1>6 DEF Thread
  <2>3. r' = [r EXCEPT !.started = TRUE, !.ts = TRUE, !.pending = re]
    BY <1>1, <1>3, <1>7
  <2>4. /\ r' \in Renderer /\ r'.plan = r.plan /\ SameWords(r') /\ SameReply(r') /\ r'.started
        /\ r'.pending = re /\ r'.caught = r.caught /\ r'.gaveUp = r.gaveUp /\ r'.missed = r.missed
    BY <2>3 DEF Renderer, SameWords, SameReply
  <2> QED BY <1>2, <1>3, <1>4, <2>2, <2>4, SendKeeps
<1>8. CASE answer = "refused"
  <2>1. thread' = thread /\ r' = [r EXCEPT !.started = TRUE, !.ts = FALSE]
    BY <1>1, <1>8, ZenonT(30) DEF Made, Renderer
  <2>2. /\ r' \in Renderer /\ r'.plan = r.plan /\ SameWords(r') /\ SameReply(r') /\ r'.started /\ ~r'.ts
        /\ r'.pending = r.pending /\ r'.caught = r.caught /\ r'.gaveUp = r.gaveUp /\ r'.missed = r.missed
    BY <2>1 DEF Renderer, SameWords, SameReply
  <2>3. PlanInv'
    BY <1>2, <1>4, <2>1, <2>2, StreamPlanKeeps DEF SameWords, SameReply
  <2>4. LingerInv'
    BY <1>2, <1>4, <2>1, <2>2, StreamLingers DEF SameWords, SameReply, LingerInv
  <2>5. /\ ReplyTypes' /\ EventInv' /\ TextInv' /\ OnceInv'
        /\ r'.plan \in Ending \/ thread'.asked => Salvaged'
    <3>1. r'.plan \in Ending \/ thread'.asked => r.plan \in Ending \/ Salvaged
      BY <2>1, <2>2 DEF OutInv
    <3> QED BY <1>2, <2>1, <2>2, <3>1, PassKeeps DEF SameWords, SameReply
  <2>6. OutInv'
    BY <1>4, <2>2, <2>5 DEF OutInv
  <2> QED BY <2>3, <2>4, <2>5, <2>6 DEF ReplyInv
<1>9. CASE answer \in {"throws", "lost"}
  <2>1. PICK c \in CatchClauses : r' = [c EXCEPT !.started = TRUE, !.lost = @ \/ (answer = "lost")]
    BY <1>1, <1>9
  <2>2. c \in Renderer /\ c.lost = r.lost
    BY <1>4, CatchDoes DEF SameReply
  <2>3. PICK lo \in BOOLEAN : lo <=> r.lost \/ answer = "lost"
    OBVIOUS
  <2>4. r' = [c EXCEPT !.started = TRUE, !.lost = lo]
    BY <2>1, <2>2, <2>3 DEF Renderer
  <2>5. CASE answer = "lost"
    <3>1. thread' = [thread EXCEPT !.shown = thread.shown \o sl, !.status = FALSE, !.stream = "open"]
      BY <1>1, <1>3, <2>5 DEF Made, Shows
    <3>2. /\ thread' \in Thread /\ thread'.shown = thread.shown \o sl /\ ~thread'.status
          /\ thread'.asked = thread.asked
      BY <3>1, <1>6 DEF Thread
    <3> QED BY <1>2, <1>3, <1>4, <2>3, <2>4, <2>5, <3>2, ThrownKeeps
  <2>6. CASE answer = "throws"
    <3>1. thread' = thread
      BY <1>1, <2>6 DEF Made
    <3> QED BY <1>2, <1>4, <1>5, <1>6, <2>3, <2>4, <3>1, ThrownKeeps
  <2> QED BY <1>9, <2>5, <2>6
<1> QED BY <1>1, <1>7, <1>8, <1>9 DEF Failures

\* The text that is appended to it.
LEMMA AppendTextKeeps ==
  ASSUME ReplyInv, AppendText
  PROVE  ReplyInv'
<1> ReplyTypes /\ PlanInv /\ EventInv /\ TextInv /\ OutInv /\ OnceInv /\ LingerInv
  BY DEF ReplyInv
<1> r \in Renderer /\ thread \in Thread
  BY DEF ReplyTypes
<1>1. /\ Step("flush") /\ ~r.stopped /\ r.started /\ r.ts /\ ~thread.status
      /\ UNCHANGED <<mode, turn, queue, link>>
  BY DEF AppendText, LingerInv
<1>2. /\ r.plan \in Plans /\ Head(r.plan) = "flush" /\ r.plan # <<>> /\ r.plan # <<"wipe">>
      /\ mode.kind = "stream" /\ r.plan \notin Ending /\ Pop \in Plans
      /\ r'.plan = r.plan => StaysStream
      /\ r'.plan = Pop => StaysStream
  BY <1>1, FlushStays
<1>3. PICK sl \in Seq(Nat), re \in Seq(Nat) : sl = Slice /\ re = Remainder(Slice) /\ r.pending = sl \o re
  BY SliceIs DEF Renderer
<1>4. thread.shown \in Seq(Nat) /\ r.pending \in Seq(Nat) /\ <<>> \in Seq(Nat)
  BY DEF Thread, Renderer
<1>5. thread.shown \o sl \in Seq(Nat) /\ thread.shown \o <<>> = thread.shown /\ <<>> \o r.pending = r.pending
  BY <1>4, ConcatProperties, ConcatEmptySeq
<1>6. CASE thread.stream = "stopped"
  <2>1. r' = [r EXCEPT !.plan = Pop, !.stopped = TRUE, !.pending = <<>>] /\ thread' = thread
    BY <1>6 DEF AppendText
  <2>2. r'.plan = Pop
    BY <2>1 DEF Renderer
  <2> QED BY <1>1, <1>2, <1>6, <2>1, <2>2, StopKeeps
<1>7. CASE thread.stream # "stopped"
  <2>1. PICK answer \in {"ok"} \cup Failures :
                /\ thread' = IF Made(answer) THEN Shows(Slice) ELSE thread
                /\ Answered(answer, [r EXCEPT !.pending = Remainder(Slice)], BreakOff)
    BY <1>7 DEF AppendText
  <2>2. ASSUME Made(answer)
        PROVE  /\ thread' \in Thread /\ thread'.shown = thread.shown \o sl /\ ~thread'.status
               /\ thread'.asked = thread.asked /\ thread'.stream = thread.stream
    <3>1. thread' = [thread EXCEPT !.shown = thread.shown \o sl, !.status = FALSE]
      BY <2>1, <2>2, <1>3 DEF Shows
    <3> QED BY <3>1, <1>5 DEF Thread
  <2>3. CASE answer = "ok"
    <3>1. r' = [r EXCEPT !.pending = re]
      BY <2>1, <2>3, <1>3 DEF Answered
    <3>2. /\ r' \in Renderer /\ r'.plan = r.plan /\ SameWords(r') /\ SameReply(r') /\ r'.started
          /\ r'.pending = re /\ r'.caught = r.caught /\ r'.gaveUp = r.gaveUp /\ r'.missed = r.missed
      BY <3>1, <1>1 DEF Renderer, SameWords, SameReply
    <3>3. Made(answer)
      BY <2>3 DEF Made
    <3> QED BY <1>1, <1>2, <1>3, <2>2, <3>2, <3>3, SendKeeps
  <2>4. CASE answer = "refused"
    <3>1. thread' = thread /\ r' = [r EXCEPT !.broken = TRUE, !.loud = TRUE]
      BY <2>1, <2>4 DEF Made, Answered, BreakOff
    <3>2. /\ r' \in Renderer /\ r'.plan = r.plan /\ SameWords(r') /\ SameReply(r') /\ r'.started /\ r'.ts = r.ts
          /\ r'.pending = r.pending /\ r'.caught = r.caught /\ r'.gaveUp = r.gaveUp /\ r'.missed = r.missed
      BY <3>1, <1>1 DEF Renderer, SameWords, SameReply
    <3>3. PlanInv'
      BY <1>1, <1>2, <3>1, <3>2, StreamPlanKeeps DEF SameWords, SameReply
    <3>4. LingerInv'
      BY <1>1, <1>2, <3>1, <3>2, StreamLingers DEF SameWords, SameReply, LingerInv
    <3>5. /\ ReplyTypes' /\ EventInv' /\ TextInv' /\ OnceInv'
          /\ r'.plan \in Ending \/ thread'.asked => Salvaged'
      <4>1. r'.plan \in Ending \/ thread'.asked => r.plan \in Ending \/ Salvaged
        BY <3>1, <3>2 DEF OutInv
      <4> QED BY <1>1, <3>1, <3>2, <4>1, PassKeeps DEF SameWords, SameReply
    <3>6. OutInv'
      BY <1>2, <3>2, <3>5 DEF OutInv
    <3> QED BY <3>3, <3>4, <3>5, <3>6 DEF ReplyInv
  <2>5. CASE answer \in {"throws", "lost"}
    <3>1. PICK c \in CatchClauses : r' = [c EXCEPT !.lost = @ \/ answer = "lost"]
      BY <2>1, <2>5 DEF Answered
    <3>2. c \in Renderer /\ c.lost = r.lost /\ c.started = r.started
      BY <1>2, CatchDoes DEF SameReply, SameStream
    <3>3. PICK lo \in BOOLEAN : lo <=> r.lost \/ answer = "lost"
      OBVIOUS
    <3>4. r' = [c EXCEPT !.started = TRUE, !.lost = lo]
      BY <1>1, <3>1, <3>2, <3>3 DEF Renderer
    <3>5. CASE answer = "lost"
      <4>1. Made(answer)
        BY <3>5 DEF Made
      <4> QED BY <1>1, <1>2, <1>3, <2>2, <3>3, <3>4, <3>5, <4>1, ThrownKeeps
    <3>6. CASE answer = "throws"
      <4>1. thread' = thread
        BY <2>1, <3>6 DEF Made
      <4> QED BY <1>1, <1>2, <1>4, <1>5, <3>3, <3>4, <4>1, ThrownKeeps
    <3> QED BY <2>5, <3>5, <3>6
  <2> QED BY <2>1, <2>3, <2>4, <2>5 DEF Failures
<1> QED BY <1>6, <1>7

\* A task chunk.
LEMMA ChunkKeeps ==
  ASSUME ReplyInv, Chunk
  PROVE  ReplyInv'
<1> ReplyTypes /\ PlanInv /\ EventInv /\ TextInv /\ OutInv /\ OnceInv /\ LingerInv
  BY DEF ReplyInv
<1> r \in Renderer /\ thread \in Thread
  BY DEF ReplyTypes
<1>1. Step("chunk") /\ UNCHANGED <<mode, turn, queue, link>>
  BY DEF Chunk
<1>2. r.plan \in Plans /\ r.plan # <<>> /\ Head(r.plan) = "chunk"
  BY <1>1 DEF Renderer, Step
<1>3. /\ r.plan \in Loop /\ Pop \in Loop /\ SamePhase(r.plan, Pop) /\ OfStream(r.plan, Pop)
      /\ r.plan \notin Ending /\ Pop \notin Ending /\ r.plan \notin Waiting /\ Pop # <<"status", "next">>
  BY <1>2, AtChunk DEF Pop
<1>4. mode.kind = "stream" /\ r.plan \in StreamPlans /\ Pop \in Plans /\ r.plan # <<"wipe">>
  <2>1. <<"wipe">> \in Ending
    BY EndingPlans
  <2> QED BY <1>3, <2>1, StreamOnly DEF OfStream, SamePhase
<1>5. r'.plan = Pop => StaysStream
  BY <1>3, <1>4 DEF StaysStream, OfStream
<1>6. Pop \notin Closing \cup Salvage
  BY <1>3, PhasesApart
<1>7. thread.shown \in Seq(Nat) /\ r.pending \in Seq(Nat) /\ <<>> \in Seq(Nat)
  BY DEF Thread, Renderer
<1>8. thread.shown \o <<>> = thread.shown /\ <<>> \o r.pending = r.pending
  BY <1>7, ConcatEmptySeq
<1>9. ASSUME r' \in Renderer, r'.plan = Pop, SameWords(r'), SameReply(r'), r'.started,
             r'.pending = r.pending, r'.caught = r.caught, r'.gaveUp = r.gaveUp, r'.missed = r.missed,
             thread' \in Thread, thread'.shown = thread.shown, thread'.asked = thread.asked,
             thread'.status => thread.status /\ ~r'.ts
      PROVE  ReplyInv'
  <2>1. PlanInv'
    BY <1>1, <1>5, <1>9, StreamPlanKeeps DEF SameWords, SameReply
  <2>2. LingerInv'
    BY <1>1, <1>5, <1>9, StreamLingers DEF SameWords, SameReply, LingerInv
  <2>3. /\ ReplyTypes' /\ EventInv' /\ TextInv' /\ OnceInv'
        /\ r'.plan \in Ending \/ thread'.asked => Salvaged'
    <3>1. r'.plan \in Ending \/ thread'.asked => r.plan \in Ending \/ Salvaged
      BY <1>3, <1>9 DEF OutInv
    <3> QED BY <1>1, <1>3, <1>9, <3>1, PassKeeps DEF SameWords, SameReply
  <2>4. OutInv'
    BY <1>6, <1>9, <2>3 DEF OutInv
  <2> QED BY <2>1, <2>2, <2>3, <2>4 DEF ReplyInv
<1>10. CASE r.broken \/ (r.started /\ ~r.ts)
  <2>1. r' = [r EXCEPT !.plan = Pop] /\ thread' = thread /\ r.started
    BY <1>10 DEF Chunk, PlanInv
  <2>2. /\ r' \in Renderer /\ r'.plan = Pop /\ SameWords(r') /\ SameReply(r') /\ r'.started /\ r'.ts = r.ts
        /\ r'.pending = r.pending /\ r'.caught = r.caught /\ r'.gaveUp = r.gaveUp /\ r'.missed = r.missed
    BY <1>4, <2>1 DEF Renderer, SameWords, SameReply
  <2> QED BY <1>9, <2>1, <2>2 DEF LingerInv
<1>11. CASE ~(r.broken \/ (r.started /\ ~r.ts)) /\ thread.stream = "stopped"
  <2>1. r' = [r EXCEPT !.plan = Pop, !.stopped = TRUE, !.pending = <<>>] /\ thread' = thread
    BY <1>11 DEF Chunk
  <2>2. r'.plan = Pop
    BY <2>1 DEF Renderer
  <2>3. ~thread.status
    BY <1>11 DEF PlanInv, LingerInv
  <2> QED BY <1>1, <1>4, <1>5, <1>11, <2>1, <2>2, <2>3, StopKeeps
<1>12. CASE ~(r.broken \/ (r.started /\ ~r.ts)) /\ thread.stream # "stopped"
  <2>1. PICK answer \in {"ok"} \cup Failures :
                /\ thread' = IF Made(answer) THEN [Shows(<<>>) EXCEPT !.stream = "open"] ELSE thread
                /\ \/ /\ answer \in {"ok", "refused"}
                      /\ r' = [r EXCEPT !.plan = Pop, !.started = TRUE,
                                        !.ts = @ \/ answer = "ok",
                                        !.loud = @ \/ (r.started /\ answer # "ok")]
                   \/ /\ answer \in {"throws", "lost"}
                      /\ \E c \in CatchClauses : r' = [c EXCEPT !.started = TRUE]
    BY <1>12 DEF Chunk
  <2>2. PICK made \in BOOLEAN : made <=> Made(answer)
    OBVIOUS
  <2>3. /\ thread' \in Thread /\ thread'.shown = thread.shown /\ thread'.asked = thread.asked
        /\ thread'.status => thread.status /\ ~made
    <3>1. CASE made
      <4>1. thread' = [thread EXCEPT !.shown = thread.shown, !.status = FALSE, !.stream = "open"]
        BY <2>1, <2>2, <3>1, <1>8 DEF Shows
      <4> QED BY <4>1 DEF Thread
    <3>2. CASE ~made
      BY <2>1, <2>2, <3>2
    <3> QED BY <3>1, <3>2
  <2>4. CASE answer \in {"ok", "refused"}
    <3>1. r' = [r EXCEPT !.plan = Pop, !.started = TRUE, !.ts = @ \/ answer = "ok",
                         !.loud = @ \/ (r.started /\ answer # "ok")]
      BY <2>1, <2>4
    <3> PICK ts \in BOOLEAN, loud \in BOOLEAN :
           ts = (r.ts \/ answer = "ok") /\ loud = (r.loud \/ (r.started /\ answer # "ok"))
      OBVIOUS
    <3>4. r' = [r EXCEPT !.plan = Pop, !.started = TRUE, !.ts = ts, !.loud = loud]
      BY <3>1
    <3>5. r' \in Renderer
      BY <1>4, <3>4, ZenonT(30) DEF Renderer
    <3>6. /\ r'.plan = Pop /\ r'.started /\ r'.ts = ts
          /\ r'.pending = r.pending /\ r'.caught = r.caught /\ r'.gaveUp = r.gaveUp /\ r'.missed = r.missed
      BY <3>4 DEF Renderer
    <3>7. SameWords(r') /\ SameReply(r')
      BY <3>4 DEF Renderer, SameWords, SameReply
    <3>8. ts <=> r.ts \/ answer = "ok"
      OBVIOUS
    <3>2. /\ r' \in Renderer /\ r'.plan = Pop /\ SameWords(r') /\ SameReply(r') /\ r'.started
          /\ r'.ts <=> r.ts \/ answer = "ok"
          /\ r'.pending = r.pending /\ r'.caught = r.caught /\ r'.gaveUp = r.gaveUp /\ r'.missed = r.missed
      BY <3>5, <3>6, <3>7, <3>8
    <3>3. thread'.status => thread.status /\ ~r'.ts
      BY <2>2, <2>3, <2>4, <3>2 DEF Made, LingerInv
    <3> QED BY <1>9, <2>3, <3>2, <3>3
  <2>5. CASE answer \in {"throws", "lost"}
    <3>1. PICK c \in CatchClauses : r' = [c EXCEPT !.started = TRUE]
      BY <2>1, <2>5
    <3>2. c \in Renderer /\ c.lost = r.lost /\ r.lost \in BOOLEAN
      BY <1>2, <1>4, CatchDoes DEF SameReply, Renderer
    <3>3. r' = [c EXCEPT !.started = TRUE, !.lost = r.lost]
      BY <3>1, <3>2 DEF Renderer
    <3> QED BY <1>1, <1>2, <1>3, <1>4, <1>7, <1>8, <2>3, <3>2, <3>3, ThrownKeeps
  <2> QED BY <2>1, <2>4, <2>5 DEF Failures
<1> QED BY <1>10, <1>11, <1>12

\* The end of the stream.
LEMMA StopStreamKeeps ==
  ASSUME ReplyInv, StopStream
  PROVE  ReplyInv'
<1> ReplyTypes /\ PlanInv /\ EventInv /\ TextInv /\ OutInv /\ OnceInv /\ LingerInv
  BY DEF ReplyInv
<1> r \in Renderer /\ thread \in Thread
  BY DEF ReplyTypes
<1>1. Step("stop") /\ UNCHANGED <<mode, turn, queue, link>>
  BY DEF StopStream
<1>2. r.plan \in Plans /\ r.plan # <<>> /\ Head(r.plan) = "stop"
  BY <1>1 DEF Renderer, Step
<1>3. /\ SamePhase(r.plan, Pop) /\ OfStream(r.plan, Pop)
      /\ r.plan \notin Ending /\ Pop \notin Ending /\ r.plan \notin Loop
  BY <1>2, AtStop DEF Pop
<1>4. /\ mode.kind = "stream" /\ r.plan \in StreamPlans /\ Pop \in Plans /\ r.plan # <<"wipe">>
      /\ r.plan \notin Waiting /\ Pop # <<"status", "next">> /\ Pop \notin Loop
  <2>1. <<"wipe">> \in Ending /\ <<"status", "next">> \in Loop /\ Waiting \subseteq Loop
    BY EndingPlans DEF Loop
  <2> QED BY <1>3, <2>1, StreamOnly DEF OfStream, SamePhase
<1>5. r'.plan = Pop => StaysStream
  BY <1>3, <1>4 DEF StaysStream, OfStream
<1>6. FlushedOut
  BY <1>2, <1>3 DEF OutInv, Plans
<1>7. thread.shown \in Seq(Nat) /\ r.pending \in Seq(Nat) /\ <<>> \in Seq(Nat)
  BY DEF Thread, Renderer
<1>8. thread.shown \o <<>> = thread.shown /\ <<>> \o r.pending = r.pending
  BY <1>7, ConcatEmptySeq
<1>9. ASSUME r' = [r EXCEPT !.plan = Pop],
             thread' \in Thread, thread'.shown = thread.shown, thread'.asked = thread.asked,
             thread'.status => thread.status, thread'.stream # "none" => r.started
      PROVE  ReplyInv'
  <2>0. /\ r' \in Renderer /\ r'.plan = Pop /\ SameWords(r') /\ SameStream(r') /\ SameReply(r')
        /\ r'.pending = r.pending /\ r'.caught = r.caught /\ r'.gaveUp = r.gaveUp /\ r'.missed = r.missed
    BY <1>4, <1>9 DEF Renderer, SameWords, SameStream, SameReply
  <2>1. PlanInv'
    BY <1>1, <1>5, <1>9, <2>0, StreamPlanKeeps DEF SameWords, SameStream, SameReply, PlanInv
  <2>2. LingerInv'
    BY <1>1, <1>5, <1>9, <2>0, StreamLingers DEF SameWords, SameStream, SameReply, LingerInv
  <2>3. /\ ReplyTypes' /\ EventInv' /\ TextInv' /\ OnceInv'
        /\ r'.plan \in Ending \/ thread'.asked => Salvaged'
    <3>1. r'.plan \in Ending \/ thread'.asked => r.plan \in Ending \/ Salvaged
      BY <1>3, <1>9, <2>0 DEF OutInv
    <3> QED BY <1>1, <1>3, <1>4, <1>9, <2>0, <3>1, PassKeeps DEF SameWords, SameReply
  <2>4. FlushedOut'
    BY <1>6, <2>0 DEF FlushedOut, SameWords, SameStream
  <2>5. OutInv'
    BY <1>4, <2>0, <2>3, <2>4 DEF OutInv
  <2> QED BY <2>1, <2>2, <2>3, <2>5 DEF ReplyInv
<1>10. CASE ~r.ts \/ r.broken \/ r.stopped
  <2>1. r' = [r EXCEPT !.plan = Pop] /\ thread' = thread
    BY <1>10 DEF StopStream
  <2> QED BY <1>9, <2>1 DEF PlanInv
<1>11. CASE ~(~r.ts \/ r.broken \/ r.stopped)
  <2>1. PICK answer \in {"ok"} \cup Failures :
                /\ thread' = IF Made(answer) THEN [thread EXCEPT !.stream = "closed"] ELSE thread
                /\ Answered(answer, [r EXCEPT !.plan = Pop], [r EXCEPT !.plan = Pop])
    BY <1>11 DEF StopStream
  <2>2. r.started
    BY <1>11 DEF PlanInv
  <2>3. /\ thread' \in Thread /\ thread'.shown = thread.shown /\ thread'.asked = thread.asked
        /\ thread'.status = thread.status
    <3>1. thread' = [thread EXCEPT !.stream = "closed"] \/ thread' = thread
      BY <2>1
    <3> QED BY <3>1 DEF Thread
  <2>4. CASE answer \in {"ok", "refused"}
    <3>1. r' = [r EXCEPT !.plan = Pop]
      BY <2>1, <2>4 DEF Answered
    <3> QED BY <1>9, <2>2, <2>3, <3>1
  <2>5. CASE answer \in {"throws", "lost"}
    <3>1. PICK c \in CatchClauses : r' = [c EXCEPT !.lost = @ \/ answer = "lost"]
      BY <2>1, <2>5 DEF Answered
    <3>2. c \in Renderer /\ c.lost = r.lost /\ c.started = r.started
      BY <1>2, <1>4, CatchDoes DEF SameReply, SameStream
    <3>3. PICK lo \in BOOLEAN : lo <=> r.lost \/ answer = "lost"
      OBVIOUS
    <3>4. r' = [c EXCEPT !.started = TRUE, !.lost = lo]
      BY <2>2, <3>1, <3>2, <3>3 DEF Renderer
    <3> QED BY <1>1, <1>2, <1>3, <1>4, <1>7, <1>8, <2>2, <2>3, <3>3, <3>4, ThrownKeeps
  <2> QED BY <2>1, <2>4, <2>5 DEF Failures
<1> QED BY <1>10, <1>11

\* The text is out: what is left of it was posted, or nothing was left.
LEMMA PostLeaves ==
  ASSUME ReplyInv, Step("post"), mode' = mode, turn' = turn, link' = link, queue' = queue,
         r' \in Renderer, thread' \in Thread, r'.plan = Pop, r'.pending = r.pending,
         SameWords(r'), SameStream(r'), r'.statusShown = r.statusShown, r'.lost = r.lost,
         r'.caught = r.caught, r.gaveUp => r'.gaveUp, r.missed => r'.missed, Salvaged',
         thread'.shown = thread.shown \/ (~r.stopped /\ thread'.shown = thread.shown \o r.pending),
         thread'.asked = thread.asked, thread'.stream = thread.stream,
         thread'.status => thread.status /\ (r'.missed \/ (~r'.posted /\ r.pending = <<>>))
  PROVE  ReplyInv'
<1> ReplyTypes /\ PlanInv /\ EventInv /\ TextInv /\ OutInv /\ OnceInv /\ LingerInv
  BY DEF ReplyInv
<1> r \in Renderer /\ thread \in Thread /\ turn \in ATurn
  BY DEF ReplyTypes
<1> /\ thread.shown \in Seq(Nat) /\ r.pending \in Seq(Nat) /\ r.taken \in Seq(Nat)
    /\ turn.said \in Nat /\ r.stopped \in BOOLEAN
  BY DEF Renderer, Thread, ATurn
<1>1. r.plan \in Plans /\ r.plan # <<>> /\ Head(r.plan) = "post"
  BY DEF Renderer, Step
<1>2. /\ r.plan \in Bare => Pop = <<>>
      /\ r.plan \in ClosingAsk => Pop = <<"files", "prompt">>
      /\ r.plan \in ClosingClear => Pop = <<"files", "clear">>
      /\ r.plan \in Salvage => Pop = <<"wipe">>
      /\ r.plan \in Closing \cup Salvage /\ r.plan \notin Ending
      /\ r.plan \notin Loop /\ r.plan \notin ResumePlans
      /\ r.plan \in OncePlans => r.plan \in ClosingClear
  BY <1>1, AtPost DEF Pop
<1>3. /\ Pop \in Ending /\ Pop \in StreamPlans \cap OncePlans
      /\ Pop \in Asking => r.plan \in ClosingAsk
      /\ Pop = <<>> => r.plan \in Bare
  <2>1. r.plan \in Bare \/ r.plan \in ClosingAsk \/ r.plan \in ClosingClear \/ r.plan \in Salvage
    BY <1>2 DEF Closing
  <2>2. <<"files", "clear">> # <<>> /\ <<"files", "prompt">> # <<>> /\ <<"wipe">> # <<>>
    OBVIOUS
  <2>3. \A p \in {<<>>, <<"wipe">>, <<"files", "clear">>} :
           p \in Ending /\ p \notin Asking /\ p \in StreamPlans \cap OncePlans
    BY EndingPlans
  <2>4. <<"files", "prompt">> \in Ending /\ <<"files", "prompt">> \in StreamPlans \cap OncePlans
    BY EndingPlans
  <2>5. CASE r.plan \in ClosingAsk
    BY <2>5, <1>2, <2>2, <2>4
  <2>6. CASE r.plan \notin ClosingAsk
    BY <2>6, <1>2, <2>1, <2>2, <2>3
  <2> QED BY <2>5, <2>6
<1>4. Pop \notin Loop \cup Closing \cup Salvage
  BY <1>3, PhasesApart
<1>5. mode.kind # "resume"
  BY <1>2 DEF PlanInv
<1>6. ReplyTypes'
  BY DEF ReplyTypes
<1>7. PlanInv'
  <2>1. r'.ts \/ r'.broken \/ r'.stopped \/ thread'.stream # "none" => r'.started
    BY DEF PlanInv, SameWords, SameStream
  <2>2. mode.kind # "stream" => ~r'.started /\ ~r'.streamed
    BY DEF PlanInv, SameWords, SameStream
  <2>3. r.plan \notin {<<>>, <<"wipe">>, <<"awaiting">>, <<"failed">>}
    BY <1>2, EndingPlans
  <2>4. r'.caught => r'.plan = <<"wipe">>
    BY <1>2, <2>3 DEF PlanInv
  <2>5. thread'.asked => r'.plan = <<"wipe">>
    BY <1>2, <2>3 DEF PlanInv
  <2>6. r'.plan \in Asking \cup ClosingAsk => turn'.state = "parked"
    BY <1>3, <1>4 DEF PlanInv, Closing
  <2>7. r'.plan # <<"status", "next">>
    BY <1>4, EndingPlans
  <2> QED BY <2>1, <2>2, <2>4, <2>5, <2>6, <2>7, <1>3, <1>4, <1>5 DEF PlanInv
<1>8. EventInv'
  BY <1>4, EventsKept DEF SameWords
<1>9. TextInv'
  <2>1. Kept(thread'.shown, r.pending, r.taken, r.stopped, turn.said)
    <3>1. CASE thread'.shown = thread.shown
      BY <3>1 DEF TextInv
    <3>2. CASE ~r.stopped /\ thread'.shown = thread.shown \o r.pending
      <4>1. Kept(thread.shown, r.pending, r.taken, FALSE, turn.said)
        BY <3>2 DEF TextInv
      <4>2. \A sh, pe, ta \in Seq(Nat), n \in Nat : Kept(sh, pe, ta, FALSE, n) => Kept(sh \o pe, pe, ta, FALSE, n)
        BY KeptPosts
      <4>3. Kept(thread.shown \o r.pending, r.pending, r.taken, FALSE, turn.said)
        BY <4>1, <4>2
      <4> QED BY <3>2, <4>3
    <3> QED BY <3>1, <3>2
  <2> QED BY <2>1, <1>4 DEF TextInv, SameWords
<1>10. OutInv'
  BY <1>4 DEF OutInv
<1>11. OnceInv'
  <2>1. CASE Twice
    BY <2>1 DEF OnceInv, Twice
  <2>2. CASE ~Twice
    <3>1. Unique(thread.shown, r.pending)
      BY <2>2, <1>2 DEF OnceInv
    <3>2. Fresh(thread'.shown, {})
      <4>1. CASE thread'.shown = thread.shown
        BY <4>1, <3>1 DEF Unique
      <4>2. CASE thread'.shown = thread.shown \o r.pending
        <5>1. \A sh, pe \in Seq(Nat) : Unique(sh, pe) => Unique(sh \o pe, <<>>)
          <6> TAKE sh, pe \in Seq(Nat)
          <6>1. pe \o <<>> = pe /\ <<>> \in Seq(Nat)
            BY ConcatEmptySeq
          <6> QED BY <6>1, UniqueSends
        <5>2. Unique(thread.shown \o r.pending, <<>>)
          BY <3>1, <5>1
        <5> QED BY <4>2, <5>2 DEF Unique
      <4> QED BY <4>1, <4>2
    <3> QED BY <3>2, <1>3 DEF OnceInv
  <2> QED BY <2>1, <2>2
<1>12. LingerInv'
  <2>1. thread'.status => r'.statusShown /\ ~r'.ts /\ ~r'.stopped /\ (r'.posted => r'.missed)
    BY DEF LingerInv, SameWords, SameStream
  <2>2. thread'.status /\ ~r'.missed /\ turn'.state # "cancelled" => r'.plan # <<>>
    BY <1>3 DEF LingerInv
  <2>3. r'.plan \notin Bare
    BY <1>4 DEF Closing
  <2> QED BY <2>1, <2>2, <2>3, <1>5 DEF LingerInv
<1> QED BY <1>6, <1>7, <1>8, <1>9, <1>10, <1>11, <1>12 DEF ReplyInv

LEMMA PostRestKeeps ==
  ASSUME ReplyInv, PostRest
  PROVE  ReplyInv'
<1> ReplyTypes /\ PlanInv /\ TextInv /\ LingerInv
  BY DEF ReplyInv
<1> r \in Renderer /\ thread \in Thread
  BY DEF ReplyTypes
<1> /\ thread.shown \in Seq(Nat) /\ r.pending \in Seq(Nat) /\ r.taken \in Seq(Nat)
    /\ <<>> \in Seq(Nat)
  BY DEF Renderer, Thread
<1>1. PICK answer \in {"ok"} \cup Failures :
           /\ thread' = IF Made(answer) THEN Shows(r.pending) ELSE thread
           /\ Answered(answer, [r EXCEPT !.plan = Pop, !.posted = TRUE],
                               [r EXCEPT !.plan = Pop, !.posted = TRUE, !.gaveUp = TRUE, !.missed = TRUE])
  BY DEF PostRest
<1>2. Step("post") /\ ~r.stopped /\ UNCHANGED <<mode, turn, queue, link>>
  BY DEF PostRest
<1>3. r.plan \in Plans /\ r.plan # <<>> /\ Head(r.plan) = "post"
  BY <1>2 DEF Renderer, Step
<1>4. r.plan \notin Ending /\ Pop \in Plans /\ r.plan # <<"wipe">>
  <2>1. Pop \in {<<>>, <<"files", "prompt">>, <<"files", "clear">>, <<"wipe">>} /\ r.plan \notin Ending
    BY <1>3, AtPost DEF Pop, Closing
  <2> QED BY <2>1, EndingPlans
<1>5. thread.shown \o r.pending \in Seq(Nat) /\ r.pending \o <<>> = r.pending
      /\ thread.shown \o <<>> = thread.shown /\ <<>> \o r.pending = r.pending
  BY ConcatProperties, ConcatEmptySeq
<1>6. ASSUME Made(answer)
      PROVE  /\ thread' \in Thread /\ thread'.shown = thread.shown \o r.pending /\ ~thread'.status
             /\ thread'.asked = thread.asked /\ thread'.stream = thread.stream
  <2>1. thread' = [thread EXCEPT !.shown = thread.shown \o r.pending, !.status = FALSE]
    BY <1>1, <1>6 DEF Shows
  <2> QED BY <2>1, <1>5 DEF Thread
<1>7. CASE answer = "ok"
  <2>1. r' = [r EXCEPT !.plan = Pop, !.posted = TRUE] /\ Made(answer)
    BY <1>1, <1>7 DEF Answered, Made
  <2>2. /\ r' \in Renderer /\ r'.plan = Pop /\ SameWords(r') /\ SameStream(r') /\ r'.lost = r.lost
        /\ r'.statusShown = r.statusShown
        /\ r'.pending = r.pending /\ r'.caught = r.caught /\ r'.gaveUp = r.gaveUp /\ r'.missed = r.missed
    BY <2>1, <1>4 DEF Renderer, SameWords, SameStream
  <2>3. Salvaged'
    <3>1. Range(thread.shown \o r.pending) = Range(thread.shown) \cup Range(r.pending)
      BY RangeConcatenation
    <3>2. Range(r.taken) \subseteq Range(thread.shown) \cup Range(r.pending)
      BY <1>2 DEF TextInv, Kept
    <3> QED BY <1>6, <2>1, <2>2, <3>1, <3>2 DEF Salvaged, SameWords
  <2> QED BY <1>2, <1>6, <2>1, <2>2, <2>3, PostLeaves
<1>8. CASE answer = "refused"
  <2>1. r' = [r EXCEPT !.plan = Pop, !.posted = TRUE, !.gaveUp = TRUE, !.missed = TRUE] /\ thread' = thread
    BY <1>1, <1>8 DEF Answered, Made
  <2>2. /\ r' \in Renderer /\ r'.plan = Pop /\ SameWords(r') /\ SameStream(r') /\ r'.lost = r.lost
        /\ r'.statusShown = r.statusShown
        /\ r'.pending = r.pending /\ r'.caught = r.caught /\ r'.gaveUp /\ r'.missed
    BY <2>1, <1>4 DEF Renderer, SameWords, SameStream
  <2>3. Salvaged'
    BY <2>2 DEF Salvaged
  <2> QED BY <1>2, <2>1, <2>2, <2>3, PostLeaves
<1>9. CASE answer \in {"throws", "lost"}
  <2>1. PICK c \in CatchClauses : r' = [c EXCEPT !.lost = @ \/ answer = "lost"]
    BY <1>1, <1>9 DEF Answered
  <2>2. c \in Renderer /\ c.lost = r.lost /\ c.started = r.started /\ r.started \in BOOLEAN
    BY <1>3, <1>4, CatchDoes DEF SameReply, SameStream, Renderer
  <2>3. PICK lo \in BOOLEAN : lo <=> r.lost \/ answer = "lost"
    OBVIOUS
  <2>4. r' = [c EXCEPT !.started = r.started, !.lost = lo]
    BY <2>1, <2>2, <2>3 DEF Renderer
  <2>5. thread.stream # "none" => r.started
    BY DEF PlanInv
  <2>6. CASE answer = "lost"
    <3>1. Made(answer)
      BY <2>6 DEF Made
    <3> QED BY <1>2, <1>3, <1>4, <1>5, <1>6, <2>2, <2>3, <2>4, <2>5, <2>6, <3>1, ThrownKeeps
  <2>7. CASE answer = "throws"
    <3>1. thread' = thread
      BY <1>1, <2>7 DEF Made
    <3> QED BY <1>2, <1>3, <1>4, <1>5, <2>2, <2>3, <2>4, <2>5, <3>1, ThrownKeeps
  <2> QED BY <1>9, <2>6, <2>7
<1> QED BY <1>1, <1>7, <1>8, <1>9 DEF Failures

LEMMA PostedKeeps ==
  ASSUME ReplyInv, Posted
  PROVE  ReplyInv'
<1> ReplyTypes /\ PlanInv /\ TextInv /\ OutInv /\ LingerInv
  BY DEF ReplyInv
<1> r \in Renderer /\ thread \in Thread
  BY DEF ReplyTypes
<1>1. /\ Step("post") /\ r' = [r EXCEPT !.plan = Pop, !.posted = r.stopped \/ r.ts]
      /\ r.pending = <<>> \/ r.stopped \/ (r.ts /\ ~r.broken)
      /\ UNCHANGED <<mode, turn, queue, link, thread>>
  BY DEF Posted
<1>2. r.plan \in Plans /\ r.plan # <<>> /\ Head(r.plan) = "post"
  BY <1>1 DEF Renderer, Step
<1>3. Pop \in Plans /\ r.plan \in Closing \cup Salvage
  <2>1. Pop \in {<<>>, <<"files", "prompt">>, <<"files", "clear">>, <<"wipe">>} /\ r.plan \in Closing \cup Salvage
    BY <1>2, AtPost DEF Pop, Closing
  <2> QED BY <2>1, EndingPlans
<1>4. PICK posted \in BOOLEAN : posted = (r.stopped \/ r.ts)
  OBVIOUS
<1>5. r' = [r EXCEPT !.plan = Pop, !.posted = posted]
  BY <1>1, <1>4
<1>6. /\ r' \in Renderer /\ r'.plan = Pop /\ SameWords(r') /\ SameStream(r') /\ r'.lost = r.lost
      /\ r'.statusShown = r.statusShown /\ r'.posted = posted
      /\ r'.pending = r.pending /\ r'.caught = r.caught /\ r'.gaveUp = r.gaveUp /\ r'.missed = r.missed
  BY <1>3, <1>5 DEF Renderer, SameWords, SameStream
<1>7. r.pending = <<>> \/ r.stopped
  BY <1>1, <1>2, <1>3 DEF OutInv, FlushedOut
<1>8. Salvaged'
  <2>1. Range(<<>>) = {}
    BY DEF Range
  <2>2. r.pending = <<>> /\ ~r.stopped => Range(r.taken) \subseteq Range(thread.shown)
    BY <2>1 DEF TextInv, Kept
  <2> QED BY <1>1, <1>6, <1>7, <2>2 DEF Salvaged, SameWords
<1>9. thread'.status => r.missed \/ (~r'.posted /\ r.pending = <<>>)
  BY <1>1, <1>4, <1>6, <1>7 DEF LingerInv
<1> QED BY <1>1, <1>6, <1>8, <1>9, PostLeaves

\* What follows the text, when it is answered.
LEMMA RestKeeps ==
  ASSUME ReplyInv, mode' = mode, turn' = turn, link' = link, queue' = queue,
         r.plan \in Ending, r'.plan \in Ending, r' \in Renderer, thread' \in Thread,
         SameWords(r'), SameStream(r'), r'.pending = r.pending, r'.lost = r.lost,
         r'.caught = r.caught, r'.statusShown = r.statusShown, r.gaveUp => r'.gaveUp, r.missed => r'.missed,
         thread'.shown = thread.shown, thread'.stream = thread.stream,
         mode.kind = "stream" => r'.plan \in StreamPlans,
         mode.kind = "once" => r'.plan \in OncePlans,
         mode.kind = "resume" => r'.plan \in ResumePlans,
         r'.plan \in Asking => r.plan \in Asking,
         r.caught => r'.plan \in {<<>>, <<"wipe">>, <<"failed">>},
         thread.asked => thread'.asked, thread'.asked => thread.asked \/ r.plan \in Asking,
         thread'.asked => r'.plan \in {<<>>, <<"wipe">>, <<"awaiting">>, <<"failed">>},
         thread'.status => thread.status /\ (r'.posted => r'.missed),
         thread'.status /\ ~r'.missed /\ turn.state # "cancelled" => r'.plan # <<>>,
         mode.kind = "resume" /\ ~r'.missed /\ r'.plan \in {<<>>, <<"files">>} =>
             thread'.message \notin {"buttons", "working"}
  PROVE  ReplyInv'
<1> ReplyTypes /\ PlanInv /\ EventInv /\ TextInv /\ OutInv /\ OnceInv /\ LingerInv
  BY DEF ReplyInv
<1> r \in Renderer /\ thread \in Thread
  BY DEF ReplyTypes
<1>1. r'.plan \notin Loop \cup Closing \cup Salvage /\ r.plan \notin Salvage
  BY PhasesApart
<1>2. r.caught => r.plan \notin Asking
  <2>1. \A p \in Asking : p \notin {<<>>, <<"wipe">>, <<"failed">>}
    BY EndingPlans
  <2> QED BY <2>1, <1>1 DEF PlanInv
<1>3. /\ ReplyTypes' /\ EventInv' /\ TextInv' /\ OnceInv'
      /\ r'.plan \in Ending \/ thread'.asked => Salvaged'
  BY <1>1, <1>2, PassKeeps DEF SameWords, Thread
<1>4. PlanInv'
  <2>1. r'.ts \/ r'.broken \/ r'.stopped \/ thread'.stream # "none" => r'.started
    BY DEF PlanInv, SameWords, SameStream
  <2>2. mode.kind # "stream" => ~r'.started /\ ~r'.streamed
    BY DEF PlanInv, SameWords, SameStream
  <2>3. mode.kind = "resume" => r'.taken = <<>> /\ r'.pending = <<>> /\ ~thread'.status
    BY DEF PlanInv, SameWords
  <2>4. r'.plan \in Asking \cup ClosingAsk => turn'.state = "parked"
    BY <1>1 DEF PlanInv, Closing
  <2>5. r'.plan # <<"status", "next">>
    BY <1>1, EndingPlans
  <2> QED BY <2>1, <2>2, <2>3, <2>4, <2>5, <1>1 DEF PlanInv
<1>5. OutInv'
  BY <1>1, <1>3 DEF OutInv
<1>6. LingerInv'
  <2>1. thread'.status => r'.statusShown /\ ~r'.ts /\ ~r'.stopped /\ (r'.posted => r'.missed)
    BY DEF LingerInv, SameWords, SameStream
  <2>2. r'.plan \notin Bare
    BY <1>1 DEF Closing
  <2> QED BY <2>1, <2>2 DEF LingerInv
<1> QED BY <1>3, <1>4, <1>5, <1>6 DEF ReplyInv

LEMMA SkipClearKeeps ==
  ASSUME ReplyInv, SkipClear
  PROVE  ReplyInv'
<1> ReplyTypes /\ PlanInv /\ LingerInv
  BY DEF ReplyInv
<1> r \in Renderer /\ thread \in Thread
  BY DEF ReplyTypes
<1>1. r' = [r EXCEPT !.plan = Pop] /\ UNCHANGED <<mode, turn, queue, link, thread>>
  BY DEF SkipClear
<1>2. r.plan \in {<<"wipe">>, <<"clear">>} /\ Pop = <<>>
  BY AtOthers DEF SkipClear, Step, Renderer, Pop
<1>3. /\ <<>> \in Ending \ Asking /\ <<>> \in StreamPlans \cap OncePlans /\ <<>> \in ResumePlans
      /\ <<>> \in Plans /\ r.plan \in Ending /\ r.plan \notin ResumePlans
  <2>1. \A p \in {<<"wipe">>, <<"clear">>} : p \in Ending /\ p \notin ResumePlans
    BY EndingPlans DEF ResumePlans
  <2> QED BY <1>2, <2>1, EndingPlans
<1>4. /\ r' \in Renderer /\ r'.plan = <<>> /\ SameWords(r') /\ SameStream(r') /\ SameReply(r')
      /\ r'.pending = r.pending /\ r'.caught = r.caught /\ r'.gaveUp = r.gaveUp /\ r'.missed = r.missed
  BY <1>1, <1>2, <1>3 DEF Renderer, SameWords, SameStream, SameReply
<1>5. thread.status => r.missed
  BY DEF SkipClear, LingerInv
<1>6. mode.kind # "resume"
  BY <1>3 DEF PlanInv
<1>7. thread'.status => thread.status /\ (r'.posted => r'.missed)
  BY <1>1, <1>4, <1>5
<1> QED BY <1>1, <1>3, <1>4, <1>5, <1>6, <1>7, RestKeeps DEF SameReply

LEMMA FilesKeeps ==
  ASSUME ReplyInv, Files
  PROVE  ReplyInv'
<1> ReplyTypes /\ PlanInv /\ LingerInv
  BY DEF ReplyInv
<1> r \in Renderer /\ thread \in Thread /\ mode \in Mode
  BY DEF ReplyTypes
<1>1. Step("files") /\ UNCHANGED <<mode, turn, queue, link>>
  BY DEF Files
<1>2. \/ r.plan = <<"files", "prompt">> /\ Pop = <<"prompt">>
      \/ r.plan = <<"files", "clear">> /\ Pop = <<"clear">>
      \/ r.plan = <<"files", "prompt", "awaiting">> /\ Pop = <<"prompt", "awaiting">>
      \/ r.plan = <<"files">> /\ Pop = <<>>
  BY <1>1, AtOthers DEF Step, Renderer, Pop
<1>3. /\ r.plan \in Ending /\ Pop \in Ending /\ Pop \in Plans
      /\ Pop \in Asking => r.plan \in Asking
      /\ mode.kind = "stream" => Pop \in StreamPlans
      /\ mode.kind = "once" => Pop \in OncePlans
      /\ mode.kind = "resume" => Pop \in ResumePlans
      /\ Pop = <<>> => r.plan = <<"files">>
  <2>1. CASE r.plan = <<"files", "prompt">> /\ Pop = <<"prompt">>
    <3>1. <<"files", "prompt">> \notin ResumePlans /\ <<"prompt">> # <<>>
      BY DEF ResumePlans
    <3> QED BY <2>1, <3>1, EndingPlans DEF PlanInv
  <2>2. CASE r.plan = <<"files", "clear">> /\ Pop = <<"clear">>
    <3>1. <<"files", "clear">> \notin ResumePlans /\ <<"clear">> # <<>>
      BY DEF ResumePlans
    <3> QED BY <2>2, <3>1, EndingPlans DEF PlanInv
  <2>3. CASE r.plan = <<"files", "prompt", "awaiting">> /\ Pop = <<"prompt", "awaiting">>
    <3>1. <<"prompt", "awaiting">> # <<>>
      OBVIOUS
    <3> QED BY <2>3, <3>1, EndingPlans DEF PlanInv
  <2>4. CASE r.plan = <<"files">> /\ Pop = <<>>
    BY <2>4, EndingPlans DEF PlanInv
  <2> QED BY <1>2, <2>1, <2>2, <2>3, <2>4
<1>4. ~r.caught /\ ~thread.asked
  <2>1. r.plan \notin Salvage \cup {<<>>, <<"wipe">>, <<"awaiting">>, <<"failed">>}
    <3>1. r.plan \in Ending
      BY <1>2, EndingPlans
    <3>2. r.plan \notin {<<>>, <<"wipe">>, <<"awaiting">>, <<"failed">>}
      BY <1>2
    <3> QED BY <3>1, <3>2, PhasesApart
  <2>2. /\ r.caught => r.plan \in Salvage \cup {<<>>, <<"wipe">>, <<"failed">>}
        /\ thread.asked => r.plan \in Salvage \cup {<<>>, <<"wipe">>, <<"awaiting">>, <<"failed">>}
    BY DEF PlanInv
  <2> QED BY <2>1, <2>2
<1>5. Pop # <<"files">>
  BY <1>2
<1>6. r.plan = <<"files">> => mode.kind = "resume"
  <2>1. <<"files">> \notin StreamPlans \cup OncePlans
    BY EndingPlans
  <2> QED BY <2>1 DEF PlanInv, Mode
<1>7. ASSUME r' \in Renderer, r'.plan = Pop, SameWords(r'), SameStream(r'), r'.lost = r.lost,
             r'.statusShown = r.statusShown, r'.pending = r.pending, r'.caught = r.caught,
             r.gaveUp => r'.gaveUp, r.missed => r'.missed,
             r'.posted = r.posted \/ r'.missed \/ ~thread'.status,
             thread' \in Thread, thread'.shown = thread.shown, thread'.asked = thread.asked,
             thread'.stream = thread.stream, thread'.message = thread.message,
             thread'.status => thread.status
      PROVE  ReplyInv'
  <2>1. thread'.status /\ ~r'.missed /\ turn.state # "cancelled" => r'.plan # <<>>
    BY <1>3, <1>6, <1>7 DEF PlanInv
  <2>2. thread'.status => thread.status /\ (r'.posted => r'.missed)
    BY <1>7 DEF LingerInv
  <2>3. mode.kind = "resume" /\ ~r'.missed /\ r'.plan \in {<<>>, <<"files">>} =>
             thread'.message \notin {"buttons", "working"}
    BY <1>3, <1>5, <1>7 DEF LingerInv
  <2>4. r.caught => r'.plan \in {<<>>, <<"wipe">>, <<"failed">>}
    BY <1>4
  <2> QED BY <1>1, <1>3, <1>4, <1>7, <2>1, <2>2, <2>3, <2>4, RestKeeps
<1>8. CASE ~r.files
  <2>1. r' = [r EXCEPT !.plan = Pop] /\ thread' = thread
    BY <1>8 DEF Files
  <2>2. /\ r' \in Renderer /\ r'.plan = Pop /\ SameWords(r') /\ SameStream(r') /\ SameReply(r')
        /\ r'.pending = r.pending /\ r'.caught = r.caught /\ r'.gaveUp = r.gaveUp /\ r'.missed = r.missed
    BY <1>3, <2>1 DEF Renderer, SameWords, SameStream, SameReply
  <2> QED BY <1>7, <2>1, <2>2 DEF SameReply
<1>9. CASE r.files
  <2>1. PICK answer \in {"ok", "refused"} :
                /\ thread' = IF Made(answer) THEN Shows(<<>>) ELSE thread
                /\ r' = [r EXCEPT !.plan = Pop, !.posted = TRUE,
                                  !.missed = @ \/ ~Made(answer), !.loud = @ \/ ~Made(answer)]
    BY <1>9 DEF Files
  <2>2. PICK made \in BOOLEAN, missed \in BOOLEAN, loud \in BOOLEAN :
           /\ made <=> Made(answer)
           /\ missed = (r.missed \/ ~Made(answer)) /\ loud = (r.loud \/ ~Made(answer))
    OBVIOUS
  <2>3. r' = [r EXCEPT !.plan = Pop, !.posted = TRUE, !.missed = missed, !.loud = loud]
    BY <2>1, <2>2
  <2>4. /\ r' \in Renderer /\ r'.plan = Pop /\ SameWords(r') /\ SameStream(r') /\ r'.lost = r.lost
        /\ r'.statusShown = r.statusShown
        /\ r'.pending = r.pending /\ r'.caught = r.caught
        /\ r'.gaveUp = r.gaveUp /\ r'.missed = missed
    BY <1>3, <2>3 DEF Renderer, SameWords, SameStream
  <2>5. CASE made
    <3>1. thread' = [thread EXCEPT !.shown = thread.shown \o <<>>, !.status = FALSE]
      BY <2>1, <2>2, <2>5 DEF Shows
    <3>2. thread.shown \in Seq(Nat) /\ thread.shown \o <<>> = thread.shown
      BY ConcatEmptySeq DEF Thread
    <3>3. /\ thread' \in Thread /\ thread'.shown = thread.shown /\ ~thread'.status
          /\ thread'.asked = thread.asked /\ thread'.stream = thread.stream
          /\ thread'.message = thread.message
      BY <3>1, <3>2 DEF Thread
    <3> QED BY <1>7, <2>2, <2>4, <3>3
  <2>6. CASE ~made
    <3>1. thread' = thread /\ missed
      BY <2>1, <2>2, <2>6
    <3> QED BY <1>7, <2>4, <3>1
  <2> QED BY <2>5, <2>6
<1> QED BY <1>8, <1>9 DEF Renderer

LEMMA PromptKeeps ==
  ASSUME ReplyInv, Prompt
  PROVE  ReplyInv'
<1> ReplyTypes /\ PlanInv /\ LingerInv
  BY DEF ReplyInv
<1> r \in Renderer /\ thread \in Thread /\ mode \in Mode
  BY DEF ReplyTypes
<1> /\ thread.shown \in Seq(Nat) /\ r.pending \in Seq(Nat) /\ <<>> \in Seq(Nat)
  BY DEF Renderer, Thread
<1>1. PICK answer \in {"ok"} \cup Failures :
           /\ thread' = IF Made(answer) THEN [Shows(<<>>) EXCEPT !.asked = TRUE] ELSE thread
           /\ Answered(answer, [r EXCEPT !.plan = Pop],
                               [r EXCEPT !.loud = TRUE, !.plan = IF Pop = <<>> THEN <<"wipe">> ELSE Pop])
  BY DEF Prompt
<1>2. Step("prompt") /\ UNCHANGED <<mode, turn, queue, link>>
  BY DEF Prompt
<1>3. \/ r.plan = <<"prompt">> /\ Pop = <<>>
      \/ r.plan = <<"prompt", "awaiting">> /\ Pop = <<"awaiting">>
  BY <1>2, AtOthers DEF Step, Renderer, Pop
<1>4. r.plan \in Asking /\ r.plan \in Ending /\ r.plan \in Plans /\ r.plan # <<>> /\ r.plan # <<"wipe">>
  <2>1. \A p \in {<<"prompt">>, <<"prompt", "awaiting">>} : p \in Asking /\ p \in Ending /\ p # <<>> /\ p # <<"wipe">>
    BY EndingPlans
  <2> QED BY <1>3, <2>1, EndingPlans
<1>5. ~r.caught /\ ~thread.asked
  <2>1. r.plan \notin Salvage \cup {<<>>, <<"wipe">>, <<"awaiting">>, <<"failed">>}
    BY <1>4, EndingPlans, PhasesApart
  <2> QED BY <2>1 DEF PlanInv
<1>6. \A p \in {<<>>, <<"wipe">>, <<"awaiting">>} : p \in Ending /\ p \notin Asking /\ p \in Plans
  BY EndingPlans
<1>7. thread.shown \o <<>> = thread.shown /\ <<>> \o r.pending = r.pending
  BY ConcatEmptySeq
<1>8. ASSUME Made(answer)
      PROVE  /\ thread' \in Thread /\ thread'.shown = thread.shown /\ ~thread'.status
             /\ thread'.asked /\ thread'.stream = thread.stream /\ thread'.message = thread.message
  <2>1. thread' = [thread EXCEPT !.shown = thread.shown, !.status = FALSE, !.asked = TRUE]
    BY <1>1, <1>7, <1>8 DEF Shows
  <2> QED BY <2>1 DEF Thread
<1>9. ASSUME r' \in Renderer, SameWords(r'), SameStream(r'), SameReply(r'),
             r'.pending = r.pending, r'.caught = r.caught, r'.gaveUp = r.gaveUp, r'.missed = r.missed,
             \/ r'.plan = Pop /\ (Pop = <<>> => ~thread'.status)
             \/ Pop = <<>> /\ r'.plan = <<"wipe">>,
             thread' \in Thread, thread'.shown = thread.shown,
             thread'.stream = thread.stream, thread'.message = thread.message,
             thread'.status => thread.status
      PROVE  ReplyInv'
  <2>1. r'.plan \in {<<>>, <<"wipe">>, <<"awaiting">>}
    BY <1>3, <1>9
  <2>2. /\ mode.kind = "stream" => r'.plan \in StreamPlans
        /\ mode.kind = "once" => r'.plan \in OncePlans
        /\ mode.kind = "resume" => r'.plan \in ResumePlans /\ r'.plan = <<"awaiting">>
    <3>1. CASE r.plan = <<"prompt">> /\ Pop = <<>>
      <4>1. <<"prompt">> \notin ResumePlans
        BY DEF ResumePlans
      <4> QED BY <3>1, <4>1, <1>9, EndingPlans DEF PlanInv
    <3>2. CASE r.plan = <<"prompt", "awaiting">> /\ Pop = <<"awaiting">>
      <4>1. <<"awaiting">> # <<>>
        OBVIOUS
      <4> QED BY <3>2, <4>1, <1>9, EndingPlans DEF PlanInv
    <3> QED BY <1>3, <3>1, <3>2
  <2>3. <<"wipe">> # <<>> /\ <<"awaiting">> # <<>> /\ <<"awaiting">> # <<"files">>
    OBVIOUS
  <2>4. thread'.status => thread.status /\ (r'.posted => r'.missed)
    BY <1>9 DEF LingerInv, SameReply
  <2>5. thread'.status => r'.plan # <<>>
    BY <1>9, <2>3
  <2> QED BY <1>2, <1>4, <1>5, <1>6, <1>9, <2>1, <2>2, <2>3, <2>4, <2>5, RestKeeps DEF SameReply
<1>10. CASE answer = "ok"
  <2>1. r' = [r EXCEPT !.plan = Pop] /\ Made(answer)
    BY <1>1, <1>10 DEF Answered, Made
  <2>2. /\ r' \in Renderer /\ r'.plan = Pop /\ SameWords(r') /\ SameStream(r') /\ SameReply(r')
        /\ r'.pending = r.pending /\ r'.caught = r.caught /\ r'.gaveUp = r.gaveUp /\ r'.missed = r.missed
    BY <2>1, <1>3, <1>6 DEF Renderer, SameWords, SameStream, SameReply
  <2> QED BY <1>8, <1>9, <2>1, <2>2
<1>11. CASE answer = "refused"
  <2>1. PICK p : p = IF Pop = <<>> THEN <<"wipe">> ELSE Pop
    OBVIOUS
  <2>2. r' = [r EXCEPT !.loud = TRUE, !.plan = p] /\ thread' = thread
    BY <1>1, <1>11, <2>1 DEF Answered, Made
  <2>3. p \in Plans
    BY <1>3, <1>6, <2>1
  <2>4. /\ r' \in Renderer /\ r'.plan = p /\ SameWords(r') /\ SameStream(r') /\ SameReply(r')
        /\ r'.pending = r.pending /\ r'.caught = r.caught /\ r'.gaveUp = r.gaveUp /\ r'.missed = r.missed
    BY <2>2, <2>3 DEF Renderer, SameWords, SameStream, SameReply
  <2> QED BY <1>9, <2>1, <2>2, <2>4
<1>12. CASE answer \in {"throws", "lost"}
  <2>1. PICK c \in CatchClauses : r' = [c EXCEPT !.lost = @ \/ answer = "lost"]
    BY <1>1, <1>12 DEF Answered
  <2>2. c \in Renderer /\ c.lost = r.lost /\ c.started = r.started /\ r.started \in BOOLEAN
    BY <1>4, CatchDoes DEF SameReply, SameStream, Renderer
  <2>3. PICK lo \in BOOLEAN : lo <=> r.lost \/ answer = "lost"
    OBVIOUS
  <2>4. r' = [c EXCEPT !.started = r.started, !.lost = lo]
    BY <2>1, <2>2, <2>3 DEF Renderer
  <2>5. thread.stream # "none" => r.started
    BY DEF PlanInv
  <2>6. CASE answer = "lost"
    <3>1. Made(answer)
      BY <2>6 DEF Made
    <3> QED BY <1>2, <1>4, <1>5, <1>7, <1>8, <2>2, <2>3, <2>4, <2>5, <2>6, <3>1, ThrownKeeps
  <2>7. CASE answer = "throws"
    <3>1. thread' = thread
      BY <1>1, <2>7 DEF Made
    <3> QED BY <1>2, <1>4, <1>5, <1>7, <2>2, <2>3, <2>4, <2>5, <3>1, ThrownKeeps
  <2> QED BY <1>12, <2>6, <2>7
<1> QED BY <1>1, <1>10, <1>11, <1>12 DEF Failures

\* The message that held the buttons.
LEMMA UpdateKeeps ==
  ASSUME ReplyInv, Update
  PROVE  ReplyInv'
<1> ReplyTypes /\ PlanInv /\ OutInv /\ LingerInv
  BY DEF ReplyInv
<1> r \in Renderer /\ thread \in Thread /\ mode \in Mode
  BY DEF ReplyTypes
<1> /\ thread.shown \in Seq(Nat) /\ r.pending \in Seq(Nat) /\ <<>> \in Seq(Nat)
  BY DEF Renderer, Thread
<1>1. PICK answer \in {"ok"} \cup Failures :
           /\ thread' = IF Made(answer) THEN [thread EXCEPT !.message = Head(r.plan)] ELSE thread
           /\ Answered(answer, [r EXCEPT !.plan = Pop], [r EXCEPT !.plan = Pop, !.missed = TRUE])
  BY DEF Update
<1>2. PICK shows : shows = Head(r.plan)
  OBVIOUS
<1>3. /\ shows \in {"working", "awaiting", "outcome", "failed"} /\ r.plan \in Plans /\ r.plan # <<>>
      /\ UNCHANGED <<mode, turn, queue, link>>
  BY <1>2 DEF Update, Done, Renderer
<1>4. \/ r.plan = <<"working", "next">> /\ Pop = <<"next">> /\ shows = "working"
      \/ r.plan = <<"awaiting">> /\ Pop = <<>> /\ shows = "awaiting"
      \/ r.plan = <<"outcome", "files">> /\ Pop = <<"files">> /\ shows = "outcome"
      \/ r.plan = <<"failed">> /\ Pop = <<>> /\ shows = "failed"
  BY <1>2, <1>3, AtOthers DEF Pop
<1>5. Pop \in Plans /\ r.plan # <<"wipe">> /\ r.plan \notin StreamPlans \cup OncePlans /\ Pop \in ResumePlans
  <2>1. <<"wipe">> \in StreamPlans
    BY EndingPlans
  <2> QED BY <1>4, <2>1, EndingPlans
<1>6. mode.kind = "resume" /\ ~thread.status
  BY <1>5 DEF Mode, PlanInv
<1>7. thread.shown \o <<>> = thread.shown /\ <<>> \o r.pending = r.pending
  BY ConcatEmptySeq
<1>8. /\ thread' \in Thread /\ thread'.shown = thread.shown /\ thread'.status = thread.status
      /\ thread'.asked = thread.asked /\ thread'.stream = thread.stream
      /\ Made(answer) => thread'.message = shows
  <2>1. thread' = [thread EXCEPT !.message = shows] \/ (thread' = thread /\ ~Made(answer))
    BY <1>1, <1>2
  <2> QED BY <1>3, <2>1 DEF Thread
<1>9. CASE answer \in {"ok", "refused"}
  <2>1. \/ r' = [r EXCEPT !.plan = Pop] /\ thread'.message = shows
        \/ r' = [r EXCEPT !.plan = Pop, !.missed = TRUE]
    BY <1>1, <1>8, <1>9 DEF Answered, Made
  <2>2. /\ r' \in Renderer /\ r'.plan = Pop /\ SameWords(r') /\ SameStream(r') /\ SameReply(r')
        /\ r'.pending = r.pending /\ r'.caught = r.caught
        /\ r'.gaveUp = r.gaveUp /\ (r.missed => r'.missed)
        /\ ~r'.missed => thread'.message = shows
    <3>1. CASE r' = [r EXCEPT !.plan = Pop] /\ thread'.message = shows
      BY <1>5, <3>1 DEF Renderer, SameWords, SameStream, SameReply
    <3>2. CASE r' = [r EXCEPT !.plan = Pop, !.missed = TRUE]
      BY <1>5, <3>2 DEF Renderer, SameWords, SameStream, SameReply
    <3> QED BY <2>1, <3>1, <3>2
  <2>3. CASE r.plan = <<"working", "next">>
    <3>1. Pop = <<"next">> /\ Pop # <<"status", "next">>
      BY <2>3, <1>4
    <3>2. r.plan \in Loop /\ Pop \in Loop /\ Pop # <<>> /\ Pop # <<"files">>
      BY <2>3, <3>1, EndingPlans
    <3>3. r.plan \notin Closing \cup Salvage \cup Ending /\ Pop \notin Closing \cup Salvage \cup Ending
      BY <3>2, PhasesApart
    <3>4. /\ ReplyTypes' /\ EventInv' /\ TextInv' /\ OnceInv'
          /\ r'.plan \in Ending \/ thread'.asked => Salvaged'
      <4>1. r'.plan \in Ending \/ thread'.asked => r.plan \in Ending \/ Salvaged
        BY <1>8, <2>2, <3>3 DEF OutInv
      <4> QED BY <1>3, <1>8, <2>2, <3>2, <3>3, <4>1, PassKeeps DEF SameWords, SameReply
    <3>5. ~r.caught /\ ~thread.asked
      <4>1. r.plan \notin Salvage \cup {<<>>, <<"wipe">>, <<"awaiting">>, <<"failed">>}
        BY <3>3, EndingPlans
      <4> QED BY <4>1 DEF PlanInv
    <3>6. PlanInv'
      <4>1. ~mode.hold
        BY <1>6 DEF ReplyTypes
      <4>2. r'.plan \notin Asking \cup ClosingAsk
        BY <2>2, <3>3 DEF Ending, Closing
      <4>3. ~r'.ts /\ ~r'.broken /\ ~r'.stopped /\ thread'.stream = "none" /\ ~r'.started /\ ~r'.streamed
        BY <1>6, <1>8, <2>2 DEF PlanInv, SameWords, SameStream
      <4>4. r'.taken = <<>> /\ r'.pending = <<>> /\ ~thread'.status
        BY <1>6, <1>8, <2>2 DEF PlanInv, SameWords
      <4>5. ~r'.posted /\ ~r'.caught /\ ~thread'.asked
        BY <1>8, <2>2, <3>2, <3>5 DEF PlanInv, SameReply
      <4> QED BY <1>3, <1>5, <1>6, <2>2, <3>1, <3>3, <4>1, <4>2, <4>3, <4>4, <4>5 DEF PlanInv
    <3>7. OutInv'
      BY <1>6, <2>2, <3>3, <3>4 DEF OutInv, PlanInv
    <3>8. LingerInv'
      BY <1>6, <1>8, <2>2, <3>2 DEF LingerInv
    <3> QED BY <3>4, <3>6, <3>7, <3>8 DEF ReplyInv
  <2>4. CASE r.plan # <<"working", "next">>
    <3>1. Pop \in {<<>>, <<"files">>} /\ shows \notin {"buttons", "working"} /\ r.plan \in {<<"awaiting">>, <<"outcome", "files">>, <<"failed">>}
      BY <2>4, <1>4
    <3>2. \A p \in {<<>>, <<"files">>, <<"awaiting">>, <<"outcome", "files">>, <<"failed">>} : p \in Ending /\ p \notin Asking
      BY EndingPlans
    <3>3. r.caught \/ thread.asked => Pop = <<>>
      <4>1. r.plan = <<"outcome", "files">> => r.plan \notin Salvage \cup {<<>>, <<"wipe">>, <<"awaiting">>, <<"failed">>}
        BY DEF Salvage
      <4> QED BY <1>4, <2>4, <4>1 DEF PlanInv
    <3> QED BY <1>3, <1>5, <1>6, <1>8, <2>2, <3>1, <3>2, <3>3, RestKeeps DEF SameReply
  <2> QED BY <2>3, <2>4
<1>10. CASE answer \in {"throws", "lost"}
  <2>1. PICK c \in CatchClauses : r' = [c EXCEPT !.lost = @ \/ answer = "lost"]
    BY <1>1, <1>10 DEF Answered
  <2>2. c \in Renderer /\ c.lost = r.lost /\ c.started = r.started /\ r.started \in BOOLEAN
    BY <1>3, <1>5, CatchDoes DEF SameReply, SameStream, Renderer
  <2>3. PICK lo \in BOOLEAN : lo <=> r.lost \/ answer = "lost"
    OBVIOUS
  <2>4. r' = [c EXCEPT !.started = r.started, !.lost = lo]
    BY <2>1, <2>2, <2>3 DEF Renderer
  <2>5. thread.stream # "none" => r.started
    BY DEF PlanInv
  <2> QED BY <1>3, <1>5, <1>6, <1>7, <1>8, <2>2, <2>3, <2>4, <2>5, ThrownKeeps
<1> QED BY <1>1, <1>9, <1>10 DEF Failures

-----------------------------------------------------------------------------
(* The events.                                                             *)

\* The plans that are put together.
LEMMA PlansMade ==
  /\ <<>> \o <<"next">> = <<"next">> /\ <<"flush">> \o <<"next">> = <<"flush", "next">>
  /\ <<"flush", "chunk">> \o <<"next">> = <<"flush", "chunk", "next">>
  /\ (<<>> \o <<>>) \o <<"next">> = <<"next">>
  /\ (<<>> \o <<"flush", "chunk">>) \o <<"next">> = <<"flush", "chunk", "next">>
  /\ (<<"flush", "chunk">> \o <<"flush", "chunk">>) \o <<"next">> = <<"flush", "chunk", "flush", "chunk", "next">>
  /\ (<<"status">> \o <<>>) \o <<"next">> = <<"status", "next">>
  /\ <<>> \o <<"files", "prompt">> = <<"files", "prompt">>
  /\ <<"flush", "stop", "post">> \o <<"files", "prompt">> = <<"flush", "stop", "post", "files", "prompt">>
  /\ <<>> \o <<"files", "clear">> = <<"files", "clear">>
  /\ <<"post">> \o <<"files", "clear">> = <<"post", "files", "clear">>
  /\ <<"flush", "stop", "post">> \o <<"files", "clear">> = <<"flush", "stop", "post", "files", "clear">>
<1>1. \A a, b : <<a>> \o <<b>> = <<a, b>>
  BY Joined
<1>2. \A a, b, c : <<a>> \o <<b, c>> = <<a, b, c>>
  BY Joined
<1>3. \A a, b, c : <<a, b>> \o <<c>> = <<a, b, c>>
  BY Joined
<1>4. \A a, b, c, d : <<a, b>> \o <<c, d>> = <<a, b, c, d>>
  BY Joined
<1>5. \A a, b, c, d, e : <<a, b, c, d>> \o <<e>> = <<a, b, c, d, e>>
  BY Joined
<1>6. \A a, b, c, d, e : <<a, b, c>> \o <<d, e>> = <<a, b, c, d, e>>
  BY Joined
<1>7. /\ <<"next">> \in Seq({"next"}) /\ <<"flush", "chunk">> \in Seq({"flush", "chunk"})
      /\ <<"status">> \in Seq({"status"}) /\ <<"files", "prompt">> \in Seq({"files", "prompt"})
      /\ <<"files", "clear">> \in Seq({"files", "clear"})
      /\ <<>> \in Seq({"next"})
  OBVIOUS
<1>8. /\ <<>> \o <<"next">> = <<"next">> /\ <<>> \o <<"flush", "chunk">> = <<"flush", "chunk">>
      /\ <<"status">> \o <<>> = <<"status">> /\ <<>> \o <<"files", "prompt">> = <<"files", "prompt">>
      /\ <<>> \o <<"files", "clear">> = <<"files", "clear">> /\ <<>> \o <<>> = <<>>
  BY <1>7, ConcatEmptySeq
<1>9. <<"flush">> \o <<"next">> = <<"flush", "next">>
  BY <1>1
<1>10. <<"flush", "chunk">> \o <<"next">> = <<"flush", "chunk", "next">>
  BY <1>3
<1>11. (<<"flush", "chunk">> \o <<"flush", "chunk">>) \o <<"next">> = <<"flush", "chunk", "flush", "chunk", "next">>
  <2>1. <<"flush", "chunk">> \o <<"flush", "chunk">> = <<"flush", "chunk", "flush", "chunk">>
    BY <1>4
  <2>2. <<"flush", "chunk", "flush", "chunk">> \o <<"next">> = <<"flush", "chunk", "flush", "chunk", "next">>
    BY <1>5
  <2> QED BY <2>1, <2>2
<1>12. (<<"status">> \o <<>>) \o <<"next">> = <<"status", "next">>
  BY <1>8, <1>1
<1>13. <<"flush", "stop", "post">> \o <<"files", "prompt">> = <<"flush", "stop", "post", "files", "prompt">>
  BY <1>6
<1>14. <<"post">> \o <<"files", "clear">> = <<"post", "files", "clear">>
  BY <1>2
<1>15. <<"flush", "stop", "post">> \o <<"files", "clear">> = <<"flush", "stop", "post", "files", "clear">>
  BY <1>6
<1>16. /\ (<<>> \o <<>>) \o <<"next">> = <<"next">>
       /\ (<<>> \o <<"flush", "chunk">>) \o <<"next">> = <<"flush", "chunk", "next">>
  BY <1>8, <1>10
<1> QED BY <1>8, <1>9, <1>10, <1>11, <1>12, <1>13, <1>14, <1>15, <1>16

LEMMA AgainIs ==
  ASSUME ~r.stopped
  PROVE  /\ Again(<<>>) = Then(<<"next">>) /\ Again(<<"flush">>) = Then(<<"flush", "next">>)
         /\ Again(TaskChunk) = Then(IF mode.tasks THEN <<"flush", "chunk", "next">> ELSE <<"next">>)
         /\ Again(Progress \o TaskChunk) =
                Then(IF mode.hold /\ r.step # <<>>
                     THEN IF mode.tasks THEN <<"flush", "chunk", "flush", "chunk", "next">> ELSE <<"status", "next">>
                     ELSE IF mode.tasks THEN <<"flush", "chunk", "next">> ELSE <<"next">>)
<1>1. Again(<<>>) = Then(<<"next">>) /\ Again(<<"flush">>) = Then(<<"flush", "next">>)
  BY PlansMade DEF Again, Then
<1>2. TaskChunk \o <<"next">> = IF mode.tasks THEN <<"flush", "chunk", "next">> ELSE <<"next">>
  BY PlansMade DEF TaskChunk
<1>3. (Progress \o TaskChunk) \o <<"next">> =
          IF mode.hold /\ r.step # <<>>
          THEN IF mode.tasks THEN <<"flush", "chunk", "flush", "chunk", "next">> ELSE <<"status", "next">>
          ELSE IF mode.tasks THEN <<"flush", "chunk", "next">> ELSE <<"next">>
  <2>1. CASE mode.hold /\ r.step # <<>> /\ mode.tasks
    <3>1. Progress = <<"flush", "chunk">> /\ TaskChunk = <<"flush", "chunk">>
      BY <2>1 DEF Progress, TaskChunk
    <3> QED BY <2>1, <3>1, PlansMade
  <2>2. CASE mode.hold /\ r.step # <<>> /\ ~mode.tasks
    <3>1. Progress = <<"status">> /\ TaskChunk = <<>>
      BY <2>2 DEF Progress, TaskChunk
    <3> QED BY <2>2, <3>1, PlansMade
  <2>3. CASE ~(mode.hold /\ r.step # <<>>) /\ mode.tasks
    <3>1. Progress = <<>> /\ TaskChunk = <<"flush", "chunk">>
      BY <2>3 DEF Progress, TaskChunk
    <3> QED BY <2>3, <3>1, PlansMade
  <2>4. CASE ~(mode.hold /\ r.step # <<>>) /\ ~mode.tasks
    <3>1. Progress = <<>> /\ TaskChunk = <<>>
      BY <2>4 DEF Progress, TaskChunk
    <3> QED BY <2>4, <3>1, PlansMade
  <2> QED BY <2>1, <2>2, <2>3, <2>4
<1> QED BY <1>1, <1>2, <1>3, Zenon DEF Again, Then

LEMMA AskIs ==
  Ask = IF r.started THEN <<"flush", "stop", "post", "files", "prompt">> ELSE <<"files", "prompt">>
BY PlansMade DEF Ask, Finish

\* A renderer at its next event.
LEMMA AtNext ==
  ASSUME ReplyInv, Step("next")
  PROVE  /\ r.plan = <<"next">> /\ r.plan \in Waiting \cap Loop /\ r.plan \notin Ending
         /\ r.plan # <<>> /\ r.plan # <<"wipe">> /\ r.plan \in Plans
         /\ ~r.caught /\ ~thread.asked /\ ~r.posted
         /\ ~r.started => r.pending = <<>> /\ Salvaged
<1> ReplyTypes /\ PlanInv /\ TextInv /\ OutInv
  BY DEF ReplyInv
<1>1. r.plan \in Plans /\ r.plan = <<"next">> /\ Head(r.plan) = "next" /\ r.plan # <<>>
  BY AtOthers DEF ReplyTypes, Renderer, Step
<1>2. r.plan \in Waiting \cap Loop
  BY <1>1, EndingPlans
<1>3. r.plan \notin Closing \cup Salvage \cup Ending
  BY <1>2, PhasesApart
<1>4. r.plan \notin {<<>>, <<"wipe">>, <<"awaiting">>, <<"failed">>}
  BY <1>3, EndingPlans
<1>5. ~r.started => r.pending = <<>>
  BY <1>1, <1>2 DEF OutInv
<1>6. r.pending = <<>> => Salvaged
  <2>1. Range(<<>>) = {}
    BY DEF Range
  <2> QED BY <2>1 DEF TextInv, Kept, Salvaged
<1> QED BY <1>1, <1>2, <1>3, <1>4, <1>5, <1>6 DEF PlanInv

\* An event that brings no text, but may bring a note.
LEMMA ReadKeeps ==
  ASSUME ReplyInv, Step("next"), UNCHANGED <<mode, turn, link, thread>>,
         queue' = queue \/ (queue # <<>> /\ queue' = Tail(queue)),
         r' \in Renderer, r'.taken = r.taken, r'.stopped = r.stopped, r'.streamed = r.streamed,
         r'.final = r.final \/ Ascends(r'.final, turn.said), SameStream(r'), SameReply(r'),
         r'.caught = r.caught, r'.gaveUp = r.gaveUp, r'.missed = r.missed,
         r'.pending = r.pending \/ (~r.stopped /\ r'.pending = Append(r.pending, Note)),
         r'.plan \in Loop => r'.pending = r.pending,
         r'.plan \in Ending => Salvaged,
         r'.plan \in Closing => Head(r'.plan) = "flush",
         r'.plan \notin Salvage,
         mode.kind = "stream" => r'.plan \in StreamPlans,
         mode.kind = "once" => r'.plan \in OncePlans,
         mode.kind = "resume" => r'.plan \in ResumePlans /\ r'.pending = r.pending /\ r'.plan \notin {<<>>, <<"files">>},
         r'.plan \in Asking \cup ClosingAsk => turn.state = "parked",
         r'.plan = <<"status", "next">> => ~r.started,
         mode.hold /\ ~mode.tasks /\ r'.plan \in Loop => r'.plan \in Waiting,
         thread.status => r'.plan # <<>> \/ turn.state = "cancelled",
         r'.plan \in Bare => r'.pending # <<>> \/ ~thread.status
  PROVE  ReplyInv'
<1> ReplyTypes /\ PlanInv /\ EventInv /\ TextInv /\ OutInv /\ OnceInv /\ LingerInv
  BY DEF ReplyInv
<1> r \in Renderer /\ thread \in Thread
  BY DEF ReplyTypes
<1>1. /\ r.plan \in Loop /\ r.plan \in Waiting /\ r.plan \notin Ending /\ ~r.caught /\ ~thread.asked
      /\ ~r.posted /\ (~r.started => r.pending = <<>>)
  BY AtNext
<1>2. /\ ReplyTypes' /\ EventInv' /\ TextInv' /\ OnceInv'
      /\ r'.plan \in Ending \/ thread'.asked => Salvaged'
  BY <1>1, PassKeeps DEF SameReply
<1>3. PlanInv'
  <2>1. r'.ts \/ r'.broken \/ r'.stopped \/ thread'.stream # "none" => r'.started
    BY DEF PlanInv, SameStream
  <2>2. mode.kind # "stream" => ~r'.started /\ ~r'.streamed
    BY DEF PlanInv, SameStream
  <2>3. mode.kind = "resume" => r'.taken = <<>> /\ r'.pending = <<>> /\ ~thread'.status
    BY DEF PlanInv
  <2>4. mode.hold /\ ~mode.tasks /\ r'.plan \in Loop => ~r'.started
    BY <1>1 DEF PlanInv, SameStream
  <2>5. ~r'.caught /\ ~thread'.asked /\ ~r'.posted
    BY <1>1 DEF SameReply
  <2>6. r'.plan = <<"status", "next">> => ~r'.started
    BY DEF SameStream
  <2> QED BY <2>1, <2>2, <2>3, <2>4, <2>5, <2>6 DEF PlanInv
<1>4. OutInv'
  <2>1. r'.plan \in Loop /\ ~r'.started => r'.pending = <<>>
    BY <1>1 DEF SameStream
  <2> QED BY <1>2, <2>1 DEF OutInv
<1>5. LingerInv'
  <2>1. thread'.status => r'.statusShown /\ ~r'.ts /\ ~r'.stopped /\ (r'.posted => r'.missed)
    BY DEF LingerInv, SameStream, SameReply
  <2> QED BY <2>1 DEF LingerInv
<1> QED BY <1>2, <1>3, <1>4, <1>5 DEF ReplyInv

LEMMA EventPlans ==
  /\ \A p \in {<<"flush", "next">>, <<"flush", "chunk", "next">>, <<"flush", "chunk", "flush", "chunk", "next">>} :
        p \in Loop /\ p \in StreamPlans /\ p # <<"status", "next">> /\ Head(p) = "flush"
  /\ <<"flush", "stop", "post">> \in Bare /\ Head(<<"flush", "stop", "post">>) = "flush"
  /\ <<"flush", "stop", "post", "files", "prompt">> \in ClosingAsk
  /\ Head(<<"flush", "stop", "post", "files", "prompt">>) = "flush"
  /\ <<"flush", "stop", "post", "files", "clear">> \in ClosingClear \cap StreamPlans
  /\ Head(<<"flush", "stop", "post", "files", "clear">>) = "flush"
  /\ <<"post", "files", "clear">> \in ClosingClear \cap OncePlans
  /\ Bare \cup ClosingAsk \cup ClosingClear = Closing /\ Asking \subseteq Ending
<1>1. \A p \in {<<"flush", "next">>, <<"flush", "chunk", "next">>, <<"flush", "chunk", "flush", "chunk", "next">>} :
        p \in Loop /\ p \in StreamPlans /\ p # <<"status", "next">> /\ Head(p) = "flush"
  BY DEF Loop, StreamPlans
<1>2. /\ <<"flush", "stop", "post">> \in Bare /\ Head(<<"flush", "stop", "post">>) = "flush"
      /\ <<"flush", "stop", "post", "files", "prompt">> \in ClosingAsk
      /\ Head(<<"flush", "stop", "post", "files", "prompt">>) = "flush"
  BY DEF Bare, ClosingAsk
<1>3. /\ <<"flush", "stop", "post", "files", "clear">> \in ClosingClear \cap StreamPlans
      /\ Head(<<"flush", "stop", "post", "files", "clear">>) = "flush"
      /\ <<"post", "files", "clear">> \in ClosingClear \cap OncePlans
  BY DEF ClosingClear, Closing, StreamPlans, OncePlans
<1>4. Bare \cup ClosingAsk \cup ClosingClear = Closing /\ Asking \subseteq Ending
  BY DEF Closing, Ending
<1> QED BY <1>1, <1>2, <1>3, <1>4

\* An event after which the renderer reads on.
LEMMA ReadOnKeeps ==
  ASSUME ReplyInv, Step("next"), UNCHANGED <<mode, turn, link, thread>>,
         queue' = queue \/ (queue # <<>> /\ queue' = Tail(queue)),
         r' \in Renderer, r'.taken = r.taken, r'.stopped = r.stopped, r'.streamed = r.streamed,
         r'.final = r.final \/ Ascends(r'.final, turn.said), SameStream(r'), SameReply(r'),
         r'.caught = r.caught, r'.gaveUp = r.gaveUp, r'.missed = r.missed, r'.pending = r.pending,
         r'.plan \in Loop,
         r'.plan = <<"next">> \/ (mode.kind = "stream" /\ r'.plan \in StreamPlans),
         r'.plan = <<"status", "next">> => ~r.started,
         mode.hold /\ ~mode.tasks => r'.plan \in Waiting
  PROVE  ReplyInv'
<1>1. r'.plan \notin Closing \cup Salvage \cup Ending
  BY PhasesApart
<1>2. r'.plan \notin Asking \cup ClosingAsk \cup Bare /\ r'.plan # <<>> /\ r'.plan # <<"files">>
  BY <1>1, EventPlans, EndingPlans
<1>3. /\ mode.kind = "stream" => r'.plan \in StreamPlans
      /\ mode.kind = "once" => r'.plan \in OncePlans
      /\ mode.kind = "resume" => r'.plan \in ResumePlans
  BY EndingPlans
<1> QED BY <1>1, <1>2, <1>3, ReadKeeps

LEMMA HeadEvent ==
  ASSUME ReplyInv, Step("next"), queue # <<>>, NEW e, e = Head(queue)
  PROVE  /\ e \in AnEvent /\ Tail(queue) \in Seq(AnEvent)
         /\ e.type \in Outcomes => turn.state = e.type
         /\ e.type = "completed" => Ascends(e.text, turn.said)
         /\ e.type = "delta" =>
               /\ Ascends(e.text, turn.said) /\ Range(e.text) = {e.text[1]} /\ e.text[1] \in Nat
               /\ \A x \in Range(r.taken) : x < e.text[1]
               /\ \A i \in 1..Len(Tail(queue)) : Tail(queue)[i].type = "delta" => e.text[1] < Tail(queue)[i].text[1]
<1> ReplyTypes /\ EventInv
  BY DEF ReplyInv
<1> queue \in Seq(AnEvent) /\ turn.said \in Nat
  BY DEF ReplyTypes, ATurn
<1>1. /\ Tail(queue) \in Seq(AnEvent) /\ e = queue[1] /\ 1 \in 1..Len(queue)
      /\ \A i \in 1..Len(Tail(queue)) : i + 1 \in 1..Len(queue) /\ Tail(queue)[i] = queue[i + 1]
  BY TailIs
<1>2. e \in AnEvent
  BY <1>1, ElementOfSeq
<1>3. /\ e.type \in Outcomes => turn.state = e.type
      /\ e.type = "completed" => Ascends(e.text, turn.said)
  BY <1>1 DEF EventInv
<1>4. ASSUME e.type = "delta"
      PROVE  /\ Ascends(e.text, turn.said) /\ Range(e.text) = {e.text[1]} /\ e.text[1] \in Nat
             /\ \A x \in Range(r.taken) : x < e.text[1]
             /\ \A i \in 1..Len(Tail(queue)) : Tail(queue)[i].type = "delta" => e.text[1] < Tail(queue)[i].text[1]
  <2>1. Len(e.text) = 1 /\ e.text[1] \in 1..turn.said
    BY <1>1, <1>4 DEF EventInv
  <2>2. \A x \in Range(r.taken) : x < e.text[1]
    BY <1>1, <1>4, AtNext DEF EventInv
  <2>3. \A i \in 1..Len(Tail(queue)) : Tail(queue)[i].type = "delta" => e.text[1] < Tail(queue)[i].text[1]
    BY <1>1, <1>4 DEF EventInv
  <2>4. Range(e.text) = {e.text[1]}
    <3>1. e.text \in Seq(Nat)
      BY <1>2 DEF AnEvent
    <3>2. \A s \in Seq(Nat) : \A x : x \in Range(s) <=> \E i \in 1..Len(s) : s[i] = x
      BY RangeIs
    <3>3. \A x : x \in Range(e.text) <=> \E i \in 1..1 : e.text[i] = x
      BY <2>1, <3>1, <3>2
    <3> QED BY <3>3
  <2>5. Ascends(e.text, turn.said)
    BY <2>1 DEF Ascends
  <2> QED BY <2>1, <2>2, <2>3, <2>4, <2>5
<1> QED BY <1>1, <1>2, <1>3, <1>4

\* Text that a renderer takes is pending.
LEMMA TakenKept ==
  ASSUME ReplyInv, Step("next"), NEW u \in Seq(Nat), Ascends(u, turn.said),
         \A x \in Range(r.taken), y \in Range(u) : x < y
  PROVE  /\ Kept(thread.shown, IF r.stopped THEN r.pending ELSE r.pending \o u, r.taken \o u,
                  r.stopped, turn.said)
         /\ Twice \/ Unique(thread.shown, IF r.stopped THEN r.pending ELSE r.pending \o u)
         /\ Twice \/ Fresh(thread.shown, {})
<1> ReplyTypes /\ TextInv /\ OnceInv /\ r.plan \notin Ending
  BY AtNext DEF ReplyInv
<1>1. /\ thread.shown \in Seq(Nat) /\ r.pending \in Seq(Nat) /\ r.taken \in Seq(Nat)
      /\ r.stopped \in BOOLEAN /\ turn.said \in Nat
  BY DEF ReplyTypes, Thread, Renderer, ATurn
<1>2. Kept(thread.shown, r.pending, r.taken, r.stopped, turn.said)
  BY DEF TextInv
<1>3. \A sh, pe, ta \in Seq(Nat), st \in BOOLEAN, n \in Nat :
         Kept(sh, pe, ta, st, n) /\ Ascends(u, n) /\ (\A x \in Range(ta), y \in Range(u) : x < y)
         => Kept(sh, IF st THEN pe ELSE pe \o u, ta \o u, st, n)
  BY KeptTakes
<1>4. \A sh, pe, ta \in Seq(Nat), st \in BOOLEAN, n \in Nat :
         Kept(sh, pe, ta, st, n) /\ Ascends(u, n) /\ (\A x \in Range(ta), y \in Range(u) : x < y) /\ Unique(sh, pe)
         => Unique(sh, pe \o u)
  BY UniqueTakes
<1>5. Kept(thread.shown, IF r.stopped THEN r.pending ELSE r.pending \o u, r.taken \o u, r.stopped, turn.said)
  BY <1>1, <1>2, <1>3
<1>6. Twice \/ Unique(thread.shown, r.pending)
  BY DEF OnceInv
<1>7. ASSUME Unique(thread.shown, r.pending) PROVE Unique(thread.shown, r.pending \o u)
  BY <1>1, <1>2, <1>4, <1>7
<1> QED BY <1>5, <1>6, <1>7 DEF Unique

\* A delta that is not held.
LEMMA DeltaKeeps ==
  ASSUME ReplyInv, Step("next"), UNCHANGED <<mode, turn, link, thread>>,
         queue # <<>>, queue' = Tail(queue), NEW e, e = Head(queue), e.type = "delta",
         mode.kind = "stream", ~mode.hold, ~r.stopped,
         NEW p \in {<<"next">>, <<"flush", "next">>}, p = <<"next">> => r.started,
         r' = [r EXCEPT !.plan = p, !.pending = @ \o e.text, !.streamed = TRUE, !.taken = @ \o e.text]
  PROVE  ReplyInv'
<1> ReplyTypes /\ PlanInv /\ EventInv /\ TextInv /\ OutInv /\ OnceInv /\ LingerInv
  BY DEF ReplyInv
<1> r \in Renderer /\ thread \in Thread /\ turn \in ATurn
  BY DEF ReplyTypes
<1>1. /\ e \in AnEvent /\ Tail(queue) \in Seq(AnEvent)
      /\ Ascends(e.text, turn.said) /\ Range(e.text) = {e.text[1]} /\ e.text[1] \in Nat
      /\ \A x \in Range(r.taken) : x < e.text[1]
      /\ \A i \in 1..Len(Tail(queue)) : Tail(queue)[i].type = "delta" => e.text[1] < Tail(queue)[i].text[1]
  BY HeadEvent
<1>2. e.text \in Seq(Nat) /\ \A x \in Range(r.taken), y \in Range(e.text) : x < y
  BY <1>1 DEF AnEvent
<1>3. PICK u \in Seq(Nat) : u = e.text
  BY <1>2
<1>4. /\ p \in Loop /\ p \in StreamPlans /\ p \in Plans /\ p # <<"status", "next">>
      /\ p \notin Closing \cup Salvage \cup Ending
      /\ p = <<"flush", "next">> => Head(p) = "flush"
  <2>1. p \in Loop /\ p \in StreamPlans /\ p # <<"status", "next">> /\ (p = <<"flush", "next">> => Head(p) = "flush")
    <3>1. <<"next">> # <<"status", "next">>
      OBVIOUS
    <3> QED BY <3>1, EventPlans, EndingPlans
  <2> QED BY <2>1, PhasesApart, EndingPlans
<1>5. r.pending \o u \in Seq(Nat) /\ r.taken \o u \in Seq(Nat) /\ Range(r.taken \o u) = Range(r.taken) \cup Range(u)
  <2>1. r.pending \in Seq(Nat) /\ r.taken \in Seq(Nat)
    BY DEF Renderer
  <2> QED BY <2>1, ConcatProperties, RangeConcatenation
<1>6. /\ r' \in Renderer /\ r'.plan = p /\ SameStream(r') /\ SameReply(r') /\ r'.stopped = r.stopped
      /\ r'.pending = r.pending \o u /\ r'.taken = r.taken \o u /\ r'.streamed /\ r'.final = r.final
      /\ r'.caught = r.caught /\ r'.gaveUp = r.gaveUp /\ r'.missed = r.missed
  BY <1>3, <1>4, <1>5 DEF Renderer, SameStream, SameReply
<1>7. /\ r.plan \in Loop /\ r.plan \notin Ending /\ ~r.caught /\ ~thread.asked /\ ~r.posted
  BY AtNext
<1>8. ReplyTypes'
  BY <1>1, <1>6 DEF ReplyTypes
<1>9. PlanInv'
  <2>1. r'.ts \/ r'.broken \/ r'.stopped \/ thread'.stream # "none" => r'.started
    BY <1>6 DEF PlanInv, SameStream
  <2>2. r'.plan \notin Asking \cup ClosingAsk
    BY <1>4, <1>6, EventPlans
  <2>3. ~r'.caught /\ ~thread'.asked /\ ~r'.posted
    BY <1>6, <1>7 DEF SameReply
  <2> QED BY <1>4, <1>6, <2>1, <2>2, <2>3 DEF PlanInv
<1>10. EventInv'
  <2>1. \A i \in 1..Len(queue') : i + 1 \in 1..Len(queue) /\ queue'[i] = queue[i + 1]
    <3>1. queue \in Seq(AnEvent)
      BY DEF ReplyTypes
    <3> QED BY <3>1, TailIs
  <2>2. ASSUME NEW i \in 1..Len(queue')
        PROVE  /\ queue'[i].type \in Outcomes => turn'.state = queue'[i].type
               /\ queue'[i].type = "completed" => Ascends(queue'[i].text, turn'.said)
               /\ queue'[i].type = "delta" =>
                     /\ Len(queue'[i].text) = 1 /\ queue'[i].text[1] \in 1..turn'.said
                     /\ r'.plan \in Loop => \A x \in Range(r'.taken) : x < queue'[i].text[1]
    <3>1. /\ queue'[i].type \in Outcomes => turn'.state = queue'[i].type
          /\ queue'[i].type = "completed" => Ascends(queue'[i].text, turn'.said)
      BY <2>1 DEF EventInv
    <3>2. ASSUME queue'[i].type = "delta"
          PROVE  /\ Len(queue'[i].text) = 1 /\ queue'[i].text[1] \in 1..turn'.said
                 /\ \A x \in Range(r'.taken) : x < queue'[i].text[1]
      <4>1. /\ Len(queue'[i].text) = 1 /\ queue'[i].text[1] \in 1..turn'.said
            /\ \A x \in Range(r.taken) : x < queue'[i].text[1]
        BY <1>7, <2>1, <3>2 DEF EventInv
      <4>2. e.text[1] < queue'[i].text[1]
        BY <1>1, <3>2
      <4>3. Range(r'.taken) = Range(r.taken) \cup {e.text[1]}
        BY <1>1, <1>3, <1>5, <1>6
      <4> QED BY <4>1, <4>2, <4>3
    <3> QED BY <3>1, <3>2
  <2>3. ASSUME NEW i \in 1..Len(queue'), NEW j \in 1..Len(queue'), i < j,
               queue'[i].type = "delta", queue'[j].type = "delta"
        PROVE  queue'[i].text[1] < queue'[j].text[1]
    BY <2>1, <2>3 DEF EventInv
  <2>4. Ascends(turn'.step, turn'.said) /\ Ascends(r'.final, turn'.said)
    BY <1>6 DEF EventInv
  <2> QED BY <2>2, <2>3, <2>4 DEF EventInv
<1>11. /\ Kept(thread.shown, r.pending \o u, r.taken \o u, r.stopped, turn.said)
       /\ Twice \/ Unique(thread.shown, r.pending \o u)
       /\ Twice \/ Fresh(thread.shown, {})
  BY <1>1, <1>2, <1>3, TakenKept
<1>12. TextInv'
  BY <1>6, <1>11 DEF TextInv
<1>13. OutInv'
  <2>1. r'.plan \in Loop /\ Head(r'.plan) # "flush" => r'.started
    BY <1>4, <1>6 DEF SameStream
  <2> QED BY <1>4, <1>6, <1>7, <2>1 DEF OutInv
<1>14. OnceInv'
  <2>1. Twice' <=> Twice
    BY <1>6 DEF Twice, SameReply
  <2> QED BY <1>6, <1>11, <2>1 DEF OnceInv
<1>15. LingerInv'
  <2>1. r'.plan # <<>> /\ r'.plan \notin Bare
    BY <1>4, <1>6, EventPlans, EndingPlans
  <2> QED BY <1>6, <2>1 DEF LingerInv, SameStream, SameReply
<1> QED BY <1>8, <1>9, <1>10, <1>12, <1>13, <1>14, <1>15 DEF ReplyInv

\* An event in a stream.
LEMMA StreamedKeeps ==
  ASSUME ReplyInv, Step("next"), UNCHANGED <<mode, turn, link, thread>>,
         queue # <<>>, queue' = Tail(queue), mode.kind = "stream", r' \in Streamed(Head(queue))
  PROVE  ReplyInv'
<1> ReplyTypes /\ PlanInv /\ EventInv /\ TextInv /\ OutInv /\ OnceInv /\ LingerInv
  BY DEF ReplyInv
<1> r \in Renderer /\ thread \in Thread
  BY DEF ReplyTypes
<1>1. PICK e : e = Head(queue)
  OBVIOUS
<1>2. /\ e \in AnEvent
      /\ e.type \in Outcomes => turn.state = e.type
      /\ e.type = "completed" => Ascends(e.text, turn.said)
  BY <1>1, HeadEvent
<1>3. /\ r.plan \in Loop /\ r.plan \in Plans
      /\ ~r.started => r.pending = <<>> /\ Salvaged
  BY AtNext
<1>4. r.step \in Seq(Nat) /\ e.text \in Seq(Nat) /\ r.step \o e.text \in Seq(Nat) /\ <<>> \in Seq(Nat)
  BY <1>2, ConcatProperties DEF Renderer, AnEvent
<1>5. /\ Append(r.pending, Note) \in Seq(Nat) /\ Append(r.pending, Note) # <<>>
      /\ r.pending \in Seq(Nat)
  <2>1. Note \in Nat /\ r.pending \in Seq(Nat)
    BY DEF Note, Renderer
  <2>2. \A pe \in Seq(Nat), n \in Nat : Append(pe, n) \in Seq(Nat) /\ Append(pe, n) # <<>>
    BY AppendProperties, ZenonT(30)
  <2> QED BY <2>1, <2>2
<1>6. <<"next">> \in Loop /\ <<"next">> \in Waiting /\ <<"next">> # <<"status", "next">> /\ <<"next">> \in Plans
  <2>1. <<"next">> # <<"status", "next">>
    OBVIOUS
  <2> QED BY <2>1, EndingPlans
<1>7. CASE r.stopped
  <2>1. r' = [r EXCEPT !.plan = <<>>]
    BY <1>7 DEF Streamed, Then
  <2>2. /\ <<>> \in Plans /\ <<>> \in StreamPlans /\ <<>> \notin Loop \cup Closing \cup Salvage \cup Asking
        /\ <<>> \notin Bare \cup ClosingAsk
    <3>1. <<>> \in Ending /\ <<>> \notin Asking /\ <<>> \in Plans /\ <<>> \in StreamPlans
      BY EndingPlans
    <3>2. <<>> \notin Loop \cup Closing \cup Salvage
      BY <3>1, PhasesApart
    <3> QED BY <3>1, <3>2, EventPlans
  <2>3. /\ r' \in Renderer /\ r'.plan = <<>> /\ SameWords(r') /\ SameStream(r') /\ SameReply(r')
        /\ r'.pending = r.pending /\ r'.caught = r.caught /\ r'.gaveUp = r.gaveUp /\ r'.missed = r.missed
    BY <2>1, <2>2 DEF Renderer, SameWords, SameStream, SameReply
  <2>4. Salvaged /\ ~thread.status /\ <<>> # <<"status", "next">>
    BY <1>7 DEF Salvaged, LingerInv
  <2> QED BY <2>2, <2>3, <2>4, ReadKeeps DEF SameWords
<1>8. CASE ~r.stopped /\ e.type = "delta" /\ mode.hold
  <2>1. r' = [r EXCEPT !.plan = <<"next">>, !.step = @ \o e.text]
    <3>1. r' = [Again(<<>>) EXCEPT !.step = @ \o e.text]
      BY <1>1, <1>8 DEF Streamed
    <3>2. Again(<<>>) = Then(<<"next">>)
      BY <1>8, AgainIs
    <3>3. r' = [Then(<<"next">>) EXCEPT !.step = @ \o e.text]
      BY <3>1, <3>2
    <3> QED BY <3>3 DEF Then, Renderer
  <2>2. /\ r' \in Renderer /\ r'.plan = <<"next">> /\ SameWords(r') /\ SameStream(r') /\ SameReply(r')
        /\ r'.pending = r.pending /\ r'.caught = r.caught /\ r'.gaveUp = r.gaveUp /\ r'.missed = r.missed
    BY <2>1, <1>4, <1>6 DEF Renderer, SameWords, SameStream, SameReply
  <2> QED BY <2>2, <1>6, ReadOnKeeps DEF SameWords
<1>9. CASE ~r.stopped /\ e.type = "delta" /\ ~mode.hold
  <2>1. PICK flush \in {<<>>, <<"flush">>} :
           /\ flush = <<>> => r.started
           /\ r' = [Again(flush) EXCEPT !.pending = @ \o e.text, !.streamed = TRUE, !.taken = @ \o e.text]
    BY <1>1, <1>9 DEF Streamed
  <2>2. PICK p \in {<<"next">>, <<"flush", "next">>} : Again(flush) = Then(p) /\ (p = <<"next">> => r.started)
    <3>1. <<"flush", "next">> # <<"next">>
      OBVIOUS
    <3> QED BY <1>9, <2>1, <3>1, AgainIs
  <2>3. r' = [r EXCEPT !.plan = p, !.pending = @ \o e.text, !.streamed = TRUE, !.taken = @ \o e.text]
    BY <2>1, <2>2 DEF Then, Renderer
  <2> QED BY <1>1, <1>9, <2>2, <2>3, DeltaKeeps
<1>10. CASE ~r.stopped /\ e.type \in {"requested", "acted"}
  <2>1. \E p : \E step \in Seq(Nat) :
           /\ r' = [r EXCEPT !.plan = p, !.step = step]
           /\ \/ p = <<"next">>
              \/ p = <<"status", "next">> /\ mode.hold /\ ~mode.tasks
              \/ mode.tasks /\ p \in {<<"flush", "chunk", "next">>, <<"flush", "chunk", "flush", "chunk", "next">>}
    <3>1. CASE e.type = "requested"
      <4>1. r' = [Again(Progress \o TaskChunk) EXCEPT !.step = <<>>]
        BY <1>1, <1>10, <3>1 DEF Streamed
      <4>2. PICK p : /\ Again(Progress \o TaskChunk) = Then(p)
                     /\ \/ p = <<"next">>
                        \/ p = <<"status", "next">> /\ mode.hold /\ ~mode.tasks
                        \/ mode.tasks /\ p \in {<<"flush", "chunk", "next">>, <<"flush", "chunk", "flush", "chunk", "next">>}
        BY <1>10, AgainIs
      <4>3. r' = [r EXCEPT !.plan = p, !.step = <<>>]
        BY <4>1, <4>2 DEF Then, Renderer
      <4> QED BY <4>2, <4>3, <1>4
    <3>2. CASE e.type = "acted"
      <4>1. r' = Again(TaskChunk)
        BY <1>1, <1>10, <3>2 DEF Streamed
      <4>2. PICK p : /\ Again(TaskChunk) = Then(p)
                     /\ p = <<"next">> \/ (mode.tasks /\ p = <<"flush", "chunk", "next">>)
        BY <1>10, AgainIs
      <4>3. r' = [r EXCEPT !.plan = p, !.step = r.step]
        BY <4>1, <4>2 DEF Then, Renderer
      <4> QED BY <4>2, <4>3, <1>4
    <3> QED BY <1>10, <3>1, <3>2
  <2>0. PICK p : \E step \in Seq(Nat) :
           /\ r' = [r EXCEPT !.plan = p, !.step = step]
           /\ \/ p = <<"next">>
              \/ p = <<"status", "next">> /\ mode.hold /\ ~mode.tasks
              \/ mode.tasks /\ p \in {<<"flush", "chunk", "next">>, <<"flush", "chunk", "flush", "chunk", "next">>}
    BY <2>1
  <2>2. /\ p \in Loop /\ p \in StreamPlans /\ p \in Plans
        /\ p = <<"status", "next">> => mode.hold /\ ~mode.tasks
        /\ mode.hold /\ ~mode.tasks => p \in Waiting
    BY <2>0, <1>6, EventPlans, EndingPlans
  <2>3. /\ r' \in Renderer /\ r'.plan = p /\ SameWords(r') /\ SameStream(r') /\ SameReply(r')
        /\ r'.pending = r.pending /\ r'.caught = r.caught /\ r'.gaveUp = r.gaveUp /\ r'.missed = r.missed
    BY <2>0, <2>2 DEF Renderer, SameWords, SameStream, SameReply
  <2>4. r'.plan = <<"status", "next">> => ~r.started
    BY <1>3, <2>2, <2>3 DEF PlanInv
  <2> QED BY <2>2, <2>3, <2>4, ReadOnKeeps DEF SameWords
<1>11. CASE ~r.stopped /\ e.type \in {"attached", "completed"}
  <2>1. \/ r' = [r EXCEPT !.plan = <<"next">>, !.files = TRUE]
        \/ e.type = "completed" /\ r' = [r EXCEPT !.plan = <<"next">>, !.final = e.text]
    <3>1. \/ r' = [Again(<<>>) EXCEPT !.files = TRUE]
          \/ e.type = "completed" /\ r' = [Again(<<>>) EXCEPT !.final = e.text]
      BY <1>1, <1>11 DEF Streamed
    <3> QED BY <3>1, <1>11, AgainIs DEF Then, Renderer
  <2>2. /\ r' \in Renderer /\ r'.plan = <<"next">> /\ SameStream(r') /\ SameReply(r')
        /\ r'.pending = r.pending /\ r'.caught = r.caught /\ r'.gaveUp = r.gaveUp /\ r'.missed = r.missed
        /\ r'.taken = r.taken /\ r'.stopped = r.stopped /\ r'.streamed = r.streamed
        /\ r'.final = r.final \/ (e.type = "completed" /\ r'.final = e.text)
    <3>1. CASE r' = [r EXCEPT !.plan = <<"next">>, !.files = TRUE]
      BY <3>1, <1>4, <1>6 DEF Renderer, SameStream, SameReply
    <3>2. CASE e.type = "completed" /\ r' = [r EXCEPT !.plan = <<"next">>, !.final = e.text]
      BY <3>2, <1>4, <1>6 DEF Renderer, SameStream, SameReply
    <3> QED BY <2>1, <3>1, <3>2
  <2> QED BY <2>2, <1>2, <1>6, ReadOnKeeps
<1>12. CASE ~r.stopped /\ e.type \in {"failed", "cancelled"} /\ (r.started \/ e.type = "failed")
  <2>1. r' = [r EXCEPT !.plan = <<"flush", "stop", "post">>, !.pending = Append(r.pending, Note)]
    <3>1. r' = [Then(Finish) EXCEPT !.pending = Pushed(Note)]
      BY <1>1, <1>12 DEF Streamed
    <3> QED BY <3>1, <1>12 DEF Then, Finish, Pushed, Renderer
  <2>2. PICK p : p = <<"flush", "stop", "post">>
    OBVIOUS
  <2>3. /\ p \in Bare /\ Head(p) = "flush" /\ p \in Closing /\ p \notin ClosingAsk /\ p \in StreamPlans
        /\ p \notin Loop \cup Salvage \cup Ending \cup Asking /\ p \in Plans
    <3>1. p \in Bare /\ Head(p) = "flush"
      BY <2>2, EventPlans
    <3> QED BY <3>1, PhasesApart, EventPlans, EndingPlans
  <2>4. /\ r' \in Renderer /\ r'.plan = p /\ SameWords(r') /\ SameStream(r') /\ SameReply(r')
        /\ r'.pending = Append(r.pending, Note) /\ r'.caught = r.caught /\ r'.gaveUp = r.gaveUp /\ r'.missed = r.missed
    BY <2>1, <2>2, <2>3, <1>5 DEF Renderer, SameWords, SameStream, SameReply
  <2>5. p # <<>> /\ p # <<"status", "next">>
    BY <2>3, EndingPlans
  <2> QED BY <1>5, <1>12, <2>3, <2>4, <2>5, ReadKeeps DEF SameWords
<1>13. CASE ~r.stopped /\ e.type = "cancelled" /\ ~r.started
  <2>1. r' = [r EXCEPT !.plan = <<>>]
    BY <1>1, <1>13 DEF Streamed, Then
  <2>2. /\ <<>> \in Plans /\ <<>> \in StreamPlans /\ <<>> \notin Loop \cup Closing \cup Salvage \cup Asking
        /\ <<>> \notin Bare \cup ClosingAsk
    <3>1. <<>> \in Ending /\ <<>> \notin Asking /\ <<>> \in Plans /\ <<>> \in StreamPlans
      BY EndingPlans
    <3>2. <<>> \notin Loop \cup Closing \cup Salvage
      BY <3>1, PhasesApart
    <3> QED BY <3>1, <3>2, EventPlans
  <2>3. /\ r' \in Renderer /\ r'.plan = <<>> /\ SameWords(r') /\ SameStream(r') /\ SameReply(r')
        /\ r'.pending = r.pending /\ r'.caught = r.caught /\ r'.gaveUp = r.gaveUp /\ r'.missed = r.missed
    BY <2>1, <2>2 DEF Renderer, SameWords, SameStream, SameReply
  <2>4. Salvaged /\ turn.state = "cancelled" /\ <<>> # <<"status", "next">>
    BY <1>2, <1>3, <1>13 DEF Outcomes
  <2> QED BY <2>2, <2>3, <2>4, ReadKeeps DEF SameWords
<1>14. CASE ~r.stopped /\ e.type = "parked"
  <2>1. PICK p : p = Ask /\ r' = [r EXCEPT !.plan = p]
    BY <1>1, <1>14 DEF Streamed, Then
  <2>2. /\ p \in StreamPlans /\ p \notin Loop \cup Salvage \cup Bare /\ p \in Plans
        /\ p \in Ending => ~r.started
        /\ p \in Closing => Head(p) = "flush"
        /\ p # <<>> /\ p # <<"status", "next">>
    <3>1. CASE r.started
      <4>1. p \in ClosingAsk /\ Head(p) = "flush"
        BY <2>1, <3>1, AskIs, EventPlans
      <4> QED BY <4>1, PhasesApart, EventPlans, EndingPlans
    <3>2. CASE ~r.started
      <4>1. p \in Asking /\ p \in Ending /\ p \in StreamPlans
        BY <2>1, <3>2, AskIs, EndingPlans
      <4> QED BY <3>2, <4>1, PhasesApart, EventPlans, EndingPlans
    <3> QED BY <3>1, <3>2
  <2>3. /\ r' \in Renderer /\ r'.plan = p /\ SameWords(r') /\ SameStream(r') /\ SameReply(r')
        /\ r'.pending = r.pending /\ r'.caught = r.caught /\ r'.gaveUp = r.gaveUp /\ r'.missed = r.missed
    BY <2>1, <2>2 DEF Renderer, SameWords, SameStream, SameReply
  <2>4. turn.state = "parked"
    BY <1>2, <1>14 DEF Outcomes
  <2> QED BY <1>3, <2>2, <2>3, <2>4, ReadKeeps DEF SameWords
<1> QED BY <1>2, <1>7, <1>8, <1>9, <1>10, <1>11, <1>12, <1>13, <1>14 DEF AnEvent, Types, Outcomes

\* A read that throws: the failure of a turn, or a link that broke.
LEMMA ReadThrows ==
  ASSUME ReplyInv, Step("next"), UNCHANGED <<mode, turn, link, thread>>,
         queue' = queue \/ (queue # <<>> /\ queue' = Tail(queue)),
         r' \in CatchClauses
  PROVE  ReplyInv'
<1> ReplyTypes /\ PlanInv
  BY DEF ReplyInv
<1> r \in Renderer /\ thread \in Thread
  BY DEF ReplyTypes
<1>1. PICK c \in CatchClauses : r' = c
  OBVIOUS
<1>2. r.plan # <<>> /\ r.plan # <<"wipe">> /\ r.plan \notin Ending
  BY AtNext
<1>3. c \in Renderer /\ c.lost = r.lost /\ c.started = r.started /\ r.started \in BOOLEAN /\ r.lost \in BOOLEAN
  BY <1>2, CatchDoes DEF SameReply, SameStream, Renderer
<1>4. r' = [c EXCEPT !.started = r.started, !.lost = r.lost]
  BY <1>1, <1>3 DEF Renderer
<1>5. thread.shown \in Seq(Nat) /\ r.pending \in Seq(Nat) /\ <<>> \in Seq(Nat)
  BY DEF Thread, Renderer
<1>6. thread.shown \o <<>> = thread.shown /\ <<>> \o r.pending = r.pending
  BY <1>5, ConcatEmptySeq
<1>7. (thread.stream # "none" => r.started) /\ (r.started => mode.kind = "stream")
  BY DEF PlanInv
<1> QED BY <1>2, <1>3, <1>4, <1>5, <1>6, <1>7, ThrownKeeps

\* An event when the text goes out once, or after an approval.
LEMMA RenderedKeeps ==
  ASSUME ReplyInv, Step("next"), UNCHANGED <<mode, turn, link, thread>>,
         queue # <<>>, queue' = Tail(queue),
         \/ mode.kind = "once" /\ r' \in Rendered(Head(queue))
         \/ mode.kind = "resume" /\ r' \in Resumed(Head(queue))
  PROVE  ReplyInv'
<1> ReplyTypes /\ PlanInv /\ EventInv /\ TextInv /\ OutInv /\ OnceInv /\ LingerInv
  BY DEF ReplyInv
<1> r \in Renderer /\ thread \in Thread
  BY DEF ReplyTypes
<1>1. PICK e : e = Head(queue)
  OBVIOUS
<1>2. /\ e \in AnEvent /\ e.text \in Seq(Nat)
      /\ e.type \in Outcomes => turn.state = e.type
      /\ e.type = "completed" => Ascends(e.text, turn.said)
  BY <1>1, HeadEvent DEF AnEvent
<1>3. /\ Salvaged /\ ~r.started /\ ~r.stopped /\ ~mode.hold
      /\ r.plan \in Loop
  BY AtNext DEF PlanInv, ReplyTypes
<1>4. Again(<<>>) = [r EXCEPT !.plan = <<"next">>]
  BY <1>3, AgainIs DEF Then
<1>5. <<"next">> \in Loop /\ <<"next">> \in Plans /\ <<"next">> # <<"status", "next">>
  <2>1. <<"next">> # <<"status", "next">>
    OBVIOUS
  <2> QED BY <2>1, EndingPlans
<1>6. ASSUME NEW p, r' = [r EXCEPT !.plan = p], p \in Ending, p \in Asking => turn.state = "parked",
             p = <<>> => turn.state = "cancelled",
             mode.kind = "once" => p \in OncePlans,
             mode.kind = "resume" => p \in ResumePlans /\ p \notin {<<>>, <<"files">>}
      PROVE  ReplyInv'
  <2>1. p \notin Loop \cup Closing \cup Salvage /\ p \in Plans
    BY <1>6, PhasesApart, EndingPlans
  <2>2. p \notin Bare \cup ClosingAsk /\ p # <<"status", "next">>
    BY <2>1, EventPlans, EndingPlans
  <2>3. /\ r' \in Renderer /\ r'.plan = p /\ SameWords(r') /\ SameStream(r') /\ SameReply(r')
        /\ r'.pending = r.pending /\ r'.caught = r.caught /\ r'.gaveUp = r.gaveUp /\ r'.missed = r.missed
    BY <1>6, <2>1 DEF Renderer, SameWords, SameStream, SameReply
  <2> QED BY <1>3, <1>6, <2>1, <2>2, <2>3, ReadKeeps DEF SameWords
<1>7. CASE e.type \in {"completed", "attached", "delta", "requested", "acted"} \/ (e.type = "cancelled" /\ mode.kind = "resume")
  <2>1. \/ r' = [r EXCEPT !.plan = <<"next">>]
        \/ r' = [r EXCEPT !.plan = <<"next">>, !.files = TRUE]
        \/ e.type = "completed" /\ r' = [r EXCEPT !.plan = <<"next">>, !.final = e.text]
    <3>1. \/ r' = Again(<<>>) \/ r' = [Again(<<>>) EXCEPT !.files = TRUE]
          \/ e.type = "completed" /\ r' = [Again(<<>>) EXCEPT !.final = e.text]
      BY <1>1, <1>7 DEF Rendered, Resumed
    <3> QED BY <3>1, <1>4
  <2>2. /\ r' \in Renderer /\ r'.plan = <<"next">> /\ SameStream(r') /\ SameReply(r')
        /\ r'.pending = r.pending /\ r'.caught = r.caught /\ r'.gaveUp = r.gaveUp /\ r'.missed = r.missed
        /\ r'.taken = r.taken /\ r'.stopped = r.stopped /\ r'.streamed = r.streamed
        /\ r'.final = r.final \/ (e.type = "completed" /\ r'.final = e.text)
    BY <2>1, <1>2, <1>5 DEF Renderer, SameStream, SameReply
  <2> QED BY <2>2, <1>2, <1>3, <1>5, ReadOnKeeps
<1>8. CASE e.type = "failed" /\ mode.kind = "once"
  <2>1. r' \in CatchClauses
    BY <1>1, <1>8 DEF Rendered
  <2> QED BY <2>1, ReadThrows
<1>9. CASE e.type = "cancelled" /\ mode.kind = "once"
  <2>1. r' = [r EXCEPT !.plan = <<>>]
    BY <1>1, <1>9 DEF Rendered, Then
  <2>2. turn.state = "cancelled"
    BY <1>2, <1>9 DEF Outcomes
  <2> QED BY <1>6, <1>9, <2>1, <2>2, EndingPlans
<1>10. CASE e.type = "parked" /\ mode.kind = "once"
  <2>1. r' = [r EXCEPT !.plan = <<"files", "prompt">>]
    BY <1>1, <1>3, <1>10, AskIs DEF Rendered, Then
  <2>2. turn.state = "parked" /\ <<"files", "prompt">> # <<>>
    BY <1>2, <1>10 DEF Outcomes
  <2> QED BY <1>6, <1>10, <2>1, <2>2, EndingPlans
<1>11. CASE e.type = "failed" /\ mode.kind = "resume"
  <2>1. r' = [r EXCEPT !.plan = <<"failed">>]
    BY <1>1, <1>11 DEF Resumed, Then
  <2>2. <<"failed">> # <<>> /\ <<"failed">> # <<"files">>
    OBVIOUS
  <2> QED BY <1>6, <1>11, <2>1, <2>2, EndingPlans
<1>12. CASE e.type = "parked" /\ mode.kind = "resume"
  <2>1. r' = [r EXCEPT !.plan = <<"files", "prompt", "awaiting">>]
    BY <1>1, <1>12 DEF Resumed, Then
  <2>2. turn.state = "parked" /\ <<"files", "prompt", "awaiting">> # <<>> /\ <<"files", "prompt", "awaiting">> # <<"files">>
    BY <1>2, <1>12 DEF Outcomes
  <2> QED BY <1>6, <1>12, <2>1, <2>2, EndingPlans
<1> QED BY <1>2, <1>7, <1>8, <1>9, <1>10, <1>11, <1>12 DEF AnEvent, Types, Outcomes

LEMMA HandleKeeps ==
  ASSUME ReplyInv, Handle
  PROVE  ReplyInv'
<1>1. /\ Step("next") /\ queue # <<>> /\ queue' = Tail(queue) /\ UNCHANGED <<mode, turn, link, thread>>
      /\ r' \in CASE mode.kind = "stream" -> Streamed(Head(queue))
                  [] mode.kind = "once" -> Rendered(Head(queue))
                  [] OTHER -> Resumed(Head(queue))
  BY DEF Handle
<1>2. mode.kind \in {"stream", "once", "resume"}
  BY DEF ReplyInv, ReplyTypes, Mode
<1>3. \/ mode.kind = "stream" /\ r' \in Streamed(Head(queue))
      \/ mode.kind = "once" /\ r' \in Rendered(Head(queue))
      \/ mode.kind = "resume" /\ r' \in Resumed(Head(queue))
  BY <1>1, <1>2
<1> QED BY <1>1, <1>3, StreamedKeeps, RenderedKeeps

\* The end of the events: what did not stream goes out.
LEMMA WholeKeeps ==
  ASSUME ReplyInv, Step("next"), UNCHANGED <<mode, turn, queue, link, thread>>,
         mode.kind # "resume", r' = Whole
  PROVE  ReplyInv'
<1> ReplyTypes /\ PlanInv /\ EventInv /\ TextInv /\ OutInv /\ OnceInv /\ LingerInv
  BY DEF ReplyInv
<1> r \in Renderer /\ thread \in Thread /\ turn \in ATurn
  BY DEF ReplyTypes
<1>0. mode.kind \in {"stream", "once"}
  BY DEF ReplyTypes, Mode
<1>1. /\ r.plan \in Loop /\ r.plan \notin Ending /\ ~r.caught /\ ~thread.asked /\ ~r.posted
      /\ (~r.started => r.pending = <<>> /\ Salvaged)
  BY AtNext
<1>2. PICK u \in Seq(Nat) : u = Text
  <2>1. r.final \in Seq(Nat) /\ <<>> \in Seq(Nat)
    BY DEF Renderer
  <2>2. Text \in Seq(Nat)
    BY <2>1 DEF Text
  <2> QED BY <2>2
<1>3. Ascends(u, turn.said) /\ \A x \in Range(r.taken), y \in Range(u) : x < y
  <2>1. Range(<<>>) = {} /\ Len(<<>>) = 0
    BY DEF Range
  <2>2. CASE r.streamed
    BY <1>2, <2>1, <2>2 DEF Text, Ascends
  <2>3. CASE ~r.streamed
    <3>1. u = r.final /\ r.taken = <<>>
      BY <1>1, <1>2, <2>3 DEF Text, TextInv
    <3> QED BY <2>1, <3>1 DEF EventInv
  <2> QED BY <2>2, <2>3
<1>4. /\ Kept(thread.shown, IF r.stopped THEN r.pending ELSE r.pending \o u, r.taken \o u, r.stopped, turn.said)
      /\ Twice \/ Unique(thread.shown, IF r.stopped THEN r.pending ELSE r.pending \o u)
      /\ Twice \/ Fresh(thread.shown, {})
  BY <1>3, TakenKept
<1>5. PICK p : p = (IF mode.kind = "once" THEN <<"post">>
                    ELSE IF r.started \/ Text # <<>> THEN Finish ELSE <<>>) \o <<"files", "clear">>
  OBVIOUS
<1>6. p = IF mode.kind = "once" THEN <<"post", "files", "clear">>
          ELSE IF r.started \/ u # <<>> THEN <<"flush", "stop", "post", "files", "clear">>
          ELSE <<"files", "clear">>
  BY <1>2, <1>5, PlansMade DEF Finish
<1>7. PICK pending : pending = IF r.stopped THEN r.pending ELSE r.pending \o u
  OBVIOUS
<1>8. pending \in Seq(Nat) /\ r.taken \o u \in Seq(Nat) /\ r.taken \in Seq(Nat)
  <2>1. r.pending \in Seq(Nat) /\ r.taken \in Seq(Nat)
    BY DEF Renderer
  <2> QED BY <1>7, <2>1, ConcatProperties
<1>9. r' = [r EXCEPT !.pending = pending, !.taken = r.taken \o u, !.plan = p]
  BY <1>2, <1>5, <1>7 DEF Whole, Renderer
<1>10. /\ p \in ClosingClear \/ (p = <<"files", "clear">> /\ mode.kind = "stream" /\ ~r.started /\ u = <<>>)
       /\ mode.kind = "stream" => p \in StreamPlans
       /\ mode.kind = "once" => p \in OncePlans
       /\ p \in ClosingClear => Head(p) = "flush" \/ mode.kind = "once"
  <2>1. CASE mode.kind = "once"
    BY <2>1, <1>6, EventPlans
  <2>2. CASE mode.kind = "stream" /\ (r.started \/ u # <<>>)
    BY <2>2, <1>6, EventPlans
  <2>3. CASE mode.kind = "stream" /\ ~(r.started \/ u # <<>>)
    <3>1. p = <<"files", "clear">>
      BY <2>3, <1>6
    <3>2. <<"files", "clear">> \in Ending /\ <<"files", "clear">> \in StreamPlans
      BY EndingPlans
    <3>3. <<"files", "clear">> \notin ClosingClear
      BY <3>2, PhasesApart, EventPlans
    <3> QED BY <2>3, <3>1, <3>2, <3>3
  <2> QED BY <1>0, <2>1, <2>2, <2>3
<1>11. /\ p \in Plans /\ p \notin Loop \cup Salvage \cup Bare \cup ClosingAsk \cup Asking
       /\ p # <<>> /\ p # <<"status", "next">>
       /\ p \in Ending => p = <<"files", "clear">>
       /\ p \in Closing => p \in ClosingClear
  <2>1. CASE p \in ClosingClear
    <3>1. p \in Closing /\ p \notin Bare \cup ClosingAsk
      BY <2>1, PhasesApart, EventPlans
    <3>2. p \notin Loop \cup Salvage \cup Ending
      BY <3>1, PhasesApart
    <3> QED BY <2>1, <3>1, <3>2, EventPlans, EndingPlans
  <2>2. CASE p = <<"files", "clear">>
    <3>1. p \in Ending /\ p \notin Asking /\ p \in Plans
      BY <2>2, EndingPlans
    <3>2. p \notin Loop \cup Closing \cup Salvage
      BY <3>1, PhasesApart
    <3>3. p # <<>>
      BY <2>2
    <3> QED BY <2>2, <3>1, <3>2, <3>3, EventPlans, EndingPlans
  <2> QED BY <1>10, <2>1, <2>2
<1>12. /\ r' \in Renderer /\ r'.plan = p /\ SameStream(r') /\ SameReply(r') /\ r'.stopped = r.stopped
       /\ r'.pending = pending /\ r'.taken = r.taken \o u /\ r'.streamed = r.streamed /\ r'.final = r.final
       /\ r'.caught = r.caught /\ r'.gaveUp = r.gaveUp /\ r'.missed = r.missed
  BY <1>8, <1>9, <1>11 DEF Renderer, SameStream, SameReply
<1>13. ReplyTypes'
  BY <1>12 DEF ReplyTypes
<1>14. PlanInv'
  <2>1. r'.ts \/ r'.broken \/ r'.stopped \/ thread'.stream # "none" => r'.started
    BY <1>12 DEF PlanInv, SameStream
  <2>2. mode.kind # "stream" => ~r'.started /\ ~r'.streamed
    BY <1>12 DEF PlanInv, SameStream
  <2>3. ~r'.caught /\ ~thread'.asked
    BY <1>1, <1>12
  <2> QED BY <1>10, <1>11, <1>12, <2>1, <2>2, <2>3 DEF PlanInv
<1>15. EventInv'
  BY <1>11, <1>12, EventsKept
<1>16. TextInv'
  BY <1>4, <1>7, <1>11, <1>12 DEF TextInv
<1>17. OutInv'
  <2>1. p \in Ending => Salvaged'
    <3>1. ASSUME p \in Ending PROVE Salvaged /\ u = <<>>
      <4>1. p = <<"files", "clear">>
        BY <1>11, <3>1
      <4>2. p \notin ClosingClear
        BY <3>1, PhasesApart, EventPlans
      <4> QED BY <1>1, <1>10, <4>2
    <3>2. u = <<>> => r.taken \o u = r.taken
      BY <1>8, ConcatEmptySeq
    <3> QED BY <1>12, <3>1, <3>2 DEF Salvaged
  <2>2. p \in Closing /\ Head(p) # "flush" => FlushedOut'
    BY <1>10, <1>11, <1>12 DEF FlushedOut, SameStream, PlanInv
  <2> QED BY <1>1, <1>11, <1>12, <2>1, <2>2 DEF OutInv
<1>18. OnceInv'
  <2>1. Twice' <=> Twice
    BY <1>12 DEF Twice, SameReply
  <2> QED BY <1>4, <1>7, <1>12, <2>1 DEF OnceInv
<1>19. LingerInv'
  BY <1>11, <1>12 DEF LingerInv, SameStream, SameReply
<1> QED BY <1>13, <1>14, <1>15, <1>16, <1>17, <1>18, <1>19 DEF ReplyInv

LEMMA OverKeeps ==
  ASSUME ReplyInv, Over
  PROVE  ReplyInv'
<1> ReplyTypes /\ PlanInv
  BY DEF ReplyInv
<1> r \in Renderer /\ thread \in Thread /\ mode \in Mode
  BY DEF ReplyTypes
<1>1. Step("next") /\ UNCHANGED <<mode, turn, queue, link, thread>>
  BY DEF Over
<1>2. CASE r' \in CatchClauses
  BY <1>1, <1>2, ReadThrows
<1>3. CASE mode.kind = "resume" /\ r' = Then(<<"outcome", "files">>)
  <2>1. PICK p : p = <<"outcome", "files">>
    OBVIOUS
  <2>2. /\ p \in Ending /\ p \notin Asking /\ p \in Plans /\ p \in ResumePlans
        /\ p # <<>> /\ p # <<"files">> /\ p # <<"status", "next">>
    <3>1. p # <<>> /\ p # <<"files">> /\ p # <<"status", "next">>
      BY <2>1
    <3> QED BY <2>1, <3>1, EndingPlans
  <2>3. p \notin Loop \cup Closing \cup Salvage \cup Bare \cup ClosingAsk
    BY <2>2, PhasesApart, EventPlans
  <2>4. r' = [r EXCEPT !.plan = p]
    BY <1>3, <2>1 DEF Then
  <2>5. /\ r' \in Renderer /\ r'.plan = p /\ SameWords(r') /\ SameStream(r') /\ SameReply(r')
        /\ r'.pending = r.pending /\ r'.caught = r.caught /\ r'.gaveUp = r.gaveUp /\ r'.missed = r.missed
    BY <2>2, <2>4 DEF Renderer, SameWords, SameStream, SameReply
  <2>6. Salvaged
    BY <1>1, <1>3, AtNext DEF PlanInv
  <2> QED BY <1>1, <1>3, <2>2, <2>3, <2>5, <2>6, ReadKeeps DEF SameWords
<1>4. CASE mode.kind # "resume" /\ r' = Whole
  BY <1>1, <1>4, WholeKeeps
<1> QED BY <1>2, <1>3, <1>4 DEF Over

-----------------------------------------------------------------------------
(* The turn, and what it emits: the renderer and the thread stand still.   *)

LEMMA EmitKeeps ==
  ASSUME ReplyTypes, EventInv, TextInv, turn.state = "running", r' = r,
         turn' \in ATurn, turn.said <= turn'.said, Ascends(turn'.step, turn'.said),
         NEW es \in Seq(AnEvent),
         \A i \in 1..Len(es) :
             /\ es[i].type \in Outcomes => turn'.state = es[i].type
             /\ es[i].type = "completed" => Ascends(es[i].text, turn'.said)
             /\ es[i].type = "delta" =>
                   Len(es[i].text) = 1 /\ turn.said < es[i].text[1] /\ es[i].text[1] \in 1..turn'.said,
         \A i, j \in 1..Len(es) : i < j => es[i].type # "delta" \/ es[j].type # "delta",
         queue' = queue \/ queue' = queue \o es
  PROVE  EventInv' /\ queue' \in Seq(AnEvent)
<1> queue \in Seq(AnEvent) /\ turn \in ATurn /\ r \in Renderer
  BY DEF ReplyTypes
<1> turn.said \in Nat /\ turn'.said \in Nat /\ r.taken \in Seq(Nat)
  BY DEF ATurn, Renderer
<1> DEFINE Earlier(e) ==
              /\ e.type \notin Outcomes
              /\ e.type = "delta" =>
                    /\ Len(e.text) = 1 /\ e.text[1] \in 1..turn.said
                    /\ r.plan \in Loop => \A x \in Range(r.taken) : x < e.text[1]
<1>1. \A i \in 1..Len(queue) : Earlier(queue[i])
  BY DEF EventInv, Outcomes
<1>2. Ascends(r.final, turn'.said)
  BY DEF EventInv, Ascends
<1>3. \A x \in Range(r.taken) : x \in 1..turn.said
  <2>1. Ascends(r.taken, turn.said)
    BY DEF TextInv, Kept
  <2> TAKE x \in Range(r.taken)
  <2>2. PICK i \in 1..Len(r.taken) : r.taken[i] = x
    BY RangeIs
  <2> QED BY <2>1, <2>2 DEF Ascends
<1>4. "completed" \in Outcomes
  BY DEF Outcomes
<1>5. CASE queue' = queue
  <2>1. ASSUME NEW i \in 1..Len(queue')
        PROVE  /\ queue'[i].type \in Outcomes => turn'.state = queue'[i].type
               /\ queue'[i].type = "completed" => Ascends(queue'[i].text, turn'.said)
               /\ queue'[i].type = "delta" =>
                     /\ Len(queue'[i].text) = 1 /\ queue'[i].text[1] \in 1..turn'.said
                     /\ r'.plan \in Loop => \A x \in Range(r'.taken) : x < queue'[i].text[1]
    BY <1>1, <1>4, <1>5
  <2>2. ASSUME NEW i \in 1..Len(queue'), NEW j \in 1..Len(queue'), i < j,
               queue'[i].type = "delta", queue'[j].type = "delta"
        PROVE  queue'[i].text[1] < queue'[j].text[1]
    BY <1>5, <2>2 DEF EventInv
  <2> QED BY <1>2, <1>5, <2>1, <2>2 DEF EventInv
<1>6. CASE queue' = queue \o es
  <2>1. /\ queue' \in Seq(AnEvent) /\ Len(queue') = Len(queue) + Len(es)
        /\ \A i \in 1..Len(queue) + Len(es) :
               queue'[i] = IF i <= Len(queue) THEN queue[i] ELSE es[i - Len(queue)]
    BY <1>6, ConcatProperties
  <2>2. Len(queue) \in Nat /\ Len(es) \in Nat
    BY LenProperties
  <2>3. ASSUME NEW i \in 1..Len(queue')
        PROVE  \/ i \in 1..Len(queue) /\ queue'[i] = queue[i]
               \/ i > Len(queue) /\ i - Len(queue) \in 1..Len(es) /\ queue'[i] = es[i - Len(queue)]
    BY <2>1, <2>2
  <2>4. ASSUME NEW i \in 1..Len(queue')
        PROVE  /\ queue'[i].type \in Outcomes => turn'.state = queue'[i].type
               /\ queue'[i].type = "completed" => Ascends(queue'[i].text, turn'.said)
               /\ queue'[i].type = "delta" =>
                     /\ Len(queue'[i].text) = 1 /\ queue'[i].text[1] \in 1..turn'.said
                     /\ r'.plan \in Loop => \A x \in Range(r'.taken) : x < queue'[i].text[1]
    <3>1. CASE i \in 1..Len(queue) /\ queue'[i] = queue[i]
      BY <1>1, <1>4, <3>1
    <3>2. CASE i - Len(queue) \in 1..Len(es) /\ queue'[i] = es[i - Len(queue)]
      <4>1. PICK k \in 1..Len(es) : queue'[i] = es[k]
        BY <3>2
      <4>2. ASSUME es[k].type = "delta", NEW x \in Range(r.taken) PROVE x < es[k].text[1]
        <5>1. PICK first : first = es[k].text[1]
          OBVIOUS
        <5>2. turn.said < first /\ first \in 1..turn'.said /\ x \in 1..turn.said
          BY <1>3, <4>2, <5>1
        <5> QED BY <5>1, <5>2
      <4> QED BY <4>1, <4>2
    <3> QED BY <2>3, <3>1, <3>2
  <2>5. ASSUME NEW i \in 1..Len(queue'), NEW j \in 1..Len(queue'), i < j,
               queue'[i].type = "delta", queue'[j].type = "delta"
        PROVE  queue'[i].text[1] < queue'[j].text[1]
    <3>1. CASE i \in 1..Len(queue) /\ j \in 1..Len(queue)
      <4>1. queue'[i] = queue[i] /\ queue'[j] = queue[j]
        BY <2>3, <3>1, <2>2
      <4> QED BY <4>1, <3>1, <2>5 DEF EventInv
    <3>2. CASE i \in 1..Len(queue) /\ j > Len(queue)
      <4>1. queue'[i] = queue[i] /\ j - Len(queue) \in 1..Len(es) /\ queue'[j] = es[j - Len(queue)]
        BY <2>1, <2>3, <3>2, <2>2
      <4>2. queue[i].text[1] \in 1..turn.said
        BY <4>1, <1>1, <3>2, <2>5
      <4>3. turn.said < es[j - Len(queue)].text[1] /\ es[j - Len(queue)].text[1] \in 1..turn'.said
        BY <4>1, <2>5
      <4>4. \A a, b : a \in 1..turn.said /\ turn.said < b /\ b \in 1..turn'.said => a < b
        OBVIOUS
      <4> QED BY <4>1, <4>2, <4>3, <4>4
    <3>3. CASE i > Len(queue)
      <4>1. /\ i - Len(queue) \in 1..Len(es) /\ queue'[i] = es[i - Len(queue)]
            /\ j - Len(queue) \in 1..Len(es) /\ queue'[j] = es[j - Len(queue)]
        BY <2>1, <2>3, <2>5, <3>3, <2>2
      <4>2. i - Len(queue) < j - Len(queue)
        BY <2>5, <2>2
      <4> QED BY <4>1, <4>2, <2>5
    <3> QED BY <2>1, <2>2, <2>5, <3>1, <3>2, <3>3
  <2> QED BY <1>2, <2>1, <2>4, <2>5 DEF EventInv
<1> QED BY <1>5, <1>6

LEMMA TurnKeeps ==
  ASSUME ReplyInv, UNCHANGED <<mode, link, r, thread>>, turn.state = "running",
         turn' \in ATurn, turn.said <= turn'.said, EventInv', queue' \in Seq(AnEvent)
  PROVE  ReplyInv'
<1> ReplyTypes /\ PlanInv /\ EventInv /\ TextInv /\ OutInv /\ OnceInv /\ LingerInv
  BY DEF ReplyInv
<1> r \in Renderer /\ turn \in ATurn
  BY DEF ReplyTypes
<1>1. ReplyTypes'
  BY DEF ReplyTypes
<1>2. PlanInv'
  BY DEF PlanInv
<1>3. TextInv'
  <2>1. turn.said \in Nat /\ turn'.said \in Nat /\ r.taken \in Seq(Nat)
    BY DEF ATurn, Renderer
  <2>2. Kept(thread.shown, r.pending, r.taken, r.stopped, turn'.said)
    BY <2>1, KeptGrows DEF TextInv
  <2> QED BY <2>2 DEF TextInv
<1>4. OutInv'
  BY DEF OutInv, Salvaged, FlushedOut
<1>5. OnceInv'
  BY DEF OnceInv, Twice
<1>6. LingerInv'
  BY DEF LingerInv
<1> QED BY <1>1, <1>2, <1>3, <1>4, <1>5, <1>6 DEF ReplyInv

LEMMA SayKeeps ==
  ASSUME ReplyInv, Say
  PROVE  ReplyInv'
<1> ReplyTypes /\ EventInv /\ TextInv
  BY DEF ReplyInv
<1> turn \in ATurn /\ queue \in Seq(AnEvent)
  BY DEF ReplyTypes
<1>1. PICK token \in Nat : token = turn.said + 1
  BY DEF ATurn
<1>2. turn.state = "running" /\ UNCHANGED <<mode, link, r, thread>>
  BY DEF Say
<1>3. turn' = [turn EXCEPT !.said = token, !.step = Append(@, token)]
  BY <1>1 DEF Say
<1>4. PICK es : es = IF mode.live THEN <<Event("delta", <<token>>)>> ELSE <<>>
  OBVIOUS
<1>5. queue' = queue \/ queue' = queue \o es
  BY <1>1, <1>4 DEF Say, Emit
<1>6. Event("delta", <<token>>) \in AnEvent
  BY DEF Event, AnEvent, Types
<1>7. es \in Seq(AnEvent)
  BY <1>4, <1>6
<1>8. turn.step \in Seq(Nat) /\ turn.said \in Nat
  BY DEF ATurn
<1>9. Append(turn.step, token) \in Seq(Nat)
  BY <1>8, AppendProperties
<1>10. turn' \in ATurn /\ turn'.said = token /\ turn'.step = Append(turn.step, token)
  BY <1>3, <1>9 DEF ATurn
<1>11. Ascends(turn'.step, turn'.said)
  <2>1. /\ Len(turn'.step) = Len(turn.step) + 1
        /\ turn'.step[Len(turn.step) + 1] = token
        /\ \A i \in 1..Len(turn.step) : turn'.step[i] = turn.step[i]
    BY <1>8, <1>10, AppendProperties
  <2>2. Ascends(turn.step, turn.said)
    BY DEF EventInv
  <2>3. Len(turn.step) \in Nat
    BY <1>8, LenProperties
  <2>4. ASSUME NEW i \in 1..Len(turn'.step)
        PROVE  turn'.step[i] \in 1..token /\ (i <= Len(turn.step) => turn'.step[i] \in 1..turn.said)
    <3>1. CASE i \in 1..Len(turn.step)
      <4>1. turn'.step[i] \in 1..turn.said
        BY <3>1, <2>1, <2>2 DEF Ascends
      <4> QED BY <4>1, <1>1, <1>8
    <3>2. CASE i = Len(turn.step) + 1
      BY <3>2, <2>1, <2>3, <1>1, <1>8
    <3> QED BY <3>1, <3>2, <2>1, <2>3
  <2>5. ASSUME NEW i \in 1..Len(turn'.step), NEW j \in 1..Len(turn'.step), i < j
        PROVE  turn'.step[i] < turn'.step[j]
    <3>1. CASE j \in 1..Len(turn.step)
      BY <3>1, <2>1, <2>2, <2>5, <2>3 DEF Ascends
    <3>2. CASE j = Len(turn.step) + 1
      <4>1. turn'.step[i] \in 1..turn.said
        BY <2>4, <2>5, <3>2, <2>3
      <4> QED BY <4>1, <3>2, <2>1, <1>1, <1>8
    <3> QED BY <3>1, <3>2, <2>1, <2>3
  <2> QED BY <1>10, <2>4, <2>5 DEF Ascends
<1>12. \A i \in 1..Len(es) :
           i = 1 /\ es[i].type = "delta" /\ es[i].text = <<token>>
  BY <1>4 DEF Event
<1>13. "delta" \notin Outcomes /\ Len(<<token>>) = 1 /\ <<token>>[1] = token
  BY DEF Outcomes
<1>14. \A i \in 1..Len(es) :
           /\ es[i].type \in Outcomes => turn'.state = es[i].type
           /\ es[i].type = "completed" => Ascends(es[i].text, turn'.said)
           /\ es[i].type = "delta" =>
                 Len(es[i].text) = 1 /\ turn.said < es[i].text[1] /\ es[i].text[1] \in 1..turn'.said
  <2> TAKE i \in 1..Len(es)
  <2>1. es[i].type = "delta" /\ es[i].text = <<token>>
    BY <1>12
  <2>2. es[i].text[1] = token /\ Len(es[i].text) = 1
    BY <2>1, <1>13
  <2>3. turn.said < token /\ token \in 1..turn'.said
    BY <1>1, <1>8, <1>10
  <2> QED BY <2>1, <2>2, <2>3, <1>13
<1>15. \A i, j \in 1..Len(es) : i < j => es[i].type # "delta" \/ es[j].type # "delta"
  BY <1>12
<1>16. turn.said <= turn'.said
  BY <1>1, <1>8, <1>10
<1>17. EventInv' /\ queue' \in Seq(AnEvent)
  BY <1>2, <1>5, <1>7, <1>10, <1>11, <1>14, <1>15, <1>16, EmitKeeps
<1> QED BY <1>2, <1>10, <1>16, <1>17, TurnKeeps

LEMMA CallToolKeeps ==
  ASSUME ReplyInv, CallTool
  PROVE  ReplyInv'
<1> ReplyTypes /\ EventInv /\ TextInv
  BY DEF ReplyInv
<1> turn \in ATurn /\ queue \in Seq(AnEvent)
  BY DEF ReplyTypes
<1>1. turn.state = "running" /\ UNCHANGED <<mode, link, r, thread>>
      /\ turn' = [turn EXCEPT !.calls = @ + 1, !.step = <<>>]
  BY DEF CallTool
<1>2. PICK files \in {<<>>, <<Event("attached", <<>>)>>} :
          Emit(<<Event("requested", <<>>), Event("acted", <<>>)>> \o files)
  BY DEF CallTool
<1>3. PICK es : es = <<Event("requested", <<>>), Event("acted", <<>>)>> \o files
  OBVIOUS
<1>4. queue' = queue \/ queue' = queue \o es
  BY <1>2, <1>3 DEF Emit
<1> DEFINE Plain == {e \in AnEvent : e.type \in {"requested", "acted", "attached"}}
<1>5. Event("requested", <<>>) \in Plain /\ Event("acted", <<>>) \in Plain /\ Event("attached", <<>>) \in Plain
  BY DEF Event, AnEvent, Types
<1> HIDE DEF Plain
<1>6. <<Event("requested", <<>>), Event("acted", <<>>)>> \in Seq(Plain) /\ files \in Seq(Plain)
  <2>1. \A a, b \in Plain : <<a, b>> \in Seq(Plain)
    OBVIOUS
  <2>2. \A a \in Plain : <<a>> \in Seq(Plain)
    OBVIOUS
  <2>3. <<>> \in Seq(Plain)
    OBVIOUS
  <2>4. files \in Seq(Plain)
    BY <1>2, <1>5, <2>2, <2>3
  <2>5. <<Event("requested", <<>>), Event("acted", <<>>)>> \in Seq(Plain)
    BY <1>5, <2>1
  <2> QED BY <2>4, <2>5
<1>7. es \in Seq(Plain)
  BY <1>3, <1>6, ConcatProperties
<1>8. \A i \in 1..Len(es) : es[i] \in Plain
  BY <1>7, ElementOfSeq
<1>9. es \in Seq(AnEvent)
  <2>1. Plain \subseteq AnEvent
    BY DEF Plain
  <2> QED BY <1>7, <2>1
<1>10. turn' \in ATurn /\ turn'.said = turn.said /\ turn'.step = <<>> /\ turn.said \in Nat
  <2>1. turn.calls \in Nat /\ turn.calls + 1 \in Nat /\ <<>> \in Seq(Nat)
    BY DEF ATurn
  <2> QED BY <1>1, <2>1 DEF ATurn
<1>11. Ascends(turn'.step, turn'.said)
  BY <1>10 DEF Ascends
<1>12. \A i \in 1..Len(es) :
          es[i].type \notin Outcomes /\ es[i].type # "completed" /\ es[i].type # "delta"
  BY <1>8 DEF Plain, Outcomes
<1>13. EventInv' /\ queue' \in Seq(AnEvent)
  BY <1>1, <1>4, <1>9, <1>10, <1>11, <1>12, EmitKeeps
<1> QED BY <1>1, <1>10, <1>13, TurnKeeps

LEMMA EndKeeps ==
  ASSUME ReplyInv, NEW outcome \in Outcomes, End(outcome)
  PROVE  ReplyInv'
<1> ReplyTypes /\ EventInv /\ TextInv
  BY DEF ReplyInv
<1> turn \in ATurn /\ queue \in Seq(AnEvent)
  BY DEF ReplyTypes
<1>1. turn.state = "running" /\ UNCHANGED <<mode, link, r, thread>>
      /\ turn' = [turn EXCEPT !.state = outcome]
  BY DEF End
<1>2. PICK text \in Seq(Nat) : text = IF outcome = "completed" THEN turn.step ELSE <<>>
  <2>1. turn.step \in Seq(Nat) /\ <<>> \in Seq(Nat)
    BY DEF ATurn
  <2> QED BY <2>1
<1>3. PICK es : es = <<Event(outcome, text)>>
  OBVIOUS
<1>4. queue' = queue \/ queue' = queue \o es
  BY <1>2, <1>3 DEF End, Emit
<1>5. Event(outcome, text) \in AnEvent
  BY DEF Event, AnEvent, Types
<1>6. es \in Seq(AnEvent) /\ \A i \in 1..Len(es) : i = 1 /\ es[i].type = outcome /\ es[i].text = text
  BY <1>3, <1>5 DEF Event
<1>7. turn' \in ATurn /\ turn'.said = turn.said /\ turn'.step = turn.step /\ turn'.state = outcome /\ turn.said \in Nat
  BY <1>1 DEF ATurn
<1>8. Ascends(turn.step, turn.said) /\ outcome # "delta"
  BY DEF EventInv, Outcomes
<1>9. \A i \in 1..Len(es) :
           /\ es[i].type \in Outcomes => turn'.state = es[i].type
           /\ es[i].type = "completed" => Ascends(es[i].text, turn'.said)
           /\ es[i].type # "delta"
  BY <1>2, <1>6, <1>7, <1>8
<1>10. EventInv' /\ queue' \in Seq(AnEvent)
  <2>1. \A i, j \in 1..Len(es) : i < j => es[i].type # "delta" \/ es[j].type # "delta"
    BY <1>9
  <2>2. r' = r /\ turn.said <= turn'.said /\ Ascends(turn'.step, turn'.said)
    BY <1>1, <1>7, <1>8
  <2>3. \A i \in 1..Len(es) :
             /\ es[i].type \in Outcomes => turn'.state = es[i].type
             /\ es[i].type = "completed" => Ascends(es[i].text, turn'.said)
             /\ es[i].type = "delta" =>
                   Len(es[i].text) = 1 /\ turn.said < es[i].text[1] /\ es[i].text[1] \in 1..turn'.said
    BY <1>9
  <2> QED BY <1>1, <1>4, <1>6, <1>7, <2>1, <2>2, <2>3, EmitKeeps
<1> QED BY <1>1, <1>7, <1>10, TurnKeeps

LEMMA BreakKeeps ==
  ASSUME ReplyInv, Break
  PROVE  ReplyInv'
BY DEF ReplyInv, Break, ReplyTypes, PlanInv, EventInv, TextInv, OutInv, OnceInv, LingerInv,
       Salvaged, FlushedOut, Twice

LEMMA PressStopKeeps ==
  ASSUME ReplyInv, PressStop
  PROVE  ReplyInv'
<1> ReplyTypes /\ PlanInv /\ EventInv /\ TextInv /\ OutInv /\ OnceInv /\ LingerInv
  BY DEF ReplyInv
<1>1. /\ UNCHANGED <<mode, turn, queue, link, r>> /\ thread \in Thread /\ thread.stream = "open"
      /\ thread' = [thread EXCEPT !.stream = "stopped"]
  BY DEF PressStop, ReplyTypes
<1>2. /\ thread' \in Thread /\ thread'.shown = thread.shown /\ thread'.status = thread.status
      /\ thread'.asked = thread.asked /\ thread'.message = thread.message
  BY <1>1 DEF Thread
<1>3. ReplyTypes'
  BY <1>1, <1>2 DEF ReplyTypes
<1>4. PlanInv'
  BY <1>1, <1>2 DEF PlanInv
<1>5. EventInv' /\ TextInv'
  BY <1>1, <1>2 DEF EventInv, TextInv
<1>6. OutInv' /\ OnceInv' /\ LingerInv'
  BY <1>1, <1>2 DEF OutInv, OnceInv, LingerInv, Salvaged, FlushedOut, Twice
<1> QED BY <1>3, <1>4, <1>5, <1>6 DEF ReplyInv

LEMMA RestedKeeps ==
  ASSUME ReplyInv, UNCHANGED replyVars
  PROVE  ReplyInv'
BY DEF replyVars, ReplyInv, ReplyTypes, PlanInv, EventInv, TextInv, OutInv, OnceInv, LingerInv,
       Salvaged, FlushedOut, Twice

-----------------------------------------------------------------------------
LEMMA ReplyStarts == ReplyInit => ReplyInv
<1> SUFFICES ASSUME ReplyInit PROVE ReplyInv
  OBVIOUS
<1>1. /\ mode \in Mode /\ mode.kind \in {"stream", "once", "resume"}
      /\ mode.kind # "stream" => ~mode.live /\ ~mode.tasks /\ ~mode.hold
      /\ mode.kind = "resume" => ~mode.status
  BY SlackReplyAssumption DEF ReplyInit, Mode
<1>2. /\ turn = [said |-> 0, step |-> <<>>, calls |-> 0, state |-> "running"]
      /\ queue = <<>> /\ link = "up"
      /\ thread = [shown |-> <<>>, stream |-> "none", status |-> FALSE, asked |-> FALSE, message |-> "buttons"]
  BY DEF ReplyInit
<1>3. PICK p : p = IF mode.kind = "resume" THEN <<"working", "next">>
                   ELSE IF mode.status THEN <<"status", "next">> ELSE <<"next">>
  OBVIOUS
<1>4. r = [plan |-> p, pending |-> <<>>, final |-> <<>>, step |-> <<>>, files |-> FALSE,
           started |-> FALSE, ts |-> FALSE, stopped |-> FALSE, broken |-> FALSE,
           streamed |-> FALSE, posted |-> FALSE, statusShown |-> mode.status, caught |-> FALSE,
           taken |-> <<>>, gaveUp |-> FALSE, missed |-> FALSE, lost |-> FALSE, loud |-> FALSE]
  <2>1. p = CASE mode.kind = "resume" -> <<"working", "next">>
              [] mode.status -> <<"status", "next">>
              [] OTHER -> <<"next">>
    BY <1>1, <1>3
  <2> QED BY <2>1 DEF ReplyInit
<1>5. /\ p \in Loop /\ p # <<>> /\ p # <<"files">> /\ Head(p) # "flush"
      /\ mode.kind = "resume" => p \in ResumePlans
      /\ mode.kind # "resume" => p \in StreamPlans /\ p \in OncePlans /\ p \in Waiting
  <2>1. /\ \A q \in {<<"working", "next">>, <<"status", "next">>, <<"next">>} :
              q # <<>> /\ q # <<"files">> /\ Head(q) # "flush"
    OBVIOUS
  <2>2. p \in {<<"working", "next">>, <<"status", "next">>, <<"next">>}
    BY <1>3
  <2>3. p \in Loop
    BY <2>2, EndingPlans
  <2> QED BY <1>3, <2>1, <2>2, <2>3, EndingPlans
<1>6. p \in Plans /\ p \notin Closing \cup Salvage \cup Ending
  BY <1>5, PhasesApart, EndingPlans
<1>7. p \notin Asking \cup ClosingAsk \cup Bare
  BY <1>6, PhasesApart DEF Ending, Closing
<1>8. <<>> \in Seq(Nat) /\ Range(<<>>) = {} /\ Len(<<>>) = 0
  BY DEF Range
<1>9. /\ r \in Renderer /\ r.plan = p /\ r.pending = <<>> /\ r.final = <<>> /\ r.taken = <<>>
      /\ ~r.started /\ ~r.ts /\ ~r.stopped /\ ~r.broken /\ ~r.streamed /\ ~r.posted /\ ~r.caught
      /\ ~r.gaveUp /\ ~r.missed
  BY <1>1, <1>4, <1>6, <1>8 DEF Renderer, Mode
<1>10. ReplyTypes
  <2>1. turn \in ATurn /\ thread \in Thread /\ queue \in Seq(AnEvent)
    BY <1>2, <1>8 DEF ATurn, Thread
  <2> QED BY <1>1, <1>2, <1>9, <2>1 DEF ReplyTypes
<1>11. PlanInv
  <2>1. mode.hold /\ ~mode.tasks => p \in Waiting
    BY <1>1, <1>5
  <2> QED BY <1>1, <1>2, <1>5, <1>6, <1>7, <1>9, <2>1 DEF PlanInv
<1>12. EventInv
  BY <1>2, <1>8, <1>9 DEF EventInv, Ascends
<1>13. TextInv
  BY <1>2, <1>8, <1>9 DEF TextInv, Kept, InTurn, Ascends
<1>14. OutInv
  BY <1>2, <1>5, <1>6, <1>9 DEF OutInv
<1>15. OnceInv
  BY <1>2, <1>8, <1>9 DEF OnceInv, Unique, Fresh
<1>16. LingerInv
  <2>1. ~thread.status /\ p \notin {<<>>, <<"files">>}
    BY <1>2, <1>5
  <2> QED BY <1>9, <2>1 DEF LingerInv
<1> QED BY <1>10, <1>11, <1>12, <1>13, <1>14, <1>15, <1>16 DEF ReplyInv

\* One step per operation of the renderer and of the turn.
LEMMA ReplySteps == ReplyInv /\ [ReplyNext]_replyVars => ReplyInv'
<1> SUFFICES ASSUME ReplyInv, [ReplyNext]_replyVars PROVE ReplyInv'
  OBVIOUS
<1>1. CASE Turn
  BY <1>1, SayKeeps, CallToolKeeps, EndKeeps DEF Turn
<1>2. CASE Break
  BY <1>2, BreakKeeps
<1>3. CASE PressStop
  BY <1>3, PressStopKeeps
<1>4. CASE Handle \/ Over
  BY <1>4, HandleKeeps, OverKeeps
<1>5. CASE ShowStatus
  <2>1. SetStatus("status", TRUE, TRUE)
    BY <1>5 DEF ShowStatus
  <2> QED BY <2>1, StatusKeeps
<1>6. CASE Wipe
  <2>1. SetStatus("wipe", FALSE, TRUE)
    BY <1>6 DEF Wipe
  <2> QED BY <2>1, StatusKeeps
<1>7. CASE ClearNow
  <2>1. SetStatus("clear", FALSE, TRUE) /\ ~r.posted
    BY <1>7 DEF ClearNow
  <2> QED BY <2>1, StatusKeeps
<1>8. CASE SkipClear
  BY <1>8, SkipClearKeeps
<1>9. CASE Open \/ AppendText \/ Flushed
  BY <1>9, OpenKeeps, AppendTextKeeps, FlushedKeeps
<1>10. CASE Chunk \/ StopStream
  BY <1>10, ChunkKeeps, StopStreamKeeps
<1>11. CASE PostRest \/ Posted
  BY <1>11, PostRestKeeps, PostedKeeps
<1>12. CASE Files \/ Prompt \/ Update
  BY <1>12, FilesKeeps, PromptKeeps, UpdateKeeps
<1>13. CASE Rested \/ UNCHANGED replyVars
  BY <1>13, RestedKeeps DEF Rested
<1> QED BY <1>1, <1>2, <1>3, <1>4, <1>5, <1>6, <1>7, <1>8, <1>9, <1>10, <1>11, <1>12, <1>13
        DEF ReplyNext, Render, CallSlack

LEMMA ReplyAlways == ReplySpec => []ReplyInv
BY ReplyStarts, ReplySteps, PTL DEF ReplySpec

\* Of two tokens the earlier shows first.
LEMMA InOrder ==
  ASSUME ReplyInv, NEW i \in DOMAIN r.taken, NEW j \in DOMAIN r.taken, i < j,
         Range(r.taken) \subseteq Range(thread.shown)
  PROVE  First(r.taken[i]) < First(r.taken[j])
<1> TextInv /\ r \in Renderer /\ thread \in Thread /\ turn \in ATurn
  BY DEF ReplyInv, ReplyTypes
<1>1. r.taken \in Seq(Nat) /\ thread.shown \in Seq(Nat) /\ turn.said \in Nat
  BY DEF Renderer, Thread, ATurn
<1>2. /\ DOMAIN r.taken = 1..Len(r.taken) /\ DOMAIN thread.shown = 1..Len(thread.shown)
      /\ Len(r.taken) \in Nat /\ Len(thread.shown) \in Nat
  BY <1>1, LenProperties
<1>3. PICK x \in Nat, y \in Nat : x = r.taken[i] /\ y = r.taken[j]
  BY <1>1, <1>2, ElementOfSeq
<1>4. x < y /\ x # Note /\ y # Note /\ x \in Range(r.taken) /\ y \in Range(r.taken)
  <2>1. Ascends(r.taken, turn.said)
    BY DEF TextInv, Kept
  <2>2. x \in 1..turn.said /\ y \in 1..turn.said /\ x < y
    BY <1>2, <1>3, <2>1 DEF Ascends
  <2>3. x \in Range(r.taken) /\ y \in Range(r.taken)
    BY <1>1, <1>2, <1>3, RangeIs
  <2> QED BY <2>2, <2>3 DEF Note
<1>5. x \in Range(thread.shown) /\ y \in Range(thread.shown)
  BY <1>4
<1>6. ASSUME NEW z \in Range(thread.shown)
      PROVE  /\ First(z) \in 1..Len(thread.shown) /\ thread.shown[First(z)] = z
             /\ \A k \in 1..(First(z) - 1) : thread.shown[k] # z
  <2>1. \E k \in DOMAIN thread.shown : thread.shown[k] = z /\ \A h \in 1..(k - 1) : thread.shown[h] # z
    BY <1>1, <1>6, FirstExists
  <2> QED BY <1>2, <2>1 DEF First
<1>7. InTurn(thread.shown, {}, Range(r.taken))
  BY DEF TextInv, Kept
<1>8. PICK a \in 1..Len(thread.shown), b \in 1..Len(thread.shown) : a = First(x) /\ b = First(y)
  BY <1>5, <1>6
<1>9. thread.shown[b] = y
  BY <1>5, <1>6, <1>8
<1>10. PICK k \in 1..(b - 1) : thread.shown[k] = x
  BY <1>3, <1>4, <1>7, <1>9 DEF InTurn
<1>11. a <= k
  <2>1. \A h \in 1..(a - 1) : thread.shown[h] # x
    BY <1>5, <1>6, <1>8
  <2> QED BY <1>10, <2>1, <1>2
<1> QED BY <1>2, <1>3, <1>8, <1>10, <1>11

\* Nothing the renderer was given silently truncates (streamRender, renderOnce,
\* resumeRender in channels.ts): when it is done, and before it asks for an approval, all of
\* it shows, in the order the turn said it, unless the reader stopped it or what salvages
\* it failed too.
THEOREM RepliesAreWhole == ReplySpec => []NothingTruncates
<1>1. ReplyInv => NothingTruncates
  <2> SUFFICES ASSUME ReplyInv, Done \/ thread.asked, ~r.stopped, ~r.gaveUp
               PROVE  /\ \A i \in DOMAIN r.taken : r.taken[i] \in Range(thread.shown)
                      /\ \A i, j \in DOMAIN r.taken : i < j => First(r.taken[i]) < First(r.taken[j])
    BY DEF NothingTruncates
  <2> OutInv /\ r \in Renderer
    BY DEF ReplyInv, ReplyTypes
  <2>1. Done => r.plan \in Ending
    BY EndingPlans DEF Done
  <2>2. Range(r.taken) \subseteq Range(thread.shown)
    BY <2>1 DEF OutInv, Salvaged
  <2>3. r.taken \in Seq(Nat)
    BY DEF Renderer
  <2>4. DOMAIN r.taken = 1..Len(r.taken)
    BY <2>3, LenProperties
  <2>5. \A i \in DOMAIN r.taken : r.taken[i] \in Range(thread.shown)
    BY <2>2, <2>3, <2>4, RangeIs
  <2> QED BY <2>2, <2>5, InOrder
<1> QED BY <1>1, ReplyAlways, PTL

\* No token shows twice, whatever is refused, retried or salvaged (the buffer of
\* streamRender in channels.ts), unless Slack made a call whose answer was lost, or the
\* prompt of a parked turn threw.
THEOREM RepliesShowOnce == ReplySpec => []ShownOnce
<1>1. ReplyInv => ShownOnce
  <2> SUFFICES ASSUME ReplyInv, ~Twice,
                      NEW i \in DOMAIN thread.shown, NEW j \in DOMAIN thread.shown,
                      thread.shown[i] = thread.shown[j], thread.shown[i] # Note
               PROVE  i = j
    BY DEF ShownOnce, Twice
  <2>1. Fresh(thread.shown, {}) /\ thread \in Thread
    BY DEF ReplyInv, ReplyTypes, OnceInv
  <2>2. thread.shown \in Seq(Nat)
    BY <2>1 DEF Thread
  <2>3. DOMAIN thread.shown = 1..Len(thread.shown) /\ Len(thread.shown) \in Nat
    BY <2>2, LenProperties
  <2>4. ~(i < j) /\ ~(j < i)
    <3>1. ASSUME i < j PROVE FALSE
      BY <2>1, <2>3, <3>1 DEF Fresh
    <3>2. ASSUME j < i PROVE FALSE
      BY <2>1, <2>3, <3>2 DEF Fresh
    <3> QED BY <3>1, <3>2
  <2> QED BY <2>3, <2>4
<1> QED BY <1>1, ReplyAlways, PTL

\* Nothing provisional stays behind a renderer that is done, however it ended (clearStatus and
\* updateMessage in channels.ts, and the catch clauses that call them): neither "is thinking..."
\* nor the buttons or "Working..." of a prompt that was answered, unless Slack refused the post,
\* the upload or the status call that was to clear the line, or failed to update the message, or
\* the turn was cancelled.  A turn that failed and a link that broke are no excuse.
THEOREM NothingProvisionalStays == ReplySpec => []NothingLingers
<1>1. ReplyInv => NothingLingers
  <2> SUFFICES ASSUME LingerInv PROVE NothingLingers
    BY DEF ReplyInv
  <2>1. StatusCleared
    BY DEF LingerInv, StatusCleared, Done
  <2>2. PromptMovesOn
    BY DEF LingerInv, PromptMovesOn, Done
  <2> QED BY <2>1, <2>2 DEF NothingLingers
<1> QED BY <1>1, ReplyAlways, PTL

=============================================================================
