---------------------------- MODULE Announcements ----------------------------
(***************************************************************************)
(* What a session tells its host about parked input, at least once and in  *)
(* order: the outbox of packages/core/src/agent-runtime.ts and the two     *)
(* hosts that keep retrying, NativeRuntime (a timer per session) and       *)
(* AgentDurableObject (one alarm per object, whose latest schedule wins).  *)
(*                                                                         *)
(* One session with a hook installed.  An announcement is the number of    *)
(* its recording.  Of the session's turns only what matters here is kept:  *)
(* what is on the chain, whether a turn is parked, and the commits that    *)
(* record.  A held turn that is drained is a turn delivered later.  Calls  *)
(* may arrive at any await, also as a flush is ending; a call on a session *)
(* no actor is built for is Rebuild and then the call.  Delays are         *)
(* dropped: timer says only whether one is armed, and the alarm of which   *)
(* kind.                                                                   *)
(***************************************************************************)
EXTENDS Integers, Sequences

CONSTANTS
    Hosts,              \* the hosts to consider: "native", "durable"
    MaxAnnouncements,   \* bound: no turn is answered or held after so many
    MaxTurns,           \* bound: turns delivered
    MaxResets,          \* bound: calls of reset
    MaxFailures,        \* bound: hooks and archivals that throw
    MaxUnready,         \* bound: lives of a durable object that cannot open its resources
    MaxEarly,           \* bound: alarms that go off while something is on the chain
    MaxStops            \* bound: deaths and closes

ASSUME AnnouncementsAssumption ==
    /\ Hosts \subseteq {"native", "durable"}
    /\ MaxAnnouncements \in Nat /\ MaxTurns \in Nat /\ MaxResets \in Nat
    /\ MaxFailures \in Nat /\ MaxUnready \in Nat /\ MaxEarly \in Nat /\ MaxStops \in Nat

VARIABLES
    host,           \* which host this is; never changes
    \* the store, which survives a death
    outbox,         \* the "announce-outbox" step
    checkpoint,     \* is there a "suspended" step?
    suspended,      \* is the status "suspended"?
    timer,          \* the alarm of the object (durable), the retry timer (memory)
    \* the process
    mode,           \* "up", "closing" once close() was called, "down"
    live,           \* is there an actor for the session?
    inbox,          \* its promise chain; the head may be in progress
    pc,             \* where the turn at the head stands
    pendingReset,
    flush,          \* flushing and flushAgain; the entry handed to the hook
    inHook,         \* how many calls of the hook have not returned
    alarmRunning,   \* the platform waits for alarm() to return
    resources,      \* ready() of a durable object: "unopened", "open", "failed"
    \* bookkeeping: what was recorded, what the hook has acknowledged, the bounds
    recorded, told, used

park     == <<checkpoint, suspended>>
chain    == <<inbox, pc, pendingReset>>
process  == <<mode, live, resources>>
delivery == <<flush, inHook, alarmRunning>>
history  == <<recorded, told>>
vars == <<host, outbox, park, timer, process, chain, delivery, history, used>>

Count(what) == used' = [used EXCEPT ![what] = @ + 1]
Within(what, bound) == used[what] < bound

NoFlush == [stage |-> "none", head |-> 0, again |-> FALSE]
-----------------------------------------------------------------------------
Init ==
    /\ host \in Hosts
    /\ outbox = << >> /\ checkpoint = FALSE /\ suspended = FALSE /\ timer = "none"
    /\ mode = "up" /\ live = FALSE /\ resources = "unopened"
    /\ inbox = << >> /\ pc = "idle" /\ pendingReset = FALSE
    /\ flush = NoFlush /\ inHook = 0 /\ alarmRunning = FALSE
    /\ recorded = 0 /\ told = {}
    /\ used = [turns |-> 0, resets |-> 0, failures |-> 0, unready |-> 0, early |-> 0,
               stops |-> 0]

(* The outbox and its delivery.                                            *)

\* Mutant: the entry is numbered before it is counted.
RecordEarly ==
    /\ recorded' = recorded + 1
    /\ outbox' = Append(outbox, recorded)

\* recordAnnouncement(), in the caller's transaction.
Record ==
    /\ recorded' = recorded + 1
    /\ outbox' = Append(outbox, recorded + 1)

\* The outbox once the entry a is removed.
Without(a) ==
    LET i == CHOOSE k \in DOMAIN outbox : outbox[k] = a
    IN  SubSeq(outbox, 1, i - 1) \o SubSeq(outbox, i + 1, Len(outbox))

\* A pass begins with entry a, knowing whether it has already been joined.
Hand(a, again) ==
    /\ flush' = [stage |-> "calling", head |-> a, again |-> again]
    /\ inHook' = inHook + 1

\* flushAnnouncements(), over the outbox the step leaves: a flush in flight is
\* joined and goes round once more; an empty outbox is left alone.
FlushAnnouncements ==
    \/ flush.stage # "none" /\ flush' = [flush EXCEPT !.again = TRUE] /\ UNCHANGED inHook
    \/ flush.stage = "none" /\ outbox' = << >> /\ UNCHANGED <<flush, inHook>>
    \/ flush.stage = "none" /\ outbox' # << >> /\ Hand(Head(outbox'), FALSE)

\* A new actor is flushed as it is built, and again if the caller flushes it.
FlushOnBuild(again) ==
    IF outbox = << >> THEN UNCHANGED <<flush, inHook>> ELSE Hand(Head(outbox), again)

\* A durable object opens its resources once in a life; having failed, they stay so.
Ready == resources # "failed"
         /\ resources' = IF host = "durable" THEN "open" ELSE resources

PassEnds == flush' = [flush EXCEPT !.stage = "ending", !.head = 0] /\ inHook' = inHook - 1

\* The hook returns: the entry is removed and the next one handed over.  The
\* native host drops its retry.
HookReturns ==
    /\ flush.stage = "calling" /\ Ready
    /\ told' = told \cup {flush.head}
    /\ outbox' = Without(flush.head)
    /\ timer' = IF host = "native" THEN "none" ELSE timer
    /\ \/ outbox' = << >> /\ PassEnds
       \/ outbox' # << >> /\ flush' = [flush EXCEPT !.head = Head(outbox')]
          /\ UNCHANGED inHook
    /\ UNCHANGED <<host, park, mode, live, chain, alarmRunning, recorded, used>>

\* Mutant: the entry that failed goes to the end of the line.
HookFailsAndYields ==
    /\ flush.stage = "calling" /\ Ready
    /\ Within("failures", MaxFailures) /\ Count("failures")
    /\ timer' = IF host = "durable" \/ mode = "up" THEN "retry" ELSE timer
    /\ outbox' = Append(Without(flush.head), flush.head)
    /\ PassEnds
    /\ UNCHANGED <<host, park, mode, live, chain, alarmRunning, history>>

\* The hook throws: the entry is kept and tried again later, unless the native
\* runtime is closing.
HookFails ==
    /\ flush.stage = "calling" /\ Ready
    /\ Within("failures", MaxFailures) /\ Count("failures")
    /\ timer' = IF host = "durable" \/ mode = "up" THEN "retry" ELSE timer
    /\ PassEnds
    /\ UNCHANGED <<host, outbox, park, mode, live, chain, alarmRunning, history>>

\* The durable object's hook awaits ready() before the try that schedules the
\* retry.
NotReady ==
    /\ host = "durable" /\ flush.stage = "calling"
    /\ \/ resources = "failed" /\ UNCHANGED used
       \/ resources = "unopened" /\ Within("unready", MaxUnready) /\ Count("unready")
    /\ resources' = "failed"
    /\ PassEnds
    /\ UNCHANGED <<host, outbox, park, timer, mode, live, chain, alarmRunning, history>>

\* Mutant: a call that joined the pass is forgotten.
EndFlushAlone ==
    /\ flush.stage = "ending"
    /\ flush' = NoFlush /\ alarmRunning' = FALSE
    /\ UNCHANGED <<host, outbox, park, timer, process, chain, inHook, history, used>>

\* The pass is over, with or without an error: whoever joined it gets another.
\* alarm() returns with the last one.
EndFlush ==
    /\ flush.stage = "ending"
    /\ \/ flush.again /\ outbox # << >> /\ Hand(Head(outbox), FALSE) /\ UNCHANGED alarmRunning
       \/ /\ ~flush.again \/ outbox = << >>
          /\ flush' = NoFlush /\ alarmRunning' = FALSE /\ UNCHANGED inHook
    /\ UNCHANGED <<host, outbox, park, timer, process, chain, history, used>>
-----------------------------------------------------------------------------
(* Calls on the session and what runs on its chain.                        *)

\* A read, or the first half of a call, on a session nobody holds.
Rebuild ==
    /\ mode = "up" /\ ~live
    /\ live' = TRUE
    /\ FlushOnBuild(FALSE)
    /\ UNCHANGED <<host, outbox, park, timer, mode, resources, chain, alarmRunning,
                   history, used>>

\* Mutant: the watchdog is left out.
Unarmed == UNCHANGED timer

\* The durable host arms its watchdog before the commit.
ArmWatchdog == timer' = IF host = "durable" THEN "watchdog" ELSE timer

\* A turn is delivered, or a held one drained.  The /turn route arms the
\* watchdog whatever comes of the turn; the methods of a custom shell do not.
StartTurn ==
    /\ live /\ Ready /\ Within("turns", MaxTurns) /\ Count("turns")
    /\ ArmWatchdog \/ UNCHANGED timer
    /\ inbox' = Append(inbox, "turn")
    /\ UNCHANGED <<host, outbox, park, mode, live, pc, pendingReset, delivery, history>>

\* A turn is held behind the park.
Hold ==
    /\ live /\ Ready /\ suspended /\ checkpoint /\ ~pendingReset
    /\ recorded < MaxAnnouncements
    /\ ArmWatchdog
    /\ Record
    /\ FlushAnnouncements
    /\ UNCHANGED <<host, park, mode, live, chain, alarmRunning, told, used>>

\* An authorised answer; the continuation goes on the chain.
Resume ==
    /\ live /\ Ready /\ checkpoint /\ ~pendingReset
    /\ recorded < MaxAnnouncements
    /\ ArmWatchdog
    /\ checkpoint' = FALSE /\ suspended' = FALSE
    /\ Record
    /\ inbox' = Append(inbox, "turn")
    /\ FlushAnnouncements
    /\ UNCHANGED <<host, mode, live, pc, pendingReset, alarmRunning, told, used>>

\* Resets that overlap are left out.
Reset ==
    /\ live /\ ~pendingReset /\ Within("resets", MaxResets) /\ Count("resets")
    /\ ArmWatchdog
    /\ pendingReset' = TRUE
    /\ inbox' = Append(inbox, "reset")
    /\ UNCHANGED <<host, outbox, park, process, pc, delivery, history>>

AtHead(op) == pc = "idle" /\ inbox # << >> /\ Head(inbox) = op

\* turn.started, which the durable host takes as its cue to arm the watchdog.
TurnStarts ==
    /\ AtHead("turn")
    /\ pc' = "running" /\ suspended' = FALSE
    /\ ArmWatchdog
    /\ UNCHANGED <<host, outbox, checkpoint, process, inbox, pendingReset, delivery,
                   history, used>>

\* The turn is refused over a park, or cancelled before it begins.
TurnEndsEarly ==
    /\ AtHead("turn")
    /\ pc' = "settling"
    /\ UNCHANGED <<host, outbox, park, timer, process, inbox, pendingReset, delivery,
                   history, used>>

\* It completes, fails or is cancelled.
TurnEnds ==
    /\ pc = "running"
    /\ pc' = "settling"
    /\ UNCHANGED <<host, outbox, park, timer, process, inbox, pendingReset, delivery,
                   history, used>>

\* It parks; the announcement commits with the checkpoint.  A replay of a turn
\* that is already parked records neither.
TurnParks ==
    /\ pc = "running"
    /\ pc' = "settling" /\ suspended' = TRUE
    /\ IF checkpoint THEN UNCHANGED <<outbox, checkpoint, recorded>>
       ELSE checkpoint' = TRUE /\ Record
    /\ UNCHANGED <<host, timer, process, inbox, pendingReset, delivery, told, used>>

\* settle() flushes.
Settle ==
    /\ pc = "settling"
    /\ pc' = "idle" /\ inbox' = Tail(inbox)
    /\ UNCHANGED outbox /\ FlushAnnouncements
    /\ UNCHANGED <<host, park, timer, process, pendingReset, alarmRunning, history, used>>

\* Mutant: the outbox is archived with the other steps.
ArchiveAll ==
    /\ AtHead("reset")
    /\ inbox' = Tail(inbox) /\ pendingReset' = FALSE
    /\ checkpoint' = FALSE /\ suspended' = FALSE
    /\ outbox' = << >> /\ UNCHANGED recorded
    /\ FlushAnnouncements
    /\ UNCHANGED <<host, timer, process, pc, alarmRunning, told, used>>

\* The archival carries the outbox over, and says that it retires a park.
Archive ==
    /\ AtHead("reset")
    /\ inbox' = Tail(inbox) /\ pendingReset' = FALSE
    /\ checkpoint' = FALSE /\ suspended' = FALSE
    /\ IF suspended /\ checkpoint THEN Record ELSE UNCHANGED <<outbox, recorded>>
    /\ FlushAnnouncements
    /\ UNCHANGED <<host, timer, process, pc, alarmRunning, told, used>>

ArchiveFails ==
    /\ AtHead("reset") /\ Within("failures", MaxFailures) /\ Count("failures")
    /\ inbox' = Tail(inbox) /\ pendingReset' = FALSE
    /\ UNCHANGED <<host, outbox, park, timer, process, pc, delivery, history>>
-----------------------------------------------------------------------------
(* The hosts.                                                              *)

\* Mutant: an actor is idle when no turn is on its chain.
NoTurnOnChain == inbox = << >>

\* idle(): no turn runs or is queued, no reset is pending (the chain is empty) and no
\* delivery is in flight.
IsIdle == inbox = << >> /\ flush.stage = "none"

\* The native host drops an idle actor.
Evict ==
    /\ host = "native" /\ live /\ IsIdle
    /\ live' = FALSE /\ flush' = NoFlush
    /\ UNCHANGED <<host, outbox, park, timer, mode, resources, chain, inHook, alarmRunning,
                   history, used>>

\* A retry or the alarm flushes the actor, which it builds if there is none.
Wake ==
    /\ timer' = "none" /\ live' = TRUE
    /\ UNCHANGED outbox
    /\ IF live THEN FlushAnnouncements ELSE FlushOnBuild(TRUE)

\* The timer of AnnouncementRetry.
RetryFires ==
    /\ host = "native" /\ timer # "none"
    /\ Wake
    /\ UNCHANGED <<host, park, mode, resources, chain, alarmRunning, history, used>>

\* The object's alarm, one at a time.
AlarmFires ==
    /\ host = "durable" /\ timer # "none" /\ ~alarmRunning
    /\ \/ inbox = << >> /\ UNCHANGED used
       \/ inbox # << >> /\ Within("early", MaxEarly) /\ Count("early")
    /\ Wake
    /\ alarmRunning' = (flush'.stage # "none")
    /\ UNCHANGED <<host, park, mode, resources, chain, history>>

\* The memory of the process is gone.
Lost ==
    /\ live' = FALSE /\ inbox' = << >> /\ pc' = "idle" /\ pendingReset' = FALSE
    /\ flush' = NoFlush /\ inHook' = 0 /\ alarmRunning' = FALSE /\ resources' = "unopened"

\* The process dies, or the platform drops the object.  An alarm cut short is
\* run again by the platform.
Die ==
    /\ mode # "down" /\ Within("stops", MaxStops) /\ Count("stops")
    /\ Lost
    /\ \/ host = "native" /\ mode' = "down" /\ timer' = "none"
       \/ host = "durable" /\ UNCHANGED mode
          /\ timer' = IF alarmRunning /\ timer = "none" THEN "retry" ELSE timer
    /\ UNCHANGED <<host, outbox, park, history>>

\* NativeRuntime.close(): the retry is cancelled for good...
Close ==
    /\ host = "native" /\ mode = "up" /\ Within("stops", MaxStops) /\ Count("stops")
    /\ mode' = "closing" /\ timer' = "none"
    /\ UNCHANGED <<host, outbox, park, live, resources, chain, delivery, history>>

\* ...and the actors dropped once they are idle.
Closed ==
    /\ mode = "closing" /\ (live => IsIdle)
    /\ mode' = "down" /\ live' = FALSE /\ flush' = NoFlush
    /\ UNCHANGED <<host, outbox, park, timer, resources, chain, inHook, alarmRunning,
                   history, used>>

\* createNativeRuntime() over the same database builds every session whose
\* outbox is not empty.
Restart ==
    /\ mode = "down"
    /\ mode' = "up" /\ live' = (outbox # << >>)
    /\ FlushOnBuild(FALSE)
    /\ UNCHANGED <<host, outbox, park, timer, resources, chain, alarmRunning, history, used>>

\* Nothing runs and nobody calls.
Rest == flush.stage = "none" /\ inbox = << >> /\ UNCHANGED vars
-----------------------------------------------------------------------------
Engine ==
    \/ HookReturns \/ HookFails \/ NotReady \/ EndFlush
    \/ TurnStarts \/ TurnEndsEarly \/ TurnEnds \/ TurnParks \/ Settle
    \/ Archive \/ ArchiveFails \/ Closed

Call == Rebuild \/ StartTurn \/ Hold \/ Resume \/ Reset \/ Evict \/ Close

Next == Engine \/ Call \/ RetryFires \/ AlarmFires \/ Die \/ Restart \/ Rest

Spec == Init /\ [][Next]_vars

\* What has begun goes on, hooks return or throw, timers and alarms go off, and
\* a native runtime is created again.
FairSpec == Spec /\ WF_vars(Engine) /\ WF_vars(RetryFires \/ AlarmFires) /\ WF_vars(Restart)
-----------------------------------------------------------------------------
(* Properties.                                                             *)

\* Every variable holds a value of its type.
TypeOK ==
    /\ host \in Hosts
    /\ outbox \in Seq(1..recorded)
    /\ checkpoint \in BOOLEAN /\ suspended \in BOOLEAN
    /\ timer \in {"none", "retry", "watchdog"}
    /\ mode \in {"up", "closing", "down"} /\ live \in BOOLEAN
    /\ resources \in {"unopened", "open", "failed"}
    /\ inbox \in Seq({"turn", "reset"}) /\ pc \in {"idle", "running", "settling"}
    /\ pendingReset \in BOOLEAN
    /\ flush \in [stage : {"none", "calling", "ending"}, head : Nat, again : BOOLEAN]
    /\ inHook \in Int /\ alarmRunning \in BOOLEAN
    /\ recorded \in Nat /\ told \subseteq 1..recorded
    /\ used \in [turns : Nat, resets : Nat, failures : Nat, unready : Nat, early : Nat,
                 stops : Nat]

\* No announcement is lost, whatever dies, throws, is evicted or reset: the
\* hook has acknowledged it or it is still in the outbox.
NothingLost == 1..recorded \subseteq told \cup {outbox[i] : i \in DOMAIN outbox}

\* In order: the hook is called with an announcement only when every earlier
\* one has been acknowledged.
InOrder == flush.stage = "calling" => 1..flush.head-1 \subseteq told

\* The hook never has two calls in flight for one session of one process, so
\* that an entry cannot be handed over twice in parallel (idle(), #260).
OneHandover == inHook = IF flush.stage = "calling" THEN 1 ELSE 0

\* The two cases the durable host does not handle: an alarm that goes off while a
\* turn may still record (it is the object's only one, and nothing arms another),
\* and resources that cannot be opened (the hook rejects outside its retry).
Timely == used.early = 0 /\ used.unready = 0

\* An entry in the outbox has somebody to deliver it, should the session go
\* quiet: on the native host a flush, a settlement about to flush or a retry; on
\* a durable object, which may be dropped at any moment, its alarm.
SomeoneDelivers ==
    Timely /\ outbox # << >> =>
        \/ host = "durable" /\ (timer # "none" \/ alarmRunning)
        \/ host = "native" /\ \/ mode # "up" \/ timer # "none"
                              \/ flush.stage # "none" \/ pc = "settling"

\* Liveness: every announcement is acknowledged in the end.
AllTold == \A a \in 1..MaxAnnouncements : recorded >= a ~> (a \in told \/ ~Timely)
=============================================================================
