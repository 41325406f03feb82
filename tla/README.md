# TLA+ specifications of June

June (`packages/`) is a React framework for building agents into web apps. Its core logic, and
the part that is hard to test, is the **durable agent session**: a conversation whose turns
call models and tools, park on a person's answer, and survive restarts. Around it stand
components whose difficulty is the same, several actors and an unreliable world: the outbox of
announcements, the live streams of a turn, the Slack channel, the MCP client, the cache, the
shared database connection and its migrations, the client routers. This directory models them,
checks them with TLC and proves their safety properties with TLAPS.

Short names of files: `AR` is `packages/core/src/agent-runtime.ts`, `NAT` is
`packages/june/src/agent-native.ts`, `DUR` is `packages/june/src/agent-durable.ts`, `CH` is
`packages/core/src/channels.ts`.

## Inventory

| component | source | state | operations | hard behaviour | modules |
|---|---|---|---|---|---|
| turn engine | `AR` 574–973 | none of its own: it replays a turn from the store's log and steps | open, ask the model, run a tool, park, cancel, complete, fail | a crash between any two commits, a cancel at any await, notes in the middle of a batch | `AgentSession` |
| session actor | `AR` 1109–1642 | promise chain, running map, cancel requests, `pendingReset` | start, hold, drain, release, cancel, replace, resume, note, reset, idle | calls at any await; guards read at start and acted on later | `AgentSession` |
| session store | `AR` 261–286, both SQL stores | messages, steps, status, archive | append, steps, `tx`, reset | what one transaction holds decides what a crash can separate | `AgentSession` |
| native host | `NAT` 225–345 | LRU of actors over one SQLite handle, retries | `session`, `evictIdle`, `close`, recovery | an actor dropped while something still refers to it | `AgentSession`, `Announcements` |
| Durable Object host | `DUR` | one session, its key, one alarm | routes, `alarm`, delivered turns | eviction, one alarm with several purposes | `Announcements`, `SlackInbound` |
| announcement outbox | `AR` 438–463, 1484–1522, 1550–1563 | the outbox step, `flushing`, `flushAgain` | record, flush, deliver, carry over a reset | at least once, in order, across crashes, with failing hooks | `Announcements` |
| turn event streams | `turn-events.ts`, `AR` 1262–1309, `DUR` 184–188 | subscribers, buffers | `withTerminal`, `observeTurnEvents`, `sseTurnStream` | each consumer must see one terminal event | `TurnStream` |
| turn ids | `AR`, `mintTurnId` | last time and random block | mint | a clock that stands still or steps back, a block that overflows | `TurnIds` |
| Slack channel | `CH` | a renderer's buffers; events an isolate has seen | webhook, render, approve, resume | redeliveries, lost answers, Stop at any moment, a broken stream | `SlackInbound`, `SlackReply` |
| cache | `core/src/cache.ts`, `instrumentation.ts` | entries, tag index, revalidations | `cache`, `invalidate` | a value computed before an invalidation and stored after it | `Cache` |
| database | `june/src/*-driver.ts`, `migrate.ts` | a connection, the ledger | run, transaction, migrate | a shared connection, a kill between a script and its ledger row | `Database` |
| client navigation | `core/src/client-router*.ts`, `client-live.ts` | history, generation, last page | click, popstate, live update | overlapping navigations, late answers | `Navigation` |
| MCP client | `core/src/mcp-client.ts` | era, sessions per credential | probe, handshake, call, restart | shared handshakes that fail, sessions that expire under several calls | `McpClient` |
| routing | `june/src/router.ts`, `route-rank.ts`, `route-scan.ts`, `worker.ts` | none | match | two algorithms that must agree | `Routing` |
| the rest | pipeline, build, deploy, MCP server, connections, i18n, images, PDF, Juno's compiler, the Rust runtime | mostly none | | request and response transformation, file and network I/O | not modelled |

A host receives a message (HTTP, Slack, Crisp, an alarm), asks its runtime for the actor of
that session and calls `start`. The actor puts a run on its promise chain; `runTurn` replays
the turn over the store, calls the model and tools, and commits each result in one transaction
with its message. Events go to the sink, and from there to the streams of whoever watches; a
turn that parks ends its run and leaves a checkpoint; `resume` stores the answer and puts a
continuation on the chain. Every settle flushes announcements, releases the turn if it was held
and drains the next held one. Hosts drop idle actors and rebuild them from the store. A tool of
a turn may call an MCP server, an action writes tables and then invalidates the cache, and a
Slack renderer turns the stream of a turn into calls of Slack's API.

What makes these correct: the log stays one a provider accepts; steps and log agree after any
crash; a synchronous tool takes effect once; a turn opens once; nothing gets between a parked
call and its answer; held turns keep their order and do run; the hook learns of everything, in
order; every run ends with one terminal event and nobody waits for one that does not come; a
reply is shown whole and once; an event is handled once; a call keeps to its own credential's
session and is carried out once; a cached value is not older than its table; the ledger tells
the truth; the page shown is the page asked for last; and both resolvers find the same route.

## Modules

Definitions marked "Mutant" in a module are plausible bugs, used to see that each property can
fail. Bounds are the constants named `Max...`; they appear in guards only.

### The session: `AgentSession`, `Conversation`, `SessionConversation`, `MCSession`

`AgentSession` is the turn engine and the actor over one store. The store's variables (`log`,
`modelSteps`, `toolSteps`, `answers`, `park`, `status`, `held`, `heldNotes`, `initiator`,
`generation`) survive `Crash` and `Evict`; the actor's (`inbox`, `cancels`, `pendingReset`,
`live`, `pc`) do not. An action is the code between two awaits:

| code | action |
|---|---|
| `start` that holds / that begins | `StartHolds`, `StartBegins` (with the `drain` each makes) |
| `cancel`, `resume`, `note`, `reset` | `Cancel`, `Resume`, `Note` + `RunNote`, `Reset` + `RunReset` or `ResetFails` |
| building / evicting the actor | `Rebuild`, `Evict` |
| the run-time guard, early cancel, opening | `RefuseOverPark`, `CancelEarly`, `OpenTurn` |
| the turn loop | `Complete`, `CancelToolBatch`, `ReleaseHeldNotes`, `CancelBeforeModel`, `AskModel` |
| `modelStep` | `AskModel`, then `ModelReplies`, `ModelCancelled` or `ModelFails` |
| `toolStep` | `LocalTool`, `LocalToolThrows`; `RemoteTool`, then `RemoteReturns`, `RemoteThrows` or `RequestInput`; `FatalTool` |
| the park transaction | `ParkTurn` |
| `track`'s settle (clear, release, drain) | `Settle` |

`pc` is where the head of the chain stands. A request of a host runs while the engine awaits a
model or a tool or is at rest (`HostMayCall`); code inside the process may also run in the
microtasks between (`InlineCallers`). `used` counts what the bounds limit; `ran` and `twice`
record the effects of synchronous tools. Texts, tool results, reasons and host context are
dropped: a message keeps its role, its turn and its calls. Policies (`deniedTools`, overlays)
appear only as `FatalCalls`, the calls a turn cannot dispatch. The opening's transaction and
the `setStatus("running")` after it are one step: only "suspended" is ever read back.

`Conversation` is what a session promises of its transcript, without how: who opened and who
speaks (`opened`, `speaker`, `voice`, `final`), that every call `owed` gets its result before
anything else is said, the `seat`, the reset. `SessionConversation` reads these off the log and
states that `AgentSession` implements it (`IsConversation`).

### The outbox: `Announcements`

The announcement outbox of one session and the hosts that retry it. `host` says which of the
two hosts it is; the store (`outbox`, the park) and the alarm of a Durable Object survive `Die`,
everything else is the process. Of a turn only its place on the chain and its commits that
record are kept. `Record` is in `Hold`, `Resume`, `TurnParks` and `Archive`;
`FlushAnnouncements` is joined or begun in `Hold`, `Resume`, `Settle`, `Archive` and the
retries; `HookReturns`, `HookFails` and `NotReady` are `deliverOutbox` with each host's wrapper
of the hook; `EndFlush` the end of a pass; `RetryFires` and `AlarmFires` the two ways of
retrying; `ArmWatchdog` is in the actions that arm it; `Evict`, `Close`, `Closed`, `Restart`
and `Die` are the ways an actor or a process goes. `used.early` counts alarms that went off
while a turn ran, `used.unready` lives of an object that could not open its resources; `Timely`
says neither happened. An announcement is the number of its recording; delays are dropped;
a commit that removes an entry does not fail; `setAlarm` works. A Durable Object's alarm that
is cut short is run again, as the platform documents.

### The live events: `TurnIds`, `TurnStream`, `MCTurnStream`

`TurnIds` is `mintTurnId`: a monotonic ULID over a clock that may stand still or step back,
with the width of the random block as a constant, so that it overflows. `TurnStream` extends it
with the events `runTurn`, `begin` and `resume` emit, `withTerminal`, `track`'s settlement and
two kinds of consumer: the iterator of `turn-events.ts` and the server-sent events of a Durable
Object. The run of a turn is abstract, it ends at any point in one of the ways `runTurn` ends;
`Send`, `Redeliver`, `Answer` and `Cancel` come at any await. Replay is folded into the live
events, a heartbeat is left out, and a crash takes its streams with it, so it is not modelled.
Left as the code has it: a slow iterator may see the first events of a continuation after the
terminal event of the run before.

### Slack: `SlackReply`, `SlackInbound`, `MCSlackInbound`

`SlackReply` is a turn's reply. The three renderers (`streamRender`, `renderOnce`, `resumeRender`)
are lists of the calls and reads still to make; a call that throws replaces the list by that of
its catch clause (`StreamCatch`, `OnceCatch`, `ResumeCatch`). Text is a sequence of tokens, a note
("the turn failed") one token more. `Break` cuts the stream or drops it (`sseTurnEvents` ends
silently when cut), `PressStop` is the reader's, `Slack` may refuse a call, throw, or make it and
lose the answer. As in the code, a refusal of `postMessage` is not looked at, the tail kept after
a fallback post is not cleared, and a stop of the stream that throws after the whole reply adds
the note of a failure.

`SlackInbound` is what reaches the webhook: events that Slack sends again until it sees a 2xx,
to isolates that remember `Cap` of them and may be recycled, and clicks on the buttons of an
approval. The host of the turn delivers, refuses to (501) or only streams. Layout, signatures,
files beyond their outcome and the other adapters (HTTP, Crisp) are left out. Another isolate, or
one that was recycled or forgot, answers an event again: `HandledOnce` is about an isolate that
remembers.

### `McpClient`, `MCMcpClient`

One client whose calls, for several credentials, share a verdict on the server's era and, with a
legacy server, one session per credential: the probe (`Request`, `Discovered`, `Rejected`,
`Refused`, `TryLegacy`, `Settled`), the handshake (`Shake`, `ShakeFails`), a legacy call
(`Enter`, `Post`, `Reply`, `Gone`, `Lost`) and a modern one (`Send`, `Complete`, `Broken`,
`InputRequired`). Server and network are external: an answer comes or fails in one step, a
session may be forgotten at any time (`Expire`).

### `Cache`, `MCCache`

`cache()` with its background refresh, both stores at the granularity of their awaits, the
request trace that decides an entry's tags, and the invalidation at the end of an action. A
value is the version of the one table its key's function reads; time is the age of an entry.
`crossed` and `dirty` record two of the three exceptions of `Coherent`: a fill that overlapped
an invalidation, until the key is computed anew, and an action that threw after its writes,
until the table is invalidated again. The third is an entry without its table's tag.

### `Database`

`asyncSqlite`, whose requests share one connection, transactions included, and `migrate()` in
processes that open one each and may be killed at any point. A plain write of another request
that finds a transaction open joins it, and is rolled back with it. A kill between a script and
its ledger row makes a migration that cannot run twice (`Once`) fail loudly from then on, and
runs a repeatable one twice. The postgres, mysql and turso drivers have transactions of the
same shape over connections of their own; D1's migrations record inline (`d1-migrate.ts`
152–154). BEGIN is deferred, SQLite's lock is external.

### `Navigation`, `Routing`, `MCNavigation`

`Navigation` is the page a reader is on: both client routers (`router` is "morph" or "flight"),
clicks, traversals, redirects, failing fetches, view transitions, and the live update of the
development server. The browser is external: its history, its popstate events, a load of a
document in one step. `astray` marks the two ways the code has of going astray.

`Routing` is the pure part of the server: the walk of the app directory that `june dev` makes
for a request (`MatchRouteTree`) and the sorted table of the built worker (`CompilePattern`,
`TableOrder`, `WorkerResolves`), with what the build refuses. Names and texts are numbers in
their order; a route group is not part of a path; files of layouts and boundaries are left out.

## Runs

| run | instance | what it shows | states |
|---|---|---|---|
| `session_calm` | 3 turns (2 that queue, 1 that replaces), batches of two calls, 1 note, 1 cancel, 2 resets, evictions at any time; no crash, failure or redelivery | a provider-clean log; at rest, parks that can be answered and held turns behind a park only (`AtRest`); idle actors that can be dropped; own replies; nobody gets past a park; held turns in order; the refinement of `Conversation` | 587,625 |
| `session_rough` | 2 turns delivered twice, callers in the microtasks, a local, a parking and a fatal call, 1 reset, 1 failure, 1 crash | what the store promises whatever happens: steps match the log, local effects and openings at most once, the seat | 689,130 |
| `session_lively` | 3 turns, 2 parks, 1 note, 1 failure, fairness | turns settle, held turns run, held notes join | 42,880 |
| `announce` | both hosts; 3 announcements, 2 turns, 1 reset, 2 failures, 1 life that cannot open its resources, 1 early alarm, 2 deaths or closes, evictions at any time, fairness | nothing recorded is lost, the hook gets announcements in order and never two calls at once; if `Timely`, an entry always has a flush, a timer or an alarm, and is delivered in the end | 320,759 |
| `navigation` | both routers, 3 moves, 1 failing fetch, 1 live update, fairness | the page shown is the one of the location, the page asked for last wins and is shown in the end; and, as assumptions of its module, the agreement of the two resolvers | 360,690 |
| `mcp` | a modern, a legacy and a dual server; two calls of one credential and one of another; 2 expired sessions, 1 fault, fairness | a call is posted under a session of its own credential, handshakes are shared however many calls meet a 404, a call is carried out once, returns | 307,303 |
| `cache` | both stores, two requests, two keys of one table, 2 writes, 2 reads each, 1 failure, fairness | at rest an entry is not older than its table, but for the named exceptions; a refresh ends | 249,039 |
| `slack_reply` | the three renderers, two tokens, a tool, 2 failures, 1 Stop, fairness | what is shown is the reply, whole and once; no status or prompt is left behind; a render ends | 815,400 |
| `slack_inbound` | two events or two clicks, up to two deliveries each, two isolates that remember one event, 1 failure, 1 recycled isolate, three kinds of host | an event is handled once where its host can know; none is dropped that Slack would not send again; a refused answer keeps its buttons | 935,486 |
| `turn_stream` | two turns, a redelivery, an answer, one consumer of either kind, 1 failure | one terminal event per run; a consumer that was there from the start sees the whole run; nobody waits for a run that is over; ids increase | 5,429,433 |
| `database` | two transactions and a writer on one connection; two processes, three migrations of two statements, one destructive and one not repeatable, 3 runs, 2 failures | the ledger lists what was run, files run in order, a transaction is all or nothing | 3,262,375 |
| `bricked_approval` | a task chunk opens the stream, the reader presses Stop, a later append is refused, then the turn asks for an approval | violated: the approval is rendered nowhere and its failure not reported | |

**Bounds.** Three turns are the least for an order among held turns behind a parked one; two
calls per batch the least for a call before and after the one that parks, is cancelled or is
fatal; two batches the least for a turn that parks twice, or for two turns that park. One
crash, cancel, note and failure each meet every interleaving of the rest; two resets are one
overtaking another; two deliveries of a turn are a delivery and its redelivery. For the outbox,
two announcements are the least for an order and three leave one to be recorded while an earlier
one is in the hook's hands and another waits; two failures are one in a flush and one in its
retry; two stops are a close and a death of the runtime that follows it. Three moves are a click,
one that overtakes it and a traversal back over both. Two calls of one credential and one of
another are the least for a shared handshake next to a stranger's; two keys of one table are
the least for an index with a row that outlives one of its entries. Two tokens are the least for
a prefix that is neither empty nor all. Two isolates are the least for one that has not seen an
event; a capacity of one makes the memory of events overflow on the second. Consumers of a
stream influence neither each other nor the run, so one stands for any number; an id of two
digits of which each takes two values overflows after four draws. Deadlock is checked
everywhere but in `turn_stream` and `database`, where everybody may be finished or killed:
elsewhere `Rest`, a step that changes nothing once nothing is under way, keeps a system nobody
calls from counting as one, and an engine that could not go on in the middle of its work would be
found.

`session_calm` is checked for hosts that call from the event loop, without crashes, failures or
fatal calls, and `announce` asks its two delivery properties of `Timely` behaviours only; the
table of the next section says what happens otherwise.

**Fairness.** `AgentSession!FairSpec` has weak fairness of `Engine` — the event loop keeps
running what was begun, model providers and tools return or throw (June sets no timeout of its
own; a provider that never returns holds its session) — and of an answer to a parked turn.
Nothing is assumed of `start`, `note`, `cancel`, `reset`, of evictions or of crashes. Liveness is
checked without crashes: after one, an interrupted turn waits for its redelivery.
`Announcements!FairSpec` has weak fairness of its `Engine` (hooks return or throw, flushes end,
the chain runs on, `close()` polls), of the timer or alarm once armed, and of `Restart`: a native
runtime that is down is created again, which is when the guide promises its leftovers. In
`Navigation`, `McpClient`, `Cache` and `SlackReply` what was begun goes on: each fetch, request,
call of a store and call of Slack's API returns or throws, since a client's or a server's
`await` is not abandoned. Clicks, expiries, failures and readers are never fair, and failures are
bounded. `Database`, `TurnStream` and `SlackInbound` are checked for safety only.

## Where a comment or the guide says more than the code

`bricked_approval` is a run of its own. A renderer learns of Stop from the next append, which
Slack refuses (`CH` 620, 648); from then on it returns at the next event (`CH` 676), also when
that is the turn asking for an approval, although `CH` 565–566 has whoever drops a prompt say so:
the approval has no buttons anywhere. A Stop that no append meets before the turn parks still
posts the prompt.

The others were met while modelling. Each can be seen by running the named property with the
change of constants given:

| where | instance | what the code does | what is said |
|---|---|---|---|
| `AR` 1429–1431 | `session_calm`, `MaxCrashes = 1`: `AtRest` | nobody calls `drain()` on a rebuild: turns held behind an answered park wait for the next call | `agents-durable-turns.md:363-365` |
| `AR` 903 | `session_calm`, `FatalCalls = {remote}` with `AllBatches`: `ProviderClean` | a batch whose call fails the turn stays owed, under the next turn's opening | comment at `AR` 692–693 |
| `AR` 1568 | `session_calm`, `MaxFailures = 1`: `AtRest` | an archival that fails clears `pendingReset` without a drain: turns held while it waited stay held until the next call | "a failed reset must not break the inbox", `AR` 1570 |
| `AR` 1203, 633 | `session_calm`, `MaxDeliveries = 2`, `MaxCrashes = 1`: `ParkHoldsTheFloor` | the status of a parked turn that was delivered again says "running" at a crash, and another turn opens over the park | comment at `AR` 1195–1197 |
| `AR` 721 | a parked turn delivered again whose tool then throws; another turn parks | the first turn's checkpoint is still there, so the second stores none | comment at `AR` 425–428 |
| `AR` 664 | `session_calm`, `MaxDeliveries = 2`: `RepliesOwn` | a turn delivered again after another has run completes with the other's reply | comment at `AR` 1464–1467, `agents-durable-turns.md:34-37` |
| `AR` 1361 | `session_calm`, `InlineCallers = TRUE`: `ProviderClean` | an answer and a cancel in the microtasks between a park and its settle end the turn with its batch unanswered | |
| `DUR` 526–529 | `announce` without `Timely` in `SomeoneDelivers`, `MaxUnready = 0` | a hook that fails during a turn replaces the turn's alarm by a retry, which is used up before the turn parks | `agents-durable-turns.md:324-327` |
| `DUR` 495 | the same, `MaxEarly = 0` | resources that do not open reject before the `try` that schedules the retry; the alarm that woke the object was the last | comment at `DUR` 516–517 |
| `client-router.ts:198`, `:210` | `navigation`, `Routers = {"morph"}`, `MaxFailures = 0`, `MaxLive = 0`: `AlwaysShowsLocation` | going back to an entry with a fragment whose page has another shell assigns the location it already has, which loads nothing | "hard-navigate so the right shell loads", `client-router.ts:203-207` |
| `cache.ts:150-158` | `cache`, `TaggedByReads` | an entry is tagged by the reads of its request that are new: a table the request had read before is not among them | `features-queries-caching.md:61` |
| `worker.ts` `compilePattern` | `WalkDecodes` in `MCNavigation` | the worker's expressions see the path as it was sent: an encoded static segment, or a slash at the end, is found by the development walk only | `pipeline.ts:558-560`, `router.ts:1-4` |

## Theorems

Proved for every value of the constants that satisfies the module's own assumption
(`ConstantsAssumption` of `AgentSession`, `AnnouncementsAssumption`, `TurnStreamAssumption`,
`SlackReplyAssumption`, `SlackInboundAssumption`, `McpClientAssumption`, `CacheAssumption`,
`DatabaseAssumption`, `NavigationAssumption`), so for any number of turns, calls, redeliveries,
requests, moves, crashes and failures, with or without inline callers. Eight theorems about the
session assume less than that, and say so in their statement:

- `Calm`: each turn is delivered once (`MaxDeliveries <= 1`), the process lives
  (`MaxCrashes = 0`), no tool ends a turn in the middle of a batch (`FatalCalls = {}`), and
  callers come while the engine awaits something or rests (`~InlineCallers`). Turns still are
  held, cancelled, replaced, parked and answered, models, tools and resets fail, and actors are
  evicted and rebuilt, any number of times. None of the four can be given up: TLC finds
  `ProviderClean` violated without any one of them, in the ways the table above lists.
- `Undisturbed`: the process lives, and no reset fails (`MaxFailures = 0 \/ MaxResets = 0`). The
  rows of the table on `AR` 1429–1431 and 1568 are what happens otherwise.

| module | theorem | says | inductive invariant |
|---|---|---|---|
| `AgentSessionProofs` | `TypeCorrect` | `[]TypeOK` | `TypeInv`: types, plus that an operation names a turn exactly if it is one of a turn and such a one heads the chain while the engine is busy — without it `Current` could be no turn |
| | `LocalToolsRunOnce` | `[]LocalExactlyOnce` | `EffectsOnRecord`: what ran is on record in `toolSteps`, since both commit in one step |
| | `TurnsOpenOnce` | `[]OpensOnce` | inductive over `TypeInv`: `OpenTurn` looks for the opening in the step that appends it |
| | `SeatIsTheFirst` | `[]SeatIsFirstIdentified` | inductive as `SeatIn(log, initiator)`: appending anything but an opening leaves it |
| | `IdleActorsAreEmpty` | `[]IdleLosesNothing` | `CancelsOfRunning`: a cancel request is for a turn in the running map |
| | `StepsMatchTranscript` | `[]CheckpointsMatchLog` | `CheckedIn(log, modelSteps, toolSteps)`; the latest reply before a message does not change when the log grows |
| | `TranscriptIsClean`, `ParksCanResume` (`Calm`) | `[]ProviderClean`, `[]ParkIsResumable` | `CalmInv`, explained below |
| | `TurnsReturnTheirReplies`, `ParkKeepsTheFloor`, `HeldTurnsQueueUp` (`Calm`) | `RepliesOwn`, `ParkHoldsTheFloor`, `HeldInOrder`: what no step does | `CalmInv` |
| | `HeldTurnsWaitForAPark` (`Undisturbed`) | `[]HeldBehindPark` | `HeldWaits` and `ResetComing`: turns are held only behind a park, a running turn or a pending reset, and a pending reset is on the chain, so that its end drains |
| | `RestOwesNothing` (both) | `[]AtRest` | `ParksCanResume` and `HeldTurnsWaitForAPark` together |
| | `SessionIsConversation` (`Calm`) | `AgentSession` implements `Conversation` | `CalmInv` and `SeatIn`: each action is mapped to a step of the conversation or to none |
| `AnnouncementsProofs` | `TypeCorrect` | `[]TypeOK` | `Inv` below, and the types it does not speak of |
| | `NothingIsLost`, `ToldInOrder` | `[]NothingLost`, `[]InOrder` | `DeliveryInv`: the outbox is exactly the announcements after the acknowledged ones, in order, and the entry in the hook's hands is its head. `NothingLost` alone is not inductive: removing an entry needs that it is the one just acknowledged |
| | `HandedOverOnce` | `[]OneHandover` | `ActorInv`: a flush belongs to an actor, an actor to a process, so none is built while a hook is in flight |
| | `EntriesHaveACourier` | `[]SomeoneDelivers` | `CourierInv`: in a timely life a Durable Object has an alarm while a turn runs or a reset waits, and an entry a pass leaves behind has a retry |
| `TurnStreamProofs` | `IdsIncrease` | ids strictly increase | `IdInv`: the last id is that of the last time and block; an overflow of the block moves the time on |
| | `ConsumersAreTold` | `[]NobodyIsStranded` | `WaitInv`: a consumer that was not told of an end is subscribed, and a run of its turn on the chain has its terminal event ahead of it |
| | `RunsEndOnce` | `[]OneTerminal` | `RunInv`: since a run began, its turn has a terminal event exactly if one was announced, and not two |
| | `StreamsAreWhole` | `[]StreamIsWhole` | `WholeInv`: what a consumer has got, and what is buffered for it, make up what was emitted since it came |
| `SlackProofs` | `EventsAreHandledOnce`, `EventsAreNeverDropped`, `RefusalsKeepTheButtons` | `[]HandledOnce`, `[]NeverDropped`, `[]RefusalKeepsButtons` | `InboundInv`: a delivery is on the wire or in an isolate's hands, not both; an isolate that works on an event remembers it until Slack is through with it or it was evicted; whoever renders after an answer was given one |
| | `RepliesAreWhole`, `RepliesShowOnce`, `NothingProvisionalStays` | `[]NothingTruncates`, `[]ShownOnce`, `[]NothingLingers` | `ReplyInv`, explained below |
| `DatabaseProofs` | `LedgerIsTrue`, `FilesRunInOrder` | `[]LedgerTellsTruth`, `[]FilesInOrder` | `MigrationInv`: what a process has read of the ledger is still in it, the files behind it are recorded, and of the one it runs the statements before the next have run |
| | `TransactionsAreAtomic` | `[]AllOrNothing` | `TxnInv`: at most one transaction is open, and what it wrote so far is exactly what the connection holds of it |
| `McpClientProofs` | `CallsKeepTheirSession`, `CallsRunOnce`, `VerdictFits`, `FailuresAreForgotten` | a call's session is of its credential; it is carried out once; the verdict on the era fits the server; a failed probe or handshake is not kept | `McpInv` |
| | `HandshakesAreShared` | `[]NoStorm`: a credential's handshakes are at most one more than the sessions it lost | `StormInv` |
| `CacheProofs` | `TypeCorrect`, `CacheIsCoherent` | `[]TypeOK`, `[]Coherent` | `CacheInv`: an entry is as its table is now, or its invalidation is still to come or under way, and that invalidation will find it, through the index or a link still to be written; the same for a value about to be stored |
| `NavigationProofs` | `LocationIsShown`, `LastNavigationWins` | `[]ShowsLocation`, `[]LastAskedWins` | `Inv`: of all calls under way one at most is current, and it leads to what was asked for last; one that has moved the history leads to where the URL is and fits the shell; the router knows what is shown unless a live update went astray |

**`CalmInv`.** `ProviderClean` says what the log may look like, and nothing in it says that the next
step keeps it so. What does: `Queued` (each turn has one delivery, which is on the chain, held,
or spent, and a turn on the chain behind a park is refused or is its answer), `ParkIsStatus`
(status and checkpoint agree), `FloorKept` (the calls still owed are those of the turn that runs
or is parked, so of the last one that opened), `ModelAsked` (the engine asks the model only when
nothing is owed), `AnswerUncancelled` (a turn that was answered is not cancelled before it runs
on), `ParkWaits` (the parked call is the next one owed and unanswered). Each conjunct is used for
another: `ParkIsStatus` is what `start()` decides by, `FloorKept` what makes `OpenTurn` harmless,
`ParkWaits` what makes the answer continue where the turn stopped.

**`ReplyInv`.** A renderer is a plan, the list of what it still has to do. `PlanInv` sorts the plans
into phases — the loop over the events, the closing, the salvage of the catch clause, the ending —
and says what each tells of the renderer; `TextInv` that what was taken from the turn is what is
shown or pending, and that nothing shows before what came before it; `EventInv` that what is
still on its way was said after all of that; `OutInv` that past the closing nothing is pending
that could still be shown; `OnceInv` that what is pending does not show. The theorems about a
finished renderer are read off the last phase. The exceptions they name are set by failed calls
to Slack only: `gaveUp` by one that leaves text unsent, `missed` by one that was to clear
something and that nothing makes again, `lost` by one whose answer was lost. A turn that failed
and a link that broke set none.

The lemmas say what the operators do: what a drained or shortened chain keeps, that a turn owes
results only at a reply in the log, that appended messages keep the positions before them, that
texts put together keep their order, that a step of one request leaves what another is about to
store alone.

Model-checked only, because the prover cannot: liveness (`NothingWaitsForever`, `AllTold`,
`AskedIsShown`, `CallsReturn`, `RefreshEnds`, `RenderEnds`), and the agreement of the two
resolvers in `Routing`, which is induction over a tree. `ParkIsAskable` is violated. Every other
property of a passing run is a theorem.

## Plan

1. Theorems with a weaker hypothesis than `Calm`: what a redelivery or a crash leaves true of the
   transcript (a turn owes results only at the last reply of its own), and which of the four
   conditions `HeldInOrder` and `ParkHoldsTheFloor` need.
2. A theorem that `Announcements` implements a queue that loses nothing.
3. Several sessions with the native host's LRU, and a caller that keeps an actor across an
   await while it is evicted and rebuilt (`NAT` 239): two actors over one store.
4. Crisp, and Slack's cancel-and-replace of a thread's turn (`CH` 426); the prompt of a park in a
   thread whose renderer is gone.
5. Juno's batch loader; content negotiation and error boundaries of the pipeline.

## Not modelled

Rendering, content negotiation, build, deploy, the MCP server and the OpenAPI translation,
internationalisation, images, documents, the CLI and the Rust host: stateless transformation or
file and network I/O, where a specification would repeat the code. Signature checks and the
wording of messages are left out of what is modelled. The site, the examples and the benchmarks
(`apps/`, `examples/`) are content or programs that use June.
