-------------------------------- MODULE Cache --------------------------------
(***************************************************************************)
(* cache() and invalidate() of packages/core/src/cache.ts, over the memory *)
(* and the Redis store, with what decides whether they are coherent: the   *)
(* tables a request's trace records (instrumentation.ts) and the           *)
(* invalidation at the end of an action (invokeAction in agent.ts).        *)
(*                                                                         *)
(* A value is the version of the one table the key's function reads; time  *)
(* is the age of an entry.  The commands of one delete of the Redis store  *)
(* are one step; those of its set are not.  Explicit tags, which play the  *)
(* same part as a table's, are left out.                                   *)
(***************************************************************************)
EXTENDS Integers, FiniteSets

CONSTANTS
    Requests, Keys, Tables,
    TableOf,        \* the table the function of a key reads
    Stores,         \* the stores to consider: "memory", "redis"
    MaxWrites,      \* bound: writes
    MaxReads,       \* bound: calls of cache()
    MaxAges,        \* bound: entries that go stale or die
    MaxFailures     \* bound: functions and actions that throw

ASSUME CacheAssumption ==
    /\ TableOf \in [Keys -> Tables] /\ Stores \subseteq {"memory", "redis"}
    /\ Requests \cap Keys = {}
    /\ MaxWrites \in Nat /\ MaxReads \in Nat /\ MaxAges \in Nat /\ MaxFailures \in Nat

VARIABLES
    store,          \* which store; never changes
    rows,           \* the version of each table
    entries,        \* the cached entry of each key
    index,          \* the keys indexed under each table's tag
    trace,          \* the tables each request has read and written
    tasks,          \* what each request does, and the background refresh of each key
    crossed,        \* keys filled, or losing their link, while their table was invalidated,
                    \* and not computed anew since
    dirty,          \* tables written by an action that threw, and not invalidated since
    used            \* what the bounds count

vars == <<store, rows, entries, index, trace, tasks, crossed, dirty, used>>

Nothing == [age |-> "none", value |-> 0, tags |-> {}]
Idle == [stage |-> "idle"]
NoTrace == [reads |-> {}, writes |-> {}]

Within(what, bound) == used[what] < bound /\ used' = [used EXCEPT ![what] = @ + 1]
-----------------------------------------------------------------------------
Init ==
    /\ store \in Stores
    /\ rows = [t \in Tables |-> 0]
    /\ entries = [k \in Keys |-> Nothing] /\ index = [t \in Tables |-> {}]
    /\ trace = [r \in Requests |-> NoTrace]
    /\ tasks = [w \in Requests \cup Keys |-> Idle]
    /\ crossed = {} /\ dirty = {}
    /\ used = [writes |-> 0, reads |-> 0, ages |-> 0, failures |-> 0]

\* delete(): the entry goes, and with it its links.
Delete(k) ==
    /\ entries' = [entries EXCEPT ![k] = Nothing]
    /\ index' = [t \in Tables |-> IF t \in entries[k].tags THEN index[t] \ {k} ELSE index[t]]

Goto(w, task) == tasks' = [tasks EXCEPT ![w] = task]

\* cache(): a fresh entry is served and nothing changes.  A stale one is served and
\* refreshed in the background, unless it is being; the refresh inherits the trace of
\* the request that set it off.
ServeStale(r, k) ==
    /\ tasks[r] = Idle /\ entries[k].age = "stale" /\ tasks[k] = Idle
    /\ Within("reads", MaxReads)
    /\ Goto(k, [stage |-> "compute", key |-> k, owner |-> r, tags |-> entries[k].tags])
    /\ UNCHANGED <<store, rows, entries, index, trace, crossed, dirty>>

\* No entry is alive: the tables read so far are noted, and the function called.
Miss(r, k) ==
    /\ tasks[r] = Idle /\ entries[k].age \in {"none", "dead"}
    /\ Within("reads", MaxReads)
    /\ Delete(k)
    /\ Goto(r, [stage |-> "compute", key |-> k, owner |-> r, tags |-> trace[r].reads])
    /\ UNCHANGED <<store, rows, trace, crossed, dirty>>

\* The tags of what has been computed: for a refresh those of the stale entry, for a
\* miss the tables read that had not been read before.
Tags(w) ==
    IF w \in Keys THEN tasks[w].tags
    ELSE (trace[w].reads \cup {TableOf[tasks[w].key]}) \ tasks[w].tags

\* The keys that are being stored.
Filled ==
    {tasks[w].key : w \in {v \in Requests \cup Keys : tasks[v].stage \in {"set", "put", "link"}}}

\* The function reads its table, which the trace records.
Compute(w) ==
    /\ tasks[w].stage = "compute"
    /\ LET k == tasks[w].key
           r == tasks[w].owner IN
       /\ trace' = [trace EXCEPT ![r].reads = @ \cup {TableOf[k]}]
       /\ Goto(w, [stage |-> "set", key |-> k, value |-> rows[TableOf[k]], tags |-> Tags(w)])
       /\ crossed' = IF k \in Filled THEN crossed ELSE crossed \ {k}
    /\ UNCHANGED <<store, rows, entries, index, dirty, used>>

\* Mutant: a refresh that fails leaves its key marked.
FailAndStay(w) ==
    /\ tasks[w].stage = "compute" /\ Within("failures", MaxFailures)
    /\ Goto(w, IF w \in Keys THEN [stage |-> "stuck"] ELSE Idle)
    /\ UNCHANGED <<store, rows, entries, index, trace, crossed, dirty>>

\* It throws: a request rejects, a refresh keeps the stale entry.
Fail(w) ==
    /\ tasks[w].stage = "compute" /\ Within("failures", MaxFailures)
    /\ Goto(w, Idle)
    /\ UNCHANGED <<store, rows, entries, index, trace, crossed, dirty>>

\* set() of the memory store first deletes what is there...
Clear(w) ==
    /\ store = "memory" /\ tasks[w].stage = "set"
    /\ Delete(tasks[w].key)
    /\ Goto(w, [tasks[w] EXCEPT !.stage = "put"])
    /\ UNCHANGED <<store, rows, trace, crossed, dirty, used>>

\* Mutant: the set of a tag's keys is begun anew.
LinkedAlone(k, tags) == [t \in Tables |-> IF t \in tags THEN {k} ELSE index[t]]

\* The index with a key under the tags of its entry.
Linked(k, tags) == [t \in Tables |-> IF t \in tags THEN index[t] \cup {k} ELSE index[t]]

\* ...and, an await later, puts the entry and its links.  The Redis store puts the
\* entry, over what is there, and then the links.
Put(w) ==
    /\ tasks[w].stage \in {"set", "put"}
    /\ LET k == tasks[w].key IN
       /\ entries' = [entries EXCEPT ![k] = [age |-> "fresh", value |-> tasks[w].value,
                                             tags |-> tasks[w].tags]]
       /\ \/ /\ store = "memory" /\ tasks[w].stage = "put"
             /\ index' = Linked(k, tasks[w].tags)
             /\ Goto(w, Idle)
          \/ /\ store = "redis" /\ tasks[w].stage = "set"
             /\ Goto(w, [tasks[w] EXCEPT !.stage = "link"])
             /\ UNCHANGED index
    /\ UNCHANGED <<store, rows, trace, crossed, dirty, used>>

Link(w) ==
    /\ tasks[w].stage = "link"
    /\ index' = Linked(tasks[w].key, tasks[w].tags)
    /\ Goto(w, Idle)
    /\ UNCHANGED <<store, rows, entries, trace, crossed, dirty, used>>

\* An entry outlives its ttl, or the window after it.
Age(k) ==
    /\ entries[k].age \in {"fresh", "stale"} /\ Within("ages", MaxAges)
    /\ \E age \in {"stale", "dead"} \ {entries[k].age} :
           entries' = [entries EXCEPT ![k].age = age]
    /\ UNCHANGED <<store, rows, index, trace, tasks, crossed, dirty>>
-----------------------------------------------------------------------------
(* invokeAction().                                                         *)

\* The action writes a table: its first write, or another one.
Write(r, t) ==
    /\ tasks[r].stage \in {"idle", "act"} /\ Within("writes", MaxWrites)
    /\ Goto(r, [stage |-> "act"])
    /\ rows' = [rows EXCEPT ![t] = @ + 1]
    /\ trace' = [trace EXCEPT ![r].writes = @ \cup {t}]
    /\ UNCHANGED <<store, entries, index, crossed, dirty>>

\* The action throws, and nothing is invalidated.
Throw(r) ==
    /\ tasks[r].stage = "act" /\ Within("failures", MaxFailures)
    /\ dirty' = dirty \cup trace[r].writes
    /\ Goto(r, Idle)
    /\ UNCHANGED <<store, rows, entries, index, trace, crossed>>

\* Those of a table.
Filling(t) == {k \in Filled : TableOf[k] = t}

\* The tables still to invalidate.
Invalidating(left) == IF left = {} THEN Idle ELSE [stage |-> "invalidate", left |-> left]

Return(r) ==
    /\ tasks[r].stage = "act"
    /\ Goto(r, Invalidating(trace[r].writes))
    /\ UNCHANGED <<store, rows, entries, index, trace, crossed, dirty, used>>

\* invalidateTag() for one of the tables written: the keys now indexed under it...
Snapshot(r, t) ==
    /\ tasks[r].stage = "invalidate" /\ t \in tasks[r].left
    /\ LET left == tasks[r].left \ {t} IN
       Goto(r, IF store = "memory" /\ index[t] = {}      \* no await, and no step of another
               THEN Invalidating(left)
               ELSE [stage |-> "drop", table |-> t, keys |-> index[t], left |-> left])
    /\ crossed' = crossed \cup Filling(t) /\ dirty' = dirty \ {t}
    /\ UNCHANGED <<store, rows, entries, index, trace, used>>

\* ...are deleted one after the other...
DropKey(r, k) ==
    /\ tasks[r].stage = "drop" /\ k \in tasks[r].keys
    /\ Delete(k)
    /\ Goto(r, [tasks[r] EXCEPT !.keys = @ \ {k}])
    /\ crossed' = crossed \cup Filling(tasks[r].table)
    /\ UNCHANGED <<store, rows, trace, dirty, used>>

\* ...and then the tag, with whatever it holds by then.
DropTag(r) ==
    /\ tasks[r].stage = "drop" /\ tasks[r].keys = {}
    /\ index' = [index EXCEPT ![tasks[r].table] = {}]
    /\ Goto(r, Invalidating(tasks[r].left))
    /\ crossed' = crossed \cup Filling(tasks[r].table) \cup index[tasks[r].table]
    /\ UNCHANGED <<store, rows, entries, trace, dirty, used>>

\* The request is over, and the next one has a trace of its own.
Respond(r) ==
    /\ tasks[r] = Idle /\ trace[r] # NoTrace
    /\ trace' = [trace EXCEPT ![r] = NoTrace]
    /\ UNCHANGED <<store, rows, entries, index, tasks, crossed, dirty, used>>

AtRest == \A w \in DOMAIN tasks : tasks[w] = Idle
Rest == AtRest /\ UNCHANGED vars

Fill(w) == Compute(w) \/ Fail(w) \/ Clear(w) \/ Put(w) \/ Link(w)

Action(r) ==
    \/ Return(r) \/ DropTag(r) \/ Throw(r)
    \/ \E t \in Tables : Snapshot(r, t)
    \/ \E k \in Keys : DropKey(r, k)

Next ==
    \/ \E r \in Requests : Action(r) \/ Respond(r)
    \/ \E r \in Requests, k \in Keys : ServeStale(r, k) \/ Miss(r, k)
    \/ \E r \in Requests, t \in Tables : Write(r, t)
    \/ \E w \in Requests \cup Keys : Fill(w)
    \/ \E k \in Keys : Age(k)
    \/ Rest

Spec == Init /\ [][Next]_vars

\* Whatever is computed, stored or invalidated goes on.
FairSpec ==
    /\ Spec
    /\ \A w \in Requests \cup Keys : WF_vars(Fill(w))
    /\ \A r \in Requests : WF_vars(Action(r))
-----------------------------------------------------------------------------
(* Properties.                                                             *)

\* An entry carries the tag of the table it was read from ("every cache() entry is
\* tagged by the tables it read", features-queries-caching.md:61).
TaggedByReads == \A k \in Keys : entries[k] # Nothing => TableOf[k] \in entries[k].tags

\* Coherence: when nothing is under way, an entry is as its table is, through stale
\* entries, refreshes that fail, and fills and invalidations in any order.  Three
\* exceptions are the code's: a table the request had read before, an action that threw
\* after a write, and a fill that overlapped an invalidation; the last two heal, with the
\* next invalidation and with the next fill.
Coherent ==
    AtRest => \A k \in Keys :
        \/ entries[k].age \in {"none", "dead"} \/ entries[k].value = rows[TableOf[k]]
        \/ TableOf[k] \notin entries[k].tags
        \/ TableOf[k] \in dirty
        \/ k \in crossed

\* Liveness: the mark that a key is being refreshed is taken back, also when its function
\* throws, so that a later stale entry is refreshed again.
RefreshEnds == \A k \in Keys : tasks[k] # Idle ~> tasks[k] = Idle
=============================================================================
