------------------------------ MODULE CacheProofs ------------------------------
(***************************************************************************)
(* Coherence of the cache for every value of the constants: any number of  *)
(* requests, keys and tables, over either store.                           *)
(***************************************************************************)
EXTENDS Cache, TLAPS

Versions == [age : {"none", "fresh", "stale", "dead"}, value : Nat, tags : SUBSET Tables]
Computing == [stage : {"compute"}, key : Keys, owner : Requests, tags : SUBSET Tables]
Storing == [stage : {"set", "put", "link"}, key : Keys, value : Nat, tags : SUBSET Tables]
Waiting == [stage : {"invalidate"}, left : SUBSET Tables]
Deleting == [stage : {"drop"}, table : Tables, keys : SUBSET Keys, left : SUBSET Tables]
Tasks == [stage : {"idle", "act"}] \cup Computing \cup Storing \cup Waiting \cup Deleting

TypeOK ==
    /\ rows \in [Tables -> Nat]
    /\ entries \in [Keys -> Versions]
    /\ index \in [Tables -> SUBSET Keys]
    /\ trace \in [Requests -> [reads : SUBSET Tables, writes : SUBSET Tables]]
    /\ tasks \in [Requests \cup Keys -> Tasks]
    /\ crossed \subseteq Keys /\ dirty \subseteq Tables

\* A table whose entries an action will yet invalidate, or one that threw never will.
PendingBy(r, t) ==
    \/ tasks[r].stage = "act" /\ t \in trace[r].writes
    \/ tasks[r].stage \in {"invalidate", "drop"} /\ t \in tasks[r].left
Pending(t) == t \in dirty \/ \E r \in Requests : PendingBy(r, t)

\* A key an invalidation is about to delete; one whose links a fill has yet to put.
Dropping(k) == \E r \in Requests : tasks[r].stage = "drop" /\ k \in tasks[r].keys
LinkingBy(w, k) ==
    tasks[w].stage = "link" /\ tasks[w].key = k /\ TableOf[k] \in tasks[w].tags
Linking(k) == \E w \in Requests \cup Keys : LinkingBy(w, k)

\* What is stored next takes the place of the entry.
ReplacedBy(w, k) == tasks[w].stage \in {"set", "put"} /\ tasks[w].key = k
Replaced(k) == \E w \in Requests \cup Keys : ReplacedBy(w, k)

\* An entry is as its table is, or will be deleted.
EntryOK(k) ==
    \/ Replaced(k)
    \/ TableOf[k] \notin entries[k].tags \/ k \in crossed
    \/ entries[k].value = rows[TableOf[k]] \/ Pending(TableOf[k]) \/ Dropping(k)

\* The invalidation of its table will find it.
LinkOK(k) ==
    \/ Replaced(k)
    \/ TableOf[k] \notin entries[k].tags \/ k \in crossed
    \/ k \in index[TableOf[k]] \/ Linking(k)

\* What is about to be stored is as the table is, or will be invalidated once stored.
FillOK(w) ==
    tasks[w].stage \in {"set", "put"} =>
        \/ TableOf[tasks[w].key] \notin tasks[w].tags \/ tasks[w].key \in crossed
        \/ tasks[w].value = rows[TableOf[tasks[w].key]] \/ Pending(TableOf[tasks[w].key])

CacheInv ==
    /\ \A k \in Keys : EntryOK(k) /\ LinkOK(k)
    /\ \A w \in Requests \cup Keys : FillOK(w)

-----------------------------------------------------------------------------
(* Types.                                                                  *)

LEMMA GotoDoes ==
    ASSUME tasks \in [Requests \cup Keys -> Tasks], NEW w \in Requests \cup Keys, NEW t \in Tasks,
           Goto(w, t)
    PROVE  /\ tasks' \in [Requests \cup Keys -> Tasks] /\ tasks'[w] = t
           /\ \A v \in (Requests \cup Keys) \ {w} : tasks'[v] = tasks[v]
  BY DEF Goto

\* The stage of a task says what it is.
LEMMA Shape ==
    ASSUME NEW t \in Tasks
    PROVE  /\ t.stage = "compute" => t \in Computing
           /\ t.stage \in {"set", "put", "link"} => t \in Storing
           /\ t.stage = "invalidate" => t \in Waiting
           /\ t.stage = "drop" => t \in Deleting
  BY DEF Tasks, Computing, Storing, Waiting, Deleting

LEMMA StageMoves ==
    ASSUME NEW t \in Storing, NEW s \in {"set", "put", "link"}
    PROVE  /\ [t EXCEPT !.stage = s] \in Tasks /\ [t EXCEPT !.stage = s].stage = s
           /\ [t EXCEPT !.stage = s].key = t.key /\ [t EXCEPT !.stage = s].value = t.value
           /\ [t EXCEPT !.stage = s].tags = t.tags
  BY DEF Storing, Tasks

LEMMA KeysDrop ==
    ASSUME NEW t \in Deleting, NEW k
    PROVE  /\ [t EXCEPT !.keys = @ \ {k}] \in Tasks /\ [t EXCEPT !.keys = @ \ {k}].stage = "drop"
           /\ [t EXCEPT !.keys = @ \ {k}].keys = t.keys \ {k}
           /\ [t EXCEPT !.keys = @ \ {k}].left = t.left
  BY DEF Deleting, Tasks

LEMMA InvalidatingIs ==
    ASSUME NEW left \in SUBSET Tables
    PROVE  /\ Invalidating(left) \in Tasks
           /\ \A t \in left : Invalidating(left).stage = "invalidate" /\ t \in Invalidating(left).left
           /\ Invalidating(left).stage \in {"idle", "invalidate"}
  BY DEF Invalidating, Idle, Tasks, Waiting

LEMMA FilledAreKeys ==
    ASSUME TypeOK
    PROVE  /\ Filled \subseteq Keys
           /\ \A w \in Requests \cup Keys :
                 tasks[w].stage \in {"set", "put", "link"} => tasks[w].key \in Filled
           /\ \A k \in Filled : \E w \in Requests \cup Keys :
                 tasks[w].stage \in {"set", "put", "link"} /\ tasks[w].key = k
<1>1. \A w \in Requests \cup Keys : tasks[w].stage \in {"set", "put", "link"} => tasks[w] \in Storing
  BY Shape DEF TypeOK
<1> QED
  BY <1>1 DEF Filled, Storing

LEMMA DeleteDoes ==
    ASSUME TypeOK, NEW k \in Keys, Delete(k)
    PROVE  /\ entries' \in [Keys -> Versions] /\ entries'[k].tags = {}
           /\ \A j \in Keys \ {k} : entries'[j] = entries[j]
           /\ index' \in [Tables -> SUBSET Keys]
           /\ \A j \in Keys \ {k}, t \in Tables : j \in index'[t] <=> j \in index[t]
<1>1. Nothing \in Versions /\ Nothing.tags = {}
  BY DEF Nothing, Versions
<1>2. entries' = [entries EXCEPT ![k] = Nothing]
  BY DEF Delete
<1>3. index' = [t \in Tables |-> IF t \in entries[k].tags THEN index[t] \ {k} ELSE index[t]]
  BY DEF Delete
<1> QED
  BY <1>1, <1>2, <1>3 DEF TypeOK

LEMMA LinkedIs ==
    ASSUME TypeOK, NEW k \in Keys, NEW tags \in SUBSET Tables
    PROVE  /\ Linked(k, tags) \in [Tables -> SUBSET Keys]
           /\ \A t \in tags : k \in Linked(k, tags)[t]
           /\ \A t \in Tables : index[t] \subseteq Linked(k, tags)[t]
  BY DEF Linked, TypeOK

-----------------------------------------------------------------------------
(* What keeps the invariant's disjuncts.                                   *)

\* A table stays pending if no action stops working on it.
LEMMA PendingStays ==
    ASSUME NEW t, Pending(t), dirty \subseteq dirty',
           \A r \in Requests : PendingBy(r, t) => PendingBy(r, t)'
    PROVE  Pending(t)'
  BY DEF Pending

\* A step of a task that is no action, and begins none, leaves the actions alone.
LEMMA ActionsStay ==
    ASSUME TypeOK, NEW w \in Requests \cup Keys, NEW task \in Tasks, Goto(w, task),
           tasks[w].stage \notin {"act", "invalidate", "drop"},
           \A r \in Requests : trace'[r].writes = trace[r].writes, UNCHANGED dirty
    PROVE  /\ \A t : Pending(t) => Pending(t)'
           /\ \A k : Dropping(k) => Dropping(k)'
<1>1. /\ tasks'[w] = task
      /\ \A v \in (Requests \cup Keys) \ {w} : tasks'[v] = tasks[v]
  BY GotoDoes DEF TypeOK
<1>2. \A r \in Requests : \A t : PendingBy(r, t) => PendingBy(r, t)'
  BY <1>1 DEF PendingBy
<1>3. \A t : Pending(t) => Pending(t)'
  BY <1>2, PendingStays
<1>4. \A k : Dropping(k) => Dropping(k)'
  BY <1>1 DEF Dropping
<1> QED
  BY <1>3, <1>4

\* A step of a task that stores nothing leaves what is stored, and linked, alone.
LEMMA StoresStay ==
    ASSUME TypeOK, NEW w \in Requests \cup Keys, NEW task \in Tasks, Goto(w, task),
           tasks[w].stage \notin {"set", "put", "link"}
    PROVE  /\ \A k : Linking(k) => Linking(k)'
           /\ \A k : Replaced(k) => Replaced(k)'
<1>1. /\ tasks'[w] = task
      /\ \A v \in (Requests \cup Keys) \ {w} : tasks'[v] = tasks[v]
  BY GotoDoes DEF TypeOK
<1> QED
  BY <1>1 DEF Linking, LinkingBy, Replaced, ReplacedBy

\* What is stored stays as it should be, but for a table that changes or a key that heals.
LEMMA FillsStay ==
    ASSUME TypeOK, CacheInv, NEW w \in Requests \cup Keys, NEW task \in Tasks, Goto(w, task),
           UNCHANGED rows, crossed \subseteq crossed',
           \A t : Pending(t) => Pending(t)',
           task.stage \notin {"set", "put"}
    PROVE  \A v \in Requests \cup Keys : FillOK(v)'
<1>1. /\ tasks'[w] = task
      /\ \A v \in (Requests \cup Keys) \ {w} : tasks'[v] = tasks[v]
  BY GotoDoes DEF TypeOK
<1>2. FillOK(w)'
  BY <1>1 DEF FillOK
<1>3. ASSUME NEW v \in (Requests \cup Keys) \ {w} PROVE FillOK(v)'
  <2>1. FillOK(v) /\ tasks'[v] = tasks[v]
    BY <1>1 DEF CacheInv
  <2> QED
    BY <2>1 DEF FillOK
<1> QED
  BY <1>2, <1>3

\* An entry a step does not touch stays as it should be.
LEMMA EntryStays ==
    ASSUME NEW k \in Keys, CacheInv, UNCHANGED rows, crossed \subseteq crossed',
           entries'[k].tags = entries[k].tags, entries'[k].value = entries[k].value,
           Replaced(k) => Replaced(k)',
           Pending(TableOf[k]) => Pending(TableOf[k])', Dropping(k) => Dropping(k)'
    PROVE  EntryOK(k)'
<1>1. EntryOK(k)
  BY DEF CacheInv
<1> QED
  BY <1>1 DEF EntryOK

LEMMA LinkStays ==
    ASSUME NEW k \in Keys, CacheInv, crossed \subseteq crossed',
           entries'[k].tags = entries[k].tags, Replaced(k) => Replaced(k)',
           k \in index[TableOf[k]] => k \in index'[TableOf[k]],
           Linking(k) => Linking(k)'
    PROVE  LinkOK(k)'
<1>1. LinkOK(k)
  BY DEF CacheInv
<1> QED
  BY <1>1 DEF LinkOK

\* An entry that was deleted is as it should be.
LEMMA DeletedIsFine ==
    ASSUME NEW k \in Keys, entries'[k].tags = {}
    PROVE  EntryOK(k)' /\ LinkOK(k)'
  BY DEF EntryOK, LinkOK

-----------------------------------------------------------------------------
(* Each action keeps the types and the invariant.                          *)

Inv == TypeOK /\ CacheInv

\* The tasks that the actions begin.
LEMMA NewTasks ==
    /\ Idle \in Tasks /\ Idle.stage = "idle"
    /\ [stage |-> "act"] \in Tasks
    /\ \A k \in Keys, r \in Requests, tags \in SUBSET Tables :
          [stage |-> "compute", key |-> k, owner |-> r, tags |-> tags] \in Tasks
    /\ \A k \in Keys, v \in Nat, tags \in SUBSET Tables :
          [stage |-> "set", key |-> k, value |-> v, tags |-> tags] \in Tasks
    /\ \A t \in Tables, keys \in SUBSET Keys, left \in SUBSET Tables :
          [stage |-> "drop", table |-> t, keys |-> keys, left |-> left] \in Tasks
  BY DEF Idle, Tasks, Computing, Storing, Deleting

LEMMA ServesStale ==
    ASSUME Inv, NEW r \in Requests, NEW k \in Keys, ServeStale(r, k)
    PROVE  Inv'
<1> USE DEF Inv
<1>1. PICK task \in Tasks : /\ Goto(k, task) /\ task.stage = "compute"
  <2>1. entries[k].tags \in SUBSET Tables
    BY DEF TypeOK, Versions
  <2> QED
    BY <2>1, NewTasks DEF ServeStale
<1>2. /\ tasks[k].stage = "idle" /\ UNCHANGED <<rows, entries, index, trace, crossed, dirty>>
  BY NewTasks DEF ServeStale
<1>3. TypeOK'
  BY <1>1, <1>2, GotoDoes DEF TypeOK
<1>4. /\ \A t : Pending(t) => Pending(t)'
      /\ \A j : Dropping(j) => Dropping(j)'
  BY <1>1, <1>2, ActionsStay
<1>5. /\ \A j : Linking(j) => Linking(j)'
      /\ \A j : Replaced(j) => Replaced(j)'
  BY <1>1, <1>2, StoresStay
<1>6. \A v \in Requests \cup Keys : FillOK(v)'
  BY <1>1, <1>2, <1>4, FillsStay
<1>7. \A j \in Keys : EntryOK(j)' /\ LinkOK(j)'
  BY <1>2, <1>4, <1>5, EntryStays, LinkStays
<1> QED
  BY <1>3, <1>6, <1>7 DEF CacheInv

LEMMA Misses ==
    ASSUME Inv, NEW r \in Requests, NEW k \in Keys, Miss(r, k)
    PROVE  Inv'
<1> USE DEF Inv
<1>1. PICK task \in Tasks : /\ Goto(r, task) /\ task.stage = "compute"
  <2>1. trace[r].reads \in SUBSET Tables
    BY DEF TypeOK
  <2> QED
    BY <2>1, NewTasks DEF Miss
<1>2. /\ tasks[r].stage = "idle" /\ UNCHANGED <<rows, trace, crossed, dirty>>
  BY NewTasks DEF Miss
<1>3. /\ entries' \in [Keys -> Versions] /\ entries'[k].tags = {}
      /\ \A j \in Keys \ {k} : entries'[j] = entries[j]
      /\ index' \in [Tables -> SUBSET Keys]
      /\ \A j \in Keys \ {k}, t \in Tables : j \in index'[t] <=> j \in index[t]
  BY DeleteDoes DEF Miss
<1>4. TypeOK'
  BY <1>1, <1>2, <1>3, GotoDoes DEF TypeOK
<1>5. /\ \A t : Pending(t) => Pending(t)'
      /\ \A j : Dropping(j) => Dropping(j)'
  BY <1>1, <1>2, ActionsStay
<1>6. /\ \A j : Linking(j) => Linking(j)'
      /\ \A j : Replaced(j) => Replaced(j)'
  BY <1>1, <1>2, StoresStay
<1>7. \A v \in Requests \cup Keys : FillOK(v)'
  BY <1>1, <1>2, <1>5, FillsStay
<1>8. EntryOK(k)' /\ LinkOK(k)'
  BY <1>3, DeletedIsFine
<1>9. ASSUME NEW j \in Keys \ {k} PROVE EntryOK(j)' /\ LinkOK(j)'
  BY <1>2, <1>3, <1>5, <1>6, EntryStays, LinkStays, CacheAssumption DEF CacheAssumption
<1> QED
  BY <1>4, <1>7, <1>8, <1>9 DEF CacheInv

LEMMA Computes ==
    ASSUME Inv, NEW w \in Requests \cup Keys, Compute(w)
    PROVE  Inv'
<1> USE DEF Inv
<1>1. tasks[w].stage = "compute" /\ tasks[w] \in Computing
  BY Shape DEF Compute, TypeOK
<1>2. PICK k \in Keys : k = tasks[w].key
  BY <1>1 DEF Computing
<1>3. PICK r \in Requests : r = tasks[w].owner
  BY <1>1 DEF Computing
<1> DEFINE t == TableOf[k]
<1>4. tasks[w].tags \subseteq Tables /\ t \in Tables
  BY <1>1, CacheAssumption DEF Computing, CacheAssumption
<1>5. rows[t] \in Nat /\ Tags(w) \in SUBSET Tables
  BY <1>4, <1>2, <1>3 DEF Tags, TypeOK
<1>6. PICK task : task = [stage |-> "set", key |-> k, value |-> rows[t], tags |-> Tags(w)]
  OBVIOUS
<1>7. /\ task \in Tasks /\ task.stage = "set" /\ task.key = k /\ task.value = rows[t]
      /\ Goto(w, task)
  BY <1>4, <1>5, <1>6, <1>2, NewTasks DEF Compute
<1>8. /\ tasks' \in [Requests \cup Keys -> Tasks] /\ tasks'[w] = task
      /\ \A v \in (Requests \cup Keys) \ {w} : tasks'[v] = tasks[v]
  BY <1>7, GotoDoes DEF TypeOK
<1>9. UNCHANGED <<rows, entries, index, dirty>>
  BY DEF Compute
<1>10. /\ trace' \in [Requests -> [reads : SUBSET Tables, writes : SUBSET Tables]]
      /\ \A q \in Requests : trace'[q].writes = trace[q].writes
  <2>1. trace' = [trace EXCEPT ![r].reads = @ \cup {t}]
    BY <1>2, <1>3 DEF Compute
  <2> QED
    BY <1>4, <2>1 DEF TypeOK
<1>11. crossed' = IF k \in Filled THEN crossed ELSE crossed \ {k}
  BY <1>2 DEF Compute
<1>12. TypeOK'
  BY <1>8, <1>9, <1>10, <1>11 DEF TypeOK
<1>13. /\ \A u : Pending(u) => Pending(u)'
       /\ \A j : Dropping(j) => Dropping(j)'
  BY <1>1, <1>7, <1>9, <1>10, ActionsStay
<1>14. /\ \A j : Linking(j) => Linking(j)'
       /\ \A j : Replaced(j) => Replaced(j)'
  BY <1>1, <1>7, StoresStay
<1>15. ASSUME NEW v \in Requests \cup Keys PROVE FillOK(v)'
  <2>1. CASE v = w
    BY <2>1, <1>7, <1>8, <1>9 DEF FillOK
  <2>2. CASE v # w
    <3>1. tasks'[v] = tasks[v] /\ FillOK(v)
      BY <2>2, <1>8 DEF CacheInv
    <3>2. tasks[v].stage \in {"set", "put"} /\ tasks[v].key \in crossed => tasks[v].key \in crossed'
      BY <1>11, FilledAreKeys
    <3> QED
      BY <3>1, <3>2, <1>9, <1>13 DEF FillOK
  <2> QED
    BY <2>1, <2>2
<1>16. Replaced(k)'
  BY <1>7, <1>8 DEF Replaced, ReplacedBy
<1>17. ASSUME NEW j \in Keys PROVE EntryOK(j)' /\ LinkOK(j)'
  <2>1. CASE j = k
    BY <2>1, <1>16 DEF EntryOK, LinkOK
  <2>2. CASE j # k
    <3>1. j \in crossed => j \in crossed'
      BY <2>2, <1>11
    <3>2. EntryOK(j) /\ LinkOK(j)
      BY DEF CacheInv
    <3>3. EntryOK(j)'
      BY <3>1, <3>2, <1>9, <1>13, <1>14 DEF EntryOK
    <3>4. LinkOK(j)'
      BY <3>1, <3>2, <1>9, <1>14 DEF LinkOK
    <3> QED
      BY <3>3, <3>4
  <2> QED
    BY <2>1, <2>2
<1> QED
  BY <1>12, <1>15, <1>17 DEF CacheInv

LEMMA Fails ==
    ASSUME Inv, NEW w \in Requests \cup Keys, Fail(w)
    PROVE  Inv'
<1> USE DEF Inv
<1>1. /\ Goto(w, Idle) /\ tasks[w].stage = "compute"
      /\ UNCHANGED <<rows, entries, index, trace, crossed, dirty>>
  BY DEF Fail
<1>2. Idle \in Tasks /\ Idle.stage = "idle"
  BY NewTasks
<1>3. TypeOK'
  BY <1>1, <1>2, GotoDoes DEF TypeOK
<1>4. /\ \A t : Pending(t) => Pending(t)'
      /\ \A j : Dropping(j) => Dropping(j)'
  BY <1>1, <1>2, ActionsStay
<1>5. /\ \A j : Linking(j) => Linking(j)'
      /\ \A j : Replaced(j) => Replaced(j)'
  BY <1>1, <1>2, StoresStay
<1>6. \A v \in Requests \cup Keys : FillOK(v)'
  BY <1>1, <1>2, <1>4, FillsStay
<1>7. \A j \in Keys : EntryOK(j)' /\ LinkOK(j)'
  BY <1>1, <1>4, <1>5, EntryStays, LinkStays
<1> QED
  BY <1>3, <1>6, <1>7 DEF CacheInv

LEMMA Clears ==
    ASSUME Inv, NEW w \in Requests \cup Keys, Clear(w)
    PROVE  Inv'
<1> USE DEF Inv
<1>1. tasks[w].stage = "set" /\ tasks[w] \in Storing
  BY Shape DEF Clear, TypeOK
<1>2. PICK k \in Keys : k = tasks[w].key
  BY <1>1 DEF Storing
<1>3. PICK task : task = [tasks[w] EXCEPT !.stage = "put"]
  OBVIOUS
<1>4. /\ task \in Tasks /\ task.stage = "put" /\ task.key = k
      /\ task.value = tasks[w].value /\ task.tags = tasks[w].tags
  BY <1>1, <1>2, <1>3, StageMoves
<1>5. /\ Goto(w, task) /\ Delete(k) /\ UNCHANGED <<rows, trace, crossed, dirty>>
  BY <1>2, <1>3 DEF Clear
<1>6. /\ tasks' \in [Requests \cup Keys -> Tasks] /\ tasks'[w] = task
      /\ \A v \in (Requests \cup Keys) \ {w} : tasks'[v] = tasks[v]
  BY <1>4, <1>5, GotoDoes DEF TypeOK
<1>7. /\ entries' \in [Keys -> Versions] /\ entries'[k].tags = {}
      /\ \A j \in Keys \ {k} : entries'[j] = entries[j]
      /\ index' \in [Tables -> SUBSET Keys]
      /\ \A j \in Keys \ {k}, t \in Tables : j \in index'[t] <=> j \in index[t]
  BY <1>5, DeleteDoes
<1>8. TypeOK'
  BY <1>5, <1>6, <1>7 DEF TypeOK
<1>9. /\ \A t : Pending(t) => Pending(t)'
      /\ \A j : Dropping(j) => Dropping(j)'
  BY <1>1, <1>4, <1>5, ActionsStay
<1>10. /\ \A j : Linking(j) => Linking(j)'
       /\ \A j : Replaced(j) => Replaced(j)'
  BY <1>1, <1>2, <1>4, <1>6 DEF Linking, LinkingBy, Replaced, ReplacedBy
<1>11. ASSUME NEW v \in Requests \cup Keys PROVE FillOK(v)'
  <2>1. FillOK(v)
    BY DEF CacheInv
  <2>2. CASE v = w
    BY <2>1, <2>2, <1>1, <1>2, <1>4, <1>5, <1>6, <1>9 DEF FillOK
  <2>3. CASE v # w
    BY <2>1, <2>3, <1>5, <1>6, <1>9 DEF FillOK
  <2> QED
    BY <2>2, <2>3
<1>12. EntryOK(k)' /\ LinkOK(k)'
  BY <1>7, DeletedIsFine
<1>13. ASSUME NEW j \in Keys \ {k} PROVE EntryOK(j)' /\ LinkOK(j)'
  BY <1>5, <1>7, <1>9, <1>10, EntryStays, LinkStays, CacheAssumption DEF CacheAssumption
<1> QED
  BY <1>8, <1>11, <1>12, <1>13 DEF CacheInv

LEMMA Puts ==
    ASSUME Inv, NEW w \in Requests \cup Keys, Put(w)
    PROVE  Inv'
<1> USE DEF Inv
<1>1. tasks[w].stage \in {"set", "put"} /\ tasks[w] \in Storing
  BY Shape DEF Put, TypeOK
<1>2. PICK k \in Keys : k = tasks[w].key
  BY <1>1 DEF Storing
<1>3. PICK tags \in SUBSET Tables, value \in Nat : tags = tasks[w].tags /\ value = tasks[w].value
  BY <1>1 DEF Storing
<1>4. UNCHANGED <<rows, trace, crossed, dirty>>
  BY DEF Put
<1>5. /\ entries' \in [Keys -> Versions]
      /\ entries'[k].tags = tags /\ entries'[k].value = value
      /\ \A j \in Keys \ {k} : entries'[j] = entries[j]
  <2>1. PICK e : e = [age |-> "fresh", value |-> value, tags |-> tags]
    OBVIOUS
  <2>2. entries' = [entries EXCEPT ![k] = e]
    BY <1>2, <1>3, <2>1 DEF Put
  <2>3. e \in Versions /\ e.tags = tags /\ e.value = value
    BY <2>1 DEF Versions
  <2> QED
    BY <2>2, <2>3 DEF TypeOK
\* Either the links are put as well, or they are yet to be.
<1>6. PICK task \in Tasks :
         /\ Goto(w, task)
         /\ \/ task.stage = "idle" /\ index' = Linked(k, tags)
            \/ /\ task.stage = "link" /\ task.key = k /\ task.tags = tags
               /\ UNCHANGED index
  <2>1. CASE Goto(w, Idle) /\ index' = Linked(k, tags)
    BY <2>1, NewTasks
  <2>2. CASE Goto(w, [tasks[w] EXCEPT !.stage = "link"]) /\ UNCHANGED index
    BY <2>2, <1>1, <1>2, <1>3, StageMoves
  <2> QED
    BY <2>1, <2>2, <1>2, <1>3 DEF Put
<1>7. /\ tasks' \in [Requests \cup Keys -> Tasks] /\ tasks'[w] = task
      /\ \A v \in (Requests \cup Keys) \ {w} : tasks'[v] = tasks[v]
  BY <1>6, GotoDoes DEF TypeOK
<1>8. /\ index' \in [Tables -> SUBSET Keys]
      /\ \A t \in Tables : index[t] \subseteq index'[t]
      /\ TableOf[k] \in tags => k \in index'[TableOf[k]] \/ Linking(k)'
  <2>1. CASE task.stage = "idle" /\ index' = Linked(k, tags)
    BY <2>1, LinkedIs
  <2>2. CASE task.stage = "link" /\ task.key = k /\ task.tags = tags /\ UNCHANGED index
    BY <2>2, <1>7 DEF TypeOK, Linking, LinkingBy
  <2> QED
    BY <2>1, <2>2, <1>6
<1>9. TypeOK'
  BY <1>4, <1>5, <1>7, <1>8 DEF TypeOK
<1>10. /\ \A t : Pending(t) => Pending(t)'
       /\ \A j : Dropping(j) => Dropping(j)'
  BY <1>1, <1>4, <1>6, ActionsStay
<1>11. /\ \A j : Linking(j) => Linking(j)'
       /\ \A j \in Keys \ {k} : Replaced(j) => Replaced(j)'
  BY <1>1, <1>2, <1>7 DEF Linking, LinkingBy, Replaced, ReplacedBy
<1>12. \A v \in Requests \cup Keys : FillOK(v)'
  BY <1>4, <1>6, <1>10, FillsStay
<1>13. EntryOK(k)'
  <2>1. FillOK(w)
    BY DEF CacheInv
  <2> QED
    BY <2>1, <1>1, <1>2, <1>3, <1>4, <1>5, <1>10 DEF FillOK, EntryOK
<1>14. LinkOK(k)'
  BY <1>5, <1>8 DEF LinkOK
<1>15. ASSUME NEW j \in Keys \ {k} PROVE EntryOK(j)' /\ LinkOK(j)'
  BY <1>4, <1>5, <1>8, <1>10, <1>11, EntryStays, LinkStays, CacheAssumption DEF CacheAssumption
<1> QED
  BY <1>9, <1>12, <1>13, <1>14, <1>15 DEF CacheInv

LEMMA Links ==
    ASSUME Inv, NEW w \in Requests \cup Keys, Link(w)
    PROVE  Inv'
<1> USE DEF Inv
<1>1. tasks[w].stage = "link" /\ tasks[w] \in Storing
  BY Shape DEF Link, TypeOK
<1>2. PICK k \in Keys, tags \in SUBSET Tables : k = tasks[w].key /\ tags = tasks[w].tags
  BY <1>1 DEF Storing
<1>3. /\ Goto(w, Idle) /\ index' = Linked(k, tags)
      /\ UNCHANGED <<rows, entries, trace, crossed, dirty>>
  BY <1>2 DEF Link
<1>4. Idle \in Tasks /\ Idle.stage = "idle"
  BY NewTasks
<1>5. /\ tasks' \in [Requests \cup Keys -> Tasks] /\ tasks'[w] = Idle
      /\ \A v \in (Requests \cup Keys) \ {w} : tasks'[v] = tasks[v]
  BY <1>3, <1>4, GotoDoes DEF TypeOK
<1>6. /\ index' \in [Tables -> SUBSET Keys]
      /\ \A t \in tags : k \in index'[t]
      /\ \A t \in Tables : index[t] \subseteq index'[t]
  BY <1>3, LinkedIs
<1>7. TypeOK'
  BY <1>3, <1>5, <1>6 DEF TypeOK
<1>8. /\ \A t : Pending(t) => Pending(t)'
      /\ \A j : Dropping(j) => Dropping(j)'
  BY <1>1, <1>3, <1>4, ActionsStay
<1>9. \A j : Replaced(j) => Replaced(j)'
  BY <1>1, <1>5 DEF Replaced, ReplacedBy
<1>10. \A v \in Requests \cup Keys : FillOK(v)'
  BY <1>3, <1>4, <1>8, FillsStay
<1>11. ASSUME NEW j \in Keys PROVE EntryOK(j)' /\ LinkOK(j)'
  <2>1. EntryOK(j)'
    BY <1>3, <1>8, <1>9, EntryStays
  <2>2. Linking(j) => Linking(j)' \/ j \in index'[TableOf[j]]
    BY <1>1, <1>2, <1>5, <1>6 DEF Linking, LinkingBy
  <2>3. LinkOK(j)
    BY DEF CacheInv
  <2>4. j \in index[TableOf[j]] => j \in index'[TableOf[j]]
    BY <1>6, CacheAssumption DEF CacheAssumption
  <2>5. LinkOK(j)'
    BY <2>2, <2>3, <2>4, <1>3, <1>9 DEF LinkOK
  <2> QED
    BY <2>1, <2>5
<1> QED
  BY <1>7, <1>10, <1>11 DEF CacheInv

LEMMA Ages ==
    ASSUME Inv, NEW k \in Keys, Age(k)
    PROVE  Inv'
<1> USE DEF Inv
<1>1. UNCHANGED <<rows, index, trace, tasks, crossed, dirty>>
  BY DEF Age
<1>2. PICK age \in {"stale", "dead"} : entries' = [entries EXCEPT ![k].age = age]
  BY DEF Age
<1>3. PICK e : e = [entries[k] EXCEPT !.age = age]
  OBVIOUS
<1>4. e \in Versions /\ e.tags = entries[k].tags /\ e.value = entries[k].value
  BY <1>3 DEF TypeOK, Versions
<1>5. entries' = [entries EXCEPT ![k] = e]
  BY <1>2, <1>3
<1>6. /\ entries' \in [Keys -> Versions]
      /\ \A j \in Keys : entries'[j].tags = entries[j].tags /\ entries'[j].value = entries[j].value
  BY <1>4, <1>5 DEF TypeOK
<1>7. TypeOK'
  BY <1>1, <1>6 DEF TypeOK
<1>8. /\ \A t : Pending(t)' <=> Pending(t)
      /\ \A j : Dropping(j)' <=> Dropping(j)
      /\ \A j : Linking(j)' <=> Linking(j)
      /\ \A j : Replaced(j)' <=> Replaced(j)
  BY <1>1 DEF Pending, PendingBy, Dropping, Linking, LinkingBy, Replaced, ReplacedBy
<1>9. ASSUME NEW v \in Requests \cup Keys PROVE FillOK(v)'
  <2>1. FillOK(v)
    BY DEF CacheInv
  <2> QED
    BY <2>1, <1>1, <1>8 DEF FillOK
<1>10. \A j \in Keys : EntryOK(j)' /\ LinkOK(j)'
  BY <1>1, <1>6, <1>8, EntryStays, LinkStays
<1> QED
  BY <1>7, <1>9, <1>10 DEF CacheInv

LEMMA Writes ==
    ASSUME Inv, NEW r \in Requests, NEW t \in Tables, Write(r, t)
    PROVE  Inv'
<1> USE DEF Inv
<1>1. PICK task \in Tasks : Goto(r, task) /\ task.stage = "act"
  BY NewTasks DEF Write
<1>2. /\ tasks[r].stage \in {"idle", "act"}
      /\ UNCHANGED <<entries, index, crossed, dirty>>
  BY DEF Write
<1>3. /\ tasks' \in [Requests \cup Keys -> Tasks] /\ tasks'[r] = task
      /\ \A v \in (Requests \cup Keys) \ {r} : tasks'[v] = tasks[v]
  BY <1>1, GotoDoes DEF TypeOK
<1>4. /\ rows' \in [Tables -> Nat]
      /\ \A u \in Tables \ {t} : rows'[u] = rows[u]
  BY DEF Write, TypeOK
<1>5. /\ trace' \in [Requests -> [reads : SUBSET Tables, writes : SUBSET Tables]]
      /\ t \in trace'[r].writes
      /\ \A q \in Requests : trace[q].writes \subseteq trace'[q].writes
  <2>1. trace' = [trace EXCEPT ![r].writes = @ \cup {t}]
    BY DEF Write
  <2> QED
    BY <2>1 DEF TypeOK
<1>6. TypeOK'
  BY <1>2, <1>3, <1>4, <1>5 DEF TypeOK
<1>7. Pending(t)'
  BY <1>1, <1>3, <1>5 DEF Pending, PendingBy
<1>8. \A u : Pending(u) => Pending(u)'
  <2>1. \A q \in Requests : \A u : PendingBy(q, u) => PendingBy(q, u)'
    BY <1>1, <1>2, <1>3, <1>5 DEF PendingBy
  <2> QED
    BY <2>1, <1>2, PendingStays
<1>9. \A j : Dropping(j) => Dropping(j)'
  BY <1>2, <1>3 DEF Dropping
<1>10. /\ \A j : Linking(j) => Linking(j)'
       /\ \A j : Replaced(j) => Replaced(j)'
  BY <1>1, <1>2, StoresStay
<1>11. ASSUME NEW v \in Requests \cup Keys PROVE FillOK(v)'
  <2>1. CASE v = r
    BY <2>1, <1>1, <1>3 DEF FillOK
  <2>2. CASE v # r
    <3>1. FillOK(v) /\ tasks'[v] = tasks[v]
      BY <2>2, <1>3 DEF CacheInv
    <3>2. tasks[v].stage \in {"set", "put"} => tasks[v].key \in Keys
      BY Shape DEF TypeOK, Storing
    <3>3. \A j \in Keys : rows'[TableOf[j]] = rows[TableOf[j]] \/ Pending(TableOf[j])'
      BY <1>4, <1>7, CacheAssumption DEF CacheAssumption
    <3> QED
      BY <3>1, <3>2, <3>3, <1>2, <1>8 DEF FillOK
  <2> QED
    BY <2>1, <2>2
<1>12. ASSUME NEW j \in Keys PROVE EntryOK(j)' /\ LinkOK(j)'
  <2>1. rows'[TableOf[j]] = rows[TableOf[j]] \/ Pending(TableOf[j])'
    BY <1>4, <1>7, CacheAssumption DEF CacheAssumption
  <2>2. EntryOK(j) /\ LinkOK(j)
    BY DEF CacheInv
  <2>3. EntryOK(j)'
    BY <2>1, <2>2, <1>2, <1>8, <1>9, <1>10 DEF EntryOK
  <2>4. LinkOK(j)'
    BY <1>2, <1>10, LinkStays
  <2> QED
    BY <2>3, <2>4
<1> QED
  BY <1>6, <1>11, <1>12 DEF CacheInv

\* An action that throws or returns: what it wrote is dirty, or left to invalidate.
LEMMA ActionEnds ==
    ASSUME Inv, NEW r \in Requests, Throw(r) \/ Return(r)
    PROVE  Inv'
<1> USE DEF Inv
<1>1. /\ tasks[r].stage = "act" /\ trace[r].writes \in SUBSET Tables
      /\ UNCHANGED <<rows, entries, index, trace, crossed>>
  BY DEF Throw, Return, TypeOK
<1>2. PICK task \in Tasks :
         /\ Goto(r, task) /\ task.stage \in {"idle", "invalidate"}
         /\ \/ UNCHANGED dirty /\ \A t \in trace[r].writes : task.stage = "invalidate" /\ t \in task.left
            \/ dirty' = dirty \cup trace[r].writes
  <2>1. CASE Throw(r)
    BY <2>1, NewTasks DEF Throw
  <2>2. CASE Return(r)
    BY <2>2, <1>1, InvalidatingIs DEF Return
  <2> QED
    BY <2>1, <2>2
<1>3. /\ tasks' \in [Requests \cup Keys -> Tasks] /\ tasks'[r] = task
      /\ \A v \in (Requests \cup Keys) \ {r} : tasks'[v] = tasks[v]
  BY <1>2, GotoDoes DEF TypeOK
<1>4. TypeOK'
  BY <1>1, <1>2, <1>3 DEF TypeOK
<1>5. \A t : Pending(t) => Pending(t)'
  <2>1. \A q \in Requests : \A t : PendingBy(q, t) => PendingBy(q, t)' \/ t \in dirty'
    BY <1>1, <1>2, <1>3 DEF PendingBy
  <2> QED
    BY <2>1, <1>2 DEF Pending
<1>6. \A j : Dropping(j) => Dropping(j)'
  BY <1>1, <1>3 DEF Dropping
<1>7. /\ \A j : Linking(j) => Linking(j)'
      /\ \A j : Replaced(j) => Replaced(j)'
  BY <1>1, <1>2, StoresStay
<1>8. \A v \in Requests \cup Keys : FillOK(v)'
  BY <1>1, <1>2, <1>5, FillsStay
<1>9. \A j \in Keys : EntryOK(j)' /\ LinkOK(j)'
  BY <1>1, <1>5, <1>6, <1>7, EntryStays, LinkStays
<1> QED
  BY <1>4, <1>8, <1>9 DEF CacheInv

\* The keys of a table's index are as good as deleted; what is being stored has crossed it.
LEMMA Snapshots ==
    ASSUME Inv, NEW r \in Requests, NEW t \in Tables, Snapshot(r, t)
    PROVE  Inv'
<1> USE DEF Inv
<1>1. tasks[r].stage = "invalidate" /\ tasks[r] \in Waiting
  BY Shape DEF Snapshot, TypeOK
<1>2. PICK left \in SUBSET Tables : left = tasks[r].left \ {t}
  BY <1>1 DEF Waiting
<1>3. /\ UNCHANGED <<rows, entries, index, trace>>
      /\ crossed' = crossed \cup Filling(t) /\ dirty' = dirty \ {t}
  BY DEF Snapshot
<1>4. PICK task \in Tasks :
         /\ Goto(r, task) /\ task.stage \in {"idle", "invalidate", "drop"}
         /\ \A u \in left : task.stage \in {"invalidate", "drop"} /\ u \in task.left
         /\ \A k \in index[t] : task.stage = "drop" /\ k \in task.keys
  <2>1. CASE store = "memory" /\ index[t] = {}
    <3>1. Goto(r, Invalidating(left))
      BY <2>1, <1>2 DEF Snapshot
    <3> QED
      BY <2>1, <3>1, InvalidatingIs
  <2>2. CASE ~(store = "memory" /\ index[t] = {})
    <3>1. PICK task : task = [stage |-> "drop", table |-> t, keys |-> index[t], left |-> left]
      OBVIOUS
    <3>2. Goto(r, task)
      BY <2>2, <3>1, <1>2 DEF Snapshot
    <3>3. task \in Tasks
      BY <3>1, NewTasks DEF TypeOK
    <3>4. task.stage = "drop" /\ task.keys = index[t] /\ task.left = left
      BY <3>1
    <3> QED
      BY <3>2, <3>3, <3>4
  <2> QED
    BY <2>1, <2>2
<1>5. /\ tasks' \in [Requests \cup Keys -> Tasks] /\ tasks'[r] = task
      /\ \A v \in (Requests \cup Keys) \ {r} : tasks'[v] = tasks[v]
  BY <1>4, GotoDoes DEF TypeOK
<1>6. Filling(t) \subseteq Keys
  BY FilledAreKeys DEF Filling
<1>7. TypeOK'
  BY <1>3, <1>5, <1>6 DEF TypeOK
<1>8. \A u : u # t /\ Pending(u) => Pending(u)'
  <2>1. \A q \in Requests : \A u : u # t /\ PendingBy(q, u) => PendingBy(q, u)'
    BY <1>1, <1>2, <1>3, <1>4, <1>5 DEF PendingBy
  <2> QED
    BY <2>1, <1>3 DEF Pending
<1>9. \A j : Dropping(j) => Dropping(j)'
  BY <1>1, <1>5 DEF Dropping
<1>10. /\ \A j : Linking(j) => Linking(j)'
       /\ \A j : Replaced(j) => Replaced(j)'
  BY <1>1, <1>4, StoresStay
<1>11. \A v \in Requests \cup Keys :
          /\ tasks[v].stage \in {"set", "put", "link"}
          /\ TableOf[tasks[v].key] = t
          => tasks[v].key \in crossed'
  BY <1>3, FilledAreKeys DEF Filling
<1>12. ASSUME NEW v \in Requests \cup Keys PROVE FillOK(v)'
  <2>1. CASE v = r
    BY <2>1, <1>4, <1>5 DEF FillOK
  <2>2. CASE v # r
    <3>1. FillOK(v) /\ tasks'[v] = tasks[v]
      BY <2>2, <1>5 DEF CacheInv
    <3> QED
      BY <3>1, <1>3, <1>8, <1>11 DEF FillOK
  <2> QED
    BY <2>1, <2>2
<1>13. ASSUME NEW j \in Keys PROVE EntryOK(j)' /\ LinkOK(j)'
  <2>1. EntryOK(j) /\ LinkOK(j)
    BY DEF CacheInv
  <2>2. LinkOK(j)'
    BY <2>1, <1>3, <1>10, LinkStays
  <2>3. CASE TableOf[j] # t
    BY <2>1, <2>2, <2>3, <1>3, <1>8, <1>9, <1>10 DEF EntryOK
  <2>4. CASE TableOf[j] = t /\ j \in index[t]
    <3>1. Dropping(j)'
      BY <2>4, <1>4, <1>5 DEF Dropping
    <3> QED
      BY <2>2, <3>1 DEF EntryOK
  <2>5. CASE TableOf[j] = t /\ Linking(j)
    <3>1. j \in crossed'
      BY <2>5, <1>11 DEF Linking, LinkingBy
    <3> QED
      BY <2>2, <3>1 DEF EntryOK
  <2>6. CASE \/ Replaced(j) \/ TableOf[j] \notin entries[j].tags \/ j \in crossed
    <3>1. Replaced(j)' \/ TableOf[j] \notin entries'[j].tags \/ j \in crossed'
      BY <2>6, <1>3, <1>10
    <3> QED
      BY <2>2, <3>1 DEF EntryOK
  <2> QED
    BY <2>1, <2>3, <2>4, <2>5, <2>6 DEF LinkOK
<1> QED
  BY <1>7, <1>12, <1>13 DEF CacheInv

LEMMA DropsKey ==
    ASSUME Inv, NEW r \in Requests, NEW k \in Keys, DropKey(r, k)
    PROVE  Inv'
<1> USE DEF Inv
<1>1. tasks[r].stage = "drop" /\ tasks[r] \in Deleting
  BY Shape DEF DropKey, TypeOK
<1>2. PICK task : task = [tasks[r] EXCEPT !.keys = @ \ {k}]
  OBVIOUS
<1>3. /\ task \in Tasks /\ task.stage = "drop" /\ task.keys = tasks[r].keys \ {k}
      /\ task.left = tasks[r].left
  BY <1>1, <1>2, KeysDrop
<1>4. /\ Goto(r, task) /\ Delete(k) /\ UNCHANGED <<rows, trace, dirty>>
      /\ crossed' = crossed \cup Filling(tasks[r].table)
  BY <1>2 DEF DropKey
<1>5. /\ tasks' \in [Requests \cup Keys -> Tasks] /\ tasks'[r] = task
      /\ \A v \in (Requests \cup Keys) \ {r} : tasks'[v] = tasks[v]
  BY <1>3, <1>4, GotoDoes DEF TypeOK
<1>6. /\ entries' \in [Keys -> Versions] /\ entries'[k].tags = {}
      /\ \A j \in Keys \ {k} : entries'[j] = entries[j]
      /\ index' \in [Tables -> SUBSET Keys]
      /\ \A j \in Keys \ {k}, t \in Tables : j \in index'[t] <=> j \in index[t]
  BY <1>4, DeleteDoes
<1>7. TypeOK'
  <2>1. crossed' \subseteq Keys
    BY <1>4, FilledAreKeys DEF Filling, TypeOK
  <2> QED
    BY <2>1, <1>4, <1>5, <1>6 DEF TypeOK
<1>8. \A t : Pending(t) => Pending(t)'
  <2>1. \A q \in Requests : \A t : PendingBy(q, t) => PendingBy(q, t)'
    BY <1>1, <1>3, <1>4, <1>5 DEF PendingBy
  <2> QED
    BY <2>1, <1>4, PendingStays
<1>9. \A j \in Keys \ {k} : Dropping(j) => Dropping(j)'
  BY <1>1, <1>3, <1>5 DEF Dropping
<1>10. /\ \A j : Linking(j) => Linking(j)'
       /\ \A j : Replaced(j) => Replaced(j)'
  BY <1>1, <1>3, <1>4, StoresStay
<1>11. \A v \in Requests \cup Keys : FillOK(v)'
  BY <1>3, <1>4, <1>8, FillsStay
<1>12. EntryOK(k)' /\ LinkOK(k)'
  BY <1>6, DeletedIsFine
<1>13. ASSUME NEW j \in Keys \ {k} PROVE EntryOK(j)' /\ LinkOK(j)'
  BY <1>4, <1>6, <1>8, <1>9, <1>10, EntryStays, LinkStays, CacheAssumption DEF CacheAssumption
<1> QED
  BY <1>7, <1>11, <1>12, <1>13 DEF CacheInv

\* A key the tag still holds loses its link, which is an invalidation it crossed.
LEMMA DropsTag ==
    ASSUME Inv, NEW r \in Requests, DropTag(r)
    PROVE  Inv'
<1> USE DEF Inv
<1>1. tasks[r].stage = "drop" /\ tasks[r] \in Deleting /\ tasks[r].keys = {}
  BY Shape DEF DropTag, TypeOK
<1>2. PICK t \in Tables, left \in SUBSET Tables : t = tasks[r].table /\ left = tasks[r].left
  BY <1>1 DEF Deleting
<1>3. /\ Goto(r, Invalidating(left)) /\ index' = [index EXCEPT ![t] = {}]
      /\ crossed' = crossed \cup Filling(t) \cup index[t]
      /\ UNCHANGED <<rows, entries, trace, dirty>>
  BY <1>2 DEF DropTag
<1>4. PICK task \in Tasks :
         /\ Goto(r, task) /\ task.stage \in {"idle", "invalidate"}
         /\ \A u \in left : task.stage = "invalidate" /\ u \in task.left
  BY <1>3, InvalidatingIs
<1>5. /\ tasks' \in [Requests \cup Keys -> Tasks] /\ tasks'[r] = task
      /\ \A v \in (Requests \cup Keys) \ {r} : tasks'[v] = tasks[v]
  BY <1>4, GotoDoes DEF TypeOK
<1>6. TypeOK'
  <2>1. crossed' \subseteq Keys
    BY <1>3, FilledAreKeys DEF Filling, TypeOK
  <2>2. index' \in [Tables -> SUBSET Keys]
    BY <1>3 DEF TypeOK
  <2> QED
    BY <2>1, <2>2, <1>3, <1>5 DEF TypeOK
<1>7. \A u : Pending(u) => Pending(u)'
  <2>1. \A q \in Requests : \A u : PendingBy(q, u) => PendingBy(q, u)'
    BY <1>1, <1>2, <1>3, <1>4, <1>5 DEF PendingBy
  <2> QED
    BY <2>1, <1>3, PendingStays
<1>8. \A j : Dropping(j) => Dropping(j)'
  BY <1>1, <1>5 DEF Dropping
<1>9. /\ \A j : Linking(j) => Linking(j)'
      /\ \A j : Replaced(j) => Replaced(j)'
  BY <1>1, <1>4, StoresStay
<1>10. \A v \in Requests \cup Keys : FillOK(v)'
  BY <1>3, <1>4, <1>7, FillsStay
<1>11. ASSUME NEW j \in Keys PROVE EntryOK(j)' /\ LinkOK(j)'
  <2>1. EntryOK(j)'
    BY <1>3, <1>7, <1>8, <1>9, EntryStays
  <2>2. LinkOK(j)
    BY DEF CacheInv
  <2>3. j \in index[TableOf[j]] => j \in index'[TableOf[j]] \/ j \in crossed'
    BY <1>3, CacheAssumption DEF CacheAssumption, TypeOK
  <2>4. LinkOK(j)'
    BY <2>2, <2>3, <1>3, <1>9 DEF LinkOK
  <2> QED
    BY <2>1, <2>4
<1> QED
  BY <1>6, <1>10, <1>11 DEF CacheInv

LEMMA Responds ==
    ASSUME Inv, NEW r \in Requests, Respond(r)
    PROVE  Inv'
<1> USE DEF Inv
<1>1. /\ tasks[r].stage = "idle"
      /\ UNCHANGED <<rows, entries, index, tasks, crossed, dirty>>
  BY NewTasks DEF Respond
<1>2. /\ trace' \in [Requests -> [reads : SUBSET Tables, writes : SUBSET Tables]]
      /\ \A q \in Requests \ {r} : trace'[q] = trace[q]
  BY DEF Respond, TypeOK, NoTrace
<1>3. TypeOK'
  BY <1>1, <1>2 DEF TypeOK
<1>4. \A t : Pending(t) => Pending(t)'
  <2>1. \A q \in Requests : \A t : PendingBy(q, t) => PendingBy(q, t)'
    BY <1>1, <1>2 DEF PendingBy
  <2> QED
    BY <2>1, <1>1, PendingStays
<1>5. /\ \A j : Dropping(j) => Dropping(j)'
      /\ \A j : Linking(j) => Linking(j)'
      /\ \A j : Replaced(j) => Replaced(j)'
  BY <1>1 DEF Dropping, Linking, LinkingBy, Replaced, ReplacedBy
<1>6. ASSUME NEW v \in Requests \cup Keys PROVE FillOK(v)'
  <2>1. FillOK(v)
    BY DEF CacheInv
  <2> QED
    BY <2>1, <1>1, <1>4 DEF FillOK
<1>7. \A j \in Keys : EntryOK(j)' /\ LinkOK(j)'
  BY <1>1, <1>4, <1>5, EntryStays, LinkStays
<1> QED
  BY <1>3, <1>6, <1>7 DEF CacheInv

-----------------------------------------------------------------------------
(* The theorems.                                                           *)

LEMMA StartsWell == Init => Inv
<1> SUFFICES ASSUME Init PROVE Inv
  OBVIOUS
<1>1. /\ Nothing \in Versions /\ Nothing.tags = {} /\ Idle \in Tasks /\ Idle.stage = "idle"
  BY NewTasks DEF Nothing, Versions
<1>2. TypeOK
  BY <1>1 DEF Init, TypeOK, NoTrace
<1>3. CacheInv
  BY <1>1, CacheAssumption DEF Init, CacheInv, EntryOK, LinkOK, FillOK, CacheAssumption
<1> QED
  BY <1>2, <1>3 DEF Inv

LEMMA StepsKeep == Inv /\ [Next]_vars => Inv'
<1> SUFFICES ASSUME Inv, [Next]_vars PROVE Inv'
  OBVIOUS
<1>1. CASE \E r \in Requests : Action(r)
  BY <1>1, ActionEnds, Snapshots, DropsKey, DropsTag DEF Action
<1>2. CASE \E r \in Requests : Respond(r)
  BY <1>2, Responds
<1>3. CASE \E r \in Requests, k \in Keys : ServeStale(r, k) \/ Miss(r, k)
  BY <1>3, ServesStale, Misses
<1>4. CASE \E r \in Requests, t \in Tables : Write(r, t)
  BY <1>4, Writes
<1>5. CASE \E w \in Requests \cup Keys : Fill(w)
  BY <1>5, Computes, Fails, Clears, Puts, Links DEF Fill
<1>6. CASE \E k \in Keys : Age(k)
  BY <1>6, Ages
<1>7. CASE UNCHANGED vars
  BY <1>7 DEF vars, Inv, TypeOK, CacheInv, EntryOK, LinkOK, FillOK, Pending, PendingBy,
              Dropping, Linking, LinkingBy, Replaced, ReplacedBy
<1> QED
  BY <1>1, <1>2, <1>3, <1>4, <1>5, <1>6, <1>7 DEF Next, Rest

\* Every variable of the cache keeps its type.
THEOREM TypeCorrect == Spec => []TypeOK
<1>1. Inv => TypeOK
  BY DEF Inv
<1> QED
  BY <1>1, StartsWell, StepsKeep, PTL DEF Spec

\* When nothing is under way, an entry that is served is as its table is, but for the
\* three exceptions of Coherent.
THEOREM CacheIsCoherent == Spec => []Coherent
<1>1. Inv => Coherent
  <2> SUFFICES ASSUME Inv, AtRest, NEW k \in Keys
               PROVE  \/ entries[k].value = rows[TableOf[k]] \/ TableOf[k] \notin entries[k].tags
                      \/ TableOf[k] \in dirty \/ k \in crossed
    BY DEF Coherent
  <2>1. \A w \in Requests \cup Keys : tasks[w].stage = "idle"
    BY NewTasks DEF AtRest, Inv, TypeOK
  <2>2. ~Replaced(k) /\ ~Dropping(k)
    BY <2>1 DEF Replaced, ReplacedBy, Dropping
  <2>3. Pending(TableOf[k]) => TableOf[k] \in dirty
    BY <2>1 DEF Pending, PendingBy
  <2>4. EntryOK(k)
    BY DEF Inv, CacheInv
  <2> QED
    BY <2>2, <2>3, <2>4 DEF EntryOK
<1> QED
  BY <1>1, StartsWell, StepsKeep, PTL DEF Spec
=============================================================================
