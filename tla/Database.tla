------------------------------- MODULE Database -------------------------------
(***************************************************************************)
(* One SQLite database with a server and migrating processes:              *)
(*   - asyncSqlite of packages/june/src/sqlite-driver.ts: the requests of  *)
(*     a server share one connection, a transaction of one of them too;    *)
(*   - migrate() of packages/june/src/migrate.ts, run by processes that    *)
(*     open a connection each: `june dev`, `june db migrate`, `june db     *)
(*     types`, any of them twice or at once, and killed at any point.      *)
(*                                                                         *)
(* A write is a pair [by, nr], a statement of a migration a pair <<m, k>>. *)
(* BEGIN is deferred: a transaction locks the file from its first write,   *)
(* and a write of another connection then throws.  db.exec runs a script   *)
(* one statement at a time, each committed on its own.  The ledger's table *)
(* is there; the files of db/migrations do not change.                     *)
(***************************************************************************)
EXTENDS Integers, FiniteSets, FiniteSetsExt

CONSTANTS
    Transactions,   \* requests that run a transaction
    Writers,        \* requests that write outside of one
    Writes,         \* writes of a transaction
    Migrations,     \* how many files there are
    Statements,     \* statements of each
    Destructive,    \* the migrations that classify() flags
    Once,           \* those a second run of which throws (CREATE TABLE)
    Processes,      \* the migrating processes
    MaxRuns,        \* bound: starts of migrate()
    MaxFailures     \* bound: statements and callbacks that throw by themselves

ASSUME DatabaseAssumption ==
    /\ Transactions \intersect Writers = {}
    /\ Writes \in Nat \ {0} /\ Migrations \in Nat /\ Statements \in Nat \ {0}
    /\ Destructive \subseteq 1..Migrations /\ Once \subseteq 1..Migrations
    /\ MaxRuns \in Nat /\ MaxFailures \in Nat

VARIABLES
    rows,           \* the requests' writes that are committed
    ran,            \* the statements of migrations that are committed
    ledger,         \* _june_migrations
    conn,           \* the server's connection: whether it is in a transaction, and its writes
    req,            \* how far each request is
    proc,           \* how far each migrating process is
    used            \* what the bounds count

server == <<rows, conn, req>>
vars == <<server, ran, ledger, proc, used>>

Within(what, bound) == used[what] < bound /\ used' = [used EXCEPT ![what] = @ + 1]
Throws == Within("failures", MaxFailures)

Closed == [open |-> FALSE, writes |-> {}]
Off == [pc |-> "off", already |-> {}, at |-> 0, next |-> 1, consent |-> FALSE]

Init ==
    /\ rows = {} /\ ran = {} /\ ledger = {} /\ conn = Closed
    /\ req = [q \in Transactions \union Writers |-> [pc |-> "new", wrote |-> 0]]
    /\ proc = [p \in Processes |-> Off]
    /\ used = [runs |-> 0, failures |-> 0]
-----------------------------------------------------------------------------
(* Requests.                                                               *)

ByRequest == UNCHANGED <<ran, ledger, proc>>

\* A statement of any request goes where the connection is: into the transaction
\* that is open, whoever's it is, or straight into the file.
WriteRow(w) ==
    IF conn.open THEN conn' = [conn EXCEPT !.writes = @ \union {w}] /\ rows' = rows
                 ELSE conn' = conn /\ rows' = rows \union {w}

Commit == rows' = rows \union conn.writes /\ conn' = Closed
Rollback == conn' = Closed /\ rows' = rows

Goes(q, pc) == req' = [req EXCEPT ![q].pc = pc]

\* Mutant: BEGIN inside the try, so that the catch rolls back what is open.
BeginInTry(q) ==
    /\ req[q].pc = "new"
    /\ IF conn.open THEN Rollback /\ Goes(q, "failed")
       ELSE conn' = [Closed EXCEPT !.open = TRUE] /\ rows' = rows /\ Goes(q, "open")
    /\ used' = used /\ ByRequest

\* transaction(): BEGIN throws within a transaction, before the try.
Begin(q) ==
    /\ req[q].pc = "new"
    /\ IF conn.open THEN UNCHANGED <<conn, rows>> /\ Goes(q, "failed")
       ELSE conn' = [Closed EXCEPT !.open = TRUE] /\ rows' = rows /\ Goes(q, "open")
    /\ used' = used /\ ByRequest

WriteInside(q) ==
    /\ req[q].pc = "open" /\ req[q].wrote < Writes
    /\ WriteRow([by |-> q, nr |-> req[q].wrote + 1])
    /\ req' = [req EXCEPT ![q].wrote = @ + 1]
    /\ used' = used /\ ByRequest

CommitInside(q) ==
    /\ req[q].pc = "open" /\ req[q].wrote = Writes
    /\ Commit /\ Goes(q, "done")
    /\ used' = used /\ ByRequest

\* The callback, a statement of it or COMMIT throws.
RollbackInside(q) ==
    /\ req[q].pc = "open" /\ Throws
    /\ Rollback /\ Goes(q, "failed")
    /\ ByRequest

Write(q) ==
    /\ req[q].pc = "new"
    /\ WriteRow([by |-> q, nr |-> 1]) /\ Goes(q, "done")
    /\ used' = used /\ ByRequest

ServerDies ==
    /\ Throws /\ Rollback
    /\ req' = [q \in DOMAIN req |-> IF req[q].pc = "open" THEN [req[q] EXCEPT !.pc = "failed"] ELSE req[q]]
    /\ ByRequest
-----------------------------------------------------------------------------
(* migrate().                                                              *)

Locked == conn.writes # {}
Pending(p) == {m \in 1..Migrations : m \notin proc[p].already /\ m > proc[p].at}

Is(p, pc) == proc[p].pc = pc
ProcGoes(p, pc) == proc' = [proc EXCEPT ![p].pc = pc]

Start(p) ==
    /\ proc[p].pc \in {"off", "done", "blocked", "failed"}
    /\ Within("runs", MaxRuns)
    /\ \E consent \in BOOLEAN : proc' = [proc EXCEPT ![p] = [Off EXCEPT !.pc = "open", !.consent = consent]]
    /\ UNCHANGED <<server, ran, ledger>>

\* appliedIds(): read once, before the files.
ReadLedger(p) ==
    /\ Is(p, "open")
    /\ proc' = [proc EXCEPT ![p].pc = "next", ![p].already = ledger]
    /\ UNCHANGED <<server, ran, ledger, used>>

\* Mutant: a destructive migration is left out, and the next one taken.
SkipsBlocked(p, m) ==
    IF m \in Destructive /\ ~proc[p].consent
    THEN [proc[p] EXCEPT !.at = m]
    ELSE [proc[p] EXCEPT !.pc = "script", !.at = m, !.next = 1]

\* The gate: a destructive migration stops the run unless it has consent.
Taken(p, m) ==
    IF m \in Destructive /\ ~proc[p].consent
    THEN [proc[p] EXCEPT !.pc = "blocked"]
    ELSE [proc[p] EXCEPT !.pc = "script", !.at = m, !.next = 1]

Take(p) ==
    /\ Is(p, "next")
    /\ proc' = [proc EXCEPT ![p] = IF Pending(p) = {} THEN [@ EXCEPT !.pc = "done"]
                                   ELSE Taken(p, Min(Pending(p)))]
    /\ UNCHANGED <<server, ran, ledger, used>>

Statement(p) == <<proc[p].at, proc[p].next>>
CannotRun(p) == Locked \/ (proc[p].at \in Once /\ Statement(p) \in ran)

ExecThrows(p) ==
    /\ Is(p, "script")
    /\ IF CannotRun(p) THEN used' = used ELSE Throws
    /\ ProcGoes(p, "failed")
    /\ UNCHANGED <<server, ran, ledger>>

\* Mutant: the script goes through a prepared statement, which is its first.
ExecFirstOnly(p) ==
    /\ Is(p, "script") /\ ~CannotRun(p)
    /\ ran' = ran \union {Statement(p)}
    /\ proc' = [proc EXCEPT ![p].next = Statements + 1, ![p].pc = "record"]
    /\ UNCHANGED <<server, ledger, used>>

Executed(at) == [at EXCEPT !.next = @ + 1, !.pc = IF at.next = Statements THEN "record" ELSE @]

Exec(p) ==
    /\ Is(p, "script") /\ ~CannotRun(p)
    /\ ran' = ran \union {Statement(p)}
    /\ proc' = [proc EXCEPT ![p] = Executed(proc[p])]
    /\ UNCHANGED <<server, ledger, used>>

\* The ledger's row, whose id is a primary key: a process that lost a race fails here.
Record(p) ==
    /\ Is(p, "record")
    /\ IF Locked \/ proc[p].at \in ledger
       THEN ProcGoes(p, "failed") /\ ledger' = ledger
       ELSE ProcGoes(p, "next") /\ ledger' = ledger \union {proc[p].at}
    /\ UNCHANGED <<server, ran, used>>

Killed(p) ==
    /\ proc[p].pc \in {"open", "next", "script", "record"} /\ Throws
    /\ proc' = [proc EXCEPT ![p] = Off]
    /\ UNCHANGED <<server, ran, ledger>>

Next ==
    \/ \E q \in Transactions : Begin(q) \/ WriteInside(q) \/ CommitInside(q) \/ RollbackInside(q)
    \/ \E q \in Writers : Write(q)
    \/ ServerDies
    \/ \E p \in Processes :
          \/ Start(p) \/ ReadLedger(p) \/ Take(p) \/ Exec(p) \/ ExecThrows(p)
          \/ Record(p) \/ Killed(p)

Spec == Init /\ [][Next]_vars
-----------------------------------------------------------------------------
\* A migration in the ledger has run to its last statement, whoever was killed,
\* locked out or overtaken meanwhile: nobody skips one that is half there.
LedgerTellsTruth ==
    \A m \in ledger : \A k \in 1..Statements : <<m, k>> \in ran

\* No statement of a migration runs before every earlier migration is recorded, by
\* whichever process; a blocked one holds back those behind it.
FilesInOrder ==
    \A s \in ran : 1..s[1]-1 \subseteq ledger

RowsOf(q) == {w \in rows : w.by = q}

\* A transaction's own writes are committed all or not at all, and all once it has
\* returned, although requests write in one another's transactions and a second
\* BEGIN throws in the middle of the first.
AllOrNothing ==
    \A q \in Transactions :
        /\ Cardinality(RowsOf(q)) \in {0, Writes}
        /\ req[q].pc = "done" => Cardinality(RowsOf(q)) = Writes
        /\ req[q].pc = "failed" => RowsOf(q) = {}
=============================================================================
