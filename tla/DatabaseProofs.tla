---------------------------- MODULE DatabaseProofs ----------------------------
(***************************************************************************)
(* What holds of the database for every value of the constants: any number *)
(* of requests on the server's connection, any number of processes that    *)
(* migrate, overtake one another and are killed.                           *)
(***************************************************************************)
EXTENDS Database, FiniteSetTheorems, WellFoundedInduction, TLAPS

-----------------------------------------------------------------------------
(* Migrations.                                                             *)

Stages == {"off", "open", "next", "script", "record", "done", "blocked", "failed"}

\* Where a process is, and what it may rely on there: the files behind it are recorded,
\* and of the one it runs the statements before the next have run.
ProcOk(p) ==
    /\ p \in [pc : Stages, already : SUBSET Nat, at : Nat, next : Nat, consent : BOOLEAN]
    /\ p.already \subseteq ledger
    /\ p.pc \in {"open", "next"} => 1..p.at \subseteq ledger
    /\ p.pc \in {"script", "record"} =>
         /\ p.at \in 1..Migrations /\ 1..p.at-1 \subseteq ledger
         /\ \A k \in 1..p.next-1 : <<p.at, k>> \in ran
    /\ p.pc = "script" => p.next \in 1..Statements
    /\ p.pc = "record" => p.next = Statements + 1

MigrationInv ==
    /\ ledger \subseteq Nat
    /\ proc \in [Processes -> [pc : Stages, already : SUBSET Nat, at : Nat, next : Nat, consent : BOOLEAN]]
    /\ \A p \in Processes : ProcOk(proc[p])
    /\ LedgerTellsTruth /\ FilesInOrder

LEMMA OffIsOk == ProcOk(Off)
  BY DEF ProcOk, Off, Stages

LEMMA MigrationInit == Init => MigrationInv
  BY OffIsOk DEF Init, MigrationInv, LedgerTellsTruth, FilesInOrder, ProcOk

\* The least of some files is one of them, and no other is before it.
LEMMA LeastFile ==
    ASSUME NEW S \in SUBSET Nat, S # {}
    PROVE  Min(S) \in S /\ \A m \in S : Min(S) <= m
<1>1. PICK m \in S : \A n \in S : ~(<<n, m>> \in OpToRel(<, Nat))
  BY WFMin, NatLessThanWellFounded
<1>2. \A n \in S : ~(n < m)
  BY <1>1 DEF OpToRel
<1>3. \A n \in S : m <= n
  BY <1>2
<1> QED
  BY <1>3 DEF Min

\* A step of one process that adds to what has run, or to the ledger.
LEMMA OneProcessMoves ==
    ASSUME MigrationInv, NEW p \in Processes, NEW new, proc' = [proc EXCEPT ![p] = new],
           ran \subseteq ran', ledger \subseteq ledger', ledger' \subseteq Nat,
           \A r : r = new => ProcOk(r)',
           LedgerTellsTruth', FilesInOrder'
    PROVE  MigrationInv'
<1>1. \A r : ProcOk(r) => ProcOk(r)'
  BY DEF ProcOk
<1>2. ProcOk(new)'
  OBVIOUS
<1>3. new \in [pc : Stages, already : SUBSET Nat, at : Nat, next : Nat, consent : BOOLEAN]
  BY <1>2 DEF ProcOk
<1>4. proc' \in [Processes -> [pc : Stages, already : SUBSET Nat, at : Nat, next : Nat, consent : BOOLEAN]]
  BY <1>3 DEF MigrationInv
<1>5. ASSUME NEW q \in Processes, NEW r, r = proc'[q] PROVE ProcOk(r)'
  <2>1. CASE q = p
    BY <1>5, <2>1 DEF MigrationInv
  <2>2. CASE q # p
    BY <1>1, <1>5, <2>2 DEF MigrationInv
  <2> QED
    BY <2>1, <2>2
<1> QED
  BY <1>4, <1>5 DEF MigrationInv

LEMMA MigrationNext == MigrationInv /\ [Next]_vars => MigrationInv'
<1> SUFFICES ASSUME MigrationInv, [Next]_vars PROVE MigrationInv'
  OBVIOUS
<1> DEFINE Proc == [pc : Stages, already : SUBSET Nat, at : Nat, next : Nat, consent : BOOLEAN]
<1>o. ASSUME NEW p \in Processes PROVE proc[p] \in Proc /\ ProcOk(proc[p])
  BY DEF MigrationInv
<1>u. ASSUME ran' = ran, ledger' = ledger PROVE LedgerTellsTruth' /\ FilesInOrder'
  BY <1>u DEF MigrationInv, LedgerTellsTruth, FilesInOrder
<1>r. ASSUME UNCHANGED <<ran, ledger, proc>> PROVE MigrationInv'
  BY <1>r DEF MigrationInv, LedgerTellsTruth, FilesInOrder, ProcOk
<1>1. ASSUME NEW q, Begin(q) \/ WriteInside(q) \/ CommitInside(q) \/ RollbackInside(q) \/ Write(q)
      PROVE  MigrationInv'
  BY <1>r, <1>1 DEF Begin, WriteInside, CommitInside, RollbackInside, Write, ByRequest
<1>2. CASE ServerDies
  BY <1>r, <1>2 DEF ServerDies, ByRequest
<1>k. ASSUME NEW p \in Processes, NEW new, ProcOk(new), proc' = [proc EXCEPT ![p] = new],
             ran' = ran, ledger' = ledger
      PROVE  MigrationInv'
  <2>1. \A r : r = new => ProcOk(r)'
    BY <1>k DEF ProcOk
  <2> QED
    BY <1>k, <1>u, <2>1, OneProcessMoves DEF MigrationInv
<1>3. ASSUME NEW p \in Processes, Start(p) PROVE MigrationInv'
  <2>1. PICK consent \in BOOLEAN : proc' = [proc EXCEPT ![p] = [Off EXCEPT !.pc = "open", !.consent = consent]]
    BY <1>3 DEF Start
  <2>2. ProcOk([Off EXCEPT !.pc = "open", !.consent = consent])
    <3>1. PICK r : r = [Off EXCEPT !.pc = "open", !.consent = consent]
      OBVIOUS
    <3>2. r \in Proc /\ r.pc = "open" /\ r.already = {} /\ r.at = 0
      BY <3>1 DEF Off, Stages
    <3> QED
      BY <3>1, <3>2 DEF ProcOk
  <2> QED
    BY <1>3, <1>k, <2>1, <2>2 DEF Start, server
<1>4. ASSUME NEW p \in Processes, ReadLedger(p) PROVE MigrationInv'
  <2> DEFINE new == [proc[p] EXCEPT !.pc = "next", !.already = ledger]
  <2>1. ProcOk(new)
    BY <1>4, <1>o DEF ReadLedger, Is, ProcOk, MigrationInv, Stages
  <2>2. proc' = [proc EXCEPT ![p] = new]
    BY <1>4 DEF ReadLedger
  <2> QED
    BY <1>4, <1>k, <2>1, <2>2 DEF ReadLedger, server
<1>5. ASSUME NEW p \in Processes, Take(p) PROVE MigrationInv'
  <2>0. proc[p].pc = "next"
    BY <1>5 DEF Take, Is
  <2>1. CASE Pending(p) = {}
    <3> DEFINE new == [proc[p] EXCEPT !.pc = "done"]
    <3>1. ProcOk(new)
      BY <1>o DEF ProcOk, Stages
    <3>2. proc' = [proc EXCEPT ![p] = new]
      BY <1>5, <2>1 DEF Take
    <3> QED
      BY <1>5, <1>k, <3>1, <3>2 DEF Take, server
  <2>2. CASE Pending(p) # {}
    <3> DEFINE m == Min(Pending(p))
    <3>1. Pending(p) \in SUBSET Nat
      BY DatabaseAssumption DEF Pending
    <3>2. m \in Pending(p) /\ \A n \in Pending(p) : m <= n
      BY <2>2, <3>1, LeastFile
    <3>3. m \in 1..Migrations
      BY <3>2 DEF Pending
    <3>4. 1..m-1 \subseteq ledger
      <4> SUFFICES ASSUME NEW n \in 1..m-1 PROVE n \in ledger
        OBVIOUS
      <4>1. n \in 1..Migrations /\ n \in Nat /\ ~(m <= n)
        BY <3>3, DatabaseAssumption
      <4>2. n \in proc[p].already \/ n <= proc[p].at
        BY <1>o, <3>2, <4>1 DEF Pending
      <4> QED
        BY <1>o, <2>0, <4>1, <4>2 DEF ProcOk
    <3>5. ProcOk(Taken(p, m))
      <4> HIDE DEF m
      <4>1. CASE m \in Destructive /\ ~proc[p].consent
        BY <1>o, <4>1 DEF Taken, ProcOk, Stages
      <4>2. CASE ~(m \in Destructive /\ ~proc[p].consent)
        <5>1. PICK r : r = Taken(p, m) /\ r = [proc[p] EXCEPT !.pc = "script", !.at = m, !.next = 1]
          BY <4>2 DEF Taken
        <5>p. proc[p] \in Proc /\ m \in Nat
          BY <1>o, <3>3, DatabaseAssumption
        <5>2. /\ r.pc = "script" /\ r.at = m /\ r.next = 1 /\ r.already = proc[p].already
              /\ r \in Proc
          <6>1. PICK a : a = [proc[p] EXCEPT !.pc = "script"]
            OBVIOUS
          <6>2. a \in Proc /\ a.pc = "script" /\ a.already = proc[p].already
            BY <5>p, <6>1 DEF Stages
          <6>3. PICK b : b = [a EXCEPT !.at = m]
            OBVIOUS
          <6>4. b \in Proc /\ b.pc = "script" /\ b.already = proc[p].already /\ b.at = m
            BY <5>p, <6>2, <6>3
          <6>5. r = [b EXCEPT !.next = 1]
            BY <5>1, <6>1, <6>3
          <6> QED
            BY <6>4, <6>5
        <5>3. r.already \subseteq ledger
          BY <1>o, <5>2 DEF ProcOk
        <5> QED
          BY <3>3, <3>4, <5>1, <5>2, <5>3, DatabaseAssumption DEF ProcOk
      <4> QED
        BY <4>1, <4>2
    <3>6. proc' = [proc EXCEPT ![p] = Taken(p, m)]
      BY <1>5, <2>2 DEF Take
    <3> QED
      BY <1>5, <1>k, <3>5, <3>6 DEF Take, server
  <2> QED
    BY <2>1, <2>2
<1>6. ASSUME NEW p \in Processes, Exec(p) PROVE MigrationInv'
  <2> DEFINE new == Executed(proc[p])
  <2>0. /\ proc[p].pc = "script" /\ proc[p] \in Proc /\ ledger' = ledger
        /\ ran' = ran \union {<<proc[p].at, proc[p].next>>} /\ proc[p].next \in 1..Statements
        /\ proc[p].at \in 1..Migrations /\ 1..proc[p].at-1 \subseteq ledger
    BY <1>6, <1>o DEF Exec, Is, Statement, ProcOk, server
  <2>1. proc' = [proc EXCEPT ![p] = new]
    BY <1>6, <1>o DEF Exec, MigrationInv
  <2>2. ASSUME NEW r, r = new PROVE ProcOk(r)'
    <3>1. /\ r.pc \in {"script", "record"} /\ r.at = proc[p].at /\ r.next = proc[p].next + 1
          /\ r.already = proc[p].already /\ r \in Proc
          /\ r.pc = "record" <=> proc[p].next = Statements
      <4>1. CASE proc[p].next = Statements
        <5>1. r = [proc[p] EXCEPT !.next = @ + 1, !.pc = "record"]
          BY <2>2, <4>1 DEF Executed
        <5> QED
          <6>1. PICK a : a = [proc[p] EXCEPT !.next = @ + 1]
            OBVIOUS
          <6>2. a \in Proc /\ a.at = proc[p].at /\ a.already = proc[p].already /\ a.next = proc[p].next + 1
            BY <2>0, <6>1
          <6>3. r = [a EXCEPT !.pc = "record"]
            BY <5>1, <6>1
          <6> QED
            BY <4>1, <6>2, <6>3 DEF Stages
      <4>2. CASE proc[p].next # Statements
        <5>1. r = [proc[p] EXCEPT !.next = @ + 1]
          BY <2>0, <2>2, <4>2 DEF Executed
        <5> QED
          BY <2>0, <4>2, <5>1 DEF Stages
      <4> QED
        BY <4>1, <4>2
    <3>2. \A k \in 1..r.next-1 : <<r.at, k>> \in ran'
      BY <1>o, <2>0, <3>1 DEF ProcOk
    <3>3. r.already \subseteq ledger'
      BY <1>o, <2>0, <3>1 DEF ProcOk
    <3> QED
      BY <2>0, <3>1, <3>2, <3>3, DatabaseAssumption DEF ProcOk
  <2>3. LedgerTellsTruth'
    BY <2>0 DEF LedgerTellsTruth, MigrationInv
  <2>4. FilesInOrder'
    BY <2>0 DEF FilesInOrder, MigrationInv
  <2> QED
    BY <2>0, <2>1, <2>2, <2>3, <2>4, OneProcessMoves DEF MigrationInv
<1>7. ASSUME NEW p \in Processes, ExecThrows(p) \/ Killed(p) PROVE MigrationInv'
  <2>1. CASE ExecThrows(p)
    <3> DEFINE new == [proc[p] EXCEPT !.pc = "failed"]
    <3>1. ProcOk(new)
      BY <1>o DEF ProcOk, Stages
    <3>2. proc' = [proc EXCEPT ![p] = new]
      BY <2>1 DEF ExecThrows, ProcGoes
    <3> QED
      BY <1>k, <2>1, <3>1, <3>2 DEF ExecThrows, server
  <2>2. CASE Killed(p)
    BY <1>k, <2>2, OffIsOk DEF Killed, server
  <2> QED
    BY <1>7, <2>1, <2>2
<1>8. ASSUME NEW p \in Processes, Record(p) PROVE MigrationInv'
  <2>0. /\ proc[p].pc = "record" /\ proc[p] \in Proc /\ ran' = ran
        /\ proc[p].at \in 1..Migrations /\ 1..proc[p].at-1 \subseteq ledger
        /\ \A k \in 1..Statements : <<proc[p].at, k>> \in ran
    BY <1>8, <1>o, DatabaseAssumption DEF Record, Is, ProcOk, server
  <2>1. CASE Locked \/ proc[p].at \in ledger
    <3> DEFINE new == [proc[p] EXCEPT !.pc = "failed"]
    <3>1. ProcOk(new)
      BY <1>o DEF ProcOk, Stages
    <3>2. proc' = [proc EXCEPT ![p] = new] /\ ledger' = ledger
      BY <1>8, <2>1 DEF Record, ProcGoes
    <3> QED
      BY <1>k, <2>0, <3>1, <3>2
  <2>2. CASE ~(Locked \/ proc[p].at \in ledger)
    <3> DEFINE new == [proc[p] EXCEPT !.pc = "next"]
    <3>1. proc' = [proc EXCEPT ![p] = new] /\ ledger' = ledger \union {proc[p].at}
      BY <1>8, <2>2 DEF Record, ProcGoes
    <3>2. ASSUME NEW r, r = new PROVE ProcOk(r)'
      <4>1. r.pc = "next" /\ r.at = proc[p].at /\ r.already = proc[p].already /\ r \in Proc
        BY <2>0, <3>2 DEF Stages
      <4>2. r.already \subseteq ledger'
        BY <1>o, <3>1, <4>1 DEF ProcOk
      <4>3. 1..r.at \subseteq ledger'
        BY <2>0, <3>1, <4>1
      <4> QED
        BY <4>1, <4>2, <4>3 DEF ProcOk
    <3>3. LedgerTellsTruth'
      BY <2>0, <3>1 DEF LedgerTellsTruth, MigrationInv
    <3>4. FilesInOrder'
      BY <2>0, <3>1 DEF FilesInOrder, MigrationInv
    <3>5. ledger' \subseteq Nat
      BY <2>0, <3>1 DEF MigrationInv
    <3> QED
      BY <2>0, <3>1, <3>2, <3>3, <3>4, <3>5, OneProcessMoves
  <2> QED
    BY <2>1, <2>2
<1>9. CASE UNCHANGED vars
  BY <1>r, <1>9 DEF vars
<1> QED
  BY <1>1, <1>2, <1>3, <1>4, <1>5, <1>6, <1>7, <1>8, <1>9 DEF Next

\* A migration in the ledger has run to its end, however many processes migrate at once,
\* overtake one another, are locked out or are killed.
THEOREM LedgerIsTrue == Spec => []LedgerTellsTruth
<1>1. MigrationInv => LedgerTellsTruth
  BY DEF MigrationInv
<1> QED
  BY MigrationInit, MigrationNext, <1>1, PTL DEF Spec

\* And no statement of a migration runs before the migrations before it are recorded.
THEOREM FilesRunInOrder == Spec => []FilesInOrder
<1>1. MigrationInv => FilesInOrder
  BY DEF MigrationInv
<1> QED
  BY MigrationInit, MigrationNext, <1>1, PTL DEF Spec
-----------------------------------------------------------------------------
(* Transactions.                                                           *)

Requests == Transactions \union Writers
Written(q, n) == [by : {q}, nr : 1..n]
Own(q) == {w \in conn.writes : w.by = q}

\* The writes of a transaction are on the connection while it is open, in the file once
\* it is done, and nowhere otherwise.
TxnOk(q) ==
    /\ req[q].pc \in {"new", "failed"} => RowsOf(q) = {} /\ Own(q) = {}
    /\ req[q].pc = "new" => req[q].wrote = 0
    /\ req[q].pc = "open" => /\ conn.open /\ RowsOf(q) = {} /\ req[q].wrote <= Writes
                             /\ Own(q) = Written(q, req[q].wrote)
    /\ req[q].pc = "done" => RowsOf(q) = Written(q, Writes) /\ Own(q) = {}

TxnInv ==
    /\ conn \in [open : BOOLEAN, writes : SUBSET [by : Requests, nr : Nat]]
    /\ rows \subseteq [by : Requests, nr : Nat]
    /\ req \in [Requests -> [pc : {"new", "open", "done", "failed"}, wrote : Nat]]
    /\ ~conn.open => conn.writes = {}
    /\ \A q \in Transactions : TxnOk(q)
    /\ \A q, r \in Transactions : req[q].pc = "open" /\ req[r].pc = "open" => q = r

LEMMA WrittenSize ==
    ASSUME NEW q, NEW n \in Nat
    PROVE  Cardinality(Written(q, n)) = n
<1> DEFINE f == [i \in 1..n |-> [by |-> q, nr |-> i]]
<1>1. f \in [1..n -> Written(q, n)]
  BY DEF Written
<1>2. IsInjective(f)
  <2> SUFFICES ASSUME NEW a \in 1..n, NEW b \in 1..n, f[a] = f[b] PROVE a = b
    BY DEF IsInjective
  <2>1. f[a].nr = a /\ f[b].nr = b
    OBVIOUS
  <2> QED
    BY <2>1
<1>3. \A w \in Written(q, n) : \E i \in 1..n : f[i] = w
  BY DEF Written
<1>4. f \in Bijection(1..n, Written(q, n))
  BY <1>1, <1>2, <1>3 DEF Bijection, Injection, Surjection
<1>5. ExistsBijection(1..n, Written(q, n))
  BY <1>4 DEF ExistsBijection
<1> QED
  BY <1>5, FS_CountingElements

LEMMA WrittenGrows ==
    ASSUME NEW q, NEW n \in Nat
    PROVE  Written(q, n) \union {[by |-> q, nr |-> n + 1]} = Written(q, n + 1)
<1>1. 1..n+1 = 1..n \union {n + 1}
  OBVIOUS
<1>2. ASSUME NEW v PROVE v \in Written(q, n + 1) <=> v \in Written(q, n) \/ v = [by |-> q, nr |-> n + 1]
  <2>1. v \in [by : {q}, nr : 1..n+1] <=> \E i \in 1..n+1 : v = [by |-> q, nr |-> i]
    OBVIOUS
  <2>2. v \in [by : {q}, nr : 1..n] <=> \E i \in 1..n : v = [by |-> q, nr |-> i]
    OBVIOUS
  <2> QED
    BY <1>1, <2>1, <2>2 DEF Written
<1> QED
  BY <1>2

LEMMA TxnInit == Init => TxnInv
<1> SUFFICES ASSUME Init PROVE TxnInv
  OBVIOUS
<1>1. \A q \in Requests : req[q].pc = "new" /\ req[q].wrote = 0
  BY DEF Init, Requests
<1>2. rows = {} /\ conn = Closed
  BY DEF Init
<1>3. \A q \in Transactions : TxnOk(q)
  BY <1>1, <1>2 DEF TxnOk, RowsOf, Own, Closed, Requests
<1>4. req \in [Requests -> [pc : {"new", "open", "done", "failed"}, wrote : Nat]]
  BY DEF Init, Requests
<1> QED
  BY <1>1, <1>2, <1>3, <1>4 DEF TxnInv, Closed, Requests

\* A transaction that a step leaves alone: its request, and its writes.
LEMMA TxnStays ==
    ASSUME NEW q, TxnOk(q), req'[q] = req[q],
           {w \in rows' : w.by = q} = RowsOf(q), {w \in conn'.writes : w.by = q} = Own(q),
           req[q].pc = "open" => conn'.open
    PROVE  TxnOk(q)'
  BY DEF TxnOk, RowsOf, Own

\* A transaction that failed, or never began, has no write anywhere.
LEMMA TxnGone ==
    ASSUME NEW q, TxnOk(q), req[q].pc \in {"new", "open"}, req'[q].pc = "failed",
           rows' = rows, {w \in conn'.writes : w.by = q} = {}
    PROVE  TxnOk(q)'
  BY DEF TxnOk, RowsOf, Own

LEMMA TxnNext == TxnInv /\ [Next]_vars => TxnInv'
<1> SUFFICES ASSUME TxnInv, [Next]_vars PROVE TxnInv'
  OBVIOUS
<1> DEFINE Req == [pc : {"new", "open", "done", "failed"}, wrote : Nat]
<1>t. /\ conn \in [open : BOOLEAN, writes : SUBSET [by : Requests, nr : Nat]]
      /\ rows \subseteq [by : Requests, nr : Nat]
      /\ req \in [Requests -> Req]
      /\ ~conn.open => conn.writes = {}
  BY DEF TxnInv
<1>q. ASSUME NEW q \in Transactions PROVE TxnOk(q) /\ req[q] \in Req /\ q \in Requests
  BY DEF TxnInv, Requests
<1>c. /\ Closed \in [open : BOOLEAN, writes : SUBSET [by : Requests, nr : Nat]]
      /\ Closed.open = FALSE /\ Closed.writes = {}
      /\ [Closed EXCEPT !.open = TRUE] \in [open : BOOLEAN, writes : SUBSET [by : Requests, nr : Nat]]
      /\ [Closed EXCEPT !.open = TRUE].open = TRUE /\ [Closed EXCEPT !.open = TRUE].writes = {}
  BY DEF Closed
<1>g. ASSUME NEW q \in Requests, NEW pc \in {"new", "open", "done", "failed"}, Goes(q, pc)
      PROVE  /\ req' \in [Requests -> Req]
             /\ req'[q].pc = pc /\ req'[q].wrote = req[q].wrote
             /\ \A r \in Requests \ {q} : req'[r] = req[r]
  BY <1>t, <1>g DEF Goes
<1>1. ASSUME NEW q \in Transactions, Begin(q) PROVE TxnInv'
  <2>0. req[q].pc = "new" /\ TxnOk(q) /\ q \in Requests
    BY <1>1, <1>q DEF Begin
  <2>1. CASE conn.open
    <3>1. conn' = conn /\ rows' = rows /\ Goes(q, "failed")
      BY <1>1, <2>1 DEF Begin
    <3>2. \A r \in Transactions : TxnOk(r)'
      <4> SUFFICES ASSUME NEW r \in Transactions PROVE TxnOk(r)'
        OBVIOUS
      <4>1. CASE r = q
        BY <1>g, <2>0, <3>1, <4>1, TxnGone DEF TxnOk, Own
      <4>2. CASE r # q
        BY <1>g, <1>q, <2>0, <2>1, <3>1, <4>2, TxnStays DEF RowsOf, Own
      <4> QED
        BY <4>1, <4>2
    <3> QED
      BY <1>t, <1>g, <1>q, <2>0, <3>1, <3>2 DEF TxnInv
  <2>2. CASE ~conn.open
    <3>1. conn' = [Closed EXCEPT !.open = TRUE] /\ rows' = rows /\ Goes(q, "open")
      BY <1>1, <2>2 DEF Begin
    <3>2. \A r \in Transactions : req[r].pc # "open"
      BY <1>q, <2>2 DEF TxnOk
    <3>3. \A r \in Transactions : TxnOk(r)'
      <4> SUFFICES ASSUME NEW r \in Transactions PROVE TxnOk(r)'
        OBVIOUS
      <4>1. CASE r = q
        <5>1. Written(q, 0) = {}
          BY DEF Written
        <5> QED
          BY <1>c, <1>g, <2>0, <3>1, <4>1, <5>1, DatabaseAssumption DEF TxnOk, RowsOf, Own
      <4>2. CASE r # q
        BY <1>c, <1>t, <1>g, <1>q, <2>0, <2>2, <3>1, <3>2, <4>2, TxnStays DEF RowsOf, Own
      <4> QED
        BY <4>1, <4>2
    <3> QED
      BY <1>c, <1>t, <1>g, <1>q, <2>0, <3>1, <3>2, <3>3, SMTT(20) DEF TxnInv
  <2> QED
    BY <2>1, <2>2
<1>2. ASSUME NEW q \in Transactions, WriteInside(q) PROVE TxnInv'
  <2> DEFINE w == [by |-> q, nr |-> req[q].wrote + 1]
  <2>0. /\ req[q].pc = "open" /\ req[q].wrote < Writes /\ TxnOk(q) /\ conn.open /\ q \in Requests
        /\ req[q].wrote \in Nat /\ req[q] \in Req
    BY <1>2, <1>q DEF WriteInside, TxnOk
  <2>1. rows' = rows /\ conn' = [conn EXCEPT !.writes = @ \union {w}]
    BY <1>2, <2>0 DEF WriteInside, WriteRow
  <2>2. conn'.open /\ conn'.writes = conn.writes \union {w} /\ w \in [by : Requests, nr : Nat] /\ w.by = q
        /\ conn' \in [open : BOOLEAN, writes : SUBSET [by : Requests, nr : Nat]]
    BY <1>t, <2>0, <2>1
  <2>3. /\ req' \in [Requests -> Req] /\ req'[q].pc = "open" /\ req'[q].wrote = req[q].wrote + 1
        /\ \A r \in Requests \ {q} : req'[r] = req[r]
    BY <1>t, <1>2, <2>0 DEF WriteInside
  <2>4. \A r \in Transactions : TxnOk(r)'
    <3> SUFFICES ASSUME NEW r \in Transactions PROVE TxnOk(r)'
      OBVIOUS
    <3>1. CASE r = q
      <4>1. {v \in conn'.writes : v.by = q} = Written(q, req[q].wrote) \union {w}
        BY <2>0, <2>2 DEF TxnOk, Own
      <4>2. Written(q, req[q].wrote) \union {w} = Written(q, req[q].wrote + 1)
        BY <2>0, WrittenGrows
      <4>3. {v \in rows' : v.by = q} = {}
        BY <2>0, <2>1 DEF TxnOk, RowsOf
      <4>4. req[q].wrote + 1 <= Writes
        BY <2>0, DatabaseAssumption
      <4> HIDE DEF w
      <4> QED
        BY <2>2, <2>3, <3>1, <4>1, <4>2, <4>3, <4>4 DEF TxnOk, RowsOf, Own
    <3>2. CASE r # q
      <4>1. {v \in conn'.writes : v.by = r} = Own(r)
        BY <2>2, <3>2 DEF Own
      <4> QED
        BY <1>q, <2>1, <2>2, <2>3, <3>2, <4>1, TxnStays DEF RowsOf
    <3> QED
      BY <3>1, <3>2
  <2>5. \A a, r \in Transactions : req'[a].pc = "open" /\ req'[r].pc = "open" => a = r
    BY <1>q, <2>0, <2>3 DEF TxnInv
  <2> QED
    BY <1>t, <2>1, <2>2, <2>3, <2>4, <2>5 DEF TxnInv
<1>3. ASSUME NEW q \in Transactions, CommitInside(q) PROVE TxnInv'
  <2>0. /\ req[q].pc = "open" /\ req[q].wrote = Writes /\ TxnOk(q) /\ q \in Requests
        /\ rows' = rows \union conn.writes /\ conn' = Closed /\ Goes(q, "done")
    BY <1>3, <1>q DEF CommitInside, Commit
  <2>1. \A r \in Transactions \ {q} : req[r].pc # "open"
    BY <2>0 DEF TxnInv
  <2>2. \A r \in Transactions : TxnOk(r)'
    <3> SUFFICES ASSUME NEW r \in Transactions PROVE TxnOk(r)'
      OBVIOUS
    <3>1. CASE r = q
      <4>1. {w \in rows' : w.by = q} = Written(q, Writes)
        BY <2>0 DEF TxnOk, RowsOf, Own
      <4> QED
        BY <1>c, <1>g, <2>0, <3>1, <4>1 DEF TxnOk, RowsOf, Own
    <3>2. CASE r # q
      <4>1. Own(r) = {} /\ req[r].pc # "open"
        BY <1>q, <2>1, <3>2 DEF TxnOk
      <4>2. {w \in rows' : w.by = r} = RowsOf(r)
        BY <2>0, <4>1 DEF RowsOf, Own
      <4> QED
        BY <1>c, <1>g, <1>q, <2>0, <3>2, <4>1, <4>2, TxnStays
    <3> QED
      BY <3>1, <3>2
  <2> QED
    BY <1>c, <1>t, <1>g, <1>q, <2>0, <2>1, <2>2 DEF TxnInv
<1>4. ASSUME NEW q \in Transactions, RollbackInside(q) PROVE TxnInv'
  <2>0. /\ req[q].pc = "open" /\ TxnOk(q) /\ q \in Requests
        /\ rows' = rows /\ conn' = Closed /\ Goes(q, "failed")
    BY <1>4, <1>q DEF RollbackInside, Rollback
  <2>1. \A r \in Transactions \ {q} : req[r].pc # "open"
    BY <2>0 DEF TxnInv
  <2>2. \A r \in Transactions : TxnOk(r)'
    <3> SUFFICES ASSUME NEW r \in Transactions PROVE TxnOk(r)'
      OBVIOUS
    <3>1. CASE r = q
      BY <1>c, <1>g, <2>0, <3>1, TxnGone
    <3>2. CASE r # q
      <4>1. Own(r) = {} /\ req[r].pc # "open"
        BY <1>q, <2>1, <3>2 DEF TxnOk
      <4> QED
        BY <1>c, <1>g, <1>q, <2>0, <3>2, <4>1, TxnStays DEF RowsOf
    <3> QED
      BY <3>1, <3>2
  <2> QED
    BY <1>c, <1>t, <1>g, <1>q, <2>0, <2>1, <2>2 DEF TxnInv
<1>5. ASSUME NEW q \in Writers, Write(q) PROVE TxnInv'
  <2> DEFINE w == [by |-> q, nr |-> 1]
  <2>0. q \in Requests /\ q \notin Transactions /\ w \in [by : Requests, nr : Nat] /\ w.by = q
    BY DatabaseAssumption DEF Requests
  <2>1. WriteRow(w) /\ Goes(q, "done")
    BY <1>5 DEF Write
  <2>2. /\ conn' \in [open : BOOLEAN, writes : SUBSET [by : Requests, nr : Nat]]
        /\ rows' \subseteq [by : Requests, nr : Nat]
        /\ conn'.open = conn.open
        /\ ~conn'.open => conn'.writes = {}
        /\ rows' \in {rows, rows \union {w}} /\ conn'.writes \in {conn.writes, conn.writes \union {w}}
    <3>1. CASE conn.open
      <4>1. conn' = [conn EXCEPT !.writes = @ \union {w}] /\ rows' = rows
        BY <2>1, <3>1 DEF WriteRow
      <4>2. conn.writes \union {w} \in SUBSET [by : Requests, nr : Nat]
        BY <1>t, <2>0
      <4> HIDE DEF w
      <4>3. conn'.open = conn.open /\ conn'.writes = conn.writes \union {w}
        BY <1>t, <4>1
      <4>4. conn' \in [open : BOOLEAN, writes : SUBSET [by : Requests, nr : Nat]]
        BY <1>t, <4>1, <4>2
      <4> QED
        BY <1>t, <3>1, <4>1, <4>3, <4>4
    <3>2. CASE ~conn.open
      BY <1>t, <2>0, <2>1, <3>2 DEF WriteRow
    <3> QED
      BY <3>1, <3>2
  <2>3. \A r \in Transactions : TxnOk(r)'
    <3> SUFFICES ASSUME NEW r \in Transactions PROVE TxnOk(r)'
      OBVIOUS
    <3>1. {v \in rows' : v.by = r} = RowsOf(r) /\ {v \in conn'.writes : v.by = r} = Own(r)
      BY <2>0, <2>2 DEF RowsOf, Own
    <3>2. req'[r] = req[r]
      BY <1>g, <1>q, <2>0, <2>1
    <3>3. req[r].pc = "open" => conn'.open
      BY <1>q, <2>2 DEF TxnOk
    <3> QED
      BY <1>q, <3>1, <3>2, <3>3, TxnStays
  <2>4. \A a, r \in Transactions : req'[a].pc = "open" /\ req'[r].pc = "open" => a = r
    BY <1>g, <1>q, <2>0, <2>1 DEF TxnInv
  <2> QED
    BY <1>g, <2>0, <2>1, <2>2, <2>3, <2>4 DEF TxnInv
<1>6. CASE ServerDies
  <2>1. rows' = rows /\ conn' = Closed
        /\ req' = [q \in DOMAIN req |-> IF req[q].pc = "open" THEN [req[q] EXCEPT !.pc = "failed"] ELSE req[q]]
    BY <1>6 DEF ServerDies, Rollback
  <2>2. \A q \in Requests :
            /\ req'[q] = IF req[q].pc = "open" THEN [req[q] EXCEPT !.pc = "failed"] ELSE req[q]
            /\ req'[q] \in Req /\ req'[q].pc # "open"
    <3> SUFFICES ASSUME NEW q \in Requests
                 PROVE  /\ req'[q] = IF req[q].pc = "open" THEN [req[q] EXCEPT !.pc = "failed"] ELSE req[q]
                        /\ req'[q] \in Req /\ req'[q].pc # "open"
      OBVIOUS
    <3>0. req[q] \in Req /\ DOMAIN req = Requests
      BY <1>t
    <3>1. CASE req[q].pc = "open"
      BY <2>1, <3>0, <3>1
    <3>2. CASE req[q].pc # "open"
      BY <2>1, <3>0, <3>2
    <3> QED
      BY <3>1, <3>2
  <2>3. \A r \in Transactions : TxnOk(r)'
    <3> SUFFICES ASSUME NEW r \in Transactions PROVE TxnOk(r)'
      OBVIOUS
    <3>1. CASE req[r].pc = "open"
      <4>1. req'[r].pc = "failed"
        BY <1>q, <2>2, <3>1
      <4>2. {w \in conn'.writes : w.by = r} = {}
        BY <1>c, <2>1
      <4> QED
        BY <1>q, <2>1, <3>1, <4>1, <4>2, TxnGone
    <3>2. CASE req[r].pc # "open"
      <4>1. Own(r) = {}
        BY <1>q, <3>2 DEF TxnOk
      <4> QED
        BY <1>c, <1>q, <2>1, <2>2, <3>2, <4>1, TxnStays DEF RowsOf
    <3> QED
      BY <3>1, <3>2
  <2>4. req' \in [Requests -> Req]
    BY <1>t, <2>1, <2>2
  <2> QED
    BY <1>c, <1>t, <1>q, <2>1, <2>2, <2>3, <2>4 DEF TxnInv
<1>7. ASSUME UNCHANGED <<rows, conn, req>> PROVE TxnInv'
  BY <1>7 DEF TxnInv, TxnOk, RowsOf, Own
<1>8. ASSUME NEW p, \/ Start(p) \/ ReadLedger(p) \/ Take(p) \/ Exec(p) \/ ExecThrows(p)
                    \/ Record(p) \/ Killed(p)
      PROVE  TxnInv'
  BY <1>7, <1>8 DEF Start, ReadLedger, Take, Exec, ExecThrows, Record, Killed, server
<1>9. CASE UNCHANGED vars
  BY <1>7, <1>9 DEF vars, server
<1> QED
  BY <1>1, <1>2, <1>3, <1>4, <1>5, <1>6, <1>8, <1>9 DEF Next

LEMMA TxnDone == TxnInv => AllOrNothing
<1> SUFFICES ASSUME TxnInv, NEW q \in Transactions
             PROVE  /\ Cardinality(RowsOf(q)) \in {0, Writes}
                    /\ req[q].pc = "done" => Cardinality(RowsOf(q)) = Writes
                    /\ req[q].pc = "failed" => RowsOf(q) = {}
  BY DEF AllOrNothing
<1>1. TxnOk(q) /\ req[q].pc \in {"new", "open", "done", "failed"}
  BY DEF TxnInv, Requests
<1>2. Cardinality({}) = 0 /\ Cardinality(Written(q, Writes)) = Writes
  BY WrittenSize, FS_EmptySet, DatabaseAssumption
<1> QED
  BY <1>1, <1>2 DEF TxnOk
\* A transaction's own writes are committed all or not at all, whatever the other
\* requests on the connection do meanwhile, and when the server dies.
THEOREM TransactionsAreAtomic == Spec => []AllOrNothing
  BY TxnInit, TxnNext, TxnDone, PTL DEF Spec
=============================================================================
