--------------------------- MODULE TurnStreamProofs ---------------------------
(***************************************************************************)
(* What holds of turn ids and of the live events for every value of the    *)
(* constants: ids increase strictly whatever the clock does, every run     *)
(* ends in one terminal event, and no consumer waits in vain.              *)
(***************************************************************************)
EXTENDS TurnStream, SequenceTheorems, WellFoundedInduction, TLAPS

-----------------------------------------------------------------------------
(* Ids.                                                                    *)

\* A block that does not roll over has a last byte that is not at its maximum: the
\* one the carry of mintTurnId's loop stops at.
LEMMA CarryStops ==
    ASSUME NEW r \in Rand, ~RollsOver(r)
    PROVE  \E p \in 1..Width : r[p] # Base - 1 /\ Carried(r, p)
<1> DEFINE S == {d \in Nat : \E i \in 1..Width : d = Width - i /\ r[i] # Base - 1}
<1>1. Width \in Nat
  BY TurnIdsAssumption
<1>2. S \subseteq Nat /\ S # {}
  <2>1. PICK i \in 1..Width : r[i] # Base - 1
    BY DEF RollsOver
  <2>2. Width - i \in S
    BY <1>1, <2>1
  <2> QED
    BY <2>2
<1>3. PICK d \in S : \A e \in S : ~(<<e, d>> \in OpToRel(<, Nat))
  BY <1>2, WFMin, NatLessThanWellFounded
<1>4. \A e \in S : ~(e < d)
  BY <1>3 DEF OpToRel
<1>5. PICK p \in 1..Width : d = Width - p /\ r[p] # Base - 1
  OBVIOUS
<1>6. Carried(r, p)
  <2> SUFFICES ASSUME NEW j \in p+1..Width, r[j] # Base - 1 PROVE FALSE
    BY DEF Carried
  <2>1. Width - j \in S /\ Width - j < d
    BY <1>1, <1>5
  <2> QED
    BY <1>4, <2>1
<1> QED
  BY <1>5, <1>6

LEMMA BumpedType ==
    ASSUME NEW r \in Rand
    PROVE  Bumped(r) \in Rand
<1> USE TurnIdsAssumption
<1> SUFFICES ASSUME NEW i \in 1..Width
             PROVE  (IF ~Carried(r, i) THEN r[i] ELSE IF r[i] = Base - 1 THEN 0 ELSE r[i] + 1) \in 0..Base-1
  BY DEF Bumped, Rand
<1>1. r[i] \in 0..Base-1
  BY DEF Rand
<1> QED
  BY <1>1

\* The successor of a block that does not roll over comes after it.
LEMMA BumpedIsAfter ==
    ASSUME NEW ms \in Int, NEW r \in Rand, ~RollsOver(r)
    PROVE  Before([ms |-> ms, rand |-> r], [ms |-> ms, rand |-> Bumped(r)])
<1>1. PICK p \in 1..Width : r[p] # Base - 1 /\ Carried(r, p)
  BY CarryStops
<1>2. Bumped(r)[p] = r[p] + 1 /\ r[p] \in Int
  BY <1>1, TurnIdsAssumption DEF Bumped, Rand
<1>3. \A j \in 1..p-1 : Bumped(r)[j] = r[j]
  <2> SUFFICES ASSUME NEW j \in 1..p-1 PROVE Bumped(r)[j] = r[j]
    OBVIOUS
  <2>1. j \in 1..Width /\ p \in j+1..Width
    BY TurnIdsAssumption
  <2>2. ~Carried(r, j)
    BY <1>1, <2>1 DEF Carried
  <2> QED
    BY <2>1, <2>2 DEF Bumped
<1>4. r[p] < Bumped(r)[p]
  BY <1>2
<1> QED
  BY <1>3, <1>4 DEF Before

\* Ids sort as numbers do.
LEMMA BeforeTransitive ==
    ASSUME NEW a \in Id, NEW b \in Id, NEW c \in Id, Before(a, b), Before(b, c)
    PROVE  Before(a, c)
<1>1. a.ms \in Int /\ b.ms \in Int /\ c.ms \in Int
  BY DEF Id
<1>2. \A i \in 1..Width : a.rand[i] \in Int /\ b.rand[i] \in Int /\ c.rand[i] \in Int
  BY TurnIdsAssumption DEF Id, Rand
<1>3. CASE a.ms < b.ms \/ b.ms < c.ms
  BY <1>1, <1>3 DEF Before
<1>4. CASE a.ms = b.ms /\ b.ms = c.ms
  <2>1. PICK i \in 1..Width : a.rand[i] < b.rand[i] /\ \A j \in 1..i-1 : a.rand[j] = b.rand[j]
    BY <1>1, <1>4 DEF Before
  <2>2. PICK k \in 1..Width : b.rand[k] < c.rand[k] /\ \A j \in 1..k-1 : b.rand[j] = c.rand[j]
    BY <1>1, <1>4 DEF Before
  <2>3. CASE i < k
    <3>1. b.rand[i] = c.rand[i]
      BY <2>2, <2>3
    <3>2. \A j \in 1..i-1 : a.rand[j] = c.rand[j]
      BY <2>1, <2>2, <2>3
    <3> QED
      BY <1>4, <2>1, <3>1, <3>2 DEF Before
  <2>4. CASE i = k
    <3>1. a.rand[i] < c.rand[i]
      BY <1>2, <2>1, <2>2, <2>4
    <3>2. \A j \in 1..i-1 : a.rand[j] = c.rand[j]
      BY <2>1, <2>2, <2>4
    <3> QED
      BY <1>4, <3>1, <3>2 DEF Before
  <2>5. CASE k < i
    <3>1. a.rand[k] = b.rand[k]
      BY <2>1, <2>5
    <3>2. \A j \in 1..k-1 : a.rand[j] = c.rand[j]
      BY <2>1, <2>2, <2>5
    <3> QED
      BY <1>4, <2>2, <3>1, <3>2 DEF Before
  <2> QED
    BY <2>3, <2>4, <2>5
<1> QED
  BY <1>1, <1>3, <1>4 DEF Before

\* The latest id is what the next is counted from.
IdInv ==
    /\ lastMs \in Int /\ lastRand \in Rand /\ ids \in Seq(Id)
    /\ ids # <<>> => ids[Len(ids)] = [ms |-> lastMs, rand |-> lastRand]
    /\ StrictlyIncreasing

LEMMA IdInit == MintInit => IdInv
  BY TurnIdsAssumption DEF MintInit, IdInv, Rand, StrictlyIncreasing

LEMMA EmittedKeepsOrder ==
    ASSUME IdInv, Emitted, lastMs' \in Int, lastRand' \in Rand,
           ids # <<>> => Before([ms |-> lastMs, rand |-> lastRand], [ms |-> lastMs', rand |-> lastRand'])
    PROVE  IdInv'
<1> DEFINE new == [ms |-> lastMs', rand |-> lastRand']
<1>1. new \in Id /\ ids \in Seq(Id)
  BY DEF Id, IdInv
<1>2. ids' = Append(ids, new)
  BY DEF Emitted
<1>3. ids' \in Seq(Id) /\ Len(ids') = Len(ids) + 1 /\ ids'[Len(ids) + 1] = new
      /\ \A i \in 1..Len(ids) : ids'[i] = ids[i] /\ ids[i] \in Id
  BY <1>1, <1>2
<1>4. StrictlyIncreasing'
  <2> SUFFICES ASSUME NEW i \in DOMAIN ids', NEW j \in DOMAIN ids', i < j
               PROVE  Before(ids'[i], ids'[j])
    BY DEF StrictlyIncreasing, Before
  <2>0. Len(ids) \in Nat /\ DOMAIN ids = 1..Len(ids) /\ DOMAIN ids' = 1..Len(ids) + 1
    BY <1>1, <1>3
  <2>1. CASE j <= Len(ids)
    BY <1>3, <2>0, <2>1 DEF IdInv, StrictlyIncreasing
  <2>2. CASE j = Len(ids) + 1
    <3>1. ids # <<>> /\ i \in 1..Len(ids) /\ ids'[j] = new /\ ids'[i] = ids[i]
      BY <1>3, <2>0, <2>2
    <3>2. ids[Len(ids)] = [ms |-> lastMs, rand |-> lastRand] /\ ids[Len(ids)] \in Id
      BY <1>3, <2>0, <3>1 DEF IdInv
    <3>3. Before(ids[Len(ids)], new)
      BY <3>1, <3>2
    <3>4. CASE i = Len(ids)
      BY <3>1, <3>3, <3>4
    <3>5. CASE i < Len(ids)
      <4>1. Before(ids[i], ids[Len(ids)])
        BY <2>0, <3>1, <3>5 DEF IdInv, StrictlyIncreasing
      <4> QED
        BY <1>1, <1>3, <3>1, <3>2, <3>3, <4>1, BeforeTransitive
    <3> QED
      BY <2>0, <3>1, <3>4, <3>5
  <2> QED
    BY <2>0, <2>1, <2>2
<1> QED
  BY <1>3, <1>4 DEF IdInv

LEMMA MintKeepsIdInv ==
    ASSUME IdInv, Mint
    PROVE  IdInv'
<1> USE TurnIdsAssumption
<1>1. CASE MintFresh
  <2>1. lastMs' \in Int /\ lastRand' \in Rand /\ lastMs < lastMs' /\ Emitted
    BY <1>1 DEF MintFresh, IdInv
  <2> QED
    BY <2>1, EmittedKeepsOrder DEF Before
<1>2. CASE MintAgain
  <2>1. lastMs' = BumpedMs(lastMs, lastRand) /\ lastRand' = Bumped(lastRand) /\ Emitted
    BY <1>2 DEF MintAgain
  <2>2. lastMs' \in Int /\ lastRand' \in Rand
    BY <2>1, BumpedType DEF IdInv, BumpedMs
  <2>3. Before([ms |-> lastMs, rand |-> lastRand], [ms |-> lastMs', rand |-> lastRand'])
    <3>1. CASE RollsOver(lastRand)
      BY <2>1, <3>1 DEF BumpedMs, Before, IdInv
    <3>2. CASE ~RollsOver(lastRand)
      BY <2>1, <3>2, BumpedIsAfter DEF BumpedMs, IdInv
    <3> QED
      BY <3>1, <3>2
  <2> QED
    BY <2>1, <2>2, <2>3, EmittedKeepsOrder
<1> QED
  BY <1>1, <1>2 DEF Mint

LEMMA IdStutter == ASSUME IdInv, UNCHANGED idVars PROVE IdInv'
  BY DEF IdInv, idVars, StrictlyIncreasing

\* Whatever the clock and the random bytes are, ids are minted in increasing order.
THEOREM IdsIncrease == StreamSpec => []StrictlyIncreasing
<1>1. StreamInit => IdInv
  BY IdInit DEF StreamInit
<1>2. IdInv /\ [StreamNext]_vars => IdInv'
  <2> SUFFICES ASSUME IdInv, [StreamNext]_vars PROVE IdInv'
    OBVIOUS
  <2>1. Mint \/ UNCHANGED idVars
    BY DEF StreamNext, vars, Send, Redeliver, Answer, Cancel, Engine, Begins, Progress, Completes,
           Fails, Cancels, Parks, WithTerminal, Settle, Pull, Leave
  <2> QED
    BY <2>1, MintKeepsIdInv, IdStutter
<1>3. IdInv => StrictlyIncreasing
  BY DEF IdInv
<1> QED
  BY <1>1, <1>2, <1>3, PTL DEF StreamSpec
-----------------------------------------------------------------------------
(* Types.                                                                  *)

Phases == {"idle", "running", "threw", "returned", "settling"}
Types == Terminal \union {"started", "progress", "resolved"}
OpRec == [turn : Id, kind : {"turn", "resume"}]
StreamRec ==
    [turn : Id, kind : {"iterator", "sse"}, from : Nat, queue : Seq(Types), got : Seq(Types),
     subscribed : BOOLEAN, terminal : BOOLEAN, state : {"ready", "waiting", "done", "left"}]

TypeInv ==
    /\ IdInv
    /\ park \subseteq Id
    /\ chain \in Seq(OpRec)
    /\ run \in [phase : Phases, from : Nat, progress : Nat, announced : BOOLEAN]
    /\ \A t \in DOMAIN emitted : emitted[t] \in Seq(Types)
    /\ streams \in Seq(StreamRec)
    /\ chain = <<>> => run.phase = "idle"

LEMMA EventsType == ASSUME TypeInv PROVE \A t : EventsOf(t) \in Seq(Types)
<1> SUFFICES ASSUME NEW t PROVE EventsOf(t) \in Seq(Types)
  OBVIOUS
<1>1. <<>> \in Seq(Types)
  OBVIOUS
<1> QED
  BY <1>1 DEF TypeInv, EventsOf

LEMMA LoggedEvents ==
    ASSUME NEW turn, NEW type, emitted' = Logged(turn, type)
    PROVE  \A t : EventsOf(t)' = IF t = turn THEN Append(EventsOf(t), type) ELSE EventsOf(t)
  BY DEF EventsOf, Logged

LEMMA LoggedType ==
    ASSUME TypeInv, NEW turn, NEW type \in Types, emitted' = Logged(turn, type)
    PROVE  \A t \in DOMAIN emitted' : emitted'[t] \in Seq(Types)
  BY EventsType DEF TypeInv, Logged

LEMMA ReceivedType ==
    ASSUME NEW s \in StreamRec, NEW type \in Types
    PROVE  Received(s, type) \in StreamRec
<1>1. Append(s.queue, type) \in Seq(Types) /\ s.state \in {"ready", "waiting", "done", "left"}
  BY DEF StreamRec
<1> QED
  BY <1>1 DEF StreamRec, Received

LEMMA ToldType ==
    ASSUME TypeInv, NEW turn, NEW type \in Types
    PROVE  Told(turn, type) \in Seq(StreamRec) /\ Len(Told(turn, type)) = Len(streams)
<1>1. streams \in [1..Len(streams) -> StreamRec] /\ Len(streams) \in Nat
  BY DEF TypeInv
<1>2. \A k \in 1..Len(streams) : Told(turn, type)[k] \in StreamRec
  BY <1>1, ReceivedType DEF Told
<1>3. Told(turn, type) \in [1..Len(streams) -> StreamRec]
  BY <1>1, <1>2 DEF Told
<1> QED
  BY <1>1, <1>3

LEMMA SubscribeType ==
    ASSUME NEW turn \in Id, NEW before \in Seq(StreamRec), NEW from \in Nat,
           Subscribe(turn, before, from)
    PROVE  streams' \in Seq(StreamRec)
<1>1. \A kind \in Kinds : Stream(turn, kind, from) \in StreamRec
  <2>1. <<>> \in Seq(Types)
    OBVIOUS
  <2> QED
    BY <2>1, TurnStreamAssumption DEF Stream, StreamRec
<1> QED
  BY <1>1 DEF Subscribe

LEMMA PulledType ==
    ASSUME NEW s \in StreamRec
    PROVE  Pulled(s) \in StreamRec
<1>1. CASE s.queue # <<>>
  <2>1. Append(s.got, Head(s.queue)) \in Seq(Types) /\ Tail(s.queue) \in Seq(Types)
    BY <1>1 DEF StreamRec
  <2> QED
    BY <1>1, <2>1 DEF StreamRec, Pulled
<1>2. CASE s.queue = <<>>
  BY <1>2 DEF StreamRec, Pulled
<1> QED
  BY <1>1, <1>2

LEMMA StartType ==
    ASSUME TypeInv, IdInv', NEW turn \in Id, Start(turn)
    PROVE  TypeInv'
<1>1. Len(EventsOf(turn)) \in Nat
  BY EventsType
<1>2. streams' \in Seq(StreamRec)
  BY <1>1, SubscribeType DEF Start, TypeInv
<1>3. chain' \in Seq(OpRec) /\ chain' # <<>>
  <2>1. [turn |-> turn, kind |-> "turn"] \in OpRec
    BY DEF OpRec
  <2> QED
    BY <2>1 DEF Start, Queued, TypeInv
<1> QED
  BY <1>2, <1>3 DEF Start, TypeInv

LEMMA TypeInit == StreamInit => TypeInv
  BY IdInit DEF StreamInit, TypeInv, Idle, Phases

\* What a step of the run does to the types: it emits to its turn or to nobody.
LEMMA EngineType ==
    ASSUME TypeInv, chain # <<>>, UNCHANGED <<idVars, chain>>, park' \subseteq Id,
           run' \in [phase : Phases, from : Nat, progress : Nat, announced : BOOLEAN],
           NEW type \in Types, Emit(Op.turn, type) \/ EmitNothing
    PROVE  TypeInv'
<1>1. IdInv'
  BY IdStutter DEF TypeInv
<1>2. CASE Emit(Op.turn, type)
  BY <1>1, <1>2, LoggedType, ToldType DEF TypeInv, Emit
<1>3. CASE EmitNothing
  BY <1>1, <1>3 DEF TypeInv, EmitNothing
<1> QED
  BY <1>2, <1>3

LEMMA TypeNext == TypeInv /\ [StreamNext]_vars => TypeInv'
<1> SUFFICES ASSUME TypeInv, [StreamNext]_vars PROVE TypeInv'
  OBVIOUS
<1> USE DEF Phases, Types, Terminal
<1>0. run.phase # "idle" => chain # <<>>
  BY DEF TypeInv
<1>a. chain # <<>> => Op \in OpRec /\ Op.turn \in Id
  <2>1. chain # <<>> => Op \in OpRec
    BY DEF TypeInv, Op
  <2> QED
    BY <2>1 DEF OpRec
<1>b. Len(EventsOf(Op.turn)) \in Nat
  BY EventsType
<1>1. CASE Send
  <2>1. IdInv'
    BY <1>1, MintKeepsIdInv DEF Send, TypeInv
  <2>2. ids'[Len(ids')] \in Id
    <3>1. PICK new : ids' = Append(ids, new) /\ new = [ms |-> lastMs', rand |-> lastRand']
      BY <1>1 DEF Send, Mint, MintFresh, MintAgain, Emitted
    <3>2. new \in Id
      BY <2>1, <3>1 DEF IdInv, Id
    <3> QED
      BY <3>1, <3>2 DEF TypeInv, IdInv
  <2> QED
    BY <1>1, <2>1, <2>2, StartType DEF Send
<1>2. CASE Redeliver
  <2>1. PICK turn \in Range(ids) : Start(turn) /\ UNCHANGED idVars
    BY <1>2 DEF Redeliver
  <2>2. turn \in Id
    BY <2>1 DEF Range, TypeInv, IdInv
  <2> QED
    BY <2>1, <2>2, IdStutter, StartType DEF TypeInv
<1>3. CASE Answer
  <2>1. PICK turn \in park :
            /\ Queued(turn, "resume") /\ park' = {}
            /\ emitted' = Logged(turn, "resolved")
            /\ Subscribe(turn, Told(turn, "resolved"), Len(EventsOf(turn)) + 1)
    BY <1>3 DEF Answer
  <2>2. turn \in Id /\ Len(EventsOf(turn)) + 1 \in Nat
    BY EventsType DEF TypeInv
  <2>3. streams' \in Seq(StreamRec)
    BY <2>1, <2>2, ToldType, SubscribeType
  <2>4. chain' \in Seq(OpRec) /\ chain' # <<>>
    <3>1. [turn |-> turn, kind |-> "resume"] \in OpRec
      BY <2>2 DEF OpRec
    <3> QED
      BY <2>1, <3>1 DEF Queued, TypeInv
  <2>5. \A t \in DOMAIN emitted' : emitted'[t] \in Seq(Types)
    BY <2>1, LoggedType
  <2> QED
    BY <1>3, <2>1, <2>3, <2>4, <2>5, IdStutter DEF Answer, TypeInv
<1>4. CASE Cancel
  BY <1>4, IdStutter DEF Cancel, EmitNothing, TypeInv
<1>5. CASE Begins
  <2>1. PICK phase \in {"threw", "running"}, type \in {"none", "cancelled", "started"}, b \in BOOLEAN : Begin(phase, type, b)
    BY <1>5 DEF Begins
  <2>2. run' \in [phase : Phases, from : Nat, progress : Nat, announced : BOOLEAN]
    BY <1>b, <2>1 DEF Begin, Idle
  <2> QED
    BY <1>5, <2>1, <2>2, EngineType DEF Begins, Begin, TypeInv
<1>6. CASE Progress
  BY <1>0, <1>6, EngineType DEF Progress, TypeInv
<1>7. CASE Completes
  BY <1>0, <1>7, EngineType DEF Completes, Goes, TypeInv
<1>8. CASE Fails
  BY <1>0, <1>8, EngineType DEF Fails, Goes, TypeInv
<1>9. CASE Cancels
  BY <1>0, <1>9, EngineType DEF Cancels, Goes, GoesSilently, TypeInv
<1>10. CASE Parks
  BY <1>0, <1>a, <1>10, EngineType DEF Parks, Goes, GoesSilently, TypeInv
<1>11. CASE WithTerminal
  BY <1>0, <1>11, EngineType DEF WithTerminal, Goes, GoesSilently, TypeInv
<1>12. CASE Settle
  BY <1>0, <1>12, IdStutter DEF Settle, EmitNothing, TypeInv, Idle
<1>13. ASSUME NEW k \in 1..MaxStreams, Pull(k) PROVE TypeInv'
  <2>1. Pulled(streams[k]) \in StreamRec
    BY <1>13, PulledType DEF Pull, TypeInv
  <2> QED
    BY <1>13, <2>1, IdStutter DEF Pull, engine, TypeInv
<1>14. ASSUME NEW k \in 1..MaxStreams, Leave(k) PROVE TypeInv'
  <2>1. streams[k] \in StreamRec
    BY <1>14 DEF Leave, TypeInv
  <2>2. <<>> \in Seq(Types)
    OBVIOUS
  <2>3. Left(streams[k]) \in StreamRec
    BY <2>1, <2>2 DEF Left, StreamRec
  <2> QED
    BY <1>14, <2>3, IdStutter DEF Leave, engine, TypeInv
<1>15. CASE UNCHANGED vars
  BY <1>15, IdStutter DEF vars, engine, TypeInv
<1> QED
  BY <1>1, <1>2, <1>3, <1>4, <1>5, <1>6, <1>7, <1>8, <1>9, <1>10, <1>11, <1>12, <1>13, <1>14, <1>15
  DEF StreamNext, Engine
-----------------------------------------------------------------------------
(* Consumers.                                                              *)

\* The run of the i-th operation of the chain has its terminal event ahead of it.
WillEnd(i) ==
    \/ i > 1 \/ run.phase \in {"idle", "running"}
    \/ run.phase = "threw" /\ ~run.announced

\* A consumer that was not told of an end is subscribed to a run that will end.
Served(s) ==
    /\ s.state = "waiting" => s.queue = <<>> /\ ~s.terminal
    /\ s.state \in {"ready", "waiting"} /\ ~s.terminal =>
         /\ s.subscribed
         /\ \E i \in DOMAIN chain : chain[i].turn = s.turn /\ WillEnd(i)

WaitInv ==
    /\ TypeInv
    /\ run.phase = "running" => ~run.announced
    /\ \A k \in DOMAIN streams : Served(streams[k])

LEMMA OpIsFirst == ASSUME TypeInv, chain # <<>> PROVE Op = chain[1] /\ 1 \in DOMAIN chain
  BY DEF TypeInv, Op

\* A step of the run that leaves it with an end ahead, or without one as before, or
\* that tells the end to the consumers of its turn.
LEMMA RunKeepsServing ==
    ASSUME WaitInv, TypeInv', chain # <<>>, chain' = chain,
           run'.phase = "running" => ~run'.announced,
           NEW type, Emit(Op.turn, type) \/ EmitNothing,
           WillEnd(1) => WillEnd(1)' \/ (Emit(Op.turn, type) /\ type \in Terminal)
    PROVE  WaitInv'
<1> SUFFICES ASSUME NEW k \in DOMAIN streams' PROVE Served(streams[k])'
  BY DEF WaitInv
<1>1. DOMAIN streams' = DOMAIN streams
  BY DEF Emit, Told, EmitNothing
<1> DEFINE s == streams[k]
<1>2. k \in DOMAIN streams /\ Served(s) /\ s \in StreamRec
  BY <1>1 DEF WaitInv, TypeInv
<1>3. streams'[k] = s \/ (Emit(Op.turn, type) /\ s.subscribed /\ s.turn = Op.turn /\ streams'[k] = Received(s, type))
  BY <1>1, <1>2 DEF Emit, Told, EmitNothing
<1>4. CASE streams'[k] = s
  <2>1. s.state = "waiting" => s.queue = <<>> /\ ~s.terminal
    BY <1>2 DEF Served
  <2>2. ASSUME s.state \in {"ready", "waiting"}, ~s.terminal
        PROVE  s.subscribed /\ \E i \in DOMAIN chain : chain[i].turn = s.turn /\ WillEnd(i)'
    <3>1. s.subscribed
      BY <1>2, <2>2 DEF Served
    <3>2. PICK i \in DOMAIN chain : chain[i].turn = s.turn /\ WillEnd(i)
      BY <1>2, <2>2 DEF Served
    <3>3. CASE i # 1
      <4>1. i > 1
        BY <3>2, <3>3 DEF WaitInv, TypeInv
      <4> QED
        BY <3>1, <3>2, <4>1 DEF WillEnd
    <3>4. CASE i = 1
      <4>1. s.turn = Op.turn
        BY <3>2, <3>4, OpIsFirst DEF WaitInv
      <4>2. ~(Emit(Op.turn, type) /\ type \in Terminal)
        <5> SUFFICES ASSUME Emit(Op.turn, type), type \in Terminal PROVE FALSE
          OBVIOUS
        <5>1. streams'[k] = Received(s, type)
          BY <1>2, <3>1, <4>1 DEF Emit, Told
        <5>2. streams'[k].terminal
          BY <1>2, <5>1 DEF Received, StreamRec
        <5> QED
          BY <1>4, <2>2, <5>2
      <4> QED
        BY <3>1, <3>2, <3>4, <4>2
    <3> QED
      BY <3>3, <3>4
  <2> QED
    BY <1>4, <2>1, <2>2 DEF Served
<1>5. CASE Emit(Op.turn, type) /\ s.subscribed /\ s.turn = Op.turn /\ streams'[k] = Received(s, type)
  <2> DEFINE r == Received(s, type)
  <2>1. /\ r.state # "waiting" /\ r.turn = s.turn
        /\ r.terminal = (s.terminal \/ type \in Terminal)
        /\ r.subscribed = ~(s.kind = "sse" /\ type \in Terminal)
        /\ r.state = "ready" => s.state \in {"ready", "waiting"}
    BY <1>2 DEF Received, StreamRec
  <2>2. ASSUME r.state \in {"ready", "waiting"}, ~r.terminal
        PROVE  r.subscribed /\ \E i \in DOMAIN chain : chain[i].turn = r.turn /\ WillEnd(i)'
    <3>1. type \notin Terminal /\ ~s.terminal /\ s.state \in {"ready", "waiting"} /\ r.subscribed
      BY <1>2, <2>1, <2>2 DEF StreamRec
    <3>2. PICK i \in DOMAIN chain : chain[i].turn = s.turn /\ WillEnd(i)
      BY <1>2, <3>1 DEF Served
    <3>3. WillEnd(i)'
      <4>1. i = 1 \/ i > 1
        BY <3>2 DEF WaitInv, TypeInv
      <4> QED
        BY <3>1, <3>2, <4>1 DEF WillEnd
    <3> QED
      BY <2>1, <3>1, <3>2, <3>3
  <2> QED
    BY <1>5, <2>1, <2>2 DEF Served
<1> QED
  BY <1>3, <1>4, <1>5

\* A step outside the run: the chain may grow at its end, the run stays.
LEMMA ChainGrows ==
    ASSUME WaitInv, NEW op \in OpRec, chain' = Append(chain, op), run' = run
    PROVE  /\ \A s : Served(s) => Served(s)'
           /\ \E i \in DOMAIN chain' : chain'[i] = op /\ WillEnd(i)'
<1>1. PICK n : n = Len(chain) + 1
  OBVIOUS
<1>2. /\ n \in DOMAIN chain' /\ chain'[n] = op
      /\ \A i \in DOMAIN chain : i \in DOMAIN chain' /\ chain'[i] = chain[i]
  BY <1>1 DEF WaitInv, TypeInv
<1>3. \A i : WillEnd(i) => WillEnd(i)'
  BY DEF WillEnd
<1>4. WillEnd(n)'
  <2>1. CASE chain = <<>>
    BY <2>1 DEF WaitInv, TypeInv, WillEnd
  <2>2. CASE chain # <<>>
    <3>1. n > 1
      BY <1>1, <2>2 DEF WaitInv, TypeInv
    <3> QED
      BY <3>1 DEF WillEnd
  <2> QED
    BY <2>1, <2>2
<1>5. \A s : Served(s) => Served(s)'
  BY <1>2, <1>3 DEF Served
<1> QED
  BY <1>2, <1>4, <1>5

LEMMA ReceivedServed ==
    ASSUME NEW s \in StreamRec, Served(s), NEW type, type \notin Terminal
    PROVE  Served(Received(s, type))
<1>1. /\ Received(s, type).state # "waiting" /\ Received(s, type).turn = s.turn
      /\ Received(s, type).terminal = s.terminal
      /\ Received(s, type).subscribed
      /\ Received(s, type).state = "ready" => s.state \in {"ready", "waiting"}
  BY DEF Received, StreamRec
<1> QED
  BY <1>1 DEF Served

\* A caller's step: what it puts on the chain will end, for its new consumer too.
LEMMA CallKeepsServing ==
    ASSUME WaitInv, TypeInv', NEW turn \in Id, NEW kind \in {"turn", "resume"}, Queued(turn, kind),
           run' = run, NEW before \in Seq(StreamRec), NEW from,
           \A k \in DOMAIN before : Served(before[k]),
           Subscribe(turn, before, from)
    PROVE  WaitInv'
<1> DEFINE op == [turn |-> turn, kind |-> kind]
<1>1. op \in OpRec /\ chain' = Append(chain, op) /\ op.turn = turn
  BY DEF OpRec, Queued
<1>2. ASSUME NEW k \in DOMAIN streams', NEW s, s = streams'[k]
      PROVE  Served(s)'
  <2>1. CASE streams' = before
    BY <1>1, <1>2, <2>1, ChainGrows
  <2>2. CASE \E which \in Kinds : streams' = Append(before, Stream(turn, which, from))
    <3>1. PICK which \in Kinds : streams' = Append(before, Stream(turn, which, from))
      BY <2>2
    <3>2. CASE k \in DOMAIN before
      <4>1. s = before[k]
        BY <1>2, <3>1, <3>2
      <4> QED
        BY <1>1, <3>2, <4>1, ChainGrows
    <3>3. CASE k \notin DOMAIN before
      <4>1. s = Stream(turn, which, from)
        BY <1>2, <3>1, <3>3
      <4> QED
        BY <1>1, <4>1, ChainGrows DEF Stream, Served
    <3> QED
      BY <3>2, <3>3
  <2> QED
    BY <2>1, <2>2 DEF Subscribe
<1>3. \A k \in DOMAIN streams' : Served(streams[k])'
  BY <1>2
<1> QED
  BY <1>3 DEF WaitInv

\* A consumer's step concerns its stream only.
LEMMA ConsumerKeepsServing ==
    ASSUME WaitInv, TypeInv', chain' = chain, run' = run, NEW k \in DOMAIN streams, NEW s,
           streams' = [streams EXCEPT ![k] = s], Served(s)
    PROVE  WaitInv'
<1>1. \A t : Served(t)' <=> Served(t)
  BY DEF Served, WillEnd
<1>2. \A j \in DOMAIN streams' : Served(streams'[j])
  BY DEF WaitInv
<1> QED
  BY <1>1, <1>2 DEF WaitInv

LEMMA WaitInit == StreamInit => WaitInv
<1> SUFFICES ASSUME StreamInit PROVE WaitInv
  OBVIOUS
<1>1. streams = <<>> /\ run.phase = "idle"
  BY DEF StreamInit, Idle
<1> QED
  BY <1>1, TypeInit DEF WaitInv

LEMMA WaitNext == WaitInv /\ [StreamNext]_vars => WaitInv'
<1> SUFFICES ASSUME WaitInv, [StreamNext]_vars PROVE WaitInv'
  OBVIOUS
<1>t. TypeInv /\ TypeInv'
  BY TypeNext DEF WaitInv
<1>0. run.phase # "idle" => chain # <<>>
  BY <1>t DEF TypeInv
<1>r. run \in [phase : Phases, from : Nat, progress : Nat, announced : BOOLEAN]
  BY <1>t DEF TypeInv
<1>s. ASSUME NEW turn \in Id, Start(turn) PROVE WaitInv'
  BY <1>t, <1>s, CallKeepsServing DEF Start, WaitInv, TypeInv
<1>1. CASE Send
  <2>1. ids'[Len(ids')] \in Id
    <3>1. ids' \in Seq(Id) /\ \E new : ids' = Append(ids, new)
      BY <1>t, <1>1 DEF Send, Mint, MintFresh, MintAgain, Emitted, TypeInv, IdInv
    <3> QED
      BY <1>t, <3>1 DEF TypeInv, IdInv
  <2> QED
    BY <1>s, <1>1, <2>1 DEF Send
<1>2. CASE Redeliver
  <2>1. PICK turn \in Range(ids) : Start(turn)
    BY <1>2 DEF Redeliver
  <2>2. turn \in Id
    BY <1>t, <2>1 DEF Range, TypeInv, IdInv
  <2> QED
    BY <1>s, <2>1, <2>2
<1>3. CASE Answer
  <2>1. PICK turn \in park :
            Queued(turn, "resume") /\ Subscribe(turn, Told(turn, "resolved"), Len(EventsOf(turn)) + 1)
    BY <1>3 DEF Answer
  <2>2. turn \in Id /\ Told(turn, "resolved") \in Seq(StreamRec) /\ run' = run
    BY <1>t, <1>3, ToldType DEF TypeInv, Answer, Types
  <2>3. \A k \in DOMAIN Told(turn, "resolved") : Served(Told(turn, "resolved")[k])
    <3> SUFFICES ASSUME NEW k \in DOMAIN streams PROVE Served(Told(turn, "resolved")[k])
      BY DEF Told
    <3>1. streams[k] \in StreamRec /\ Served(streams[k])
      BY DEF WaitInv, TypeInv
    <3> QED
      BY <3>1, ReceivedServed DEF Told, Terminal
  <2> QED
    BY <1>t, <2>1, <2>2, <2>3, CallKeepsServing
<1>4. CASE Cancel
  BY <1>t, <1>4 DEF Cancel, EmitNothing, WaitInv, Served, WillEnd
<1>5. CASE Begins
  <2>1. chain # <<>> /\ chain' = chain
    BY <1>5 DEF Begins
  <2>2. CASE Begin("threw", "none", FALSE)
    BY <1>t, <2>1, <2>2, RunKeepsServing DEF Begin, Idle, WillEnd
  <2>3. CASE Begin("threw", "cancelled", TRUE)
    BY <1>t, <2>1, <2>3, RunKeepsServing DEF Begin, Idle, Terminal
  <2>4. CASE Begin("running", "started", FALSE)
    BY <1>t, <2>1, <2>4, RunKeepsServing DEF Begin, Idle, WillEnd
  <2> QED
    BY <1>5, <2>2, <2>3, <2>4 DEF Begins
<1>6. CASE Progress
  <2>1. run'.phase = "running" /\ ~run'.announced /\ chain' = chain /\ Emit(Op.turn, "progress")
    BY <1>r, <1>6 DEF Progress, WaitInv
  <2> QED
    BY <1>t, <1>0, <1>6, <2>1, RunKeepsServing DEF Progress, WillEnd
<1>7. CASE Completes
  BY <1>t, <1>0, <1>r, <1>7, RunKeepsServing DEF Completes, Goes, Terminal
<1>8. CASE Fails
  BY <1>t, <1>0, <1>r, <1>8, RunKeepsServing DEF Fails, Goes, Terminal
<1>e. ASSUME run.phase = "running", chain' = chain, NEW type \in Terminal,
             Goes("threw", type) \/ GoesSilently("threw")
      PROVE  WaitInv'
  <2>1. CASE Goes("threw", type)
    BY <1>t, <1>0, <1>r, <1>e, <2>1, RunKeepsServing DEF Goes
  <2>2. CASE GoesSilently("threw")
    BY <1>t, <1>0, <1>r, <1>e, <2>2, RunKeepsServing DEF GoesSilently, WaitInv, WillEnd
  <2> QED
    BY <1>e, <2>1, <2>2
<1>9. CASE Cancels
  BY <1>e, <1>9 DEF Cancels, Terminal
<1>10. CASE Parks
  BY <1>e, <1>10 DEF Parks, Terminal
<1>11. CASE WithTerminal
  <2>1. CASE run.phase = "threw" /\ ~run.announced
    BY <1>t, <1>0, <1>r, <1>11, <2>1, RunKeepsServing DEF WithTerminal, Goes, Terminal
  <2>2. CASE ~(run.phase = "threw" /\ ~run.announced)
    BY <1>t, <1>0, <1>r, <1>11, <2>2, RunKeepsServing DEF WithTerminal, GoesSilently, WillEnd
  <2> QED
    BY <2>1, <2>2
<1>12. CASE Settle
  <2>1. run.phase = "settling" /\ chain' = Tail(chain) /\ run'.phase = "idle" /\ streams' = streams
    BY <1>12 DEF Settle, Idle, EmitNothing
  <2>2. chain \in Seq(OpRec) /\ chain # <<>>
    BY <1>t, <1>0, <2>1 DEF TypeInv
  <2>3. ASSUME NEW i \in DOMAIN chain, WillEnd(i)
        PROVE  i - 1 \in DOMAIN chain' /\ chain'[i - 1] = chain[i] /\ WillEnd(i - 1)'
    <3>1. i > 1
      BY <2>1, <2>3 DEF WillEnd
    <3> QED
      BY <2>1, <2>2, <3>1 DEF WillEnd
  <2>4. \A s : Served(s) => Served(s)'
    BY <2>3 DEF Served
  <2> QED
    BY <1>t, <2>1, <2>4 DEF WaitInv
<1>13. ASSUME NEW k \in 1..MaxStreams, Pull(k) PROVE WaitInv'
  <2>1. k \in DOMAIN streams /\ streams[k] \in StreamRec /\ Served(streams[k])
    BY <1>13 DEF Pull, WaitInv, TypeInv
  <2>2. Served(Pulled(streams[k]))
    <3>1. CASE streams[k].queue # <<>>
      BY <1>13, <2>1, <3>1 DEF Pull, Pulled, Served, StreamRec
    <3>2. CASE streams[k].queue = <<>>
      BY <1>13, <2>1, <3>2 DEF Pull, Pulled, Served, StreamRec
    <3> QED
      BY <3>1, <3>2
  <2> QED
    BY <1>t, <1>13, <2>1, <2>2, ConsumerKeepsServing DEF Pull, engine
<1>14. ASSUME NEW k \in 1..MaxStreams, Leave(k) PROVE WaitInv'
  <2>1. k \in DOMAIN streams /\ streams[k] \in StreamRec
    BY <1>14 DEF Leave, WaitInv, TypeInv
  <2>2. Served(Left(streams[k]))
    BY <2>1 DEF Left, Served, StreamRec
  <2> QED
    BY <1>t, <1>14, <2>1, <2>2, ConsumerKeepsServing DEF Leave, engine
<1>15. CASE UNCHANGED vars
  BY <1>t, <1>15 DEF vars, engine, WaitInv, Served, WillEnd
<1> QED
  BY <1>1, <1>2, <1>3, <1>4, <1>5, <1>6, <1>7, <1>8, <1>9, <1>10, <1>11, <1>12, <1>13, <1>14, <1>15
  DEF StreamNext, Engine

\* No consumer waits in vain: whichever way a run ends, the consumers of its turn
\* are told, and those that wait have nothing in their buffers.
THEOREM ConsumersAreTold == StreamSpec => []NobodyIsStranded
<1>1. WaitInv => NobodyIsStranded
  BY DEF WaitInv, NobodyIsStranded, Served, WillEnd
<1> QED
  BY WaitInit, WaitNext, <1>1, PTL DEF StreamSpec
-----------------------------------------------------------------------------
(* Runs.                                                                   *)

\* How many terminal events a run has behind it, and what withTerminal knows of them.
RunInv ==
    /\ TypeInv
    /\ run.phase # "idle" =>
         /\ run.from <= Len(EventsOf(Op.turn))
         /\ \A i, j \in TerminalsFrom(Op.turn, run.from) : i = j
         /\ run.announced <=> TerminalsFrom(Op.turn, run.from) # {}
    /\ run.phase = "running" => ~run.announced
    /\ run.phase \in {"returned", "settling"} => run.announced

\* An event of a turn adds to the terminal events of that turn, when it is one.
LEMMA TerminalsGrow ==
    ASSUME TypeInv, NEW turn, NEW other, NEW type, emitted' = Logged(other, type),
           NEW from \in Nat, from <= Len(EventsOf(turn)), NEW last, last = Len(EventsOf(turn)) + 1
    PROVE  /\ from <= Len(EventsOf(turn)')
           /\ \A i : i \in TerminalsFrom(turn, from)' <=>
                       \/ i \in TerminalsFrom(turn, from)
                       \/ turn = other /\ type \in Terminal /\ i = last
<1>1. EventsOf(turn) \in Seq(Types)
  BY EventsType
<1>2. EventsOf(turn)' = IF turn = other THEN Append(EventsOf(turn), type) ELSE EventsOf(turn)
  BY LoggedEvents
<1>3. CASE turn = other
  <2>1. /\ Len(EventsOf(turn)') = last /\ EventsOf(turn)'[last] = type
        /\ \A i \in 1..last - 1 : EventsOf(turn)'[i] = EventsOf(turn)[i]
    BY <1>1, <1>2, <1>3
  <2> QED
    BY <1>1, <1>3, <2>1 DEF TerminalsFrom
<1>4. CASE turn # other
  BY <1>1, <1>2, <1>4 DEF TerminalsFrom
<1> QED
  BY <1>3, <1>4

LEMMA RunInit == StreamInit => RunInv
<1> SUFFICES ASSUME StreamInit PROVE RunInv
  OBVIOUS
<1>1. run.phase = "idle"
  BY DEF StreamInit, Idle
<1> QED
  BY <1>1, TypeInit DEF RunInv

\* A step of a caller leaves the run as it is: what it puts on the chain comes last,
\* and all it emits is that an answer was given.
LEMMA CallKeepsRun ==
    ASSUME RunInv, TypeInv', run' = run, chain # <<>> => Op' = Op,
           emitted' = emitted \/ \E turn : emitted' = Logged(turn, "resolved")
    PROVE  RunInv'
<1>1. CASE run.phase = "idle"
  BY <1>1 DEF RunInv
<1>2. CASE run.phase # "idle"
  <2>1. chain # <<>> /\ Op' = Op /\ run.from \in Nat
    BY <1>2 DEF RunInv, TypeInv
  <2> DEFINE turn == Op.turn
  <2>2. PICK t, from, last : t = Op.turn /\ from = run.from /\ last = Len(EventsOf(t)) + 1
    OBVIOUS
  <2>3. from <= Len(EventsOf(t)') /\ \A i : i \in TerminalsFrom(t, from)' <=> i \in TerminalsFrom(t, from)
    <3>1. CASE emitted' = emitted
      BY <1>2, <2>2, <3>1 DEF RunInv, EventsOf, TerminalsFrom
    <3>2. CASE \E other : emitted' = Logged(other, "resolved")
      BY <1>2, <2>1, <2>2, <3>2, TerminalsGrow DEF RunInv, Terminal
    <3> QED
      BY <3>1, <3>2
  <2>4. t = Op'.turn /\ from = run'.from
    BY <2>1, <2>2
  <2> QED
    BY <1>2, <2>2, <2>3, <2>4 DEF RunInv
<1> QED
  BY <1>1, <1>2

\* A step of the run that emits a terminal event, and notes it, or none.
LEMMA RunKeepsCount ==
    ASSUME RunInv, TypeInv', chain # <<>>, chain' = chain, run.phase # "idle", run'.from = run.from,
           NEW type, NEW ends \in BOOLEAN, ends => ~run.announced,
           \/ Emit(Op.turn, type) /\ (ends <=> type \in Terminal)
           \/ EmitNothing /\ ~ends,
           run'.announced <=> (run.announced \/ ends),
           run'.phase = "running" => ~run'.announced,
           run'.phase \in {"returned", "settling"} => run'.announced
    PROVE  RunInv'
<1>1. PICK t, from, last : t = Op.turn /\ from = run.from /\ last = Len(EventsOf(t)) + 1
  OBVIOUS
<1>2. from \in Nat /\ from <= Len(EventsOf(t)) /\ TypeInv
  BY <1>1 DEF RunInv, TypeInv
<1>3. /\ from <= Len(EventsOf(t)')
      /\ \A i : i \in TerminalsFrom(t, from)' <=> i \in TerminalsFrom(t, from) \/ (ends /\ i = last)
  <2>1. CASE Emit(Op.turn, type) /\ (ends <=> type \in Terminal)
    BY <1>1, <1>2, <2>1, TerminalsGrow DEF Emit
  <2>2. CASE EmitNothing /\ ~ends
    BY <1>1, <1>2, <2>2 DEF EmitNothing, EventsOf, TerminalsFrom
  <2> QED
    BY <2>1, <2>2
<1>4. /\ \A i, j \in TerminalsFrom(t, from) : i = j
      /\ run.announced <=> TerminalsFrom(t, from) # {}
  BY <1>1 DEF RunInv
<1>5. /\ \A i, j \in TerminalsFrom(t, from)' : i = j
      /\ run'.announced <=> TerminalsFrom(t, from)' # {}
  BY <1>3, <1>4
<1>6. t = Op'.turn /\ from = run'.from
  BY <1>1 DEF Op
<1> QED
  BY <1>3, <1>5, <1>6 DEF RunInv

\* A run starts counting where the events of its turn are, and may end at once.
LEMMA BeginsCount ==
    ASSUME RunInv, TypeInv', chain # <<>>, chain' = chain,
           NEW type, IF type = "none" THEN EmitNothing ELSE Emit(Op.turn, type),
           run'.from = Len(EventsOf(Op.turn)), run'.phase \in {"threw", "running"},
           run'.announced <=> type # "none" /\ type \in Terminal,
           run'.phase = "running" => ~run'.announced
    PROVE  RunInv'
<1>1. PICK t, from, last : t = Op.turn /\ from = Len(EventsOf(t)) /\ last = Len(EventsOf(t)) + 1
  OBVIOUS
<1>2. from \in Nat /\ TypeInv
  <2>1. TypeInv
    BY DEF RunInv
  <2>2. EventsOf(t) \in Seq(Types)
    BY <2>1, EventsType
  <2> QED
    BY <1>1, <2>1, <2>2
<1>3. TerminalsFrom(t, from) = {}
  BY <1>1, <1>2 DEF TerminalsFrom
<1>4. /\ from <= Len(EventsOf(t)')
      /\ \A i : i \in TerminalsFrom(t, from)' <=> (type # "none" /\ type \in Terminal /\ i = last)
  <2>1. CASE type # "none" /\ Emit(Op.turn, type)
    BY <1>1, <1>2, <1>3, <2>1, TerminalsGrow DEF Emit
  <2>2. CASE type = "none" /\ EmitNothing
    BY <1>1, <1>2, <1>3, <2>2 DEF EmitNothing, EventsOf, TerminalsFrom
  <2> QED
    BY <2>1, <2>2
<1>5. /\ \A i, j \in TerminalsFrom(t, from)' : i = j
      /\ run'.announced <=> TerminalsFrom(t, from)' # {}
  BY <1>4
<1>6. t = Op'.turn /\ from = run'.from
  BY <1>1 DEF Op
<1> QED
  BY <1>4, <1>5, <1>6 DEF RunInv

LEMMA RunNext == RunInv /\ [StreamNext]_vars => RunInv'
<1> SUFFICES ASSUME RunInv, [StreamNext]_vars PROVE RunInv'
  OBVIOUS
<1>t. TypeInv /\ TypeInv'
  BY TypeNext DEF RunInv
<1>0. run.phase # "idle" => chain # <<>>
  BY <1>t DEF TypeInv
<1>r. run \in [phase : Phases, from : Nat, progress : Nat, announced : BOOLEAN]
  BY <1>t DEF TypeInv
<1>q. ASSUME NEW turn, NEW kind \in {"turn", "resume"}, turn \in Id, Queued(turn, kind), chain # <<>>
      PROVE  Op' = Op
  <2>1. [turn |-> turn, kind |-> kind] \in OpRec /\ chain \in Seq(OpRec)
    BY <1>t, <1>q DEF TypeInv, OpRec
  <2> QED
    BY <1>q, <2>1 DEF Queued, Op
<1>s. ASSUME NEW turn \in Id, Start(turn) PROVE RunInv'
  BY <1>t, <1>q, <1>s, CallKeepsRun DEF Start
<1>1. CASE Send
  <2>1. ids'[Len(ids')] \in Id
    <3>1. ids' \in Seq(Id) /\ \E new : ids' = Append(ids, new)
      BY <1>t, <1>1 DEF Send, Mint, MintFresh, MintAgain, Emitted, TypeInv, IdInv
    <3> QED
      BY <1>t, <3>1 DEF TypeInv, IdInv
  <2> QED
    BY <1>s, <1>1, <2>1 DEF Send
<1>2. CASE Redeliver
  <2>1. PICK turn \in Range(ids) : Start(turn)
    BY <1>2 DEF Redeliver
  <2>2. turn \in Id
    BY <1>t, <2>1 DEF Range, TypeInv, IdInv
  <2> QED
    BY <1>s, <2>1, <2>2
<1>3. CASE Answer
  <2>1. PICK turn \in park : Queued(turn, "resume") /\ emitted' = Logged(turn, "resolved")
    BY <1>3 DEF Answer
  <2> QED
    BY <1>t, <1>q, <1>3, <2>1, CallKeepsRun DEF Answer, TypeInv
<1>4. CASE Cancel
  BY <1>t, <1>4, CallKeepsRun DEF Cancel, EmitNothing, Op
<1>5. CASE Begins
  <2>1. chain # <<>> /\ chain' = chain
    BY <1>5 DEF Begins
  <2>2. CASE Begin("threw", "none", FALSE)
    BY <1>t, <2>1, <2>2, BeginsCount DEF Begin, Idle, Terminal
  <2>3. CASE Begin("threw", "cancelled", TRUE)
    BY <1>t, <2>1, <2>3, BeginsCount DEF Begin, Idle, Terminal
  <2>4. CASE Begin("running", "started", FALSE)
    BY <1>t, <2>1, <2>4, BeginsCount DEF Begin, Idle, Terminal
  <2> QED
    BY <1>5, <2>2, <2>3, <2>4 DEF Begins
<1>6. CASE Progress
  <2>1. /\ run.phase = "running" /\ chain' = chain /\ Emit(Op.turn, "progress") /\ ~run.announced
        /\ run'.phase = "running" /\ run'.from = run.from /\ run'.announced = run.announced
    BY <1>r, <1>6 DEF Progress, RunInv
  <2>2. (FALSE <=> "progress" \in Terminal) /\ (run'.announced <=> (run.announced \/ FALSE))
    BY <1>r, <2>1 DEF Terminal
  <2> QED
    BY <1>t, <1>0, <2>1, <2>2, RunKeepsCount
<1>g. ASSUME NEW phase \in {"threw", "returned", "settling"}, NEW type \in Terminal, Goes(phase, type),
             run.phase # "idle", ~run.announced, chain' = chain
      PROVE  RunInv'
  <2>1. run'.phase = phase /\ run'.from = run.from /\ run'.announced = TRUE /\ Emit(Op.turn, type)
    BY <1>r, <1>g DEF Goes
  <2>2. (TRUE <=> type \in Terminal) /\ (run'.announced <=> (run.announced \/ TRUE))
    BY <2>1
  <2> QED
    BY <1>t, <1>0, <1>g, <2>1, <2>2, RunKeepsCount
<1>h. ASSUME NEW phase \in {"threw", "settling"}, GoesSilently(phase), run.phase # "idle",
             phase = "settling" => run.announced, chain' = chain
      PROVE  RunInv'
  <2>1. run'.phase = phase /\ run'.from = run.from /\ run'.announced = run.announced /\ EmitNothing
    BY <1>r, <1>h DEF GoesSilently
  <2>2. run'.announced <=> (run.announced \/ FALSE)
    BY <1>r, <2>1
  <2> QED
    BY <1>t, <1>0, <1>h, <2>1, <2>2, RunKeepsCount
<1>7. CASE Completes
  BY <1>g, <1>7 DEF Completes, Terminal, RunInv
<1>8. CASE Fails
  BY <1>g, <1>8 DEF Fails, Terminal, RunInv
<1>9. CASE Cancels
  BY <1>g, <1>h, <1>9 DEF Cancels, Terminal, RunInv
<1>10. CASE Parks
  BY <1>g, <1>h, <1>10 DEF Parks, Terminal, RunInv
<1>11. CASE WithTerminal
  <2>1. CASE run.phase = "threw" /\ ~run.announced
    BY <1>g, <1>11, <2>1 DEF WithTerminal, Terminal
  <2>2. CASE ~(run.phase = "threw" /\ ~run.announced)
    BY <1>h, <1>11, <2>2 DEF WithTerminal, RunInv
  <2> QED
    BY <2>1, <2>2
<1>12. CASE Settle
  BY <1>t, <1>12 DEF Settle, Idle, RunInv
<1>13. ASSUME NEW k \in 1..MaxStreams, Pull(k) \/ Leave(k) PROVE RunInv'
  BY <1>t, <1>13, CallKeepsRun DEF Pull, Leave, engine, Op
<1>14. CASE UNCHANGED vars
  BY <1>t, <1>14, CallKeepsRun DEF vars, engine, Op
<1> QED
  BY <1>1, <1>2, <1>3, <1>4, <1>5, <1>6, <1>7, <1>8, <1>9, <1>10, <1>11, <1>12, <1>13, <1>14
  DEF StreamNext, Engine

\* Every run of a turn ends in one terminal event: whether runTurn told its end before
\* it rejected, rejected without a word, or never got as far as its first event.
THEOREM RunsEndOnce == StreamSpec => []OneTerminal
<1>1. RunInv => OneTerminal
  BY DEF RunInv, OneTerminal
<1> QED
  BY RunInit, RunNext, <1>1, PTL DEF StreamSpec
-----------------------------------------------------------------------------
(* Streams.                                                                *)

\* What a consumer was given, and then what waits for it.
Seen(s) == s.got \o s.queue

\* What the stream s has of the events `all` of its turn.  A stream that has seen
\* the end says so, and the server-sent one hears nothing after it.
WholeOf(s, all) ==
    /\ s.state # "left" =>
         /\ s.from + Len(Seen(s)) <= Len(all)
         /\ \A i \in 1..Len(Seen(s)) : Seen(s)[i] = all[s.from + i]
         /\ s.subscribed => s.from + Len(Seen(s)) = Len(all)
         /\ s.terminal => \E i \in 1..Len(Seen(s)) : Seen(s)[i] \in Terminal
    /\ s.state = "done" => s.queue = <<>> /\ s.terminal
    /\ s.state \in {"done", "left"} => ~s.subscribed
    /\ s.kind = "sse" =>
         /\ \A i \in 1..Len(Seen(s)) - 1 : Seen(s)[i] \notin Terminal
         /\ s.subscribed => \A i \in 1..Len(Seen(s)) : Seen(s)[i] \notin Terminal

EventsIn(log, turn) == IF turn \in DOMAIN log THEN log[turn] ELSE <<>>

AllWhole(given, log) == \A k \in DOMAIN given : WholeOf(given[k], EventsIn(log, given[k].turn))

WholeInv == TypeInv /\ AllWhole(streams, emitted)

LEMMA SeenType ==
    ASSUME NEW s \in StreamRec
    PROVE  /\ s.got \in Seq(Types) /\ s.queue \in Seq(Types) /\ Seen(s) \in Seq(Types)
           /\ Len(Seen(s)) \in Nat /\ s.from \in Nat
  BY DEF Seen, StreamRec

\* What is appended to the queue comes last of the two; what the consumer takes
\* from the queue moves, and the order stays.
LEMMA GotThenQueue ==
    ASSUME NEW g \in Seq(Types), NEW q \in Seq(Types)
    PROVE  /\ \A x \in Types : g \o Append(q, x) = Append(g \o q, x)
           /\ q # <<>> => Append(g, Head(q)) \o Tail(q) = g \o q
<1>1. ASSUME NEW x \in Types PROVE g \o Append(q, x) = Append(g \o q, x)
  <2> DEFINE u == <<x>>
  <2>1. u \in Seq(Types)
    OBVIOUS
  <2>2. g \o q \in Seq(Types)
    OBVIOUS
  <2>3. Append(q, x) = q \o u /\ Append(g \o q, x) = (g \o q) \o u
    BY <2>2, AppendIsConcat
  <2> HIDE DEF u
  <2>4. (g \o q) \o u = g \o (q \o u)
    BY <2>1, ConcatAssociative
  <2> QED
    BY <2>3, <2>4
<1>2. ASSUME q # <<>> PROVE Append(g, Head(q)) \o Tail(q) = g \o q
  <2> DEFINE h == Head(q)
             t == Tail(q)
             u == <<h>>
             again == u \o t
  <2>1. /\ h \in Types /\ t \in Seq(Types) /\ h = q[1] /\ Len(t) = Len(q) - 1 /\ Len(q) \in Nat \ {0}
        /\ \A i \in 1..Len(t) : t[i] = q[i + 1]
    BY <1>2, HeadTailProperties, EmptySeq
  <2> HIDE DEF h, t
  <2>2. u \in Seq(Types) /\ Len(u) = 1 /\ u[1] = h
    BY <2>1
  <2>6. Append(g, h) = g \o u
    BY <2>1, AppendIsConcat
  <2> HIDE DEF u
  <2>3. /\ again \in Seq(Types) /\ Len(again) = Len(u) + Len(t)
        /\ \A i \in 1..Len(u) + Len(t) : again[i] = IF i <= Len(u) THEN u[i] ELSE t[i - Len(u)]
    BY <2>1, <2>2, ConcatProperties
  <2> HIDE DEF again
  <2>4. \A i \in 1..Len(q) : again[i] = q[i]
    <3> SUFFICES ASSUME NEW i \in 1..Len(q) PROVE again[i] = q[i]
      OBVIOUS
    <3>1. CASE i = 1
      BY <2>1, <2>2, <2>3, <3>1
    <3>2. CASE i # 1
      <4>1. i - 1 \in 1..Len(t) /\ (i - 1) + 1 = i /\ ~(i <= 1) /\ i \in 1..1 + Len(t)
        BY <2>1, <3>2
      <4> QED
        BY <2>1, <2>2, <2>3, <4>1
    <3> QED
      BY <3>1, <3>2
  <2>5. again = q
    BY <2>1, <2>2, <2>3, <2>4, SeqEqual
  <2>7. (g \o u) \o t = g \o (u \o t)
    <3>1. t \in Seq(Types) /\ u \in Seq(Types)
      BY <2>1, <2>2
    <3> QED
      BY <3>1, ConcatAssociative
  <2> QED
    BY <2>5, <2>6, <2>7 DEF again, h, t
<1> QED
  BY <1>1, <1>2

\* What the consumer has got is the beginning of the two.
LEMMA GotIsFirst ==
    ASSUME NEW g \in Seq(Types), NEW q \in Seq(Types)
    PROVE  /\ Len(g) \in Nat /\ Len(g \o q) \in Nat /\ Len(g) <= Len(g \o q)
           /\ \A i \in 1..Len(g) : (g \o q)[i] = g[i]
<1>1. Len(g) \in Nat /\ Len(q) \in Nat /\ Len(g \o q) = Len(g) + Len(q)
  BY ConcatProperties, LenProperties
<1>2. \A i \in 1..Len(g) : i \in 1..Len(g) + Len(q) /\ i <= Len(g)
  BY <1>1
<1>3. \A i \in 1..Len(g) + Len(q) : (g \o q)[i] = IF i <= Len(g) THEN g[i] ELSE q[i - Len(g)]
  BY ConcatProperties
<1> QED
  BY <1>1, <1>2, <1>3

LEMMA SeenReceived ==
    ASSUME NEW s \in StreamRec, NEW type \in Types
    PROVE  Seen(Received(s, type)) = Append(Seen(s), type)
<1>1. Received(s, type).got = s.got /\ Received(s, type).queue = Append(s.queue, type)
  BY DEF Received, StreamRec
<1>2. PICK g \in Seq(Types), q \in Seq(Types) : g = s.got /\ q = s.queue
  BY SeenType
<1>3. g \o Append(q, type) = Append(g \o q, type)
  BY GotThenQueue
<1> QED
  BY <1>1, <1>2, <1>3 DEF Seen

LEMMA SeenPulled ==
    ASSUME NEW s \in StreamRec
    PROVE  Seen(Pulled(s)) = Seen(s)
<1>1. PICK g \in Seq(Types), q \in Seq(Types) : g = s.got /\ q = s.queue
  BY SeenType
<1>2. CASE s.queue = <<>>
  BY <1>2 DEF Seen, Pulled, StreamRec
<1>3. CASE s.queue # <<>>
  <2>1. Pulled(s).got = Append(s.got, Head(s.queue)) /\ Pulled(s).queue = Tail(s.queue)
    BY <1>3 DEF Pulled, StreamRec
  <2>2. Append(g, Head(q)) \o Tail(q) = g \o q
    BY <1>1, <1>3, GotThenQueue
  <2> QED
    BY <1>1, <2>1, <2>2 DEF Seen
<1> QED
  BY <1>2, <1>3

\* A subscriber is given the event that is emitted.
LEMMA ReceivedWhole ==
    ASSUME NEW s \in StreamRec, NEW all \in Seq(Types), NEW type \in Types,
           WholeOf(s, all), s.subscribed
    PROVE  WholeOf(Received(s, type), Append(all, type))
<1> DEFINE r == Received(s, type)
           more == Append(all, type)
<1>1. /\ r.from = s.from /\ r.kind = s.kind /\ r.terminal = (s.terminal \/ type \in Terminal)
      /\ r.subscribed = ~(s.kind = "sse" /\ type \in Terminal)
      /\ r.state = IF s.state = "waiting" THEN "ready" ELSE s.state
  BY DEF Received, StreamRec
<1>2. s.state \notin {"done", "left"} /\ r.state \notin {"done", "left"}
  BY <1>1 DEF WholeOf
<1>3. /\ Len(Seen(r)) = Len(Seen(s)) + 1 /\ Seen(r)[Len(Seen(s)) + 1] = type
      /\ \A i \in 1..Len(Seen(s)) : Seen(r)[i] = Seen(s)[i]
      /\ Len(Seen(s)) \in Nat /\ s.from \in Nat
  <2>1. PICK seen \in Seq(Types) : seen = Seen(s)
    BY SeenType
  <2>2. Seen(r) = Append(seen, type)
    BY <2>1, SeenReceived
  <2>3. Len(Append(seen, type)) = Len(seen) + 1 /\ Append(seen, type)[Len(seen) + 1] = type
        /\ \A i \in 1..Len(seen) : Append(seen, type)[i] = seen[i]
    BY AppendProperties
  <2> HIDE DEF r
  <2> QED
    BY <2>1, <2>2, <2>3, SeenType
<1>4. /\ Len(more) = Len(all) + 1 /\ more[Len(all) + 1] = type /\ Len(all) \in Nat
      /\ \A i \in 1..Len(all) : more[i] = all[i]
  BY AppendProperties, LenProperties
<1>0. r \in StreamRec
  BY ReceivedType
<1> HIDE DEF r, more
<1>5. /\ s.from + Len(Seen(s)) = Len(all)
      /\ \A i \in 1..Len(Seen(s)) : Seen(s)[i] = all[s.from + i]
      /\ s.terminal => \E i \in 1..Len(Seen(s)) : Seen(s)[i] \in Terminal
      /\ s.kind = "sse" => \A i \in 1..Len(Seen(s)) : Seen(s)[i] \notin Terminal
  BY <1>2 DEF WholeOf
<1>6. r.from + Len(Seen(r)) = Len(more)
  BY <1>1, <1>3, <1>4, <1>5
<1>7. \A i \in 1..Len(Seen(r)) : Seen(r)[i] = more[r.from + i]
  <2> SUFFICES ASSUME NEW i \in 1..Len(Seen(r)) PROVE Seen(r)[i] = more[r.from + i]
    OBVIOUS
  <2>1. CASE i = Len(Seen(s)) + 1
    BY <1>1, <1>3, <1>4, <1>5, <2>1
  <2>2. CASE i \in 1..Len(Seen(s))
    <3>1. s.from + i \in 1..Len(all)
      BY <1>3, <1>5, <2>2
    <3> QED
      BY <1>1, <1>3, <1>4, <1>5, <2>2, <3>1
  <2> QED
    BY <1>3, <2>1, <2>2
<1>8. r.terminal => \E i \in 1..Len(Seen(r)) : Seen(r)[i] \in Terminal
  <2>1. Len(Seen(s)) + 1 \in 1..Len(Seen(r)) /\ \A i \in 1..Len(Seen(s)) : i \in 1..Len(Seen(r))
    BY <1>3
  <2>2. CASE type \in Terminal
    <3>1. Seen(r)[Len(Seen(s)) + 1] \in Terminal
      BY <1>3, <2>2
    <3> QED
      BY <2>1, <3>1
  <2>3. CASE s.terminal
    <3>1. PICK i \in 1..Len(Seen(s)) : Seen(s)[i] \in Terminal
      BY <1>5, <2>3
    <3>2. Seen(r)[i] \in Terminal /\ i \in 1..Len(Seen(r))
      BY <1>3, <2>1, <3>1
    <3> QED
      BY <3>2
  <2> QED
    BY <1>1, <2>2, <2>3
<1>9. r.kind = "sse" =>
         /\ \A i \in 1..Len(Seen(r)) - 1 : Seen(r)[i] \notin Terminal
         /\ r.subscribed => \A i \in 1..Len(Seen(r)) : Seen(r)[i] \notin Terminal
  <2> SUFFICES ASSUME r.kind = "sse"
               PROVE  /\ \A i \in 1..Len(Seen(r)) - 1 : Seen(r)[i] \notin Terminal
                      /\ r.subscribed => \A i \in 1..Len(Seen(r)) : Seen(r)[i] \notin Terminal
    OBVIOUS
  <2>1. \A i \in 1..Len(Seen(s)) : Seen(r)[i] \notin Terminal
    <3>1. \A i \in 1..Len(Seen(s)) : Seen(s)[i] \notin Terminal
      BY <1>1, <1>5
    <3> QED
      BY <1>3, <3>1
  <2>2. \A i \in 1..Len(Seen(r)) - 1 : i \in 1..Len(Seen(s))
    BY <1>3
  <2>3. ASSUME r.subscribed, NEW i \in 1..Len(Seen(r)) PROVE Seen(r)[i] \notin Terminal
    <3>1. CASE i = Len(Seen(s)) + 1
      <4>1. type \notin Terminal
        BY <1>1, <2>3
      <4> QED
        BY <1>3, <3>1, <4>1
    <3>2. CASE i # Len(Seen(s)) + 1
      <4>1. i \in 1..Len(Seen(s))
        BY <1>3, <3>2
      <4> QED
        BY <2>1, <4>1
    <3> QED
      BY <3>1, <3>2
  <2> QED
    BY <2>1, <2>2, <2>3
<1>10. r.from + Len(Seen(r)) <= Len(more)
  BY <1>4, <1>6
<1> QED
  BY <1>2, <1>6, <1>7, <1>8, <1>9, <1>10 DEF WholeOf, r, more

\* The events a stream no longer hears come after those it has.
LEMMA UnheardWhole ==
    ASSUME NEW s \in StreamRec, NEW all \in Seq(Types), NEW type \in Types,
           WholeOf(s, all), ~s.subscribed
    PROVE  WholeOf(s, Append(all, type))
<1> DEFINE more == Append(all, type)
<1>1. /\ Len(more) = Len(all) + 1 /\ Len(all) \in Nat
      /\ \A i \in 1..Len(all) : more[i] = all[i]
  OBVIOUS
<1>2. Len(Seen(s)) \in Nat /\ s.from \in Nat
  BY SeenType
<1> HIDE DEF more
<1>3. ASSUME s.state # "left"
      PROVE  /\ s.from + Len(Seen(s)) <= Len(more)
             /\ \A i \in 1..Len(Seen(s)) : Seen(s)[i] = more[s.from + i]
  <2>1. /\ s.from + Len(Seen(s)) <= Len(all)
        /\ \A i \in 1..Len(Seen(s)) : Seen(s)[i] = all[s.from + i]
    BY <1>3 DEF WholeOf
  <2>2. \A i \in 1..Len(Seen(s)) : s.from + i \in 1..Len(all)
    BY <1>1, <1>2, <2>1
  <2> QED
    BY <1>1, <1>2, <2>1, <2>2, SMTT(20)
<1> QED
  BY <1>3 DEF WholeOf, more

LEMMA PulledWhole ==
    ASSUME NEW s \in StreamRec, NEW all \in Seq(Types), WholeOf(s, all), s.state = "ready"
    PROVE  WholeOf(Pulled(s), all)
<1> DEFINE p == Pulled(s)
<1>1. Seen(p) = Seen(s)
  BY SeenPulled
<1>2. /\ p.from = s.from /\ p.kind = s.kind /\ p.terminal = s.terminal
      /\ \/ p.subscribed = s.subscribed /\ p.state \in {"ready", "waiting"}
         \/ p.state = "done" /\ p.queue = <<>> /\ p.terminal /\ ~p.subscribed
  BY DEF Pulled, StreamRec
<1> HIDE DEF p
<1> QED
  BY <1>1, <1>2 DEF WholeOf, p

LEMMA LeftWhole ==
    ASSUME NEW s \in StreamRec, NEW all \in Seq(Types), WholeOf(s, all)
    PROVE  WholeOf(Left(s), all)
<1> DEFINE left == Left(s)
<1>1. left.state = "left" /\ ~left.subscribed /\ left.kind = s.kind /\ left.got = s.got /\ left.queue = <<>>
  BY DEF Left, StreamRec
<1>2. s.got \in Seq(Types) /\ s.queue \in Seq(Types)
  BY SeenType
<1>3. Seen(left) = s.got
  BY <1>1, <1>2 DEF Seen
<1>4. /\ Len(s.got) \in Nat /\ Len(Seen(s)) \in Nat /\ Len(s.got) <= Len(Seen(s))
      /\ \A i \in 1..Len(s.got) : Seen(s)[i] = s.got[i]
  <2>1. PICK g \in Seq(Types), q \in Seq(Types) : g = s.got /\ q = s.queue
    BY <1>2
  <2> QED
    BY <2>1, GotIsFirst DEF Seen
<1> HIDE DEF left
<1>5. s.kind = "sse" => \A i \in 1..Len(s.got) - 1 : s.got[i] \notin Terminal
  <2> SUFFICES ASSUME s.kind = "sse", NEW i \in 1..Len(s.got) - 1 PROVE s.got[i] \notin Terminal
    OBVIOUS
  <2>1. i \in 1..Len(Seen(s)) - 1 /\ i \in 1..Len(s.got)
    BY <1>4
  <2> QED
    BY <1>4, <2>1 DEF WholeOf
<1> QED
  BY <1>1, <1>3, <1>5 DEF WholeOf, left

\* A new consumer has what follows.
LEMMA NewWhole ==
    ASSUME NEW turn, NEW kind \in {"iterator", "sse"}, NEW all \in Seq(Types)
    PROVE  WholeOf(Stream(turn, kind, Len(all)), all)
<1> DEFINE s == Stream(turn, kind, Len(all))
<1>1. Seen(s) = <<>> /\ s.from = Len(all) /\ s.state = "ready" /\ ~s.terminal
  BY DEF Seen, Stream
<1>2. Len(Seen(s)) = 0 /\ Len(all) \in Nat
  BY <1>1
<1> HIDE DEF s
<1> QED
  BY <1>1, <1>2 DEF WholeOf, s

\* All streams after an event of a turn.
LEMMA ToldWhole ==
    ASSUME WholeInv, NEW turn, NEW type \in Types
    PROVE  AllWhole(Told(turn, type), Logged(turn, type))
<1> SUFFICES ASSUME NEW k \in DOMAIN streams
             PROVE  WholeOf(Told(turn, type)[k], EventsIn(Logged(turn, type), Told(turn, type)[k].turn))
  BY DEF Told, AllWhole
<1> DEFINE s == streams[k]
           all == EventsOf(s.turn)
<1>1. s \in StreamRec /\ all \in Seq(Types) /\ WholeOf(s, all)
  BY EventsType DEF WholeInv, TypeInv, AllWhole, EventsIn, EventsOf
<1>2. \A t : EventsIn(Logged(turn, type), t) = IF t = turn THEN Append(EventsOf(t), type) ELSE EventsOf(t)
  BY DEF EventsIn, EventsOf, Logged
<1>3. Told(turn, type)[k] = IF s.subscribed /\ s.turn = turn THEN Received(s, type) ELSE s
  BY DEF Told
<1>4. Received(s, type).turn = s.turn
  BY <1>1 DEF Received, StreamRec
<1> DEFINE told == Told(turn, type)[k]
<1>5. told.turn = s.turn
  BY <1>3, <1>4
<1>6. EventsIn(Logged(turn, type), told.turn) = IF s.turn = turn THEN Append(all, type) ELSE all
  BY <1>2, <1>5
<1> HIDE DEF s, all, told
<1>7. CASE s.turn # turn
  BY <1>1, <1>3, <1>6, <1>7 DEF told
<1>8. CASE s.turn = turn /\ s.subscribed
  BY <1>1, <1>3, <1>6, <1>8, ReceivedWhole DEF told
<1>9. CASE s.turn = turn /\ ~s.subscribed
  BY <1>1, <1>3, <1>6, <1>9, UnheardWhole DEF told
<1> QED
  BY <1>7, <1>8, <1>9

LEMMA SubscribeWhole ==
    ASSUME NEW turn, NEW before \in Seq(StreamRec), NEW from,
           EventsIn(emitted', turn) \in Seq(Types), from = Len(EventsIn(emitted', turn)),
           AllWhole(before, emitted'), Subscribe(turn, before, from)
    PROVE  AllWhole(streams', emitted')
<1>1. CASE streams' = before
  BY <1>1
<1>2. ASSUME NEW kind \in Kinds, streams' = Append(before, Stream(turn, kind, from))
      PROVE  AllWhole(streams', emitted')
  <2> DEFINE new == Stream(turn, kind, from)
  <2>1. WholeOf(new, EventsIn(emitted', turn))
    BY NewWhole, TurnStreamAssumption
  <2>2. new.turn = turn
    BY DEF Stream
  <2> HIDE DEF new
  <2>3. /\ DOMAIN streams' = 1..Len(before) + 1 /\ Len(before) \in Nat /\ DOMAIN before = 1..Len(before)
        /\ streams'[Len(before) + 1] = new
        /\ \A k \in 1..Len(before) : streams'[k] = before[k]
    BY <1>2, LenProperties DEF new
  <2>4. ASSUME NEW k \in DOMAIN streams'
        PROVE  WholeOf(streams'[k], EventsIn(emitted', streams'[k].turn))
    <3>1. CASE k = Len(before) + 1
      BY <2>1, <2>2, <2>3, <3>1
    <3>2. CASE k \in 1..Len(before)
      BY <2>3, <3>2 DEF AllWhole
    <3> QED
      BY <2>3, <3>1, <3>2
  <2> QED
    BY <2>4 DEF AllWhole
<1> QED
  BY <1>1, <1>2 DEF Subscribe

LEMMA WholeInit == StreamInit => WholeInv
  BY TypeInit DEF WholeInv, AllWhole, StreamInit

LEMMA StartWhole ==
    ASSUME WholeInv, NEW turn \in Id, Start(turn)
    PROVE  AllWhole(streams', emitted')
<1>1. emitted' = emitted /\ Subscribe(turn, streams, Len(EventsOf(turn)))
  BY DEF Start
<1>2. EventsIn(emitted', turn) = EventsOf(turn) /\ EventsOf(turn) \in Seq(Types)
  BY <1>1, EventsType DEF EventsIn, EventsOf, WholeInv
<1> QED
  BY <1>1, <1>2, SubscribeWhole DEF WholeInv, TypeInv

LEMMA WholeNext == WholeInv /\ [StreamNext]_vars => WholeInv'
<1> SUFFICES ASSUME WholeInv, [StreamNext]_vars PROVE AllWhole(streams', emitted')
  BY TypeNext DEF WholeInv, AllWhole, WholeOf, EventsIn, Seen
<1>t. TypeInv /\ AllWhole(streams, emitted)
  BY DEF WholeInv
<1>1. CASE Send
  <2>1. ids' \in Seq(Id) /\ ids'[Len(ids')] \in Id
    <3>1. ids' \in Seq(Id) /\ \E new : ids' = Append(ids, new)
      BY <1>1, <1>t, MintKeepsIdInv DEF Send, Mint, MintFresh, MintAgain, Emitted, TypeInv, IdInv
    <3> QED
      BY <1>t, <3>1 DEF TypeInv, IdInv
  <2> QED
    BY <1>1, <2>1, StartWhole DEF Send
<1>2. CASE Redeliver
  <2>1. PICK turn \in Range(ids) : Start(turn)
    BY <1>2 DEF Redeliver
  <2>2. turn \in Id
    BY <1>t, <2>1 DEF Range, TypeInv, IdInv
  <2> QED
    BY <2>1, <2>2, StartWhole
<1>3. CASE Answer
  <2>1. PICK turn \in park :
            /\ emitted' = Logged(turn, "resolved")
            /\ Subscribe(turn, Told(turn, "resolved"), Len(EventsOf(turn)) + 1)
    BY <1>3 DEF Answer
  <2>2. "resolved" \in Types
    BY DEF Types
  <2>3. AllWhole(Told(turn, "resolved"), emitted') /\ Told(turn, "resolved") \in Seq(StreamRec)
    BY <1>t, <2>1, <2>2, ToldWhole, ToldType
  <2>4. /\ EventsIn(emitted', turn) = Append(EventsOf(turn), "resolved")
        /\ EventsOf(turn) \in Seq(Types)
    BY <1>t, <2>1, EventsType DEF EventsIn, EventsOf, Logged
  <2>5. EventsIn(emitted', turn) \in Seq(Types) /\ Len(EventsOf(turn)) + 1 = Len(EventsIn(emitted', turn))
    BY <2>2, <2>4, AppendProperties
  <2> QED
    BY <2>1, <2>3, <2>5, SubscribeWhole
<1>4. CASE EmitNothing
  BY <1>t, <1>4 DEF EmitNothing
<1>5. ASSUME NEW turn, NEW type \in Types, Emit(turn, type)
      PROVE  AllWhole(streams', emitted')
  BY <1>5, ToldWhole DEF Emit
<1>6. CASE Engine \/ Cancel \/ UNCHANGED vars
  <2>1. EmitNothing \/ \E turn, type : type \in Types /\ Emit(turn, type)
    BY <1>6 DEF Engine, Cancel, vars, EmitNothing, Begins, Begin, Progress, Completes, Fails, Cancels,
                Parks, WithTerminal, Goes, GoesSilently, Settle, Types, Terminal
  <2> QED
    BY <1>4, <1>5, <2>1
<1>7. ASSUME NEW k \in 1..MaxStreams, Pull(k) \/ Leave(k)
      PROVE  AllWhole(streams', emitted')
  <2> DEFINE s == streams[k]
             all == EventsIn(emitted, s.turn)
  <2>1. k \in DOMAIN streams /\ s \in StreamRec /\ WholeOf(s, all) /\ all \in Seq(Types) /\ emitted' = emitted
    BY <1>t, <1>7, EventsType DEF Pull, Leave, AllWhole, TypeInv, EventsIn, EventsOf
  <2>2. PICK new : /\ streams' = [streams EXCEPT ![k] = new]
                   /\ new.turn = s.turn /\ WholeOf(new, all)
    <3>1. CASE Pull(k)
      <4>1. Pulled(s).turn = s.turn
        BY <2>1 DEF Pulled, StreamRec
      <4>2. WholeOf(Pulled(s), all)
        BY <2>1, <3>1, PulledWhole DEF Pull
      <4> QED
        BY <3>1, <4>1, <4>2 DEF Pull
    <3>2. CASE Leave(k)
      <4>1. Left(s).turn = s.turn
        BY <2>1 DEF Left, StreamRec
      <4>2. WholeOf(Left(s), all)
        BY <2>1, LeftWhole
      <4> QED
        BY <3>2, <4>1, <4>2 DEF Leave
    <3> QED
      BY <1>7, <3>1, <3>2
  <2> HIDE DEF s
  <2>3. ASSUME NEW j \in DOMAIN streams'
        PROVE  WholeOf(streams'[j], EventsIn(emitted', streams'[j].turn))
    BY <1>t, <2>1, <2>2 DEF AllWhole, TypeInv, s
  <2> QED
    BY <2>3 DEF AllWhole
<1> QED
  BY <1>1, <1>2, <1>3, <1>6, <1>7 DEF StreamNext

\* What a consumer gets is the events of its turn from when it came, in order:
\* none lost, doubled or held back, and nothing after the end.
THEOREM StreamsAreWhole == StreamSpec => []StreamIsWhole
<1>1. WholeInv => StreamIsWhole
  <2> SUFFICES ASSUME WholeInv, NEW k \in DOMAIN streams
               PROVE  LET s == streams[k]  seen == s.got \o s.queue  all == EventsOf(s.turn)
                      IN  /\ s.state # "left" =>
                               /\ s.from + Len(seen) <= Len(all)
                               /\ \A i \in 1..Len(seen) : seen[i] = all[s.from + i]
                               /\ s.subscribed => s.from + Len(seen) = Len(all)
                          /\ s.state = "done" => \E i \in 1..Len(s.got) : s.got[i] \in Terminal
                          /\ s.kind = "sse" => \A i \in 1..Len(seen) - 1 : seen[i] \notin Terminal
    BY DEF StreamIsWhole
  <2> DEFINE s == streams[k]
  <2>1. s \in StreamRec /\ WholeOf(s, EventsOf(s.turn))
    BY DEF WholeInv, TypeInv, AllWhole, EventsIn, EventsOf
  <2>2. s.got \o s.queue = Seen(s)
    BY DEF Seen
  <2>3. s.state = "done" => Seen(s) = s.got
    BY <2>1, SeenType, ConcatEmptySeq DEF WholeOf, Seen
  <2> HIDE DEF s
  <2>4. s.state = "done" => \E i \in 1..Len(s.got) : s.got[i] \in Terminal
    BY <2>1, <2>3 DEF WholeOf
  <2> QED
    BY <2>1, <2>2, <2>4 DEF WholeOf, s
<1> QED
  BY WholeInit, WholeNext, <1>1, PTL DEF StreamSpec
===============================================================================
