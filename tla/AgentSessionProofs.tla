------------------------- MODULE AgentSessionProofs -------------------------
(***************************************************************************)
(* Theorems about AgentSession, for every value of its constants: any      *)
(* number of turns, deliveries, crashes, resets and callers.  First the    *)
(* types, on which all else rests; then the effects of tools, openings and *)
(* the seat, idleness, the steps table; and last, for an environment that  *)
(* leaves it in peace, the transcript, parks, held turns, and that it      *)
(* implements Conversation.                                                *)
(***************************************************************************)
EXTENDS SessionConversation, SequenceTheorems, TLAPS

(* An operation on the chain names a turn exactly if it is one of a turn,  *)
(* and such a one is at its head while the engine is busy.                 *)
TurnKinds == {"turn", "resume"}

OpGood(op) == IF op.kind \in TurnKinds THEN op.turn \in Turns ELSE op.turn = NoTurn

InboxGood(q, p) ==
    /\ q \in Seq(Op)
    /\ \A i \in 1..Len(q) : OpGood(q[i])
    /\ p # "idle" => q # << >> /\ Head(q).kind \in TurnKinds

InboxOK == InboxGood(inbox, pc)

TypeInv == TypeOK /\ InboxOK

-----------------------------------------------------------------------------
(* Operators.                                                              *)

\* A turn can owe results only if the log holds a reply: its position is one
\* of the log, and its calls are calls.
LEMMA OwedHasBatch ==
    ASSUME TypeOK, NEW ts, OwedBy(ts, Len(log)) # {}
    PROVE  /\ BatchAt \in 1..Len(log)
           /\ IsLastAssistant(BatchAt, Len(log))
           /\ log[BatchAt].calls \in Batches
<1>1. PICK at \in 1..Len(log) : IsLastAssistant(at, Len(log))
  BY DEF OwedBy
<1>2. BatchAt \in 1..Len(log) /\ IsLastAssistant(BatchAt, Len(log))
  BY <1>1 DEF BatchAt
<1>3. log[BatchAt] \in Message
  BY <1>2 DEF TypeOK
<1> QED BY <1>2, <1>3 DEF Message

LEMMA NextCallHasBatch ==
    ASSUME TypeOK, NEW t, NEW c, IsNextCall(t, c)
    PROVE  BatchAt \in Nat \ {0} /\ BatchAt \in 1..Len(log)
<1>1. UnansweredCalls(t) # {}
  BY DEF IsNextCall, IsFirstOwed
<1>2. BatchAt \in 1..Len(log)
  BY <1>1, OwedHasBatch DEF UnansweredCalls
<1> QED BY <1>2, LenProperties DEF TypeOK

LEMMA NotesType ==
    ASSUME NEW n \in Nat, ConstantsAssumption
    PROVE  Notes(n) \in Seq(Message)
BY DEF Notes, NoteMsg, Message, ConstantsAssumption

\* What the chain's operations keep: one more operation at the end, a held turn
\* started at the end, the head gone.
LEMMA InboxAppend ==
    ASSUME NEW q, NEW p, InboxGood(q, p),
           NEW op \in Op, OpGood(op)
    PROVE  InboxGood(Append(q, op), p)
<1>1. /\ q \in Seq(Op) /\ Len(q) \in Nat
      /\ Append(q, op) \in Seq(Op) /\ Len(Append(q, op)) = Len(q) + 1
      /\ \A i \in 1..Len(q) : Append(q, op)[i] = q[i]
      /\ Append(q, op)[Len(q) + 1] = op
  BY AppendProperties, LenProperties DEF InboxGood
<1>2. ASSUME q # << >>
      PROVE  Head(Append(q, op)) = Head(q)
  <2>1. Len(q) > 0
    BY <1>1, <1>2, EmptySeq
  <2> QED BY <1>1, <2>1
<1>3. Append(q, op) # << >>
  BY <1>1
<1>4. \A i \in 1..Len(q)+1 : OpGood(Append(q, op)[i])
  <2> SUFFICES ASSUME NEW i \in 1..Len(q)+1
               PROVE  OpGood(Append(q, op)[i])
    OBVIOUS
  <2>1. CASE i = Len(q) + 1
    BY <1>1, <2>1
  <2>2. CASE i \in 1..Len(q)
    BY <1>1, <2>2 DEF InboxGood
  <2> QED BY <1>1, <2>1, <2>2
<1> QED BY <1>1, <1>2, <1>3, <1>4 DEF InboxGood

LEMMA InboxDrained ==
    ASSUME NEW q, NEW p, InboxGood(q, p), NEW h \in Seq(Turns)
    PROVE  InboxGood(Drained(q, h), p)
<1>1. CASE Drained(q, h) = q
  BY <1>1
<1>2. CASE h # << >> /\ Drained(q, h) = Append(q, TurnOp(Head(h)))
  <2>1. Head(h) \in Turns
    BY <1>2, HeadTailProperties
  <2>2. TurnOp(Head(h)) \in Op /\ OpGood(TurnOp(Head(h)))
    BY <2>1 DEF TurnOp, Op, OpGood, TurnKinds
  <2> QED BY <1>2, <2>2, InboxAppend
<1> QED BY <1>1, <1>2 DEF Drained

LEMMA InboxTail ==
    ASSUME NEW q, NEW p, InboxGood(q, p), q # << >>
    PROVE  InboxGood(Tail(q), "idle")
<1>1. /\ Tail(q) \in Seq(Op) /\ Len(Tail(q)) = Len(q) - 1 /\ Len(q) \in Nat
      /\ \A i \in 1..Len(Tail(q)) : Tail(q)[i] = q[i + 1]
  BY HeadTailProperties, LenProperties DEF InboxGood
<1> QED BY <1>1 DEF InboxGood

LEMMA HeadTurn ==
    ASSUME NEW q, NEW p, InboxGood(q, p), q # << >>, Head(q).kind \in TurnKinds
    PROVE  Head(q).turn \in Turns
<1>1. Len(q) \in Nat \ {0}
  BY EmptySeq DEF InboxGood
<1> QED BY <1>1 DEF InboxGood, OpGood

\* While the engine is busy, and when a turn is about to begin, the head of the
\* inbox is an operation of a turn.
LEMMA TurnAtHead ==
    ASSUME TypeInv, pc # "idle" \/ TurnBegins
    PROVE  /\ inbox # << >>
           /\ Current \in Turns
           /\ \A p : InboxGood(inbox, p)
<1>1. InboxGood(inbox, pc) /\ inbox # << >> /\ Head(inbox).kind \in TurnKinds
  BY DEF TypeInv, InboxOK, InboxGood, TurnBegins, AtHead, TurnKinds
<1>2. Current \in Turns
  BY <1>1, HeadTurn DEF Current
<1> QED BY <1>1, <1>2 DEF InboxGood

LEMMA RunningType ==
    ASSUME NEW q, NEW p, InboxGood(q, p)
    PROVE  RunningIn(q) \subseteq Turns
<1>1. DOMAIN q = 1..Len(q) /\ \A i \in 1..Len(q) : q[i] \in Op
  BY LenProperties, ElementOfSeq DEF InboxGood
<1> QED BY <1>1 DEF RunningIn, Op

\* A bound's counter goes up by one.
Counters == {"batches", "notes", "cancels", "resets", "failures", "crashes"}
Used == [deliveries : [Turns -> Nat], batches : Nat, notes : Nat,
         cancels : Nat, resets : Nat, failures : Nat, crashes : Nat]

LEMMA CountType ==
    ASSUME used \in Used, NEW what \in Counters, Count(what)
    PROVE  used' \in Used
<1>1. CASE what = "batches"
  BY <1>1 DEF Count, Used
<1>2. CASE what = "notes"
  BY <1>2 DEF Count, Used
<1>3. CASE what = "cancels"
  BY <1>3 DEF Count, Used
<1>4. CASE what = "resets"
  BY <1>4 DEF Count, Used
<1>5. CASE what = "failures"
  BY <1>5 DEF Count, Used
<1>6. CASE what = "crashes"
  BY <1>6 DEF Count, Used
<1> QED BY <1>1, <1>2, <1>3, <1>4, <1>5, <1>6 DEF Counters

LEMMA DeliverType ==
    ASSUME used \in Used, NEW t \in Turns, Deliver(t)
    PROVE  used' \in Used
<1> DEFINE d == [used.deliveries EXCEPT ![t] = @ + 1]
<1>1. used.deliveries \in [Turns -> Nat]
  BY DEF Used
<1>2. d \in [Turns -> Nat]
  BY <1>1
<1>3. used' = [used EXCEPT !.deliveries = d]
  BY DEF Deliver
<1> HIDE DEF d
<1> QED BY <1>2, <1>3 DEF Used

LEMMA HeldWithoutType ==
    ASSUME TypeOK, NEW t
    PROVE  HeldWithout(t) \in Seq(Turns)
<1>1. CASE t \notin HeldTurns
  BY <1>1 DEF HeldWithout, TypeOK
<1>2. CASE t \in HeldTurns
  <2> DEFINE i == CHOOSE k \in DOMAIN held : held[k] = t
  <2>1. i \in DOMAIN held
    BY <1>2 DEF HeldTurns
  <2>2. /\ held \in Seq(Turns) /\ Len(held) \in Nat /\ i \in 1..Len(held)
        /\ \A k \in 1..Len(held) : held[k] \in Turns
    BY <2>1, LenProperties, ElementOfSeq DEF TypeOK
  <2> HIDE DEF i
  <2>3. SubSeq(held, 1, i - 1) \in Seq(Turns)
    BY <2>2, SubSeqProperties
  <2>4. SubSeq(held, i + 1, Len(held)) \in Seq(Turns)
    BY <2>2, SubSeqProperties
  <2>5. HeldWithout(t) = SubSeq(held, 1, i - 1) \o SubSeq(held, i + 1, Len(held))
    BY <1>2 DEF HeldWithout, i
  <2> QED BY <2>3, <2>4, <2>5, ConcatProperties
<1> QED BY <1>1, <1>2
-----------------------------------------------------------------------------
(* Types.                                                                  *)

LEMMA TypeInit == ConstantsAssumption /\ Init => TypeInv
<1> SUFFICES ASSUME ConstantsAssumption, Init PROVE TypeInv
  OBVIOUS
<1> USE DEF Init
<1>1. used \in [deliveries : [Turns -> Nat], batches : Nat, notes : Nat,
                cancels : Nat, resets : Nat, failures : Nat, crashes : Nat]
  OBVIOUS
<1>2. log \in Seq(Message) /\ held \in Seq(Turns) /\ inbox \in Seq(Op)
  BY EmptySeq
<1>3. park \in Park \cup {NoPark} /\ initiator \in Principals \cup {NoPrincipal}
  OBVIOUS
<1>4. InboxOK
  BY EmptySeq DEF InboxOK, InboxGood
<1> QED BY <1>1, <1>2, <1>3, <1>4 DEF TypeInv, TypeOK

LEMMA CallTypes ==
    ASSUME ConstantsAssumption, TypeInv, Call
    PROVE  TypeInv'
<1> USE DEF store, steps, session, actor, effects
<1>a. InboxGood(inbox, pc) /\ TypeOK /\ used \in Used
  BY DEF TypeInv, InboxOK, TypeOK, Used
<1>b. ASSUME NEW t \in Turns
      PROVE  /\ InboxGood(Append(inbox, TurnOp(t)), pc)
             /\ InboxGood(Append(inbox, ResumeOp(t)), pc)
  BY <1>a, InboxAppend DEF TurnOp, ResumeOp, Op, OpGood, TurnKinds
<1>c. /\ InboxGood(Append(inbox, NoteOp), pc)
      /\ InboxGood(Append(inbox, ResetOp), pc)
  BY <1>a, InboxAppend DEF NoteOp, ResetOp, Op, OpGood, TurnKinds
<1>d. Running \subseteq Turns
  BY <1>a, RunningType DEF Running
<1>1. ASSUME NEW t \in Turns, Deliver(t)
      PROVE  used' \in Used /\ live' \in BOOLEAN
  BY <1>1, <1>a, DeliverType DEF Deliver
<1>2. ASSUME NEW t \in Turns, StartHolds(t)
      PROVE  TypeInv'
  <2>1. held' \in Seq(Turns)
    BY <1>2, <1>a, AppendProperties DEF StartHolds, TypeOK
  <2>2. InboxGood(inbox', pc')
    BY <1>2, <1>a, <2>1, InboxDrained DEF StartHolds
  <2>3. used' \in Used /\ live' \in BOOLEAN
    BY <1>1, <1>2 DEF StartHolds
  <2> QED BY <1>2, <1>a, <2>1, <2>2, <2>3
          DEF StartHolds, TypeInv, TypeOK, InboxOK, InboxGood, Used
<1>3. ASSUME NEW t \in Turns, StartBegins(t)
      PROVE  TypeInv'
  <2> DEFINE q == IF parkedTurnId = NoTurn THEN Drained(inbox, held) ELSE inbox
  <2>1. InboxGood(q, pc)
    BY <1>a, InboxDrained DEF TypeOK
  <2>2. RunningIn(q) \subseteq Turns
    BY <2>1, RunningType
  <2>3. InboxGood(Append(q, TurnOp(t)), pc)
    BY <2>1, InboxAppend DEF TurnOp, Op, OpGood, TurnKinds
  <2>4. inbox' = Append(q, TurnOp(t)) /\ cancels' \subseteq cancels \cup RunningIn(q)
    BY <1>3 DEF StartBegins
  <2>5. used' \in Used /\ live' \in BOOLEAN
    BY <1>1, <1>3 DEF StartBegins
  <2>6. cancels' \subseteq Turns /\ InboxGood(inbox', pc')
    BY <1>3, <1>a, <2>2, <2>3, <2>4 DEF StartBegins, TypeOK
  <2> HIDE DEF q
  <2> QED BY <1>3, <1>a, <2>5, <2>6
          DEF StartBegins, TypeInv, TypeOK, InboxOK, InboxGood, Used
<1>4. ASSUME NEW t \in Turns, Cancel(t)
      PROVE  TypeInv'
  <2>1. used' \in Used
    BY <1>4, <1>a, CountType DEF Cancel, Counters
  <2> QED BY <1>4, <1>a, <2>1 DEF Cancel, TypeInv, TypeOK, InboxOK, Used
<1>5. ASSUME NEW t \in Turns, Resume(t)
      PROVE  TypeInv'
  <2>1. park \in Park
    BY <1>5, <1>a DEF Resume, TypeOK, NoPark, ConstantsAssumption
  <2>2. answers' \subseteq Turns \X Calls
    BY <1>5, <1>a, <2>1 DEF Resume, TypeOK, Park
  <2>3. InboxGood(inbox', pc')
    BY <1>5, <1>b DEF Resume
  <2> QED BY <1>5, <1>a, <2>2, <2>3 DEF Resume, TypeInv, TypeOK, InboxOK, InboxGood
<1>6. CASE Note
  <2>1. used' \in Used /\ InboxGood(inbox', pc')
    BY <1>6, <1>a, <1>c, CountType DEF Note, Counters
  <2> QED BY <1>6, <1>a, <2>1 DEF Note, TypeInv, TypeOK, InboxOK, InboxGood, Used
<1>7. CASE Reset
  <2>1. used' \in Used /\ InboxGood(inbox', pc')
    BY <1>7, <1>a, <1>c, CountType DEF Reset, Counters
  <2> QED BY <1>7, <1>a, <1>d, <2>1 DEF Reset, TypeInv, TypeOK, InboxOK, InboxGood, Used
<1>8. CASE Rebuild
  BY <1>8, <1>a DEF Rebuild, TypeInv, TypeOK, InboxOK
<1>9. CASE Evict
  <2>1. InboxGood(<< >>, "idle")
    BY EmptySeq DEF InboxGood
  <2> QED BY <1>9, <1>a, <2>1 DEF Evict, TypeInv, TypeOK, InboxOK, InboxGood
<1> QED BY <1>2, <1>3, <1>4, <1>5, <1>6, <1>7, <1>8, <1>9 DEF Call

\* Steps of the engine that only move pc, and perhaps the status.
LEMMA QuietTypes ==
    ASSUME ConstantsAssumption, TypeInv, pc # "idle" \/ TurnBegins,
           UNCHANGED <<log, steps, park, held, heldNotes, session, actor, effects>>,
           status' \in {status, "done", "suspended"}, used' \in Used,
           pc' \in {"loop", "model", "tool", "parking", "settling"}
    PROVE  TypeInv'
<1>1. InboxGood(inbox', pc')
  BY TurnAtHead DEF actor
<1> QED BY <1>1 DEF TypeInv, TypeOK, InboxOK, InboxGood, Used, steps, session, actor, effects

LEMMA BeginTypes ==
    ASSUME ConstantsAssumption, TypeInv,
           RefuseOverPark \/ CancelEarly \/ OpenTurn \/ RunNote \/ RunReset \/ ResetFails
    PROVE  TypeInv'
<1> USE DEF store, steps, session, actor, effects
<1>a. InboxGood(inbox, pc) /\ TypeOK /\ used \in Used
  BY DEF TypeInv, InboxOK, TypeOK, Used
<1>1. CASE RefuseOverPark
  BY <1>1, <1>a, QuietTypes DEF RefuseOverPark
<1>2. CASE CancelEarly
  BY <1>2, <1>a, QuietTypes DEF CancelEarly
<1>3. CASE OpenTurn
  <2>1. /\ Current \in Turns
        /\ InboxGood(inbox, "loop")
    BY <1>3, TurnAtHead DEF OpenTurn
  <2>2. Released \in Nat /\ heldNotes - Released \in Nat
    BY <1>a DEF Released, TypeOK
  <2>3. Opening(Current) \in Seq(Message)
    <3>1. OpeningMsg(Current) \in Message
      BY <2>1 DEF OpeningMsg, Message, ConstantsAssumption
    <3>2. <<OpeningMsg(Current)>> \in Seq(Message) /\ << >> \in Seq(Message)
      BY <3>1
    <3> QED BY <3>2 DEF Opening
  <2>4. log' \in Seq(Message)
    BY <1>3, <1>a, <2>2, <2>3, NotesType, ConcatProperties DEF OpenTurn, TypeOK
  <2>5. initiator' \in Principals \cup {NoPrincipal}
    BY <1>3, <1>a, <2>1 DEF OpenTurn, TypeOK, ConstantsAssumption
  <2> QED BY <1>3, <1>a, <2>1, <2>2, <2>4, <2>5 DEF OpenTurn, TypeInv, TypeOK, InboxOK, InboxGood
<1>4. CASE RunNote
  <2>1. InboxGood(inbox', pc')
    BY <1>4, <1>a, InboxTail DEF RunNote, AtHead
  <2>2. NoteMsg \in Message
    BY DEF NoteMsg, Message, ConstantsAssumption
  <2>3. log' \in Seq(Message) /\ heldNotes' \in Nat
    <3>1. log \in Seq(Message) /\ Append(log, NoteMsg) \in Seq(Message) /\ heldNotes \in Nat
      BY <1>a, <2>2, AppendProperties DEF TypeOK
    <3>2. \/ heldNotes' = heldNotes + 1 /\ log' = log
          \/ log' = Append(log, NoteMsg) /\ heldNotes' = heldNotes
      BY <1>4 DEF RunNote
    <3>3. CASE heldNotes' = heldNotes + 1 /\ log' = log
      BY <3>1, <3>3
    <3>4. CASE log' = Append(log, NoteMsg) /\ heldNotes' = heldNotes
      BY <3>1, <3>4
    <3> QED BY <3>2, <3>3, <3>4
  <2> QED BY <1>4, <1>a, <2>1, <2>3 DEF RunNote, TypeInv, TypeOK, InboxOK, InboxGood
<1>5. CASE RunReset
  <2>1. InboxGood(inbox', pc')
    BY <1>5, <1>a, InboxTail DEF RunReset, AtHead
  <2>2. log' \in Seq(Message) /\ held' \in Seq(Turns)
    BY <1>5, EmptySeq DEF RunReset
  <2>3. generation' \in Nat
    BY <1>5, <1>a DEF RunReset, TypeOK
  <2> QED BY <1>5, <1>a, <2>1, <2>2, <2>3 DEF RunReset, TypeInv, TypeOK, InboxOK, InboxGood
<1>6. CASE ResetFails
  <2>1. InboxGood(inbox', pc')
    BY <1>6, <1>a, InboxTail DEF ResetFails, AtHead
  <2>2. used' \in Used
    BY <1>6, <1>a, CountType DEF ResetFails, Counters
  <2> QED BY <1>6, <1>a, <2>1, <2>2 DEF ResetFails, TypeInv, TypeOK, InboxOK, InboxGood, Used
<1> QED BY <1>1, <1>2, <1>3, <1>4, <1>5, <1>6

LEMMA RecordTypes ==
    ASSUME ConstantsAssumption, TypeInv, NEW c \in Calls,
           pc # "idle", IsNextCall(Current, c), Record(c),
           used' \in Used, ran' \in SUBSET ((Nat \ {0}) \X Calls),
           twice' \in SUBSET ((Nat \ {0}) \X Calls)
    PROVE  TypeInv'
<1> USE DEF store, steps, session, actor, effects
<1>a. InboxGood(inbox, pc) /\ TypeOK
  BY DEF TypeInv, InboxOK
<1>1. Current \in Turns /\ InboxGood(inbox, "loop")
  BY TurnAtHead
<1>2. BatchAt \in Nat \ {0}
  BY <1>a, NextCallHasBatch
<1>3. ResultMsg(Current, c) \in Message
  BY <1>1 DEF ResultMsg, Message, ConstantsAssumption
<1>4. log' \in Seq(Message)
  BY <1>a, <1>3, AppendProperties DEF Record, TypeOK
<1>5. toolSteps' \subseteq (Nat \ {0}) \X Calls
  BY <1>a, <1>2 DEF Record, TypeOK, ToolStepId
<1> QED BY <1>a, <1>1, <1>4, <1>5 DEF Record, TypeInv, TypeOK, InboxOK, InboxGood, Used

LEMMA ToolTypes ==
    ASSUME ConstantsAssumption, TypeInv, NEW c \in Calls,
           \/ FatalTool(c) \/ LocalTool(c) \/ LocalToolThrows(c) \/ RemoteTool(c)
           \/ RemoteReturns(c) \/ RemoteThrows(c) \/ RequestInput(c) \/ ParkTurn(c)
    PROVE  TypeInv'
<1> USE DEF store, steps, session, actor, effects
<1>a. /\ InboxGood(inbox, pc) /\ TypeOK /\ used \in Used
      /\ ran \in SUBSET ((Nat \ {0}) \X Calls) /\ twice \in SUBSET ((Nat \ {0}) \X Calls)
  BY DEF TypeInv, InboxOK, TypeOK, Used
<1>b. ASSUME RunsTool(c) \/ InTool(c)
      PROVE  pc # "idle" /\ IsNextCall(Current, c)
  BY <1>b DEF RunsTool, InTool, Owing
<1>1. CASE FatalTool(c)
  BY <1>1, <1>a, <1>b, QuietTypes DEF FatalTool
<1>2. CASE LocalTool(c)
  <2>1. BatchAt \in Nat \ {0}
    BY <1>2, <1>a, <1>b, NextCallHasBatch DEF LocalTool
  <2>2. /\ ran' \in SUBSET ((Nat \ {0}) \X Calls)
        /\ twice' \in SUBSET ((Nat \ {0}) \X Calls)
    BY <1>2, <1>a, <2>1 DEF LocalTool, RanNow
  <2> QED BY <1>2, <1>a, <1>b, <2>2, RecordTypes DEF LocalTool
<1>3. CASE LocalToolThrows(c)
  <2>1. used' \in Used
    BY <1>3, <1>a, CountType DEF LocalToolThrows, Counters
  <2> QED BY <1>3, <1>a, <1>b, <2>1, RecordTypes DEF LocalToolThrows
<1>4. CASE RemoteTool(c)
  BY <1>4, <1>a, <1>b, QuietTypes DEF RemoteTool
<1>5. CASE RemoteReturns(c)
  BY <1>5, <1>a, <1>b, RecordTypes DEF RemoteReturns
<1>6. CASE RemoteThrows(c)
  <2>1. used' \in Used
    BY <1>6, <1>a, CountType DEF RemoteThrows, Counters
  <2> QED BY <1>6, <1>a, <1>b, <2>1, RecordTypes DEF RemoteThrows
<1>7. CASE RequestInput(c)
  BY <1>7, <1>a, <1>b, QuietTypes DEF RequestInput
<1>8. CASE ParkTurn(c)
  <2>1. Current \in Turns /\ InboxGood(inbox, "settling")
    BY <1>8, TurnAtHead DEF ParkTurn
  <2>2. park' \in Park \cup {NoPark}
    BY <1>8, <1>a, <2>1 DEF ParkTurn, TypeOK, Park
  <2> QED BY <1>8, <1>a, <2>1, <2>2 DEF ParkTurn, Settling, TypeInv, TypeOK, InboxOK, InboxGood
<1> QED BY <1>1, <1>2, <1>3, <1>4, <1>5, <1>6, <1>7, <1>8

\* A cancelled batch: results are appended, for the first call owed and those
\* behind it, and recorded at the reply.
LEMMA CancelledResults ==
    ASSUME ConstantsAssumption, TypeInv, CancelToolBatch
    PROVE  /\ \E results \in Seq(Message), i \in 1..Len(log[BatchAt].calls) :
                 /\ IsFirstOwed(Current, i)
                 /\ log' = log \o results
                 /\ \A k \in 1..Len(results) : /\ results[k].role = "tool"
                                                /\ results[k].turn = Current
                 /\ \A j \in i..Len(log[BatchAt].calls) :
                       \E k \in 1..Len(results) : results[k].call = log[BatchAt].calls[j]
                 /\ toolSteps' = toolSteps \cup
                      {ToolStepId(BatchAt, results[k].call) : k \in 1..Len(results)}
           /\ toolSteps' \subseteq (Nat \ {0}) \X Calls
<1>a. TypeOK
  BY DEF TypeInv
<1> DEFINE calls == log[BatchAt].calls
<1>1. Current \in Turns
  BY TurnAtHead DEF CancelToolBatch, Owing
<1>2. BatchAt \in Nat \ {0} /\ calls \in Batches
  <2>1. OwedBy({Current}, Len(log)) # {}
    BY DEF CancelToolBatch, Owing, UnansweredCalls
  <2>2. BatchAt \in 1..Len(log) /\ calls \in Batches /\ Len(log) \in Nat
    BY <1>a, <2>1, OwedHasBatch, LenProperties DEF TypeOK
  <2> QED BY <2>2
<1>3. calls \in Seq(Calls)
  BY <1>2 DEF ConstantsAssumption
<1>4. PICK i \in DOMAIN calls :
         /\ IsFirstOwed(Current, i)
         /\ LET n == Len(calls) - i + 1
                owed == [k \in 1..n |-> calls[i + k - 1]]
            IN  /\ log' = log \o [k \in 1..n |-> ResultMsg(Current, owed[k])]
                /\ toolSteps' = toolSteps \cup {ToolStepId(BatchAt, owed[k]) : k \in 1..n}
  BY DEF CancelToolBatch
<1> DEFINE n == Len(calls) - i + 1
           owed == [k \in 1..n |-> calls[i + k - 1]]
           results == [k \in 1..n |-> ResultMsg(Current, owed[k])]
<1> HIDE DEF calls
<1>5. i \in 1..Len(calls) /\ Len(calls) \in Nat
  BY <1>3, LenProperties
<1>o. \A j \in i..Len(calls) : j - i + 1 \in 1..n /\ owed[j - i + 1] = calls[j]
  BY <1>5
<1>6. \A k \in 1..n : owed[k] \in Calls
  <2>1. \A k \in 1..n : i + k - 1 \in 1..Len(calls)
    BY <1>5
  <2> QED BY <1>3, <2>1, ElementOfSeq
<1>n. n \in Nat
  BY <1>5
<1> HIDE DEF n, owed
<1>7. \A k \in 1..n : ResultMsg(Current, owed[k]) \in Message
  BY <1>1, <1>6 DEF ResultMsg, Message, ConstantsAssumption
<1>8. results \in Seq(Message)
  BY <1>n, <1>7
<1>9. log' = log \o results /\ toolSteps' = toolSteps \cup {ToolStepId(BatchAt, owed[k]) : k \in 1..n}
  BY <1>4 DEF n, owed, calls
<1> HIDE DEF results
<1>10. \A k \in 1..Len(results) : results[k].role = "tool" /\ results[k].turn = Current
  BY <1>n DEF results, ResultMsg
<1>11. toolSteps' \subseteq (Nat \ {0}) \X Calls
  <2>1. toolSteps \subseteq (Nat \ {0}) \X Calls
    BY <1>a DEF TypeOK
  <2>2. \A k \in 1..n : ToolStepId(BatchAt, owed[k]) \in (Nat \ {0}) \X Calls
    BY <1>2, <1>6 DEF ToolStepId
  <2> QED BY <1>9, <2>1, <2>2
<1>12. Len(results) = n /\ \A k \in 1..n : results[k].call = owed[k]
  BY <1>n DEF results, ResultMsg
<1>13. {ToolStepId(BatchAt, owed[k]) : k \in 1..n}
         = {ToolStepId(BatchAt, results[k].call) : k \in 1..Len(results)}
  BY <1>12
<1>14. \A j \in i..Len(calls) : \E k \in 1..Len(results) : results[k].call = calls[j]
  BY <1>o, <1>12
<1>15. i \in 1..Len(log[BatchAt].calls) /\ \A j : j \in i..Len(log[BatchAt].calls) <=> j \in i..Len(calls)
  BY <1>5 DEF calls
<1>16. \A j \in i..Len(log[BatchAt].calls) : \E k \in 1..Len(results) : results[k].call = log[BatchAt].calls[j]
  BY <1>14 DEF calls
<1> QED BY <1>4, <1>8, <1>9, <1>10, <1>11, <1>13, <1>15, <1>16

LEMMA LoopTypes ==
    ASSUME ConstantsAssumption, TypeInv,
           \/ Complete \/ CancelToolBatch \/ ReleaseHeldNotes \/ CancelBeforeModel
           \/ AskModel \/ ModelCancelled \/ ModelFails
    PROVE  TypeInv'
<1> USE DEF store, steps, session, actor, effects
<1>a. InboxGood(inbox, pc) /\ TypeOK /\ used \in Used
  BY DEF TypeInv, InboxOK, TypeOK, Used
<1>1. CASE Complete
  BY <1>1, <1>a, QuietTypes DEF Complete, Settling
<1>2. CASE CancelToolBatch
  <2>1. InboxGood(inbox, "settling")
    BY <1>2, TurnAtHead DEF CancelToolBatch, Owing
  <2>2. log' \in Seq(Message) /\ toolSteps' \subseteq (Nat \ {0}) \X Calls
    <3>1. PICK results \in Seq(Message) : log' = log \o results
      BY <1>2, CancelledResults
    <3>2. log \in Seq(Message)
      BY <1>a DEF TypeOK
    <3> QED BY <1>2, <3>1, <3>2, CancelledResults, ConcatProperties
  <2> QED BY <1>2, <1>a, <2>1, <2>2
          DEF CancelToolBatch, Settling, TypeInv, TypeOK, InboxOK, InboxGood
<1>3. CASE ReleaseHeldNotes
  <2>1. log' \in Seq(Message)
    BY <1>3, <1>a, NotesType, ConcatProperties DEF ReleaseHeldNotes, TypeOK
  <2> QED BY <1>3, <1>a, <2>1 DEF ReleaseHeldNotes, TypeInv, TypeOK, InboxOK
<1>4. CASE CancelBeforeModel
  BY <1>4, <1>a, QuietTypes DEF CancelBeforeModel, Settling, NotOwing
<1>5. CASE AskModel
  BY <1>5, <1>a, QuietTypes DEF AskModel, NotOwing
<1>6. CASE ModelCancelled
  BY <1>6, <1>a, QuietTypes DEF ModelCancelled, Settling
<1>7. CASE ModelFails
  <2>1. used' \in Used
    BY <1>7, <1>a, CountType DEF ModelFails, Counters
  <2> QED BY <1>7, <1>a, <2>1, QuietTypes DEF ModelFails
<1> QED BY <1>1, <1>2, <1>3, <1>4, <1>5, <1>6, <1>7

LEMMA ReplyTypes ==
    ASSUME ConstantsAssumption, TypeInv, NEW b \in Batches, ModelReplies(b)
    PROVE  TypeInv'
<1> USE DEF store, steps, session, actor, effects
<1>a. InboxGood(inbox, pc) /\ TypeOK /\ used \in Used
  BY DEF TypeInv, InboxOK, TypeOK, Used
<1>1. Current \in Turns /\ InboxGood(inbox, "loop")
  BY TurnAtHead DEF ModelReplies
<1>2. ReplyMsg(Current, b) \in Message
  BY <1>1 DEF ReplyMsg, Message
<1>3. log' \in Seq(Message) /\ Len(log) + 1 \in Nat \ {0}
  BY <1>a, <1>2, AppendProperties, LenProperties DEF ModelReplies, TypeOK
<1>4. used' \in Used
  BY <1>a, CountType DEF ModelReplies, Counters
<1>5. modelSteps' \subseteq Nat \ {0}
  <2>1. modelSteps' = modelSteps \cup {Len(log) + 1} /\ modelSteps \subseteq Nat \ {0}
    BY <1>a DEF ModelReplies, TypeOK
  <2> QED BY <2>1, <1>3
<1>6. UNCHANGED <<toolSteps, answers, park, status, held, heldNotes, session, actor, effects>>
      /\ pc' = "loop"
  BY DEF ModelReplies
<1> QED BY <1>a, <1>1, <1>3, <1>4, <1>5, <1>6 DEF TypeInv, TypeOK, InboxOK, Used

LEMMA SettleTypes ==
    ASSUME ConstantsAssumption, TypeInv, Settle \/ Crash
    PROVE  TypeInv'
<1> USE DEF store, steps, session, actor, effects
<1>a. InboxGood(inbox, pc) /\ TypeOK /\ used \in Used
  BY DEF TypeInv, InboxOK, TypeOK, Used
<1>1. CASE Settle
  <2>1. held' \in Seq(Turns)
    BY <1>1, <1>a, HeldWithoutType DEF Settle
  <2>2. InboxGood(Tail(inbox), "idle")
    BY <1>1, <1>a, TurnAtHead, InboxTail DEF Settle
  <2>3. InboxGood(inbox', pc')
    BY <1>1, <2>1, <2>2, InboxDrained DEF Settle
  <2> QED BY <1>1, <1>a, <2>1, <2>3 DEF Settle, TypeInv, TypeOK, InboxOK, InboxGood
<1>2. CASE Crash
  <2>1. InboxGood(<< >>, "idle")
    BY EmptySeq DEF InboxGood
  <2>2. used' \in Used
    BY <1>2, <1>a, CountType DEF Crash, Counters
  <2> QED BY <1>2, <1>a, <2>1, <2>2 DEF Crash, TypeInv, TypeOK, InboxOK, InboxGood, Used
<1> QED BY <1>1, <1>2

\* TypeInv is inductive.
LEMMA TypeStep ==
    ASSUME ConstantsAssumption, TypeInv, [Next]_vars
    PROVE  TypeInv'
<1>1. CASE UNCHANGED vars
  BY <1>1 DEF vars, store, steps, session, actor, effects, TypeInv, TypeOK, InboxOK
<1>2. CASE Rest
  BY <1>1, <1>2 DEF Rest
<1>3. CASE Engine
  BY <1>3, BeginTypes, ToolTypes, LoopTypes, ReplyTypes, SettleTypes DEF Engine
<1> QED BY <1>1, <1>2, <1>3, CallTypes, SettleTypes DEF Next

\* Every state of every run is well typed: no step stores, queues or keeps
\* anything of another kind than the code's type of it, and while the engine is
\* busy the head of the promise chain is an operation of a turn.
THEOREM TypeCorrect == Spec => []TypeOK
<1>1. Init => TypeInv
  BY ConstantsAssumption, TypeInit
<1>2. TypeInv /\ [Next]_vars => TypeInv'
  BY ConstantsAssumption, TypeStep
<1>3. TypeInv => TypeOK
  BY DEF TypeInv
<1> QED BY <1>1, <1>2, <1>3, PTL DEF Spec
-----------------------------------------------------------------------------
(* Tools with an effect.  The record of a call is what keeps it from being *)
(* run again, so the invariant is that whatever ran is on record.          *)

EffectsOnRecord == twice = {} /\ ran \subseteq toolSteps

\* Only reset() takes a tool's record away, and it starts a new generation.
LEMMA RecordsStay ==
    ASSUME [Next]_vars, ~RunReset
    PROVE  toolSteps \subseteq toolSteps'
<1> USE DEF store, steps, session, actor, effects, vars
<1>1. CASE Call
  BY <1>1 DEF Call, StartHolds, StartBegins, Cancel, Resume, Note, Reset, Rebuild, Evict
<1>2. CASE RefuseOverPark \/ CancelEarly \/ OpenTurn \/ RunNote \/ ResetFails
  BY <1>2 DEF RefuseOverPark, CancelEarly, OpenTurn, RunNote, ResetFails
<1>3. CASE Complete \/ ReleaseHeldNotes \/ CancelBeforeModel \/ AskModel
           \/ ModelCancelled \/ ModelFails \/ Settle
  BY <1>3 DEF Complete, ReleaseHeldNotes, CancelBeforeModel, AskModel, ModelCancelled,
              ModelFails, Settle
<1>4. CASE CancelToolBatch
  BY <1>4 DEF CancelToolBatch
<1>5. ASSUME NEW c \in Calls,
             FatalTool(c) \/ RemoteTool(c) \/ RequestInput(c) \/ ParkTurn(c)
      PROVE  toolSteps \subseteq toolSteps'
  BY <1>5 DEF FatalTool, RemoteTool, RequestInput, ParkTurn
<1>6. ASSUME NEW c \in Calls,
             LocalTool(c) \/ LocalToolThrows(c) \/ RemoteReturns(c) \/ RemoteThrows(c)
      PROVE  toolSteps \subseteq toolSteps'
  BY <1>6 DEF LocalTool, LocalToolThrows, RemoteReturns, RemoteThrows, Record
<1>7. ASSUME NEW b \in Batches, ModelReplies(b)
      PROVE  toolSteps \subseteq toolSteps'
  BY <1>7 DEF ModelReplies
<1>8. CASE Crash \/ Rest \/ UNCHANGED vars
  BY <1>8 DEF Crash, Rest
<1> QED BY <1>1, <1>2, <1>3, <1>4, <1>5, <1>6, <1>7, <1>8 DEF Next, Engine

\* Only a synchronous tool has an effect that ran counts.
LEMMA EffectsStay ==
    ASSUME [Next]_vars, ~RunReset, \A c \in Calls : ~LocalTool(c)
    PROVE  UNCHANGED effects
<1> USE DEF store, effects, vars
<1>1. CASE Call
  BY <1>1 DEF Call, StartHolds, StartBegins, Cancel, Resume, Note, Reset, Rebuild, Evict
<1>2. CASE RefuseOverPark \/ CancelEarly \/ OpenTurn \/ RunNote \/ ResetFails
  BY <1>2 DEF RefuseOverPark, CancelEarly, OpenTurn, RunNote, ResetFails
<1>3. CASE Complete \/ ReleaseHeldNotes \/ CancelBeforeModel \/ AskModel
           \/ CancelToolBatch \/ ModelCancelled \/ ModelFails \/ Settle
  BY <1>3 DEF Complete, ReleaseHeldNotes, CancelBeforeModel, AskModel, CancelToolBatch,
              ModelCancelled, ModelFails, Settle
<1>4. ASSUME NEW c \in Calls,
             \/ FatalTool(c) \/ RemoteTool(c) \/ RequestInput(c) \/ ParkTurn(c)
             \/ LocalToolThrows(c) \/ RemoteReturns(c) \/ RemoteThrows(c)
      PROVE  UNCHANGED effects
  BY <1>4 DEF FatalTool, RemoteTool, RequestInput, ParkTurn, LocalToolThrows,
              RemoteReturns, RemoteThrows
<1>5. ASSUME NEW b \in Batches, ModelReplies(b)
      PROVE  UNCHANGED effects
  BY <1>5 DEF ModelReplies
<1>6. CASE Crash \/ Rest \/ UNCHANGED vars
  BY <1>6 DEF Crash, Rest
<1> QED BY <1>1, <1>2, <1>3, <1>4, <1>5, <1>6 DEF Next, Engine

\* The effect of a synchronous tool commits at most once per call, whatever
\* crashes, is redelivered, parked or resumed: toolStep commits the record in
\* the effect's own transaction and looks for it before it runs the tool.
THEOREM LocalToolsRunOnce == Spec => []LocalExactlyOnce
<1>1. Init => EffectsOnRecord
  BY DEF Init, EffectsOnRecord
<1>2. EffectsOnRecord /\ [Next]_vars => EffectsOnRecord'
  <2> SUFFICES ASSUME EffectsOnRecord, [Next]_vars
               PROVE  EffectsOnRecord'
    OBVIOUS
  <2>1. CASE RunReset
    BY <2>1 DEF RunReset, EffectsOnRecord
  <2>2. ASSUME ~RunReset, NEW c \in Calls, LocalTool(c)
        PROVE  EffectsOnRecord'
    <3>1. <<BatchAt, c>> \notin ran
      BY <2>2 DEF LocalTool, RunsTool, ToolStepId, EffectsOnRecord
    <3>2. toolSteps' = toolSteps \cup {<<BatchAt, c>>}
      BY <2>2 DEF LocalTool, Record, ToolStepId
    <3>3. ran' = ran \cup {<<BatchAt, c>>} /\ twice' = twice
      BY <2>2, <3>1 DEF LocalTool, RanNow
    <3> QED BY <3>2, <3>3 DEF EffectsOnRecord
  <2>3. CASE ~RunReset /\ \A c \in Calls : ~LocalTool(c)
    BY <2>3, RecordsStay, EffectsStay DEF EffectsOnRecord, effects
  <2> QED BY <2>1, <2>2, <2>3
<1>3. EffectsOnRecord => LocalExactlyOnce
  BY DEF EffectsOnRecord, LocalExactlyOnce
<1> QED BY <1>1, <1>2, <1>3, PTL DEF Spec
-----------------------------------------------------------------------------
(* Openings.  Every step but an opening and a reset leaves the messages of *)
(* users as they are: it may add messages, of other roles, at the end.     *)

GrowsSilently(l, m) ==
    /\ l \in Seq(Message) /\ m \in Seq(Message)
    /\ Len(l) <= Len(m)
    /\ \A i \in 1..Len(l) : m[i] = l[i]
    /\ \A i \in Len(l)+1..Len(m) : m[i].role # "user"

LEMMA SameIsSilent ==
    ASSUME NEW l \in Seq(Message)
    PROVE  GrowsSilently(l, l)
BY LenProperties DEF GrowsSilently

LEMMA AppendIsSilent ==
    ASSUME NEW l \in Seq(Message), NEW m \in Message, m.role # "user"
    PROVE  GrowsSilently(l, Append(l, m))
BY LenProperties, AppendProperties DEF GrowsSilently

LEMMA ConcatIsSilent ==
    ASSUME NEW l \in Seq(Message), NEW s \in Seq(Message),
           \A i \in 1..Len(s) : s[i].role # "user"
    PROVE  GrowsSilently(l, l \o s)
<1>1. Len(l) \in Nat /\ Len(s) \in Nat
  BY LenProperties
<1>2. /\ l \o s \in Seq(Message) /\ Len(l \o s) = Len(l) + Len(s)
      /\ \A i \in 1..Len(l) + Len(s) : (l \o s)[i] = IF i <= Len(l) THEN l[i] ELSE s[i - Len(l)]
  BY ConcatProperties
<1>3. \A i \in 1..Len(l) : (l \o s)[i] = l[i]
  BY <1>1, <1>2
<1>4. ASSUME NEW i \in Len(l)+1..Len(l)+Len(s)
      PROVE  (l \o s)[i].role # "user"
  <2>1. i - Len(l) \in 1..Len(s) /\ i \in 1..Len(l)+Len(s) /\ ~(i <= Len(l))
    BY <1>1
  <2>2. (l \o s)[i] = s[i - Len(l)]
    BY <1>2, <2>1
  <2> QED BY <2>1, <2>2
<1> QED BY <1>1, <1>2, <1>3, <1>4 DEF GrowsSilently

LEMMA NotesAreSilent ==
    ASSUME ConstantsAssumption, NEW l \in Seq(Message), NEW n \in Nat
    PROVE  GrowsSilently(l, l \o Notes(n))
<1>1. \A i \in 1..n : NoteMsg.role # "user"
  BY DEF NoteMsg
<1>2. Len(Notes(n)) = n /\ \A i \in 1..n : Notes(n)[i] = NoteMsg
  BY DEF Notes
<1>3. \A i \in 1..Len(Notes(n)) : Notes(n)[i].role # "user"
  BY <1>1, <1>2
<1> QED BY <1>3, NotesType, ConcatIsSilent

\* An opening adds the held notes first, and the message of its turn unless the
\* log already has it.
LEMMA OpeningStep ==
    ASSUME ConstantsAssumption, TypeInv, OpenTurn
    PROVE  \E mid \in Seq(Message) :
              /\ GrowsSilently(log, mid)
              /\ OpeningMsg(Current) \in Message
              /\ log' = IF HasOpeningMessage(Current) THEN mid
                        ELSE Append(mid, OpeningMsg(Current))
<1> DEFINE mid == log \o Notes(Released)
<1>1. log \in Seq(Message) /\ Released \in Nat
  BY DEF TypeInv, TypeOK, Released
<1>2. GrowsSilently(log, mid)
  BY <1>1, NotesAreSilent
<1>3. mid \in Seq(Message)
  BY <1>2 DEF GrowsSilently
<1>4. OpeningMsg(Current) \in Message
  BY TurnAtHead DEF OpenTurn, OpeningMsg, Message, ConstantsAssumption
<1>5. log' = mid \o Opening(Current)
  BY DEF OpenTurn
<1> HIDE DEF mid
<1>6. CASE HasOpeningMessage(Current)
  BY <1>2, <1>3, <1>4, <1>5, <1>6, ConcatEmptySeq DEF Opening
<1>7. CASE ~HasOpeningMessage(Current)
  <2>1. Append(mid, OpeningMsg(Current)) = mid \o <<OpeningMsg(Current)>>
    BY <1>3, <1>4, AppendIsConcat
  <2> QED BY <1>2, <1>3, <1>4, <1>5, <1>7, <2>1 DEF Opening
<1> QED BY <1>6, <1>7

LEMMA LogSteps ==
    ASSUME ConstantsAssumption, TypeInv, [Next]_vars, ~OpenTurn, ~RunReset
    PROVE  GrowsSilently(log, log') /\ initiator' = initiator
<1> USE DEF store, session, vars
<1>a. TypeOK /\ log \in Seq(Message) /\ GrowsSilently(log, log)
  BY SameIsSilent DEF TypeInv, TypeOK
<1>1. CASE Call
  BY <1>1, <1>a DEF Call, StartHolds, StartBegins, Cancel, Resume, Note, Reset, Rebuild, Evict
<1>2. CASE RefuseOverPark \/ CancelEarly \/ ResetFails
  BY <1>2, <1>a DEF RefuseOverPark, CancelEarly, ResetFails
<1>3. CASE RunNote
  <2>1. NoteMsg \in Message /\ NoteMsg.role # "user"
    BY DEF NoteMsg, Message, ConstantsAssumption
  <2>2. GrowsSilently(log, Append(log, NoteMsg))
    BY <1>a, <2>1, AppendIsSilent
  <2> QED BY <1>3, <1>a, <2>2 DEF RunNote
<1>4. CASE Complete \/ CancelBeforeModel \/ AskModel \/ ModelCancelled \/ ModelFails \/ Settle
  BY <1>4, <1>a DEF Complete, CancelBeforeModel, AskModel, ModelCancelled, ModelFails, Settle
<1>5. CASE ReleaseHeldNotes
  <2>1. GrowsSilently(log, log \o Notes(heldNotes))
    BY <1>a, NotesAreSilent DEF TypeOK
  <2> QED BY <1>5, <2>1 DEF ReleaseHeldNotes
<1>6. CASE CancelToolBatch
  <2>1. PICK results \in Seq(Message) :
           log' = log \o results /\ \A k \in 1..Len(results) : results[k].role = "tool"
    BY <1>6, CancelledResults
  <2>2. GrowsSilently(log, log')
    BY <1>a, <2>1, ConcatIsSilent
  <2> QED BY <1>6, <2>2 DEF CancelToolBatch
<1>7. ASSUME NEW c \in Calls,
             FatalTool(c) \/ RemoteTool(c) \/ RequestInput(c) \/ ParkTurn(c)
      PROVE  GrowsSilently(log, log') /\ initiator' = initiator
  BY <1>7, <1>a DEF FatalTool, RemoteTool, RequestInput, ParkTurn
<1>8. ASSUME NEW c \in Calls,
             LocalTool(c) \/ LocalToolThrows(c) \/ RemoteReturns(c) \/ RemoteThrows(c)
      PROVE  GrowsSilently(log, log') /\ initiator' = initiator
  <2>1. Current \in Turns
    BY <1>8, TurnAtHead
       DEF LocalTool, LocalToolThrows, RemoteReturns, RemoteThrows, RunsTool, InTool, Owing
  <2>2. ResultMsg(Current, c) \in Message /\ ResultMsg(Current, c).role # "user"
    BY <2>1 DEF ResultMsg, Message, ConstantsAssumption
  <2>3. log' = Append(log, ResultMsg(Current, c)) /\ initiator' = initiator
    BY <1>8 DEF LocalTool, LocalToolThrows, RemoteReturns, RemoteThrows, Record
  <2> QED BY <1>a, <2>2, <2>3, AppendIsSilent
<1>9. ASSUME NEW b \in Batches, ModelReplies(b)
      PROVE  GrowsSilently(log, log') /\ initiator' = initiator
  <2>1. ReplyMsg(Current, b) \in Message /\ ReplyMsg(Current, b).role # "user"
    BY <1>9, TurnAtHead DEF ModelReplies, ReplyMsg, Message, ConstantsAssumption
  <2>2. log' = Append(log, ReplyMsg(Current, b)) /\ initiator' = initiator
    BY <1>9 DEF ModelReplies
  <2> QED BY <1>a, <2>1, <2>2, AppendIsSilent
<1>10. CASE Crash \/ Rest \/ UNCHANGED vars
  BY <1>10, <1>a DEF Crash, Rest
<1> QED BY <1>1, <1>2, <1>3, <1>4, <1>5, <1>6, <1>7, <1>8, <1>9, <1>10 DEF Next, Engine

\* The openings of log l are of different turns, and who is the first identity
\* among them.
OnceIn(l) ==
    \A i, j \in 1..Len(l) :
        l[i].role = "user" /\ l[j].role = "user" /\ l[i].turn = l[j].turn => i = j

Identified(l) == {i \in 1..Len(l) : l[i].role = "user" /\ PrincipalOf[l[i].turn] # NoPrincipal}

SeatIn(l, who) ==
    IF Identified(l) = {} THEN who = NoPrincipal
    ELSE \E i \in Identified(l) : /\ who = PrincipalOf[l[i].turn]
                                  /\ \A j \in Identified(l) : i <= j

LEMMA SilenceKeepsOpenings ==
    ASSUME NEW l, NEW m, NEW who, GrowsSilently(l, m)
    PROVE  /\ OnceIn(l) => OnceIn(m)
           /\ Identified(m) = Identified(l)
           /\ SeatIn(l, who) => SeatIn(m, who)
<1>1. Len(l) \in Nat /\ Len(m) \in Nat /\ Len(l) <= Len(m)
  BY LenProperties DEF GrowsSilently
<1>2. ASSUME NEW i \in 1..Len(m), m[i].role = "user"
      PROVE  i \in 1..Len(l) /\ m[i] = l[i]
  BY <1>1, <1>2 DEF GrowsSilently
<1>3. \A i \in 1..Len(l) : i \in 1..Len(m) /\ m[i] = l[i]
  BY <1>1 DEF GrowsSilently
<1>4. OnceIn(l) => OnceIn(m)
  BY <1>2 DEF OnceIn
<1>5. Identified(m) = Identified(l)
  BY <1>2, <1>3 DEF Identified
<1>6. SeatIn(l, who) => SeatIn(m, who)
  <2>1. \A i \in Identified(l) : m[i] = l[i]
    BY <1>3 DEF Identified
  <2> QED BY <1>5, <2>1 DEF SeatIn
<1> QED BY <1>4, <1>5, <1>6

\* A turn opens once in a generation, however often it is delivered, held,
\* replayed or resumed, and whatever crashes: runTurn looks for the opening in
\* the transcript it has just read, and nothing but a turn appends one.
THEOREM TurnsOpenOnce == Spec => []OpensOnce
<1> DEFINE Inv == TypeInv /\ OnceIn(log)
<1>1. Init => Inv
  BY ConstantsAssumption, TypeInit DEF Init, OnceIn
<1>2. Inv /\ [Next]_vars => Inv'
  <2> SUFFICES ASSUME TypeInv, OnceIn(log), [Next]_vars
               PROVE  TypeInv' /\ OnceIn(log')
    BY DEF OnceIn
  <2> USE ConstantsAssumption
  <2>1. TypeInv'
    BY TypeStep
  <2>2. CASE RunReset
    BY <2>1, <2>2 DEF RunReset, OnceIn
  <2>3. CASE OpenTurn
    <3>1. PICK mid \in Seq(Message) :
             /\ GrowsSilently(log, mid)
             /\ OpeningMsg(Current) \in Message
             /\ log' = IF HasOpeningMessage(Current) THEN mid
                       ELSE Append(mid, OpeningMsg(Current))
      BY <2>3, OpeningStep
    <3>2. OnceIn(mid)
      BY <3>1, SilenceKeepsOpenings
    <3>3. CASE HasOpeningMessage(Current)
      BY <2>1, <3>1, <3>2, <3>3
    <3>4. CASE ~HasOpeningMessage(Current)
      <4>1. ASSUME NEW i \in 1..Len(mid), mid[i].role = "user"
            PROVE  mid[i].turn # Current
        <5>1. i \in DOMAIN log /\ mid[i] = log[i]
          BY <3>1, <4>1, LenProperties, SMTT(20) DEF GrowsSilently
        <5> QED BY <3>4, <4>1, <5>1 DEF HasOpeningMessage
      <4>2. /\ Len(log') = Len(mid) + 1 /\ Len(mid) \in Nat
            /\ \A i \in 1..Len(mid) : log'[i] = mid[i]
            /\ log'[Len(mid) + 1].turn = Current
        BY <3>1, <3>4, AppendProperties, LenProperties DEF OpeningMsg
      <4>3. ASSUME NEW i \in 1..Len(log')
            PROVE  i = Len(mid) + 1 \/ i \in 1..Len(mid)
        BY <4>2
      <4>4. OnceIn(log')
        BY <3>2, <4>1, <4>2, <4>3 DEF OnceIn
      <4> QED BY <2>1, <4>4
    <3> QED BY <3>3, <3>4
  <2>4. CASE ~RunReset /\ ~OpenTurn
    <3>1. GrowsSilently(log, log')
      BY <2>4, LogSteps
    <3> QED BY <2>1, <3>1, SilenceKeepsOpenings
  <2> QED BY <2>2, <2>3, <2>4
<1>3. Inv => OpensOnce
  <2> SUFFICES ASSUME TypeInv, OnceIn(log) PROVE OpensOnce
    OBVIOUS
  <2>1. DOMAIN log = 1..Len(log)
    BY LenProperties DEF TypeInv, TypeOK
  <2> QED BY <2>1 DEF OnceIn, OpensOnce
<1> QED BY <1>1, <1>2, <1>3, PTL DEF Spec

LEMMA SeatStep ==
    ASSUME ConstantsAssumption, TypeInv, SeatIn(log, initiator), [Next]_vars
    PROVE  SeatIn(log', initiator')
<1>1. CASE RunReset
  <2>1. Identified(log') = {} /\ initiator' = NoPrincipal
    BY <1>1 DEF RunReset, Identified
  <2> QED BY <2>1 DEF SeatIn
<1>2. CASE OpenTurn
  <2>1. PICK mid \in Seq(Message) :
           /\ GrowsSilently(log, mid)
           /\ OpeningMsg(Current) \in Message
           /\ log' = IF HasOpeningMessage(Current) THEN mid
                     ELSE Append(mid, OpeningMsg(Current))
    BY <1>2, OpeningStep
  <2>2. SeatIn(mid, initiator) /\ Identified(mid) = Identified(log)
    BY <2>1, SilenceKeepsOpenings
  <2>3. initiator' = IF initiator = NoPrincipal THEN PrincipalOf[Current] ELSE initiator
    BY <1>2 DEF OpenTurn
  <2>4. initiator = NoPrincipal => Identified(mid) = {}
    BY <2>2 DEF SeatIn, Identified
  <2>5. CASE HasOpeningMessage(Current)
    <3>1. initiator = NoPrincipal => PrincipalOf[Current] = NoPrincipal
      <4>1. PICK i \in 1..Len(log) : log[i].role = "user" /\ log[i].turn = Current
        BY <2>5, LenProperties DEF HasOpeningMessage, TypeInv, TypeOK
      <4> QED BY <2>2, <2>4, <4>1 DEF Identified
    <3>2. initiator' = initiator
      BY <2>3, <3>1
    <3> QED BY <2>1, <2>2, <2>5, <3>2
  <2>6. CASE ~HasOpeningMessage(Current)
    <3>1. /\ Len(log') = Len(mid) + 1 /\ Len(mid) \in Nat
          /\ \A i \in 1..Len(mid) : log'[i] = mid[i]
          /\ log'[Len(mid) + 1].role = "user" /\ log'[Len(mid) + 1].turn = Current
      BY <2>1, <2>6, AppendProperties, LenProperties DEF OpeningMsg
    <3>2. Identified(log') = Identified(mid) \cup
            (IF PrincipalOf[Current] = NoPrincipal THEN {} ELSE {Len(mid) + 1})
      BY <3>1 DEF Identified
    <3>3. \A i \in Identified(mid) : i \in 1..Len(mid) /\ log'[i] = mid[i]
      BY <3>1 DEF Identified
    <3>4. CASE initiator = NoPrincipal
      BY <2>3, <2>4, <3>1, <3>2, <3>4, SMTT(20) DEF SeatIn
    <3>5. CASE initiator # NoPrincipal
      <4>1. PICK i \in Identified(mid) : /\ initiator = PrincipalOf[mid[i].turn]
                                         /\ \A j \in Identified(mid) : i <= j
        BY <2>2, <3>5 DEF SeatIn
      <4>2. \A j \in Identified(log') : i <= j
        BY <3>1, <3>2, <3>3, <4>1
      <4> QED BY <2>3, <3>2, <3>3, <3>5, <4>1, <4>2 DEF SeatIn
    <3> QED BY <3>4, <3>5
  <2> QED BY <2>5, <2>6
<1>3. CASE ~RunReset /\ ~OpenTurn
  <2>1. GrowsSilently(log, log') /\ initiator' = initiator
    BY <1>3, LogSteps
  <2> QED BY <2>1, SilenceKeepsOpenings
<1> QED BY <1>1, <1>2, <1>3

\* The session's seat belongs to the first identified turn that opened in this
\* generation and to nobody before it: the claim commits with the opening, so no
\* crash falls between the two, and a later identity never takes the seat.
THEOREM SeatIsTheFirst == Spec => []SeatIsFirstIdentified
<1> DEFINE Inv == TypeInv /\ SeatIn(log, initiator)
<1>1. Init => Inv
  <2> SUFFICES ASSUME Init PROVE Inv
    OBVIOUS
  <2>1. Identified(log) = {}
    BY DEF Init, Identified
  <2> QED BY ConstantsAssumption, TypeInit, <2>1 DEF Init, SeatIn
<1>2. Inv /\ [Next]_vars => Inv'
  <2>1. TypeInv /\ [Next]_vars => TypeInv'
    BY ConstantsAssumption, TypeStep
  <2>2. TypeInv /\ SeatIn(log, initiator) /\ [Next]_vars => SeatIn(log', initiator')
    BY ConstantsAssumption, SeatStep
  <2> QED BY <2>1, <2>2 DEF SeatIn, Identified
<1>3. Inv => SeatIsFirstIdentified
  <2> SUFFICES ASSUME TypeInv, SeatIn(log, initiator) PROVE SeatIsFirstIdentified
    OBVIOUS
  <2>1. DOMAIN log = 1..Len(log)
    BY LenProperties DEF TypeInv, TypeOK
  <2> QED BY <2>1 DEF SeatIn, Identified, SeatIsFirstIdentified
<1> QED BY <1>1, <1>2, <1>3, PTL DEF Spec
-----------------------------------------------------------------------------
(* Idleness.  A cancel request is kept only for a turn that has not        *)
(* settled: that is what makes dropping an idle actor safe.                *)

CancelsOfRunning == cancels \subseteq Running

LEMMA RunningGrows ==
    ASSUME NEW q, NEW p, InboxGood(q, p), NEW op \in Op
    PROVE  RunningIn(q) \subseteq RunningIn(Append(q, op))
<1>1. /\ q \in Seq(Op) /\ Len(q) \in Nat
      /\ Append(q, op) \in Seq(Op) /\ Len(Append(q, op)) = Len(q) + 1
      /\ \A i \in 1..Len(q) : Append(q, op)[i] = q[i]
  BY AppendProperties, LenProperties DEF InboxGood
<1>2. DOMAIN q = 1..Len(q) /\ DOMAIN Append(q, op) = 1..Len(q)+1
  BY <1>1, LenProperties
<1>3. \A i \in DOMAIN q : i \in DOMAIN Append(q, op) /\ Append(q, op)[i] = q[i]
  BY <1>1, <1>2
<1> QED BY <1>3 DEF RunningIn

LEMMA RunningDrains ==
    ASSUME NEW q, NEW p, InboxGood(q, p), NEW h \in Seq(Turns)
    PROVE  RunningIn(q) \subseteq RunningIn(Drained(q, h))
<1>1. CASE Drained(q, h) = q
  BY <1>1
<1>2. CASE h # << >> /\ Drained(q, h) = Append(q, TurnOp(Head(h)))
  <2>1. TurnOp(Head(h)) \in Op
    BY <1>2, HeadTailProperties DEF TurnOp, Op
  <2> QED BY <1>2, <2>1, RunningGrows
<1> QED BY <1>1, <1>2 DEF Drained

LEMMA RunningLosesHead ==
    ASSUME NEW q, NEW p, InboxGood(q, p), q # << >>
    PROVE  RunningIn(q) \subseteq RunningIn(Tail(q)) \cup {Head(q).turn}
<1>1. /\ q \in Seq(Op) /\ Len(q) \in Nat
      /\ Tail(q) \in Seq(Op) /\ Len(Tail(q)) = Len(q) - 1
      /\ \A i \in 1..Len(Tail(q)) : Tail(q)[i] = q[i + 1]
      /\ Head(q) = q[1]
  BY HeadTailProperties, LenProperties DEF InboxGood
<1>2. DOMAIN q = 1..Len(q) /\ DOMAIN Tail(q) = 1..Len(q)-1
  BY <1>1, LenProperties
<1>3. ASSUME NEW i \in DOMAIN q, i # 1
      PROVE  i - 1 \in DOMAIN Tail(q) /\ Tail(q)[i - 1] = q[i]
  <2>1. i \in 1..Len(q) /\ i - 1 \in 1..Len(q)-1 /\ (i - 1) + 1 = i
    BY <1>1, <1>2, <1>3
  <2> QED BY <1>1, <1>2, <2>1
<1> SUFFICES ASSUME NEW t \in RunningIn(q), t # Head(q).turn
             PROVE  t \in RunningIn(Tail(q))
  OBVIOUS
<1>4. PICK i \in DOMAIN q : q[i].turn = t
  BY DEF RunningIn
<1>5. i # 1
  BY <1>1, <1>4
<1>6. i - 1 \in DOMAIN Tail(q) /\ Tail(q)[i - 1].turn = t
  BY <1>3, <1>4, <1>5
<1> QED BY <1>6 DEF RunningIn

LEMMA CancelsStep ==
    ASSUME ConstantsAssumption, TypeInv, CancelsOfRunning, [Next]_vars
    PROVE  CancelsOfRunning'
<1> USE DEF CancelsOfRunning, Running
<1>a. InboxGood(inbox, pc) /\ held \in Seq(Turns)
  BY DEF TypeInv, InboxOK, TypeOK
<1>b. ASSUME NEW op \in Op, inbox' = Append(inbox, op), cancels' \subseteq cancels \cup Running
      PROVE  CancelsOfRunning'
  BY <1>a, <1>b, RunningGrows
<1>1. ASSUME NEW t \in Turns, StartHolds(t)
      PROVE  CancelsOfRunning'
  <2>1. held' \in Seq(Turns)
    BY <1>1, TypeStep DEF TypeInv, TypeOK, Next, Call
  <2>2. inbox' = Drained(inbox, held') /\ cancels' = cancels
    BY <1>1 DEF StartHolds
  <2> QED BY <1>a, <2>1, <2>2, RunningDrains
<1>2. ASSUME NEW t \in Turns, StartBegins(t)
      PROVE  CancelsOfRunning'
  <2> DEFINE q == IF parkedTurnId = NoTurn THEN Drained(inbox, held) ELSE inbox
  <2>1. InboxGood(q, pc) /\ RunningIn(inbox) \subseteq RunningIn(q)
    BY <1>a, InboxDrained, RunningDrains
  <2>2. inbox' = Append(q, TurnOp(t)) /\ cancels' \subseteq cancels \cup RunningIn(q)
    BY <1>2 DEF StartBegins
  <2>3. TurnOp(t) \in Op
    BY DEF TurnOp, Op
  <2> HIDE DEF q
  <2> QED BY <2>1, <2>2, <2>3, RunningGrows
<1>3. ASSUME NEW t \in Turns, Cancel(t)
      PROVE  CancelsOfRunning'
  BY <1>3 DEF Cancel
<1>4. ASSUME NEW t \in Turns, Resume(t)
      PROVE  CancelsOfRunning'
  <2>1. ResumeOp(t) \in Op
    BY DEF ResumeOp, Op
  <2> QED BY <1>4, <1>b, <2>1 DEF Resume
<1>5. CASE Note \/ Reset
  <2>1. NoteOp \in Op /\ ResetOp \in Op
    BY DEF NoteOp, ResetOp, Op
  <2>2. CASE Note
    BY <2>2, <1>b, <2>1 DEF Note
  <2>3. CASE Reset
    BY <2>3, <1>b, <2>1 DEF Reset
  <2> QED BY <1>5, <2>2, <2>3
<1>6. CASE RunNote \/ RunReset \/ ResetFails
  <2>1. /\ inbox # << >> /\ inbox' = Tail(inbox) /\ cancels' = cancels
        /\ Head(inbox).kind \in {"note", "reset"}
    BY <1>6 DEF RunNote, RunReset, ResetFails, AtHead
  <2>2. Head(inbox).turn = NoTurn
    <3>1. Len(inbox) \in Nat \ {0}
      BY <1>a, <2>1, EmptySeq DEF InboxGood
    <3> QED BY <1>a, <2>1, <3>1 DEF InboxGood, OpGood, TurnKinds
  <2>3. NoTurn \notin RunningIn(inbox)
    BY DEF RunningIn
  <2>4. RunningIn(inbox) \subseteq RunningIn(Tail(inbox)) \cup {NoTurn}
    BY <1>a, <2>1, <2>2, RunningLosesHead
  <2> QED BY <2>1, <2>3, <2>4
<1>7. CASE Settle
  <2>1. inbox # << >> /\ InboxGood(Tail(inbox), "idle")
    BY <1>7, <1>a, TurnAtHead, InboxTail DEF Settle
  <2>2. held' \in Seq(Turns)
    BY <1>7, HeldWithoutType DEF Settle, TypeInv
  <2>3. inbox' = Drained(Tail(inbox), held')
    BY <1>7 DEF Settle
  <2>4. RunningIn(Tail(inbox)) \subseteq RunningIn(inbox')
    BY <2>1, <2>2, <2>3, RunningDrains
  <2>5. cancels' \subseteq RunningIn(Tail(inbox))
    BY <1>7, <1>a, <2>1, RunningLosesHead DEF Settle, Current
  <2> QED BY <2>4, <2>5
<1>8. CASE Evict \/ Crash
  BY <1>8 DEF Evict, Crash
<1>9. CASE UNCHANGED <<inbox, cancels>>
  BY <1>9
<1>10. CASE \/ Rebuild \/ Rest \/ UNCHANGED vars
            \/ RefuseOverPark \/ CancelEarly \/ OpenTurn \/ Complete \/ CancelToolBatch
            \/ ReleaseHeldNotes \/ CancelBeforeModel \/ AskModel \/ ModelCancelled \/ ModelFails
  BY <1>9, <1>10
     DEF Rebuild, Rest, RefuseOverPark, CancelEarly, OpenTurn, Complete, CancelToolBatch,
         ReleaseHeldNotes, CancelBeforeModel, AskModel, ModelCancelled, ModelFails, vars, actor
<1>11. ASSUME NEW c \in Calls,
              \/ FatalTool(c) \/ LocalTool(c) \/ LocalToolThrows(c) \/ RemoteTool(c)
              \/ RemoteReturns(c) \/ RemoteThrows(c) \/ RequestInput(c) \/ ParkTurn(c)
       PROVE  CancelsOfRunning'
  BY <1>9, <1>11
     DEF FatalTool, LocalTool, LocalToolThrows, RemoteTool, RemoteReturns, RemoteThrows,
         RequestInput, ParkTurn, Record, actor
<1>12. ASSUME NEW b \in Batches, ModelReplies(b)
       PROVE  CancelsOfRunning'
  BY <1>9, <1>12 DEF ModelReplies, actor
<1> QED BY <1>1, <1>2, <1>3, <1>4, <1>5, <1>6, <1>7, <1>8, <1>10, <1>11, <1>12
        DEF Next, Call, Engine

\* An actor that says it is idle may be dropped and rebuilt: when a host can ask,
\* its chain is empty and it keeps no cancel request that a later delivery of
\* the turn would have met (idle() looks at running and pendingReset only;
\* track() and settle() keep the rest in step with them).
THEOREM IdleActorsAreEmpty == Spec => []IdleLosesNothing
<1> DEFINE Inv == TypeInv /\ CancelsOfRunning
<1>1. Init => Inv
  BY ConstantsAssumption, TypeInit DEF Init, CancelsOfRunning
<1>2. Inv /\ [Next]_vars => Inv'
  BY ConstantsAssumption, TypeStep, CancelsStep
<1>3. Inv => IdleLosesNothing
  <2> SUFFICES ASSUME TypeInv, CancelsOfRunning, HostMayCall, IsIdle
               PROVE  pc = "idle" /\ inbox = << >> /\ cancels = {}
    BY DEF IdleLosesNothing
  <2>1. cancels = {}
    BY DEF CancelsOfRunning, IsIdle
  <2>2. ASSUME pc # "idle"
        PROVE  FALSE
    <3>1. inbox # << >> /\ Current \in Turns
      BY <2>2, TurnAtHead
    <3>2. inbox \in Seq(Op)
      BY DEF TypeInv, TypeOK
    <3>3. 1 \in DOMAIN inbox /\ Head(inbox) = inbox[1]
      BY <3>1, <3>2, LenProperties, EmptySeq
    <3>4. Current # NoTurn
      BY <3>1, ConstantsAssumption DEF ConstantsAssumption
    <3>5. Current \in Running
      BY <3>3, <3>4 DEF Current, Running, RunningIn
    <3> QED BY <3>5 DEF IsIdle
  <2> QED BY <2>1, <2>2 DEF HostMayCall
<1> QED BY <1>1, <1>2, <1>3, PTL DEF Spec
-----------------------------------------------------------------------------
(* Checkpoints.  The steps table and the transcript say the same thing.    *)

(* The latest reply of the first n messages of l; BatchAt and BatchBefore  *)
(* are this of the log.                                                    *)
LastReply(l, n) ==
    CHOOSE at \in 1..n : /\ at \in 1..n /\ l[at].role = "assistant"
                         /\ \A j \in at+1..n : l[j].role # "assistant"

CheckedIn(l, ms, ts) ==
    /\ ms = At(l, "assistant")
    /\ ts = {<<LastReply(l, j - 1), l[j].call>> : j \in At(l, "tool")}

IsPrefixOf(l, m) ==
    /\ l \in Seq(Message) /\ m \in Seq(Message)
    /\ Len(l) <= Len(m)
    /\ \A i \in 1..Len(l) : m[i] = l[i]

New(l, m) == Len(l)+1..Len(m)
NewAt(l, m, role) == {i \in New(l, m) : m[i].role = role}

\* Which reply is the latest depends on the messages before it only, and does
\* not change while no other is appended.
LEMMA LastReplyOfPrefix ==
    ASSUME NEW l, NEW m, IsPrefixOf(l, m), NEW n \in 0..Len(l)
    PROVE  LastReply(m, n) = LastReply(l, n)
<1>1. Len(l) \in Nat
  BY LenProperties DEF IsPrefixOf
<1>2. \A i \in 1..n : m[i] = l[i]
  BY <1>1 DEF IsPrefixOf
<1> DEFINE P(q, at) == /\ at \in 1..n /\ q[at].role = "assistant"
                       /\ \A j \in at+1..n : q[j].role # "assistant"
<1>3. \A at \in 1..n : P(m, at) <=> P(l, at)
  BY <1>1, <1>2
<1>4. (CHOOSE at \in 1..n : P(m, at)) = (CHOOSE at \in 1..n : P(l, at))
  <2> HIDE DEF P
  <2> QED BY <1>3, Zenon
<1> QED BY <1>4 DEF LastReply

LEMMA LastReplyStays ==
    ASSUME NEW l, NEW m, IsPrefixOf(l, m),
           NewAt(l, m, "assistant") = {} \/ Len(m) = Len(l) + 1,
           NEW j \in New(l, m)
    PROVE  LastReply(m, j - 1) = LastReply(l, Len(l))
<1>1. Len(l) \in Nat /\ Len(m) \in Nat /\ Len(l) <= j - 1 /\ j - 1 \in Nat /\ j <= Len(m)
  BY LenProperties DEF IsPrefixOf, New
<1>2. \A i \in 1..j-1 : i > Len(l) => m[i].role # "assistant"
  BY <1>1 DEF NewAt, New
<1>3. \A i \in 1..Len(l) : m[i] = l[i]
  BY DEF IsPrefixOf
<1> DEFINE P(q, n, at) == /\ at \in 1..n /\ q[at].role = "assistant"
                          /\ \A k \in at+1..n : q[k].role # "assistant"
<1>4. \A at : P(m, j - 1, at) <=> P(l, Len(l), at)
  BY <1>1, <1>2, <1>3, SMTT(20)
<1>5. (CHOOSE at : at \in 1..j-1 /\ P(m, j - 1, at)) = (CHOOSE at : at \in 1..Len(l) /\ P(l, Len(l), at))
  <2>1. \A at : (at \in 1..j-1 /\ P(m, j - 1, at)) <=> (at \in 1..Len(l) /\ P(l, Len(l), at))
    BY <1>4
  <2> HIDE DEF P
  <2> QED BY <2>1, Zenon
<1> QED BY <1>5 DEF LastReply

LEMMA AtGrows ==
    ASSUME NEW l, NEW m, IsPrefixOf(l, m), NEW role
    PROVE  /\ At(m, role) = At(l, role) \cup NewAt(l, m, role)
           /\ \A i \in At(l, role) : m[i] = l[i]
<1>1. Len(l) \in Nat /\ Len(m) \in Nat /\ Len(l) <= Len(m)
  BY LenProperties DEF IsPrefixOf
<1>2. \A i : i \in 1..Len(m) <=> i \in 1..Len(l) \/ i \in New(l, m)
  BY <1>1 DEF New
<1>3. \A i \in 1..Len(l) : m[i] = l[i]
  BY DEF IsPrefixOf
<1> QED BY <1>2, <1>3 DEF At, NewAt

\* What a log that grows asks of the steps table: a model step for each new
\* reply, a tool step for each new result, at the latest reply.
LEMMA CheckedGrows ==
    ASSUME NEW l, NEW m, IsPrefixOf(l, m),
           NewAt(l, m, "assistant") = {} \/ Len(m) = Len(l) + 1,
           NEW ms, NEW ts, CheckedIn(l, ms, ts)
    PROVE  CheckedIn(m, ms \cup NewAt(l, m, "assistant"),
                     ts \cup {<<LastReply(l, Len(l)), m[j].call>> : j \in NewAt(l, m, "tool")})
<1>1. At(m, "assistant") = ms \cup NewAt(l, m, "assistant")
  BY AtGrows DEF CheckedIn
<1>2. \A j \in NewAt(l, m, "tool") : LastReply(m, j - 1) = LastReply(l, Len(l))
  BY LastReplyStays DEF NewAt
<1>3. ASSUME NEW j \in At(l, "tool")
      PROVE  LastReply(m, j - 1) = LastReply(l, j - 1) /\ m[j] = l[j]
  <2>1. j \in 1..Len(l) /\ Len(l) \in Nat
    BY LenProperties DEF At, IsPrefixOf
  <2>2. j - 1 \in 0..Len(l)
    BY <2>1
  <2> QED BY <2>2, LastReplyOfPrefix, AtGrows
<1>4. At(m, "tool") = At(l, "tool") \cup NewAt(l, m, "tool")
  BY AtGrows
<1>5. {<<LastReply(m, j - 1), m[j].call>> : j \in At(m, "tool")}
        = {<<LastReply(m, j - 1), m[j].call>> : j \in At(l, "tool")}
            \cup {<<LastReply(m, j - 1), m[j].call>> : j \in NewAt(l, m, "tool")}
  BY <1>4
<1>6. {<<LastReply(m, j - 1), m[j].call>> : j \in At(l, "tool")} = ts
  BY <1>3 DEF CheckedIn
<1>7. {<<LastReply(m, j - 1), m[j].call>> : j \in NewAt(l, m, "tool")}
        = {<<LastReply(l, Len(l)), m[j].call>> : j \in NewAt(l, m, "tool")}
  BY <1>2
<1> QED BY <1>1, <1>5, <1>6, <1>7 DEF CheckedIn

\* The three ways a log grows: by messages that are nobody's step, by a reply,
\* by results.
LEMMA QuietGrowth ==
    ASSUME NEW l \in Seq(Message), NEW s \in Seq(Message),
           \A i \in 1..Len(s) : s[i].role \notin {"assistant", "tool"},
           NEW ms, NEW ts, CheckedIn(l, ms, ts)
    PROVE  CheckedIn(l \o s, ms, ts)
<1>1. Len(l) \in Nat /\ Len(s) \in Nat
  BY LenProperties
<1>2. /\ l \o s \in Seq(Message) /\ Len(l \o s) = Len(l) + Len(s)
      /\ \A i \in 1..Len(l) + Len(s) : (l \o s)[i] = IF i <= Len(l) THEN l[i] ELSE s[i - Len(l)]
  BY ConcatProperties
<1>3. IsPrefixOf(l, l \o s)
  BY <1>1, <1>2 DEF IsPrefixOf
<1>4. ASSUME NEW i \in New(l, l \o s)
      PROVE  (l \o s)[i].role \notin {"assistant", "tool"}
  <2>1. i - Len(l) \in 1..Len(s) /\ i \in 1..Len(l)+Len(s) /\ ~(i <= Len(l))
    BY <1>1, <1>2 DEF New
  <2> QED BY <1>2, <2>1
<1>5. NewAt(l, l \o s, "assistant") = {} /\ NewAt(l, l \o s, "tool") = {}
  BY <1>4 DEF NewAt
<1>6. CheckedIn(l \o s, ms \cup {},
                ts \cup {<<LastReply(l, Len(l)), (l \o s)[j].call>> : j \in {}})
  BY <1>3, <1>5, CheckedGrows
<1> QED BY <1>6

LEMMA ReplyGrowth ==
    ASSUME NEW l \in Seq(Message), NEW m \in Message, m.role = "assistant",
           NEW ms, NEW ts, CheckedIn(l, ms, ts)
    PROVE  CheckedIn(Append(l, m), ms \cup {Len(l) + 1}, ts)
<1> DEFINE k == Append(l, m)
<1>1. /\ k \in Seq(Message) /\ Len(k) = Len(l) + 1 /\ Len(l) \in Nat
      /\ \A i \in 1..Len(l) : k[i] = l[i]
      /\ k[Len(l) + 1] = m
  BY AppendProperties, LenProperties
<1> HIDE DEF k
<1>2. IsPrefixOf(l, k)
  BY <1>1 DEF IsPrefixOf
<1>3. NewAt(l, k, "assistant") = {Len(l) + 1} /\ NewAt(l, k, "tool") = {}
  BY <1>1 DEF NewAt, New
<1>4. CheckedIn(k, ms \cup {Len(l) + 1}, ts \cup {<<LastReply(l, Len(l)), k[j].call>> : j \in {}})
  BY <1>1, <1>2, <1>3, CheckedGrows
<1> QED BY <1>4 DEF k

LEMMA ResultsGrowth ==
    ASSUME NEW l \in Seq(Message), NEW s \in Seq(Message),
           \A i \in 1..Len(s) : s[i].role = "tool",
           NEW ms, NEW ts, CheckedIn(l, ms, ts)
    PROVE  CheckedIn(l \o s, ms,
                     ts \cup {<<LastReply(l, Len(l)), s[i].call>> : i \in 1..Len(s)})
<1> DEFINE k == l \o s
<1>1. Len(l) \in Nat /\ Len(s) \in Nat
  BY LenProperties
<1>2. /\ k \in Seq(Message) /\ Len(k) = Len(l) + Len(s)
      /\ \A i \in 1..Len(l) + Len(s) : k[i] = IF i <= Len(l) THEN l[i] ELSE s[i - Len(l)]
  BY ConcatProperties
<1> HIDE DEF k
<1>3. IsPrefixOf(l, k)
  BY <1>1, <1>2 DEF IsPrefixOf
<1>4. ASSUME NEW i \in New(l, k)
      PROVE  i - Len(l) \in 1..Len(s) /\ k[i] = s[i - Len(l)]
  <2>1. i - Len(l) \in 1..Len(s) /\ i \in 1..Len(l)+Len(s) /\ ~(i <= Len(l))
    BY <1>1, <1>2 DEF New
  <2> QED BY <1>2, <2>1
<1>5. ASSUME NEW i \in 1..Len(s)
      PROVE  Len(l) + i \in New(l, k) /\ k[Len(l) + i] = s[i]
  <2>1. /\ Len(l) + i \in Len(l)+1..Len(l)+Len(s) /\ Len(l) + i \in 1..Len(l)+Len(s)
        /\ ~(Len(l) + i <= Len(l)) /\ (Len(l) + i) - Len(l) = i
    BY <1>1
  <2> QED BY <1>2, <2>1 DEF New
<1>6. NewAt(l, k, "assistant") = {} /\ NewAt(l, k, "tool") = New(l, k)
  BY <1>4 DEF NewAt
<1>7. {<<LastReply(l, Len(l)), k[j].call>> : j \in New(l, k)}
        = {<<LastReply(l, Len(l)), s[i].call>> : i \in 1..Len(s)}
  BY <1>4, <1>5
<1>8. CheckedIn(k, ms \cup {}, ts \cup {<<LastReply(l, Len(l)), k[j].call>> : j \in New(l, k)})
  BY <1>3, <1>6, CheckedGrows
<1> QED BY <1>7, <1>8 DEF k
-----------------------------------------------------------------------------
Checked == CheckedIn(log, modelSteps, toolSteps)

LEMMA RecordChecked ==
    ASSUME ConstantsAssumption, TypeInv, Checked, NEW c \in Calls,
           pc # "idle", Record(c)
    PROVE  Checked'
<1>1. log \in Seq(Message)
  BY DEF TypeInv, TypeOK
<1>2. ResultMsg(Current, c) \in Message
  BY TurnAtHead DEF ResultMsg, Message, ConstantsAssumption
<1> DEFINE s == <<ResultMsg(Current, c)>>
<1>3. s \in Seq(Message) /\ Len(s) = 1 /\ s[1].role = "tool" /\ s[1].call = c
  BY <1>2 DEF ResultMsg
<1>4. log' = log \o s
  BY <1>1, <1>2, AppendIsConcat DEF Record
<1>5. toolSteps' = toolSteps \cup {<<BatchAt, c>>} /\ modelSteps' = modelSteps
  BY DEF Record, ToolStepId
<1>6. BatchAt = LastReply(log, Len(log))
  BY DEF BatchAt, LastReply, IsLastAssistant
<1> HIDE DEF s
<1>7. CheckedIn(log \o s, modelSteps,
                toolSteps \cup {<<LastReply(log, Len(log)), s[i].call>> : i \in 1..Len(s)})
  BY <1>1, <1>3, ResultsGrowth DEF Checked
<1>8. {<<LastReply(log, Len(log)), s[i].call>> : i \in 1..Len(s)} = {<<BatchAt, c>>}
  BY <1>3, <1>6
<1> QED BY <1>4, <1>5, <1>7, <1>8 DEF Checked

LEMMA CheckedStep ==
    ASSUME ConstantsAssumption, TypeInv, Checked, [Next]_vars
    PROVE  Checked'
<1> USE DEF store, steps
<1>a. log \in Seq(Message) /\ heldNotes \in Nat
  BY DEF TypeInv, TypeOK
<1>b. NoteMsg \in Message /\ NoteMsg.role = "note"
  BY DEF NoteMsg, Message, ConstantsAssumption
<1>c. ASSUME NEW n \in Nat
      PROVE  /\ Notes(n) \in Seq(Message)
             /\ \A i \in 1..Len(Notes(n)) : Notes(n)[i].role \notin {"assistant", "tool"}
  <2>1. Len(Notes(n)) = n /\ \A i \in 1..n : Notes(n)[i] = NoteMsg
    BY DEF Notes
  <2> QED BY <1>b, <2>1, NotesType
<1>1. CASE UNCHANGED <<log, modelSteps, toolSteps>>
  BY <1>1 DEF Checked
<1>2. CASE OpenTurn
  <2>1. Current \in Turns /\ Released \in Nat
    BY <1>2, <1>a, TurnAtHead DEF OpenTurn, Released
  <2>2. OpeningMsg(Current) \in Message /\ OpeningMsg(Current).role = "user"
    BY <2>1 DEF OpeningMsg, Message, ConstantsAssumption
  <2>3. /\ Opening(Current) \in Seq(Message)
        /\ \A i \in 1..Len(Opening(Current)) :
              Opening(Current)[i].role \notin {"assistant", "tool"}
    <3>1. CASE HasOpeningMessage(Current)
      BY <3>1 DEF Opening
    <3>2. CASE ~HasOpeningMessage(Current)
      BY <2>2, <3>2 DEF Opening
    <3> QED BY <3>1, <3>2
  <2>4. CheckedIn(log \o Notes(Released), modelSteps, toolSteps) /\ log \o Notes(Released) \in Seq(Message)
    BY <1>a, <1>c, <2>1, QuietGrowth, ConcatProperties DEF Checked
  <2>5. CheckedIn((log \o Notes(Released)) \o Opening(Current), modelSteps, toolSteps)
    BY <2>3, <2>4, QuietGrowth
  <2> QED BY <1>2, <2>5 DEF OpenTurn, Checked
<1>3. CASE RunNote
  <2>1. CASE UNCHANGED log
    BY <1>3, <2>1, <1>1 DEF RunNote
  <2>2. CASE log' = Append(log, NoteMsg)
    <3>1. /\ <<NoteMsg>> \in Seq(Message)
          /\ \A i \in 1..Len(<<NoteMsg>>) : <<NoteMsg>>[i].role \notin {"assistant", "tool"}
      <4>1. Len(<<NoteMsg>>) = 1 /\ <<NoteMsg>>[1] = NoteMsg
        OBVIOUS
      <4> QED BY <1>b, <4>1
    <3>2. log' = log \o <<NoteMsg>>
      BY <1>a, <1>b, <2>2, AppendIsConcat
    <3>3. CheckedIn(log \o <<NoteMsg>>, modelSteps, toolSteps)
      BY <1>a, <3>1, QuietGrowth DEF Checked
    <3> QED BY <1>3, <3>2, <3>3 DEF RunNote, Checked
  <2> QED BY <1>3, <2>1, <2>2 DEF RunNote
<1>4. CASE RunReset
  <2>1. Len(log') = 0 /\ modelSteps' = {} /\ toolSteps' = {}
    BY <1>4, EmptySeq DEF RunReset
  <2>2. At(log', "assistant") = {} /\ At(log', "tool") = {}
    BY <2>1 DEF At
  <2> QED BY <2>1, <2>2 DEF Checked, CheckedIn
<1>5. CASE ReleaseHeldNotes
  <2>1. CheckedIn(log \o Notes(heldNotes), modelSteps, toolSteps)
    BY <1>a, <1>c, QuietGrowth DEF Checked
  <2> QED BY <1>5, <2>1 DEF ReleaseHeldNotes, Checked
<1>6. CASE CancelToolBatch
  <2>1. PICK s \in Seq(Message) :
           /\ log' = log \o s
           /\ \A k \in 1..Len(s) : s[k].role = "tool"
           /\ toolSteps' = toolSteps \cup {ToolStepId(BatchAt, s[k].call) : k \in 1..Len(s)}
    BY <1>6, CancelledResults
  <2>2. modelSteps' = modelSteps
    BY <1>6 DEF CancelToolBatch
  <2>3. BatchAt = LastReply(log, Len(log))
    BY DEF BatchAt, LastReply, IsLastAssistant
  <2>4. toolSteps' = toolSteps \cup {<<LastReply(log, Len(log)), s[k].call>> : k \in 1..Len(s)}
    BY <2>1, <2>3 DEF ToolStepId
  <2>5. CheckedIn(log \o s, modelSteps,
                  toolSteps \cup {<<LastReply(log, Len(log)), s[k].call>> : k \in 1..Len(s)})
    BY <1>a, <2>1, ResultsGrowth DEF Checked
  <2> QED BY <2>1, <2>2, <2>4, <2>5 DEF Checked
<1>7. ASSUME NEW c \in Calls,
             LocalTool(c) \/ LocalToolThrows(c) \/ RemoteReturns(c) \/ RemoteThrows(c)
      PROVE  Checked'
  BY <1>7, RecordChecked
     DEF LocalTool, LocalToolThrows, RemoteReturns, RemoteThrows, RunsTool, InTool, Owing
<1>8. ASSUME NEW b \in Batches, ModelReplies(b)
      PROVE  Checked'
  <2>1. ReplyMsg(Current, b) \in Message /\ ReplyMsg(Current, b).role = "assistant"
    BY <1>8, TurnAtHead DEF ModelReplies, ReplyMsg, Message, ConstantsAssumption
  <2>2. CheckedIn(Append(log, ReplyMsg(Current, b)), modelSteps \cup {Len(log) + 1}, toolSteps)
    BY <1>a, <2>1, ReplyGrowth DEF Checked
  <2> QED BY <1>8, <2>2 DEF ModelReplies, Checked
<1>9. CASE Call
  BY <1>1, <1>9
     DEF Call, StartHolds, StartBegins, Cancel, Resume, Note, Reset, Rebuild, Evict
<1>10. CASE \/ RefuseOverPark \/ CancelEarly \/ ResetFails \/ Complete \/ CancelBeforeModel
            \/ AskModel \/ ModelCancelled \/ ModelFails \/ Settle \/ Crash \/ Rest
            \/ UNCHANGED vars
  BY <1>1, <1>10
     DEF RefuseOverPark, CancelEarly, ResetFails, Complete, CancelBeforeModel, AskModel,
         ModelCancelled, ModelFails, Settle, Crash, Rest, vars
<1>11. ASSUME NEW c \in Calls,
              FatalTool(c) \/ RemoteTool(c) \/ RequestInput(c) \/ ParkTurn(c)
       PROVE  Checked'
  BY <1>1, <1>11 DEF FatalTool, RemoteTool, RequestInput, ParkTurn
<1> QED BY <1>2, <1>3, <1>4, <1>5, <1>6, <1>7, <1>8, <1>9, <1>10, <1>11 DEF Next, Engine

\* The steps table and the transcript say the same thing in every state, whatever
\* crashes, fails or is reset: modelStep, toolStep and cancelToolBatch commit a
\* step together with its message, and a tool's step names the reply that made
\* the call.
THEOREM StepsMatchTranscript == Spec => []CheckpointsMatchLog
<1> DEFINE Inv == TypeInv /\ Checked
<1>1. Init => Inv
  <2> SUFFICES ASSUME Init PROVE Inv
    OBVIOUS
  <2>1. At(log, "assistant") = {} /\ At(log, "tool") = {}
    BY DEF Init, At
  <2> QED BY ConstantsAssumption, TypeInit, <2>1 DEF Init, Checked, CheckedIn
<1>2. Inv /\ [Next]_vars => Inv'
  BY ConstantsAssumption, TypeStep, CheckedStep
<1>3. Inv => CheckpointsMatchLog
  <2> SUFFICES ASSUME TypeInv, Checked PROVE CheckpointsMatchLog
    OBVIOUS
  <2>1. DOMAIN log = 1..Len(log)
    BY LenProperties DEF TypeInv, TypeOK
  <2>2. \A j : BatchBefore(j) = LastReply(log, j - 1)
    BY DEF BatchBefore, LastReply, IsLastAssistant
  <2> QED BY <2>1, <2>2 DEF Checked, CheckedIn, At, CheckpointsMatchLog
<1> QED BY <1>1, <1>2, <1>3, PTL DEF Spec

-----------------------------------------------------------------------------
(***************************************************************************)
(* What AgentSession keeps to as long as it is left in peace: each turn is *)
(* delivered once, the process lives, no tool ends a turn in the middle of *)
(* a batch, and callers come while the engine awaits something or rests.   *)
(* Models, tools and resets may fail, turns may be held, cancelled,        *)
(* replaced, parked and answered.  Each of the four conditions is needed:  *)
(* TLC finds ProviderClean violated when any one of them is given up.      *)
(***************************************************************************)

Calm == FatalCalls = {} /\ ~InlineCallers /\ MaxDeliveries <= 1 /\ MaxCrashes = 0

-----------------------------------------------------------------------------
(* Logs.  What AgentSession reads off its log, as operators on a log.      *)

IsLatestReply(l, at, n) ==
    /\ at \in 1..n /\ l[at].role = "assistant"
    /\ \A j \in at+1..n : l[j].role # "assistant"

ResultsIn(l, from, n) == {l[j].call : j \in {k \in from+1..n : l[k].role = "tool"}}

\* The calls owed by turns ts over the first n messages.
OwedIn(l, ts, n) ==
    UNION {CallsOf(l[at]) \ ResultsIn(l, at, n) :
             at \in {k \in 1..n : IsLatestReply(l, k, n) /\ l[k].turn \in ts}}

Owes(l, ts) == OwedIn(l, ts, Len(l))

\* Call c is the first of the latest reply that turn t owes.
NextIn(l, t, c) ==
    LET calls == l[LastReply(l, Len(l))].calls
    IN  \E i \in DOMAIN calls : /\ calls[i] = c /\ c \in Owes(l, {t})
                                /\ \A j \in 1..i-1 : calls[j] \notin Owes(l, {t})

FinalIn(l) ==
    \E i \in 1..Len(l) : /\ l[i].role = "assistant" /\ l[i].calls = << >>
                         /\ \A j \in i+1..Len(l) : l[j].role = "note"

\* The last message that is no note is one of turn t; the last opening is t's.
LastBy(l, t) ==
    \E i \in 1..Len(l) : /\ l[i].turn = t
                         /\ \A j \in i+1..Len(l) : l[j].role = "note"

OpenedLast(l, t) ==
    \E i \in 1..Len(l) : /\ l[i].role = "user" /\ l[i].turn = t
                         /\ \A j \in i+1..Len(l) : l[j].role # "user"

CleanIn(l) == \A j \in 1..Len(l) : l[j].role # "tool" => OwedIn(l, Turns, j - 1) = {}

LEMMA ReadsOfLog ==
    ASSUME TypeOK
    PROVE  /\ \A ts, n : OwedBy(ts, n) = OwedIn(log, ts, n)
           /\ \A t : UnansweredCalls(t) = Owes(log, {t})
           /\ OwesToolResults <=> Owes(log, Turns) # {}
           /\ \A t, c : IsNextCall(t, c) <=> NextIn(log, t, c)
           /\ EndsInFinalReply <=> FinalIn(log)
           /\ \A t : HasOpeningMessage(t) <=> t \in OpenedIn(log)
           /\ BatchAt = LastReply(log, Len(log))
           /\ DOMAIN log = 1..Len(log)
<1>1. DOMAIN log = 1..Len(log)
  BY LenProperties DEF TypeOK
<1>2. \A ts, n : OwedBy(ts, n) = OwedIn(log, ts, n)
  BY DEF OwedBy, OwedIn, IsLastAssistant, IsLatestReply, Answered, ResultsIn
<1>3. \A t : UnansweredCalls(t) = Owes(log, {t})
  BY <1>2 DEF UnansweredCalls, Owes
<1>4. OwesToolResults <=> Owes(log, Turns) # {}
  BY <1>2 DEF OwesToolResults, Owes
<1>5. BatchAt = LastReply(log, Len(log))
  BY DEF BatchAt, LastReply, IsLastAssistant
<1>6. \A t, c : IsNextCall(t, c) <=> NextIn(log, t, c)
  BY <1>3, <1>5 DEF IsNextCall, IsFirstOwed, NextIn
<1>7. EndsInFinalReply <=> FinalIn(log)
  BY <1>1 DEF EndsInFinalReply, FinalIn
<1>8. \A t : HasOpeningMessage(t) <=> t \in OpenedIn(log)
  BY <1>1 DEF HasOpeningMessage, OpenedIn, At
<1> QED BY <1>1, <1>2, <1>3, <1>4, <1>5, <1>6, <1>7, <1>8

\* What is owed depends on the messages so far.
LEMMA OwedOfPrefix ==
    ASSUME NEW l, NEW m, IsPrefixOf(l, m), NEW ts, NEW n \in 0..Len(l)
    PROVE  OwedIn(m, ts, n) = OwedIn(l, ts, n)
<1>1. \A i \in 1..n : m[i] = l[i]
  BY LenProperties DEF IsPrefixOf
<1>2. \A k \in 1..n : IsLatestReply(m, k, n) <=> IsLatestReply(l, k, n)
  BY <1>1 DEF IsLatestReply
<1>3. \A k \in 1..n : ResultsIn(m, k, n) = ResultsIn(l, k, n)
  BY <1>1 DEF ResultsIn
<1> QED BY <1>1, <1>2, <1>3 DEF OwedIn

\* Without a new reply, what is owed is what was, but for the new results.
LEMMA OwedGrows ==
    ASSUME NEW l, NEW m, IsPrefixOf(l, m), NEW ts, NEW n \in Len(l)..Len(m),
           \A j \in Len(l)+1..n : m[j].role # "assistant"
    PROVE  OwedIn(m, ts, n) = Owes(l, ts) \ ResultsIn(m, Len(l), n)
<1>1. /\ Len(l) \in Nat /\ Len(m) \in Nat /\ Len(l) <= n /\ n \in Nat
      /\ \A i \in 1..Len(l) : m[i] = l[i]
  BY LenProperties DEF IsPrefixOf
<1> DEFINE K == {k \in 1..Len(l) : IsLatestReply(l, k, Len(l)) /\ l[k].turn \in ts}
<1>2. {k \in 1..n : IsLatestReply(m, k, n) /\ m[k].turn \in ts} = K
  <2>1. \A k \in 1..n : IsLatestReply(m, k, n) => k \in 1..Len(l)
    BY <1>1 DEF IsLatestReply
  <2>2. \A k \in 1..Len(l) : IsLatestReply(m, k, n) <=> IsLatestReply(l, k, Len(l))
    BY <1>1 DEF IsLatestReply
  <2> QED BY <1>1, <2>1, <2>2
<1>3. \A k \in K : /\ CallsOf(m[k]) = CallsOf(l[k])
                   /\ ResultsIn(m, k, n) = ResultsIn(l, k, Len(l)) \cup ResultsIn(m, Len(l), n)
  <2> SUFFICES ASSUME NEW k \in 1..Len(l)
               PROVE  /\ m[k] = l[k]
                      /\ ResultsIn(m, k, n) = ResultsIn(l, k, Len(l)) \cup ResultsIn(m, Len(l), n)
    OBVIOUS
  <2>1. \A j : j \in k+1..n <=> j \in k+1..Len(l) \/ j \in Len(l)+1..n
    BY <1>1
  <2>2. \A j \in k+1..Len(l) : m[j] = l[j]
    BY <1>1
  <2> QED BY <1>1, <2>1, <2>2 DEF ResultsIn
<1> HIDE DEF K
<1>4. OwedIn(m, ts, n) = UNION {CallsOf(l[k]) \ (ResultsIn(l, k, Len(l)) \cup ResultsIn(m, Len(l), n)) : k \in K}
  BY <1>2, <1>3 DEF OwedIn
<1>5. Owes(l, ts) = UNION {CallsOf(l[k]) \ ResultsIn(l, k, Len(l)) : k \in K}
  BY DEF Owes, OwedIn, K
<1> QED BY <1>4, <1>5

\* Turns owe together what each owes.
LEMMA OwesSplit ==
    ASSUME NEW l, NEW t \in Turns, Owes(l, {t}) = {}, Owes(l, Turns \ {t}) = {}
    PROVE  Owes(l, Turns) = {}
BY DEF Owes, OwedIn
LEMMA OwesLess ==
    ASSUME NEW l, NEW ts, NEW us, ts \subseteq us
    PROVE  Owes(l, ts) \subseteq Owes(l, us)
BY DEF Owes, OwedIn

\* The call owed first is the one owed at the first place: there is one.
LEMMA NextIsOne ==
    ASSUME NEW l \in Seq(Message), ConstantsAssumption, NEW t, NEW c, NEW d,
           NextIn(l, t, c), NextIn(l, t, d)
    PROVE  c = d
<1> DEFINE calls == l[LastReply(l, Len(l))].calls
<1>1. PICK i \in DOMAIN calls : /\ calls[i] = c /\ c \in Owes(l, {t})
                                /\ \A j \in 1..i-1 : calls[j] \notin Owes(l, {t})
  BY DEF NextIn
<1>2. PICK k \in DOMAIN calls : /\ calls[k] = d /\ d \in Owes(l, {t})
                                /\ \A j \in 1..k-1 : calls[j] \notin Owes(l, {t})
  BY DEF NextIn
<1>3. LastReply(l, Len(l)) \in 1..Len(l)
  <2>1. PICK at \in 1..Len(l) : IsLatestReply(l, at, Len(l))
    BY <1>1 DEF Owes, OwedIn
  <2> QED BY <2>1 DEF LastReply, IsLatestReply
<1>4. calls \in Seq(Calls)
  <2>1. l[LastReply(l, Len(l))] \in Message
    BY <1>3
  <2> QED BY <2>1 DEF Message, ConstantsAssumption
<1>5. DOMAIN calls = 1..Len(calls) /\ Len(calls) \in Nat
  BY <1>4, LenProperties
<1> HIDE DEF calls
<1>6. i \in 1..Len(calls) /\ k \in 1..Len(calls)
  BY <1>1, <1>2, <1>5
<1>a. ~(i < k)
  <2>1. i < k => i \in 1..k-1
    BY <1>5, <1>6
  <2> QED BY <1>1, <1>2, <2>1
<1>b. ~(k < i)
  <2>1. k < i => k \in 1..i-1
    BY <1>5, <1>6
  <2> QED BY <1>1, <1>2, <2>1
<1>7. i = k
  BY <1>5, <1>6, <1>a, <1>b
<1> QED BY <1>1, <1>2, <1>7

\* A log that ends in a final reply owes nothing.
LEMMA FinalOwesNothing ==
    ASSUME NEW l \in Seq(Message), FinalIn(l), NEW ts
    PROVE  Owes(l, ts) = {}
<1>1. PICK i \in 1..Len(l) : /\ l[i].role = "assistant" /\ l[i].calls = << >>
                             /\ \A j \in i+1..Len(l) : l[j].role = "note"
  BY DEF FinalIn
<1>2. Len(l) \in Nat
  BY LenProperties
<1>3. ASSUME NEW k \in 1..Len(l), IsLatestReply(l, k, Len(l))
      PROVE  CallsOf(l[k]) = {}
  <2>1. ~(k < i)
    BY <1>1, <1>2, <1>3 DEF IsLatestReply
  <2>2. ~(k > i)
    BY <1>1, <1>2, <1>3 DEF IsLatestReply
  <2>3. k = i
    BY <2>1, <2>2
  <2> QED BY <1>1, <2>3 DEF CallsOf
<1> QED BY <1>3 DEF Owes, OwedIn

\* A clean log stays clean: results may come at any time, anything else only
\* when nothing is owed.
LEMMA CleanGrows ==
    ASSUME NEW l, NEW m, IsPrefixOf(l, m), CleanIn(l),
           \A j \in Len(l)+1..Len(m) : m[j].role = "tool" \/ OwedIn(m, Turns, j - 1) = {}
    PROVE  CleanIn(m)
<1>1. Len(l) \in Nat /\ Len(m) \in Nat /\ \A i \in 1..Len(l) : m[i] = l[i]
  BY LenProperties DEF IsPrefixOf
<1>2. ASSUME NEW j \in 1..Len(l)
      PROVE  OwedIn(m, Turns, j - 1) = OwedIn(l, Turns, j - 1)
  <2>1. j - 1 \in 0..Len(l)
    BY <1>1
  <2> QED BY <2>1, OwedOfPrefix
<1>3. \A j \in 1..Len(m) : j \in 1..Len(l) \/ j \in Len(l)+1..Len(m)
  BY <1>1
<1> QED BY <1>1, <1>2, <1>3 DEF CleanIn

(* Notes.                                                                  *)

AddsNotes(l, m) == IsPrefixOf(l, m) /\ \A j \in Len(l)+1..Len(m) : m[j].role = "note"

LEMMA NotesAdded ==
    ASSUME ConstantsAssumption, NEW l \in Seq(Message), NEW n \in Nat
    PROVE  AddsNotes(l, l \o Notes(n)) /\ AddsNotes(l, Append(l, NoteMsg))
<1>1. NoteMsg \in Message /\ NoteMsg.role = "note"
  BY DEF NoteMsg, Message, ConstantsAssumption
<1>2. Notes(n) \in Seq(Message) /\ Len(Notes(n)) = n /\ \A i \in 1..n : Notes(n)[i] = NoteMsg
  <2>1. Len(Notes(n)) = n /\ \A i \in 1..n : Notes(n)[i] = NoteMsg
    BY DEF Notes
  <2> QED BY <2>1, NotesType
<1>3. Len(l) \in Nat
  BY LenProperties
<1> DEFINE k == l \o Notes(n)
<1>4. /\ k \in Seq(Message) /\ Len(k) = Len(l) + n
      /\ \A i \in 1..Len(l) + n : k[i] = IF i <= Len(l) THEN l[i] ELSE Notes(n)[i - Len(l)]
  BY <1>2, ConcatProperties
<1> HIDE DEF k
<1>5. AddsNotes(l, k)
  <2>1. ASSUME NEW j \in Len(l)+1..Len(k)
        PROVE  k[j].role = "note"
    <3>1. j \in 1..Len(l)+n /\ ~(j <= Len(l)) /\ j - Len(l) \in 1..n
      BY <1>3, <1>4
    <3> QED BY <1>1, <1>2, <1>4, <3>1
  <2> QED BY <1>3, <1>4, <2>1 DEF AddsNotes, IsPrefixOf
<1>6. AddsNotes(l, Append(l, NoteMsg))
  BY <1>1, <1>3, AppendProperties DEF AddsNotes, IsPrefixOf
<1> QED BY <1>5, <1>6 DEF k

LEMMA NotesChangeNothing ==
    ASSUME NEW l, NEW m, AddsNotes(l, m)
    PROVE  /\ \A ts : Owes(m, ts) = Owes(l, ts)
           /\ FinalIn(m) <=> FinalIn(l)
           /\ \A t : LastBy(l, t) => LastBy(m, t)
           /\ \A t : OpenedLast(l, t) => OpenedLast(m, t)
           /\ At(m, "user") = At(l, "user") /\ At(m, "assistant") = At(l, "assistant")
           /\ CleanIn(l) /\ Owes(l, Turns) = {} => CleanIn(m)
<1>1. /\ Len(l) \in Nat /\ Len(m) \in Nat /\ Len(l) <= Len(m)
      /\ \A i \in 1..Len(l) : m[i] = l[i]
      /\ \A j \in Len(l)+1..Len(m) : m[j].role = "note"
      /\ IsPrefixOf(l, m)
  BY LenProperties DEF AddsNotes, IsPrefixOf
<1>2. \A j : j \in 1..Len(m) <=> j \in 1..Len(l) \/ j \in Len(l)+1..Len(m)
  BY <1>1
<1>3. ASSUME NEW n \in Len(l)..Len(m), NEW ts
      PROVE  OwedIn(m, ts, n) = Owes(l, ts)
  <2>1. \A j \in Len(l)+1..n : m[j].role # "assistant" /\ m[j].role # "tool"
    BY <1>1
  <2>2. ResultsIn(m, Len(l), n) = {}
    BY <2>1 DEF ResultsIn
  <2>3. OwedIn(m, ts, n) = Owes(l, ts) \ ResultsIn(m, Len(l), n)
    BY <1>1, <2>1, OwedGrows
  <2> QED BY <2>2, <2>3
<1>4. \A ts : Owes(m, ts) = Owes(l, ts)
  BY <1>1, <1>3 DEF Owes
<1>5. FinalIn(m) <=> FinalIn(l)
  <2>1. FinalIn(l) => FinalIn(m)
    BY <1>1, <1>2, SMTT(20) DEF FinalIn
  <2>2. FinalIn(m) => FinalIn(l)
    BY <1>1, <1>2 DEF FinalIn
  <2> QED BY <2>1, <2>2
<1>6. \A t : LastBy(l, t) => LastBy(m, t)
  BY <1>1, <1>2, SMTT(20) DEF LastBy
<1>7. \A t : OpenedLast(l, t) => OpenedLast(m, t)
  BY <1>1, <1>2 DEF OpenedLast
<1>8. At(m, "user") = At(l, "user") /\ At(m, "assistant") = At(l, "assistant")
  BY <1>1, <1>2 DEF At
<1>9. ASSUME CleanIn(l), Owes(l, Turns) = {}
      PROVE  CleanIn(m)
  <2>1. \A j \in Len(l)+1..Len(m) : j - 1 \in Len(l)..Len(m)
    BY <1>1
  <2> QED BY <1>1, <1>3, <1>9, <2>1, CleanGrows
<1> QED BY <1>4, <1>5, <1>6, <1>7, <1>8, <1>9

(* A message at the end: an opening, a reply, and results.                 *)

LEMMA OneMore ==
    ASSUME NEW l \in Seq(Message), NEW x \in Message, x.role # "note"
    PROVE  /\ IsPrefixOf(l, Append(l, x))
           /\ LastBy(Append(l, x), x.turn)
           /\ FinalIn(Append(l, x)) <=> x.role = "assistant" /\ x.calls = << >>
           /\ CleanIn(l) /\ (x.role = "tool" \/ Owes(l, Turns) = {}) => CleanIn(Append(l, x))
<1> DEFINE m == Append(l, x)
<1>1. /\ m \in Seq(Message) /\ Len(m) = Len(l) + 1 /\ Len(l) \in Nat
      /\ \A i \in 1..Len(l) : m[i] = l[i]
      /\ m[Len(l) + 1] = x
  BY AppendProperties, LenProperties
<1> HIDE DEF m
<1>2. IsPrefixOf(l, m)
  BY <1>1 DEF IsPrefixOf
<1>3. LastBy(m, x.turn)
  BY <1>1 DEF LastBy
<1>4. FinalIn(m) <=> x.role = "assistant" /\ x.calls = << >>
  BY <1>1 DEF FinalIn
<1>5. OwedIn(m, Turns, Len(l)) = Owes(l, Turns)
  BY <1>1, <1>2, OwedOfPrefix DEF Owes
<1>6. CleanIn(l) /\ (x.role = "tool" \/ Owes(l, Turns) = {}) => CleanIn(m)
  BY <1>1, <1>2, <1>5, CleanGrows
<1> QED BY <1>2, <1>3, <1>4, <1>6 DEF m

LEMMA OpeningAdded ==
    ASSUME NEW l \in Seq(Message), NEW x \in Message, x.role = "user"
    PROVE  /\ \A ts : Owes(Append(l, x), ts) = Owes(l, ts)
           /\ OpenedLast(Append(l, x), x.turn)
           /\ OpenedIn(Append(l, x)) = OpenedIn(l) \cup {x.turn}
<1> DEFINE m == Append(l, x)
<1>1. /\ m \in Seq(Message) /\ Len(m) = Len(l) + 1 /\ Len(l) \in Nat
      /\ \A i \in 1..Len(l) : m[i] = l[i]
      /\ m[Len(l) + 1] = x
  BY AppendProperties, LenProperties
<1> HIDE DEF m
<1>2. IsPrefixOf(l, m)
  BY <1>1 DEF IsPrefixOf
<1>3. ASSUME NEW ts
      PROVE  Owes(m, ts) = Owes(l, ts)
  <2>1. \A j \in Len(l)+1..Len(m) : m[j].role # "assistant" /\ m[j].role # "tool"
    BY <1>1
  <2>2. ResultsIn(m, Len(l), Len(m)) = {}
    BY <2>1 DEF ResultsIn
  <2>3. Len(m) \in Len(l)..Len(m)
    BY <1>1
  <2>4. OwedIn(m, ts, Len(m)) = Owes(l, ts) \ ResultsIn(m, Len(l), Len(m))
    BY <1>2, <2>1, <2>3, OwedGrows
  <2> QED BY <2>2, <2>4 DEF Owes
<1>4. OpenedLast(m, x.turn)
  BY <1>1 DEF OpenedLast
<1>5. At(m, "user") = At(l, "user") \cup {Len(l) + 1}
  BY <1>1 DEF At
<1>6. \A i \in At(l, "user") : m[i] = l[i]
  BY <1>1 DEF At
<1>7. OpenedIn(m) = OpenedIn(l) \cup {x.turn}
  BY <1>1, <1>5, <1>6 DEF OpenedIn
<1> QED BY <1>3, <1>4, <1>7 DEF m

LEMMA ReplyAdded ==
    ASSUME NEW l \in Seq(Message), NEW x \in Message, x.role = "assistant", NEW ts
    PROVE  Owes(Append(l, x), ts) = IF x.turn \in ts THEN CallsOf(x) ELSE {}
<1> DEFINE m == Append(l, x)
<1>1. /\ m \in Seq(Message) /\ Len(m) = Len(l) + 1 /\ Len(l) \in Nat
      /\ \A i \in 1..Len(l) : m[i] = l[i]
      /\ m[Len(l) + 1] = x
  BY AppendProperties, LenProperties
<1> HIDE DEF m
<1>2. {k \in 1..Len(m) : IsLatestReply(m, k, Len(m))} = {Len(m)}
  BY <1>1 DEF IsLatestReply
<1>3. ResultsIn(m, Len(m), Len(m)) = {}
  BY <1>1 DEF ResultsIn
<1> DEFINE K == {k \in 1..Len(m) : IsLatestReply(m, k, Len(m)) /\ m[k].turn \in ts}
<1>4. \A k \in K : k = Len(m)
  BY <1>2
<1>5. Len(m) \in K <=> x.turn \in ts
  BY <1>1, <1>2
<1> HIDE DEF K
<1>6. Owes(m, ts) = UNION {CallsOf(m[k]) \ ResultsIn(m, k, Len(m)) : k \in K}
  BY DEF Owes, OwedIn, K
<1>7. CASE x.turn \in ts
  <2>1. K = {Len(m)}
    BY <1>4, <1>5, <1>7
  <2>2. Owes(m, ts) = CallsOf(m[Len(m)]) \ ResultsIn(m, Len(m), Len(m))
    BY <1>6, <2>1
  <2> QED BY <1>1, <1>3, <1>7, <2>2 DEF m
<1>8. CASE x.turn \notin ts
  <2>1. K = {}
    BY <1>4, <1>5, <1>8
  <2> QED BY <1>6, <1>8, <2>1 DEF m
<1> QED BY <1>7, <1>8

CallsIn(s) == {s[k].call : k \in 1..Len(s)}

LEMMA ResultsAdded ==
    ASSUME NEW l \in Seq(Message), NEW s \in Seq(Message), NEW t,
           \A k \in 1..Len(s) : s[k].role = "tool" /\ s[k].turn = t
    PROVE  /\ IsPrefixOf(l, l \o s)
           /\ \A ts : Owes(l \o s, ts) = Owes(l, ts) \ CallsIn(s)
           /\ LastBy(l, t) => LastBy(l \o s, t)
           /\ ~FinalIn(l) => ~FinalIn(l \o s)
           /\ CleanIn(l) => CleanIn(l \o s)
           /\ At(l \o s, "user") = At(l, "user") /\ At(l \o s, "assistant") = At(l, "assistant")
<1> DEFINE m == l \o s
<1>1. Len(l) \in Nat /\ Len(s) \in Nat
  BY LenProperties
<1>2. /\ m \in Seq(Message) /\ Len(m) = Len(l) + Len(s)
      /\ \A i \in 1..Len(l) + Len(s) : m[i] = IF i <= Len(l) THEN l[i] ELSE s[i - Len(l)]
  BY ConcatProperties
<1> HIDE DEF m
<1>3. IsPrefixOf(l, m) /\ \A i \in 1..Len(l) : m[i] = l[i]
  BY <1>1, <1>2 DEF IsPrefixOf
<1>4. ASSUME NEW j \in Len(l)+1..Len(m)
      PROVE  j - Len(l) \in 1..Len(s) /\ m[j] = s[j - Len(l)] /\ m[j].role = "tool" /\ m[j].turn = t
  <2>1. j - Len(l) \in 1..Len(s) /\ j \in 1..Len(l)+Len(s) /\ ~(j <= Len(l))
    BY <1>1, <1>2
  <2> QED BY <1>2, <2>1
<1>5. ASSUME NEW k \in 1..Len(s)
      PROVE  Len(l) + k \in Len(l)+1..Len(m) /\ m[Len(l) + k] = s[k]
  <2>1. /\ Len(l) + k \in Len(l)+1..Len(l)+Len(s) /\ Len(l) + k \in 1..Len(l)+Len(s)
        /\ ~(Len(l) + k <= Len(l)) /\ (Len(l) + k) - Len(l) = k
    BY <1>1
  <2> QED BY <1>2, <2>1
<1>6. ResultsIn(m, Len(l), Len(m)) = {s[k].call : k \in 1..Len(s)}
  <2>1. ASSUME NEW j \in Len(l)+1..Len(m)
        PROVE  m[j].call \in {s[k].call : k \in 1..Len(s)}
    BY <1>4
  <2>2. ASSUME NEW k \in 1..Len(s)
        PROVE  s[k].call \in ResultsIn(m, Len(l), Len(m))
    <3>1. Len(l) + k \in {j \in Len(l)+1..Len(m) : m[j].role = "tool"}
      BY <1>4, <1>5
    <3>2. s[k].call = m[Len(l) + k].call
      BY <1>5
    <3> QED BY <3>1, <3>2 DEF ResultsIn
  <2> QED BY <2>1, <2>2 DEF ResultsIn
<1>7. ASSUME NEW ts
      PROVE  Owes(m, ts) = Owes(l, ts) \ {s[k].call : k \in 1..Len(s)}
  <2>1. Len(m) \in Len(l)..Len(m) /\ \A j \in Len(l)+1..Len(m) : m[j].role # "assistant"
    BY <1>1, <1>2, <1>4
  <2>2. OwedIn(m, ts, Len(m)) = Owes(l, ts) \ ResultsIn(m, Len(l), Len(m))
    BY <1>3, <2>1, OwedGrows
  <2> QED BY <1>6, <2>2 DEF Owes
<1>8. \A j : j \in 1..Len(m) <=> j \in 1..Len(l) \/ j \in Len(l)+1..Len(m)
  BY <1>1, <1>2
<1>9. LastBy(l, t) => LastBy(m, t)
  <2>1. CASE Len(s) = 0
    BY <1>1, <1>2, <1>3, <2>1 DEF LastBy
  <2>2. CASE Len(s) # 0
    <3>1. Len(m) \in Len(l)+1..Len(m) /\ Len(m) \in 1..Len(m)
      BY <1>1, <1>2, <2>2
    <3>2. m[Len(m)].turn = t
      BY <1>4, <3>1
    <3> QED BY <1>1, <1>2, <3>1, <3>2 DEF LastBy
  <2> QED BY <2>1, <2>2
<1>10. FinalIn(m) => FinalIn(l)
  <2> SUFFICES ASSUME FinalIn(m) PROVE FinalIn(l)
    OBVIOUS
  <2>1. PICK i \in 1..Len(m) : /\ m[i].role = "assistant" /\ m[i].calls = << >>
                               /\ \A j \in i+1..Len(m) : m[j].role = "note"
    BY DEF FinalIn
  <2>2. i \in 1..Len(l)
    BY <1>4, <1>8, <2>1
  <2>3. \A j \in i+1..Len(l) : j \in i+1..Len(m) /\ m[j] = l[j]
    BY <1>1, <1>2, <1>3, <2>2
  <2> QED BY <1>3, <2>1, <2>2, <2>3, SMTT(20) DEF FinalIn
<1>11. CleanIn(l) => CleanIn(m)
  BY <1>3, <1>4, CleanGrows
<1>12. At(m, "user") = At(l, "user") /\ At(m, "assistant") = At(l, "assistant")
  BY <1>3, <1>4, <1>8 DEF At
<1> QED BY <1>3, <1>7, <1>9, <1>10, <1>11, <1>12 DEF m, CallsIn
-----------------------------------------------------------------------------
(* The chain and the held turns.  q is the inbox, p the pc, h the held     *)
(* turns, o the turns that have opened, d the turns that were delivered    *)
(* and k the park.                                                         *)

Busy == {"loop", "model", "tool", "parking"}

TurnsOf(h) == {h[i] : i \in 1..Len(h)}

\* A turn has one operation on the chain at most.
OnePerTurn(q) ==
    \A i, j \in 1..Len(q) : q[i].turn = q[j].turn /\ q[i].turn # NoTurn => i = j

Delivered(q, h, o, d, k) ==
    /\ \A i \in 1..Len(q) : q[i].turn # NoTurn => q[i].turn \in d
    /\ TurnsOf(h) \subseteq d /\ o \subseteq d
    /\ k # NoPark => k.turn \in d

HeldOnce(h) == \A i, j \in 1..Len(h) : h[i] = h[j] => i = j

\* A held turn on the chain is the first in line.
HeldFirst(q, h) ==
    \A i \in 1..Len(q) : q[i].kind = "turn" /\ q[i].turn \in TurnsOf(h) => q[i].turn = h[1]

\* What waits has not opened.
Unopened(q, p, h, o) ==
    /\ \A i \in 1..Len(q) : q[i].kind = "turn" /\ (i > 1 \/ p = "idle") => q[i].turn \notin o
    /\ \A t \in TurnsOf(h) : t \in o => p # "idle" /\ t = q[1].turn

\* An answered turn goes on at once.
AnswerFirst(q, p, k) ==
    \A i \in 1..Len(q) : q[i].kind = "resume" =>
        i = 1 /\ (p = "idle" => Len(q) = 1 /\ k = NoPark)

\* A parked turn is off the chain, and nothing runs beside it.
ParkedAway(q, p, k) ==
    k # NoPark => /\ p \notin Busy
                  /\ \A i \in 1..Len(q) : q[i].turn = k.turn => i = 1 /\ p = "settling"

QueueIn(q, p, h, o, d, k) ==
    /\ OnePerTurn(q) /\ Delivered(q, h, o, d, k) /\ HeldOnce(h) /\ HeldFirst(q, h)
    /\ Unopened(q, p, h, o) /\ AnswerFirst(q, p, k) /\ ParkedAway(q, p, k)

\* No answered turn is about to begin: what holds whenever a host may call.
NoAnswer(q, p) == p = "idle" => \A i \in 1..Len(q) : q[i].kind # "resume"

LEMMA Lengthened ==
    ASSUME NEW q, NEW p, InboxGood(q, p), NEW op \in Op
    PROVE  /\ Len(q) \in Nat /\ Len(Append(q, op)) = Len(q) + 1
           /\ \A i \in 1..Len(q) : Append(q, op)[i] = q[i]
           /\ Append(q, op)[Len(q) + 1] = op
           /\ \A i \in 1..Len(q)+1 : i \in 1..Len(q) \/ i = Len(q) + 1
           /\ p # "idle" => 1 \in 1..Len(q)
<1>1. q \in Seq(Op) /\ (p # "idle" => q # << >>)
  BY DEF InboxGood
<1>2. Len(q) \in Nat /\ (p # "idle" => 1 \in 1..Len(q))
  BY <1>1, LenProperties, EmptySeq
<1> QED BY <1>1, <1>2, AppendProperties

\* A turn that was not on the chain joins it.
LEMMA TurnQueued ==
    ASSUME ConstantsAssumption, NEW q, NEW p, NEW h, NEW o, NEW d, NEW k,
           InboxGood(q, p), QueueIn(q, p, h, o, d, k), NoAnswer(q, p),
           NEW t \in Turns, \A i \in 1..Len(q) : q[i].turn # t,
           t \in d, t \notin o, t \in TurnsOf(h) => t = h[1],
           k # NoPark => k.turn # t
    PROVE  QueueIn(Append(q, TurnOp(t)), p, h, o, d, k)
<1> DEFINE r == Append(q, TurnOp(t))
<1>0. TurnOp(t) \in Op /\ TurnOp(t).turn = t /\ TurnOp(t).kind = "turn" /\ t # NoTurn
  BY DEF TurnOp, Op, ConstantsAssumption
<1>1. /\ Len(q) \in Nat /\ Len(r) = Len(q) + 1
      /\ \A i \in 1..Len(q) : r[i] = q[i]
      /\ r[Len(q) + 1] = TurnOp(t)
      /\ \A i \in 1..Len(r) : i \in 1..Len(q) \/ i = Len(q) + 1
      /\ p # "idle" => 1 \in 1..Len(q)
  BY <1>0, Lengthened
<1> HIDE DEF r
<1> USE DEF QueueIn
<1>2. OnePerTurn(r)
  BY <1>0, <1>1 DEF OnePerTurn
<1>3. Delivered(r, h, o, d, k)
  BY <1>0, <1>1 DEF Delivered
<1>4. HeldFirst(r, h)
  BY <1>0, <1>1 DEF HeldFirst
<1>5. Unopened(r, p, h, o)
  <2>1. \A i \in 1..Len(r) : r[i].kind = "turn" /\ (i > 1 \/ p = "idle") => r[i].turn \notin o
    BY <1>0, <1>1 DEF Unopened
  <2>2. p # "idle" => r[1] = q[1]
    BY <1>1
  <2> QED BY <2>1, <2>2 DEF Unopened
<1>6. AnswerFirst(r, p, k)
  <2>1. \A i \in 1..Len(r) : r[i].kind = "resume" => i \in 1..Len(q) /\ r[i] = q[i]
    BY <1>0, <1>1
  <2> QED BY <2>1 DEF AnswerFirst, NoAnswer
<1>7. ParkedAway(r, p, k)
  BY <1>0, <1>1 DEF ParkedAway
<1> QED BY <1>2, <1>3, <1>4, <1>5, <1>6, <1>7 DEF r

\* A note or a reset joins it.
LEMMA OtherQueued ==
    ASSUME ConstantsAssumption, NEW q, NEW p, NEW h, NEW o, NEW d, NEW k,
           InboxGood(q, p), QueueIn(q, p, h, o, d, k), NoAnswer(q, p),
           NEW op \in {NoteOp, ResetOp}, k \in Park \cup {NoPark}
    PROVE  QueueIn(Append(q, op), p, h, o, d, k)
<1> DEFINE r == Append(q, op)
<1>0. op \in Op /\ op.turn = NoTurn /\ op.kind \notin {"turn", "resume"}
  BY DEF NoteOp, ResetOp, Op, ConstantsAssumption
<1>1. /\ Len(q) \in Nat /\ Len(r) = Len(q) + 1
      /\ \A i \in 1..Len(q) : r[i] = q[i]
      /\ r[Len(q) + 1] = op
      /\ \A i \in 1..Len(r) : i \in 1..Len(q) \/ i = Len(q) + 1
      /\ p # "idle" => 1 \in 1..Len(q)
  BY <1>0, Lengthened
<1> HIDE DEF r
<1> USE DEF QueueIn
<1>2. OnePerTurn(r)
  BY <1>0, <1>1 DEF OnePerTurn
<1>3. Delivered(r, h, o, d, k)
  BY <1>0, <1>1 DEF Delivered
<1>4. HeldFirst(r, h)
  BY <1>0, <1>1 DEF HeldFirst
<1>5. Unopened(r, p, h, o)
  <2>1. \A i \in 1..Len(r) : r[i].kind = "turn" /\ (i > 1 \/ p = "idle") => r[i].turn \notin o
    BY <1>0, <1>1 DEF Unopened
  <2>2. p # "idle" => r[1] = q[1]
    BY <1>1
  <2> QED BY <2>1, <2>2 DEF Unopened
<1>6. AnswerFirst(r, p, k)
  <2>1. \A i \in 1..Len(r) : r[i].kind = "resume" => i \in 1..Len(q) /\ r[i] = q[i]
    BY <1>0, <1>1
  <2> QED BY <2>1 DEF AnswerFirst, NoAnswer
<1>7. ParkedAway(r, p, k)
  <2>1. k # NoPark => k.turn # NoTurn
    BY DEF Park, ConstantsAssumption
  <2> QED BY <1>0, <1>1, <2>1 DEF ParkedAway
<1> QED BY <1>2, <1>3, <1>4, <1>5, <1>6, <1>7 DEF r

\* The head goes, and a held turn with it: what follows waits as it did.
LEMMA HeadDropped ==
    ASSUME ConstantsAssumption, NEW q, NEW p, NEW h, NEW o, NEW d, NEW k,
           InboxGood(q, p), QueueIn(q, p, h, o, d, k), q # << >>,
           p = "settling" \/ (p = "idle" /\ Head(q).kind \notin TurnKinds),
           NEW g, TurnsOf(g) \subseteq TurnsOf(h) \ {Head(q).turn}, HeldOnce(g),
           h[1] \in TurnsOf(g) => g[1] = h[1]
    PROVE  QueueIn(Tail(q), "idle", g, o, d, k)
<1>1. /\ Len(q) \in Nat /\ Len(q) > 0 /\ Len(Tail(q)) = Len(q) - 1 /\ Head(q) = q[1]
      /\ \A i \in 1..Len(Tail(q)) : i + 1 \in 1..Len(q) /\ i + 1 # 1 /\ Tail(q)[i] = q[i + 1]
      /\ 1 \in 1..Len(q)
  BY HeadTailProperties, LenProperties, EmptySeq DEF InboxGood
<1> DEFINE r == Tail(q)
<1> HIDE DEF r
<1>2. /\ Len(r) = Len(q) - 1
      /\ \A i \in 1..Len(r) : i + 1 \in 1..Len(q) /\ i + 1 # 1 /\ r[i] = q[i + 1]
  BY <1>1 DEF r
<1> USE DEF QueueIn
<1>3. OnePerTurn(r)
  <2>1. \A i, j \in 1..Len(r) : i + 1 = j + 1 => i = j
    BY <1>1, <1>2
  <2> QED BY <1>2, <2>1 DEF OnePerTurn
<1>4. Delivered(r, g, o, d, k)
  BY <1>2 DEF Delivered
<1>5. HeldFirst(r, g)
  BY <1>2 DEF HeldFirst
<1>6. Unopened(r, "idle", g, o)
  <2>1. \A i \in 1..Len(r) : r[i].kind = "turn" => r[i].turn \notin o
    <3>1. \A i \in 1..Len(r) : i + 1 > 1
      BY <1>1, <1>2
    <3> QED BY <1>2, <3>1 DEF Unopened
  <2>2. \A t \in TurnsOf(g) : t \notin o
    BY <1>1 DEF Unopened
  <2> QED BY <2>1, <2>2 DEF Unopened
<1>7. \A i \in 1..Len(r) : r[i].kind # "resume"
  BY <1>2 DEF AnswerFirst
<1>8. ParkedAway(r, "idle", k)
  BY <1>2 DEF ParkedAway, Busy
<1> QED BY <1>3, <1>4, <1>5, <1>6, <1>7, <1>8 DEF r, AnswerFirst

\* The head begins: its turn may open, unless another is parked.
LEMMA HeadBegun ==
    ASSUME ConstantsAssumption, NEW q, NEW h, NEW o, NEW d, NEW k,
           InboxGood(q, "idle"), QueueIn(q, "idle", h, o, d, k), q # << >>,
           Head(q).kind \in TurnKinds,
           NEW p \in Busy \cup {"settling"}, p \in Busy => k = NoPark,
           NEW n, n \subseteq o \cup {Head(q).turn}
    PROVE  QueueIn(q, p, h, n, d, k)
<1>1. /\ Len(q) \in Nat /\ Len(q) > 0 /\ Head(q) = q[1] /\ 1 \in 1..Len(q)
      /\ q[1].turn # NoTurn /\ p # "idle"
      /\ \A i \in 1..Len(q) : q[i].kind = "turn" => q[i].turn # NoTurn
  BY LenProperties, EmptySeq DEF InboxGood, OpGood, TurnKinds, ConstantsAssumption, Busy
<1> USE DEF QueueIn
<1>2. Delivered(q, h, n, d, k)
  BY <1>1 DEF Delivered
<1>3. Unopened(q, p, h, n)
  BY <1>1 DEF Unopened, OnePerTurn
<1>4. AnswerFirst(q, p, k)
  BY <1>1 DEF AnswerFirst
<1>5. ParkedAway(q, p, k)
  BY <1>1 DEF ParkedAway
<1> QED BY <1>2, <1>3, <1>4, <1>5

\* It goes on, or ends, and may end in a park.
LEMMA HeadGoesOn ==
    ASSUME ConstantsAssumption, NEW q, NEW h, NEW o, NEW d, NEW k,
           NEW p \in Busy, InboxGood(q, p), QueueIn(q, p, h, o, d, k),
           NEW r \in Busy \cup {"settling"}, NEW m,
           m = k \/ (r = "settling" /\ m.turn = Head(q).turn)
    PROVE  QueueIn(q, r, h, o, d, m)
<1>1. /\ Len(q) \in Nat /\ Len(q) > 0 /\ Head(q) = q[1] /\ 1 \in 1..Len(q)
      /\ q[1].turn # NoTurn /\ p # "idle" /\ r # "idle" /\ k = NoPark /\ "settling" \notin Busy
  BY LenProperties, EmptySeq
     DEF InboxGood, OpGood, TurnKinds, ConstantsAssumption, Busy, QueueIn, ParkedAway
<1> USE DEF QueueIn
<1>2. Delivered(q, h, o, d, m)
  BY <1>1 DEF Delivered
<1>3. Unopened(q, r, h, o)
  BY <1>1 DEF Unopened
<1>4. AnswerFirst(q, r, m)
  BY <1>1 DEF AnswerFirst
<1>5. ParkedAway(q, r, m)
  BY <1>1 DEF ParkedAway, OnePerTurn
<1> QED BY <1>2, <1>3, <1>4, <1>5

\* A turn delivered for the first time is held.
LEMMA TurnHeld ==
    ASSUME ConstantsAssumption, NEW q, NEW p, NEW h \in Seq(Turns), NEW o, NEW d, NEW k,
           InboxGood(q, p), QueueIn(q, p, h, o, d, k), NEW t \in Turns \ d
    PROVE  QueueIn(q, p, Append(h, t), o, d \cup {t}, k)
<1> DEFINE g == Append(h, t)
<1>1. /\ Len(h) \in Nat /\ Len(g) = Len(h) + 1 /\ g[Len(h) + 1] = t
      /\ \A i \in 1..Len(h) : g[i] = h[i]
      /\ \A i \in 1..Len(g) : i \in 1..Len(h) \/ i = Len(h) + 1
  BY AppendProperties, LenProperties
<1> HIDE DEF g
<1>2. TurnsOf(g) = TurnsOf(h) \cup {t} /\ t \notin TurnsOf(h)
  BY <1>1 DEF TurnsOf, QueueIn, Delivered
<1> USE DEF QueueIn
<1>3. Delivered(q, g, o, d \cup {t}, k)
  BY <1>2 DEF Delivered
<1>4. HeldOnce(g)
  <2>1. \A i \in 1..Len(h) : h[i] # t
    BY <1>2 DEF TurnsOf
  <2> QED BY <1>1, <2>1 DEF HeldOnce
<1>5. HeldFirst(q, g)
  <2> SUFFICES ASSUME NEW i \in 1..Len(q), q[i].kind = "turn", q[i].turn \in TurnsOf(g)
               PROVE  q[i].turn = g[1]
    BY DEF HeldFirst
  <2>1. q[i].turn \in d
    BY DEF InboxGood, OpGood, TurnKinds, ConstantsAssumption, Delivered
  <2>2. q[i].turn \in TurnsOf(h)
    BY <1>2, <2>1
  <2>3. 1 \in 1..Len(h)
    BY <1>1, <2>2 DEF TurnsOf
  <2> QED BY <1>1, <2>2, <2>3 DEF HeldFirst
<1>6. Unopened(q, p, g, o)
  BY <1>2 DEF Unopened, Delivered
<1> QED BY <1>3, <1>4, <1>5, <1>6 DEF g

\* The first of the held turns is started.
LEMMA QueueDrained ==
    ASSUME ConstantsAssumption, NEW q, NEW p, NEW h \in Seq(Turns), NEW o, NEW d, NEW k,
           InboxGood(q, p), QueueIn(q, p, h, o, d, k),
           status # "suspended" => k = NoPark
    PROVE  QueueIn(Drained(q, h), p, h, o, d, k)
<1>1. CASE Drained(q, h) = q
  BY <1>1
<1>2. CASE /\ Drained(q, h) = Append(q, TurnOp(Head(h)))
           /\ status # "suspended" /\ RunningIn(q) = {} /\ h # << >>
  <2>1. Head(h) = h[1] /\ Head(h) \in Turns /\ Head(h) \in TurnsOf(h)
    BY <1>2, LenProperties, EmptySeq, ElementOfSeq DEF TurnsOf
  <2>2. DOMAIN q = 1..Len(q)
    BY LenProperties DEF InboxGood
  <2>3. \A i \in 1..Len(q) : q[i].turn = NoTurn
    BY <1>2, <2>2 DEF RunningIn
  <2>4. \A i \in 1..Len(q) : q[i].kind \notin TurnKinds
    BY <2>3 DEF InboxGood, OpGood, ConstantsAssumption
  <2>5. p = "idle"
    <3>1. p # "idle" => 1 \in 1..Len(q) /\ q[1].kind \in TurnKinds
      BY LenProperties, EmptySeq DEF InboxGood
    <3> QED BY <2>4, <3>1
  <2>6. NoAnswer(q, p)
    BY <2>4 DEF NoAnswer, TurnKinds
  <2>7. Head(h) \in d /\ Head(h) \notin o
    BY <2>1, <2>5 DEF QueueIn, Delivered, Unopened
  <2>8. \A i \in 1..Len(q) : q[i].turn # Head(h)
    BY <2>1, <2>3 DEF ConstantsAssumption
  <2>9. k = NoPark
    BY <1>2
  <2> QED BY <1>2, <2>1, <2>6, <2>7, <2>8, <2>9, TurnQueued
<1> QED BY <1>1, <1>2 DEF Drained

\* Once a turn is released, the others stand as they stood.
LEMMA HeldShift ==
    ASSUME TypeOK, NEW t, t \in HeldTurns
    PROVE  \E i \in 1..Len(held) :
              /\ held[i] = t
              /\ Len(HeldWithout(t)) = Len(held) - 1
              /\ \A j \in 1..Len(held)-1 :
                    HeldWithout(t)[j] = IF j < i THEN held[j] ELSE held[j + 1]
<1> DEFINE i == CHOOSE k \in DOMAIN held : held[k] = t
<1>1. i \in DOMAIN held /\ held[i] = t
  BY DEF HeldTurns
<1>2. held \in Seq(Turns) /\ Len(held) \in Nat /\ i \in 1..Len(held)
  BY <1>1, LenProperties DEF TypeOK
<1> HIDE DEF i
<1> DEFINE a == SubSeq(held, 1, i - 1)
           b == SubSeq(held, i + 1, Len(held))
<1>3. /\ a \in Seq(Turns) /\ Len(a) = i - 1
      /\ \A j \in 1..i-1 : a[j] = held[j]
  <2>1. 1 \in 1..Len(held)+1 /\ i - 1 \in 0..Len(held) /\ \A j \in 1..i-1 : j \in 1..Len(held)
    BY <1>2
  <2> QED BY <1>2, <2>1, SubSeqProperties
<1>4. /\ b \in Seq(Turns) /\ Len(b) = Len(held) - i
      /\ \A j \in 1..Len(held)-i : b[j] = held[i + j]
  <2>1. i + 1 \in 1..Len(held)+1 /\ Len(held) \in 0..Len(held)
        /\ \A j \in i+1..Len(held) : j \in 1..Len(held)
    BY <1>2
  <2>2. /\ b \in Seq(Turns)
        /\ Len(b) = IF i + 1 <= Len(held) THEN Len(held) - (i + 1) + 1 ELSE 0
        /\ \A j \in 1..Len(held)-(i + 1)+1 : b[j] = held[(i + 1) + j - 1]
    BY <1>2, <2>1, SubSeqProperties
  <2>3. Len(held) - (i + 1) + 1 = Len(held) - i /\ \A j \in 1..Len(held)-i : (i + 1) + j - 1 = i + j
    BY <1>2
  <2>4. i + 1 <= Len(held) \/ Len(held) - i = 0
    BY <1>2
  <2> QED BY <2>2, <2>3, <2>4
<1>5. HeldWithout(t) = a \o b
  BY DEF HeldWithout, i, a, b
<1> HIDE DEF a, b
<1>6. /\ Len(a \o b) = Len(a) + Len(b)
      /\ \A j \in 1..Len(a) + Len(b) : (a \o b)[j] = IF j <= Len(a) THEN a[j] ELSE b[j - Len(a)]
  BY <1>3, <1>4, ConcatProperties
<1>7. Len(a) + Len(b) = Len(held) - 1
  BY <1>2, <1>3, <1>4
<1>8. ASSUME NEW j \in 1..Len(held)-1
      PROVE  (a \o b)[j] = IF j < i THEN held[j] ELSE held[j + 1]
  <2>1. CASE j < i
    BY <1>2, <1>3, <1>6, <1>7, <2>1
  <2>2. CASE ~(j < i)
    <3>1. ~(j <= Len(a)) /\ j - Len(a) \in 1..Len(held)-i /\ i + (j - Len(a)) = j + 1
      BY <1>2, <1>3, <2>2
    <3>2. (a \o b)[j] = b[j - Len(a)]
      BY <1>6, <1>7, <3>1
    <3> QED BY <1>4, <2>2, <3>1, <3>2
  <2> QED BY <2>1, <2>2
<1> QED BY <1>1, <1>2, <1>5, <1>6, <1>7, <1>8

LEMMA HeldReleased ==
    ASSUME TypeOK, HeldOnce(held), NEW t
    PROVE  /\ TurnsOf(HeldWithout(t)) \subseteq TurnsOf(held) \ {t}
           /\ HeldOnce(HeldWithout(t))
           /\ held[1] \in TurnsOf(HeldWithout(t)) => HeldWithout(t)[1] = held[1]
           /\ \A m, n \in 1..Len(held) : m < n /\ held[m] # t /\ held[n] # t =>
                 \E j, k \in 1..Len(HeldWithout(t)) :
                    j < k /\ HeldWithout(t)[j] = held[m] /\ HeldWithout(t)[k] = held[n]
<1> DEFINE g == HeldWithout(t)
<1>1. Len(held) \in Nat /\ DOMAIN held = 1..Len(held)
  BY LenProperties DEF TypeOK
<1>2. CASE t \notin HeldTurns
  <2>1. g = held /\ t \notin TurnsOf(held)
    BY <1>1, <1>2 DEF HeldWithout, HeldTurns, TurnsOf
  <2>2. held[1] \in TurnsOf(held) => g[1] = held[1]
    BY <2>1
  <2> HIDE DEF g
  <2> QED BY <2>1, <2>2 DEF g
<1>3. CASE t \in HeldTurns
  <2>1. PICK i \in 1..Len(held) :
              /\ held[i] = t
              /\ Len(g) = Len(held) - 1
              /\ \A j \in 1..Len(held)-1 : g[j] = IF j < i THEN held[j] ELSE held[j + 1]
    BY <1>3, HeldShift
  <2> HIDE DEF g
  <2> DEFINE at(j) == IF j < i THEN j ELSE j + 1
  <2>2. \A j \in 1..Len(g) : at(j) \in 1..Len(held) /\ at(j) # i /\ g[j] = held[at(j)]
    BY <1>1, <2>1
  <2>3. \A j, k \in 1..Len(g) : at(j) = at(k) => j = k
    BY <1>1, <2>1
  <2>4. \A j \in 1..Len(held) : j # i => held[j] # t
    BY <2>1 DEF HeldOnce
  <2>5. TurnsOf(g) \subseteq TurnsOf(held) \ {t}
    <3> HIDE DEF at
    <3> QED BY <2>2, <2>4 DEF TurnsOf
  <2>6. HeldOnce(g)
    <3> HIDE DEF at
    <3> QED BY <2>2, <2>3 DEF HeldOnce
  <2>7. ASSUME held[1] \in TurnsOf(g)
        PROVE  g[1] = held[1]
    <3>1. i # 1
      BY <2>1, <2>5, <2>7
    <3>2. 1 \in 1..Len(held)-1 /\ 1 < i
      BY <1>1, <2>1, <3>1
    <3> QED BY <2>1, <3>2
  <2>8. ASSUME NEW m \in 1..Len(held), NEW n \in 1..Len(held), m < n, held[m] # t, held[n] # t
        PROVE  \E j, k \in 1..Len(g) : j < k /\ g[j] = held[m] /\ g[k] = held[n]
    <3> DEFINE to(x) == IF x < i THEN x ELSE x - 1
    <3>1. m # i /\ n # i
      BY <2>1, <2>8
    <3>2. to(m) \in 1..Len(g) /\ to(n) \in 1..Len(g) /\ to(m) < to(n)
      BY <1>1, <2>1, <2>8, <3>1
    <3>3. at(to(m)) = m /\ at(to(n)) = n
      BY <1>1, <2>1, <2>8, <3>1
    <3> HIDE DEF to, at
    <3>4. g[to(m)] = held[m] /\ g[to(n)] = held[n]
      BY <2>2, <3>2, <3>3
    <3> QED BY <3>2, <3>4
  <2> QED BY <2>5, <2>6, <2>7, <2>8 DEF g
<1> QED BY <1>2, <1>3
-----------------------------------------------------------------------------
(* The queue's invariant.                                                  *)

DeliveredTurns == {t \in Turns : used.deliveries[t] # 0}

Queued == QueueIn(inbox, pc, held, OpenedIn(log), DeliveredTurns, park)

ParkIsStatus == status = "suspended" <=> park # NoPark

LEMMA CountKeeps ==
    ASSUME used \in Used, NEW what \in Counters, Count(what)
    PROVE  used'.deliveries = used.deliveries
<1>1. what # "deliveries"
  BY DEF Counters
<1> QED BY <1>1 DEF Count, Used

LEMMA FirstDelivery ==
    ASSUME ConstantsAssumption, Calm, TypeInv, NEW t \in Turns, Deliver(t)
    PROVE  /\ HostMayCall /\ t \in Turns \ DeliveredTurns
           /\ DeliveredTurns' = DeliveredTurns \cup {t}
<1>1. used \in Used /\ used.deliveries \in [Turns -> Nat] /\ used.deliveries[t] \in Nat
  BY DEF TypeInv, TypeOK, Used
<1>2. used.deliveries[t] = 0
  BY <1>1 DEF Deliver, Calm, ConstantsAssumption
<1>3. used'.deliveries = [used.deliveries EXCEPT ![t] = @ + 1]
  BY <1>1 DEF Deliver, Used
<1>4. \A u \in Turns : used'.deliveries[u] # 0 <=> used.deliveries[u] # 0 \/ u = t
  BY <1>1, <1>2, <1>3
<1>5. HostMayCall
  BY DEF Deliver, CallerMayRun, Calm
<1> QED BY <1>2, <1>4, <1>5 DEF DeliveredTurns

LEMMA HostFindsNoAnswer ==
    ASSUME HostMayCall
    PROVE  NoAnswer(inbox, pc)
BY DEF HostMayCall, NoAnswer

\* Operations are added behind the head, and no answer but by Resume.
LEMMA HeadStays ==
    ASSUME NEW q \in Seq(Op), q # << >>, NEW op \in Op, NEW h \in Seq(Turns)
    PROVE  Head(Append(q, op)) = Head(q) /\ Head(Drained(q, h)) = Head(q)
<1>1. ASSUME NEW x \in Op
      PROVE  Head(Append(q, x)) = Head(q)
  <2>1. Len(q) > 0 /\ Len(q) \in Nat
    BY EmptySeq, LenProperties
  <2> QED BY <2>1, AppendProperties
<1>2. h # << >> => TurnOp(Head(h)) \in Op
  BY HeadTailProperties DEF TurnOp, Op
<1> QED BY <1>1, <1>2 DEF Drained

LEMMA AnswerNotQueued ==
    ASSUME NEW q, NEW p, InboxGood(q, p), NoAnswer(q, p), NEW h \in Seq(Turns)
    PROVE  /\ \A op \in Op : op.kind # "resume" => NoAnswer(Append(q, op), p)
           /\ NoAnswer(Drained(q, h), p)
<1>1. ASSUME NEW op \in Op, op.kind # "resume"
      PROVE  NoAnswer(Append(q, op), p)
  <2> DEFINE r == Append(q, op)
  <2>1. /\ Len(r) = Len(q) + 1 /\ r[Len(q) + 1] = op
        /\ \A i \in 1..Len(q) : r[i] = q[i]
        /\ \A i \in 1..Len(q)+1 : i \in 1..Len(q) \/ i = Len(q) + 1
    BY Lengthened
  <2> HIDE DEF r
  <2>2. NoAnswer(r, p)
    BY <1>1, <2>1 DEF NoAnswer
  <2> QED BY <2>2 DEF r
<1>2. h # << >> => TurnOp(Head(h)) \in Op /\ TurnOp(Head(h)).kind # "resume"
  BY HeadTailProperties DEF TurnOp, Op
<1> QED BY <1>1, <1>2 DEF Drained

LEMMA SilenceOpensNothing ==
    ASSUME NEW l, NEW m, GrowsSilently(l, m)
    PROVE  /\ OpenedIn(m) = OpenedIn(l) /\ At(m, "user") = At(l, "user")
           /\ \A t : OpenedLast(l, t) => OpenedLast(m, t)
<1>1. /\ Len(l) \in Nat /\ Len(m) \in Nat /\ Len(l) <= Len(m)
      /\ \A i \in 1..Len(l) : m[i] = l[i]
      /\ \A j \in Len(l)+1..Len(m) : m[j].role # "user"
  BY LenProperties DEF GrowsSilently
<1>2. At(m, "user") = At(l, "user")
  BY <1>1 DEF At
<1>3. \A i \in At(l, "user") : m[i] = l[i]
  BY <1>1 DEF At
<1>4. ASSUME NEW t, OpenedLast(l, t)
      PROVE  OpenedLast(m, t)
  <2>1. PICK i \in 1..Len(l) : /\ l[i].role = "user" /\ l[i].turn = t
                                /\ \A j \in i+1..Len(l) : l[j].role # "user"
    BY <1>4 DEF OpenedLast
  <2>2. \A j \in i+1..Len(m) : m[j].role # "user"
    BY <1>1, <2>1
  <2> QED BY <1>1, <2>1, <2>2 DEF OpenedLast
<1> QED BY <1>2, <1>3, <1>4 DEF OpenedIn

\* A turn opens once nothing is parked; then it has opened.
LEMMA OpensUnparked ==
    ASSUME ConstantsAssumption, TypeInv, Queued, ParkIsStatus, OpenTurn
    PROVE  park = NoPark /\ OpenedIn(log') = OpenedIn(log) \cup {Current}
<1>1. /\ inbox # << >> /\ pc = "idle" /\ Head(inbox) = inbox[1] /\ 1 \in 1..Len(inbox)
      /\ Head(inbox).kind \in {"turn", "resume"}
  BY LenProperties, EmptySeq DEF OpenTurn, TurnBegins, AtHead, TypeInv, TypeOK
<1>2. park = NoPark
  <2>1. CASE Head(inbox).kind = "turn"
    <3>1. ~ForeignPark(Current)
      BY <2>1 DEF OpenTurn, MustRefuse
    <3>2. park # NoPark => park.turn = Current
      BY <3>1 DEF ForeignPark, ParkIsStatus
    <3>3. park # NoPark => inbox[1].turn # park.turn
      BY <1>1 DEF Queued, QueueIn, ParkedAway
    <3> QED BY <1>1, <3>2, <3>3 DEF Current
  <2>2. CASE Head(inbox).kind = "resume"
    BY <1>1, <2>2 DEF Queued, QueueIn, AnswerFirst
  <2> QED BY <1>1, <2>1, <2>2
<1>3. PICK mid \in Seq(Message) :
              /\ GrowsSilently(log, mid)
              /\ OpeningMsg(Current) \in Message
              /\ log' = IF HasOpeningMessage(Current) THEN mid
                        ELSE Append(mid, OpeningMsg(Current))
  BY OpeningStep
<1>4. OpenedIn(mid) = OpenedIn(log)
  BY <1>3, SilenceOpensNothing
<1>5. HasOpeningMessage(Current) => Current \in OpenedIn(log)
  BY ReadsOfLog DEF TypeInv
<1>6. OpeningMsg(Current).role = "user" /\ OpeningMsg(Current).turn = Current
  BY DEF OpeningMsg
<1>7. OpenedIn(Append(mid, OpeningMsg(Current))) = OpenedIn(mid) \cup {Current}
  BY <1>3, <1>6, OpeningAdded
<1> QED BY <1>2, <1>3, <1>4, <1>5, <1>7

LEMMA CallQueue ==
    ASSUME ConstantsAssumption, Calm, TypeInv, TypeInv', Queued, ParkIsStatus, Call
    PROVE  Queued' /\ ParkIsStatus'
<1> USE DEF store, steps, session, actor, effects
<1> DEFINE o == OpenedIn(log)
           d == DeliveredTurns
<1>a. /\ InboxGood(inbox, pc) /\ held \in Seq(Turns) /\ used \in Used
      /\ park \in Park \cup {NoPark} /\ DOMAIN held = 1..Len(held)
      /\ InboxGood(inbox', pc') /\ held' \in Seq(Turns)
  BY LenProperties DEF TypeInv, InboxOK, TypeOK, Used
<1>b. QueueIn(inbox, pc, held, o, d, park)
  BY DEF Queued
<1>c. status # "suspended" => park = NoPark
  BY DEF ParkIsStatus
<1>d. HostMayCall => NoAnswer(inbox, pc)
  BY HostFindsNoAnswer
<1>e. CallerMayRun => HostMayCall
  BY DEF CallerMayRun, Calm
<1>f. log' = log => OpenedIn(log') = o
  OBVIOUS
<1>g. used' = used => DeliveredTurns' = d
  BY DEF DeliveredTurns
<1>h. (\E what \in Counters : Count(what)) => DeliveredTurns' = d
  BY <1>a, CountKeeps DEF DeliveredTurns
<1> HIDE DEF o, d
<1>1. ASSUME NEW t \in Turns, StartHolds(t)
      PROVE  Queued' /\ ParkIsStatus'
  <2>1. t \in Turns \ d /\ DeliveredTurns' = d \cup {t}
    BY <1>1, FirstDelivery DEF StartHolds, d
  <2>2. t \notin HeldTurns /\ ~HasOpeningMessage(t)
    <3>1. t \notin TurnsOf(held) /\ t \notin o
      BY <1>b, <2>1 DEF QueueIn, Delivered
    <3> QED BY <1>a, <3>1, ReadsOfLog DEF TurnsOf, HeldTurns, TypeInv, o
  <2>3. held' = Append(held, t) /\ inbox' = Drained(inbox, held')
    BY <1>1, <2>2 DEF StartHolds
  <2>4. QueueIn(inbox, pc, held', o, d \cup {t}, park)
    BY <1>a, <1>b, <2>1, <2>3, TurnHeld
  <2>5. QueueIn(Drained(inbox, held'), pc, held', o, d \cup {t}, park)
    BY <1>a, <1>c, <2>4, QueueDrained
  <2> QED BY <1>1, <1>f, <2>1, <2>3, <2>5 DEF StartHolds, Queued, ParkIsStatus
<1>2. ASSUME NEW t \in Turns, StartBegins(t)
      PROVE  Queued' /\ ParkIsStatus'
  <2> DEFINE q == IF parkedTurnId = NoTurn THEN Drained(inbox, held) ELSE inbox
  <2>1. HostMayCall /\ t \in Turns \ d /\ DeliveredTurns' = d \cup {t}
    BY <1>2, FirstDelivery DEF StartBegins, d
  <2>2. InboxGood(q, pc) /\ QueueIn(q, pc, held, o, d, park)
    BY <1>a, <1>b, <1>c, InboxDrained, QueueDrained
  <2>3. NoAnswer(q, pc)
    BY <1>a, <1>d, <2>1, AnswerNotQueued
  <2>4. inbox' = Append(q, TurnOp(t))
    BY <1>2 DEF StartBegins
  <2> HIDE DEF q
  <2>5. QueueIn(q, pc, held, o, d \cup {t}, park)
    BY <2>2 DEF QueueIn, Delivered
  <2>6. \A i \in 1..Len(q) : q[i].turn # t
    BY <2>1, <2>2 DEF QueueIn, Delivered, ConstantsAssumption
  <2>7. t \notin o /\ t \notin TurnsOf(held) /\ (park # NoPark => park.turn # t)
    BY <2>1, <2>2 DEF QueueIn, Delivered
  <2>8. QueueIn(Append(q, TurnOp(t)), pc, held, o, d \cup {t}, park)
    BY <2>1, <2>2, <2>3, <2>5, <2>6, <2>7, TurnQueued
  <2> QED BY <1>2, <1>f, <2>1, <2>4, <2>8 DEF StartBegins, Queued, ParkIsStatus
<1>3. ASSUME NEW t \in Turns, Cancel(t)
      PROVE  Queued' /\ ParkIsStatus'
  <2>1. DeliveredTurns' = d
    BY <1>3, <1>h DEF Cancel, Counters
  <2> QED BY <1>3, <1>b, <1>f, <2>1 DEF Cancel, Queued, ParkIsStatus
<1>4. ASSUME NEW t \in Turns, Resume(t)
      PROVE  Queued' /\ ParkIsStatus'
  <2>1. park # NoPark /\ park.turn = t /\ HostMayCall
    BY <1>4, <1>e DEF Resume, NoPark, ConstantsAssumption
  <2>2. pc = "idle" /\ inbox = << >>
    BY <1>b, <2>1 DEF HostMayCall, QueueIn, ParkedAway, Busy
  <2>3. inbox' = <<ResumeOp(t)>> /\ pc' = "idle" /\ park' = NoPark /\ held' = held
        /\ status' # "suspended" /\ log' = log /\ used' = used
    BY <1>4, <2>2 DEF Resume
  <2>4. /\ Len(<<ResumeOp(t)>>) = 1 /\ <<ResumeOp(t)>>[1] = ResumeOp(t)
        /\ ResumeOp(t).kind = "resume" /\ ResumeOp(t).turn = t
    BY DEF ResumeOp
  <2>5. QueueIn(<<ResumeOp(t)>>, "idle", held, o, d, NoPark)
    <3>1. OnePerTurn(<<ResumeOp(t)>>) /\ HeldFirst(<<ResumeOp(t)>>, held)
          /\ AnswerFirst(<<ResumeOp(t)>>, "idle", NoPark)
      BY <2>4 DEF OnePerTurn, HeldFirst, AnswerFirst
    <3>2. Delivered(<<ResumeOp(t)>>, held, o, d, NoPark)
      BY <1>b, <2>1, <2>4 DEF QueueIn, Delivered
    <3>3. Unopened(<<ResumeOp(t)>>, "idle", held, o)
      BY <1>b, <2>2, <2>4 DEF QueueIn, Unopened
    <3> QED BY <1>b, <3>1, <3>2, <3>3 DEF QueueIn, ParkedAway
  <2> QED BY <1>f, <1>g, <2>3, <2>5 DEF Queued, ParkIsStatus
<1>5. CASE Note
  <2>1. DeliveredTurns' = d /\ HostMayCall
    BY <1>5, <1>e, <1>h DEF Note, Counters
  <2>2. QueueIn(Append(inbox, NoteOp), pc, held, o, d, park)
    BY <1>a, <1>b, <1>d, <2>1, OtherQueued
  <2> QED BY <1>5, <1>f, <2>1, <2>2 DEF Note, Queued, ParkIsStatus
<1>6. CASE Reset
  <2>1. DeliveredTurns' = d /\ HostMayCall
    BY <1>6, <1>e, <1>h DEF Reset, Counters
  <2>2. QueueIn(Append(inbox, ResetOp), pc, held, o, d, park)
    BY <1>a, <1>b, <1>d, <2>1, OtherQueued
  <2> QED BY <1>6, <1>f, <2>1, <2>2 DEF Reset, Queued, ParkIsStatus
<1>7. CASE Rebuild
  BY <1>7, <1>b, <1>f, <1>g DEF Rebuild, Queued, ParkIsStatus
<1>8. CASE Evict
  <2>1. pc = "idle" /\ inbox = << >>
    <3>1. ASSUME pc # "idle"
          PROVE  FALSE
      <4>1. 1 \in 1..Len(inbox) /\ Head(inbox) = inbox[1] /\ DOMAIN inbox = 1..Len(inbox)
        BY <1>a, <3>1, LenProperties, EmptySeq DEF InboxGood
      <4>2. inbox[1].turn # NoTurn
        BY <1>a, <3>1, <4>1 DEF InboxGood, OpGood, ConstantsAssumption
      <4> QED BY <1>8, <4>1, <4>2 DEF Evict, IsIdle, Running, RunningIn
    <3> QED BY <1>8, <3>1 DEF Evict, HostMayCall
  <2> QED BY <1>8, <1>b, <1>f, <1>g, <2>1 DEF Evict, Queued, ParkIsStatus
<1> QED BY <1>1, <1>2, <1>3, <1>4, <1>5, <1>6, <1>7, <1>8 DEF Call

\* While a turn's operation goes on, nothing but its head's state moves; it may
\* end in a park.
LEMMA BusySteps ==
    ASSUME ConstantsAssumption, TypeInv, Engine, pc \in Busy
    PROVE  /\ pc' \in Busy \cup {"settling"}
           /\ UNCHANGED <<held, inbox, cancels, answers, pendingReset>>
           /\ used'.deliveries = used.deliveries
           /\ GrowsSilently(log, log')
           /\ UNCHANGED park \/ (\E c \in Calls : ParkTurn(c))
           /\ status' = status \/ status' = "done" \/ (\E c \in Calls : ParkTurn(c))
<1> USE DEF store, steps, session, actor, effects, Busy
<1>a. used \in Used /\ pc # "idle" /\ pc # "settling"
  BY DEF TypeInv, TypeOK, Used
<1>b. ~OpenTurn /\ ~RunReset /\ ~RefuseOverPark /\ ~CancelEarly /\ ~RunNote /\ ~ResetFails
      /\ ~Settle
  BY <1>a DEF OpenTurn, RunReset, TurnBegins, AtHead, RefuseOverPark, CancelEarly, RunNote,
              ResetFails, Settle
<1>c. GrowsSilently(log, log')
  BY <1>b, LogSteps DEF Next
<1>1. CASE Complete \/ CancelToolBatch \/ ReleaseHeldNotes \/ CancelBeforeModel \/ AskModel \/ ModelCancelled
  BY <1>1, <1>a, <1>c
     DEF Complete, CancelToolBatch, ReleaseHeldNotes, CancelBeforeModel, AskModel,
         ModelCancelled, Settling
<1>2. CASE ModelFails
  <2>1. used'.deliveries = used.deliveries
    BY <1>2, <1>a, CountKeeps DEF ModelFails, Counters
  <2> QED BY <1>2, <1>c, <2>1 DEF ModelFails
<1>3. ASSUME NEW c \in Calls, FatalTool(c) \/ RemoteTool(c) \/ RequestInput(c) \/ ParkTurn(c)
      PROVE  /\ pc' \in Busy \cup {"settling"}
             /\ UNCHANGED <<held, inbox, cancels, answers, pendingReset, used>>
             /\ UNCHANGED park \/ ParkTurn(c)
             /\ status' = status \/ status' = "done" \/ ParkTurn(c)
  BY <1>3 DEF FatalTool, RemoteTool, RequestInput, ParkTurn, Settling
<1>4. ASSUME NEW c \in Calls,
             LocalTool(c) \/ LocalToolThrows(c) \/ RemoteReturns(c) \/ RemoteThrows(c)
      PROVE  /\ pc' \in Busy \cup {"settling"}
             /\ UNCHANGED <<held, inbox, cancels, answers, pendingReset, park, status>>
             /\ used'.deliveries = used.deliveries
  <2>1. used'.deliveries = used.deliveries
    <3>1. CASE LocalTool(c) \/ RemoteReturns(c)
      BY <3>1 DEF LocalTool, RemoteReturns
    <3>2. CASE LocalToolThrows(c) \/ RemoteThrows(c)
      BY <3>2, <1>a, CountKeeps DEF LocalToolThrows, RemoteThrows, Counters
    <3> QED BY <1>4, <3>1, <3>2
  <2> QED BY <1>4, <2>1 DEF LocalTool, LocalToolThrows, RemoteReturns, RemoteThrows, Record
<1>5. ASSUME NEW b \in Batches, ModelReplies(b)
      PROVE  /\ pc' \in Busy \cup {"settling"}
             /\ UNCHANGED <<held, inbox, cancels, answers, pendingReset, park, status>>
             /\ used'.deliveries = used.deliveries
  <2>1. used'.deliveries = used.deliveries
    BY <1>5, <1>a, CountKeeps DEF ModelReplies, Counters
  <2> QED BY <1>5, <2>1 DEF ModelReplies
<1> QED BY <1>b, <1>c, <1>1, <1>2, <1>3, <1>4, <1>5 DEF Engine

LEMMA EngineQueue ==
    ASSUME ConstantsAssumption, TypeInv, Queued, ParkIsStatus, Engine
    PROVE  Queued' /\ ParkIsStatus'
<1> USE DEF store, steps, session, actor, effects
<1> DEFINE o == OpenedIn(log)
           d == DeliveredTurns
<1>a. /\ InboxGood(inbox, pc) /\ held \in Seq(Turns) /\ used \in Used /\ TypeOK
      /\ park \in Park \cup {NoPark}
  BY LenProperties DEF TypeInv, InboxOK, TypeOK, Used
<1>b. QueueIn(inbox, pc, held, o, d, park)
  BY DEF Queued
<1>c. status # "suspended" => park = NoPark
  BY DEF ParkIsStatus
<1>f. log' = log => OpenedIn(log') = o
  OBVIOUS
<1>g. used'.deliveries = used.deliveries => DeliveredTurns' = d
  BY DEF DeliveredTurns
<1> HIDE DEF o, d
<1>1. CASE pc \in Busy
  <2>1. /\ pc' \in Busy \cup {"settling"} /\ held' = held /\ inbox' = inbox
        /\ OpenedIn(log') = o /\ DeliveredTurns' = d
        /\ UNCHANGED park \/ (\E c \in Calls : ParkTurn(c))
        /\ status' = status \/ status' = "done" \/ (\E c \in Calls : ParkTurn(c))
    BY <1>1, <1>g, BusySteps, SilenceOpensNothing DEF o
  <2>2. park = NoPark
    BY <1>1, <1>b DEF QueueIn, ParkedAway
  <2>3. CASE UNCHANGED park /\ (status' = status \/ status' = "done")
    <3>1. QueueIn(inbox, pc', held, o, d, park)
      BY <1>1, <1>a, <1>b, <2>1, HeadGoesOn
    <3> QED BY <2>1, <2>2, <2>3, <3>1 DEF Queued, ParkIsStatus
  <2>4. ASSUME NEW c \in Calls, ParkTurn(c)
        PROVE  Queued' /\ ParkIsStatus'
    <3>1. pc' = "settling" /\ park' = [turn |-> Current, call |-> c] /\ status' = "suspended"
      BY <2>2, <2>4 DEF ParkTurn, Settling
    <3>2. park'.turn = Head(inbox).turn /\ Current \in Turns
      BY <1>1, <3>1, TurnAtHead DEF Current, Busy
    <3>3. park' # NoPark
      BY <3>1, <3>2 DEF NoPark, ConstantsAssumption, Current
    <3>4. QueueIn(inbox, "settling", held, o, d, park')
      BY <1>1, <1>a, <1>b, <3>2, HeadGoesOn
    <3> QED BY <2>1, <3>1, <3>3, <3>4 DEF Queued, ParkIsStatus
  <2>5. (UNCHANGED park /\ (status' = status \/ status' = "done")) \/ (\E c \in Calls : ParkTurn(c))
    BY <2>1
  <2> QED BY <2>3, <2>4, <2>5
<1>2. CASE RefuseOverPark \/ CancelEarly
  <2>1. /\ pc = "idle" /\ pc' = "settling" /\ inbox # << >> /\ Head(inbox).kind \in TurnKinds
        /\ UNCHANGED <<inbox, held, log, park, status, used>>
    BY <1>2 DEF RefuseOverPark, CancelEarly, TurnBegins, AtHead, TurnKinds
  <2>2. QueueIn(inbox, "settling", held, o, d, park)
    BY <1>a, <1>b, <2>1, HeadBegun DEF Busy
  <2> QED BY <1>f, <1>g, <2>1, <2>2 DEF Queued, ParkIsStatus
<1>3. CASE OpenTurn
  <2>1. /\ pc = "idle" /\ pc' = "loop" /\ inbox # << >> /\ Head(inbox).kind \in TurnKinds
        /\ UNCHANGED <<inbox, held, park, used>> /\ status' = "running"
    BY <1>3 DEF OpenTurn, TurnBegins, AtHead, TurnKinds
  <2>2. park = NoPark /\ OpenedIn(log') = o \cup {Current}
    BY <1>3, OpensUnparked DEF o
  <2>3. QueueIn(inbox, "loop", held, o \cup {Current}, d, park)
    BY <1>a, <1>b, <2>1, <2>2, HeadBegun DEF Busy, Current
  <2> QED BY <1>g, <2>1, <2>2, <2>3 DEF Queued, ParkIsStatus
<1>4. CASE RunNote \/ RunReset \/ ResetFails
  <2>1. /\ pc = "idle" /\ pc' = "idle" /\ inbox # << >> /\ inbox' = Tail(inbox)
        /\ Head(inbox).kind \in {"note", "reset"}
    BY <1>4 DEF RunNote, RunReset, ResetFails, AtHead
  <2>2. DeliveredTurns' = d
    <3>1. CASE ResetFails
      BY <3>1, <1>a, <1>g, CountKeeps DEF ResetFails, Counters
    <3>2. CASE RunNote \/ RunReset
      BY <3>2, <1>g DEF RunNote, RunReset
    <3> QED BY <1>4, <3>1, <3>2
  <2>3. Head(inbox).turn = NoTurn /\ Head(inbox).kind \notin TurnKinds
    <3>1. 1 \in 1..Len(inbox) /\ Head(inbox) = inbox[1]
      BY <1>a, <2>1, LenProperties, EmptySeq DEF InboxGood
    <3> QED BY <1>a, <2>1, <3>1 DEF InboxGood, OpGood, TurnKinds
  <2>4. ASSUME NEW g, TurnsOf(g) \subseteq TurnsOf(held) \ {NoTurn}, HeldOnce(g),
               held[1] \in TurnsOf(g) => g[1] = held[1]
        PROVE  QueueIn(Tail(inbox), "idle", g, o, d, park)
    BY <1>a, <1>b, <2>1, <2>3, <2>4, HeadDropped
  <2>5. CASE RunNote \/ ResetFails
    <3>1. UNCHANGED <<held, park, status>> /\ OpenedIn(log') = o
      <4>1. CASE ResetFails
        BY <4>1, <1>f DEF ResetFails
      <4>2. CASE RunNote
        <5>1. GrowsSilently(log, log')
          BY <4>2, LogSteps DEF Next, Engine, OpenTurn, RunReset, RunNote, TurnBegins, AtHead
        <5> QED BY <4>2, <5>1, SilenceOpensNothing DEF RunNote, o
      <4> QED BY <2>5, <4>1, <4>2
    <3>2. TurnsOf(held) \subseteq TurnsOf(held) \ {NoTurn}
      BY <1>a, ElementOfSeq, LenProperties DEF TurnsOf, ConstantsAssumption
    <3>3. HeldOnce(held)
      BY <1>b DEF QueueIn
    <3>4. QueueIn(Tail(inbox), "idle", held, o, d, park)
      BY <2>4, <3>2, <3>3
    <3> QED BY <2>1, <2>2, <3>1, <3>4 DEF Queued, ParkIsStatus
  <2>6. CASE RunReset
    <3>1. held' = << >> /\ park' = NoPark /\ status' # "suspended" /\ OpenedIn(log') = {}
      BY <2>6 DEF RunReset, OpenedIn, At
    <3>2. TurnsOf(<< >>) = {} /\ HeldOnce(<< >>)
      BY DEF TurnsOf, HeldOnce
    <3>3. QueueIn(Tail(inbox), "idle", << >>, o, d, park)
      BY <2>4, <3>2
    <3>4. QueueIn(Tail(inbox), "idle", << >>, {}, d, NoPark)
      BY <3>3 DEF QueueIn, Delivered, Unopened, AnswerFirst, ParkedAway
    <3> QED BY <2>1, <2>2, <3>1, <3>4 DEF Queued, ParkIsStatus
  <2> QED BY <1>4, <2>5, <2>6
<1>5. CASE Settle
  <2>1. /\ pc = "settling" /\ pc' = "idle" /\ held' = HeldWithout(Current)
        /\ inbox' = Drained(Tail(inbox), held') /\ UNCHANGED <<log, park, status, used>>
    BY <1>5 DEF Settle
  <2>2. inbox # << >> /\ InboxGood(Tail(inbox), "idle") /\ held' \in Seq(Turns)
    BY <1>a, <2>1, TurnAtHead, InboxTail, HeldWithoutType
  <2>3. /\ TurnsOf(held') \subseteq TurnsOf(held) \ {Current} /\ HeldOnce(held')
        /\ held[1] \in TurnsOf(held') => held'[1] = held[1]
    BY <1>a, <1>b, <2>1, HeldReleased DEF QueueIn
  <2>4. QueueIn(Tail(inbox), "idle", held', o, d, park)
    BY <1>a, <1>b, <2>1, <2>2, <2>3, HeadDropped DEF Current
  <2>5. QueueIn(inbox', "idle", held', o, d, park)
    BY <1>c, <2>1, <2>2, <2>4, QueueDrained
  <2> QED BY <1>f, <1>g, <2>1, <2>5 DEF Queued, ParkIsStatus
<1>6. pc \in Busy \/ RefuseOverPark \/ CancelEarly \/ OpenTurn \/ RunNote \/ RunReset \/ ResetFails \/ Settle
  BY DEF Engine, Busy, Complete, CancelToolBatch, ReleaseHeldNotes, CancelBeforeModel, AskModel,
         ModelCancelled, ModelFails, ModelReplies, FatalTool, LocalTool, LocalToolThrows, RemoteTool,
         RemoteReturns, RemoteThrows, RequestInput, ParkTurn, Owing, NotOwing, RunsTool, InTool
<1> QED BY <1>1, <1>2, <1>3, <1>4, <1>5, <1>6
-----------------------------------------------------------------------------
(* The floor: the turn that speaks, is parked, or is about to go on.       *)

Answering == pc = "idle" /\ \E i \in 1..Len(inbox) : inbox[i].kind = "resume"

Floor == IF pc \in Busy \/ Answering THEN Current
         ELSE IF park # NoPark THEN park.turn ELSE NoTurn

AnswerUncancelled == Answering => cancels = {}

\* What a call can change of all this.
LEMMA CallShape ==
    ASSUME ConstantsAssumption, Calm, TypeInv, Queued, CancelsOfRunning, Call
    PROVE  /\ log' = log /\ pc' = pc /\ toolSteps' = toolSteps
           /\ \/ /\ pc \in Busy /\ Head(inbox') = Head(inbox)
                 /\ UNCHANGED <<park, answers>>
              \/ /\ pc = "idle" /\ ~Answering /\ ~Answering'
                 /\ UNCHANGED <<park, answers>>
              \/ /\ pc = "idle" /\ ~Answering /\ Answering' /\ park # NoPark /\ park' = NoPark
                 /\ Head(inbox').turn = park.turn /\ cancels' = {}
<1> USE DEF store, steps, session, actor, effects
<1>a. /\ InboxGood(inbox, pc) /\ inbox \in Seq(Op) /\ held \in Seq(Turns)
      /\ (pc \in Busy => inbox # << >>)
  BY DEF TypeInv, InboxOK, TypeOK, InboxGood, Busy
<1>b. CallerMayRun => pc \in Busy \/ (pc = "idle" /\ inbox = << >>)
  BY DEF CallerMayRun, HostMayCall, Calm, Busy
<1>c. pc = "idle" /\ inbox = << >> => NoAnswer(inbox, pc) /\ ~Answering /\ cancels = {}
  BY <1>a DEF NoAnswer, Answering, CancelsOfRunning, Running, RunningIn
<1>d. ASSUME NEW q \in Seq(Op), NEW op \in Op, op.kind # "resume", pc' = pc,
             inbox' = Append(q, op) \/ inbox' = q,
             pc \in Busy => q # << >> /\ Head(q) = Head(inbox),
             pc = "idle" => InboxGood(q, pc) /\ NoAnswer(q, pc)
      PROVE  /\ pc \in Busy => Head(inbox') = Head(inbox)
             /\ pc = "idle" => ~Answering'
  <2>1. pc \in Busy => Head(Append(q, op)) = Head(inbox)
    BY <1>a, <1>d, HeadStays
  <2>2. pc = "idle" => NoAnswer(Append(q, op), pc)
    BY <1>a, <1>d, AnswerNotQueued
  <2>3. pc = "idle" => NoAnswer(inbox', pc)
    BY <1>d, <2>2
  <2> QED BY <1>d, <2>1, <2>3 DEF NoAnswer, Answering
<1>1. ASSUME NEW t \in Turns, StartHolds(t) \/ StartBegins(t)
      PROVE  /\ pc' = pc /\ UNCHANGED <<log, toolSteps, park, answers>> /\ CallerMayRun
             /\ pc \in Busy => Head(inbox') = Head(inbox)
             /\ pc = "idle" => ~Answering'
  <2>0. pc' = pc /\ UNCHANGED <<log, toolSteps, park, answers>> /\ CallerMayRun
    BY <1>1 DEF StartHolds, StartBegins, Deliver
  <2>1. ASSUME NEW h \in Seq(Turns)
        PROVE  /\ Drained(inbox, h) \in Seq(Op) /\ InboxGood(Drained(inbox, h), pc)
               /\ pc \in Busy => Drained(inbox, h) # << >> /\ Head(Drained(inbox, h)) = Head(inbox)
               /\ pc = "idle" => NoAnswer(Drained(inbox, h), pc)
    <3>1. InboxGood(Drained(inbox, h), pc)
      BY <1>a, InboxDrained
    <3>2. pc \in Busy => Drained(inbox, h) # << >> /\ Head(Drained(inbox, h)) = Head(inbox)
      <4>1. NoteOp \in Op
        BY DEF NoteOp, Op
      <4>2. pc \in Busy => Head(Drained(inbox, h)) = Head(inbox)
        BY <1>a, <4>1, HeadStays
      <4> QED BY <3>1, <4>2 DEF InboxGood, Busy
    <3>3. pc = "idle" => NoAnswer(Drained(inbox, h), pc)
      BY <1>a, <1>b, <1>c, <2>0, AnswerNotQueued DEF Busy
    <3> QED BY <3>1, <3>2, <3>3 DEF InboxGood
  <2>2. TurnOp(t) \in Op /\ TurnOp(t).kind # "resume"
    BY DEF TurnOp, Op
  <2>3. CASE StartHolds(t)
    <3>1. inbox' = Drained(inbox, held') /\ held' \in Seq(Turns)
      BY <2>3, <1>a, AppendProperties DEF StartHolds
    <3> QED BY <1>d, <2>0, <2>1, <2>2, <3>1
  <2>4. CASE StartBegins(t)
    <3> DEFINE q == IF parkedTurnId = NoTurn THEN Drained(inbox, held) ELSE inbox
    <3>1. inbox' = Append(q, TurnOp(t))
      BY <2>4 DEF StartBegins
    <3>2. /\ q \in Seq(Op) /\ InboxGood(q, pc)
          /\ pc \in Busy => q # << >> /\ Head(q) = Head(inbox)
          /\ pc = "idle" => NoAnswer(q, pc)
      BY <1>a, <1>b, <1>c, <2>0, <2>1 DEF Busy
    <3> HIDE DEF q
    <3> QED BY <1>d, <2>0, <2>2, <3>1, <3>2
  <2> QED BY <1>1, <2>0, <2>3, <2>4
<1>2. ASSUME NEW t \in Turns, Cancel(t)
      PROVE  UNCHANGED <<log, toolSteps, park, answers, inbox, pc>> /\ CallerMayRun
  BY <1>2 DEF Cancel
<1>3. ASSUME NEW t \in Turns, Resume(t)
      PROVE  /\ log' = log /\ pc' = pc /\ toolSteps' = toolSteps /\ pc = "idle" /\ ~Answering
             /\ Answering' /\ park # NoPark /\ park' = NoPark
             /\ Head(inbox').turn = park.turn /\ cancels' = {}
  <2>1. park # NoPark /\ park.turn = t /\ CallerMayRun
    BY <1>3 DEF Resume, NoPark, ConstantsAssumption
  <2>2. pc = "idle" /\ inbox = << >>
    BY <1>b, <2>1 DEF Queued, QueueIn, ParkedAway
  <2>3. inbox' = <<ResumeOp(t)>> /\ UNCHANGED <<log, pc, toolSteps, cancels>> /\ park' = NoPark
    BY <1>3, <2>2 DEF Resume
  <2>4. /\ Len(inbox') = 1 /\ inbox'[1] = ResumeOp(t) /\ Head(inbox') = ResumeOp(t)
        /\ ResumeOp(t).kind = "resume" /\ ResumeOp(t).turn = t
    BY <2>3 DEF ResumeOp
  <2>5. Answering'
    BY <2>2, <2>3, <2>4 DEF Answering
  <2> QED BY <1>c, <2>1, <2>2, <2>3, <2>4, <2>5
<1>4. CASE Note \/ Reset
  <2>1. /\ pc' = pc /\ UNCHANGED <<log, toolSteps, park, answers>> /\ CallerMayRun
        /\ inbox' = Append(inbox, NoteOp) \/ inbox' = Append(inbox, ResetOp)
    BY <1>4 DEF Note, Reset
  <2>2. /\ NoteOp \in Op /\ ResetOp \in Op /\ NoteOp.kind # "resume" /\ ResetOp.kind # "resume"
    BY DEF NoteOp, ResetOp, Op
  <2> QED BY <1>a, <1>b, <1>c, <1>d, <2>1, <2>2 DEF Busy
<1>5. CASE Rebuild
  BY <1>5, <1>b, <1>c DEF Rebuild, Answering
<1>6. CASE Evict
  <2>1. pc = "idle" /\ inbox = << >>
    <3>1. ASSUME pc # "idle"
          PROVE  FALSE
      <4>1. 1 \in 1..Len(inbox) /\ Head(inbox) = inbox[1] /\ DOMAIN inbox = 1..Len(inbox)
        BY <1>a, <3>1, LenProperties, EmptySeq DEF InboxGood
      <4>2. inbox[1].turn # NoTurn
        BY <1>a, <3>1, <4>1 DEF InboxGood, OpGood, ConstantsAssumption
      <4> QED BY <1>6, <4>1, <4>2 DEF Evict, IsIdle, Running, RunningIn
    <3> QED BY <1>6, <3>1 DEF Evict, HostMayCall
  <2> QED BY <1>6, <1>c, <2>1 DEF Evict, Answering
<1>7. ASSUME UNCHANGED <<log, toolSteps, park, answers, inbox, pc>>, CallerMayRun
      PROVE  /\ log' = log /\ pc' = pc /\ toolSteps' = toolSteps
             /\ \/ /\ pc \in Busy /\ Head(inbox') = Head(inbox)
                   /\ UNCHANGED <<park, answers>>
                \/ /\ pc = "idle" /\ ~Answering /\ ~Answering'
                   /\ UNCHANGED <<park, answers>>
  BY <1>7, <1>b, <1>c DEF Answering
<1>8. CASE \E t \in Turns : StartHolds(t) \/ StartBegins(t)
  BY <1>8, <1>1, <1>b, <1>c
<1>9. CASE \E t \in Turns : Cancel(t)
  BY <1>9, <1>2, <1>7
<1>10. CASE \E t \in Turns : Resume(t)
  BY <1>10, <1>3
<1>11. CASE Note \/ Reset
  <2>1. /\ pc' = pc /\ UNCHANGED <<log, toolSteps, park, answers>> /\ CallerMayRun
    BY <1>11 DEF Note, Reset
  <2> QED BY <1>4, <1>11, <1>b, <1>c, <2>1
<1> QED BY <1>5, <1>6, <1>8, <1>9, <1>10, <1>11 DEF Call

LEMMA NoAnswerBehind ==
    ASSUME NEW q, NEW p, NEW h, NEW o, NEW d, NEW k, InboxGood(q, p), q # << >>,
           QueueIn(q, p, h, o, d, k)
    PROVE  NoAnswer(Tail(q), "idle")
<1>1. /\ Len(q) \in Nat /\ Len(Tail(q)) = Len(q) - 1
      /\ \A i \in 1..Len(Tail(q)) : Tail(q)[i] = q[i + 1]
  BY HeadTailProperties, LenProperties DEF InboxGood
<1>2. \A i \in 1..Len(Tail(q)) : i + 1 \in 1..Len(q) /\ i + 1 # 1
  BY <1>1
<1> QED BY <1>1, <1>2 DEF QueueIn, AnswerFirst, NoAnswer

\* Who has the floor, before and after a step of the engine.
LEMMA EngineFloor ==
    ASSUME ConstantsAssumption, TypeInv, Queued, ParkIsStatus, AnswerUncancelled, Engine
    PROVE  /\ ~Answering'
           /\ pc \in Busy => /\ Floor = Current
                             /\ Floor' = IF pc' \in Busy \/ \E c \in Calls : ParkTurn(c)
                                         THEN Current ELSE NoTurn
           /\ RefuseOverPark \/ CancelEarly \/ RunNote \/ ResetFails \/ Settle
                 => Floor' = Floor /\ pc' \notin Busy
           /\ OpenTurn => /\ Floor' = Current
                          /\ Floor = IF Head(inbox).kind = "resume" THEN Current ELSE NoTurn
           /\ RunReset => Floor' = NoTurn /\ pc' \notin Busy
<1> USE DEF store, steps, session, actor, effects
<1>a. /\ InboxGood(inbox, pc) /\ inbox \in Seq(Op) /\ held \in Seq(Turns)
      /\ QueueIn(inbox, pc, held, OpenedIn(log), DeliveredTurns, park)
  BY DEF TypeInv, InboxOK, TypeOK, Queued
<1>b. "idle" \notin Busy /\ "settling" \notin Busy
  BY DEF Busy
<1>h. inbox # << >> => Head(inbox) = inbox[1] /\ 1 \in 1..Len(inbox)
  BY <1>a, LenProperties, EmptySeq
<1>c. Answering => Head(inbox).kind = "resume" /\ park = NoPark
  BY <1>a, <1>h DEF Answering, QueueIn, AnswerFirst
<1>d. inbox # << >> /\ Head(inbox).kind = "resume" /\ pc = "idle" => Answering
  BY <1>h DEF Answering
<1>1. CASE pc \in Busy
  <2>1. /\ pc' \in Busy \cup {"settling"} /\ inbox' = inbox
        /\ UNCHANGED park \/ (\E c \in Calls : ParkTurn(c))
    BY <1>1, BusySteps
  <2>2. park = NoPark /\ Current \in Turns
    BY <1>1, <1>a, <1>b, TurnAtHead DEF QueueIn, ParkedAway
  <2>3. ASSUME NEW c \in Calls, ParkTurn(c)
        PROVE  park' # NoPark /\ park'.turn = Current /\ pc' = "settling"
    <3>1. park' = [turn |-> Current, call |-> c] /\ pc' = "settling"
      BY <2>2, <2>3 DEF ParkTurn, Settling
    <3> QED BY <2>2, <3>1 DEF NoPark, ConstantsAssumption
  <2>4. ~Answering'
    BY <1>b, <2>1 DEF Answering
  <2>5. Floor = Current
    BY <1>1 DEF Floor
  <2>6. Floor' = IF pc' \in Busy \/ \E c \in Calls : ParkTurn(c) THEN Current ELSE NoTurn
    <3>1. Current' = Current
      BY <2>1 DEF Current
    <3>2. CASE pc' \in Busy
      BY <3>1, <3>2 DEF Floor
    <3>3. CASE pc' \notin Busy /\ \E c \in Calls : ParkTurn(c)
      BY <2>3, <2>4, <3>3 DEF Floor
    <3>4. CASE pc' \notin Busy /\ ~(\E c \in Calls : ParkTurn(c))
      BY <2>1, <2>2, <2>4, <3>4 DEF Floor
    <3> QED BY <3>2, <3>3, <3>4
  <2>7. /\ ~RefuseOverPark /\ ~CancelEarly /\ ~RunNote /\ ~ResetFails /\ ~Settle /\ ~OpenTurn
        /\ ~RunReset
    BY <1>1, <1>b DEF RefuseOverPark, CancelEarly, RunNote, ResetFails, Settle, OpenTurn, RunReset,
                      TurnBegins, AtHead
  <2> QED BY <1>1, <2>4, <2>5, <2>6, <2>7
<1>2. ASSUME pc \notin Busy, pc' \notin Busy, ~Answering, ~Answering'
      PROVE  park' = park => Floor' = Floor
  BY <1>2 DEF Floor
<1>3. CASE RefuseOverPark \/ CancelEarly
  <2>1. /\ pc = "idle" /\ pc' = "settling" /\ park' = park /\ inbox # << >>
        /\ Head(inbox).kind = "turn" \/ cancels # {}
    BY <1>3 DEF RefuseOverPark, CancelEarly, TurnBegins, AtHead, MustRefuse
  <2>2. ~Answering /\ ~Answering'
    BY <1>c, <2>1 DEF AnswerUncancelled, Answering
  <2>3. ~OpenTurn /\ ~RunReset
    BY <2>1 DEF OpenTurn, RunReset
  <2> QED BY <1>b, <1>2, <2>1, <2>2, <2>3
<1>4. CASE RunNote \/ ResetFails \/ RunReset
  <2>1. /\ pc = "idle" /\ pc' = "idle" /\ inbox # << >> /\ inbox' = Tail(inbox)
        /\ Head(inbox).kind \in {"note", "reset"}
    BY <1>4 DEF RunNote, RunReset, ResetFails, AtHead
  <2>2. ~Answering /\ ~Answering'
    <3>1. NoAnswer(Tail(inbox), "idle")
      BY <1>a, <2>1, NoAnswerBehind
    <3> QED BY <1>c, <2>1, <3>1 DEF NoAnswer, Answering
  <2>3. RunNote \/ ResetFails => park' = park
    BY DEF RunNote, ResetFails
  <2>4. RunReset => Floor' = NoTurn
    <3>1. RunReset => park' = NoPark
      BY DEF RunReset
    <3> QED BY <1>b, <2>1, <2>2, <3>1 DEF Floor
  <2>5. ~OpenTurn
    BY <2>1 DEF OpenTurn, TurnBegins, AtHead
  <2>6. ~RefuseOverPark /\ ~CancelEarly /\ ~Settle
    BY <2>1 DEF RefuseOverPark, CancelEarly, Settle
  <2> QED BY <1>b, <1>2, <2>1, <2>2, <2>3, <2>4, <2>5, <2>6
<1>5. CASE OpenTurn
  <2>1. /\ pc = "idle" /\ pc' = "loop" /\ inbox # << >> /\ inbox' = inbox
    BY <1>5 DEF OpenTurn, TurnBegins, AtHead
  <2>2. park = NoPark
    BY <1>5, OpensUnparked
  <2>3. Floor' = Current /\ ~Answering' /\ Current' = Current /\ pc' \in Busy
    BY <2>1 DEF Floor, Busy, Current, Answering
  <2>4. Floor = IF Head(inbox).kind = "resume" THEN Current ELSE NoTurn
    BY <1>b, <1>c, <1>d, <2>1, <2>2 DEF Floor
  <2>5. ~RefuseOverPark /\ ~CancelEarly /\ ~Settle /\ ~RunNote /\ ~ResetFails /\ ~RunReset
    BY <2>1 DEF RefuseOverPark, CancelEarly, Settle, RunNote, ResetFails, RunReset, AtHead
  <2> QED BY <1>b, <2>1, <2>3, <2>4, <2>5
<1>6. CASE Settle
  <2>1. /\ pc = "settling" /\ pc' = "idle" /\ held' = HeldWithout(Current)
        /\ inbox' = Drained(Tail(inbox), held') /\ UNCHANGED park
    BY <1>6 DEF Settle
  <2>2. inbox # << >> /\ InboxGood(Tail(inbox), "idle") /\ held' \in Seq(Turns)
    BY <1>a, <2>1, TurnAtHead, InboxTail, HeldWithoutType DEF TypeInv
  <2>3. NoAnswer(Drained(Tail(inbox), held'), "idle")
    BY <1>a, <2>2, NoAnswerBehind, AnswerNotQueued
  <2>4. ~Answering /\ ~Answering'
    BY <2>1, <2>3 DEF NoAnswer, Answering
  <2>5. ~OpenTurn /\ ~RunReset
    BY <2>1 DEF OpenTurn, RunReset, TurnBegins, AtHead
  <2> QED BY <1>b, <1>2, <2>1, <2>4, <2>5
<1>7. pc \in Busy \/ RefuseOverPark \/ CancelEarly \/ OpenTurn \/ RunNote \/ RunReset \/ ResetFails \/ Settle
  BY DEF Engine, Busy, Complete, CancelToolBatch, ReleaseHeldNotes, CancelBeforeModel, AskModel,
         ModelCancelled, ModelFails, ModelReplies, FatalTool, LocalTool, LocalToolThrows, RemoteTool,
         RemoteReturns, RemoteThrows, RequestInput, ParkTurn, Owing, NotOwing, RunsTool, InTool
<1> QED BY <1>1, <1>3, <1>4, <1>5, <1>6, <1>7
-----------------------------------------------------------------------------
(* The transcript: whoever has the floor opened last and spoke last, and   *)
(* nobody else owes a result.                                              *)

FloorIn(l, t) ==
    /\ t # NoTurn => OpenedLast(l, t) /\ LastBy(l, t)
    /\ Owes(l, Turns \ {t}) = {}

FloorKept == FloorIn(log, Floor)

ModelAsked == pc = "model" => Owes(log, Turns) = {} /\ ~FinalIn(log)

\* A turn owes calls of the latest reply.
LEMMA OwedCalls ==
    ASSUME NEW l \in Seq(Message), NEW ts, NEW c \in Owes(l, ts)
    PROVE  c \in CallsOf(l[LastReply(l, Len(l))])
<1>1. PICK at \in 1..Len(l) : IsLatestReply(l, at, Len(l)) /\ c \in CallsOf(l[at])
  BY DEF Owes, OwedIn
<1>2. LastReply(l, Len(l)) \in 1..Len(l) /\ IsLatestReply(l, LastReply(l, Len(l)), Len(l))
  BY <1>1 DEF LastReply, IsLatestReply
<1>3. at = LastReply(l, Len(l))
  <2>1. Len(l) \in Nat
    BY LenProperties
  <2> HIDE DEF LastReply
  <2> QED BY <1>1, <1>2, <2>1 DEF IsLatestReply
<1> QED BY <1>1, <1>3

LEMMA NobodyOwes ==
    ASSUME ConstantsAssumption, NEW l, Owes(l, Turns) = {}
    PROVE  \A ts : ts \subseteq Turns => Owes(l, ts) = {}
BY OwesLess

\* A cancelled batch owes nothing any more.
LEMMA BatchClosed ==
    ASSUME ConstantsAssumption, TypeInv, CancelToolBatch,
           Owes(log, Turns \ {Current}) = {}, CleanIn(log)
    PROVE  Owes(log', Turns) = {} /\ CleanIn(log')
<1>a. log \in Seq(Message) /\ TypeOK
  BY DEF TypeInv, TypeOK
<1>1. PICK results \in Seq(Message), i \in 1..Len(log[BatchAt].calls) :
                 /\ IsFirstOwed(Current, i)
                 /\ log' = log \o results
                 /\ \A k \in 1..Len(results) : /\ results[k].role = "tool"
                                                /\ results[k].turn = Current
                 /\ \A j \in i..Len(log[BatchAt].calls) :
                       \E k \in 1..Len(results) : results[k].call = log[BatchAt].calls[j]
  BY CancelledResults
<1> DEFINE calls == log[BatchAt].calls
<1>2. /\ CleanIn(log) => CleanIn(log')
      /\ Owes(log', Turns) = Owes(log, Turns) \ CallsIn(results)
  <2>1. \A k \in 1..Len(results) : results[k].role = "tool" /\ results[k].turn = Current
    BY <1>1
  <2>2. /\ CleanIn(log) => CleanIn(log \o results)
        /\ \A ts : Owes(log \o results, ts) = Owes(log, ts) \ CallsIn(results)
    BY <1>a, <2>1, ResultsAdded
  <2> QED BY <1>1, <2>2
<1>3. calls \in Seq(Calls) /\ DOMAIN calls = 1..Len(calls) /\ Len(calls) \in Nat
  <2>1. OwedBy({Current}, Len(log)) # {}
    BY DEF CancelToolBatch, Owing, UnansweredCalls
  <2>2. calls \in Seq(Calls)
    BY <1>a, <2>1, OwedHasBatch DEF ConstantsAssumption
  <2> QED BY <2>2, LenProperties
<1>4. \A c \in Owes(log, {Current}) : c \in CallsIn(results)
  <2> SUFFICES ASSUME NEW c \in Owes(log, {Current}) PROVE c \in CallsIn(results)
    OBVIOUS
  <2>1. c \in CallsOf(log[BatchAt])
    BY <1>a, OwedCalls, ReadsOfLog
  <2>2. PICK j \in 1..Len(calls) : calls[j] = c
    BY <1>3, <2>1 DEF CallsOf
  <2>3. c \in UnansweredCalls(Current)
    BY <1>a, ReadsOfLog
  <2>4. ~(j \in 1..i-1)
    BY <1>1, <2>2, <2>3 DEF IsFirstOwed
  <2>5. j \in i..Len(calls)
    BY <1>1, <1>3, <2>2, <2>4
  <2> QED BY <1>1, <2>2, <2>5 DEF CallsIn
<1>5. Owes(log, Turns) \subseteq Owes(log, {Current}) \cup Owes(log, Turns \ {Current})
  BY DEF Owes, OwedIn
<1> QED BY <1>2, <1>4, <1>5

\* An opening brings the notes that waited, if nothing is owed.
LEMMA OpeningNotes ==
    ASSUME ConstantsAssumption, TypeInv, OpenTurn
    PROVE  \E mid \in Seq(Message) :
              /\ AddsNotes(log, mid)
              /\ mid = log \/ Owes(log, Turns) = {}
              /\ OpeningMsg(Current) \in Message
              /\ log' = IF HasOpeningMessage(Current) THEN mid
                        ELSE Append(mid, OpeningMsg(Current))
<1> DEFINE mid == log \o Notes(Released)
<1>1. log \in Seq(Message) /\ Released \in Nat /\ (Released = 0 \/ Owes(log, Turns) = {})
  BY ReadsOfLog DEF TypeInv, TypeOK, Released
<1>2. AddsNotes(log, mid)
  BY <1>1, NotesAdded
<1>3. mid \in Seq(Message)
  BY <1>2 DEF AddsNotes, IsPrefixOf
<1>4. OpeningMsg(Current) \in Message
  BY TurnAtHead DEF OpenTurn, OpeningMsg, Message, ConstantsAssumption
<1>5. log' = mid \o Opening(Current)
  BY DEF OpenTurn
<1>6. Released = 0 => mid = log
  <2>1. Notes(0) = << >>
    <3>1. Len(Notes(0)) = 0 /\ Notes(0) \in Seq(Message)
      <4>1. Len(Notes(0)) = 0
        BY DEF Notes
      <4> QED BY <4>1, NotesType
    <3> QED BY <3>1, EmptySeq
  <2> QED BY <1>1, <2>1, ConcatEmptySeq
<1> HIDE DEF mid
<1>7. CASE HasOpeningMessage(Current)
  BY <1>1, <1>2, <1>3, <1>4, <1>5, <1>6, <1>7, ConcatEmptySeq DEF Opening
<1>8. CASE ~HasOpeningMessage(Current)
  <2>1. Append(mid, OpeningMsg(Current)) = mid \o <<OpeningMsg(Current)>>
    BY <1>3, <1>4, AppendIsConcat
  <2> QED BY <1>1, <1>2, <1>3, <1>4, <1>5, <1>6, <1>8, <2>1 DEF Opening
<1> QED BY <1>7, <1>8

LEMMA OpeningFloor ==
    ASSUME ConstantsAssumption, TypeInv, Queued, ParkIsStatus, AnswerUncancelled,
           FloorKept, CleanIn(log), OpenTurn
    PROVE  FloorIn(log', Current) /\ CleanIn(log')
<1>a. Current \in Turns /\ Current # NoTurn /\ log \in Seq(Message) /\ TypeOK
  <2>1. Current \in Turns
    BY TurnAtHead DEF OpenTurn
  <2> QED BY <2>1 DEF TypeInv, TypeOK, ConstantsAssumption
<1>1. Floor = IF Head(inbox).kind = "resume" THEN Current ELSE NoTurn
  BY EngineFloor DEF Engine
<1>2. PICK mid \in Seq(Message) :
              /\ AddsNotes(log, mid)
              /\ mid = log \/ Owes(log, Turns) = {}
              /\ OpeningMsg(Current) \in Message
              /\ log' = IF HasOpeningMessage(Current) THEN mid
                        ELSE Append(mid, OpeningMsg(Current))
  BY OpeningNotes
<1>3. /\ \A ts : Owes(mid, ts) = Owes(log, ts)
      /\ \A t : LastBy(log, t) => LastBy(mid, t)
      /\ \A t : OpenedLast(log, t) => OpenedLast(mid, t)
      /\ CleanIn(mid)
  BY <1>2, NotesChangeNothing
<1>4. CASE Head(inbox).kind = "resume"
  <2>1. FloorIn(log, Current)
    BY <1>1, <1>4 DEF FloorKept
  <2>2. HasOpeningMessage(Current)
    <3>1. PICK i \in 1..Len(log) : log[i].role = "user" /\ log[i].turn = Current
      BY <1>a, <2>1 DEF FloorIn, OpenedLast
    <3> QED BY <1>a, <3>1, LenProperties DEF HasOpeningMessage
  <2> QED BY <1>a, <1>2, <1>3, <2>1, <2>2 DEF FloorIn
<1>5. CASE Head(inbox).kind # "resume"
  <2>1. Owes(log, Turns) = {}
    <3>1. Turns \ {NoTurn} = Turns
      BY DEF ConstantsAssumption
    <3> QED BY <1>1, <1>5, <3>1 DEF FloorKept, FloorIn
  <2>2. ~HasOpeningMessage(Current)
    <3>1. /\ pc = "idle" /\ Head(inbox).kind = "turn" /\ 1 \in 1..Len(inbox) /\ Head(inbox) = inbox[1]
      BY <1>5, LenProperties, EmptySeq, SMTT(20) DEF OpenTurn, TurnBegins, AtHead, TypeInv, TypeOK
    <3>2. Current \notin OpenedIn(log)
      BY <3>1 DEF Queued, QueueIn, Unopened, Current
    <3> QED BY <1>a, <3>2, ReadsOfLog
  <2> DEFINE x == OpeningMsg(Current)
  <2>3. log' = Append(mid, x) /\ x.role = "user" /\ x.turn = Current /\ x \in Message
    BY <1>2, <2>2 DEF OpeningMsg
  <2> HIDE DEF x
  <2>4. /\ \A ts : Owes(log', ts) = Owes(mid, ts)
        /\ OpenedLast(log', Current)
    BY <2>3, OpeningAdded
  <2>5. LastBy(log', Current) /\ CleanIn(log')
    BY <1>3, <2>1, <2>3, OneMore
  <2>6. Owes(log', Turns \ {Current}) = {}
    BY <1>3, <2>1, <2>4, NobodyOwes
  <2> QED BY <2>4, <2>5, <2>6 DEF FloorIn
<1> QED BY <1>4, <1>5

LEMMA ResultFloor ==
    ASSUME ConstantsAssumption, NEW l \in Seq(Message), NEW t \in Turns, NEW c \in Calls,
           FloorIn(l, t), CleanIn(l)
    PROVE  FloorIn(Append(l, ResultMsg(t, c)), t) /\ CleanIn(Append(l, ResultMsg(t, c)))
<1> DEFINE x == ResultMsg(t, c)
           m == Append(l, x)
<1>1. x \in Message /\ x.role = "tool" /\ x.turn = t /\ x.role # "user" /\ t # NoTurn
  BY DEF ResultMsg, Message, ConstantsAssumption
<1> HIDE DEF x
<1>2. GrowsSilently(l, m)
  BY <1>1, AppendIsSilent
<1>3. OpenedLast(m, t)
  BY <1>1, <1>2, SilenceOpensNothing DEF FloorIn
<1>4. LastBy(m, t) /\ CleanIn(m)
  BY <1>1, OneMore
<1>5. Owes(m, Turns \ {t}) = {}
  <2> DEFINE s == <<x>>
  <2>1. s \in Seq(Message) /\ Len(s) = 1 /\ s[1] = x
    BY <1>1
  <2>2. m = l \o s
    BY <1>1, AppendIsConcat
  <2>3. \A k \in 1..Len(s) : s[k].role = "tool" /\ s[k].turn = t
    BY <1>1, <2>1
  <2> HIDE DEF s, m
  <2>4. \A ts : Owes(l \o s, ts) = Owes(l, ts) \ CallsIn(s)
    BY <2>1, <2>3, ResultsAdded
  <2> QED BY <2>2, <2>4 DEF FloorIn
<1> QED BY <1>3, <1>4, <1>5 DEF FloorIn, x

LEMMA ReplyFloor ==
    ASSUME ConstantsAssumption, NEW l \in Seq(Message), NEW t \in Turns, NEW b \in Batches,
           FloorIn(l, t), CleanIn(l), Owes(l, Turns) = {}
    PROVE  FloorIn(Append(l, ReplyMsg(t, b)), t) /\ CleanIn(Append(l, ReplyMsg(t, b)))
<1> DEFINE x == ReplyMsg(t, b)
           m == Append(l, x)
<1>1. x \in Message /\ x.role = "assistant" /\ x.turn = t /\ t # NoTurn
  BY DEF ReplyMsg, Message, ConstantsAssumption
<1> HIDE DEF x
<1>2. GrowsSilently(l, m)
  BY <1>1, AppendIsSilent
<1>3. OpenedLast(m, t)
  BY <1>1, <1>2, SilenceOpensNothing DEF FloorIn
<1>4. LastBy(m, t) /\ CleanIn(m)
  BY <1>1, OneMore
<1>5. Owes(m, Turns \ {t}) = {}
  BY <1>1, ReplyAdded
<1> QED BY <1>3, <1>4, <1>5 DEF FloorIn, x

\* A turn that ends, and did not park, leaves the floor: it owes nothing.
LEMMA LoopFloor ==
    ASSUME ConstantsAssumption, TypeInv, FloorIn(log, Current), ModelAsked, CleanIn(log),
           \/ Complete \/ CancelToolBatch \/ ReleaseHeldNotes \/ CancelBeforeModel
           \/ AskModel \/ ModelCancelled \/ ModelFails
    PROVE  /\ FloorIn(log', IF pc' \in Busy THEN Current ELSE NoTurn) /\ CleanIn(log')
           /\ pc' = "model" => Owes(log', Turns) = {} /\ ~FinalIn(log')
<1> USE DEF store, steps
<1>a. /\ log \in Seq(Message) /\ TypeOK /\ Current \in Turns /\ Owes(log, Turns \ {Current}) = {}
      /\ Turns \ {NoTurn} = Turns
  <2>1. Current \in Turns
    BY TurnAtHead
       DEF Complete, CancelToolBatch, ReleaseHeldNotes, CancelBeforeModel, AskModel, ModelCancelled,
           ModelFails, Owing, NotOwing
  <2>2. log \in Seq(Message) /\ TypeOK
    BY DEF TypeInv, TypeOK
  <2>3. Turns \ {NoTurn} = Turns
    BY DEF ConstantsAssumption
  <2>4. Owes(log, Turns \ {Current}) = {}
    BY DEF FloorIn
  <2> QED BY <2>1, <2>2, <2>3, <2>4
<1>b. NotOwing => Owes(log, Turns) = {} /\ ~FinalIn(log)
  <2> SUFFICES ASSUME NotOwing PROVE Owes(log, Turns) = {} /\ ~FinalIn(log)
    OBVIOUS
  <2>1. Owes(log, {Current}) = {} /\ ~FinalIn(log)
    BY <1>a, ReadsOfLog DEF NotOwing
  <2> QED BY <1>a, <2>1, OwesSplit
<1>c. Owes(log', Turns) = {} => FloorIn(log', NoTurn)
  BY <1>a DEF FloorIn
<1>1. CASE Complete
  <2>1. FinalIn(log) /\ log' = log /\ pc' = "settling"
    BY <1>1, <1>a, ReadsOfLog DEF Complete, Settling
  <2>2. Owes(log, Turns) = {}
    BY <1>a, <2>1, FinalOwesNothing
  <2> QED BY <1>c, <2>1, <2>2 DEF Busy
<1>2. CASE CancelToolBatch
  <2>1. Owes(log', Turns) = {} /\ CleanIn(log')
    BY <1>2, <1>a, BatchClosed
  <2>2. pc' = "settling"
    BY <1>2 DEF CancelToolBatch, Settling
  <2> QED BY <1>c, <2>1, <2>2 DEF Busy
<1>3. CASE ReleaseHeldNotes
  <2>1. log' = log \o Notes(heldNotes) /\ heldNotes \in Nat /\ pc' = "loop" /\ NotOwing
    BY <1>3, <1>a DEF ReleaseHeldNotes, TypeOK, NotOwing
  <2>2. AddsNotes(log, log')
    BY <1>a, <2>1, NotesAdded
  <2>3. FloorIn(log', Current) /\ CleanIn(log')
    BY <1>b, <2>1, <2>2, NotesChangeNothing DEF FloorIn
  <2> QED BY <2>1, <2>3 DEF Busy
<1>4. CASE CancelBeforeModel
  BY <1>4, <1>b, <1>c DEF CancelBeforeModel, Settling, Busy
<1>5. CASE AskModel
  BY <1>5, <1>b DEF AskModel, Busy
<1>6. CASE ModelCancelled \/ ModelFails
  <2>1. log' = log /\ pc = "model" /\ pc' = "settling"
    BY <1>6 DEF ModelCancelled, ModelFails, Settling
  <2> QED BY <1>c, <2>1 DEF ModelAsked, Busy
<1> QED BY <1>1, <1>2, <1>3, <1>4, <1>5, <1>6

\* A tool, or a reply: the turn keeps the floor.
LEMMA ToolFloor ==
    ASSUME ConstantsAssumption, Calm, TypeInv, FloorIn(log, Current), ModelAsked, CleanIn(log),
           \/ \E c \in Calls :
                 \/ FatalTool(c) \/ LocalTool(c) \/ LocalToolThrows(c) \/ RemoteTool(c)
                 \/ RemoteReturns(c) \/ RemoteThrows(c) \/ RequestInput(c) \/ ParkTurn(c)
           \/ \E b \in Batches : ModelReplies(b)
    PROVE  /\ pc' \in Busy \/ \E c \in Calls : ParkTurn(c)
           /\ FloorIn(log', Current) /\ CleanIn(log') /\ pc' # "model"
<1> USE DEF store
<1>a. log \in Seq(Message)
  BY DEF TypeInv, TypeOK
<1>b. pc # "idle" => Current \in Turns
  BY TurnAtHead
<1>1. ASSUME NEW c \in Calls, RemoteTool(c) \/ RequestInput(c) \/ ParkTurn(c)
      PROVE  /\ pc' \in Busy \/ ParkTurn(c)
             /\ log' = log /\ pc' # "model"
  BY <1>1 DEF RemoteTool, RequestInput, ParkTurn, Settling, Busy
<1>2. ASSUME NEW c \in Calls,
             LocalTool(c) \/ LocalToolThrows(c) \/ RemoteReturns(c) \/ RemoteThrows(c)
      PROVE  /\ pc' \in Busy /\ pc' # "model"
             /\ FloorIn(log', Current) /\ CleanIn(log')
  <2>1. Current \in Turns
    BY <1>2, <1>b DEF LocalTool, LocalToolThrows, RemoteReturns, RemoteThrows, RunsTool, InTool, Owing
  <2>2. log' = Append(log, ResultMsg(Current, c)) /\ pc' = "loop"
    BY <1>2 DEF LocalTool, LocalToolThrows, RemoteReturns, RemoteThrows, Record
  <2>3. FloorIn(log', Current) /\ CleanIn(log')
    BY <1>a, <2>1, <2>2, ResultFloor
  <2> QED BY <2>2, <2>3 DEF Busy
<1>3. ASSUME NEW b \in Batches, ModelReplies(b)
      PROVE  /\ pc' \in Busy /\ pc' # "model"
             /\ FloorIn(log', Current) /\ CleanIn(log')
  <2>1. Current \in Turns /\ Owes(log, Turns) = {}
    BY <1>3, <1>b DEF ModelReplies, ModelAsked
  <2>2. log' = Append(log, ReplyMsg(Current, b)) /\ pc' = "loop"
    BY <1>3 DEF ModelReplies
  <2>3. FloorIn(log', Current) /\ CleanIn(log')
    BY <1>a, <2>1, <2>2, ReplyFloor
  <2> QED BY <2>2, <2>3 DEF Busy
<1>4. ASSUME NEW c \in Calls
      PROVE  ~FatalTool(c)
  BY DEF FatalTool, Calm
<1> QED BY <1>1, <1>2, <1>3, <1>4

LEMMA EngineKeepsFloor ==
    ASSUME ConstantsAssumption, Calm, TypeInv, Queued, ParkIsStatus, AnswerUncancelled,
           FloorKept, ModelAsked, CleanIn(log), Engine
    PROVE  FloorKept' /\ ModelAsked' /\ CleanIn(log')
<1> USE DEF store, steps
<1>a. log \in Seq(Message) /\ TypeOK /\ ("model" \in Busy /\ "settling" \notin Busy)
  BY DEF TypeInv, TypeOK, Busy
<1>1. CASE pc \in Busy
  <2>1. /\ Floor = Current
        /\ Floor' = IF pc' \in Busy \/ \E c \in Calls : ParkTurn(c) THEN Current ELSE NoTurn
    BY <1>1, EngineFloor
  <2>2. FloorIn(log, Current)
    BY <2>1 DEF FloorKept
  <2>3. CASE \/ Complete \/ CancelToolBatch \/ ReleaseHeldNotes \/ CancelBeforeModel
             \/ AskModel \/ ModelCancelled \/ ModelFails
    <3>1. ~(\E c \in Calls : ParkTurn(c)) \/ (log' = log /\ pc' = "settling" /\ \E c \in Calls : ParkTurn(c))
      BY DEF ParkTurn, Settling
    <3>2. Floor' = (IF pc' \in Busy THEN Current ELSE NoTurn) \/ (log' = log /\ pc' = "settling" /\ Floor' = Current)
      BY <2>1, <3>1
    <3>3. /\ FloorIn(log', IF pc' \in Busy THEN Current ELSE NoTurn) /\ CleanIn(log')
          /\ pc' = "model" => Owes(log', Turns) = {} /\ ~FinalIn(log')
      BY <2>2, <2>3, LoopFloor
    <3>4. FloorIn(log', Floor')
      BY <2>2, <3>2, <3>3
    <3> QED BY <3>3, <3>4 DEF FloorKept, ModelAsked
  <2>4. CASE \/ \E c \in Calls :
                 \/ FatalTool(c) \/ LocalTool(c) \/ LocalToolThrows(c) \/ RemoteTool(c)
                 \/ RemoteReturns(c) \/ RemoteThrows(c) \/ RequestInput(c) \/ ParkTurn(c)
             \/ \E b \in Batches : ModelReplies(b)
    <3>1. /\ pc' \in Busy \/ \E c \in Calls : ParkTurn(c)
          /\ FloorIn(log', Current) /\ CleanIn(log') /\ pc' # "model"
      BY <2>2, <2>4, ToolFloor
    <3> QED BY <2>1, <3>1 DEF FloorKept, ModelAsked
  <2>5. /\ ~RefuseOverPark /\ ~CancelEarly /\ ~RunNote /\ ~ResetFails /\ ~Settle /\ ~OpenTurn
        /\ ~RunReset
    BY <1>1 DEF RefuseOverPark, CancelEarly, RunNote, ResetFails, Settle, OpenTurn, RunReset,
                TurnBegins, AtHead, Busy
  <2> QED BY <2>3, <2>4, <2>5 DEF Engine
<1>2. CASE RefuseOverPark \/ CancelEarly \/ ResetFails \/ Settle
  <2>1. log' = log
    BY <1>2 DEF RefuseOverPark, CancelEarly, ResetFails, Settle
  <2>2. Floor' = Floor /\ pc' \notin Busy
    BY <1>2, EngineFloor
  <2> QED BY <1>a, <2>1, <2>2 DEF FloorKept, ModelAsked
<1>3. CASE RunNote
  <2>1. Floor' = Floor /\ pc' \notin Busy
    BY <1>3, EngineFloor
  <2>2. log' = log \/ (log' = Append(log, NoteMsg) /\ Owes(log, Turns) = {})
    BY <1>3, <1>a, ReadsOfLog DEF RunNote
  <2>3. CASE log' = log
    BY <1>a, <2>1, <2>3 DEF FloorKept, ModelAsked
  <2>4. CASE log' = Append(log, NoteMsg) /\ Owes(log, Turns) = {}
    <3>1. AddsNotes(log, log')
      <4>1. 0 \in Nat
        OBVIOUS
      <4> QED BY <1>a, <2>4, <4>1, NotesAdded
    <3>2. /\ \A ts : Owes(log', ts) = Owes(log, ts)
          /\ \A t : LastBy(log, t) => LastBy(log', t)
          /\ \A t : OpenedLast(log, t) => OpenedLast(log', t)
          /\ CleanIn(log')
      BY <2>4, <3>1, NotesChangeNothing
    <3> QED BY <1>a, <2>1, <3>2 DEF FloorKept, FloorIn, ModelAsked
  <2> QED BY <2>2, <2>3, <2>4
<1>4. CASE RunReset
  <2>1. Floor' = NoTurn /\ pc' \notin Busy
    BY <1>4, EngineFloor
  <2>2. log' = << >>
    BY <1>4 DEF RunReset
  <2>3. Owes(<< >>, Turns \ {NoTurn}) = {} /\ CleanIn(<< >>)
    BY DEF Owes, OwedIn, CleanIn
  <2> QED BY <1>a, <2>1, <2>2, <2>3 DEF FloorKept, FloorIn, ModelAsked
<1>5. CASE OpenTurn
  <2>1. Floor' = Current /\ pc' = "loop"
    BY <1>5, EngineFloor DEF OpenTurn
  <2>2. FloorIn(log', Current) /\ CleanIn(log')
    BY <1>5, OpeningFloor
  <2> QED BY <2>1, <2>2 DEF FloorKept, ModelAsked
<1>6. pc \in Busy \/ RefuseOverPark \/ CancelEarly \/ OpenTurn \/ RunNote \/ RunReset \/ ResetFails \/ Settle
  BY DEF Engine, Busy, Complete, CancelToolBatch, ReleaseHeldNotes, CancelBeforeModel, AskModel,
         ModelCancelled, ModelFails, ModelReplies, FatalTool, LocalTool, LocalToolThrows, RemoteTool,
         RemoteReturns, RemoteThrows, RequestInput, ParkTurn, Owing, NotOwing, RunsTool, InTool
<1> QED BY <1>1, <1>2, <1>3, <1>4, <1>5, <1>6
-----------------------------------------------------------------------------
(* The park.  The call that asked is the next one owed, and its answer can *)
(* be stored.                                                              *)

ParkWaits ==
    /\ park # NoPark => /\ NextIn(log, park.turn, park.call)
                        /\ <<park.turn, park.call>> \notin answers
    /\ pc = "parking" => \A c \in Calls : NextIn(log, Current, c) => <<Current, c>> \notin answers

LEMMA EngineKeepsPark ==
    ASSUME ConstantsAssumption, TypeInv, Queued, ParkIsStatus, ParkWaits, Engine
    PROVE  ParkWaits'
<1> USE DEF store, steps
<1>a. log \in Seq(Message) /\ TypeOK
  BY DEF TypeInv, TypeOK
<1>b. "idle" \notin Busy /\ "settling" \notin Busy /\ "parking" \in Busy
  BY DEF Busy
<1>1. CASE pc \in Busy
  <2>1. /\ answers' = answers /\ Current' = Current
        /\ UNCHANGED park \/ (\E c \in Calls : ParkTurn(c))
    BY <1>1, BusySteps DEF Current
  <2>2. park = NoPark
    BY <1>1 DEF Queued, QueueIn, ParkedAway
  <2>3. ASSUME NEW c \in Calls, ParkTurn(c)
        PROVE  ParkWaits'
    <3>1. /\ log' = log /\ pc = "parking" /\ pc' = "settling" /\ NextIn(log, Current, c)
          /\ park' = [turn |-> Current, call |-> c]
      BY <1>a, <2>2, <2>3, ReadsOfLog DEF ParkTurn, Settling
    <3>2. <<Current, c>> \notin answers /\ park'.turn = Current /\ park'.call = c
      BY <3>1 DEF ParkWaits
    <3> QED BY <2>1, <3>1, <3>2 DEF ParkWaits
  <2>4. ASSUME NEW c \in Calls, RequestInput(c)
        PROVE  ParkWaits'
    <3>1. /\ UNCHANGED <<log, park>> /\ NextIn(log, Current, c) /\ <<Current, c>> \notin answers
      BY <1>a, <2>4, ReadsOfLog DEF RequestInput, InTool, IsAnswered
    <3>2. \A d \in Calls : NextIn(log, Current, d) => d = c
      BY <1>a, <3>1, NextIsOne
    <3> QED BY <2>1, <2>2, <3>1, <3>2 DEF ParkWaits
  <2>5. ASSUME ~(\E c \in Calls : ParkTurn(c)), ~(\E c \in Calls : RequestInput(c))
        PROVE  pc' # "parking"
    <3>1. ASSUME NEW c \in Calls, \/ FatalTool(c) \/ LocalTool(c) \/ LocalToolThrows(c) \/ RemoteTool(c)
                                  \/ RemoteReturns(c) \/ RemoteThrows(c)
          PROVE  pc' # "parking"
      BY <3>1 DEF FatalTool, LocalTool, LocalToolThrows, RemoteTool, RemoteReturns, RemoteThrows, Record
    <3>2. ASSUME NEW b \in Batches, ModelReplies(b)
          PROVE  pc' # "parking"
      BY <3>2 DEF ModelReplies
    <3>3. CASE \/ Complete \/ CancelToolBatch \/ ReleaseHeldNotes \/ CancelBeforeModel
               \/ AskModel \/ ModelCancelled \/ ModelFails
      BY <3>3 DEF Complete, CancelToolBatch, ReleaseHeldNotes, CancelBeforeModel, AskModel,
                  ModelCancelled, ModelFails, Settling, NotOwing
    <3>4. CASE \/ RefuseOverPark \/ CancelEarly \/ OpenTurn \/ RunNote \/ RunReset \/ ResetFails
               \/ Settle
      BY <1>1, <1>b, <3>4 DEF RefuseOverPark, CancelEarly, OpenTurn, RunNote, RunReset, ResetFails, Settle,
                  TurnBegins, AtHead
    <3> QED BY <2>5, <3>1, <3>2, <3>3, <3>4 DEF Engine
  <2>6. ASSUME ~(\E c \in Calls : ParkTurn(c)), ~(\E c \in Calls : RequestInput(c))
        PROVE  ParkWaits'
    BY <2>1, <2>2, <2>5, <2>6 DEF ParkWaits
  <2> QED BY <2>3, <2>4, <2>6
<1>2. CASE RefuseOverPark \/ CancelEarly \/ ResetFails \/ Settle
  <2>1. UNCHANGED <<log, park, answers>> /\ pc' # "parking"
    BY <1>2 DEF RefuseOverPark, CancelEarly, ResetFails, Settle, AtHead
  <2> QED BY <2>1 DEF ParkWaits
<1>3. CASE RunNote
  <2>1. UNCHANGED <<park, answers>> /\ pc' # "parking"
    BY <1>3 DEF RunNote, AtHead
  <2>2. park # NoPark => log' = log
    <3>1. park # NoPark => NextIn(log, park.turn, park.call) /\ park.turn \in Turns
      BY <1>a DEF ParkWaits, TypeOK, Park
    <3>2. park # NoPark => park.call \in Owes(log, Turns)
      BY <3>1, OwesLess DEF NextIn
    <3>3. park # NoPark => OwesToolResults
      BY <1>a, <3>2, ReadsOfLog
    <3> QED BY <1>3, <3>3 DEF RunNote
  <2> QED BY <2>1, <2>2 DEF ParkWaits
<1>4. CASE RunReset
  BY <1>4 DEF RunReset, ParkWaits, AtHead
<1>5. CASE OpenTurn
  <2>1. park' = NoPark /\ pc' = "loop"
    BY <1>5, OpensUnparked DEF OpenTurn
  <2> QED BY <2>1 DEF ParkWaits
<1>6. pc \in Busy \/ RefuseOverPark \/ CancelEarly \/ OpenTurn \/ RunNote \/ RunReset \/ ResetFails \/ Settle
  BY DEF Engine, Busy, Complete, CancelToolBatch, ReleaseHeldNotes, CancelBeforeModel, AskModel,
         ModelCancelled, ModelFails, ModelReplies, FatalTool, LocalTool, LocalToolThrows, RemoteTool,
         RemoteReturns, RemoteThrows, RequestInput, ParkTurn, Owing, NotOwing, RunsTool, InTool
<1> QED BY <1>1, <1>2, <1>3, <1>4, <1>5, <1>6
-----------------------------------------------------------------------------
(* The inductive invariant of a session left in peace.                     *)

CalmInv ==
    /\ TypeInv /\ CancelsOfRunning /\ Queued /\ ParkIsStatus
    /\ AnswerUncancelled /\ FloorKept /\ ModelAsked /\ CleanIn(log) /\ ParkWaits

LEMMA CalmInit == ConstantsAssumption /\ Init => CalmInv
<1> SUFFICES ASSUME ConstantsAssumption, Init PROVE CalmInv
  OBVIOUS
<1>1. /\ log = << >> /\ inbox = << >> /\ held = << >> /\ cancels = {} /\ park = NoPark
      /\ status = "new" /\ pc = "idle" /\ Len(<< >>) = 0 /\ "idle" \notin Busy
  BY DEF Init, Busy
<1>2. TypeInv
  BY TypeInit
<1>3. CancelsOfRunning /\ ParkIsStatus /\ AnswerUncancelled /\ ModelAsked /\ ParkWaits
  BY <1>1 DEF CancelsOfRunning, ParkIsStatus, AnswerUncancelled, ModelAsked, ParkWaits
<1>4. Owes(log, Turns \ {NoTurn}) = {} /\ CleanIn(log) /\ OpenedIn(log) = {} /\ TurnsOf(held) = {}
  BY <1>1 DEF Owes, OwedIn, CleanIn, OpenedIn, At, TurnsOf
<1>5. Floor = NoTurn
  BY <1>1 DEF Floor, Answering
<1>6. Queued
  BY <1>1, <1>4 DEF Queued, QueueIn, OnePerTurn, Delivered, HeldOnce, HeldFirst, Unopened, AnswerFirst,
                    ParkedAway
<1> QED BY <1>2, <1>3, <1>4, <1>5, <1>6 DEF CalmInv, FloorKept, FloorIn

LEMMA CallKeepsCalm ==
    ASSUME ConstantsAssumption, Calm, CalmInv, Call
    PROVE  AnswerUncancelled' /\ FloorKept' /\ ModelAsked' /\ CleanIn(log') /\ ParkWaits'
<1>a. "idle" \notin Busy
  BY DEF Busy
<1>0. /\ log' = log /\ pc' = pc
      /\ \/ /\ pc \in Busy /\ Head(inbox') = Head(inbox)
            /\ UNCHANGED <<park, answers>>
         \/ /\ pc = "idle" /\ ~Answering /\ ~Answering'
            /\ UNCHANGED <<park, answers>>
         \/ /\ pc = "idle" /\ ~Answering /\ Answering' /\ park # NoPark /\ park' = NoPark
            /\ Head(inbox').turn = park.turn /\ cancels' = {}
  BY CallShape DEF CalmInv
<1>1. ModelAsked' /\ CleanIn(log')
  BY <1>0 DEF CalmInv, ModelAsked
<1>2. CASE pc \in Busy /\ Head(inbox') = Head(inbox) /\ UNCHANGED <<park, answers>>
  <2>1. Current' = Current /\ ~Answering'
    BY <1>0, <1>2, <1>a DEF Current, Answering
  <2>2. Floor' = Floor
    BY <1>0, <1>2, <2>1 DEF Floor
  <2> QED BY <1>0, <1>1, <1>2, <2>1, <2>2 DEF CalmInv, AnswerUncancelled, FloorKept, ParkWaits
<1>3. CASE pc = "idle" /\ ~Answering /\ ~Answering' /\ UNCHANGED <<park, answers>>
  <2>1. Floor' = Floor
    BY <1>0, <1>3, <1>a DEF Floor
  <2> QED BY <1>0, <1>1, <1>3, <2>1 DEF CalmInv, AnswerUncancelled, FloorKept, ParkWaits
<1>4. CASE /\ pc = "idle" /\ ~Answering /\ Answering' /\ park # NoPark /\ park' = NoPark
           /\ Head(inbox').turn = park.turn /\ cancels' = {}
  <2>1. Floor = park.turn
    BY <1>4, <1>a DEF Floor
  <2>2. Floor' = park.turn
    BY <1>4 DEF Floor, Current
  <2> QED BY <1>0, <1>1, <1>4, <2>1, <2>2 DEF CalmInv, AnswerUncancelled, FloorKept, ParkWaits
<1> QED BY <1>0, <1>2, <1>3, <1>4

LEMMA CalmStep ==
    ASSUME ConstantsAssumption, Calm, CalmInv, [Next]_vars
    PROVE  CalmInv'
<1> USE DEF CalmInv
<1>1. TypeInv' /\ CancelsOfRunning'
  BY TypeStep, CancelsStep
<1>2. CASE Call
  <2>1. Queued' /\ ParkIsStatus'
    BY <1>1, <1>2, CallQueue
  <2> QED BY <1>1, <1>2, <2>1, CallKeepsCalm
<1>3. CASE Engine
  <2>1. Queued' /\ ParkIsStatus'
    BY <1>3, EngineQueue
  <2>2. AnswerUncancelled'
    BY <1>3, EngineFloor DEF AnswerUncancelled
  <2>3. FloorKept' /\ ModelAsked' /\ CleanIn(log')
    BY <1>3, EngineKeepsFloor
  <2>4. ParkWaits'
    BY <1>3, EngineKeepsPark
  <2> QED BY <1>1, <2>1, <2>2, <2>3, <2>4
<1>4. CASE Rest \/ UNCHANGED vars
  <2>1. UNCHANGED <<log, answers, park, status, held, inbox, cancels, pc, used>>
    BY <1>4 DEF Rest, vars, store, steps, actor
  <2>2. Queued' /\ ParkIsStatus'
    BY <2>1 DEF Queued, DeliveredTurns, ParkIsStatus
  <2>3. Current' = Current /\ Answering' = Answering
    BY <2>1 DEF Current, Answering
  <2>4. Floor' = Floor
    BY <2>1, <2>3 DEF Floor
  <2>5. AnswerUncancelled' /\ FloorKept' /\ ModelAsked' /\ CleanIn(log')
    BY <2>1, <2>3, <2>4 DEF AnswerUncancelled, FloorKept, ModelAsked
  <2>6. ParkWaits'
    BY <2>1, <2>3 DEF ParkWaits
  <2> QED BY <1>1, <2>2, <2>5, <2>6
<1>5. ~Crash
  <2>1. used.crashes \in Nat
    BY DEF TypeInv, TypeOK
  <2> QED BY <2>1 DEF Crash, Within, Calm
<1> QED BY <1>2, <1>3, <1>4, <1>5 DEF Next

\* What the model API demands of a transcript: once a reply makes calls nothing
\* but their results comes next (a note waits, another turn cannot open), and
\* the model is not asked while a result is missing, whatever fails, is
\* cancelled, parked and answered (cancelToolBatch, the held notes, the parked
\* turn that keeps the session).
THEOREM TranscriptIsClean ==
    ASSUME Calm
    PROVE  Spec => []ProviderClean
<1>1. Init => CalmInv
  BY ConstantsAssumption, CalmInit
<1>2. CalmInv /\ [Next]_vars => CalmInv'
  BY ConstantsAssumption, CalmStep
<1>3. CalmInv => ProviderClean
  BY ReadsOfLog DEF CalmInv, TypeInv, CleanIn, ModelAsked, ProviderClean
<1> QED BY <1>1, <1>2, <1>3, PTL DEF Spec

\* While the engine rests, "suspended" and the checkpoint agree, the parked call
\* is the next one owed and its answer can still be stored: an answer always
\* continues the turn where it stopped.
THEOREM ParksCanResume ==
    ASSUME Calm
    PROVE  Spec => []ParkIsResumable
<1>1. Init => CalmInv
  BY ConstantsAssumption, CalmInit
<1>2. CalmInv /\ [Next]_vars => CalmInv'
  BY ConstantsAssumption, CalmStep
<1>3. CalmInv => ParkIsResumable
  BY ReadsOfLog DEF CalmInv, TypeInv, ParkIsStatus, ParkWaits, ParkIsResumable
<1> QED BY <1>1, <1>2, <1>3, PTL DEF Spec

\* A turn that completes returns its own reply: the last message that is no note
\* is one of the turn that has the floor.
THEOREM TurnsReturnTheirReplies ==
    ASSUME Calm
    PROVE  Spec => RepliesOwn
<1>1. Init => CalmInv
  BY ConstantsAssumption, CalmInit
<1>2. CalmInv /\ [Next]_vars => CalmInv'
  BY ConstantsAssumption, CalmStep
<1>3. ASSUME CalmInv, Complete
      PROVE  EndsInOwnReply
  <2>1. Floor = Current /\ Current \in Turns
    <3>1. pc = "loop" /\ pc # "idle" /\ pc \in Busy
      BY <1>3 DEF Complete, Busy
    <3>2. Current \in Turns
      BY <1>3, <3>1, TurnAtHead DEF CalmInv
    <3> QED BY <3>1, <3>2 DEF Floor
  <2>2. LastBy(log, Current)
    BY <1>3, <2>1, ConstantsAssumption DEF CalmInv, FloorKept, FloorIn, ConstantsAssumption
  <2>3. DOMAIN log = 1..Len(log)
    BY <1>3, ReadsOfLog DEF CalmInv, TypeInv
  <2> QED BY <2>2, <2>3 DEF LastBy, EndsInOwnReply
<1>4. CalmInv /\ [Next]_vars => [Complete => EndsInOwnReply]_vars
  BY <1>3
<1> QED BY <1>1, <1>2, <1>4, PTL DEF Spec, RepliesOwn

LEMMA OnlyOpeningsOpen ==
    ASSUME ConstantsAssumption, CalmInv, [Next]_vars, NEW t,
           HasOpeningMessage(t)', ~HasOpeningMessage(t)
    PROVE  OpenTurn /\ t = Current /\ park = NoPark /\ t \notin OpenedIn(log)
<1>1. TypeOK' /\ DOMAIN log' = 1..Len(log')
  <2>1. TypeOK'
    BY TypeStep DEF CalmInv, TypeInv
  <2> QED BY <2>1, LenProperties DEF TypeOK
<1>2. t \in OpenedIn(log') /\ t \notin OpenedIn(log)
  <2>1. t \notin OpenedIn(log)
    BY ReadsOfLog DEF CalmInv, TypeInv
  <2>2. PICK i \in 1..Len(log') : log'[i].role = "user" /\ log'[i].turn = t
    BY <1>1 DEF HasOpeningMessage
  <2> QED BY <2>1, <2>2 DEF OpenedIn, At
<1>3. CASE RunReset
  <2>1. OpenedIn(log') = {}
    BY <1>3 DEF RunReset, OpenedIn, At
  <2> QED BY <1>2, <2>1
<1>4. CASE OpenTurn
  BY <1>2, <1>4, OpensUnparked DEF CalmInv
<1>5. CASE ~OpenTurn /\ ~RunReset
  BY <1>2, <1>5, LogSteps, SilenceOpensNothing DEF CalmInv
<1> QED BY <1>3, <1>4, <1>5

\* While a turn is parked no other turn opens, so nothing gets between its call
\* and the answer (the checks of start() and of the turn's operation).
THEOREM ParkKeepsTheFloor ==
    ASSUME Calm
    PROVE  Spec => ParkHoldsTheFloor
<1>1. Init => CalmInv
  BY ConstantsAssumption, CalmInit
<1>2. CalmInv /\ [Next]_vars => CalmInv'
  BY ConstantsAssumption, CalmStep
<1>3. CalmInv /\ [Next]_vars =>
        [\A t \in Turns : HasOpeningMessage(t)' /\ ~HasOpeningMessage(t) /\ park # NoPark
            => park.turn = t]_vars
  BY ConstantsAssumption, OnlyOpeningsOpen
<1> QED BY <1>1, <1>2, <1>3, PTL DEF Spec, ParkHoldsTheFloor

\* What a step does to the held turns.
LEMMA HeldSteps ==
    ASSUME ConstantsAssumption, [Next]_vars
    PROVE  \/ held' = held
           \/ \E x \in Turns : held' = Append(held, x) /\ x \notin HeldTurns
           \/ held' = HeldWithout(Current)
           \/ held' = << >>
<1> USE DEF store
<1>1. CASE \E t \in Turns : StartHolds(t)
  BY <1>1 DEF StartHolds
<1>2. CASE \E t \in Turns : StartBegins(t) \/ Cancel(t) \/ Resume(t)
  BY <1>2 DEF StartBegins, Cancel, Resume
<1>3. CASE Note \/ Reset \/ Rebuild \/ Evict \/ Crash \/ Rest \/ UNCHANGED vars
  BY <1>3 DEF Note, Reset, Rebuild, Evict, Crash, Rest, vars
<1>4. CASE \/ RefuseOverPark \/ CancelEarly \/ OpenTurn \/ RunNote \/ RunReset \/ ResetFails
  BY <1>4 DEF RefuseOverPark, CancelEarly, OpenTurn, RunNote, RunReset, ResetFails
<1>5. CASE \/ Complete \/ CancelToolBatch \/ ReleaseHeldNotes \/ CancelBeforeModel \/ AskModel
           \/ ModelCancelled \/ ModelFails \/ Settle
  BY <1>5 DEF Complete, CancelToolBatch, ReleaseHeldNotes, CancelBeforeModel, AskModel, ModelCancelled,
              ModelFails, Settle
<1>6. ASSUME NEW c \in Calls, \/ FatalTool(c) \/ LocalTool(c) \/ LocalToolThrows(c) \/ RemoteTool(c)
                              \/ RemoteReturns(c) \/ RemoteThrows(c) \/ RequestInput(c) \/ ParkTurn(c)
      PROVE  held' = held
  BY <1>6 DEF FatalTool, LocalTool, LocalToolThrows, RemoteTool, RemoteReturns, RemoteThrows, RequestInput,
              ParkTurn, Record
<1>7. ASSUME NEW b \in Batches, ModelReplies(b)
      PROVE  held' = held
  BY <1>7 DEF ModelReplies
<1> QED BY <1>1, <1>2, <1>3, <1>4, <1>5, <1>6, <1>7 DEF Next, Call, Engine

LEMMA HeldKeepOrder ==
    ASSUME ConstantsAssumption, CalmInv, [Next]_vars,
           NEW t \in HeldTurns, NEW u \in Turns, u \notin HeldTurns \/ HeldBefore(t, u),
           t # u, t \in HeldTurns', u \in HeldTurns'
    PROVE  HeldBefore(t, u)'
<1>a. /\ held \in Seq(Turns) /\ Len(held) \in Nat /\ DOMAIN held = 1..Len(held) /\ TypeOK
      /\ held' \in Seq(Turns) /\ DOMAIN held' = 1..Len(held') /\ HeldOnce(held)
  <2>1. TypeOK /\ TypeOK'
    BY TypeStep DEF CalmInv, TypeInv
  <2> QED BY <2>1, LenProperties DEF TypeOK, CalmInv, Queued, QueueIn
<1>1. CASE held' = held
  BY <1>1 DEF HeldTurns, HeldBefore
<1>2. ASSUME NEW x \in Turns, held' = Append(held, x), x \notin HeldTurns
      PROVE  HeldBefore(t, u)'
  <2>1. /\ Len(held') = Len(held) + 1 /\ held'[Len(held) + 1] = x
        /\ \A i \in 1..Len(held) : held'[i] = held[i]
    BY <1>a, <1>2, AppendProperties
  <2>2. CASE u \in HeldTurns
    <3>1. PICK i \in 1..Len(held), j \in 1..Len(held) : i < j /\ held[i] = t /\ held[j] = u
      BY <1>a, <2>2 DEF HeldBefore
    <3>2. i \in 1..Len(held') /\ j \in 1..Len(held') /\ held'[i] = t /\ held'[j] = u
      BY <1>a, <2>1, <3>1
    <3> QED BY <1>a, <3>1, <3>2 DEF HeldBefore
  <2>3. CASE u \notin HeldTurns
    <3>1. PICK i \in 1..Len(held) : held[i] = t
      BY <1>a DEF HeldTurns
    <3>2. PICK j \in 1..Len(held') : held'[j] = u
      BY <1>a DEF HeldTurns
    <3>3. j \notin 1..Len(held)
      BY <1>a, <2>1, <2>3, <3>2 DEF HeldTurns
    <3>4. i < j /\ i \in 1..Len(held') /\ held'[i] = t
      BY <1>a, <2>1, <3>1, <3>2, <3>3
    <3> QED BY <1>a, <3>2, <3>4 DEF HeldBefore
  <2> QED BY <2>2, <2>3
<1>3. CASE held' = HeldWithout(Current)
  <2>1. /\ TurnsOf(held') \subseteq TurnsOf(held) \ {Current}
        /\ \A m, n \in 1..Len(held) : m < n /\ held[m] # Current /\ held[n] # Current =>
                 \E j, k \in 1..Len(held') : j < k /\ held'[j] = held[m] /\ held'[k] = held[n]
    BY <1>a, <1>3, HeldReleased
  <2>2. t # Current /\ u # Current /\ u \in HeldTurns
    BY <1>a, <2>1 DEF TurnsOf, HeldTurns
  <2>3. PICK i \in 1..Len(held), j \in 1..Len(held) : i < j /\ held[i] = t /\ held[j] = u
    BY <1>a, <2>2 DEF HeldBefore
  <2>4. PICK k \in 1..Len(held'), l \in 1..Len(held') : k < l /\ held'[k] = t /\ held'[l] = u
    BY <2>1, <2>2, <2>3
  <2> QED BY <1>a, <2>4 DEF HeldBefore
<1>4. CASE held' = << >>
  BY <1>4 DEF HeldTurns
<1> QED BY <1>1, <1>2, <1>3, <1>4, HeldSteps

\* Held turns run in the order of their arrival, and one that opens is the first
\* in line (hold, drain and settle: a turn stays held until it is over).
THEOREM HeldTurnsQueueUp ==
    ASSUME Calm
    PROVE  Spec => HeldInOrder
<1>1. Init => CalmInv
  BY ConstantsAssumption, CalmInit
<1>2. CalmInv /\ [Next]_vars => CalmInv'
  BY ConstantsAssumption, CalmStep
<1>3. ASSUME CalmInv, [Next]_vars, NEW t \in HeldTurns, HasOpeningMessage(t)', ~HasOpeningMessage(t)
      PROVE  t = Head(held)
  <2>1. OpenTurn /\ t = Current /\ t \notin OpenedIn(log)
    BY <1>3, ConstantsAssumption, OnlyOpeningsOpen
  <2>2. /\ inbox # << >> /\ Head(inbox) = inbox[1] /\ 1 \in 1..Len(inbox)
        /\ Head(inbox).kind \in {"turn", "resume"}
    BY <1>3, <2>1, LenProperties, EmptySeq DEF OpenTurn, TurnBegins, AtHead, CalmInv, TypeInv, TypeOK
  <2>3. Head(inbox).kind # "resume"
    <3>1. Head(inbox).kind = "resume" => Floor = Current
      BY <1>3, <2>1, ConstantsAssumption, EngineFloor DEF CalmInv, Engine
    <3>2. Current # NoTurn
      BY <1>3, <2>1, TurnAtHead, ConstantsAssumption DEF OpenTurn, CalmInv, ConstantsAssumption
    <3>3. Floor = Current => Current \in OpenedIn(log)
      BY <1>3, <3>2 DEF CalmInv, FloorKept, FloorIn, OpenedLast, OpenedIn, At
    <3> QED BY <2>1, <3>1, <3>3
  <2>4. held # << >> /\ t \in TurnsOf(held) /\ Head(held) = held[1]
    <3>1. held \in Seq(Turns)
      BY <1>3 DEF CalmInv, TypeInv, TypeOK
    <3>2. DOMAIN held = 1..Len(held)
      BY <3>1, LenProperties
    <3>3. held # << >> /\ t \in TurnsOf(held)
      BY <3>1, <3>2, <1>3 DEF HeldTurns, TurnsOf
    <3> QED BY <3>1, <3>3
  <2> QED BY <1>3, <2>1, <2>2, <2>3, <2>4 DEF CalmInv, Queued, QueueIn, HeldFirst, Current
<1>4. CalmInv /\ [Next]_vars =>
        [/\ \A t \in HeldTurns, u \in Turns :
            /\ u \notin HeldTurns \/ HeldBefore(t, u)
            /\ t # u /\ t \in HeldTurns' /\ u \in HeldTurns'
            => HeldBefore(t, u)'
         /\ \A t \in HeldTurns : HasOpeningMessage(t)' /\ ~HasOpeningMessage(t)
                                 => t = Head(held)]_vars
  BY <1>3, ConstantsAssumption, HeldKeepOrder
<1> QED BY <1>1, <1>2, <1>4, PTL DEF Spec, HeldInOrder
-----------------------------------------------------------------------------
(* The session is a conversation: what a step of the session does to what  *)
(* Conversation reads off the log.                                         *)

\* The logs l and m tell the same.
TellsTheSame(l, m) ==
    /\ OpenedIn(m) = OpenedIn(l)
    /\ \A role \in {"user", "assistant"} : LatestTurn(m, role) = LatestTurn(l, role)
    /\ FinalIn(m) <=> FinalIn(l)
    /\ Owes(m, Turns) = Owes(l, Turns)

\* Messages of other roles do not change whose message of a role is the latest.
LEMMA LatestStays ==
    ASSUME NEW l, NEW m, IsPrefixOf(l, m), NEW role, At(m, role) = At(l, role)
    PROVE  LatestTurn(m, role) = LatestTurn(l, role)
<1>1. Latest(m, role) = Latest(l, role)
  BY DEF Latest
<1>2. \A i \in Latest(l, role) : m[i] = l[i]
  BY LenProperties DEF Latest, At, IsPrefixOf
<1>3. Latest(l, role) # {} => (CHOOSE i \in Latest(l, role) : TRUE) \in Latest(l, role)
  OBVIOUS
<1> QED BY <1>1, <1>2, <1>3 DEF LatestTurn

LEMMA LatestIs ==
    ASSUME NEW l \in Seq(Message), NEW role, NEW i \in At(l, role), \A j \in At(l, role) : j <= i
    PROVE  LatestTurn(l, role) = l[i].turn
<1>1. Len(l) \in Nat /\ \A j \in At(l, role) : j \in Nat
  BY LenProperties DEF At
<1>2. Latest(l, role) = {i}
  BY <1>1 DEF Latest
<1> QED BY <1>2 DEF LatestTurn

LEMMA LatestAdded ==
    ASSUME NEW l \in Seq(Message), NEW x \in Message
    PROVE  /\ LatestTurn(Append(l, x), x.role) = x.turn
           /\ \A role : role # x.role => LatestTurn(Append(l, x), role) = LatestTurn(l, role)
<1> DEFINE m == Append(l, x)
<1>1. /\ m \in Seq(Message) /\ Len(m) = Len(l) + 1 /\ Len(l) \in Nat /\ m[Len(l) + 1] = x
      /\ \A i \in 1..Len(l) : m[i] = l[i]
      /\ IsPrefixOf(l, m)
  BY LenProperties, AppendProperties DEF IsPrefixOf
<1> HIDE DEF m
<1>2. LatestTurn(m, x.role) = x.turn
  <2>1. Len(l) + 1 \in At(m, x.role) /\ \A j \in At(m, x.role) : j <= Len(l) + 1
    BY <1>1 DEF At
  <2> QED BY <1>1, <2>1, LatestIs
<1>3. \A role : role # x.role => At(m, role) = At(l, role)
  BY <1>1 DEF At
<1> QED BY <1>1, <1>2, <1>3, LatestStays DEF m

LEMMA OpenedLastIsLatest ==
    ASSUME NEW l \in Seq(Message), NEW t, OpenedLast(l, t)
    PROVE  LatestTurn(l, "user") = t
<1>1. PICK i \in 1..Len(l) : /\ l[i].role = "user" /\ l[i].turn = t
                             /\ \A j \in i+1..Len(l) : l[j].role # "user"
  BY DEF OpenedLast
<1>2. i \in At(l, "user") /\ \A j \in At(l, "user") : j <= i
  <2>1. Len(l) \in Nat
    BY LenProperties
  <2> QED BY <1>1, <2>1 DEF At
<1> QED BY <1>1, <1>2, LatestIs

LEMMA OpenedStay ==
    ASSUME NEW l, NEW m, IsPrefixOf(l, m), At(m, "user") = At(l, "user")
    PROVE  OpenedIn(m) = OpenedIn(l)
<1>1. \A i \in At(l, "user") : m[i] = l[i]
  BY LenProperties DEF IsPrefixOf, At
<1> QED BY <1>1 DEF OpenedIn

LEMMA NotesTellNothing ==
    ASSUME NEW l, NEW m, AddsNotes(l, m)
    PROVE  TellsTheSame(l, m)
<1>1. /\ \A ts : Owes(m, ts) = Owes(l, ts)
      /\ FinalIn(m) <=> FinalIn(l)
      /\ At(m, "user") = At(l, "user") /\ At(m, "assistant") = At(l, "assistant")
  BY NotesChangeNothing
<1>2. IsPrefixOf(l, m)
  BY DEF AddsNotes
<1>3. OpenedIn(m) = OpenedIn(l)
  BY <1>1, <1>2, OpenedStay
<1>4. \A role \in {"user", "assistant"} : LatestTurn(m, role) = LatestTurn(l, role)
  BY <1>1, <1>2, LatestStays
<1> QED BY <1>1, <1>3, <1>4 DEF TellsTheSame

\* What Conversation reads off the session, before and after a step.
LEMMA ToldIs ==
    ASSUME TypeOK, TypeOK'
    PROVE  /\ EndsInFinalReply <=> FinalIn(log)
           /\ EndsInFinalReply' <=> FinalIn(log')
           /\ OwedBy(Turns, Len(log)) = Owes(log, Turns)
           /\ OwedBy(Turns, Len(log))' = Owes(log', Turns)
           /\ EndsInFinalReply \in BOOLEAN /\ EndsInFinalReply' \in BOOLEAN
<1>1. DOMAIN log' = 1..Len(log')
  BY LenProperties DEF TypeOK
<1>2. EndsInFinalReply' <=> FinalIn(log')
  BY <1>1 DEF EndsInFinalReply, FinalIn
<1>3. OwedBy(Turns, Len(log))' = Owes(log', Turns)
  BY DEF OwedBy, Owes, OwedIn, IsLastAssistant, IsLatestReply, Answered, ResultsIn
<1>4. EndsInFinalReply \in BOOLEAN /\ EndsInFinalReply' \in BOOLEAN
  BY DEF EndsInFinalReply
<1> QED BY <1>2, <1>3, <1>4, ReadsOfLog DEF Owes

LEMMA ToldNothing ==
    ASSUME TypeOK, TypeOK', initiator' = initiator, TellsTheSame(log, log')
    PROVE  UNCHANGED Told!vars
<1>1. UNCHANGED <<OpenedIn(log), LatestTurn(log, "user"), LatestTurn(log, "assistant"), initiator>>
  BY DEF TellsTheSame
<1>2. UNCHANGED <<EndsInFinalReply, OwedBy(Turns, Len(log))>>
  BY ToldIs DEF TellsTheSame
<1> QED BY <1>1, <1>2 DEF Told!vars

LEMMA SameTellsTheSame ==
    ASSUME NEW l
    PROVE  TellsTheSame(l, l)
BY DEF TellsTheSame

\* An opening, after the notes that waited.
LEMMA ToldOpening ==
    ASSUME ConstantsAssumption, CalmInv, TypeOK', SeatIn(log, initiator), OpenTurn
    PROVE  Told!Next \/ UNCHANGED Told!vars
<1>a. Current \in Turns /\ Current # NoTurn /\ log \in Seq(Message) /\ TypeOK
  <2>1. Current \in Turns
    BY TurnAtHead DEF OpenTurn, CalmInv
  <2> QED BY <2>1 DEF CalmInv, TypeInv, TypeOK, ConstantsAssumption
<1>1. PICK mid \in Seq(Message) :
              /\ AddsNotes(log, mid)
              /\ mid = log \/ Owes(log, Turns) = {}
              /\ OpeningMsg(Current) \in Message
              /\ log' = IF HasOpeningMessage(Current) THEN mid
                        ELSE Append(mid, OpeningMsg(Current))
  BY OpeningNotes DEF CalmInv
<1>2. TellsTheSame(log, mid)
  BY <1>1, NotesTellNothing
<1>3. initiator' = IF initiator = NoPrincipal THEN PrincipalOf[Current] ELSE initiator
  BY DEF OpenTurn
<1>4. CASE HasOpeningMessage(Current)
  <2>1. initiator = NoPrincipal => PrincipalOf[Current] = NoPrincipal
    <3>1. PICK i \in 1..Len(log) : log[i].role = "user" /\ log[i].turn = Current
      BY <1>a, <1>4, LenProperties DEF HasOpeningMessage
    <3>2. initiator = NoPrincipal => Identified(log) = {}
      BY DEF SeatIn, Identified
    <3> QED BY <3>1, <3>2 DEF Identified
  <2> QED BY <1>a, <1>1, <1>2, <1>3, <1>4, <2>1, ToldNothing
<1>5. CASE ~HasOpeningMessage(Current)
  <2>1. Owes(log, Turns) = {}
    <3>1. Floor = Current \/ Floor = NoTurn
      BY EngineFloor DEF CalmInv, Engine
    <3>2. Floor # Current
      <4>1. Floor = Current => \E i \in 1..Len(log) : log[i].role = "user" /\ log[i].turn = Current
        BY <1>a DEF CalmInv, FloorKept, FloorIn, OpenedLast
      <4> QED BY <1>5, <4>1, <1>a, ReadsOfLog DEF HasOpeningMessage
    <3>3. Turns \ {NoTurn} = Turns
      BY DEF ConstantsAssumption
    <3> QED BY <3>1, <3>2, <3>3 DEF CalmInv, FloorKept, FloorIn
  <2> DEFINE x == OpeningMsg(Current)
  <2>2. log' = Append(mid, x) /\ x.role = "user" /\ x.turn = Current /\ x \in Message
    BY <1>1, <1>5 DEF OpeningMsg
  <2> HIDE DEF x
  <2>3. OpenedIn(log') = OpenedIn(log) \cup {Current} /\ Owes(log', Turns) = {}
    BY <1>2, <2>1, <2>2, OpeningAdded DEF TellsTheSame
  <2>4. /\ LatestTurn(log', "user") = Current
        /\ LatestTurn(log', "assistant") = LatestTurn(log, "assistant")
    BY <1>2, <2>2, LatestAdded DEF TellsTheSame
  <2>5. ~FinalIn(log')
    BY <2>2, OneMore
  <2>6. Current \notin OpenedIn(log)
    BY <1>a, <1>5, ReadsOfLog
  <2>7. Told!Open(Current)
    BY <1>a, <1>3, <2>1, <2>3, <2>4, <2>5, <2>6, ToldIs DEF Told!Open
  <2> QED BY <1>a, <2>7 DEF Told!Next
<1> QED BY <1>4, <1>5

\* The turn that opened last replies.
LEMMA ToldReply ==
    ASSUME ConstantsAssumption, CalmInv, TypeOK', NEW b \in Batches, ModelReplies(b)
    PROVE  Told!Next
<1>a. Current \in Turns /\ Current # NoTurn /\ log \in Seq(Message) /\ TypeOK
  <2>1. Current \in Turns
    BY TurnAtHead DEF ModelReplies, CalmInv
  <2> QED BY <2>1 DEF CalmInv, TypeInv, TypeOK, ConstantsAssumption
<1>1. Owes(log, Turns) = {} /\ ~FinalIn(log) /\ Floor = Current
  BY DEF CalmInv, ModelAsked, ModelReplies, Floor, Busy
<1>2. LatestTurn(log, "user") = Current
  BY <1>a, <1>1, OpenedLastIsLatest DEF CalmInv, FloorKept, FloorIn
<1> DEFINE x == ReplyMsg(Current, b)
<1>3. /\ log' = Append(log, x) /\ x.role = "assistant" /\ x.turn = Current /\ x.calls = b
      /\ x \in Message /\ initiator' = initiator
  BY <1>a DEF ModelReplies, ReplyMsg, Message, session, ConstantsAssumption
<1> HIDE DEF x
<1>4. Owes(log', Turns) = {b[i] : i \in DOMAIN b}
  BY <1>a, <1>3, ReplyAdded DEF CallsOf
<1>5. FinalIn(log') <=> b = << >>
  BY <1>a, <1>3, OneMore
<1>6. /\ LatestTurn(log', "assistant") = Current
      /\ LatestTurn(log', "user") = LatestTurn(log, "user")
  BY <1>a, <1>3, LatestAdded
<1>7. OpenedIn(log') = OpenedIn(log)
  BY <1>a, <1>3, AppendIsSilent, SilenceOpensNothing
<1>8. Told!Reply(b)
  BY <1>a, <1>1, <1>2, <1>3, <1>4, <1>5, <1>6, <1>7, ToldIs DEF Told!Reply
<1> QED BY <1>8 DEF Told!Next

\* Results join the log: they change what is owed and nothing else.
LEMMA ToldResults ==
    ASSUME ConstantsAssumption, TypeOK, TypeOK', NEW s \in Seq(Message), NEW t,
           \A k \in 1..Len(s) : s[k].role = "tool" /\ s[k].turn = t,
           log' = log \o s, initiator' = initiator, ~EndsInFinalReply
    PROVE  /\ UNCHANGED <<OpenedIn(log), LatestTurn(log, "user"), LatestTurn(log, "assistant"),
                          EndsInFinalReply, initiator>>
           /\ OwedBy(Turns, Len(log))' = Owes(log, Turns) \ CallsIn(s)
<1>a. log \in Seq(Message)
  BY DEF TypeOK
<1>1. /\ IsPrefixOf(log, log')
      /\ \A ts : Owes(log', ts) = Owes(log, ts) \ CallsIn(s)
      /\ ~FinalIn(log) => ~FinalIn(log')
      /\ At(log', "user") = At(log, "user") /\ At(log', "assistant") = At(log, "assistant")
  BY <1>a, ResultsAdded
<1>2. OpenedIn(log') = OpenedIn(log)
  BY <1>1, OpenedStay
<1>3. \A role \in {"user", "assistant"} : LatestTurn(log', role) = LatestTurn(log, role)
  BY <1>1, LatestStays
<1>4. EndsInFinalReply' = EndsInFinalReply
  BY <1>1, ToldIs
<1>5. OwedBy(Turns, Len(log))' = Owes(log, Turns) \ CallsIn(s)
  BY <1>1, ToldIs
<1> QED BY <1>2, <1>3, <1>4, <1>5

LEMMA ToldResult ==
    ASSUME ConstantsAssumption, CalmInv, TypeOK', NEW c \in Calls,
           LocalTool(c) \/ LocalToolThrows(c) \/ RemoteReturns(c) \/ RemoteThrows(c)
    PROVE  Told!Next
<1>a. Current \in Turns /\ log \in Seq(Message) /\ TypeOK /\ pc \in Busy
  <2>1. pc \in Busy /\ pc # "idle"
    BY DEF LocalTool, LocalToolThrows, RemoteReturns, RemoteThrows, RunsTool, InTool, Owing, Busy
  <2>2. Current \in Turns
    BY <2>1, TurnAtHead DEF CalmInv
  <2> QED BY <2>1, <2>2 DEF CalmInv, TypeInv, TypeOK
<1>1. log' = Append(log, ResultMsg(Current, c)) /\ initiator' = initiator /\ IsNextCall(Current, c)
  BY DEF LocalTool, LocalToolThrows, RemoteReturns, RemoteThrows, Record, RunsTool, InTool, session
<1>2. c \in Owes(log, {Current})
  BY <1>a, <1>1, ReadsOfLog DEF NextIn
<1>3. c \in Owes(log, Turns)
  BY <1>a, <1>2, OwesLess
<1>4. ~EndsInFinalReply
  BY <1>a, <1>3, FinalOwesNothing, ReadsOfLog
<1> DEFINE s == <<ResultMsg(Current, c)>>
<1>5. ResultMsg(Current, c) \in Message
  BY <1>a DEF ResultMsg, Message, ConstantsAssumption
<1>6. s \in Seq(Message) /\ Len(s) = 1 /\ s[1] = ResultMsg(Current, c) /\ log' = log \o s
  BY <1>a, <1>1, <1>5, AppendIsConcat
<1>7. s[1].role = "tool" /\ s[1].turn = Current /\ s[1].call = c
  BY <1>6 DEF ResultMsg
<1> HIDE DEF s
<1>8. \A k \in 1..Len(s) : s[k].role = "tool" /\ s[k].turn = Current
  BY <1>6, <1>7
<1>9. CallsIn(s) = {c}
  BY <1>6, <1>7 DEF CallsIn
<1>10. /\ UNCHANGED <<OpenedIn(log), LatestTurn(log, "user"), LatestTurn(log, "assistant"),
                      EndsInFinalReply, initiator>>
       /\ OwedBy(Turns, Len(log))' = Owes(log, Turns) \ CallsIn(s)
  BY <1>a, <1>1, <1>4, <1>6, <1>8, ToldResults
<1>11. Told!Result(c)
  BY <1>a, <1>3, <1>9, <1>10, ToldIs DEF Told!Result
<1> QED BY <1>11 DEF Told!Next

LEMMA ToldClosing ==
    ASSUME ConstantsAssumption, CalmInv, TypeOK', CancelToolBatch
    PROVE  Told!Next
<1>a. log \in Seq(Message) /\ TypeOK /\ Floor = Current /\ ~EndsInFinalReply
  BY DEF CalmInv, TypeInv, TypeOK, CancelToolBatch, Owing, Floor, Busy
<1>1. Owes(log', Turns) = {}
  BY <1>a, BatchClosed DEF CalmInv, FloorKept, FloorIn
<1>2. PICK results \in Seq(Message) :
                 /\ log' = log \o results
                 /\ \A k \in 1..Len(results) : /\ results[k].role = "tool"
                                               /\ results[k].turn = Current
  BY CancelledResults DEF CalmInv
<1>3. initiator' = initiator
  BY DEF CancelToolBatch, session
<1>4. UNCHANGED <<OpenedIn(log), LatestTurn(log, "user"), LatestTurn(log, "assistant"),
                  EndsInFinalReply, initiator>>
  BY <1>a, <1>2, <1>3, ToldResults
<1>5. Owes(log, Turns) # {}
  <2>1. Owes(log, {Current}) # {} /\ Current \in Turns
    BY <1>a, TurnAtHead, ReadsOfLog DEF CancelToolBatch, Owing, CalmInv
  <2> QED BY <2>1, OwesLess
<1>6. Told!CloseBatch
  BY <1>a, <1>1, <1>4, <1>5, ToldIs DEF Told!CloseBatch
<1> QED BY <1>6 DEF Told!Next

LEMMA ToldArchive ==
    ASSUME TypeOK, TypeOK', RunReset
    PROVE  Told!Next
<1>1. log' = << >> /\ initiator' = NoPrincipal
  BY DEF RunReset
<1>2. OpenedIn(<< >>) = {} /\ Owes(<< >>, Turns) = {} /\ ~FinalIn(<< >>)
  BY DEF OpenedIn, At, Owes, OwedIn, FinalIn
<1>3. LatestTurn(<< >>, "user") = NoTurn /\ LatestTurn(<< >>, "assistant") = NoTurn
  BY DEF LatestTurn, Latest, At
<1>4. Told!Archive
  BY <1>1, <1>2, <1>3, ToldIs DEF Told!Archive
<1> QED BY <1>4 DEF Told!Next

LEMMA ToldStep ==
    ASSUME ConstantsAssumption, CalmInv, SeatIn(log, initiator), TypeOK', [Next]_vars
    PROVE  [Told!Next]_(Told!vars)
<1> USE DEF store, session
<1>a. TypeOK /\ log \in Seq(Message)
  BY DEF CalmInv, TypeInv, TypeOK
<1>1. CASE log' = log /\ initiator' = initiator
  BY <1>a, <1>1, SameTellsTheSame, ToldNothing
<1>2. CASE OpenTurn
  BY <1>2, ToldOpening
<1>3. CASE RunNote \/ ReleaseHeldNotes
  <2>1. initiator' = initiator
    BY <1>3 DEF RunNote, ReleaseHeldNotes
  <2>2. CASE log' = log
    BY <1>1, <2>1, <2>2
  <2>3. CASE log' # log
    <3>1. 0 \in Nat /\ heldNotes \in Nat
      BY <1>a DEF TypeOK
    <3>2. log' = Append(log, NoteMsg) \/ log' = log \o Notes(heldNotes)
      BY <1>3, <2>3 DEF RunNote, ReleaseHeldNotes
    <3>3. AddsNotes(log, Append(log, NoteMsg)) /\ AddsNotes(log, log \o Notes(heldNotes))
      BY <1>a, <3>1, NotesAdded
    <3>4. AddsNotes(log, log')
      BY <3>2, <3>3
    <3> QED BY <1>a, <2>1, <3>4, NotesTellNothing, ToldNothing
  <2> QED BY <2>2, <2>3
<1>4. CASE RunReset
  BY <1>a, <1>4, ToldArchive
<1>5. CASE CancelToolBatch
  BY <1>5, ToldClosing
<1>6. ASSUME NEW c \in Calls,
             LocalTool(c) \/ LocalToolThrows(c) \/ RemoteReturns(c) \/ RemoteThrows(c)
      PROVE  Told!Next
  BY <1>6, ToldResult
<1>7. ASSUME NEW b \in Batches, ModelReplies(b)
      PROVE  Told!Next
  BY <1>7, ToldReply
<1>8. CASE Call \/ Crash \/ Rest \/ UNCHANGED vars
  <2>1. log' = log /\ initiator' = initiator
    BY <1>8 DEF Call, StartHolds, StartBegins, Cancel, Resume, Note, Reset, Rebuild, Evict, Crash, Rest, vars
  <2> QED BY <1>1, <2>1
<1>9. CASE \/ RefuseOverPark \/ CancelEarly \/ ResetFails \/ Complete \/ CancelBeforeModel \/ AskModel
           \/ ModelCancelled \/ ModelFails \/ Settle
  <2>1. log' = log /\ initiator' = initiator
    BY <1>9 DEF RefuseOverPark, CancelEarly, ResetFails, Complete, CancelBeforeModel, AskModel,
                ModelCancelled, ModelFails, Settle
  <2> QED BY <1>1, <2>1
<1>10. ASSUME NEW c \in Calls, FatalTool(c) \/ RemoteTool(c) \/ RequestInput(c) \/ ParkTurn(c)
       PROVE  log' = log /\ initiator' = initiator
  BY <1>10 DEF FatalTool, RemoteTool, RequestInput, ParkTurn
<1> QED BY <1>1, <1>2, <1>3, <1>4, <1>5, <1>6, <1>7, <1>8, <1>9, <1>10 DEF Next, Engine

\* The session implements Conversation: turns speak one after the other, each
\* from its opening to its final reply; every call is answered once, by one
\* result, before anything else is said; nobody opens twice.
THEOREM SessionIsConversation ==
    ASSUME Calm
    PROVE  Spec => IsConversation
<1> DEFINE Inv == CalmInv /\ SeatIn(log, initiator)
<1>1. Init => Inv
  <2> SUFFICES ASSUME Init PROVE Inv
    OBVIOUS
  <2>1. Identified(log) = {}
    BY DEF Init, Identified
  <2> QED BY ConstantsAssumption, CalmInit, <2>1 DEF Init, SeatIn
<1>2. Inv /\ [Next]_vars => Inv'
  <2>1. CalmInv /\ [Next]_vars => CalmInv'
    BY ConstantsAssumption, CalmStep
  <2>2. CalmInv /\ SeatIn(log, initiator) /\ [Next]_vars => SeatIn(log', initiator')
    BY ConstantsAssumption, SeatStep DEF CalmInv
  <2> QED BY <2>1, <2>2 DEF SeatIn, Identified
<1>3. Init => Told!Init
  <2> SUFFICES ASSUME Init PROVE Told!Init
    OBVIOUS
  <2>1. log = << >> /\ initiator = NoPrincipal
    BY DEF Init
  <2>2. OpenedIn(<< >>) = {} /\ OwedBy(Turns, Len(log)) = {} /\ ~EndsInFinalReply
    BY <2>1 DEF OpenedIn, At, OwedBy, EndsInFinalReply
  <2>3. LatestTurn(<< >>, "user") = NoTurn /\ LatestTurn(<< >>, "assistant") = NoTurn
    BY DEF LatestTurn, Latest, At
  <2> QED BY <2>1, <2>2, <2>3 DEF Told!Init
<1>4. Inv /\ [Next]_vars => [Told!Next]_(Told!vars)
  <2>1. CalmInv /\ [Next]_vars => TypeOK'
    BY ConstantsAssumption, TypeStep DEF CalmInv, TypeInv
  <2> QED BY <2>1, ConstantsAssumption, ToldStep
<1> QED BY <1>1, <1>2, <1>3, <1>4, PTL DEF Spec, IsConversation, Told!Spec

-----------------------------------------------------------------------------
(* Held turns wait behind a park.  This needs no calm: only that the       *)
(* process lives, and that no reset fails (a reset that fails stops being  *)
(* pending without a drain(); a rebuilt actor does not drain either).      *)

Undisturbed == MaxCrashes = 0 /\ (MaxFailures = 0 \/ MaxResets = 0)

ResetOn(q) == \E i \in 1..Len(q) : q[i].kind = "reset"

\* A pending reset is on the chain; without resets none is.
ResetComing ==
    /\ pendingReset => ResetOn(inbox)
    /\ MaxResets = 0 => ~ResetOn(inbox)

HeldWaits == ~pendingReset /\ Running = {} /\ held # << >> => status = "suspended"

LEMMA ResetQueued ==
    ASSUME NEW q, NEW p, InboxGood(q, p)
    PROVE  /\ \A op \in Op : ResetOn(Append(q, op)) <=> ResetOn(q) \/ op.kind = "reset"
           /\ \A h \in Seq(Turns) : ResetOn(Drained(q, h)) <=> ResetOn(q)
           /\ q # << >> => /\ ResetOn(Tail(q)) => ResetOn(q)
                           /\ Head(q).kind # "reset" /\ ResetOn(q) => ResetOn(Tail(q))
<1>a. q \in Seq(Op)
  BY DEF InboxGood
<1>1. ASSUME NEW op \in Op
      PROVE  ResetOn(Append(q, op)) <=> ResetOn(q) \/ op.kind = "reset"
  <2>1. /\ Len(q) \in Nat /\ Len(Append(q, op)) = Len(q) + 1
        /\ \A i \in 1..Len(q) : Append(q, op)[i] = q[i]
        /\ Append(q, op)[Len(q) + 1] = op
        /\ \A i \in 1..Len(q)+1 : i \in 1..Len(q) \/ i = Len(q) + 1
    BY Lengthened
  <2> QED BY <2>1 DEF ResetOn
<1>2. ASSUME NEW h \in Seq(Turns)
      PROVE  ResetOn(Drained(q, h)) <=> ResetOn(q)
  <2>1. h # << >> => TurnOp(Head(h)) \in Op /\ TurnOp(Head(h)).kind # "reset"
    BY HeadTailProperties DEF TurnOp, Op
  <2> QED BY <1>1, <2>1 DEF Drained
<1>3. ASSUME q # << >>
      PROVE  /\ ResetOn(Tail(q)) => ResetOn(q)
             /\ Head(q).kind # "reset" /\ ResetOn(q) => ResetOn(Tail(q))
  <2>1. /\ Len(q) \in Nat /\ Len(Tail(q)) = Len(q) - 1 /\ Head(q) = q[1]
        /\ \A i \in 1..Len(Tail(q)) : Tail(q)[i] = q[i + 1]
    BY <1>a, <1>3, HeadTailProperties, LenProperties
  <2>2. \A i \in 1..Len(Tail(q)) : i + 1 \in 1..Len(q)
    BY <2>1
  <2>3. \A i \in 1..Len(q) : i = 1 \/ (i - 1 \in 1..Len(Tail(q)) /\ (i - 1) + 1 = i)
    BY <2>1
  <2>4. \A i \in 1..Len(q) : i = 1 \/ (i - 1 \in 1..Len(Tail(q)) /\ Tail(q)[i - 1] = q[i])
    BY <2>1, <2>3
  <2> QED BY <2>1, <2>2, <2>4, ZenonT(30) DEF ResetOn
<1> QED BY <1>1, <1>2, <1>3

LEMMA QueuedRuns ==
    ASSUME NEW q, NEW p, InboxGood(q, p), NEW op \in Op, op.turn # NoTurn
    PROVE  RunningIn(Append(q, op)) # {}
<1>1. /\ Append(q, op) \in Seq(Op) /\ Len(Append(q, op)) = Len(q) + 1 /\ Len(q) \in Nat
      /\ Append(q, op)[Len(q) + 1] = op
  BY AppendProperties, LenProperties DEF InboxGood
<1>2. Len(q) + 1 \in DOMAIN Append(q, op)
  BY <1>1, LenProperties
<1> QED BY <1>1, <1>2 DEF RunningIn

\* drain() leaves turns held only behind a park or a pending reset.
LEMMA DrainedRuns ==
    ASSUME ConstantsAssumption, NEW q, NEW p, InboxGood(q, p), NEW h \in Seq(Turns),
           ~pendingReset, h # << >>, RunningIn(Drained(q, h)) = {}
    PROVE  status = "suspended"
<1>1. SUFFICES ASSUME status # "suspended" PROVE FALSE
  OBVIOUS
<1>2. RunningIn(q) = {}
  BY RunningDrains
<1>3. Drained(q, h) = Append(q, TurnOp(Head(h)))
  BY <1>1, <1>2 DEF Drained
<1>4. TurnOp(Head(h)) \in Op /\ TurnOp(Head(h)).turn # NoTurn
  BY HeadTailProperties DEF TurnOp, Op, ConstantsAssumption
<1> QED BY <1>3, <1>4, QueuedRuns

LEMMA HeadRuns ==
    ASSUME ConstantsAssumption, TypeInv, pc # "idle" \/ TurnBegins
    PROVE  Running # {}
<1>1. inbox # << >> /\ Current \in Turns /\ inbox \in Seq(Op)
  BY TurnAtHead DEF TypeInv, TypeOK
<1>2. 1 \in DOMAIN inbox /\ Head(inbox) = inbox[1]
  BY <1>1, LenProperties, EmptySeq
<1>3. Current # NoTurn
  BY <1>1 DEF ConstantsAssumption
<1> QED BY <1>2, <1>3 DEF Current, Running, RunningIn

LEMMA UndisturbedCall ==
    ASSUME ConstantsAssumption, TypeInv, TypeInv', ResetComing, HeldWaits, Call
    PROVE  ResetComing' /\ HeldWaits'
<1> USE DEF store, steps, session, actor, effects
<1>a. InboxGood(inbox, pc) /\ held \in Seq(Turns) /\ held' \in Seq(Turns)
  BY DEF TypeInv, InboxOK, TypeOK
<1>b. ASSUME NEW q, NEW p, InboxGood(q, p), NEW op \in Op, op.turn # NoTurn, op.kind # "reset",
             ResetOn(q) <=> ResetOn(inbox), inbox' = Append(q, op), pendingReset' = pendingReset
      PROVE  ResetComing' /\ HeldWaits'
  <2>1. ResetOn(inbox') <=> ResetOn(inbox)
    BY <1>b, ResetQueued
  <2>2. RunningIn(inbox') # {}
    BY <1>b, QueuedRuns
  <2> QED BY <1>b, <2>1, <2>2 DEF ResetComing, HeldWaits, Running, ResetOn
<1>1. ASSUME NEW t \in Turns, StartHolds(t)
      PROVE  ResetComing' /\ HeldWaits'
  <2>1. inbox' = Drained(inbox, held') /\ UNCHANGED <<status, pendingReset>>
    BY <1>1 DEF StartHolds
  <2>2. ResetOn(inbox') <=> ResetOn(inbox)
    BY <1>a, <2>1, ResetQueued
  <2>3. ~pendingReset /\ RunningIn(inbox') = {} /\ held' # << >> => status = "suspended"
    BY <1>a, <2>1, DrainedRuns
  <2> QED BY <2>1, <2>2, <2>3 DEF ResetComing, HeldWaits, Running, ResetOn
<1>2. ASSUME NEW t \in Turns, StartBegins(t)
      PROVE  ResetComing' /\ HeldWaits'
  <2> DEFINE q == IF parkedTurnId = NoTurn THEN Drained(inbox, held) ELSE inbox
  <2>1. InboxGood(q, pc) /\ (ResetOn(q) <=> ResetOn(inbox))
    BY <1>a, InboxDrained, ResetQueued
  <2>2. inbox' = Append(q, TurnOp(t)) /\ pendingReset' = pendingReset
    BY <1>2 DEF StartBegins
  <2>3. TurnOp(t) \in Op /\ TurnOp(t).turn # NoTurn /\ TurnOp(t).kind # "reset"
    BY DEF TurnOp, Op, ConstantsAssumption
  <2> HIDE DEF q
  <2> QED BY <1>b, <2>1, <2>2, <2>3
<1>3. ASSUME NEW t \in Turns, Resume(t)
      PROVE  ResetComing' /\ HeldWaits'
  <2>1. ResumeOp(t) \in Op /\ ResumeOp(t).turn # NoTurn /\ ResumeOp(t).kind # "reset"
    BY DEF ResumeOp, Op, ConstantsAssumption
  <2>2. inbox' = Append(inbox, ResumeOp(t)) /\ pendingReset' = pendingReset
    BY <1>3 DEF Resume
  <2> QED BY <1>a, <1>b, <2>1, <2>2
<1>4. CASE Note
  <2>1. /\ inbox' = Append(inbox, NoteOp) /\ NoteOp \in Op /\ NoteOp.kind # "reset"
        /\ UNCHANGED <<held, status, pendingReset>>
    BY <1>4 DEF Note, NoteOp, Op
  <2>2. ResetOn(inbox') <=> ResetOn(inbox)
    BY <1>a, <2>1, ResetQueued
  <2>3. RunningIn(inbox) \subseteq RunningIn(inbox')
    BY <1>a, <2>1, RunningGrows
  <2> QED BY <2>1, <2>2, <2>3 DEF ResetComing, HeldWaits, Running, ResetOn
<1>5. CASE Reset
  <2>1. inbox' = Append(inbox, ResetOp) /\ ResetOp \in Op /\ ResetOp.kind = "reset" /\ pendingReset'
    BY <1>5 DEF Reset, ResetOp, Op
  <2>2. ResetOn(inbox')
    BY <1>a, <2>1, ResetQueued
  <2>3. MaxResets # 0
    BY <1>5 DEF Reset, Within, TypeInv, TypeOK
  <2> QED BY <2>1, <2>2, <2>3 DEF ResetComing, HeldWaits
<1>6. CASE Evict
  <2>1. /\ inbox' = << >> /\ Running = {} /\ ~pendingReset
        /\ UNCHANGED <<held, status, pendingReset>>
    BY <1>6 DEF Evict, IsIdle
  <2>2. ~ResetOn(<< >>)
    BY DEF ResetOn
  <2> QED BY <2>1, <2>2 DEF ResetComing, HeldWaits, ResetOn
<1>7. CASE Rebuild \/ \E t \in Turns : Cancel(t)
  <2>1. UNCHANGED <<inbox, held, status, pendingReset>>
    BY <1>7 DEF Rebuild, Cancel
  <2> QED BY <2>1 DEF ResetComing, HeldWaits, Running, ResetOn
<1> QED BY <1>1, <1>2, <1>3, <1>4, <1>5, <1>6, <1>7 DEF Call

LEMMA UndisturbedEngine ==
    ASSUME ConstantsAssumption, Undisturbed, TypeInv, TypeInv', ResetComing, HeldWaits, Engine
    PROVE  ResetComing' /\ HeldWaits'
<1> USE DEF store, steps, session, actor, effects
<1>a. InboxGood(inbox, pc) /\ held \in Seq(Turns) /\ held' \in Seq(Turns)
  BY DEF TypeInv, InboxOK, TypeOK
<1>1. CASE Settle
  <2>1. /\ inbox # << >> /\ InboxGood(Tail(inbox), "idle") /\ Head(inbox).kind # "reset"
        /\ inbox' = Drained(Tail(inbox), held') /\ UNCHANGED <<status, pendingReset>>
    BY <1>1, <1>a, InboxTail DEF Settle, InboxGood, TurnKinds
  <2>2. ResetOn(inbox') <=> ResetOn(inbox)
    <3>1. ResetOn(Drained(Tail(inbox), held')) <=> ResetOn(Tail(inbox))
      BY <1>a, <2>1, ResetQueued
    <3> QED BY <1>a, <2>1, <3>1, ResetQueued
  <2>3. ~pendingReset /\ RunningIn(inbox') = {} /\ held' # << >> => status = "suspended"
    BY <1>a, <2>1, DrainedRuns
  <2> QED BY <2>1, <2>2, <2>3 DEF ResetComing, HeldWaits, Running, ResetOn
<1>2. CASE RunReset \/ ResetFails
  <2>1. inbox # << >> /\ Head(inbox).kind = "reset" /\ inbox' = Tail(inbox) /\ ~pendingReset'
    BY <1>2 DEF RunReset, ResetFails, AtHead
  <2>2. ResetOn(inbox)
    <3>1. 1 \in 1..Len(inbox) /\ Head(inbox) = inbox[1]
      BY <1>a, <2>1, LenProperties, EmptySeq DEF InboxGood
    <3> QED BY <2>1, <3>1 DEF ResetOn
  <2>3. MaxResets # 0 /\ ~ResetFails
    BY <2>2, SMTT(20) DEF ResetComing, Undisturbed, ResetFails, Within, TypeInv, TypeOK
  <2>4. held' = << >>
    BY <1>2, <2>3 DEF RunReset
  <2> QED BY <2>1, <2>3, <2>4 DEF ResetComing, HeldWaits
<1>3. CASE RunNote
  <2>1. /\ inbox # << >> /\ Head(inbox).kind = "note" /\ inbox' = Tail(inbox)
        /\ UNCHANGED <<held, status, pendingReset>>
    BY <1>3 DEF RunNote, AtHead
  <2>2. Head(inbox).turn = NoTurn
    <3>1. 1 \in 1..Len(inbox) /\ Head(inbox) = inbox[1]
      BY <1>a, <2>1, LenProperties, EmptySeq DEF InboxGood
    <3> QED BY <1>a, <2>1, <3>1 DEF InboxGood, OpGood, TurnKinds
  <2>3. RunningIn(inbox) \subseteq RunningIn(inbox')
    <3>1. NoTurn \notin RunningIn(inbox)
      BY DEF RunningIn
    <3>2. RunningIn(inbox) \subseteq RunningIn(Tail(inbox)) \cup {NoTurn}
      BY <1>a, <2>1, <2>2, RunningLosesHead
    <3> QED BY <2>1, <3>1, <3>2
  <2>4. ResetOn(inbox') <=> ResetOn(inbox)
    BY <1>a, <2>1, ResetQueued
  <2> QED BY <2>1, <2>3, <2>4 DEF ResetComing, HeldWaits, Running, ResetOn
<1>4. CASE ~Settle /\ ~RunReset /\ ~ResetFails /\ ~RunNote
  <2>1. UNCHANGED <<inbox, held, pendingReset>>
    BY <1>4 DEF Engine, RefuseOverPark, CancelEarly, OpenTurn, Complete, CancelToolBatch,
                ReleaseHeldNotes, CancelBeforeModel, AskModel, ModelCancelled, ModelFails, ModelReplies,
                FatalTool, LocalTool, LocalToolThrows, RemoteTool, RemoteReturns, RemoteThrows,
                RequestInput, ParkTurn, Record
  <2>2. pc # "idle" \/ TurnBegins
    BY <1>4 DEF Engine, RefuseOverPark, CancelEarly, OpenTurn, Complete, CancelToolBatch,
                ReleaseHeldNotes, CancelBeforeModel, AskModel, ModelCancelled, ModelFails, ModelReplies,
                FatalTool, LocalTool, LocalToolThrows, RemoteTool, RemoteReturns, RemoteThrows,
                RequestInput, ParkTurn, RunsTool, InTool, Owing, NotOwing
  <2>3. Running # {}
    BY <2>2, HeadRuns
  <2> QED BY <2>1, <2>3 DEF ResetComing, HeldWaits, Running, ResetOn
<1> QED BY <1>1, <1>2, <1>3, <1>4

\* Held turns wait for a reason: when an actor exists, nothing runs and nothing
\* is coming, the session is parked (drain() in settle() and in start()).
THEOREM HeldTurnsWaitForAPark ==
    ASSUME Undisturbed
    PROVE  Spec => []HeldBehindPark
<1> DEFINE Inv == TypeInv /\ ResetComing /\ HeldWaits
<1>1. Init => Inv
  <2> SUFFICES ASSUME Init PROVE Inv
    OBVIOUS
  <2>1. ResetComing /\ HeldWaits
    BY DEF Init, ResetComing, HeldWaits, ResetOn
  <2> QED BY ConstantsAssumption, TypeInit, <2>1
<1>2. Inv /\ [Next]_vars => Inv'
  <2> SUFFICES ASSUME Inv, [Next]_vars PROVE Inv'
    OBVIOUS
  <2>1. TypeInv'
    BY ConstantsAssumption, TypeStep
  <2>2. CASE Call
    BY <2>1, <2>2, ConstantsAssumption, UndisturbedCall
  <2>3. CASE Engine
    BY <2>1, <2>3, ConstantsAssumption, UndisturbedEngine
  <2>4. CASE Rest \/ UNCHANGED vars
    <3>1. UNCHANGED <<inbox, held, status, pendingReset>>
      BY <2>4 DEF Rest, vars, store, actor
    <3> QED BY <2>1, <3>1 DEF ResetComing, HeldWaits, Running, ResetOn
  <2>5. ~Crash
    BY DEF Crash, Within, Undisturbed, TypeInv, TypeOK
  <2> QED BY <2>2, <2>3, <2>4, <2>5 DEF Next
<1>3. Inv => HeldBehindPark
  <2> SUFFICES ASSUME Inv, inbox = << >>, held # << >> PROVE status = "suspended"
    BY DEF HeldBehindPark
  <2>1. ~ResetOn(<< >>) /\ RunningIn(<< >>) = {}
    BY DEF ResetOn, RunningIn
  <2> QED BY <2>1 DEF ResetComing, HeldWaits, Running
<1> QED BY <1>1, <1>2, <1>3, PTL DEF Spec

\* A session at rest owes nobody anything it could give now.
THEOREM RestOwesNothing ==
    ASSUME Calm, Undisturbed
    PROVE  Spec => []AtRest
BY ParksCanResume, HeldTurnsWaitForAPark, PTL DEF AtRest
=============================================================================
