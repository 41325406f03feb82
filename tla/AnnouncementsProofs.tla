------------------------ MODULE AnnouncementsProofs ------------------------
(***************************************************************************)
(* Theorems about Announcements, for every value of its constants: alarms  *)
(* at any time, any number of failures, deaths, closes and resets.         *)
(***************************************************************************)
EXTENDS Announcements, SequenceTheorems, TLAPS

(* The outbox holds the announcements after the acknowledged ones, in the  *)
(* order of their recording.                                               *)
Entries(o, n) ==
    /\ o \in Seq(Nat) /\ Len(o) <= n
    /\ \A i \in 1..Len(o) : o[i] = n - Len(o) + i

Flush == [stage : {"none", "calling", "ending"}, head : Nat, again : BOOLEAN]

\* The entry in the hook's hands is the oldest; it is the only one there.
Handing(f, o, h) ==
    /\ f \in Flush
    /\ f.stage = "calling" => o # << >> /\ f.head = Head(o)
    /\ h = IF f.stage = "calling" THEN 1 ELSE 0

DeliveryInv ==
    /\ recorded \in Nat /\ Entries(outbox, recorded)
    /\ told = 1..recorded - Len(outbox)
    /\ Handing(flush, outbox, inHook)

\* A flush and a chain belong to an actor, an actor to a process.
Chain == Seq({"turn", "reset"})

ActorInv ==
    /\ inbox \in Chain
    /\ live \in BOOLEAN
    /\ pc # "idle" => inbox # << >>
    /\ inbox # << >> \/ flush.stage # "none" => live
    /\ mode = "down" => ~live
    /\ mode # "up" => host = "native" /\ timer = "none"

Inv == DeliveryInv /\ ActorInv
-----------------------------------------------------------------------------
(* Operators.                                                              *)

\* One more announcement at the end leaves the oldest where it is.
LEMMA EntriesRecord ==
    ASSUME NEW n \in Nat, NEW o, Entries(o, n)
    PROVE  LET p == Append(o, n + 1)
           IN  /\ Entries(p, n + 1) /\ p # << >> /\ Len(p) = Len(o) + 1
               /\ o # << >> => Head(p) = Head(o)
<1> DEFINE p == Append(o, n + 1)
<1>1. /\ o \in Seq(Nat) /\ Len(o) \in Nat
      /\ p \in Seq(Nat) /\ Len(p) = Len(o) + 1
      /\ \A i \in 1..Len(o) : p[i] = o[i]
      /\ p[Len(o) + 1] = n + 1
  BY AppendProperties, LenProperties DEF Entries
<1>2. \A i \in 1..Len(p) : p[i] = n + 1 - Len(p) + i
  <2> SUFFICES ASSUME NEW i \in 1..Len(p)
               PROVE  p[i] = n + 1 - Len(p) + i
    OBVIOUS
  <2>1. CASE i = Len(o) + 1
    BY <1>1, <2>1
  <2>2. CASE i \in 1..Len(o)
    BY <1>1, <2>2 DEF Entries
  <2> QED BY <1>1, <2>1, <2>2
<1>3. ASSUME o # << >>
      PROVE  Head(p) = Head(o)
  <2>1. Len(o) > 0
    BY <1>1, <1>3, EmptySeq
  <2> QED BY <1>1, <2>1
<1>4. p # << >>
  BY <1>1, EmptySeq
<1>5. Entries(p, n + 1)
  BY <1>1, <1>2 DEF Entries
<1> QED BY <1>1, <1>3, <1>4, <1>5

\* What is removed is the first entry, whatever the filter by id would find.
LEMMA WithoutHead ==
    ASSUME NEW n \in Nat, Entries(outbox, n), outbox # << >>
    PROVE  /\ Without(Head(outbox)) = Tail(outbox)
           /\ Entries(Tail(outbox), n)
           /\ Len(Tail(outbox)) = Len(outbox) - 1
           /\ Head(outbox) = n - Len(outbox) + 1
<1>1. /\ outbox \in Seq(Nat) /\ Len(outbox) \in Nat \ {0}
      /\ Head(outbox) = outbox[1] /\ DOMAIN outbox = 1..Len(outbox)
      /\ Tail(outbox) \in Seq(Nat) /\ Len(Tail(outbox)) = Len(outbox) - 1
      /\ \A i \in 1..Len(Tail(outbox)) : Tail(outbox)[i] = outbox[i + 1]
  BY HeadTailProperties, LenProperties, EmptySeq DEF Entries
<1>2. \A k \in DOMAIN outbox : outbox[k] = Head(outbox) <=> k = 1
  BY <1>1 DEF Entries
<1>3. (CHOOSE k \in DOMAIN outbox : outbox[k] = Head(outbox)) = 1
  BY <1>1, <1>2
<1>4. Without(Head(outbox)) = SubSeq(outbox, 1, 0) \o SubSeq(outbox, 2, Len(outbox))
  <2> DEFINE i == CHOOSE k \in DOMAIN outbox : outbox[k] = Head(outbox)
  <2>1. Without(Head(outbox)) = SubSeq(outbox, 1, i - 1) \o SubSeq(outbox, i + 1, Len(outbox))
    BY DEF Without
  <2>2. i = 1
    BY <1>3, Zenon
  <2> HIDE DEF i
  <2>3. i - 1 = 0 /\ i + 1 = 2
    BY <2>2
  <2> QED BY <2>1, <2>3
<1> DEFINE r == SubSeq(outbox, 2, Len(outbox))
<1>5. r \in Seq(Nat) /\ Len(r) = Len(outbox) - 1
      /\ \A i \in 1..Len(r) : r[i] = outbox[i + 1]
  BY <1>1, SubSeqProperties
<1>6. SubSeq(outbox, 1, 0) = << >>
  BY <1>1, SubSeqProperties, EmptySeq
<1>7. << >> \o r = r
  BY <1>5, ConcatEmptySeq
<1>8. r = Tail(outbox)
  BY <1>1, <1>5, SeqEqual
<1>9. Entries(Tail(outbox), n)
  BY <1>1 DEF Entries
<1> QED BY <1>1, <1>4, <1>6, <1>7, <1>8, <1>9 DEF Entries

\* flushAnnouncements() hands over the oldest entry, and only if the hook is
\* not already at work.
LEMMA FlushHandsHead ==
    ASSUME Inv, FlushAnnouncements, outbox' \in Seq(Nat), inHook \in Int,
           flush.stage = "calling" => outbox' # << >> /\ Head(outbox') = Head(outbox)
    PROVE  Handing(flush', outbox', inHook')
<1>1. CASE flush.stage # "none" /\ flush' = [flush EXCEPT !.again = TRUE] /\ inHook' = inHook
  BY <1>1 DEF Inv, DeliveryInv, Handing, Flush
<1>2. CASE flush.stage = "none" /\ flush' = flush /\ inHook' = inHook
  BY <1>2 DEF Inv, DeliveryInv, Handing, Flush
<1>3. CASE flush.stage = "none" /\ outbox' # << >> /\ Hand(Head(outbox'), FALSE)
  <2>1. Head(outbox') \in Nat
    BY <1>3, HeadTailProperties
  <2>2. inHook = 0
    BY <1>3 DEF Inv, DeliveryInv, Handing
  <2> QED BY <1>3, <2>1, <2>2 DEF Hand, Handing, Flush
<1> QED BY <1>1, <1>2, <1>3 DEF FlushAnnouncements

\* A flush of a new actor, which has none in flight.
LEMMA BuildHandsHead ==
    ASSUME Inv, ~live, NEW again \in BOOLEAN, FlushOnBuild(again)
    PROVE  Handing(flush', outbox, inHook')
<1>1. flush.stage = "none" /\ inHook = 0
  BY DEF Inv, DeliveryInv, ActorInv, Handing, Flush
<1>2. CASE outbox = << >>
  BY <1>2 DEF FlushOnBuild, Inv, DeliveryInv, Handing
<1>3. CASE outbox # << >>
  <2>1. Head(outbox) \in Nat
    BY <1>3, HeadTailProperties DEF Inv, DeliveryInv, Entries
  <2> QED BY <1>1, <1>3, <2>1 DEF FlushOnBuild, Hand, Handing, Flush
<1> QED BY <1>2, <1>3

\* A commit that records: the outbox and the pass in flight stay as they should.
LEMMA RecordKeeps ==
    ASSUME Inv, Record, told' = told
    PROVE  /\ recorded' \in Nat /\ Entries(outbox', recorded') /\ outbox' # << >>
           /\ told' = 1..recorded' - Len(outbox')
           /\ outbox # << >> => Head(outbox') = Head(outbox)
<1>1. recorded \in Nat /\ Entries(outbox, recorded) /\ told = 1..recorded - Len(outbox)
  BY DEF Inv, DeliveryInv
<1>2. Len(outbox) \in Nat
  BY <1>1, LenProperties DEF Entries
<1> QED BY <1>1, <1>2, EntriesRecord DEF Record

\* The steps that leave the outbox, the history and the pass in flight alone.
LEMMA DeliveryUnchanged ==
    ASSUME Inv, UNCHANGED <<outbox, recorded, told, flush, inHook>>
    PROVE  DeliveryInv'
BY DEF Inv, DeliveryInv, Handing, Flush, Entries

\* The steps that record and flush, or only flush.
LEMMA RecordAndFlush ==
    ASSUME Inv, told' = told, FlushAnnouncements,
           Record \/ UNCHANGED <<outbox, recorded>>
    PROVE  DeliveryInv'
<1>1. inHook \in Int /\ outbox \in Seq(Nat)
      /\ (flush.stage = "calling" => outbox # << >>)
  BY DEF Inv, DeliveryInv, Handing, Entries
<1>2. CASE Record
  BY <1>1, <1>2, RecordKeeps, FlushHandsHead DEF DeliveryInv, Entries
<1>3. CASE UNCHANGED <<outbox, recorded>>
  <2>1. Handing(flush', outbox', inHook')
    BY <1>1, <1>3, FlushHandsHead
  <2> QED BY <1>3, <2>1 DEF Inv, DeliveryInv, Entries
<1> QED BY <1>2, <1>3

\* A pass that ends leaves the hook alone.
LEMMA PassStops ==
    ASSUME flush \in Flush, inHook = 1, PassEnds, NEW o
    PROVE  Handing(flush', o, inHook')
<1>1. /\ flush' \in Flush /\ flush'.stage = "ending"
  BY DEF PassEnds, Flush
<1>2. inHook' = 0
  BY DEF PassEnds
<1> QED BY <1>1, <1>2 DEF Handing

LEMMA HookReturnsKeeps ==
    ASSUME Inv, HookReturns
    PROVE  DeliveryInv'
<1> DEFINE n == recorded - Len(outbox)
<1>1. /\ recorded \in Nat /\ Entries(outbox, recorded) /\ outbox # << >>
      /\ told = 1..n /\ flush \in Flush /\ flush.head = Head(outbox) /\ inHook = 1
  BY DEF Inv, DeliveryInv, Handing, HookReturns
<1>2. /\ outbox' = Tail(outbox) /\ Entries(outbox', recorded)
      /\ Len(outbox') = Len(outbox) - 1 /\ Head(outbox) = n + 1
  BY <1>1, WithoutHead DEF HookReturns
<1>3. Len(outbox) \in Nat /\ n \in Nat
  BY <1>1, LenProperties DEF Entries
<1>4. told' = 1..recorded' - Len(outbox')
  <2>1. told' = told \cup {n + 1} /\ recorded' = recorded
    BY <1>1, <1>2 DEF HookReturns
  <2>2. recorded - Len(outbox') = n + 1
    BY <1>1, <1>2, <1>3
  <2> QED BY <1>1, <1>3, <2>1, <2>2
<1>5. CASE outbox' = << >> /\ PassEnds
  <2>1. Handing(flush', outbox', inHook')
    BY <1>1, <1>5, PassStops
  <2> QED BY <1>1, <1>2, <1>4, <2>1 DEF HookReturns, DeliveryInv
<1>6. CASE outbox' # << >> /\ flush' = [flush EXCEPT !.head = Head(outbox')] /\ UNCHANGED inHook
  <2>1. Head(outbox') \in Nat
    BY <1>2, <1>6, HeadTailProperties DEF Entries
  <2>2. flush' \in Flush /\ flush'.head = Head(outbox') /\ flush'.stage = flush.stage
    BY <1>1, <1>6, <2>1 DEF Flush
  <2>3. inHook' = 1 /\ flush'.stage = "calling"
    BY <1>1, <1>6, <2>2 DEF HookReturns
  <2>4. Handing(flush', outbox', inHook')
    BY <1>6, <2>2, <2>3 DEF Handing
  <2> QED BY <1>1, <1>2, <1>4, <2>4 DEF HookReturns, DeliveryInv
<1> QED BY <1>5, <1>6 DEF HookReturns

\* A pass that stops keeps its entry at the head of the outbox.
LEMMA PassEndsKeeps ==
    ASSUME Inv, flush.stage = "calling", PassEnds, UNCHANGED <<outbox, recorded, told>>
    PROVE  DeliveryInv'
<1>1. Handing(flush', outbox', inHook')
  BY PassStops DEF Inv, DeliveryInv, Handing
<1> QED BY <1>1 DEF Inv, DeliveryInv, Entries

LEMMA EndFlushKeeps ==
    ASSUME Inv, EndFlush
    PROVE  DeliveryInv'
<1>1. inHook = 0 /\ outbox' = outbox /\ recorded' = recorded /\ told' = told
  BY DEF Inv, DeliveryInv, Handing, EndFlush, history
<1>2. CASE outbox # << >> /\ Hand(Head(outbox), FALSE)
  <2>1. Head(outbox) \in Nat
    BY <1>2, HeadTailProperties DEF Inv, DeliveryInv, Entries
  <2>2. Handing(flush', outbox', inHook')
    BY <1>1, <1>2, <2>1 DEF Hand, Handing, Flush
  <2> QED BY <1>1, <2>2 DEF Inv, DeliveryInv
<1>3. CASE flush' = NoFlush /\ UNCHANGED inHook
  <2>1. Handing(flush', outbox', inHook')
    BY <1>1, <1>3 DEF NoFlush, Handing, Flush
  <2> QED BY <1>1, <2>1 DEF Inv, DeliveryInv
<1> QED BY <1>2, <1>3 DEF EndFlush

\* No flush is left: the process is gone, or the actor dropped while it had none.
LEMMA DroppedKeeps ==
    ASSUME Inv, flush' = NoFlush, inHook' = 0, UNCHANGED <<outbox, recorded, told>>
    PROVE  DeliveryInv'
<1>1. Handing(flush', outbox', inHook')
  BY DEF NoFlush, Handing, Flush
<1> QED BY <1>1 DEF Inv, DeliveryInv, Entries

\* A new actor is built.
LEMMA BuiltKeeps ==
    ASSUME Inv, ~live, NEW again \in BOOLEAN, FlushOnBuild(again),
           UNCHANGED <<outbox, recorded, told>>
    PROVE  DeliveryInv'
<1>1. Handing(flush', outbox', inHook')
  BY BuildHandsHead
<1> QED BY <1>1 DEF Inv, DeliveryInv, Entries

LEMMA WakeKeeps ==
    ASSUME Inv, Wake, UNCHANGED <<recorded, told>>
    PROVE  DeliveryInv'
<1>1. CASE live
  BY <1>1, RecordAndFlush DEF Wake
<1>2. CASE ~live
  BY <1>2, BuiltKeeps DEF Wake
<1> QED BY <1>1, <1>2
-----------------------------------------------------------------------------
(* The invariant.                                                          *)

LEMMA InitInv == Init => Inv
<1> SUFFICES ASSUME Init
             PROVE  Inv
  OBVIOUS
<1>1. << >> \in Seq(Nat) /\ Len(<< >>) = 0 /\ << >> \in Chain
  BY EmptySeq DEF Chain
<1>2. DeliveryInv
  BY <1>1 DEF Init, DeliveryInv, Entries, Handing, Flush, NoFlush
<1>3. ActorInv
  BY <1>1 DEF Init, ActorInv, NoFlush
<1> QED BY <1>2, <1>3 DEF Inv

LEMMA NextDelivery ==
    ASSUME Inv, [Next]_vars
    PROVE  DeliveryInv'
<1>1. CASE HookReturns
  BY <1>1, HookReturnsKeeps
<1>2. CASE HookFails \/ NotReady
  BY <1>2, PassEndsKeeps DEF HookFails, NotReady, history
<1>3. CASE EndFlush
  BY <1>3, EndFlushKeeps
<1>4. CASE Hold \/ Resume \/ Settle \/ Archive
  BY <1>4, RecordAndFlush DEF Hold, Resume, Settle, Archive, history
<1>5. CASE TurnParks
  <2>1. CASE checkpoint
    BY <1>5, <2>1, DeliveryUnchanged DEF TurnParks, delivery
  <2>2. CASE ~checkpoint
    <3>1. Record /\ UNCHANGED <<flush, inHook, told>>
      BY <1>5, <2>2 DEF TurnParks, delivery
    <3>2. Handing(flush', outbox', inHook')
      BY <3>1, RecordKeeps DEF Inv, DeliveryInv, Handing
    <3> QED BY <3>1, <3>2, RecordKeeps DEF DeliveryInv
  <2> QED BY <2>1, <2>2
<1>6. CASE StartTurn \/ Reset \/ TurnStarts \/ TurnEndsEarly \/ TurnEnds \/ ArchiveFails \/ Close
  BY <1>6, DeliveryUnchanged
     DEF StartTurn, Reset, TurnStarts, TurnEndsEarly, TurnEnds, ArchiveFails, Close,
         delivery, history
<1>7. CASE Rebuild
  BY <1>7, BuiltKeeps DEF Rebuild, history
<1>8. CASE Restart
  <2>1. ~live
    BY <1>8 DEF Restart, Inv, ActorInv
  <2> QED BY <1>8, <2>1, BuiltKeeps DEF Restart, history
<1>9. CASE RetryFires \/ AlarmFires
  BY <1>9, WakeKeeps DEF RetryFires, AlarmFires, history
<1>10. CASE Die
  BY <1>10, DroppedKeeps DEF Die, Lost, history
<1>11. CASE Evict \/ Closed
  <2>1. flush.stage = "none"
    BY <1>11 DEF Evict, Closed, IsIdle, Inv, ActorInv
  <2>2. inHook = 0
    BY <2>1 DEF Inv, DeliveryInv, Handing
  <2> QED BY <1>11, <2>2, DroppedKeeps DEF Evict, Closed, history
<1>12. CASE UNCHANGED vars
  BY <1>12, DeliveryUnchanged DEF vars, delivery, history
<1> QED
  BY <1>1, <1>2, <1>3, <1>4, <1>5, <1>6, <1>7, <1>8, <1>9, <1>10, <1>11, <1>12
     DEF Next, Engine, Call, Rest

\* A chain one longer, or without its head.
LEMMA ChainGrows ==
    ASSUME inbox \in Chain, NEW op \in {"turn", "reset"}, inbox' = Append(inbox, op)
    PROVE  inbox' \in Chain /\ inbox' # << >>
BY AppendProperties, EmptySeq DEF Chain

LEMMA ChainShrinks ==
    ASSUME inbox \in Chain, inbox # << >>, inbox' = Tail(inbox)
    PROVE  inbox' \in Chain
BY HeadTailProperties DEF Chain

LEMMA NextActor ==
    ASSUME Inv, [Next]_vars
    PROVE  ActorInv'
<1> USE DEF Inv, ActorInv
<1>1. CASE HookReturns \/ HookFails \/ NotReady \/ EndFlush
  BY <1>1 DEF HookReturns, HookFails, NotReady, EndFlush, PassEnds, Hand, NoFlush,
              chain, process
<1>2. CASE StartTurn \/ Resume \/ Reset
  BY <1>2, ChainGrows DEF StartTurn, Resume, Reset, ArmWatchdog, process
<1>3. CASE Settle \/ Archive \/ ArchiveFails
  <2>1. live /\ inbox # << >> /\ inbox' = Tail(inbox) /\ live' = live /\ mode' = mode
        /\ pc' = "idle" /\ timer' = timer /\ host' = host
    BY <1>3 DEF Settle, Archive, ArchiveFails, AtHead, process
  <2> QED BY <2>1, ChainShrinks
<1>4. CASE TurnStarts \/ TurnEndsEarly \/ TurnEnds \/ TurnParks
  BY <1>4 DEF TurnStarts, TurnEndsEarly, TurnEnds, TurnParks, AtHead, ArmWatchdog,
              process
<1>5. CASE Rebuild \/ Hold
  <2>1. live' = TRUE /\ UNCHANGED <<inbox, pc, mode, host>>
    BY <1>5 DEF Rebuild, Hold, chain
  <2>2. mode # "up" => timer' = "none"
    BY <1>5 DEF Rebuild, Hold, ArmWatchdog
  <2>3. mode # "down"
    BY <1>5 DEF Rebuild, Hold
  <2> QED BY <2>1, <2>2, <2>3
<1>6. CASE Evict \/ Closed
  <2>1. inbox = << >> /\ UNCHANGED <<inbox, pc, host, timer>> /\ live' = FALSE
    BY <1>6 DEF Evict, Closed, IsIdle, chain
  <2>2. flush'.stage = "none"
    BY <1>6 DEF Evict, Closed, NoFlush
  <2>3. mode' # "up" => mode # "up"
    BY <1>6 DEF Evict, Closed
  <2> QED BY <2>1, <2>2, <2>3
<1>7. CASE Close
  BY <1>7 DEF Close, chain, delivery
<1>8. CASE RetryFires \/ AlarmFires
  <2>1. live' /\ UNCHANGED <<inbox, pc, mode, host>> /\ timer' = "none"
    BY <1>8 DEF RetryFires, AlarmFires, Wake, chain
  <2>2. mode # "down"
    BY <1>8 DEF RetryFires, AlarmFires
  <2> QED BY <1>8, <2>1, <2>2
<1>9. CASE Die
  BY <1>9, EmptySeq DEF Die, Lost, NoFlush, Chain
<1>10. CASE Restart
  BY <1>10 DEF Restart, FlushOnBuild, Hand, chain
<1>11. CASE UNCHANGED vars
  BY <1>11 DEF vars, chain, process, delivery
<1> QED
  BY <1>1, <1>2, <1>3, <1>4, <1>5, <1>6, <1>7, <1>8, <1>9, <1>10, <1>11
     DEF Next, Engine, Call, Rest
-----------------------------------------------------------------------------
(* Types: those the invariant does not speak of.                           *)
Used == [turns : Nat, resets : Nat, failures : Nat, unready : Nat, early : Nat, stops : Nat]

Types ==
    /\ host \in Hosts
    /\ checkpoint \in BOOLEAN /\ suspended \in BOOLEAN
    /\ timer \in {"none", "retry", "watchdog"}
    /\ mode \in {"up", "closing", "down"}
    /\ resources \in {"unopened", "open", "failed"}
    /\ pc \in {"idle", "running", "settling"}
    /\ pendingReset \in BOOLEAN /\ alarmRunning \in BOOLEAN
    /\ used \in Used

LEMMA CountType ==
    ASSUME used \in Used, Count("turns") \/ Count("resets") \/ Count("failures")
                           \/ Count("unready") \/ Count("early") \/ Count("stops")
    PROVE  used' \in Used
BY DEF Count, Used

LEMMA NextTypes ==
    ASSUME Types, [Next]_vars
    PROVE  Types'
<1> USE DEF Types
<1>1. CASE HookReturns
  BY <1>1 DEF HookReturns, Ready, park, chain
<1>2. CASE HookFails \/ NotReady
  <2>1. used' \in Used
    BY <1>2, CountType DEF HookFails, NotReady
  <2> QED BY <1>2, <2>1 DEF HookFails, NotReady, Ready, park, chain
<1>3. CASE EndFlush \/ Evict \/ Rebuild
  BY <1>3 DEF EndFlush, Evict, Rebuild, park, process, chain
<1>4. CASE StartTurn \/ Reset
  <2>1. used' \in Used
    BY <1>4, CountType DEF StartTurn, Reset
  <2> QED BY <1>4, <2>1 DEF StartTurn, Reset, Ready, ArmWatchdog, park, process, delivery
<1>5. CASE Hold \/ Resume
  BY <1>5 DEF Hold, Resume, Ready, ArmWatchdog, park, chain
<1>6. CASE TurnStarts \/ TurnEndsEarly \/ TurnEnds \/ TurnParks
  BY <1>6 DEF TurnStarts, TurnEndsEarly, TurnEnds, TurnParks, ArmWatchdog, park, process,
              delivery
<1>7. CASE Settle \/ Archive
  BY <1>7 DEF Settle, Archive, park, process
<1>8. CASE ArchiveFails \/ Close
  <2>1. used' \in Used
    BY <1>8, CountType DEF ArchiveFails, Close
  <2> QED BY <1>8, <2>1 DEF ArchiveFails, Close, park, process, chain, delivery
<1>9. CASE Closed \/ Restart
  BY <1>9 DEF Closed, Restart, park, chain
<1>10. CASE RetryFires \/ AlarmFires
  <2>1. used' \in Used
    BY <1>10, CountType DEF RetryFires, AlarmFires
  <2> QED BY <1>10, <2>1 DEF RetryFires, AlarmFires, Wake, park, chain
<1>11. CASE Die
  <2>1. used' \in Used
    BY <1>11, CountType DEF Die
  <2> QED BY <1>11, <2>1 DEF Die, Lost, park
<1>12. CASE UNCHANGED vars
  BY <1>12 DEF vars, park, process, chain, delivery
<1> QED
  BY <1>1, <1>2, <1>3, <1>4, <1>5, <1>6, <1>7, <1>8, <1>9, <1>10, <1>11, <1>12
     DEF Next, Engine, Call, Rest
-----------------------------------------------------------------------------
(* Theorems.                                                               *)

\* The invariant holds for ever.
THEOREM AlwaysInv == Spec => []Inv
<1>1. Inv /\ [Next]_vars => Inv'
  BY NextDelivery, NextActor DEF Inv
<1> QED BY InitInv, <1>1, PTL DEF Spec

\* Every variable keeps its type.
THEOREM TypeCorrect == Spec => []TypeOK
<1>1. Init => Types
  <2>1. Init => used \in Used
    BY DEF Init, Used
  <2> QED BY <2>1 DEF Init, Types
<1>2. Types /\ [Next]_vars => Types'
  BY NextTypes
<1>3. Inv /\ Types => TypeOK
  <2> SUFFICES ASSUME Inv, Types
               PROVE  TypeOK
    OBVIOUS
  <2>1. /\ outbox \in Seq(Nat) /\ Len(outbox) \in Nat /\ recorded \in Nat
        /\ \A i \in 1..Len(outbox) : outbox[i] \in 1..recorded
    BY LenProperties DEF Inv, DeliveryInv, Entries
  <2>2. outbox \in Seq(1..recorded)
    BY <2>1, SeqDef
  <2> QED BY <2>1, <2>2 DEF Inv, DeliveryInv, Handing, ActorInv, Flush, Chain, Types, Used, TypeOK
<1> QED BY AlwaysInv, <1>1, <1>2, <1>3, PTL DEF Spec

\* Nothing that commits with a park, an answer or a reset is lost, whatever the
\* hook, the process and the session do.
THEOREM NothingIsLost == Spec => []NothingLost
<1>1. Inv => NothingLost
  <2> SUFFICES ASSUME Inv, NEW a \in 1..recorded, a \notin told
               PROVE  \E i \in DOMAIN outbox : outbox[i] = a
    BY DEF NothingLost
  <2>1. /\ recorded \in Nat /\ Len(outbox) \in Nat /\ DOMAIN outbox = 1..Len(outbox)
        /\ a \notin 1..recorded - Len(outbox) /\ Len(outbox) <= recorded
    BY LenProperties DEF Inv, DeliveryInv, Entries
  <2> DEFINE i == a - (recorded - Len(outbox))
  <2>2. i \in 1..Len(outbox) /\ a = recorded - Len(outbox) + i
    BY <2>1
  <2>3. outbox[i] = a
    BY <2>2 DEF Inv, DeliveryInv, Entries
  <2> QED BY <2>1, <2>2, <2>3
<1> QED BY AlwaysInv, <1>1, PTL

\* The hook hears of announcements in the order of their recording.
THEOREM ToldInOrder == Spec => []InOrder
<1>1. Inv => InOrder
  <2> SUFFICES ASSUME Inv, flush.stage = "calling"
               PROVE  1..flush.head-1 \subseteq told
    BY DEF InOrder
  <2>1. /\ recorded \in Nat /\ Entries(outbox, recorded) /\ outbox # << >>
        /\ flush.head = Head(outbox) /\ told = 1..recorded - Len(outbox)
    BY DEF Inv, DeliveryInv, Handing
  <2>2. Head(outbox) = recorded - Len(outbox) + 1 /\ Len(outbox) \in Nat
    BY <2>1, WithoutHead, LenProperties DEF Entries
  <2> QED BY <2>1, <2>2
<1> QED BY AlwaysInv, <1>1, PTL

\* The hook is called once at a time, also around evictions and restarts.
THEOREM HandedOverOnce == Spec => []OneHandover
<1>1. Inv => OneHandover
  BY DEF Inv, DeliveryInv, Handing, OneHandover
<1> QED BY AlwaysInv, <1>1, PTL
-----------------------------------------------------------------------------
(* Somebody delivers, as long as no alarm has gone off during a turn and   *)
(* no durable object has failed to open its resources: Timely.             *)

Counters == {"turns", "resets", "failures", "stops"}

CountsInv ==
    /\ used \in Used /\ Timely
    /\ resources # "failed"
    /\ host \in {"native", "durable"}

\* What a durable object has on its chain that may record is covered by its
\* alarm; an alarm is running while the flush it waits for is.
AlarmInv ==
    /\ host = "durable" /\ pc = "running" => timer # "none"
    /\ host = "durable" => \A i \in 1..Len(inbox) : inbox[i] = "reset" => timer # "none"
    /\ alarmRunning => flush.stage # "none" /\ host = "durable"

\* A pass that is ending with entries left has another to come, or a retry.
EndingInv ==
    flush.stage = "ending" /\ outbox # << >> =>
        \/ flush.again \/ timer # "none"
        \/ host = "native" /\ (mode # "up" \/ pc = "settling")

CourierInv == CountsInv /\ AlarmInv /\ EndingInv /\ SomeoneDelivers

\* What was untimely once stays so.
LEMMA TimelyBefore ==
    ASSUME used \in Used, [Next]_vars, Timely'
    PROVE  Timely /\ ~(Within("unready", MaxUnready) /\ Count("unready")) /\ ~Count("early")
<1>1. ~Count("unready") /\ ~Count("early")
  BY DEF Count, Used, Timely
<1>2. CASE StartTurn \/ Reset \/ HookFails \/ ArchiveFails \/ Die \/ Close
  <2>1. \E what \in Counters : Count(what)
    BY <1>2 DEF StartTurn, Reset, HookFails, ArchiveFails, Die, Close, Counters
  <2>2. PICK what \in Counters : Count(what)
    BY <2>1
  <2>3. used'.early = used.early /\ used'.unready = used.unready
    BY <2>2 DEF Count, Used, Counters
  <2> QED BY <1>1, <2>3 DEF Timely
<1>3. CASE used' = used
  BY <1>1, <1>3 DEF Timely
<1>4. CASE NotReady \/ AlarmFires
  <2>1. used' = used
    BY <1>1, <1>4 DEF NotReady, AlarmFires
  <2> QED BY <1>3, <2>1
<1>5. CASE \/ HookReturns \/ EndFlush \/ TurnStarts \/ TurnEndsEarly \/ TurnEnds
           \/ TurnParks \/ Settle \/ Archive \/ Closed \/ Rebuild \/ Hold \/ Resume \/ Evict
           \/ RetryFires \/ Restart \/ UNCHANGED vars
  <2>1. used' = used
    BY <1>5 DEF HookReturns, EndFlush, TurnStarts, TurnEndsEarly, TurnEnds, TurnParks, Settle,
                Archive, Closed, Rebuild, Hold, Resume, Evict, RetryFires, Restart, vars
  <2> QED BY <1>3, <2>1
<1> QED BY <1>2, <1>4, <1>5 DEF Next, Engine, Call, Rest

LEMMA NextCounts ==
    ASSUME Inv, CountsInv, Timely', [Next]_vars
    PROVE  CountsInv' /\ ~NotReady /\ (AlarmFires => inbox = << >>)
<1>0. /\ ~(Within("unready", MaxUnready) /\ Count("unready")) /\ ~Count("early")
      /\ used \in Used
  BY TimelyBefore DEF CountsInv
<1>1. ~NotReady /\ (AlarmFires => inbox = << >>)
  BY <1>0 DEF NotReady, AlarmFires, CountsInv
<1>2. CASE StartTurn \/ Reset \/ HookFails \/ ArchiveFails \/ Die \/ Close
  <2>1. used' \in Used
    BY <1>0, <1>2, CountType DEF StartTurn, Reset, HookFails, ArchiveFails, Die, Close
  <2>2. resources' # "failed" /\ host' = host
    BY <1>2 DEF StartTurn, Reset, HookFails, ArchiveFails, Die, Close, Ready, Lost, process,
                CountsInv
  <2> QED BY <1>1, <2>1, <2>2 DEF CountsInv
<1>3. CASE \/ HookReturns \/ EndFlush \/ TurnStarts \/ TurnEndsEarly \/ TurnEnds
           \/ TurnParks \/ Settle \/ Archive \/ Closed \/ Rebuild \/ Hold \/ Resume \/ Evict
           \/ RetryFires \/ AlarmFires \/ Restart \/ UNCHANGED vars
  <2>1. used' = used /\ host' = host
    BY <1>0, <1>3 DEF HookReturns, EndFlush, TurnStarts, TurnEndsEarly, TurnEnds, TurnParks,
                Settle, Archive, Closed, Rebuild, Hold, Resume, Evict, RetryFires, AlarmFires,
                Restart, vars
  <2>2. resources' # "failed"
    BY <1>3 DEF HookReturns, EndFlush, TurnStarts, TurnEndsEarly, TurnEnds, TurnParks, Settle,
                Archive, Closed, Rebuild, Hold, Resume, Evict, RetryFires, AlarmFires, Restart,
                vars, process, Ready, CountsInv
  <2> QED BY <1>1, <2>1, <2>2 DEF CountsInv
<1> QED BY <1>1, <1>2, <1>3 DEF Next, Engine, Call, Rest

\* After a flush, entries left in the outbox are in a pass.
LEMMA FlushCovers ==
    ASSUME Inv, FlushAnnouncements
    PROVE  /\ outbox' # << >> => flush'.stage # "none"
           /\ flush'.stage = "ending" => flush'.again
           /\ flush.stage # "none" => flush'.stage # "none"
<1>1. CASE flush.stage # "none" /\ flush' = [flush EXCEPT !.again = TRUE]
  BY <1>1 DEF Inv, DeliveryInv, Handing, Flush
<1>2. CASE flush.stage = "none" /\ outbox' = << >> /\ flush' = flush
  BY <1>2
<1>3. CASE flush.stage = "none" /\ Hand(Head(outbox'), FALSE)
  BY <1>3 DEF Hand
<1> QED BY <1>1, <1>2, <1>3 DEF FlushAnnouncements

LEMMA BuildCovers ==
    ASSUME Inv, ~live, NEW again \in BOOLEAN, FlushOnBuild(again)
    PROVE  /\ outbox # << >> => flush'.stage # "none"
           /\ flush'.stage # "ending"
<1>1. flush.stage = "none"
  BY DEF Inv, ActorInv
<1> QED BY <1>1 DEF FlushOnBuild, Hand

LEMMA WakeCovers ==
    ASSUME Inv, Wake
    PROVE  /\ outbox' # << >> => flush'.stage # "none"
           /\ flush'.stage = "ending" => flush'.again
<1>1. CASE live
  BY <1>1, FlushCovers DEF Wake
<1>2. CASE ~live
  BY <1>2, BuildCovers DEF Wake
<1> QED BY <1>1, <1>2
\* A step that keeps the outbox and the pass in flight, and arms or keeps timers.
LEMMA CourierKeeps ==
    ASSUME CourierInv, UNCHANGED <<host, outbox, flush, mode, alarmRunning>>,
           timer # "none" => timer' # "none",
           pc = "settling" => pc' = "settling" \/ outbox = << >>
    PROVE  EndingInv' /\ SomeoneDelivers' /\ (alarmRunning' => flush'.stage # "none" /\ host = "durable")
BY DEF CourierInv, CountsInv, AlarmInv, EndingInv, SomeoneDelivers

LEMMA NextAlarm ==
    ASSUME Inv, CourierInv, [Next]_vars, ~NotReady, AlarmFires => inbox = << >>
    PROVE  AlarmInv'
<1> USE DEF CourierInv, CountsInv, AlarmInv
<1> DEFINE Armed == timer # "none" => timer' # "none"
           Covered == alarmRunning' => flush'.stage # "none" /\ host' = "durable"
<1>0. inbox \in Chain /\ Len(inbox) \in Nat /\ (inbox # << >> <=> Len(inbox) > 0)
  BY LenProperties, EmptySeq DEF Inv, ActorInv, Chain
<1>1. CASE HookReturns \/ HookFails
  <2>1. UNCHANGED <<host, inbox, pc, alarmRunning>> /\ flush'.stage # "none"
    BY <1>1 DEF HookReturns, HookFails, PassEnds, chain, Inv, DeliveryInv, Handing, Flush
  <2>2. host = "durable" => Armed
    BY <1>1 DEF HookReturns, HookFails
  <2> QED BY <2>1, <2>2
<1>2. CASE EndFlush
  BY <1>2 DEF EndFlush, Hand, NoFlush, chain
<1>3. CASE StartTurn \/ Resume \/ Reset
  <2>1. PICK op \in {"turn", "reset"} : inbox' = Append(inbox, op) /\ (op = "reset" => Reset)
    BY <1>3 DEF StartTurn, Resume, Reset
  <2>2. Len(inbox') = Len(inbox) + 1 /\ inbox'[Len(inbox) + 1] = op
        /\ \A i \in 1..Len(inbox) : inbox'[i] = inbox[i]
    BY <1>0, <2>1, AppendProperties DEF Chain
  <2>3. Armed /\ host' = host /\ pc' = pc /\ (Reset /\ host = "durable" => timer' # "none")
    BY <1>3 DEF StartTurn, Resume, Reset, ArmWatchdog
  <2>4. Covered
    BY <1>3, FlushCovers DEF StartTurn, Resume, Reset, delivery
  <2>5. host' = "durable" => \A i \in 1..Len(inbox') : inbox'[i] = "reset" => timer' # "none"
    BY <1>0, <2>1, <2>2, <2>3
  <2> QED BY <2>3, <2>4, <2>5
<1>4. CASE Settle \/ Archive \/ ArchiveFails
  <2>1. inbox # << >> /\ inbox' = Tail(inbox) /\ pc' = "idle" /\ UNCHANGED <<host, timer>>
    BY <1>4 DEF Settle, Archive, ArchiveFails, AtHead, Inv, ActorInv
  <2>2. \A i \in 1..Len(inbox') : inbox'[i] = inbox[i + 1] /\ i + 1 \in 1..Len(inbox)
    BY <1>0, <2>1, HeadTailProperties DEF Chain
  <2>3. Covered
    BY <1>4, FlushCovers DEF Settle, Archive, ArchiveFails, delivery
  <2> QED BY <2>1, <2>2, <2>3
<1>5. CASE TurnStarts \/ TurnEndsEarly \/ TurnEnds \/ TurnParks
  BY <1>5 DEF TurnStarts, TurnEndsEarly, TurnEnds, TurnParks, ArmWatchdog, delivery
<1>6. CASE Hold
  BY <1>6, FlushCovers DEF Hold, ArmWatchdog, chain
<1>7. CASE Rebuild \/ Restart
  <2>1. flush.stage = "none"
    BY <1>7 DEF Rebuild, Restart, Inv, ActorInv
  <2>2. ~alarmRunning /\ UNCHANGED <<host, inbox, pc, timer, alarmRunning>>
    BY <1>7, <2>1 DEF Rebuild, Restart, chain
  <2> QED BY <2>2
<1>8. CASE Evict \/ Closed
  <2>1. flush.stage = "none"
    BY <1>8 DEF Evict, Closed, IsIdle, Inv, ActorInv
  <2> QED BY <1>8, <2>1 DEF Evict, Closed, chain
<1>9. CASE Close
  BY <1>9 DEF Close, chain, delivery
<1>10. CASE RetryFires
  BY <1>10 DEF RetryFires, chain
<1>11. CASE AlarmFires
  <2>1. inbox = << >> /\ UNCHANGED <<host, inbox, pc>>
        /\ (alarmRunning' => flush'.stage # "none") /\ host = "durable"
    BY <1>11 DEF AlarmFires, chain
  <2>2. pc # "running"
    BY <2>1 DEF Inv, ActorInv
  <2> QED BY <1>0, <2>1, <2>2
<1>12. CASE Die
  <2>1. inbox' = << >> /\ pc' = "idle" /\ alarmRunning' = FALSE
    BY <1>12 DEF Die, Lost
  <2> QED BY <2>1, EmptySeq
<1>13. CASE UNCHANGED vars
  BY <1>13 DEF vars, chain, delivery
<1> QED
  BY <1>1, <1>2, <1>3, <1>4, <1>5, <1>6, <1>7, <1>8, <1>9, <1>10, <1>11, <1>12, <1>13
     DEF Next, Engine, Call, Rest
LEMMA NextCourier ==
    ASSUME Inv, CourierInv, Timely, [Next]_vars, ~NotReady
    PROVE  EndingInv' /\ SomeoneDelivers'
<1> USE DEF CourierInv
<1>1. CASE HookReturns
  <2>1. CASE outbox' = << >>
    BY <2>1 DEF EndingInv, SomeoneDelivers
  <2>2. CASE outbox' # << >> /\ flush' = [flush EXCEPT !.head = Head(outbox')]
    <3>1. flush'.stage = "calling" /\ outbox # << >> /\ UNCHANGED <<host, alarmRunning>>
      BY <1>1, <2>2 DEF HookReturns, Inv, DeliveryInv, Handing, Flush
    <3>2. host = "durable" => timer' = timer
      BY <1>1 DEF HookReturns
    <3> QED BY <3>1, <3>2 DEF EndingInv, SomeoneDelivers, CountsInv
  <2> QED BY <1>1, <2>1, <2>2 DEF HookReturns
<1>2. CASE HookFails
  <2>1. UNCHANGED <<host, mode>> /\ (host = "durable" \/ mode = "up" => timer' = "retry")
    BY <1>2 DEF HookFails
  <2> QED BY <2>1 DEF EndingInv, SomeoneDelivers, CountsInv
<1>3. CASE EndFlush
  <2>0. UNCHANGED <<host, outbox, timer, mode, pc>>
    BY <1>3 DEF EndFlush, chain, process
  <2>1. CASE Hand(Head(outbox), FALSE) /\ UNCHANGED alarmRunning
    BY <2>0, <2>1 DEF Hand, EndingInv, SomeoneDelivers
  <2>2. CASE (~flush.again \/ outbox = << >>) /\ flush' = NoFlush
    BY <1>3, <2>0, <2>2 DEF EndFlush, NoFlush, EndingInv, SomeoneDelivers, CountsInv
  <2> QED BY <1>3, <2>1, <2>2 DEF EndFlush
<1>4. CASE Hold \/ Resume
  <2>1. UNCHANGED <<host, mode>> /\ FlushAnnouncements /\ (host = "durable" => timer' # "none")
    BY <1>4 DEF Hold, Resume, ArmWatchdog
  <2> QED BY <2>1, FlushCovers DEF EndingInv, SomeoneDelivers, CountsInv
<1>5. CASE Settle
  <2>1. UNCHANGED <<host, mode, outbox, timer, alarmRunning>> /\ FlushAnnouncements
    BY <1>5 DEF Settle, process
  <2> QED BY <2>1, FlushCovers DEF EndingInv, SomeoneDelivers, CountsInv
<1>6. CASE Archive
  <2>1. UNCHANGED <<host, mode, timer, alarmRunning>> /\ FlushAnnouncements
    BY <1>6 DEF Archive, process
  <2>2. host = "durable" => timer # "none"
    <3>1. inbox # << >> /\ Head(inbox) = "reset"
      BY <1>6 DEF Archive, AtHead
    <3>2. Len(inbox) \in Nat \ {0} /\ inbox[1] = "reset"
      BY <3>1, EmptySeq DEF Inv, ActorInv, Chain
    <3> QED BY <3>2 DEF AlarmInv
  <2> QED BY <2>1, <2>2, FlushCovers DEF EndingInv, SomeoneDelivers, CountsInv
<1>7. CASE TurnParks
  <2>1. UNCHANGED <<host, mode, timer, alarmRunning, flush>> /\ pc' = "settling" /\ pc = "running"
    BY <1>7 DEF TurnParks, process, delivery
  <2>2. host = "durable" => timer # "none"
    BY <2>1 DEF AlarmInv
  <2> QED BY <2>1, <2>2 DEF EndingInv, SomeoneDelivers, CountsInv
<1>8. CASE StartTurn \/ Reset
  BY <1>8, CourierKeeps DEF StartTurn, Reset, ArmWatchdog, process, delivery
<1>9. CASE TurnStarts \/ TurnEndsEarly \/ TurnEnds
  BY <1>9, CourierKeeps DEF TurnStarts, TurnEndsEarly, TurnEnds, AtHead, ArmWatchdog,
                            process, delivery
<1>10. CASE ArchiveFails
  BY <1>10, CourierKeeps DEF ArchiveFails, process, delivery
<1>11. CASE Rebuild \/ Restart
  <2>1. UNCHANGED <<host, outbox, timer, alarmRunning>> /\ ~live /\ FlushOnBuild(FALSE)
    BY <1>11 DEF Rebuild, Restart, Inv, ActorInv
  <2> QED BY <2>1, BuildCovers DEF EndingInv, SomeoneDelivers, CountsInv
<1>12. CASE Evict \/ Closed
  <2>1. flush.stage = "none" /\ UNCHANGED <<host, outbox, timer, alarmRunning, pc>>
        /\ flush'.stage = "none" /\ (mode' = mode \/ mode' # "up")
    BY <1>12 DEF Evict, Closed, IsIdle, NoFlush, Inv, ActorInv, chain
  <2> QED BY <2>1 DEF EndingInv, SomeoneDelivers, CountsInv
<1>13. CASE Close
  <2>1. host = "native" /\ host' = host /\ mode' # "up"
    BY <1>13 DEF Close
  <2> QED BY <2>1 DEF EndingInv, SomeoneDelivers
<1>14. CASE RetryFires \/ AlarmFires
  <2>1. Wake /\ UNCHANGED <<host, outbox>> /\ (host = "durable" => alarmRunning' = (flush'.stage # "none"))
    BY <1>14 DEF RetryFires, AlarmFires, Wake
  <2> QED BY <2>1, WakeCovers DEF EndingInv, SomeoneDelivers, CountsInv
<1>15. CASE Die
  <2>1. flush'.stage = "none" /\ UNCHANGED <<host, outbox>>
    BY <1>15 DEF Die, Lost, NoFlush
  <2>2. (host = "native" => mode' # "up") /\ (host = "durable" /\ outbox # << >> => timer' # "none")
    BY <1>15 DEF Die, SomeoneDelivers
  <2> QED BY <2>1, <2>2 DEF EndingInv, SomeoneDelivers, CountsInv
<1>16. CASE UNCHANGED vars
  BY <1>16, CourierKeeps DEF vars, chain, process, delivery
<1> QED
  BY <1>1, <1>2, <1>3, <1>4, <1>5, <1>6, <1>7, <1>8, <1>9, <1>10, <1>11, <1>12, <1>13, <1>14,
     <1>15, <1>16 DEF Next, Engine, Call, Rest

\* An entry never lies in the outbox with nobody to deliver it, as long as no alarm
\* has gone off while a turn may still record and no durable object has failed to
\* open its resources: after either, TLC shows how it does.
THEOREM EntriesHaveACourier == Spec => []SomeoneDelivers
<1> DEFINE Courier == Timely => CourierInv
<1>1. Init => Courier
  <2> SUFFICES ASSUME Init
               PROVE  CourierInv
    OBVIOUS
  <2>1. Len(<< >>) = 0
    BY EmptySeq
  <2>2. CountsInv /\ EndingInv /\ SomeoneDelivers
    BY AnnouncementsAssumption DEF Init, CountsInv, Used, Timely, EndingInv, SomeoneDelivers,
                                   NoFlush
  <2>3. AlarmInv
    BY <2>1 DEF Init, AlarmInv
  <2> QED BY <2>2, <2>3 DEF CourierInv
<1>2. Inv /\ TypeOK /\ Courier /\ [Next]_vars => Courier'
  <2> SUFFICES ASSUME Inv, TypeOK, Courier, [Next]_vars, Timely'
               PROVE  CourierInv'
    OBVIOUS
  <2>1. Timely
    BY TimelyBefore DEF TypeOK, Used
  <2>2. CourierInv
    BY <2>1
  <2>3. CountsInv' /\ ~NotReady /\ (AlarmFires => inbox = << >>)
    BY <2>2, NextCounts DEF CourierInv
  <2> QED BY <2>1, <2>2, <2>3, NextAlarm, NextCourier DEF CourierInv
<1>3. Courier => SomeoneDelivers
  BY DEF CourierInv, SomeoneDelivers
<1> HIDE DEF Courier
<1> QED BY AlwaysInv, TypeCorrect, <1>1, <1>2, <1>3, PTL DEF Spec
=============================================================================
