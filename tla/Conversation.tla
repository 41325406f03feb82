---------------------------- MODULE Conversation ----------------------------
(***************************************************************************)
(* What a session promises of its transcript, without how: turns speak one *)
(* after the other, each from its opening to its final reply and never     *)
(* again once another has opened; every call a reply makes gets one result *)
(* before anything else is said; the seat goes to the first identified     *)
(* turn; a reset starts over.  The promises are those of the comments on   *)
(* SessionStore, runTurn and AgentSession in                               *)
(* packages/core/src/agent-runtime.ts.                                     *)
(***************************************************************************)
CONSTANTS Turns, Calls, Batches, Principals, PrincipalOf, NoPrincipal, NoTurn

VARIABLES opened,   \* the turns that have opened
          speaker,  \* the one that opened last, or NoTurn
          voice,    \* the turn whose reply is the latest, or NoTurn
          final,    \* is nothing but a new opening to come?
          owed,     \* the calls of the latest reply that have no result
          seat      \* the session's initiator

vars == <<opened, speaker, voice, final, owed, seat>>

Init == /\ opened = {} /\ speaker = NoTurn /\ voice = NoTurn /\ final = FALSE /\ owed = {}
        /\ seat = NoPrincipal

\* A turn opens, and takes the seat if it is free and the turn is identified.
Open(t) ==
    /\ t \notin opened /\ owed = {}
    /\ opened' = opened \cup {t} /\ speaker' = t
    /\ final' = FALSE
    /\ seat' = IF seat = NoPrincipal THEN PrincipalOf[t] ELSE seat
    /\ UNCHANGED <<voice, owed>>

\* The turn that opened last speaks; a reply without calls is its last.
Reply(b) ==
    /\ speaker # NoTurn /\ owed = {} /\ ~final
    /\ voice' = speaker
    /\ owed' = {b[i] : i \in DOMAIN b}
    /\ final' = (b = << >>)
    /\ UNCHANGED <<opened, speaker, seat>>

Result(c) ==
    /\ c \in owed
    /\ owed' = owed \ {c}
    /\ UNCHANGED <<opened, speaker, voice, final, seat>>

\* A cancelled turn's calls are closed at once.
CloseBatch ==
    /\ owed # {}
    /\ owed' = {}
    /\ UNCHANGED <<opened, speaker, voice, final, seat>>

Archive == /\ opened' = {} /\ speaker' = NoTurn /\ voice' = NoTurn /\ final' = FALSE /\ owed' = {}
           /\ seat' = NoPrincipal

Next ==
    \/ \E t \in Turns : Open(t)
    \/ \E b \in Batches : Reply(b)
    \/ \E c \in Calls : Result(c)
    \/ CloseBatch \/ Archive

Spec == Init /\ [][Next]_vars
=============================================================================
