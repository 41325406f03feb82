------------------------ MODULE SessionConversation ------------------------
(***************************************************************************)
(* AgentSession implements Conversation: the transcript is read off the    *)
(* log.  Notes are not part of a conversation.                             *)
(***************************************************************************)
EXTENDS AgentSession

At(l, role) == {i \in 1..Len(l) : l[i].role = role}

\* The turns that have opened in the log l, and whose the last message of a role is.
OpenedIn(l) == {l[i].turn : i \in At(l, "user")}

Latest(l, role) == {i \in At(l, role) : \A j \in At(l, role) : j <= i}
LatestTurn(l, role) ==
    IF Latest(l, role) = {} THEN NoTurn ELSE l[CHOOSE i \in Latest(l, role) : TRUE].turn

Told == INSTANCE Conversation WITH
    opened  <- OpenedIn(log),
    speaker <- LatestTurn(log, "user"),
    voice   <- LatestTurn(log, "assistant"),
    final   <- EndsInFinalReply,
    owed    <- OwedBy(Turns, Len(log)),
    seat    <- initiator

\* The session is a conversation: one turn at a time, no turn's words under
\* another's opening, every call answered once before anything else is said.
IsConversation == Told!Spec
=============================================================================
