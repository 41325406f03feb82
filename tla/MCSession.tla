----------------------------- MODULE MCSession -----------------------------
(* Instances of AgentSession for TLC.                                      *)
EXTENDS SessionConversation

CONSTANTS t1, t2, t3, local, remote, ask, ann, bob

\* Replies: the final one, and one call that parks; a call behind one that
\* parks; a call before one that parks, or one that fails the turn.
AskBatches   == {<< >>, <<ask>>}
MixedBatches == {<< >>, <<ask, local>>}
AllBatches   == {<< >>, <<local, ask>>, <<remote>>}

\* The first turn is anonymous; every turn is identified.
AnnThenBob == [t \in Turns |-> IF t = t1 THEN NoPrincipal ELSE IF t = t2 THEN ann ELSE bob]
BobThenAnn == [t \in Turns |-> IF t = t1 THEN bob ELSE ann]
=============================================================================
