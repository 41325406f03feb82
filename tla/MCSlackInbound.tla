---------------------------- MODULE MCSlackInbound ----------------------------
(* Two events, two isolates that remember one of them each, and an approver *)
(* and a passer-by who both click.                                          *)
EXTENDS SlackInbound

MCUsers == {"boss", "guest"}
MCApprovers == {"boss"}
MCArrivals == {{"events"}, {"clicks"}}

\* Events are alike, and so are isolates.
MCSymmetry == Permutations(Events) \cup Permutations(Isolates)
=============================================================================
