--------------------------- MODULE MCRolloutRequest ---------------------------
(* Requests small enough for TLC: two calls per message, two aspects. *)
EXTENDS RolloutRequest, TLC

CONSTANTS flight, hotel, p1, p2, c1, c2, c3

MCAspect     == {flight, hotel}
MCPref       == {p1, p2}
MCPrefAspect == (p1 :> flight @@ p2 :> flight)
MCPlans      == {<<flight, hotel>>, <<flight>>}
MCCalls      == {c1, c2}
MCThreeCalls == {c1, c2, c3}

=============================================================================
