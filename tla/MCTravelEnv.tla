----------------------------- MODULE MCTravelEnv -----------------------------
(***************************************************************************)
(* Small episodes for TLC: two served aspects, one the task has no options *)
(* for, plans that cover all, part or none of it.                          *)
(***************************************************************************)
EXTENDS TravelEnv, TLC

CONSTANTS flight, hotel, lounge, p1, p2, c1, c2, q1, q2

MCAspect     == {flight, hotel, lounge}
MCServed     == {flight, hotel}
MCPref       == {p1, p2}
MCPrefAspect == (p1 :> flight @@ p2 :> hotel)
MCPlans      == {<<flight, hotel>>, <<flight, lounge>>, <<hotel>>, <<>>}
MCCalls      == {c1, c2}

MCQuestions  == {q1, q2}

Symmetry == Permutations(MCCalls) \cup Permutations(MCQuestions)

=============================================================================
