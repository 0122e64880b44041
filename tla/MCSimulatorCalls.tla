--------------------------- MODULE MCSimulatorCalls ---------------------------
(* Two callers that share a loop, its only slot and, often, their prompts. *)
EXTENDS SimulatorCalls, TLC

CONSTANTS c1, c2, here, q1, p1, p2

MCCaller == {c1, c2}
MCLoopOf == (c1 :> here @@ c2 :> here)

\* A fresh question, one due for a preference nobody asked for, and one with
\* no preference left.
MCArguments ==
    [question : {q1}, offered : {{p1}, {p1, p2}}, nonpref : {0, 1}]
      \cup [question : {q1}, offered : {{}}, nonpref : {1}]

=============================================================================
