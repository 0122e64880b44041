-------------------------- MODULE SimulatorContract --------------------------
(***************************************************************************)
(* What evaluate_user_question promises its caller, in the terms of the    *)
(* environment: which turns it may return for the inputs step_async read.  *)
(* TravelEnv assumes it; SimulatorCalls is checked to keep it.             *)
(***************************************************************************)
EXTENDS Integers

CONSTANT Interval    \* config.elicitation_interval

\* The turns evaluate_user_question may return for the inputs r.
SimulatorTurns(r) ==
    {[agent |-> {p}, simulator |-> {}, nonpref |-> 0] : p \in r.offered}
      \cup
    IF r.nonpref >= Interval /\ r.offered # {}
      THEN {[agent |-> {}, simulator |-> {p}, nonpref |-> 0] : p \in r.offered}
      ELSE {[agent |-> {}, simulator |-> {}, nonpref |-> r.nonpref + 1]}

=============================================================================
