---------------------------- MODULE TravelEpisode ----------------------------
(***************************************************************************)
(* What an episode promises its callers: every aspect of the plan goes     *)
(* from unsearched to searched to answered, one aspect at a time in the    *)
(* order of the plan, and once closed the episode is over.  The guards it  *)
(* abstracts are those of TravelEnv.step                                   *)
(* (environments/TravelGym/travelgym/env/travel_env.py).                   *)
(***************************************************************************)
EXTENDS Integers, Sequences

CONSTANTS Aspect, Plans

VARIABLES plan, searched, answered, closed

vars == <<plan, searched, answered, closed>>

Done == \A i \in DOMAIN plan : plan[i] \in answered

\* a is the first aspect of the plan that has no answer.
IsCurrent(a) ==
    \E i \in DOMAIN plan :
        /\ plan[i] = a
        /\ a \notin answered
        /\ \A j \in 1..(i - 1) : plan[j] \in answered

Init ==
    /\ plan \in Plans
    /\ searched = {}
    /\ answered = {}
    /\ closed = FALSE

Search(a) ==
    /\ ~closed
    /\ IsCurrent(a)
    /\ a \notin searched
    /\ searched' = searched \cup {a}
    /\ closed' \in BOOLEAN
    /\ UNCHANGED <<plan, answered>>

\* The last answer closes the episode, any other may (the budget is used up).
Answer(a) ==
    /\ ~closed
    /\ IsCurrent(a)
    /\ a \in searched
    /\ answered' = answered \cup {a}
    /\ closed' \in BOOLEAN
    /\ Done' => closed'
    /\ UNCHANGED <<plan, searched>>

Close ==
    /\ ~closed
    /\ closed' = TRUE
    /\ UNCHANGED <<plan, searched, answered>>

Next ==
    \/ \E a \in Aspect : Search(a) \/ Answer(a)
    \/ Close

Spec == Init /\ [][Next]_vars

=============================================================================
