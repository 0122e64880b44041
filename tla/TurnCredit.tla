----------------------------- MODULE TurnCredit -----------------------------
(***************************************************************************)
(* Turn credit (verl/trainer/ppo/core_algos.py): each component of the      *)
(* terminal reward has one group-relative advantage per rollout, and this   *)
(* module says to which of the rollout's turns it is routed.                *)
(*                                                                          *)
(* A turn is the coalesced event of its message: the kinds of what its      *)
(* calls did, the preferences they elicited and the aspect of the last of   *)
(* them.  Weights are natural numbers, proportional to the shares of the    *)
(* code (which are normalised there): Scale is divisible by every number of *)
(* turns of a rollout.                                                      *)
(***************************************************************************)
EXTENDS Integers, Sequences, FiniteSets, FiniteSetsExt, Functions

CONSTANT Scale    \* common denominator of the shares of a component

ASSUME ScaleIsPositive == Scale \in Nat \ {0}

\* What one call did, by the flags of build_turn_credit_event.
Kinds == {"search", "useful", "idle", "redundant", "right", "best", "legal", "wrong",
          "invalid", "refused"}

\* The components that follow a chain of answers: which answers, and the shares
\* of the search, the actions and the answer of an answered aspect.
Chain(flag, search, action, answer) ==
  [flag |-> flag, search |-> search, action |-> action, answer |-> answer]
AnswerRoutes ==
  [correct_completion                 |-> Chain("right", 15, 25, 60),
   coverage_adjusted_answer_quality   |-> Chain("best", 10, 35, 55),
   coverage_adjusted_legal_chain_rate |-> Chain("legal", 25, 35, 40)]

\* Components by the route they take: "max_steps_penalty" stands for that of an
\* incomplete episode and of one without an answer too, "other" for the rest.
Components ==
  DOMAIN AnswerRoutes \cup
    {"hidden_preference_hit_rate", "policy_penalty", "redundant_action_penalty",
     "max_steps_penalty", "clip_residual", "other"}

\* _coalesce_turn_event: one event for the calls of a message, and the empty one
\* of a turn without any.
Coalesced(calls) ==
  [kinds    |-> UNION {{calls[i].kind} \cup calls[i].also : i \in DOMAIN calls},
   gain     |-> SumFunction([i \in DOMAIN calls |-> calls[i].gain]),
   aspect   |-> calls[Len(calls)].aspect,
   reported |-> TRUE]
Unreported == [kinds |-> {}, gain |-> 0, aspect |-> 0, reported |-> FALSE]

With(events, kinds) == {i \in DOMAIN events : events[i].kinds \cap kinds # {}}
Equal(turns, events) == [i \in DOMAIN events |-> IF i \in turns THEN 1 ELSE 0]

\* Mutant: the actions and the search of any aspect share in an answer.
AnswerChainOfAnyAspect(events, chain) ==
  LET Before(a, kind) == {i \in With(events, {kind}) : i < a}
      Shares(i) == [a \in With(events, {chain.flag}) |->
        (IF i \in Before(a, "search") THEN chain.search * Scale ELSE 0)
          + (IF i \in Before(a, "useful") THEN chain.action * Scale ELSE 0)
          + (IF i = a THEN chain.answer * Scale ELSE 0)]
  IN [i \in DOMAIN events |-> SumFunction(Shares(i))]

\* _answer_chain_turn_weights: an answer with the flag shares with the first search and
\* the useful actions of its aspect that came before it, and keeps the share of
\* what is missing.
AnswerChain(events, chain) ==
  LET Before(a, kind) ==
        {i \in With(events, {kind}) : i < a /\ events[i].aspect = events[a].aspect}
      Searcher(a) == IF Before(a, "search") = {} THEN a ELSE Min(Before(a, "search"))
      Askers(a) == IF Before(a, "useful") = {} THEN {a} ELSE Before(a, "useful")
      Shares(i) == [a \in With(events, {chain.flag}) |->
        (IF i = Searcher(a) THEN chain.search * Scale ELSE 0)
          + (IF i \in Askers(a) THEN (chain.action * Scale) \div Cardinality(Askers(a)) ELSE 0)
          + (IF i = a THEN chain.answer * Scale ELSE 0)]
  IN [i \in DOMAIN events |-> SumFunction(Shares(i))]

\* A useful Action counts by the preferences it elicited.
Elicited(events) ==
  [i \in DOMAIN events |->
     IF "useful" \notin events[i].kinds THEN 0
     ELSE IF events[i].gain > 1 THEN events[i].gain ELSE 1]

Offenders(events) == With(events, {"invalid", "refused", "wrong"})
Progress(events) == {i \in With(events, {"search", "useful", "right", "wrong"}) :
                       {"invalid", "refused"} \cap events[i].kinds = {}}

\* Twice the blame of each turn: an idle question has half that of an offence.
Waste(events) ==
  LET redundant == With(events, {"redundant"})
  IN [i \in DOMAIN events |->
        (IF i \in Offenders(events) THEN 2 ELSE 0)
          + (IF i \in redundant THEN 2 ELSE IF "idle" \in events[i].kinds THEN 1 ELSE 0)]

\* The penalty of an episode left unfinished: 70% to the turns that wasted its
\* budget, in equal parts, and 30% to the last one, which takes all if none did.
Unfinished(events) ==
  LET wasteful == {i \in DOMAIN events : Waste(events)[i] > 0}
  IN [i \in DOMAIN events |->
        (IF i \in wasteful THEN (70 * Scale) \div Cardinality(wasteful) ELSE 0)
          + (IF i = Len(events) THEN IF wasteful = {} THEN 100 * Scale ELSE 30 * Scale ELSE 0)]

\* _behavior_component_turn_weights, for a component whose advantage is not
\* negative (`gain`) or negative.
Routed(component, gain, events) ==
  LET last == Equal({Len(events)}, events)
      redundant == With(events, {"redundant"})
      completed == With(events, {"right", "wrong"})
      progress == Progress(events)
  IN CASE component \in DOMAIN AnswerRoutes /\ gain
            /\ With(events, {AnswerRoutes[component].flag}) # {} ->
            AnswerChain(events, AnswerRoutes[component])
       [] component = "hidden_preference_hit_rate" /\ With(events, {"useful"}) # {} ->
            Elicited(events)
       [] component = "policy_penalty" /\ ~gain /\ Offenders(events) # {} ->
            [i \in DOMAIN events |-> IF "wrong" \in events[i].kinds THEN 2
                                     ELSE IF i \in Offenders(events) THEN 1 ELSE 0]
       [] component = "redundant_action_penalty" /\ ~gain /\ redundant # {} ->
            Equal(redundant, events)
       [] component = "max_steps_penalty" ->
            IF gain THEN Equal(IF completed # {} THEN completed ELSE progress, events)
                    ELSE Unfinished(events)
       [] component = "clip_residual" -> last
       [] OTHER ->
            IF gain THEN Equal(IF progress # {} THEN progress ELSE DOMAIN events, events)
            ELSE IF SumFunction(Waste(events)) > 0 THEN Waste(events) ELSE last

\* redistribute_behavior_component_turn_credit: a component no turn is routed
\* to is spread over all of them, so that its advantage is not lost.  A rollout
\* without any report keeps its terminal advantages: nothing is routed at all.
Credit(component, gain, events) ==
  LET routed == Routed(component, gain, events)
  IN IF \A i \in DOMAIN events : ~events[i].reported THEN Equal({}, events)
     ELSE IF SumFunction(routed) > 0 THEN routed
     ELSE Equal(DOMAIN events, events)

=============================================================================
