------------------------------ MODULE TravelEnv ------------------------------
(***************************************************************************)
(* One TravelGym episode, from reset() to its release                      *)
(* (environments/TravelGym/travelgym/env/travel_env.py).                   *)
(*                                                                         *)
(* The environment is a plain object on an asyncio loop.  Every operation  *)
(* runs without a suspension point and is one action here, except an       *)
(* Action against the remote user simulator: step_async counts the call,   *)
(* awaits the answer and only then records it.  Calls of one assistant     *)
(* message run concurrently (asyncio.gather), so anything may happen to    *)
(* the same episode between BeginAction and the end of that call.          *)
(*                                                                         *)
(* Queries, feedback texts, the public transcript and telemetry are left   *)
(* out; options are only told apart by identity, questions by their        *)
(* normalised text.                                                        *)
(***************************************************************************)
EXTENDS SimulatorContract, Sequences, FiniteSets, Functions

CONSTANTS
    Aspect,      \* categories an Actor plan can name
    NoAspect,    \* "no current aspect" (None)
    Served,      \* categories with hints and with options in the task
    Plans,       \* the plans extraction may return (<<>>: it failed)
    Option,      \* option IDs that a Search makes visible
    NoOption,    \* "not answered"
    Pref,        \* hidden preferences of the task
    PrefAspect,  \* the aspect each preference belongs to
    Question,    \* normalised Action questions
    Call,        \* identities for calls that await the simulator
    MaxSteps,    \* config.max_steps
    MaxInvalid   \* bound on the refused calls explored

ASSUME ConstantsAssumption ==
    /\ NoAspect \notin Aspect
    /\ NoOption \notin Option
    /\ Served \subseteq Aspect
    /\ PrefAspect \in [Pref -> Aspect]
    /\ MaxSteps \in Nat \ {0}
    /\ Interval \in Nat
    /\ MaxInvalid \in Nat
    /\ IsFiniteSet(Aspect) /\ IsFiniteSet(Pref)

ASSUME PlansAssumption ==
    \A p \in Plans : /\ p \in Seq(Aspect)
                     /\ \A i, j \in DOMAIN p : p[i] = p[j] => i = j

VARIABLES
    remote,         \* user_simulator_mode = "deepseek_api" (never changes)
    plan,           \* _actor_aspects, fixed by reset
    steps,          \* _steps
    current,        \* _current_aspect
    searched,       \* _searched (its keys are those of _visible)
    answers,        \* _answers; _answered is its support
    actionCount,    \* _action_counts
    remaining,      \* _remaining_preferences
    agentSeen,      \* _agent_elicited_preference_ids
    proactiveSeen,  \* _simulator_proactive_preference_ids
    asked,          \* _action_questions
    noGain,         \* _no_gain_action_counts
    useful,         \* _useful_action_count
    redundant,      \* _redundant_action_count
    invalid,        \* _invalid_calls
    nonpref,        \* _nonpreference_times
    rewardValid,    \* _reward_valid
    terminated,     \* _terminated
    truncated,      \* _truncated
    reason,         \* _termination_reason ("none" for None)
    pending         \* step_async frames suspended in evaluate_user_question

prefVars    == <<remaining, agentSeen, proactiveSeen>>
outcomeVars == <<asked, noGain, useful, redundant>>
taskVars    == <<searched, answers, current>>
statusVars  == <<terminated, truncated, reason, rewardValid>>

envVars == <<remote, plan, steps, taskVars, actionCount, prefVars, outcomeVars,
             invalid, nonpref, statusVars, pending>>

-----------------------------------------------------------------------------
(* Reading the state *)

PlanSet  == {plan[i] : i \in DOMAIN plan}
Answered == {a \in Aspect : answers[a] # NoOption}
Closed   == terminated \/ truncated

\* The first aspect of the plan outside done, or none (_advance_current).
FirstOpen(done) ==
    IF PlanSet \subseteq done
      THEN NoAspect
      ELSE plan[CHOOSE i \in DOMAIN plan :
                  /\ plan[i] \notin done
                  /\ \A j \in 1..(i - 1) : plan[j] \in done]

\* A Search and an Answer for every untouched aspect, an Answer for the rest.
MinimumCompletionSteps ==
    Cardinality(PlanSet \ Answered)
      + Cardinality(PlanSet \ (Answered \cup searched))

DeadlineIgnoresSearches(counted) ==
    MaxSteps - counted <= Cardinality(PlanSet \ Answered)

DeadlineAskedTooEarly(counted) == MaxSteps - (counted - 1) < MinimumCompletionSteps

\* _deadline_blocks_action, asked once the call itself has been counted.
DeadlineBlocks(counted) == MaxSteps - counted <= MinimumCompletionSteps

OnTargetOutOfOrder(a) == a \in PlanSet /\ a \notin Answered /\ a \in Served

\* The aspect guards every accepted operation passes.
OnTarget(a) ==
    /\ a \in PlanSet
    /\ current # NoAspect => a = current
    /\ a \notin Answered
    /\ a \in Served

-----------------------------------------------------------------------------
(* Writing the state *)

\* The check that closes an episode once its step budget is used up.
CloseAtLimit(counted) ==
    IF counted >= MaxSteps /\ ~terminated
      THEN /\ truncated' = TRUE
           /\ reason' = "max_steps"
           /\ UNCHANGED <<terminated, rewardValid>>
      ELSE UNCHANGED statusVars

MarkFailedOpen ==
    /\ rewardValid' = FALSE
    /\ reason' = "user_simulator_api_error"
    /\ UNCHANGED <<truncated, terminated>>

MarkFailed ==
    /\ rewardValid' = FALSE
    /\ truncated' = TRUE
    /\ reason' = "user_simulator_api_error"
    /\ UNCHANGED terminated

\* _reject, after `charged` steps have been added for the call.
Refuse(charged) ==
    /\ invalid < MaxInvalid
    /\ invalid' = invalid + 1
    /\ steps' = steps + charged
    /\ CloseAtLimit(steps + charged)
    /\ UNCHANGED <<remote, plan, taskVars, actionCount, prefVars, outcomeVars,
                   nonpref, pending>>

RevealUnfiltered(byAgent, bySimulator) ==
    /\ remaining' = remaining \ (byAgent \cup bySimulator)
    /\ agentSeen' = agentSeen \cup byAgent
    /\ proactiveSeen' = proactiveSeen \cup bySimulator

\* Only preferences still hidden are revealed; the Actor's claim wins.
Reveal(byAgent, bySimulator) ==
    LET newAgent     == byAgent \cap remaining
        newProactive == (bySimulator \cap remaining) \ newAgent
    IN  /\ remaining' = remaining \ (newAgent \cup newProactive)
        /\ agentSeen' = agentSeen \cup newAgent
        /\ proactiveSeen' = proactiveSeen \cup newProactive

RecordOutcomeOncePerQuestion(a, q, newAgent) ==
    /\ asked' = [asked EXCEPT ![a] = @ \cup {q}]
    /\ useful' = IF newAgent # {} THEN useful + 1 ELSE useful
    /\ noGain' = IF newAgent # {} \/ q \in asked[a]
                   THEN noGain
                   ELSE [noGain EXCEPT ![a] = @ + 1]
    /\ redundant' = IF q \in asked[a] THEN redundant + 1 ELSE redundant

\* _record_action_outcome
RecordOutcome(a, q, newAgent) ==
    LET gains == newAgent # {}
    IN  /\ asked' = [asked EXCEPT ![a] = @ \cup {q}]
        /\ useful' = IF gains THEN useful + 1 ELSE useful
        /\ noGain' = IF gains THEN noGain ELSE [noGain EXCEPT ![a] = @ + 1]
        /\ redundant' = IF q \in asked[a] \/ (~gains /\ noGain[a] >= 1)
                          THEN redundant + 1
                          ELSE redundant

-----------------------------------------------------------------------------
(* reset *)

Init ==
    /\ remote \in BOOLEAN
    /\ plan \in Plans
    /\ steps = 0
    /\ current = FirstOpen({})
    /\ searched = {}
    /\ answers = [a \in Aspect |-> NoOption]
    /\ actionCount = [a \in Aspect |-> 0]
    /\ remaining = Pref
    /\ agentSeen = {}
    /\ proactiveSeen = {}
    /\ asked = [a \in Aspect |-> {}]
    /\ noGain = [a \in Aspect |-> 0]
    /\ useful = 0
    /\ redundant = 0
    /\ invalid = 0
    /\ nonpref = 0
    /\ rewardValid = TRUE
    /\ terminated = FALSE
    /\ truncated = FALSE
    /\ reason = "none"
    /\ pending = {}
-----------------------------------------------------------------------------
(* step *)

\* A call that parses but fails a guard; empty content always does.
RejectCall == ~Closed /\ Refuse(1)

\* A call that does not parse is refused before it is counted.
RejectUnparsed == ~Closed /\ Refuse(0)

\* A call after the end of the episode is counted as invalid only.
RejectFinished == Closed /\ Refuse(0)

\* A call the tool adapter could not normalise never reaches step.
RegisterExternalInvalidCall == Refuse(IF Closed THEN 0 ELSE 1)

Search(a) ==
    /\ ~Closed
    /\ OnTarget(a)
    /\ a \notin searched
    /\ steps' = steps + 1
    /\ searched' = searched \cup {a}
    /\ CloseAtLimit(steps + 1)
    /\ UNCHANGED <<remote, plan,
                   answers, current, actionCount, prefVars, outcomeVars,
                   invalid, nonpref, pending>>

\* An Action answered by the local simulator, in one piece.
LocalAction(a, q) ==
    /\ ~remote
    /\ ~Closed
    /\ OnTarget(a)
    /\ a \in searched
    /\ ~DeadlineBlocks(steps + 1)
    /\ steps' = steps + 1
    /\ actionCount' = [actionCount EXCEPT ![a] = @ + 1]
    /\ LET held == {p \in remaining : PrefAspect[p] = a}
       IN  \E told \in IF held = {} THEN {{}} ELSE {{p} : p \in held} :
             /\ Reveal(told, {})
             /\ RecordOutcome(a, q, told)
    /\ CloseAtLimit(steps + 1)
    /\ UNCHANGED <<remote, plan, taskVars, invalid, nonpref, pending>>

Answer(a, o) ==
    /\ ~Closed
    /\ OnTarget(a)
    /\ a \in searched
    /\ steps' = steps + 1
    /\ answers' = [answers EXCEPT ![a] = o]
    /\ remaining' = {p \in remaining : PrefAspect[p] # a}
    /\ current' = FirstOpen(Answered \cup {a})
    /\ IF current' = NoAspect
         THEN /\ terminated' = TRUE
              /\ reason' = "all_aspects_answered"
              /\ UNCHANGED <<truncated, rewardValid>>
         ELSE CloseAtLimit(steps + 1)
    /\ UNCHANGED <<remote, plan,
                   searched, actionCount, agentSeen, proactiveSeen,
                   outcomeVars, invalid, nonpref, pending>>

Finish ==
    /\ ~Closed
    /\ steps' = steps + 1
    /\ terminated' = TRUE
    /\ reason' = "finish"
    /\ UNCHANGED <<remote, plan,
                   taskVars, actionCount, prefVars, outcomeVars, invalid,
                   nonpref, truncated, rewardValid, pending>>

-----------------------------------------------------------------------------
(* step_async: an Action against the remote simulator *)

\* Up to the await: the call is counted and the simulator's inputs are read.
BeginAction(c, a, q) ==
    /\ remote
    /\ \A r \in pending : r.call # c
    /\ ~Closed
    /\ OnTarget(a)
    /\ a \in searched
    /\ ~DeadlineBlocks(steps + 1)
    /\ steps' = steps + 1
    /\ actionCount' = [actionCount EXCEPT ![a] = @ + 1]
    /\ pending' = pending \cup {[call |-> c, aspect |-> a, question |-> q,
                                 offered |-> remaining, nonpref |-> nonpref]}
    /\ UNCHANGED <<remote, plan,
                   taskVars, prefVars, outcomeVars, invalid, nonpref,
                   statusVars>>

\* From the await on, when the simulator answered.
CompleteAction(r) ==
    /\ r \in pending
    /\ pending' = pending \ {r}
    /\ \E turn \in SimulatorTurns(r) :
         /\ Reveal(turn.agent, turn.simulator)
         /\ RecordOutcome(r.aspect, r.question, turn.agent \cap remaining)
         /\ nonpref' = turn.nonpref
    /\ IF steps >= MaxSteps
         THEN /\ truncated' = TRUE
              /\ reason' = "max_steps"
              /\ UNCHANGED <<terminated, rewardValid>>
         ELSE UNCHANGED statusVars
    /\ UNCHANGED <<remote, plan, steps, taskVars, actionCount, invalid>>

\* The simulator gave up (UserSimulatorError), or the tool's timeout cancelled
\* the call and marked the episode (mark_user_simulator_failure).
FailAction(r) ==
    /\ r \in pending
    /\ pending' = pending \ {r}
    /\ MarkFailed
    /\ UNCHANGED <<remote, plan,
                   steps, taskVars, actionCount, prefVars, outcomeVars,
                   invalid, nonpref>>

-----------------------------------------------------------------------------

Rejection ==
    \/ RejectCall
    \/ RejectUnparsed
    \/ RejectFinished
    \/ RegisterExternalInvalidCall

Next ==
    \/ Rejection
    \/ \E a \in Aspect : Search(a)
    \/ \E a \in Aspect, q \in Question : LocalAction(a, q)
    \/ \E a \in Aspect, o \in Option : Answer(a, o)
    \/ Finish
    \/ \E c \in Call, a \in Aspect, q \in Question : BeginAction(c, a, q)
    \/ \E r \in pending : CompleteAction(r)
    \/ \E r \in pending : FailAction(r)

Spec == Init /\ [][Next]_envVars

-----------------------------------------------------------------------------
(* Properties *)

PendingCall == [call : Call, aspect : Aspect, question : Question,
                offered : SUBSET Pref, nonpref : Nat]

\* Every variable stays in the range the code gives it.
TypeOK ==
    /\ remote \in BOOLEAN
    /\ plan \in Plans
    /\ steps \in Nat
    /\ current \in Aspect \cup {NoAspect}
    /\ searched \subseteq Aspect
    /\ answers \in [Aspect -> Option \cup {NoOption}]
    /\ actionCount \in [Aspect -> Nat]
    /\ remaining \subseteq Pref
    /\ agentSeen \subseteq Pref
    /\ proactiveSeen \subseteq Pref
    /\ asked \in [Aspect -> SUBSET Question]
    /\ noGain \in [Aspect -> Nat]
    /\ useful \in Nat
    /\ redundant \in Nat
    /\ invalid \in Nat
    /\ nonpref \in Nat
    /\ rewardValid \in BOOLEAN
    /\ terminated \in BOOLEAN
    /\ truncated \in BOOLEAN
    /\ reason \in {"none", "finish", "all_aspects_answered", "max_steps",
                   "user_simulator_api_error"}
    /\ pending \subseteq PendingCall

\* The budget is never overrun, whatever runs concurrently, and an episode
\* that used it up is closed: the guards test before, the limit after a call.
StepBudget ==
    /\ steps <= MaxSteps
    /\ ~Closed => steps < MaxSteps

\* What _deadline_blocks_action is for: as long as the episode is open, only
\* refused calls can have eaten into the steps the rest of the plan needs.  An
\* agent that makes none can always finish a plan that fitted in the first
\* place, however many Actions it mixes in or runs in parallel.
BudgetSuffices ==
    ~Closed /\ 2 * Len(plan) <= MaxSteps
      => MinimumCompletionSteps <= (MaxSteps - steps) + invalid

\* The reason a report shows is backed by the state it describes: the maximum
\* steps penalty is charged only when the steps are gone, completion is
\* claimed only for a finished plan, a failed episode never looks open.
ReasonIsBacked ==
    /\ reason = "none" <=> ~Closed
    /\ reason = "max_steps" => truncated /\ steps >= MaxSteps
    /\ reason = "all_aspects_answered" => terminated /\ PlanSet \subseteq Answered
    /\ ~rewardValid => truncated

\* Each hidden preference is credited at most once, to the Actor or to the
\* simulator, although several answers may name it.
NoDoubleCredit ==
    /\ agentSeen \cap proactiveSeen = {}
    /\ remaining \cap (agentSeen \cup proactiveSeen) = {}

\* Nothing is credited after its aspect was answered, even when the answer
\* overtakes the Action that was asking (stale `available` of step_async).
NoLateCredit ==
    [][\A p \in (agentSeen' \cup proactiveSeen') \ (agentSeen \cup proactiveSeen) :
          PrefAspect[p] \notin Answered]_envVars

\* Every counted Action has one outcome, or still awaits it; outcomes get lost
\* only in an episode whose reward is void.
OutcomeAccounting ==
    rewardValid =>
      SumFunction(actionCount) = useful + SumFunction(noGain) + Cardinality(pending)

\* The first Action that comes back for an aspect is never held against the
\* Actor, whichever of the concurrent ones it is.
RedundancyGrace ==
    redundant + Cardinality({a \in Aspect : asked[a] # {}})
      <= useful + SumFunction(noGain)

\* A closed episode stays closed and what its completion is scored on is
\* frozen, although suspended Actions still return into it.
ClosedIsFrozen ==
    [][Closed => Closed' /\ UNCHANGED <<steps, taskVars, actionCount>>]_envVars

\* The public protocol: per aspect unsearched -> searched -> answered, in the
\* order of the plan, until the episode closes for good.
Episode == INSTANCE TravelEpisode WITH answered <- Answered, closed <- Closed

FollowsProtocol == Episode!Spec

=============================================================================
