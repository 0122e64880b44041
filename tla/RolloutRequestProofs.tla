------------------------ MODULE RolloutRequestProofs ------------------------
(***************************************************************************)
(* Proofs about one TravelGym episode and the rollout request that plays   *)
(* it, for every plan, every step budget, every number of concurrent calls *)
(* and of turns.                                                           *)
(*                                                                         *)
(* First the environment by itself: facts about finite plans and their     *)
(* first open aspect; types; the step budget; the reason of an ended       *)
(* episode; what is credited; the abstract protocol; sums over a finite    *)
(* set; the outcomes of Actions.  Each part has an inductive invariant of  *)
(* its own that uses those before it.                                      *)
(*                                                                         *)
(* Then the request: its steps are steps of the environment or leave it    *)
(* alone, so what was shown holds of the composed system; the rest is      *)
(* about the frames of the calls of a message.                             *)
(***************************************************************************)
EXTENDS RolloutRequest, TLAPS, FiniteSetTheorems

-----------------------------------------------------------------------------
(* The plan and its first open aspect *)

\* A nonempty set of naturals has a least element.
LEMMA LeastNatural ==
    ASSUME NEW T, T \subseteq Nat, T # {}
    PROVE  \E m \in T : \A n \in T : m <= n
<1>1. PICK m \in T : \A n \in T : ~(<<n, m>> \in OpToRel(<, Nat))
  BY NatLessThanWellFounded, WFMin
<1>2. OpToRel(<, Nat) = {ss \in Nat \X Nat : ss[1] < ss[2]}
  BY DEF OpToRel
<1>3. ASSUME NEW n \in T PROVE m <= n
  <2>1. <<n, m>> \in Nat \X Nat
    OBVIOUS
  <2>2. ~(n < m)
    BY <1>1, <1>2, <2>1
  <2>3. QED
    BY <2>2
<1>4. QED
  BY <1>3

\* _advance_current finds the first aspect of the plan outside done.
LEMMA FirstOpenIsFirst ==
    ASSUME NEW done, plan \in Seq(Aspect), ~(PlanSet \subseteq done)
    PROVE  \E i \in DOMAIN plan :
             /\ FirstOpen(done) = plan[i]
             /\ plan[i] \notin done
             /\ \A j \in 1..(i - 1) : plan[j] \in done
<1> DEFINE Open == {i \in DOMAIN plan : plan[i] \notin done}
<1>1. Open \subseteq Nat /\ Open # {} /\ DOMAIN plan = 1..Len(plan) /\ Len(plan) \in Nat
  BY DEF PlanSet
<1>2. PICK m \in Open : \A n \in Open : m <= n
  BY <1>1, LeastNatural
<1>3. \A j \in 1..(m - 1) : plan[j] \in done
  BY <1>1, <1>2
<1>4. \E i \in DOMAIN plan : plan[i] \notin done /\ \A j \in 1..(i - 1) : plan[j] \in done
  BY <1>2, <1>3
<1>5. QED
  BY <1>4 DEF FirstOpen

LEMMA FirstOpenType ==
    ASSUME NEW done, plan \in Seq(Aspect)
    PROVE  /\ FirstOpen(done) \in Aspect \cup {NoAspect}
           /\ FirstOpen(done) = NoAspect <=> PlanSet \subseteq done
<1>1. CASE PlanSet \subseteq done
  BY <1>1 DEF FirstOpen
<1>2. CASE ~(PlanSet \subseteq done)
  <2>1. FirstOpen(done) \in Aspect
    BY <1>2, FirstOpenIsFirst
  <2>2. QED
    BY <1>2, <2>1, ConstantsAssumption
<1>3. QED
  BY <1>1, <1>2

\* The plan is finite and has at most as many aspects as entries.
LEMMA PlanIsFinite ==
    ASSUME plan \in Seq(Aspect)
    PROVE  /\ IsFiniteSet(PlanSet)
           /\ Cardinality(PlanSet) \in Nat
           /\ Cardinality(PlanSet) <= Len(plan)
<1>1. plan \in Surjection(1..Len(plan), PlanSet)
  BY DEF Surjection, PlanSet
<1>2. Len(plan) \in Nat
  OBVIOUS
<1>3. IsFiniteSet(1..Len(plan)) /\ Cardinality(1..Len(plan)) = Len(plan)
  <2>1. /\ IsFiniteSet(1..Len(plan))
        /\ Cardinality(1..Len(plan)) = IF 1 > Len(plan) THEN 0 ELSE Len(plan) - 1 + 1
    BY <1>2, FS_Interval
  <2>2. QED
    BY <1>2, <2>1
<1>4. QED
  BY <1>1, <1>3, FS_Surjection, FS_CardinalityType

-----------------------------------------------------------------------------
(* Types *)

\* Every way to refuse a call is a _reject that charges a step or none, and
\* none once the episode is closed.
LEMMA RejectionIsRefuse ==
    Rejection => Refuse(0) \/ (~Closed /\ Refuse(1))
BY DEF Rejection, RejectCall, RejectUnparsed, RejectFinished,
       RegisterExternalInvalidCall

StatusOK ==
    /\ rewardValid \in BOOLEAN
    /\ terminated \in BOOLEAN
    /\ truncated \in BOOLEAN
    /\ reason \in {"none", "finish", "all_aspects_answered", "max_steps",
                   "user_simulator_api_error"}

LEMMA CloseAtLimitType ==
    ASSUME NEW k, StatusOK, CloseAtLimit(k)
    PROVE  StatusOK'
BY DEF StatusOK, CloseAtLimit, statusVars

LEMMA RevealType ==
    ASSUME TypeOK, NEW byAgent, NEW bySimulator, Reveal(byAgent, bySimulator)
    PROVE  (remaining \subseteq Pref /\ agentSeen \subseteq Pref
              /\ proactiveSeen \subseteq Pref)'
BY DEF TypeOK, Reveal

LEMMA RecordOutcomeType ==
    ASSUME TypeOK, NEW a \in Aspect, NEW q \in Question, NEW new,
           RecordOutcome(a, q, new)
    PROVE  (/\ asked \in [Aspect -> SUBSET Question]
            /\ noGain \in [Aspect -> Nat]
            /\ useful \in Nat
            /\ redundant \in Nat)'
BY DEF TypeOK, RecordOutcome

\* The plan an episode runs on is a sequence of aspects.
LEMMA PlanType == TypeOK => plan \in Seq(Aspect)
BY PlansAssumption DEF TypeOK

LEMMA InitType == Init => TypeOK
<1> SUFFICES ASSUME Init PROVE TypeOK
  OBVIOUS
<1>1. plan \in Seq(Aspect)
  BY PlansAssumption DEF Init
<1>2. current \in Aspect \cup {NoAspect}
  BY <1>1, FirstOpenType DEF Init
<1>3. QED
  BY <1>2 DEF Init, TypeOK

LEMMA NextType == TypeOK /\ [Next]_envVars => TypeOK'
<1> SUFFICES ASSUME TypeOK, [Next]_envVars PROVE TypeOK'
  OBVIOUS
<1>0. StatusOK /\ steps \in Nat
  BY DEF TypeOK, StatusOK
<1>1. ASSUME NEW n \in {0, 1}, Refuse(n) PROVE TypeOK'
  <2>1. StatusOK'
    BY <1>0, <1>1, CloseAtLimitType DEF Refuse
  <2>2. QED
    BY <1>1, <2>1 DEF TypeOK, StatusOK, Refuse, taskVars, prefVars, outcomeVars
<1>2. CASE Rejection
  BY <1>1, <1>2, RejectionIsRefuse
<1>3. ASSUME NEW a \in Aspect, Search(a) PROVE TypeOK'
  <2>1. StatusOK'
    BY <1>0, <1>3, CloseAtLimitType DEF Search
  <2>2. QED
    BY <1>3, <2>1 DEF TypeOK, StatusOK, Search, prefVars, outcomeVars
<1>4. ASSUME NEW a \in Aspect, NEW q \in Question, LocalAction(a, q) PROVE TypeOK'
  <2>1. PICK told : Reveal(told, {}) /\ RecordOutcome(a, q, told)
    BY <1>4 DEF LocalAction
  <2>2. StatusOK'
    BY <1>0, <1>4, CloseAtLimitType DEF LocalAction
  <2>3. /\ (remaining \subseteq Pref /\ agentSeen \subseteq Pref
              /\ proactiveSeen \subseteq Pref)'
        /\ (asked \in [Aspect -> SUBSET Question] /\ noGain \in [Aspect -> Nat]
              /\ useful \in Nat /\ redundant \in Nat)'
    BY <2>1, RevealType, RecordOutcomeType
  <2>4. actionCount' \in [Aspect -> Nat] /\ steps' \in Nat
    BY <1>4 DEF LocalAction, TypeOK
  <2>5. QED
    BY <1>4, <2>2, <2>3, <2>4 DEF TypeOK, StatusOK, LocalAction, taskVars
<1>5. ASSUME NEW a \in Aspect, NEW o \in Option, Answer(a, o) PROVE TypeOK'
  <2>1. current' \in Aspect \cup {NoAspect}
    BY <1>5, PlanType, FirstOpenType DEF Answer
  <2>2. StatusOK'
    <3>1. CASE current' = NoAspect
      BY <1>0, <1>5, <3>1 DEF Answer, StatusOK
    <3>2. CASE current' # NoAspect
      BY <1>0, <1>5, <3>2, CloseAtLimitType DEF Answer
    <3>3. QED
      BY <3>1, <3>2
  <2>3. QED
    BY <1>5, <2>1, <2>2 DEF TypeOK, StatusOK, Answer, outcomeVars
<1>6. CASE Finish
  BY <1>6 DEF Finish, TypeOK, taskVars, prefVars, outcomeVars
<1>7. ASSUME NEW c \in Call, NEW a \in Aspect, NEW q \in Question,
             BeginAction(c, a, q)
      PROVE  TypeOK'
  <2>1. [call |-> c, aspect |-> a, question |-> q, offered |-> remaining,
         nonpref |-> nonpref] \in PendingCall
    BY DEF TypeOK, PendingCall
  <2>2. QED
    BY <1>7, <2>1 DEF TypeOK, BeginAction, taskVars, prefVars, outcomeVars,
                      statusVars
<1>8. ASSUME NEW r \in pending, CompleteAction(r) PROVE TypeOK'
  <2>1. r.aspect \in Aspect /\ r.question \in Question /\ r.nonpref \in Nat
    BY DEF TypeOK, PendingCall
  <2>2. PICK turn \in SimulatorTurns(r) :
          /\ Reveal(turn.agent, turn.simulator)
          /\ RecordOutcome(r.aspect, r.question, turn.agent \cap remaining)
          /\ nonpref' = turn.nonpref
    BY <1>8 DEF CompleteAction
  <2>3. nonpref' \in Nat
    BY <2>1, <2>2 DEF SimulatorTurns
  <2>4. /\ (remaining \subseteq Pref /\ agentSeen \subseteq Pref
              /\ proactiveSeen \subseteq Pref)'
        /\ (asked \in [Aspect -> SUBSET Question] /\ noGain \in [Aspect -> Nat]
              /\ useful \in Nat /\ redundant \in Nat)'
    BY <2>1, <2>2, RevealType, RecordOutcomeType
  <2>5. StatusOK'
    BY <1>0, <1>8 DEF CompleteAction, StatusOK, statusVars
  <2>6. QED
    BY <1>8, <2>3, <2>4, <2>5 DEF TypeOK, StatusOK, CompleteAction, taskVars
<1>9. ASSUME NEW r \in pending, FailAction(r) PROVE TypeOK'
  BY <1>9 DEF FailAction, MarkFailed, TypeOK, taskVars, prefVars, outcomeVars
<1>10. CASE UNCHANGED envVars
  BY <1>10 DEF TypeOK, envVars, taskVars, prefVars, outcomeVars, statusVars
<1>11. QED
  BY <1>2, <1>3, <1>4, <1>5, <1>6, <1>7, <1>8, <1>9, <1>10 DEF Next

\* Type correctness of an episode (travel_env.py, every handler).
THEOREM TypeCorrect == Spec => []TypeOK
<1>1. Init => TypeOK
  BY InitType
<1>2. TypeOK /\ [Next]_envVars => TypeOK'
  BY NextType
<1>3. QED
  BY <1>1, <1>2, PTL DEF Spec

-----------------------------------------------------------------------------
(* A closed episode *)

LEMMA ClosedStep ==
    ASSUME TypeOK, [Next]_envVars, Closed
    PROVE  Closed' /\ UNCHANGED <<steps, taskVars, actionCount>>
<1> USE DEF Closed
<1>1. CASE Rejection
  <2>1. Refuse(0)
    BY <1>1, RejectionIsRefuse
  <2>2. steps' = steps
    BY <2>1 DEF Refuse, TypeOK
  <2>3. terminated' = terminated /\ (truncated => truncated')
    BY <2>1 DEF Refuse, CloseAtLimit, statusVars
  <2>4. QED
    BY <2>1, <2>2, <2>3 DEF Refuse
<1>2. ASSUME NEW r \in pending, CompleteAction(r)
      PROVE  Closed' /\ UNCHANGED <<steps, taskVars, actionCount>>
  BY <1>2 DEF CompleteAction, statusVars
<1>3. ASSUME NEW r \in pending, FailAction(r)
      PROVE  Closed' /\ UNCHANGED <<steps, taskVars, actionCount>>
  BY <1>3 DEF FailAction, MarkFailed
<1>4. CASE UNCHANGED envVars
  BY <1>4 DEF envVars, statusVars
<1>5. QED
  BY <1>1, <1>2, <1>3, <1>4
     DEF Next, Search, LocalAction, Answer, Finish, BeginAction

\* A closed episode stays closed, with its answers, searches and counted steps
\* frozen, whatever still returns into it (the guards at the top of step and
\* step_async, and the code after the await).
THEOREM ClosedFrozen == Spec => ClosedIsFrozen
<1>1. TypeOK /\ [Next]_envVars
        => [Closed => Closed' /\ UNCHANGED <<steps, taskVars, actionCount>>]_envVars
  BY ClosedStep
<1>2. QED
  BY <1>1, TypeCorrect, PTL DEF Spec, ClosedIsFrozen

-----------------------------------------------------------------------------
(* The step budget *)

\* The steps the plan still needs are counted by two finite sets.
LEMMA NeededIsNat ==
    ASSUME TypeOK
    PROVE  /\ IsFiniteSet(PlanSet \ Answered)
           /\ IsFiniteSet(PlanSet \ (Answered \cup searched))
           /\ Cardinality(PlanSet \ Answered) \in Nat
           /\ Cardinality(PlanSet \ (Answered \cup searched)) \in Nat
           /\ MinimumCompletionSteps \in Nat
<1>1. IsFiniteSet(PlanSet)
  BY PlanType, PlanIsFinite
<1>2. /\ IsFiniteSet(PlanSet \ Answered)
      /\ IsFiniteSet(PlanSet \ (Answered \cup searched))
  BY <1>1, FS_Subset
<1>3. QED
  BY <1>2, FS_CardinalityType DEF MinimumCompletionSteps

LEMMA NeededIsKept ==
    UNCHANGED <<plan, answers, searched>>
      => MinimumCompletionSteps' = MinimumCompletionSteps
BY DEF MinimumCompletionSteps, PlanSet, Answered

\* A Search pays for one of the steps the plan needs, and so does an Answer.
LEMMA SearchPays ==
    ASSUME TypeOK, NEW a \in Aspect, Search(a)
    PROVE  MinimumCompletionSteps' = MinimumCompletionSteps - 1
<1> DEFINE Untouched == PlanSet \ (Answered \cup searched)
<1>1. PlanSet' = PlanSet /\ Answered' = Answered /\ searched' = searched \cup {a}
  BY DEF Search, PlanSet, Answered
<1>2. a \in Untouched /\ Untouched' = Untouched \ {a}
  BY <1>1 DEF Search, OnTarget
<1>3. Cardinality(Untouched') = Cardinality(Untouched) - 1
  <2>1. IsFiniteSet(Untouched)
    BY NeededIsNat
  <2> HIDE DEF Untouched
  <2>2. QED
    BY <1>2, <2>1, FS_RemoveElement
<1>4. QED
  BY <1>1, <1>3, NeededIsNat DEF MinimumCompletionSteps

LEMMA AnswerAnswers ==
    ASSUME TypeOK, NEW a \in Aspect, NEW o \in Option, Answer(a, o)
    PROVE  Answered' = Answered \cup {a}
BY ConstantsAssumption DEF TypeOK, Answer, Answered

LEMMA AnswerPays ==
    ASSUME TypeOK, NEW a \in Aspect, NEW o \in Option, Answer(a, o)
    PROVE  MinimumCompletionSteps' = MinimumCompletionSteps - 1
<1> DEFINE Unanswered == PlanSet \ Answered
           Untouched  == PlanSet \ (Answered \cup searched)
<1>1. PlanSet' = PlanSet /\ searched' = searched /\ Answered' = Answered \cup {a}
  BY AnswerAnswers DEF Answer, PlanSet
<1>2. a \in Unanswered /\ Unanswered' = Unanswered \ {a}
  BY <1>1 DEF Answer, OnTarget
<1>3. Untouched' = Untouched
  BY <1>1 DEF Answer
<1>4. Cardinality(Unanswered') = Cardinality(Unanswered) - 1
  BY <1>2, NeededIsNat, FS_RemoveElement
<1>5. /\ MinimumCompletionSteps = Cardinality(Unanswered) + Cardinality(Untouched)
      /\ MinimumCompletionSteps' = Cardinality(Unanswered') + Cardinality(Untouched')
  BY DEF MinimumCompletionSteps
<1>6. Cardinality(Untouched') = Cardinality(Untouched)
  BY <1>3
<1>7. QED
  BY <1>4, <1>5, <1>6, NeededIsNat

LEMMA InitBudget == Init => StepBudget /\ BudgetSuffices
<1> SUFFICES ASSUME Init PROVE StepBudget /\ BudgetSuffices
  OBVIOUS
<1>1. MaxSteps \in Nat \ {0} /\ steps = 0 /\ invalid = 0
  BY ConstantsAssumption DEF Init
<1>2. StepBudget
  BY <1>1 DEF StepBudget
<1>3. plan \in Seq(Aspect) /\ Len(plan) \in Nat
  BY PlansAssumption DEF Init
<1>4. Answered = {} /\ searched = {}
  BY DEF Init, Answered
<1>5. PlanSet \ Answered = PlanSet /\ PlanSet \ (Answered \cup searched) = PlanSet
  BY <1>4
<1>6. MinimumCompletionSteps = Cardinality(PlanSet) + Cardinality(PlanSet)
  BY <1>5 DEF MinimumCompletionSteps
<1>7. Cardinality(PlanSet) \in Nat /\ Cardinality(PlanSet) <= Len(plan)
  BY <1>3, PlanIsFinite
<1>8. BudgetSuffices
  BY <1>1, <1>3, <1>6, <1>7 DEF BudgetSuffices
<1>9. QED
  BY <1>2, <1>8

\* A step of the episode counts at most one call.
LEMMA StepsMove ==
    ASSUME TypeOK, [Next]_envVars
    PROVE  steps' \in {steps, steps + 1}
<1>1. CASE Rejection
  <2>1. PICK n \in {0, 1} : Refuse(n)
    BY <1>1, RejectionIsRefuse
  <2>2. QED
    BY <2>1 DEF Refuse, TypeOK
<1>2. ASSUME NEW a \in Aspect, NEW q \in Question, LocalAction(a, q)
      PROVE  steps' \in {steps, steps + 1}
  BY <1>2 DEF LocalAction
<1>3. ASSUME NEW c \in Call, NEW a \in Aspect, NEW q \in Question,
             BeginAction(c, a, q)
      PROVE  steps' \in {steps, steps + 1}
  BY <1>3 DEF BeginAction
<1>4. ASSUME NEW r \in pending, CompleteAction(r) \/ FailAction(r)
      PROVE  steps' \in {steps, steps + 1}
  BY <1>4 DEF CompleteAction, FailAction
<1>5. CASE Finish \/ UNCHANGED envVars
  BY <1>5 DEF Finish, envVars
<1>6. ASSUME NEW a \in Aspect, Search(a) \/ \E o \in Option : Answer(a, o)
      PROVE  steps' \in {steps, steps + 1}
  BY <1>6 DEF Search, Answer
<1>7. QED
  BY <1>1, <1>2, <1>3, <1>4, <1>5, <1>6 DEF Next

LEMMA NextBudget ==
    ASSUME TypeOK, [Next]_envVars, StepBudget, BudgetSuffices
    PROVE  (StepBudget /\ BudgetSuffices)'
<1> DEFINE Needed == MinimumCompletionSteps
           Fits   == 2 * Len(plan) <= MaxSteps
<1>1. /\ MaxSteps \in Nat \ {0} /\ steps \in Nat /\ invalid \in Nat
      /\ Needed \in Nat
      /\ steps <= MaxSteps
      /\ ~Closed => steps < MaxSteps
      /\ ~Closed /\ Fits => Needed <= (MaxSteps - steps) + invalid
  BY ConstantsAssumption, NeededIsNat DEF TypeOK, StepBudget, BudgetSuffices
<1> SUFFICES ASSUME ~Closed'
             PROVE  (StepBudget /\ BudgetSuffices)'
  <2>1. CASE Closed'
    <3>1. StepBudget'
      <4>1. CASE Closed
        BY <1>1, <2>1, <4>1, ClosedStep DEF StepBudget
      <4>2. CASE ~Closed
        <5>1. steps' \in {steps, steps + 1}
          BY StepsMove
        <5>2. QED
          BY <1>1, <2>1, <4>2, <5>1 DEF StepBudget
      <4>3. QED
        BY <4>1, <4>2
    <3>2. QED
      BY <2>1, <3>1 DEF BudgetSuffices
  <2>2. QED
    BY <2>1
<1>2. ~Closed
  BY ClosedStep
\* What remains are the steps that leave the episode open.
<1> DEFINE Kept == /\ steps' < MaxSteps
                   /\ Fits => Needed' <= (MaxSteps - steps') + invalid'
<1>3. plan' = plan => (Kept => (StepBudget /\ BudgetSuffices)')
  <2> SUFFICES ASSUME plan' = plan, Kept PROVE (StepBudget /\ BudgetSuffices)'
    OBVIOUS
  <2>1. Fits' = Fits
    OBVIOUS
  <2>2. steps' \in Nat /\ steps' < MaxSteps
    BY NextType DEF TypeOK
  <2>3. StepBudget'
    BY <1>1, <2>2 DEF StepBudget
  <2>4. BudgetSuffices'
    BY <2>1 DEF BudgetSuffices
  <2>5. QED
    BY <2>3, <2>4
<1>4. ASSUME NEW n \in {0, 1}, Refuse(n) PROVE plan' = plan /\ Kept
  <2>1. plan' = plan /\ Needed' = Needed /\ steps' = steps + n /\ invalid' = invalid + 1
    BY <1>4, NeededIsKept DEF Refuse, taskVars
  <2>2. steps' < MaxSteps
    BY <1>1, <1>2, <1>4, <2>1 DEF Refuse, CloseAtLimit, Closed
  <2>3. QED
    BY <1>1, <1>2, <2>1, <2>2
<1>5. CASE Rejection
  BY <1>3, <1>4, <1>5, RejectionIsRefuse
<1>6. ASSUME NEW a \in Aspect, Search(a) PROVE plan' = plan /\ Kept
  <2>1. plan' = plan /\ steps' = steps + 1 /\ invalid' = invalid
    BY <1>6 DEF Search
  <2>2. steps' < MaxSteps
    BY <1>1, <1>2, <1>6, <2>1 DEF Search, CloseAtLimit, Closed
  <2>3. QED
    BY <1>1, <1>2, <1>6, <2>1, <2>2, SearchPays
<1>7. ASSUME NEW a \in Aspect, NEW q \in Question, LocalAction(a, q)
      PROVE  plan' = plan /\ Kept
  <2>1. plan' = plan /\ Needed' = Needed /\ steps' = steps + 1 /\ invalid' = invalid
    BY <1>7, NeededIsKept DEF LocalAction, taskVars
  <2>2. Needed < MaxSteps - (steps + 1)
    BY <1>1, <1>7 DEF LocalAction, DeadlineBlocks
  <2>3. QED
    BY <1>1, <2>1, <2>2
<1>8. ASSUME NEW a \in Aspect, NEW o \in Option, Answer(a, o)
      PROVE  plan' = plan /\ Kept
  <2>1. plan' = plan /\ steps' = steps + 1 /\ invalid' = invalid
    BY <1>8 DEF Answer
  <2>2. CloseAtLimit(steps + 1)
    BY <1>8 DEF Answer, Closed
  <2>3. steps' < MaxSteps
    BY <1>1, <1>2, <2>1, <2>2 DEF CloseAtLimit, Closed
  <2>4. QED
    BY <1>1, <1>2, <1>8, <2>1, <2>3, AnswerPays
<1>9. ASSUME NEW c \in Call, NEW a \in Aspect, NEW q \in Question,
             BeginAction(c, a, q)
      PROVE  plan' = plan /\ Kept
  <2>1. plan' = plan /\ Needed' = Needed /\ steps' = steps + 1 /\ invalid' = invalid
    BY <1>9, NeededIsKept DEF BeginAction, taskVars
  <2>2. Needed < MaxSteps - (steps + 1)
    BY <1>1, <1>9 DEF BeginAction, DeadlineBlocks
  <2>3. QED
    BY <1>1, <2>1, <2>2
<1>10. ASSUME NEW r \in pending, CompleteAction(r) PROVE plan' = plan /\ Kept
  <2>1. plan' = plan /\ Needed' = Needed /\ steps' = steps /\ invalid' = invalid
    BY <1>10, NeededIsKept DEF CompleteAction, taskVars
  <2>2. QED
    BY <1>1, <1>2, <2>1
<1>11. CASE UNCHANGED envVars
  <2>1. plan' = plan /\ Needed' = Needed /\ steps' = steps /\ invalid' = invalid
    BY <1>11, NeededIsKept DEF envVars, taskVars
  <2>2. QED
    BY <1>1, <1>2, <1>3, <2>1
<1>12. Finish => Closed'
  BY DEF Finish, Closed
<1>13. \A r \in pending : FailAction(r) => Closed'
  BY DEF FailAction, MarkFailed, Closed
<1>14. QED
  BY <1>3, <1>5, <1>6, <1>7, <1>8, <1>9, <1>10, <1>11, <1>12, <1>13 DEF Next

\* _steps never overruns max_steps and an episode that used it up is closed,
\* for any number of concurrent calls.
THEOREM BudgetRespected == Spec => []StepBudget
<1>1. Init => TypeOK /\ StepBudget /\ BudgetSuffices
  BY InitType, InitBudget
<1>2. TypeOK /\ StepBudget /\ BudgetSuffices /\ [Next]_envVars
        => (TypeOK /\ StepBudget /\ BudgetSuffices)'
  BY NextType, NextBudget
<1>3. QED
  BY <1>1, <1>2, PTL DEF Spec

\* The deadline guard (_deadline_blocks_action) does what it is for: only
\* refused calls can take away the steps a plan that fits still needs.
THEOREM PlanStaysFeasible == Spec => []BudgetSuffices
<1>1. Init => TypeOK /\ StepBudget /\ BudgetSuffices
  BY InitType, InitBudget
<1>2. TypeOK /\ StepBudget /\ BudgetSuffices /\ [Next]_envVars
        => (TypeOK /\ StepBudget /\ BudgetSuffices)'
  BY NextType, NextBudget
<1>3. QED
  BY <1>1, <1>2, PTL DEF Spec

-----------------------------------------------------------------------------
(* The reason an ended episode reports *)

LEMMA InitReason == Init => ReasonIsBacked
BY DEF Init, ReasonIsBacked, Closed

\* The limit check after a call backs its own reason and touches no other.
LEMMA LimitKeepsReason ==
    ASSUME TypeOK, ReasonIsBacked, NEW k \in Nat, CloseAtLimit(k),
           steps' = k, steps <= k, UNCHANGED <<plan, answers>>
    PROVE  ReasonIsBacked'
<1>1. PlanSet' = PlanSet /\ Answered' = Answered
  BY DEF PlanSet, Answered
<1>2. steps \in Nat /\ MaxSteps \in Nat
  BY ConstantsAssumption DEF TypeOK
<1>3. CASE k >= MaxSteps /\ ~terminated
  BY <1>1, <1>2, <1>3 DEF CloseAtLimit, ReasonIsBacked, Closed
<1>4. CASE ~(k >= MaxSteps /\ ~terminated)
  BY <1>1, <1>2, <1>4 DEF CloseAtLimit, ReasonIsBacked, Closed, statusVars
<1>5. QED
  BY <1>3, <1>4

LEMMA NextReason == TypeOK /\ ReasonIsBacked /\ [Next]_envVars => ReasonIsBacked'
<1> SUFFICES ASSUME TypeOK, ReasonIsBacked, [Next]_envVars PROVE ReasonIsBacked'
  OBVIOUS
<1>0. steps \in Nat /\ MaxSteps \in Nat
  BY ConstantsAssumption DEF TypeOK
<1>1. CASE Rejection
  <2>1. PICK n \in {0, 1} : Refuse(n)
    BY <1>1, RejectionIsRefuse
  <2>2. QED
    BY <1>0, <2>1, LimitKeepsReason DEF Refuse, taskVars
<1>2. ASSUME NEW a \in Aspect, Search(a) PROVE ReasonIsBacked'
  BY <1>0, <1>2, LimitKeepsReason DEF Search
<1>3. ASSUME NEW a \in Aspect, NEW q \in Question, LocalAction(a, q)
      PROVE  ReasonIsBacked'
  BY <1>0, <1>3, LimitKeepsReason DEF LocalAction, taskVars
<1>4. ASSUME NEW a \in Aspect, NEW o \in Option, Answer(a, o)
      PROVE  ReasonIsBacked'
  <2>1. /\ PlanSet' = PlanSet /\ Answered' = Answered \cup {a}
        /\ ~terminated /\ ~truncated /\ reason = "none" /\ rewardValid
    BY <1>4, AnswerAnswers DEF Answer, PlanSet, Closed, ReasonIsBacked, TypeOK
  <2>2. CASE current' = NoAspect
    <3>1. PlanSet \subseteq Answered \cup {a}
      BY <1>4, <2>2, PlanType, FirstOpenType DEF Answer
    <3>2. QED
      BY <1>4, <2>1, <2>2, <3>1 DEF Answer, ReasonIsBacked, Closed
  <2>3. CASE current' # NoAspect
    <3>1. steps' = steps + 1 /\ CloseAtLimit(steps + 1)
      BY <1>4, <2>3 DEF Answer
    <3>2. QED
      BY <1>0, <2>1, <3>1 DEF CloseAtLimit, ReasonIsBacked, Closed, statusVars
  <2>4. QED
    BY <2>2, <2>3
<1>5. CASE Finish
  BY <1>5 DEF Finish, ReasonIsBacked, Closed
<1>6. ASSUME NEW c \in Call, NEW a \in Aspect, NEW q \in Question,
             BeginAction(c, a, q)
      PROVE  ReasonIsBacked'
  BY <1>6 DEF BeginAction, ReasonIsBacked, Closed, statusVars
<1>7. ASSUME NEW r \in pending, CompleteAction(r) PROVE ReasonIsBacked'
  <2>1. PlanSet' = PlanSet /\ Answered' = Answered /\ steps' = steps
    BY <1>7 DEF CompleteAction, taskVars, PlanSet, Answered
  <2>2. CASE steps >= MaxSteps
    BY <1>7, <2>1, <2>2 DEF CompleteAction, ReasonIsBacked, Closed
  <2>3. CASE ~(steps >= MaxSteps)
    BY <1>7, <2>1, <2>3 DEF CompleteAction, ReasonIsBacked, Closed, statusVars
  <2>4. QED
    BY <2>2, <2>3
<1>8. ASSUME NEW r \in pending, FailAction(r) PROVE ReasonIsBacked'
  BY <1>8 DEF FailAction, MarkFailed, ReasonIsBacked, Closed
<1>9. CASE UNCHANGED envVars
  <2>1. PlanSet' = PlanSet /\ Answered' = Answered /\ steps' = steps
    BY <1>9 DEF envVars, taskVars, PlanSet, Answered
  <2>2. QED
    BY <1>9, <2>1 DEF envVars, statusVars, ReasonIsBacked, Closed
<1>10. QED
  BY <1>1, <1>2, <1>3, <1>4, <1>5, <1>6, <1>7, <1>8, <1>9 DEF Next

\* The reason a report shows is backed by the state of the episode, although
\* several handlers, suspended ones among them, overwrite it.
THEOREM ReasonBacked == Spec => []ReasonIsBacked
<1>1. Init => TypeOK /\ ReasonIsBacked
  BY InitType, InitReason
<1>2. TypeOK /\ ReasonIsBacked /\ [Next]_envVars => (TypeOK /\ ReasonIsBacked)'
  BY NextType, NextReason
<1>3. QED
  BY <1>1, <1>2, PTL DEF Spec

-----------------------------------------------------------------------------
(* Credit for preferences *)

\* The hidden preferences that are left belong to aspects without an answer:
\* this is what makes a late answer of the simulator harmless.
RemainingIsOpen == \A p \in remaining : PrefAspect[p] \notin Answered

CreditInv == NoDoubleCredit /\ RemainingIsOpen

LEMMA RevealCredits ==
    ASSUME CreditInv, NEW byAgent, NEW bySimulator, Reveal(byAgent, bySimulator)
    PROVE  /\ NoDoubleCredit'
           /\ remaining' \subseteq remaining
           /\ agentSeen' \cup proactiveSeen'
                \subseteq agentSeen \cup proactiveSeen \cup remaining
BY DEF CreditInv, NoDoubleCredit, Reveal

\* A step credits hidden preferences only, and hides none again.
LEMMA NextCredit ==
    ASSUME TypeOK, CreditInv, [Next]_envVars
    PROVE  /\ CreditInv'
           /\ agentSeen' \cup proactiveSeen'
                \subseteq agentSeen \cup proactiveSeen \cup remaining
<1> DEFINE Goal == /\ CreditInv'
                   /\ agentSeen' \cup proactiveSeen'
                        \subseteq agentSeen \cup proactiveSeen \cup remaining
<1>1. ASSUME UNCHANGED <<prefVars, answers>> PROVE Goal
  BY <1>1 DEF CreditInv, NoDoubleCredit, RemainingIsOpen, Answered, prefVars
<1>2. ASSUME NEW byAgent, NEW bySimulator, Reveal(byAgent, bySimulator),
             UNCHANGED answers
      PROVE  Goal
  <2>1. Answered' = Answered
    BY <1>2 DEF Answered
  <2>2. QED
    BY <1>2, <2>1, RevealCredits DEF CreditInv, RemainingIsOpen
<1>3. CASE Rejection
  BY <1>1, <1>3, RejectionIsRefuse DEF Refuse, taskVars
<1>4. ASSUME NEW a \in Aspect, Search(a) PROVE Goal
  BY <1>1, <1>4 DEF Search
<1>5. ASSUME NEW a \in Aspect, NEW q \in Question, LocalAction(a, q) PROVE Goal
  BY <1>2, <1>5 DEF LocalAction, taskVars
<1>6. ASSUME NEW a \in Aspect, NEW o \in Option, Answer(a, o) PROVE Goal
  <2>1. Answered' = Answered \cup {a}
    BY <1>6, AnswerAnswers
  <2>2. /\ remaining' = {p \in remaining : PrefAspect[p] # a}
        /\ agentSeen' = agentSeen /\ proactiveSeen' = proactiveSeen
    BY <1>6 DEF Answer
  <2>3. QED
    BY <2>1, <2>2 DEF CreditInv, NoDoubleCredit, RemainingIsOpen
<1>7. CASE Finish
  BY <1>1, <1>7 DEF Finish, taskVars
<1>8. ASSUME NEW c \in Call, NEW a \in Aspect, NEW q \in Question,
             BeginAction(c, a, q)
      PROVE  Goal
  BY <1>1, <1>8 DEF BeginAction, taskVars
<1>9. ASSUME NEW r \in pending, CompleteAction(r) PROVE Goal
  BY <1>2, <1>9 DEF CompleteAction, taskVars
<1>10. ASSUME NEW r \in pending, FailAction(r) PROVE Goal
  BY <1>1, <1>10 DEF FailAction, taskVars
<1>11. CASE UNCHANGED envVars
  BY <1>1, <1>11 DEF envVars, taskVars
<1>12. QED
  BY <1>3, <1>4, <1>5, <1>6, <1>7, <1>8, <1>9, <1>10, <1>11 DEF Next

LEMMA InitCredit == Init => CreditInv
BY DEF Init, CreditInv, NoDoubleCredit, RemainingIsOpen, Answered

\* A preference is credited once, to the Actor or to the simulator.
THEOREM CreditedOnce == Spec => []NoDoubleCredit
<1>1. Init => TypeOK /\ CreditInv
  BY InitType, InitCredit
<1>2. TypeOK /\ CreditInv /\ [Next]_envVars => (TypeOK /\ CreditInv)'
  BY NextType, NextCredit
<1>3. CreditInv => NoDoubleCredit
  BY DEF CreditInv
<1>4. QED
  BY <1>1, <1>2, <1>3, PTL DEF Spec

\* No preference is credited once its aspect was answered, even if the answer
\* overtook the Action that was asking for it.
THEOREM CreditedInTime == Spec => NoLateCredit
<1>1. Init => TypeOK /\ CreditInv
  BY InitType, InitCredit
<1>2. TypeOK /\ CreditInv /\ [Next]_envVars => (TypeOK /\ CreditInv)'
  BY NextType, NextCredit
<1>3. TypeOK /\ CreditInv /\ [Next]_envVars
        => [\A p \in (agentSeen' \cup proactiveSeen') \ (agentSeen \cup proactiveSeen) :
               PrefAspect[p] \notin Answered]_envVars
  BY NextCredit DEF CreditInv, RemainingIsOpen
<1>4. QED
  BY <1>1, <1>2, <1>3, PTL DEF Spec, NoLateCredit

-----------------------------------------------------------------------------
(* The protocol *)

\* The aspect the guards compare with is the first one without an answer.
CurrentIsFirst == current = FirstOpen(Answered)

LEMMA InitCurrent == Init => CurrentIsFirst
<1>1. Init => Answered = {}
  BY DEF Init, Answered
<1>2. QED
  BY <1>1 DEF Init, CurrentIsFirst

LEMMA NextCurrent == TypeOK /\ CurrentIsFirst /\ [Next]_envVars => CurrentIsFirst'
<1> SUFFICES ASSUME TypeOK, CurrentIsFirst, [Next]_envVars PROVE CurrentIsFirst'
  OBVIOUS
<1>1. ASSUME UNCHANGED <<plan, answers, current>> PROVE CurrentIsFirst'
  BY <1>1 DEF CurrentIsFirst, FirstOpen, PlanSet, Answered
<1>2. ASSUME NEW a \in Aspect, NEW o \in Option, Answer(a, o) PROVE CurrentIsFirst'
  <2>1. Answered' = Answered \cup {a} /\ plan' = plan
    BY <1>2, AnswerAnswers DEF Answer
  <2>2. current' = FirstOpen(Answered \cup {a})
    BY <1>2 DEF Answer
  <2>3. QED
    BY <2>1, <2>2 DEF CurrentIsFirst, FirstOpen, PlanSet
<1>3. CASE Rejection
  BY <1>1, <1>3, RejectionIsRefuse DEF Refuse, taskVars
<1>4. CASE UNCHANGED envVars
  BY <1>1, <1>4 DEF envVars, taskVars
<1>5. QED
  BY <1>1, <1>2, <1>3, <1>4
     DEF Next, Search, LocalAction, Finish, BeginAction, CompleteAction,
         FailAction, taskVars

\* An accepted call is for the current aspect of the protocol.
LEMMA TargetIsCurrent ==
    ASSUME TypeOK, CurrentIsFirst, NEW a \in Aspect, OnTarget(a)
    PROVE  Episode!IsCurrent(a)
<1>1. plan \in Seq(Aspect) /\ ~(PlanSet \subseteq Answered)
  BY PlanType DEF OnTarget
<1>2. PICK i \in DOMAIN plan : /\ FirstOpen(Answered) = plan[i]
                              /\ plan[i] \notin Answered
                              /\ \A j \in 1..(i - 1) : plan[j] \in Answered
  BY <1>1, FirstOpenIsFirst
<1>3. current # NoAspect
  BY <1>1, FirstOpenType DEF CurrentIsFirst
<1>4. a = plan[i]
  BY <1>2, <1>3 DEF OnTarget, CurrentIsFirst
<1>5. QED
  BY <1>2, <1>4 DEF Episode!IsCurrent

LEMMA InitProtocol == Init => Episode!Init
<1>1. Init => Answered = {} /\ ~Closed
  BY DEF Init, Answered, Closed
<1>2. Init => Closed = FALSE
  BY <1>1 DEF Closed
<1>3. QED
  BY <1>1, <1>2 DEF Init, Episode!Init

\* A step that touches neither plan nor task either closes the episode or is
\* invisible to the protocol.
LEMMA QuietStep ==
    ASSUME TypeOK, [Next]_envVars, UNCHANGED <<plan, answers, searched>>
    PROVE  [Episode!Next]_Episode!vars
<1>1. Answered' = Answered
  BY DEF Answered
<1>2. Closed \in BOOLEAN /\ Closed' \in BOOLEAN
  BY DEF Closed
<1>3. CASE Closed' = Closed
  BY <1>1, <1>3 DEF Episode!vars
<1>4. CASE Closed' # Closed
  <2>1. ~Closed /\ Closed' = TRUE
    BY <1>2, <1>4, ClosedStep
  <2>2. QED
    BY <1>1, <2>1 DEF Episode!Next, Episode!Close
<1>5. QED
  BY <1>3, <1>4

LEMMA NextProtocol ==
    ASSUME TypeOK, CurrentIsFirst, [Next]_envVars
    PROVE  [Episode!Next]_Episode!vars
<1>1. ASSUME NEW a \in Aspect, Search(a) PROVE Episode!Next
  <2>1. Answered' = Answered /\ Closed' \in BOOLEAN
    BY <1>1 DEF Search, Answered, Closed
  <2>2. Episode!IsCurrent(a)
    BY <1>1, TargetIsCurrent DEF Search
  <2>3. Episode!Search(a)
    BY <1>1, <2>1, <2>2 DEF Search, Episode!Search
  <2>4. QED
    BY <2>3 DEF Episode!Next
<1>2. ASSUME NEW a \in Aspect, NEW o \in Option, Answer(a, o) PROVE Episode!Next
  <2>1. Answered' = Answered \cup {a} /\ Closed' \in BOOLEAN
    BY <1>2, AnswerAnswers DEF Closed
  <2>2. Episode!IsCurrent(a)
    BY <1>2, TargetIsCurrent DEF Answer
  <2>3. Episode!Done' => Closed'
    <3>1. SUFFICES ASSUME Episode!Done' PROVE Closed'
      OBVIOUS
    <3>2. PlanSet \subseteq Answered \cup {a}
      BY <1>2, <2>1, <3>1 DEF Answer, PlanSet, Episode!Done
    <3>3. current' = NoAspect
      BY <1>2, <3>2, PlanType, FirstOpenType DEF Answer
    <3>4. QED
      BY <1>2, <3>3 DEF Answer, Closed
  <2>4. Episode!Answer(a)
    BY <1>2, <2>1, <2>2, <2>3 DEF Answer, Episode!Answer
  <2>5. QED
    BY <2>4 DEF Episode!Next
<1>3. CASE UNCHANGED <<plan, answers, searched>>
  BY <1>3, QuietStep
<1>4. CASE Rejection
  BY <1>3, <1>4, RejectionIsRefuse DEF Refuse, taskVars
<1>5. CASE UNCHANGED envVars
  BY <1>3, <1>5 DEF envVars, taskVars
<1>6. QED
  BY <1>1, <1>2, <1>3, <1>4, <1>5
     DEF Next, LocalAction, Finish, BeginAction, CompleteAction, FailAction,
         taskVars

\* An episode implements the abstract protocol: unsearched, searched,
\* answered, in the order of the plan, until it closes for good.
THEOREM ProtocolFollowed == Spec => FollowsProtocol
<1>1. Init => TypeOK /\ CurrentIsFirst /\ Episode!Init
  BY InitType, InitCurrent, InitProtocol
<1>2. TypeOK /\ CurrentIsFirst /\ [Next]_envVars => (TypeOK /\ CurrentIsFirst)'
  BY NextType, NextCurrent
<1>3. TypeOK /\ CurrentIsFirst /\ [Next]_envVars => [Episode!Next]_Episode!vars
  BY NextProtocol
<1>4. QED
  BY <1>1, <1>2, <1>3, PTL DEF Spec, FollowsProtocol, Episode!Spec

-----------------------------------------------------------------------------
(* Sums over the aspects.  SumFunction folds over a set in the order in    *)
(* which CHOOSE picks from it; the lemmas say what does not depend on it.  *)
(* Induction is over a set of good cases, which excludes a least bad one.  *)

\* A set of naturals that has 0 and the successors of its members has them all.
LEMMA InductionOnNaturals ==
    ASSUME NEW Good \in SUBSET Nat, 0 \in Good, \A n \in Good : n + 1 \in Good
    PROVE  Good = Nat
<1> SUFFICES ASSUME Nat \ Good # {} PROVE FALSE
  OBVIOUS
<1>1. PICK m \in Nat \ Good : \A n \in Nat \ Good : m <= n
  <2>1. Nat \ Good \subseteq Nat
    OBVIOUS
  <2>2. QED
    BY <2>1, LeastNatural
<1>2. m # 0 /\ m - 1 \in Nat
  BY <1>1
<1>3. m - 1 \in Good
  BY <1>1, <1>2
<1>4. (m - 1) + 1 \in Good
  BY <1>3
<1>5. QED
  BY <1>1, <1>4

\* A set of subsets of S that has those all of whose elements can be taken away
\* within it has them all.
LEMMA InductionOnSubsets ==
    ASSUME NEW S, IsFiniteSet(S), NEW Good \in SUBSET (SUBSET S),
           \A s \in SUBSET S : (\A x \in s : s \ {x} \in Good) => s \in Good
    PROVE  Good = SUBSET S
<1> DEFINE Small == {n \in Nat : \A s \in SUBSET S : Cardinality(s) = n => s \in Good}
<1>1. \A s \in SUBSET S : IsFiniteSet(s) /\ Cardinality(s) \in Nat
  BY FS_Subset, FS_CardinalityType
<1>2. 0 \in Small
  <2>1. \A s \in SUBSET S : Cardinality(s) = 0 => s = {}
    BY <1>1, FS_EmptySet
  <2>2. QED
    BY <2>1
<1>3. ASSUME NEW n \in Small PROVE n + 1 \in Small
  <2>1. ASSUME NEW s \in SUBSET S, Cardinality(s) = n + 1, NEW x \in s
        PROVE  s \ {x} \in Good
    <3>1. Cardinality(s \ {x}) = n
      <4>1. IsFiniteSet(s) /\ n \in Nat
        BY <1>1
      <4>2. QED
        BY <2>1, <4>1, FS_RemoveElement
    <3>2. QED
      BY <3>1
  <2>2. QED
    BY <2>1
<1>4. Small = Nat
  <2>1. Small \in SUBSET Nat
    OBVIOUS
  <2> HIDE DEF Small
  <2>2. QED
    BY <1>2, <1>3, <2>1, InductionOnNaturals
<1>5. QED
  BY <1>1, <1>4

Chosen(s) == CHOOSE x \in s : TRUE

\* total is what the fold computes for every subset of S.
Adds(total, f, S) ==
    total = [s \in SUBSET S |->
               IF s = {} THEN 0 ELSE f[Chosen(s)] + total[s \ {Chosen(s)}]]

\* The fold is well defined.
LEMMA SomethingAdds ==
    ASSUME NEW S, IsFiniteSet(S), NEW f \in [S -> Nat]
    PROVE  \E total : Adds(total, f, S)
<1> DEFINE Equation(h, s) == h[s] = IF s = {} THEN 0
                                    ELSE f[Chosen(s)] + h[s \ {Chosen(s)}]
           Good == {n \in Nat : \E h \in [SUBSET S -> Nat] :
                      \A s \in SUBSET S : Cardinality(s) <= n => Equation(h, s)}
<1>1. \A s \in SUBSET S : IsFiniteSet(s) /\ Cardinality(s) \in Nat
  BY FS_Subset, FS_CardinalityType
<1>2. \A s \in SUBSET S : s # {} => Chosen(s) \in s
  BY DEF Chosen
<1>3. 0 \in Good
  <2> DEFINE h == [s \in SUBSET S |-> 0]
  <2>1. \A s \in SUBSET S : Cardinality(s) <= 0 => s = {}
    BY <1>1, FS_EmptySet
  <2>2. h \in [SUBSET S -> Nat] /\ \A s \in SUBSET S : Cardinality(s) <= 0 => Equation(h, s)
    BY <2>1
  <2>3. QED
    BY <2>2
<1>4. ASSUME NEW n \in Good PROVE n + 1 \in Good
  <2>1. PICK h \in [SUBSET S -> Nat] :
          \A s \in SUBSET S : Cardinality(s) <= n => Equation(h, s)
    OBVIOUS
  <2> DEFINE g == [s \in SUBSET S |-> IF Cardinality(s) <= n THEN h[s]
                                      ELSE f[Chosen(s)] + h[s \ {Chosen(s)}]]
  <2>2. \A s \in SUBSET S : s # {} =>
          /\ s \ {Chosen(s)} \in SUBSET S
          /\ Cardinality(s \ {Chosen(s)}) = Cardinality(s) - 1
    BY <1>1, <1>2, FS_RemoveElement
  <2>3. \A s \in SUBSET S : ~(Cardinality(s) <= n) => s # {}
    BY <1>1, FS_EmptySet
  <2>4. g \in [SUBSET S -> Nat]
    <3> SUFFICES ASSUME NEW s \in SUBSET S PROVE g[s] \in Nat
      OBVIOUS
    <3>1. CASE Cardinality(s) <= n
      BY <3>1
    <3>2. CASE ~(Cardinality(s) <= n)
      <4>1. f[Chosen(s)] \in Nat /\ h[s \ {Chosen(s)}] \in Nat
        BY <1>2, <2>3, <3>2
      <4>2. QED
        BY <3>2, <4>1
    <3>3. QED
      BY <3>1, <3>2
  <2>5. ASSUME NEW s \in SUBSET S, Cardinality(s) <= n + 1 PROVE Equation(g, s)
    <3>1. CASE s = {}
      <4>1. Cardinality(s) <= n
        BY <3>1, FS_EmptySet
      <4>2. QED
        BY <2>1, <3>1, <4>1
    <3>2. CASE s # {}
      <4> DEFINE u == s \ {Chosen(s)}
      <4>1. u \in SUBSET S /\ Cardinality(u) <= n
        BY <1>1, <2>2, <2>5, <3>2
      <4>2. g[u] = h[u]
        BY <4>1
      <4>3. g[s] = f[Chosen(s)] + h[u]
        <5>1. CASE Cardinality(s) <= n
          BY <2>1, <3>2, <5>1
        <5>2. CASE ~(Cardinality(s) <= n)
          BY <5>2
        <5>3. QED
          BY <5>1, <5>2
      <4>4. QED
        BY <3>2, <4>2, <4>3
    <3>3. QED
      BY <3>1, <3>2
  <2> HIDE DEF g, Equation
  <2>6. QED
    BY <2>4, <2>5
<1>5. Good = Nat
  <2>1. Good \in SUBSET Nat
    OBVIOUS
  <2> HIDE DEF Good
  <2>2. QED
    BY <1>3, <1>4, <2>1, InductionOnNaturals
<1>6. Cardinality(S) \in Good /\ \A s \in SUBSET S : Cardinality(s) <= Cardinality(S)
  BY <1>1, <1>5, FS_Subset
<1>7. PICK h \in [SUBSET S -> Nat] : \A s \in SUBSET S : Equation(h, s)
  BY <1>6
<1>8. Adds(h, f, S)
  BY <1>7 DEF Adds
<1>9. QED
  BY <1>8

LEMMA SumAdds ==
    ASSUME NEW S, IsFiniteSet(S), NEW f \in [S -> Nat]
    PROVE  \E total : Adds(total, f, S) /\ SumFunction(f) = total[S]
<1> DEFINE total == CHOOSE t : Adds(t, f, S)
<1>1. Adds(total, f, S)
  BY SomethingAdds, Zenon
<1>2. DOMAIN f = S
  OBVIOUS
<1>3. SumFunctionOnSet(f, S) = total[S]
  BY DEF SumFunctionOnSet, FoldFunctionOnSet, MapThenFoldSet, Chosen, Adds
<1>4. SumFunction(f) = total[S]
  BY <1>2, <1>3 DEF SumFunction
<1>5. QED
  BY <1>1, <1>4

LEMMA AddsType ==
    ASSUME NEW S, IsFiniteSet(S), NEW f \in [S -> Nat], NEW total, Adds(total, f, S)
    PROVE  \A s \in SUBSET S : total[s] \in Nat
<1> DEFINE Good == {s \in SUBSET S : total[s] \in Nat}
<1>1. ASSUME NEW s \in SUBSET S, \A x \in s : s \ {x} \in Good
      PROVE  s \in Good
  <2>1. CASE s = {}
    BY <2>1 DEF Adds
  <2>2. CASE s # {}
    <3>1. Chosen(s) \in s
      BY <2>2 DEF Chosen
    <3>2. f[Chosen(s)] \in Nat /\ total[s \ {Chosen(s)}] \in Nat
      BY <1>1, <3>1
    <3>3. total[s] = f[Chosen(s)] + total[s \ {Chosen(s)}]
      BY <2>2 DEF Adds
    <3>4. QED
      BY <3>2, <3>3
  <2>3. QED
    BY <2>1, <2>2
<1>2. Good = SUBSET S
  <2>1. Good \in SUBSET (SUBSET S)
    OBVIOUS
  <2> HIDE DEF Good
  <2>2. QED
    BY <1>1, <2>1, InductionOnSubsets
<1>3. QED
  BY <1>2

\* Any element may be taken first.
LEMMA AddsInAnyOrder ==
    ASSUME NEW S, IsFiniteSet(S), NEW f \in [S -> Nat], NEW total, Adds(total, f, S)
    PROVE  \A s \in SUBSET S : \A x \in s : total[s] = f[x] + total[s \ {x}]
<1> DEFINE Good == {s \in SUBSET S : \A x \in s : total[s] = f[x] + total[s \ {x}]}
<1>1. ASSUME NEW s \in SUBSET S, \A x \in s : s \ {x} \in Good
      PROVE  s \in Good
  <2> SUFFICES ASSUME NEW x \in s PROVE total[s] = f[x] + total[s \ {x}]
    OBVIOUS
  <2> DEFINE c == Chosen(s)
             u == (s \ {c}) \ {x}
  <2>1. c \in s
    BY DEF Chosen
  <2>2. total[s] = f[c] + total[s \ {c}]
    BY DEF Adds
  <2> HIDE DEF c
  <2>3. CASE c = x
    BY <2>2, <2>3
  <2>4. CASE c # x
    <3>1. x \in s \ {c} /\ c \in s \ {x} /\ u = (s \ {x}) \ {c}
      BY <2>1, <2>4
    <3>2. total[s \ {c}] = f[x] + total[u]
      BY <1>1, <2>1, <3>1
    <3>3. total[s \ {x}] = f[c] + total[u]
      BY <1>1, <3>1
    <3>4. f[c] \in Nat /\ f[x] \in Nat /\ total[u] \in Nat
      BY <2>1, AddsType
    <3>5. QED
      BY <2>2, <3>2, <3>3, <3>4
  <2>5. QED
    BY <2>3, <2>4
<1>2. Good = SUBSET S
  <2>1. Good \in SUBSET (SUBSET S)
    OBVIOUS
  <2> HIDE DEF Good
  <2>2. QED
    BY <1>1, <2>1, InductionOnSubsets
<1>3. QED
  BY <1>2

\* What is not in a set does not count in its sum.
LEMMA AddsOnlyItsOwn ==
    ASSUME NEW S, IsFiniteSet(S), NEW f \in [S -> Nat], NEW g \in [S -> Nat],
           NEW total, Adds(total, f, S), NEW other, Adds(other, g, S)
    PROVE  \A s \in SUBSET S : (\A x \in s : f[x] = g[x]) => total[s] = other[s]
<1> DEFINE Good == {s \in SUBSET S : (\A x \in s : f[x] = g[x]) => total[s] = other[s]}
<1>1. ASSUME NEW s \in SUBSET S, \A x \in s : s \ {x} \in Good
      PROVE  s \in Good
  <2> SUFFICES ASSUME \A x \in s : f[x] = g[x] PROVE total[s] = other[s]
    OBVIOUS
  <2>1. CASE s = {}
    BY <2>1 DEF Adds
  <2>2. CASE s # {}
    <3>1. Chosen(s) \in s
      BY <2>2 DEF Chosen
    <3>2. total[s \ {Chosen(s)}] = other[s \ {Chosen(s)}]
      BY <1>1, <3>1
    <3>3. /\ total[s] = f[Chosen(s)] + total[s \ {Chosen(s)}]
          /\ other[s] = g[Chosen(s)] + other[s \ {Chosen(s)}]
      BY <2>2 DEF Adds
    <3>4. QED
      BY <3>1, <3>2, <3>3
  <2>3. QED
    BY <2>1, <2>2
<1>2. Good = SUBSET S
  <2>1. Good \in SUBSET (SUBSET S)
    OBVIOUS
  <2> HIDE DEF Good
  <2>2. QED
    BY <1>1, <2>1, InductionOnSubsets
<1>3. QED
  BY <1>2

LEMMA SumType ==
    ASSUME NEW S, IsFiniteSet(S), NEW f \in [S -> Nat]
    PROVE  SumFunction(f) \in Nat
<1>1. S \in SUBSET S
  OBVIOUS
<1>2. QED
  BY <1>1, SumAdds, AddsType

\* One more at one place is one more in the sum.
LEMMA SumOfOneMore ==
    ASSUME NEW S, IsFiniteSet(S), NEW f \in [S -> Nat], NEW a \in S
    PROVE  SumFunction([f EXCEPT ![a] = @ + 1]) = SumFunction(f) + 1
<1> DEFINE g == [f EXCEPT ![a] = @ + 1]
<1>1. g \in [S -> Nat] /\ g[a] = f[a] + 1 /\ \A x \in S \ {a} : g[x] = f[x]
  OBVIOUS
<1> HIDE DEF g
<1>2. PICK total : Adds(total, f, S) /\ SumFunction(f) = total[S]
  BY SumAdds
<1>3. PICK other : Adds(other, g, S) /\ SumFunction(g) = other[S]
  BY <1>1, SumAdds
<1>4. S \in SUBSET S /\ S \ {a} \in SUBSET S
  OBVIOUS
<1>5. total[S] = f[a] + total[S \ {a}]
  BY <1>2, <1>4, AddsInAnyOrder
<1>10. total[S \ {a}] \in Nat
  BY <1>2, <1>4, AddsType
<1>6. other[S] = g[a] + other[S \ {a}]
  BY <1>1, <1>3, <1>4, AddsInAnyOrder
<1>7. total[S \ {a}] = other[S \ {a}]
  BY <1>1, <1>2, <1>3, <1>4, AddsOnlyItsOwn
<1>8. f[a] \in Nat
  OBVIOUS
<1>9. QED
  BY <1>1, <1>2, <1>3, <1>5, <1>6, <1>7, <1>8, <1>10 DEF g

LEMMA SumOfNothing ==
    ASSUME NEW S, IsFiniteSet(S)
    PROVE  SumFunction([x \in S |-> 0]) = 0
<1> DEFINE f == [x \in S |-> 0]
<1>1. f \in [S -> Nat] /\ \A x \in S : f[x] = 0
  OBVIOUS
<1> HIDE DEF f
<1>2. PICK total : Adds(total, f, S) /\ SumFunction(f) = total[S]
  BY <1>1, SumAdds
<1> DEFINE Good == {s \in SUBSET S : total[s] = 0}
<1>3. ASSUME NEW s \in SUBSET S, \A x \in s : s \ {x} \in Good
      PROVE  s \in Good
  <2>1. CASE s = {}
    BY <1>2, <2>1 DEF Adds
  <2>2. CASE s # {}
    <3>1. Chosen(s) \in s
      BY <2>2 DEF Chosen
    <3>2. total[s] = f[Chosen(s)] + total[s \ {Chosen(s)}]
      BY <1>2, <2>2 DEF Adds
    <3>3. QED
      BY <1>1, <1>3, <3>1, <3>2
  <2>3. QED
    BY <2>1, <2>2
<1>4. Good = SUBSET S
  <2>1. Good \in SUBSET (SUBSET S)
    OBVIOUS
  <2> HIDE DEF Good
  <2>2. QED
    BY <1>3, <2>1, InductionOnSubsets
<1>5. QED
  BY <1>2, <1>4 DEF f

-----------------------------------------------------------------------------
(* Outcomes of Actions *)

Touched == {a \in Aspect : asked[a] # {}}

\* An Action without gain was asked: what redundancy is measured against.
NoGainWasAsked == \A a \in Aspect : asked[a] = {} => noGain[a] = 0

OutcomeInv ==
    /\ IsFiniteSet(pending)
    /\ NoGainWasAsked
    /\ OutcomeAccounting
    /\ RedundancyGrace

\* The counters the two properties relate are natural numbers.
LEMMA CountersAreNat ==
    ASSUME TypeOK, IsFiniteSet(pending)
    PROVE  /\ SumFunction(actionCount) \in Nat
           /\ SumFunction(noGain) \in Nat
           /\ Cardinality(pending) \in Nat
           /\ Cardinality(Touched) \in Nat
           /\ useful \in Nat /\ redundant \in Nat
<1>1. IsFiniteSet(Aspect)
  BY ConstantsAssumption
<1>2. actionCount \in [Aspect -> Nat] /\ noGain \in [Aspect -> Nat]
  BY DEF TypeOK
<1>3. SumFunction(actionCount) \in Nat /\ SumFunction(noGain) \in Nat
  BY <1>1, <1>2, SumType
<1>4. IsFiniteSet(Touched)
  BY <1>1, FS_Subset DEF Touched
<1>5. Cardinality(pending) \in Nat /\ Cardinality(Touched) \in Nat
  BY <1>4, FS_CardinalityType
<1>6. QED
  BY <1>3, <1>5 DEF TypeOK

\* Every Action that is counted adds one to the counted Actions.
LEMMA CountedOnce ==
    ASSUME TypeOK, NEW a \in Aspect,
           actionCount' = [actionCount EXCEPT ![a] = @ + 1]
    PROVE  SumFunction(actionCount') = SumFunction(actionCount) + 1
<1>1. IsFiniteSet(Aspect) /\ actionCount \in [Aspect -> Nat]
  BY ConstantsAssumption DEF TypeOK
<1>2. QED
  BY <1>1, SumOfOneMore

\* _record_action_outcome gives the Action one outcome, and charges it as
\* redundant only if something was asked about its aspect before.
LEMMA OutcomeIsRecorded ==
    ASSUME TypeOK, NoGainWasAsked, NEW a \in Aspect, NEW q \in Question, NEW new,
           RecordOutcome(a, q, new)
    PROVE  /\ NoGainWasAsked'
           /\ useful' + SumFunction(noGain') = useful + SumFunction(noGain) + 1
           /\ redundant' + Cardinality(Touched') \in Nat
           /\ redundant' + Cardinality(Touched')
                <= redundant + Cardinality(Touched) + 1
<1>1. /\ IsFiniteSet(Aspect) /\ noGain \in [Aspect -> Nat]
      /\ asked \in [Aspect -> SUBSET Question]
      /\ useful \in Nat /\ redundant \in Nat
  BY ConstantsAssumption DEF TypeOK
<1>2. IsFiniteSet(Touched) /\ Cardinality(Touched) \in Nat
  BY <1>1, FS_Subset, FS_CardinalityType DEF Touched
<1>3. asked' = [asked EXCEPT ![a] = @ \cup {q}]
  BY DEF RecordOutcome
<1>4. Touched' = Touched \cup {a}
  BY <1>1, <1>3 DEF Touched
<1>5. NoGainWasAsked'
  <2>1. \A b \in Aspect \ {a} : noGain'[b] = noGain[b] /\ asked'[b] = asked[b]
    BY <1>1 DEF RecordOutcome
  <2>2. asked'[a] # {}
    BY <1>1, <1>3
  <2>3. QED
    BY <2>1, <2>2 DEF NoGainWasAsked
<1>6. useful' + SumFunction(noGain') = useful + SumFunction(noGain) + 1
  <2>1. SumFunction(noGain) \in Nat
    BY <1>1, SumType
  <2>2. CASE new # {}
    BY <1>1, <2>1, <2>2 DEF RecordOutcome
  <2>3. CASE new = {}
    <3>1. useful' = useful /\ noGain' = [noGain EXCEPT ![a] = @ + 1]
      BY <2>3 DEF RecordOutcome
    <3>2. SumFunction(noGain') = SumFunction(noGain) + 1
      BY <1>1, <3>1, SumOfOneMore
    <3>3. QED
      BY <1>1, <2>1, <3>1, <3>2
  <2>4. QED
    BY <2>2, <2>3
<1>7. /\ redundant' + Cardinality(Touched') \in Nat
      /\ redundant' + Cardinality(Touched') <= redundant + Cardinality(Touched) + 1
  <2>1. CASE a \in Touched
    <3>1. Touched' = Touched
      BY <1>4, <2>1
    <3>2. redundant' \in {redundant, redundant + 1}
      BY DEF RecordOutcome
    <3>3. QED
      BY <1>1, <1>2, <3>1, <3>2
  <2>2. CASE a \notin Touched
    <3>1. asked[a] = {} /\ noGain[a] = 0
      BY <2>2 DEF Touched, NoGainWasAsked
    <3>2. redundant' = redundant
      BY <3>1 DEF RecordOutcome
    <3>3. Cardinality(Touched') = Cardinality(Touched) + 1
      BY <1>2, <1>4, <2>2, FS_AddElement
    <3>4. QED
      BY <1>1, <1>2, <3>2, <3>3
  <2>3. QED
    BY <2>1, <2>2
<1>8. QED
  BY <1>5, <1>6, <1>7

LEMMA InitOutcome == Init => OutcomeInv
<1> SUFFICES ASSUME Init PROVE OutcomeInv
  OBVIOUS
<1>1. pending = {} /\ useful = 0 /\ redundant = 0
  BY DEF Init
<1>2. IsFiniteSet(pending) /\ Cardinality(pending) = 0
  BY <1>1, FS_EmptySet
<1>3. SumFunction(actionCount) = 0 /\ SumFunction(noGain) = 0
  BY ConstantsAssumption, SumOfNothing DEF Init
<1>4. Touched = {} /\ NoGainWasAsked
  BY DEF Init, Touched, NoGainWasAsked
<1>5. Cardinality(Touched) = 0
  BY <1>4, FS_EmptySet
<1>6. OutcomeAccounting
  BY <1>1, <1>2, <1>3 DEF OutcomeAccounting
<1>7. RedundancyGrace
  BY <1>1, <1>3, <1>5 DEF RedundancyGrace, Touched
<1>8. QED
  BY <1>2, <1>4, <1>6, <1>7 DEF OutcomeInv

\* A step that starts no Action and ends none changes no outcome.
LEMMA QuietOutcome ==
    ASSUME OutcomeInv, UNCHANGED <<outcomeVars, actionCount, pending>>,
           rewardValid' => rewardValid
    PROVE  OutcomeInv'
BY DEF OutcomeInv, outcomeVars, NoGainWasAsked, OutcomeAccounting, RedundancyGrace

\* The limit check does not make a void reward valid, or a valid one void.
LEMMA LimitKeepsReward ==
    ASSUME NEW k, CloseAtLimit(k) PROVE rewardValid' = rewardValid
BY DEF CloseAtLimit, statusVars

\* An Action that gets its outcome keeps the balance, whether the step counts it
\* or takes it from the suspended ones.
LEMMA OutcomeKeepsBalance ==
    ASSUME TypeOK, OutcomeInv, NEW a \in Aspect, NEW q \in Question, NEW new,
           RecordOutcome(a, q, new), IsFiniteSet(pending'),
           rewardValid' => rewardValid,
           \/ /\ SumFunction(actionCount') = SumFunction(actionCount) + 1
              /\ Cardinality(pending') = Cardinality(pending)
           \/ /\ SumFunction(actionCount') = SumFunction(actionCount)
              /\ Cardinality(pending') = Cardinality(pending) - 1
    PROVE  OutcomeInv'
<1>1. /\ NoGainWasAsked'
      /\ useful' + SumFunction(noGain') = useful + SumFunction(noGain) + 1
      /\ redundant' + Cardinality(Touched') \in Nat
      /\ redundant' + Cardinality(Touched') <= redundant + Cardinality(Touched) + 1
  BY OutcomeIsRecorded DEF OutcomeInv
<1>2. /\ SumFunction(actionCount) \in Nat /\ SumFunction(noGain) \in Nat
      /\ Cardinality(pending) \in Nat /\ Cardinality(Touched) \in Nat
      /\ useful \in Nat /\ redundant \in Nat
  BY CountersAreNat DEF OutcomeInv
<1>3. OutcomeAccounting'
  <2> SUFFICES ASSUME rewardValid'
               PROVE  SumFunction(actionCount')
                        = useful' + SumFunction(noGain') + Cardinality(pending')
    BY DEF OutcomeAccounting
  <2>1. SumFunction(actionCount) = useful + SumFunction(noGain) + Cardinality(pending)
    BY DEF OutcomeInv, OutcomeAccounting
  <2>2. QED
    BY <1>1, <1>2, <2>1
<1>4. RedundancyGrace'
  <2>1. redundant + Cardinality(Touched) <= useful + SumFunction(noGain)
    BY DEF OutcomeInv, RedundancyGrace, Touched
  <2>2. redundant' + Cardinality(Touched') <= useful' + SumFunction(noGain')
    BY <1>1, <1>2, <2>1
  <2>3. QED
    BY <2>2 DEF RedundancyGrace, Touched
<1>5. QED
  BY <1>1, <1>3, <1>4 DEF OutcomeInv

LEMMA BeginOutcome ==
    ASSUME TypeOK, OutcomeInv, NEW c \in Call, NEW a \in Aspect, NEW q \in Question,
           BeginAction(c, a, q)
    PROVE  OutcomeInv'
<1> DEFINE r == [call |-> c, aspect |-> a, question |-> q,
                 offered |-> remaining, nonpref |-> nonpref]
<1>1. pending' = pending \cup {r} /\ r.call = c
  BY DEF BeginAction
<1> HIDE DEF r
<1>2. r \notin pending
  BY <1>1 DEF BeginAction
<1>3. IsFiniteSet(pending') /\ Cardinality(pending') = Cardinality(pending) + 1
  BY <1>1, <1>2, FS_AddElement DEF OutcomeInv
<1>4. SumFunction(actionCount') = SumFunction(actionCount) + 1
  BY CountedOnce DEF BeginAction
<1>5. UNCHANGED <<asked, noGain, useful, redundant, rewardValid>>
  BY DEF BeginAction, outcomeVars, statusVars
<1>6. /\ SumFunction(noGain) \in Nat /\ Cardinality(pending) \in Nat
      /\ useful \in Nat
  BY CountersAreNat DEF OutcomeInv
<1>7. OutcomeAccounting'
  <2>1. rewardValid =>
          SumFunction(actionCount) = useful + SumFunction(noGain) + Cardinality(pending)
    BY DEF OutcomeInv, OutcomeAccounting
  <2>2. CASE ~rewardValid
    BY <1>5, <2>2 DEF OutcomeAccounting
  <2>3. CASE rewardValid
    <3>1. SumFunction(actionCount')
            = useful' + SumFunction(noGain') + Cardinality(pending')
      BY <1>3, <1>4, <1>5, <1>6, <2>1, <2>3
    <3>2. QED
      BY <3>1 DEF OutcomeAccounting
  <2>4. QED
    BY <2>2, <2>3
<1>8. NoGainWasAsked' /\ RedundancyGrace'
  BY <1>5 DEF OutcomeInv, NoGainWasAsked, RedundancyGrace
<1>9. QED
  BY <1>3, <1>7, <1>8 DEF OutcomeInv

LEMMA NextOutcome == TypeOK /\ OutcomeInv /\ [Next]_envVars => OutcomeInv'
<1> SUFFICES ASSUME TypeOK, OutcomeInv, [Next]_envVars PROVE OutcomeInv'
  OBVIOUS
<1>1. CASE Rejection
  <2>1. PICK n \in {0, 1} : Refuse(n)
    BY <1>1, RejectionIsRefuse
  <2>2. QED
    BY <2>1, LimitKeepsReward, QuietOutcome DEF Refuse
<1>2. ASSUME NEW a \in Aspect, Search(a) PROVE OutcomeInv'
  BY <1>2, LimitKeepsReward, QuietOutcome DEF Search
<1>3. ASSUME NEW a \in Aspect, NEW q \in Question, LocalAction(a, q)
      PROVE  OutcomeInv'
  <2>1. pending' = pending /\ rewardValid' = rewardValid
    BY <1>3, LimitKeepsReward DEF LocalAction
  <2>2. PICK new : RecordOutcome(a, q, new)
    BY <1>3 DEF LocalAction
  <2>3. SumFunction(actionCount') = SumFunction(actionCount) + 1
    BY <1>3, CountedOnce DEF LocalAction
  <2>4. IsFiniteSet(pending') /\ Cardinality(pending') = Cardinality(pending)
    BY <2>1 DEF OutcomeInv
  <2>5. QED
    BY <2>1, <2>2, <2>3, <2>4, OutcomeKeepsBalance
<1>4. ASSUME NEW a \in Aspect, NEW o \in Option, Answer(a, o) PROVE OutcomeInv'
  <2>1. rewardValid' = rewardValid
    BY <1>4, LimitKeepsReward DEF Answer
  <2>2. QED
    BY <1>4, <2>1, QuietOutcome DEF Answer
<1>5. CASE Finish
  BY <1>5, QuietOutcome DEF Finish
<1>6. ASSUME NEW c \in Call, NEW a \in Aspect, NEW q \in Question,
             BeginAction(c, a, q)
      PROVE  OutcomeInv'
  BY <1>6, BeginOutcome
<1>7. ASSUME NEW r \in pending, CompleteAction(r) PROVE OutcomeInv'
  <2>1. /\ pending' = pending \ {r} /\ actionCount' = actionCount
        /\ rewardValid' = rewardValid
    BY <1>7 DEF CompleteAction, statusVars
  <2>2. r.aspect \in Aspect /\ r.question \in Question
    BY DEF TypeOK, PendingCall
  <2>3. PICK new : RecordOutcome(r.aspect, r.question, new)
    BY <1>7 DEF CompleteAction
  <2>4. IsFiniteSet(pending') /\ Cardinality(pending') = Cardinality(pending) - 1
    BY <2>1, FS_RemoveElement DEF OutcomeInv
  <2>5. QED
    BY <2>1, <2>2, <2>3, <2>4, OutcomeKeepsBalance
<1>8. ASSUME NEW r \in pending, FailAction(r) PROVE OutcomeInv'
  <2>1. pending' = pending \ {r} /\ ~rewardValid'
    BY <1>8 DEF FailAction, MarkFailed
  <2>2. IsFiniteSet(pending')
    BY <2>1, FS_RemoveElement DEF OutcomeInv
  <2>3. UNCHANGED <<asked, noGain, useful, redundant>>
    BY <1>8 DEF FailAction, outcomeVars
  <2>4. QED
    BY <2>1, <2>2, <2>3
       DEF OutcomeInv, NoGainWasAsked, OutcomeAccounting, RedundancyGrace
<1>9. CASE UNCHANGED envVars
  BY <1>9, QuietOutcome DEF envVars, statusVars
<1>10. QED
  BY <1>1, <1>2, <1>3, <1>4, <1>5, <1>6, <1>7, <1>8, <1>9 DEF Next

\* Every counted Action has one outcome or still awaits it, although it is
\* counted before the await and recorded after it; only a void reward loses one.
THEOREM OutcomesAccounted == Spec => []OutcomeAccounting
<1>1. Init => TypeOK /\ OutcomeInv
  BY InitType, InitOutcome
<1>2. TypeOK /\ OutcomeInv /\ [Next]_envVars => (TypeOK /\ OutcomeInv)'
  BY NextType, NextOutcome
<1>3. OutcomeInv => OutcomeAccounting
  BY DEF OutcomeInv
<1>4. QED
  BY <1>1, <1>2, <1>3, PTL DEF Spec

\* The first Action that comes back for an aspect is never charged as redundant
\* (_record_action_outcome), for any order in which the answers return.
THEOREM GraceIsGiven == Spec => []RedundancyGrace
<1>1. Init => TypeOK /\ OutcomeInv
  BY InitType, InitOutcome
<1>2. TypeOK /\ OutcomeInv /\ [Next]_envVars => (TypeOK /\ OutcomeInv)'
  BY NextType, NextOutcome
<1>3. OutcomeInv => RedundancyGrace
  BY DEF OutcomeInv
<1>4. QED
  BY <1>1, <1>2, <1>3, PTL DEF Spec


-----------------------------------------------------------------------------
(* The environment in the request *)

LEMMA RequestStepsEnv == RequestNext => [Next]_envVars
<1> SUFFICES ASSUME RequestNext PROVE Next \/ UNCHANGED envVars
  OBVIOUS
<1>1. ASSUME NEW c \in Call, RefuseArguments(c) PROVE Next
  BY <1>1 DEF RefuseArguments, Next, Rejection
<1>2. ASSUME NEW c \in Call, StepCall(c) PROVE Next
  BY <1>2 DEF StepCall, Next, Rejection
<1>3. ASSUME NEW c \in Call, SuspendCall(c) PROVE Next
  BY <1>3 DEF SuspendCall, Next
<1>4. ASSUME NEW r \in pending, ResumeCall(r) PROVE Next
  BY <1>4 DEF ResumeCall, Next
<1>5. ASSUME NEW c \in Call, EnterCall(c) \/ BuildEvent(c)
      PROVE  UNCHANGED envVars
  BY <1>5 DEF EnterCall, BuildEvent
<1>6. ASSUME NEW calls, Generate(calls) PROVE UNCHANGED envVars
  BY <1>6 DEF Generate
<1>7. CASE HandlePendingState \/ FinishToolTurn \/ RunOutOfTurns
             \/ ScoreAndRelease \/ Quarantine \/ Raise
  BY <1>7 DEF HandlePendingState, FinishToolTurn, RunOutOfTurns,
              ScoreAndRelease, Quarantine, Raise
<1>8. QED
  BY <1>1, <1>2, <1>3, <1>4, <1>5, <1>6, <1>7 DEF RequestNext

\* Whatever the request does, its environment only sees its own steps: the
\* composed system implements the specification of one environment.
THEOREM ImplementsEnv == RequestSpec => Spec
<1>1. RequestInit => Init
  BY DEF RequestInit
<1>2. [RequestNext]_vars => [Next]_envVars
  BY RequestStepsEnv DEF vars
<1>3. QED
  BY <1>1, <1>2, PTL DEF RequestSpec, Spec

-----------------------------------------------------------------------------
(* The frames of the calls *)

SnapshotType == [prefs : Nat, invalid : Nat, answered : Nat, valid : BOOLEAN]
EventType    == [prefs : Int, invalid : BOOLEAN, completed : BOOLEAN]
FrameType    == [phase : {"idle", "called", "entered", "awaiting", "returned",
                          "done"},
                 before : SnapshotType, event : EventType, done : BOOLEAN]

LEMMA SnapshotIsTyped == TypeOK => Snapshot \in SnapshotType
<1> SUFFICES ASSUME TypeOK PROVE Snapshot \in SnapshotType
  OBVIOUS
<1>1. Cardinality(agentSeen) \in Nat
  BY ConstantsAssumption, FS_Subset, FS_CardinalityType DEF TypeOK
<1>2. Cardinality(Answered) \in Nat
  BY ConstantsAssumption, FS_Subset, FS_CardinalityType DEF Answered
<1>3. QED
  BY <1>1, <1>2 DEF Snapshot, SnapshotType, TypeOK

LEMMA NextSnapshotIsTyped == TypeOK' => Snapshot' \in SnapshotType
<1>1. (TypeOK => Snapshot \in SnapshotType)'
  BY SnapshotIsTyped, PTL
<1>2. QED
  BY <1>1 DEF SnapshotType

LEMMA TurnEventIsTyped ==
    ASSUME NEW before \in SnapshotType, NEW after \in SnapshotType
    PROVE  TurnEvent(before, after) \in EventType
BY DEF TurnEvent, SnapshotType, EventType

LEMMA IdleIsTyped == IdleFrame \in FrameType
BY DEF IdleFrame, FrameType, ZeroSnapshot, NoEvent, SnapshotType, EventType

\* How the frame of a call moves on.
LEMMA ReturnMoves ==
    ASSUME frame \in [Call -> FrameType], NEW c \in Call, NEW d \in BOOLEAN,
           Return(c, d)
    PROVE  /\ frame' \in [Call -> FrameType]
           /\ frame'[c].phase = "returned"
           /\ frame'[c].done = d
           /\ frame'[c].before = frame[c].before
           /\ \A o \in Call \ {c} : frame'[o] = frame[o]
BY DEF Return, FrameType

LEMMA EnterMoves ==
    ASSUME TypeOK, frame \in [Call -> FrameType], NEW c \in Call, EnterCall(c)
    PROVE  /\ frame' \in [Call -> FrameType]
           /\ frame'[c].phase = "entered"
           /\ frame'[c].before = Snapshot
           /\ \A o \in Call \ {c} : frame'[o] = frame[o]
BY SnapshotIsTyped DEF EnterCall, FrameType

LEMMA SuspendMoves ==
    ASSUME frame \in [Call -> FrameType], NEW c \in Call, SuspendCall(c)
    PROVE  /\ frame' \in [Call -> FrameType]
           /\ frame'[c].phase = "awaiting"
           /\ frame'[c].before = frame[c].before
           /\ \A o \in Call \ {c} : frame'[o] = frame[o]
BY DEF SuspendCall, FrameType

LEMMA BuildMoves ==
    ASSUME TypeOK, frame \in [Call -> FrameType], NEW c \in Call, BuildEvent(c)
    PROVE  /\ frame' \in [Call -> FrameType]
           /\ frame'[c].phase = "done"
           /\ frame'[c].before = frame[c].before
           /\ frame'[c].done = frame[c].done
           /\ frame'[c].event = TurnEvent(frame[c].before, Snapshot)
           /\ \A o \in Call \ {c} : frame'[o] = frame[o]
<1>1. frame[c].before \in SnapshotType
  BY DEF FrameType
<1>2. TurnEvent(frame[c].before, Snapshot) \in EventType
  BY <1>1, SnapshotIsTyped, TurnEventIsTyped
<1>3. QED
  BY <1>2 DEF BuildEvent, FrameType

LEMMA RefuseMoves ==
    ASSUME TypeOK, TypeOK', frame \in [Call -> FrameType], NEW c \in Call,
           RefuseArguments(c)
    PROVE  /\ frame' \in [Call -> FrameType]
           /\ frame'[c].phase = "done"
           /\ frame'[c].before = Snapshot
           /\ frame'[c].done = Closed'
           /\ frame'[c].event = TurnEvent(Snapshot, Snapshot')
           /\ \A o \in Call \ {c} : frame'[o] = frame[o]
<1>1. Snapshot \in SnapshotType /\ Snapshot' \in SnapshotType
  BY SnapshotIsTyped, NextSnapshotIsTyped
<1>2. TurnEvent(Snapshot, Snapshot') \in EventType
  BY <1>1, TurnEventIsTyped
<1>3. Closed' \in BOOLEAN
  BY DEF Closed, TypeOK
<1>4. QED
  BY <1>1, <1>2, <1>3 DEF RefuseArguments, FrameType

\* A message starts with no call entered.
LEMMA GenerateMoves ==
    ASSUME NEW calls \in SUBSET Call, calls # {}, Generate(calls)
    PROVE  /\ frame' \in [Call -> FrameType]
           /\ \A c \in Call : frame'[c].phase \in {"idle", "called"}
           /\ \E c \in Call : frame'[c].phase = "called"
<1>1. [IdleFrame EXCEPT !.phase = "called"] \in FrameType
  BY IdleIsTyped DEF FrameType
<1>2. /\ [IdleFrame EXCEPT !.phase = "called"].phase = "called"
      /\ IdleFrame.phase = "idle"
  BY DEF IdleFrame
<1>3. QED
  BY <1>1, <1>2, IdleIsTyped DEF Generate

LEMMA ResetMoves ==
    ASSUME frame' = [c \in Call |-> IdleFrame]
    PROVE  /\ frame' \in [Call -> FrameType]
           /\ \A c \in Call : frame'[c].phase = "idle"
BY IdleIsTyped DEF IdleFrame

-----------------------------------------------------------------------------
(* What a step of the request does to the calls of its message *)

\* The request moves at most through one message at a time.
RequestTyped ==
    /\ TypeOK
    /\ state \in {"pending", "running", "tool_calling", "stopped", "scored",
                  "quarantined", "raised"}
    /\ turns \in 0..MaxTurns
    /\ entry \in {"absent", "live", "released"}
    /\ frame \in [Call -> FrameType]
    /\ opened \in SnapshotType

\* The suspended frames are the steps the environment is waiting for, one
\* each.
PendingFrames ==
    /\ {r.call : r \in pending} = {c \in Call : InPhase(c, "awaiting")}
    /\ \A r, s \in pending : r.call = s.call => r = s

\* Calls only run inside a message, never inside the last one.
CallsInMessage ==
    /\ state # "tool_calling" => \A c \in Call : InPhase(c, "idle")
    /\ state = "tool_calling" => \E c \in Call : ~InPhase(c, "idle")
    /\ OutOfTurns => \A c \in Call : frame[c].phase \in {"idle", "called"}

\* An open request has an open episode, or a call that reports its end.
EndIsReported ==
    /\ state \in {"pending", "running"} => ~Closed
    /\ state = "tool_calling" /\ Closed =>
         \E c \in Call : frame[c].phase \in {"returned", "done"} /\ frame[c].done

ReleasedAfterReport ==
    /\ entry = "released" => state \in {"scored", "quarantined"}
    /\ state = "scored" => report = Ledger

RequestInv ==
    /\ RequestTyped
    /\ PendingFrames
    /\ CallsInMessage
    /\ EndIsReported
    /\ ReleasedAfterReport

CallEnters(c) ==
    /\ frame[c].phase = "called" /\ frame'[c].phase = "entered"
    /\ frame'[c].before = Snapshot
    /\ UNCHANGED envVars

CallIsRefused(c) ==
    /\ frame[c].phase = "called" /\ frame'[c].phase = "done"
    /\ frame'[c].before = Snapshot
    /\ frame'[c].event = TurnEvent(Snapshot, Snapshot')
    /\ frame'[c].done = Closed'
    /\ invalid' = invalid + 1
    /\ UNCHANGED pending

CallSuspends(c) ==
    /\ frame[c].phase = "entered" /\ frame'[c].phase = "awaiting"
    /\ frame'[c].before = frame[c].before
    /\ steps' = steps + 1
    /\ UNCHANGED <<answers, invalid, statusVars>>
    /\ \E r \in PendingCall : r.call = c /\ pending' = pending \cup {r}

CallReturns(c) ==
    /\ frame'[c].phase = "returned"
    /\ frame'[c].before = frame[c].before
    /\ Closed' => frame'[c].done
    /\ \/ /\ frame[c].phase = "entered"
          /\ steps' = steps + 1 \/ invalid' = invalid + 1
          /\ UNCHANGED pending
       \/ /\ frame[c].phase = "awaiting"
          /\ \E r \in pending : r.call = c /\ pending' = pending \ {r}

CallIsCredited(c) ==
    /\ frame[c].phase = "returned" /\ frame'[c].phase = "done"
    /\ frame'[c].before = frame[c].before
    /\ frame'[c].done = frame[c].done
    /\ frame'[c].event = TurnEvent(frame[c].before, Snapshot)
    /\ UNCHANGED envVars

\* One call of the message moves on and the others stay where they are.
CallMoves(c) ==
    /\ state = "tool_calling" /\ ~OutOfTurns
    /\ UNCHANGED <<state, turns, entry, opened, report>>
    /\ frame' \in [Call -> FrameType]
    /\ \A o \in Call \ {c} : frame'[o] = frame[o]
    /\ \/ CallEnters(c) \/ CallIsRefused(c) \/ CallSuspends(c)
       \/ CallReturns(c) \/ CallIsCredited(c)

LEMMA EnterIsMove ==
    ASSUME RequestInv, NEW c \in Call, EnterCall(c)
    PROVE  CallMoves(c)
BY EnterMoves DEF EnterCall, CallMoves, CallEnters, RequestInv, RequestTyped, InPhase

LEMMA BuildIsMove ==
    ASSUME RequestInv, NEW c \in Call, BuildEvent(c)
    PROVE  CallMoves(c)
<1>1. state = "tool_calling" /\ ~OutOfTurns
  BY DEF BuildEvent, RequestInv, CallsInMessage, InPhase
<1>2. QED
  BY <1>1, BuildMoves
     DEF BuildEvent, CallMoves, CallIsCredited, RequestInv, RequestTyped, InPhase

LEMMA RefuseIsMove ==
    ASSUME RequestInv, TypeOK', NEW c \in Call, RefuseArguments(c)
    PROVE  CallMoves(c)
<1>1. invalid' = invalid + 1 /\ pending' = pending
  BY DEF RefuseArguments, RegisterExternalInvalidCall, Refuse
<1>2. CallIsRefused(c)
  BY <1>1, RefuseMoves
     DEF RefuseArguments, CallIsRefused, RequestInv, RequestTyped, InPhase
<1>3. QED
  BY <1>2, RefuseMoves DEF RefuseArguments, CallMoves, RequestInv, RequestTyped

LEMMA SuspendIsMove ==
    ASSUME RequestInv, NEW c \in Call, SuspendCall(c)
    PROVE  CallMoves(c)
<1>1. state = "tool_calling" /\ ~OutOfTurns
  BY DEF SuspendCall, RequestInv, CallsInMessage, InPhase
<1>2. PICK a \in Aspect, q \in Question : BeginAction(c, a, q)
  BY DEF SuspendCall
<1>3. [call |-> c, aspect |-> a, question |-> q, offered |-> remaining,
       nonpref |-> nonpref] \in PendingCall
  BY DEF RequestInv, RequestTyped, TypeOK, PendingCall
<1>4. CallSuspends(c)
  BY <1>2, <1>3, SuspendMoves
     DEF SuspendCall, BeginAction, CallSuspends, RequestInv, RequestTyped, InPhase,
         taskVars
<1>5. QED
  BY <1>1, <1>4, SuspendMoves DEF SuspendCall, CallMoves, RequestInv, RequestTyped

LEMMA StepIsMove ==
    ASSUME RequestInv, TypeOK', NEW c \in Call, StepCall(c)
    PROVE  CallMoves(c)
<1>1. state = "tool_calling" /\ ~OutOfTurns
  BY DEF StepCall, RequestInv, CallsInMessage, InPhase
<1>2. Closed' \in BOOLEAN
  BY DEF Closed, TypeOK
<1>3. steps' = steps + 1 \/ invalid' = invalid + 1
  BY DEF StepCall, RejectCall, RejectFinished, Refuse, Search, LocalAction, Answer
<1>4. pending' = pending
  BY DEF StepCall, RejectCall, RejectFinished, Refuse, Search, LocalAction, Answer
<1>5. CallReturns(c)
  BY <1>2, <1>3, <1>4, ReturnMoves
     DEF StepCall, CallReturns, RequestInv, RequestTyped, InPhase
<1>6. QED
  BY <1>1, <1>2, <1>5, ReturnMoves DEF StepCall, CallMoves, RequestInv, RequestTyped

LEMMA ResumeIsMove ==
    ASSUME RequestInv, TypeOK', NEW r \in pending, ResumeCall(r)
    PROVE  r.call \in Call /\ CallMoves(r.call)
<1>1. r.call \in Call /\ frame[r.call].phase = "awaiting"
  BY DEF RequestInv, PendingFrames, InPhase
<1>2. state = "tool_calling" /\ ~OutOfTurns
  BY <1>1 DEF RequestInv, CallsInMessage, InPhase
<1>3. PICK d \in BOOLEAN : Return(r.call, d) /\ (Closed' => d)
  BY DEF ResumeCall, Closed, TypeOK
<1>4. pending' = pending \ {r}
  BY DEF ResumeCall, CompleteAction, FailAction
<1>5. frame \in [Call -> FrameType]
  BY DEF RequestInv, RequestTyped
<1>6. CallReturns(r.call)
  BY <1>1, <1>3, <1>4, <1>5, ReturnMoves DEF CallReturns
<1>7. QED
  BY <1>1, <1>2, <1>3, <1>5, <1>6, ReturnMoves DEF ResumeCall, CallMoves

\* Every step of a call is one of the five moves.
LEMMA StepsAreMoves ==
    ASSUME RequestInv, TypeOK', RequestNext
    PROVE  \/ \E c \in Call : CallMoves(c)
           \/ HandlePendingState
           \/ \E calls \in (SUBSET Call) \ {{}} : Generate(calls)
           \/ FinishToolTurn \/ RunOutOfTurns \/ ScoreAndRelease
           \/ Quarantine \/ Raise
BY EnterIsMove, BuildIsMove, RefuseIsMove, SuspendIsMove, StepIsMove, ResumeIsMove
   DEF RequestNext

-----------------------------------------------------------------------------
(* The invariant of a request *)

LEMMA InitRequest == RequestInit => RequestInv
<1> SUFFICES ASSUME RequestInit PROVE RequestInv
  OBVIOUS
<1>1. TypeOK /\ pending = {} /\ ~Closed
  BY InitType DEF RequestInit, Init, Closed
<1>2. RequestTyped
  <2>1. opened \in SnapshotType
    BY <1>1, SnapshotIsTyped DEF RequestInit
  <2>2. frame \in [Call -> FrameType]
    BY IdleIsTyped DEF RequestInit
  <2>3. turns \in 0..MaxTurns
    BY TurnsAssumption, ConstantsAssumption DEF RequestInit
  <2>4. QED
    BY <1>1, <2>1, <2>2, <2>3 DEF RequestInit, RequestTyped
<1>3. \A c \in Call : frame[c].phase = "idle"
  BY DEF RequestInit, IdleFrame
<1>4. PendingFrames /\ CallsInMessage
  BY <1>1, <1>3 DEF RequestInit, PendingFrames, CallsInMessage, InPhase
<1>5. EndIsReported /\ ReleasedAfterReport
  BY <1>1 DEF RequestInit, EndIsReported, ReleasedAfterReport
<1>6. QED
  BY <1>2, <1>4, <1>5 DEF RequestInv

LEMMA MoveKeepsInv ==
    ASSUME RequestInv, TypeOK', [Next]_envVars, NEW c \in Call, CallMoves(c)
    PROVE  RequestInv'
<1> USE DEF InPhase
<1>1. RequestTyped'
  BY DEF RequestInv, RequestTyped, CallMoves
<1>2. PendingFrames'
  <2>1. CASE CallEnters(c) \/ CallIsRefused(c) \/ CallIsCredited(c)
    <3>1. pending' = pending
      BY <2>1 DEF CallEnters, CallIsRefused, CallIsCredited, envVars
    <3>2. {o \in Call : frame'[o].phase = "awaiting"}
            = {o \in Call : frame[o].phase = "awaiting"}
      BY <2>1 DEF CallMoves, CallEnters, CallIsRefused, CallIsCredited
    <3>3. QED
      BY <3>1, <3>2 DEF RequestInv, PendingFrames
  <2>2. CASE CallSuspends(c)
    <3>1. PICK r : r.call = c /\ pending' = pending \cup {r}
      BY <2>2 DEF CallSuspends
    <3>2. {o \in Call : frame'[o].phase = "awaiting"}
            = {o \in Call : frame[o].phase = "awaiting"} \cup {c}
      BY <2>2 DEF CallMoves, CallSuspends
    <3>3. \A s \in pending : s.call # c
      BY <2>2 DEF CallSuspends, RequestInv, PendingFrames
    <3>4. QED
      BY <3>1, <3>2, <3>3 DEF RequestInv, PendingFrames
  <2>3. CASE CallReturns(c) /\ frame[c].phase = "entered"
    <3>1. pending' = pending
      BY <2>3 DEF CallReturns
    <3>2. {o \in Call : frame'[o].phase = "awaiting"}
            = {o \in Call : frame[o].phase = "awaiting"}
      BY <2>3 DEF CallMoves, CallReturns
    <3>3. QED
      BY <3>1, <3>2 DEF RequestInv, PendingFrames
  <2>4. CASE CallReturns(c) /\ frame[c].phase = "awaiting"
    <3>1. PICK r \in pending : r.call = c /\ pending' = pending \ {r}
      BY <2>4 DEF CallReturns
    <3>2. {o \in Call : frame'[o].phase = "awaiting"}
            = {o \in Call : frame[o].phase = "awaiting"} \ {c}
      BY <2>4 DEF CallMoves, CallReturns
    <3>3. \A s \in pending : s.call = c => s = r
      BY <3>1 DEF RequestInv, PendingFrames
    <3>4. QED
      BY <3>1, <3>2, <3>3 DEF RequestInv, PendingFrames
  <2>5. QED
    BY <2>1, <2>2, <2>3, <2>4 DEF CallMoves, CallReturns
<1>3. CallsInMessage'
  <2>1. frame'[c].phase # "idle"
    BY DEF CallMoves, CallEnters, CallIsRefused, CallSuspends, CallReturns,
           CallIsCredited
  <2>2. QED
    BY <2>1 DEF CallMoves, CallsInMessage, OutOfTurns
<1>4. EndIsReported'
  <2>1. SUFFICES ASSUME Closed'
                 PROVE  \E o \in Call : /\ frame'[o].phase \in {"returned", "done"}
                                        /\ frame'[o].done
    BY DEF EndIsReported, CallMoves
  <2>2. CASE Closed
    <3>1. PICK o \in Call : frame[o].phase \in {"returned", "done"} /\ frame[o].done
      BY <2>2 DEF RequestInv, EndIsReported, CallMoves
    <3>2. CASE o # c
      BY <3>1, <3>2 DEF CallMoves
    <3>3. CASE o = c
      BY <3>1, <3>3 DEF CallMoves, CallEnters, CallIsRefused, CallSuspends,
                        CallReturns, CallIsCredited
    <3>4. QED
      BY <3>2, <3>3
  <2>3. CASE ~Closed
    <3>1. ~CallEnters(c) /\ ~CallSuspends(c) /\ ~CallIsCredited(c)
      BY <2>1, <2>3 DEF CallEnters, CallSuspends, CallIsCredited, Closed, envVars,
                        statusVars
    <3>2. CASE CallIsRefused(c)
      BY <2>1, <3>2 DEF CallIsRefused
    <3>3. CASE CallReturns(c)
      BY <2>1, <3>3 DEF CallReturns
    <3>4. QED
      BY <3>1, <3>2, <3>3 DEF CallMoves
  <2>4. QED
    BY <2>2, <2>3
<1>5. ReleasedAfterReport'
  BY DEF RequestInv, ReleasedAfterReport, CallMoves
<1>6. QED
  BY <1>1, <1>2, <1>3, <1>4, <1>5 DEF RequestInv

\* A message that ends leaves nothing suspended in the environment.
LEMMA NothingPends ==
    ASSUME RequestInv,
           \/ state # "tool_calling"
           \/ OutOfTurns
           \/ GatherIsOver
    PROVE  pending = {}
<1>1. \A c \in Call : frame[c].phase # "awaiting"
  BY DEF RequestInv, CallsInMessage, GatherIsOver, Batch, InPhase
<1>2. QED
  BY <1>1 DEF RequestInv, PendingFrames, InPhase

\* The message's calls are gone and nothing of the episode changed.
LEMMA MessageIsDropped ==
    ASSUME RequestInv, UNCHANGED <<envVars, opened>>, pending = {},
           frame' = [c \in Call |-> IdleFrame], state' # "tool_calling",
           turns' \in 0..MaxTurns,
           state' \in {"running", "stopped", "quarantined"},
           entry' \in {"absent", "live", "released"}
    PROVE  RequestTyped' /\ PendingFrames' /\ CallsInMessage'
<1>1. frame' \in [Call -> FrameType] /\ \A c \in Call : frame'[c].phase = "idle"
  BY ResetMoves
<1>2. TypeOK'
  BY NextType DEF RequestInv, RequestTyped
<1>3. RequestTyped'
  BY <1>1, <1>2 DEF RequestInv, RequestTyped
<1>4. pending' = {}
  BY DEF envVars
<1>5. PendingFrames' /\ CallsInMessage'
  BY <1>1, <1>4 DEF PendingFrames, CallsInMessage, InPhase
<1>6. QED
  BY <1>3, <1>5

LEMMA BoundaryKeepsInv ==
    ASSUME RequestInv,
           \/ HandlePendingState
           \/ \E calls \in (SUBSET Call) \ {{}} : Generate(calls)
           \/ FinishToolTurn \/ RunOutOfTurns \/ ScoreAndRelease
           \/ Quarantine \/ Raise
    PROVE  RequestInv'
<1>1. CASE HandlePendingState
  <2>1. TypeOK' /\ (Closed' <=> Closed)
    BY <1>1, NextType
       DEF HandlePendingState, RequestInv, RequestTyped, Closed, envVars, statusVars
  <2>2. pending' = pending /\ frame' = frame /\ turns' = turns
    BY <1>1 DEF HandlePendingState, envVars
  <2>3. QED
    BY <1>1, <2>1, <2>2
       DEF HandlePendingState, RequestInv, RequestTyped, PendingFrames,
           CallsInMessage, EndIsReported, ReleasedAfterReport, InPhase, OutOfTurns
<1>2. ASSUME NEW calls \in (SUBSET Call) \ {{}}, Generate(calls)
      PROVE  RequestInv'
  <2>1. TypeOK' /\ (Closed' <=> Closed) /\ pending' = pending
    BY <1>2, NextType
       DEF Generate, RequestInv, RequestTyped, Closed, envVars, statusVars
  <2>2. pending = {}
    BY <1>2, NothingPends DEF Generate
  <2>3. /\ frame' \in [Call -> FrameType]
        /\ \A c \in Call : frame'[c].phase \in {"idle", "called"}
        /\ \E c \in Call : frame'[c].phase = "called"
    BY <1>2, GenerateMoves
  <2>4. turns' \in 0..MaxTurns
    BY <1>2, TurnsAssumption, ConstantsAssumption
       DEF Generate, OutOfTurns, RequestInv, RequestTyped
  <2>5. opened' \in SnapshotType
    BY <1>2, SnapshotIsTyped DEF Generate, RequestInv, RequestTyped
  <2>6. RequestTyped'
    BY <1>2, <2>1, <2>3, <2>4, <2>5 DEF Generate, RequestInv, RequestTyped
  <2>7. PendingFrames' /\ CallsInMessage'
    BY <1>2, <2>1, <2>2, <2>3 DEF Generate, PendingFrames, CallsInMessage, InPhase
  <2>8. EndIsReported' /\ ReleasedAfterReport'
    BY <1>2, <2>1 DEF Generate, RequestInv, EndIsReported, ReleasedAfterReport
  <2>9. QED
    BY <2>6, <2>7, <2>8 DEF RequestInv
<1>3. CASE FinishToolTurn
  <2>1. /\ state = "tool_calling" /\ state' \in {"stopped", "running"}
        /\ UNCHANGED <<envVars, turns, entry, opened, report>>
    BY <1>3 DEF FinishToolTurn, GatherIsOver
  <2>2. RequestTyped' /\ PendingFrames' /\ CallsInMessage'
    BY <1>3, <2>1, NothingPends, MessageIsDropped
       DEF FinishToolTurn, RequestInv, RequestTyped
  <2>3. state' = "running" => ~Closed
    <3>1. state' = "running" => \A c \in Batch : InPhase(c, "done") /\ ~frame[c].done
      BY <1>3 DEF FinishToolTurn, GatherIsOver
    <3>2. QED
      BY <2>1, <3>1 DEF RequestInv, EndIsReported, Batch, InPhase
  <2>4. EndIsReported' /\ ReleasedAfterReport'
    BY <2>1, <2>3
       DEF RequestInv, EndIsReported, ReleasedAfterReport, Closed, envVars, statusVars
  <2>5. QED
    BY <2>2, <2>4 DEF RequestInv
<1>4. CASE RunOutOfTurns
  <2>1. /\ state \in {"running", "tool_calling"} /\ state' = "stopped"
        /\ UNCHANGED <<envVars, turns, entry, opened, report>>
    BY <1>4 DEF RunOutOfTurns
  <2>2. RequestTyped' /\ PendingFrames' /\ CallsInMessage'
    BY <1>4, <2>1, NothingPends, MessageIsDropped
       DEF RunOutOfTurns, RequestInv, RequestTyped
  <2>3. EndIsReported' /\ ReleasedAfterReport'
    BY <2>1 DEF RequestInv, EndIsReported, ReleasedAfterReport
  <2>4. QED
    BY <2>2, <2>3 DEF RequestInv
<1>5. CASE ScoreAndRelease
  <2>1. TypeOK' /\ Ledger' = Ledger /\ pending' = pending
    BY <1>5, NextType
       DEF ScoreAndRelease, RequestInv, RequestTyped, Ledger, envVars, taskVars,
           prefVars, outcomeVars, statusVars
  <2>2. QED
    BY <1>5, <2>1
       DEF ScoreAndRelease, RequestInv, RequestTyped, PendingFrames,
           CallsInMessage, EndIsReported, ReleasedAfterReport, InPhase, OutOfTurns
<1>6. CASE Quarantine
  <2>1. /\ state' = "quarantined" /\ entry' = "released"
        /\ UNCHANGED <<envVars, turns, opened>>
        /\ state \notin {"scored"}
    BY <1>6 DEF Quarantine, GatherIsOver
  <2>2. pending = {}
    BY <1>6, NothingPends DEF Quarantine
  <2>3. RequestTyped' /\ PendingFrames' /\ CallsInMessage'
    BY <1>6, <2>1, <2>2, MessageIsDropped DEF Quarantine, RequestInv, RequestTyped
  <2>4. EndIsReported' /\ ReleasedAfterReport'
    BY <2>1 DEF EndIsReported, ReleasedAfterReport
  <2>5. QED
    BY <2>3, <2>4 DEF RequestInv
<1>7. CASE Raise
  <2>1. TypeOK' /\ pending' = pending
    BY <1>7, NextType DEF Raise, RequestInv, RequestTyped, envVars
  <2>2. QED
    BY <1>7, <2>1
       DEF Raise, RequestInv, RequestTyped, PendingFrames,
           CallsInMessage, EndIsReported, ReleasedAfterReport, InPhase, OutOfTurns
<1>8. QED
  BY <1>1, <1>2, <1>3, <1>4, <1>5, <1>6, <1>7

LEMMA StutterKeepsInv == RequestInv /\ UNCHANGED vars => RequestInv'
<1> SUFFICES ASSUME RequestInv, UNCHANGED vars PROVE RequestInv'
  OBVIOUS
<1>1. TypeOK' /\ pending' = pending /\ Ledger' = Ledger /\ (Closed' <=> Closed)
  BY NextType
     DEF vars, RequestInv, RequestTyped, Ledger, Closed, envVars, taskVars,
         prefVars, outcomeVars, statusVars
<1>2. UNCHANGED <<state, turns, entry, frame, opened, report>>
  BY DEF vars, requestVars
<1>3. QED
  BY <1>1, <1>2 DEF RequestInv, RequestTyped, PendingFrames, CallsInMessage,
                    EndIsReported, ReleasedAfterReport, InPhase, OutOfTurns

LEMMA NextRequest == RequestInv /\ [RequestNext]_vars => RequestInv'
<1> SUFFICES ASSUME RequestInv, [RequestNext]_vars PROVE RequestInv'
  OBVIOUS
<1>1. CASE UNCHANGED vars
  BY <1>1, StutterKeepsInv
<1>2. CASE RequestNext
  <2>1. [Next]_envVars
    BY <1>2, RequestStepsEnv
  <2>2. TypeOK'
    BY <2>1, NextType DEF RequestInv, RequestTyped
  <2>3. QED
    BY <1>2, <2>1, <2>2, StepsAreMoves, MoveKeepsInv, BoundaryKeepsInv
<1>3. QED
  BY <1>1, <1>2

\* The states, the frames and the suspended steps of a request stay in the
\* ranges the code gives them (_async_rollout_a_request, InteractTool.execute).
THEOREM RequestTypeCorrect == RequestSpec => []RequestTypeOK
<1>1. RequestInit => RequestInv
  BY InitRequest
<1>2. RequestInv /\ [RequestNext]_vars => RequestInv'
  BY NextRequest
<1>3. RequestInv => RequestTypeOK
  BY DEF RequestInv, RequestTyped, PendingFrames, RequestTypeOK, FrameType
<1>4. QED
  BY <1>1, <1>2, <1>3, PTL DEF RequestSpec

\* The reward the trainer gets is the episode's last word: no call survives
\* calc_reward or release, however the message's calls were interleaved.
THEOREM FinalReport == RequestSpec => []ReportIsFinal
<1>1. RequestInit => RequestInv
  BY InitRequest
<1>2. RequestInv /\ [RequestNext]_vars => RequestInv'
  BY NextRequest
<1>3. RequestInv => ReportIsFinal
  <2> SUFFICES ASSUME RequestInv PROVE ReportIsFinal
    OBVIOUS
  <2>1. entry = "released" => pending = {}
    BY NothingPends DEF RequestInv, ReleasedAfterReport
  <2>2. entry = "released" => Batch = {}
    BY DEF RequestInv, ReleasedAfterReport, CallsInMessage, Batch, InPhase
  <2>3. QED
    BY <2>1, <2>2 DEF RequestInv, ReleasedAfterReport, ReportIsFinal
<1>4. QED
  BY <1>1, <1>2, <1>3, PTL DEF RequestSpec

\* The loop generates no turn for a finished episode, whichever of the
\* concurrent calls finished it.
THEOREM TurnsStopAtTheEnd == RequestSpec => []NoTurnAfterTheEnd
<1>1. RequestInit => RequestInv
  BY InitRequest
<1>2. RequestInv /\ [RequestNext]_vars => RequestInv'
  BY NextRequest
<1>3. RequestInv => NoTurnAfterTheEnd
  BY DEF RequestInv, EndIsReported, NoTurnAfterTheEnd
<1>4. QED
  BY <1>1, <1>2, <1>3, PTL DEF RequestSpec

-----------------------------------------------------------------------------
(* The merged events of a message *)

\* Both counters and the reward's validity only ever move one way.
Later(s, t) == s.answered <= t.answered /\ s.invalid <= t.invalid /\ (t.valid => s.valid)
Grew(s, t)  == t.answered > s.answered
Hurt(s, t)  == t.invalid > s.invalid \/ (s.valid /\ ~t.valid)

LEMMA EpisodeMovesOn ==
    ASSUME TypeOK, [Next]_envVars
    PROVE  /\ Answered \subseteq Answered'
           /\ invalid <= invalid'
           /\ rewardValid' => rewardValid
<1>1. CASE Rejection
  <2>1. PICK n \in {0, 1} : Refuse(n)
    BY <1>1, RejectionIsRefuse
  <2>2. rewardValid' => rewardValid
    BY <2>1 DEF Refuse, CloseAtLimit, statusVars
  <2>3. QED
    BY <2>1, <2>2 DEF Refuse, TypeOK, Answered, taskVars
<1>2. ASSUME NEW a \in Aspect, NEW o \in Option, Answer(a, o)
      PROVE  Answered \subseteq Answered' /\ invalid' = invalid
             /\ (rewardValid' => rewardValid)
  <2>1. rewardValid' => rewardValid
    BY <1>2 DEF Answer, CloseAtLimit, statusVars
  <2>2. QED
    BY <1>2, <2>1, AnswerAnswers DEF Answer
<1>3. ASSUME NEW a \in Aspect, Search(a)
      PROVE  answers' = answers /\ invalid' = invalid /\ (rewardValid' => rewardValid)
  BY <1>3 DEF Search, CloseAtLimit, statusVars
<1>4. ASSUME NEW a \in Aspect, NEW q \in Question, LocalAction(a, q)
      PROVE  answers' = answers /\ invalid' = invalid /\ (rewardValid' => rewardValid)
  BY <1>4 DEF LocalAction, CloseAtLimit, statusVars, taskVars
<1>5. ASSUME NEW c \in Call, NEW a \in Aspect, NEW q \in Question,
             BeginAction(c, a, q)
      PROVE  answers' = answers /\ invalid' = invalid /\ (rewardValid' => rewardValid)
  BY <1>5 DEF BeginAction, statusVars, taskVars
<1>6. ASSUME NEW r \in pending, CompleteAction(r) \/ FailAction(r)
      PROVE  answers' = answers /\ invalid' = invalid /\ (rewardValid' => rewardValid)
  <2>1. answers' = answers /\ invalid' = invalid
    BY <1>6 DEF CompleteAction, FailAction, taskVars
  <2>2. rewardValid' => rewardValid
    BY <1>6 DEF CompleteAction, FailAction, MarkFailed, statusVars
  <2>3. QED
    BY <2>1, <2>2
<1>7. CASE Finish \/ UNCHANGED envVars
  <2>1. answers' = answers /\ invalid' = invalid
    BY <1>7 DEF Finish, envVars, taskVars
  <2>2. rewardValid' = rewardValid
    BY <1>7 DEF Finish, envVars, statusVars
  <2>3. QED
    BY <2>1, <2>2 DEF TypeOK, Answered
<1>8. answers' = answers /\ invalid' = invalid => Answered' = Answered /\ invalid' <= invalid
  BY DEF Answered, TypeOK
<1>9. invalid \in Nat
  BY DEF TypeOK
<1>10. QED
  BY <1>1, <1>2, <1>3, <1>4, <1>5, <1>6, <1>7, <1>8, <1>9 DEF Next

LEMMA SnapshotMovesOn ==
    ASSUME TypeOK, [Next]_envVars
    PROVE  Later(Snapshot, Snapshot')
<1>1. /\ Answered \subseteq Answered'
      /\ invalid <= invalid'
      /\ rewardValid' => rewardValid
  BY EpisodeMovesOn
<1>2. IsFiniteSet(Answered')
  BY ConstantsAssumption, FS_Subset DEF Answered
<1>3. Cardinality(Answered) <= Cardinality(Answered')
  BY <1>1, <1>2, FS_Subset
<1>4. QED
  BY <1>1, <1>3 DEF Later, Snapshot

LEMMA LaterChains ==
    ASSUME NEW s \in SnapshotType, NEW t \in SnapshotType, NEW u \in SnapshotType,
           Later(s, t), Later(t, u)
    PROVE  /\ Later(s, u)
           /\ Grew(s, u) <=> Grew(s, t) \/ Grew(t, u)
           /\ Hurt(s, u) <=> Hurt(s, t) \/ Hurt(t, u)
<1>1. Later(s, u)
  BY DEF Later, SnapshotType
<1>2. Grew(s, u) <=> Grew(s, t) \/ Grew(t, u)
  BY DEF Later, Grew, SnapshotType
<1>3. Hurt(s, u) <=> Hurt(s, t) \/ Hurt(t, u)
  BY DEF Later, Hurt, SnapshotType
<1>4. QED
  BY <1>1, <1>2, <1>3

LEMMA LaterIsReflexive ==
    ASSUME NEW s \in SnapshotType
    PROVE  Later(s, s) /\ ~Grew(s, s) /\ ~Hurt(s, s)
BY DEF Later, Grew, Hurt, SnapshotType

LEMMA EventSays ==
    ASSUME NEW s, NEW t
    PROVE  /\ TurnEvent(s, t).completed = Grew(s, t)
           /\ TurnEvent(s, t).invalid = Hurt(s, t)
BY DEF TurnEvent, Grew, Hurt

\* A call that runs or ran, and one that saw the change it has to report.
Entered(c) == frame[c].phase \in {"entered", "awaiting", "returned", "done"}
SawCompletion(c) ==
    \/ InPhase(c, "returned") /\ Grew(frame[c].before, Snapshot)
    \/ InPhase(c, "done") /\ frame[c].event.completed
SawHarm(c) ==
    \/ InPhase(c, "returned") /\ Hurt(frame[c].before, Snapshot)
    \/ InPhase(c, "done") /\ frame[c].event.invalid

\* While the message's calls run: their snapshots lie between the message's
\* first one and now, and what changed since then was seen by one of them.
MergedInv ==
    state = "tool_calling" =>
      /\ Later(opened, Snapshot)
      /\ \A c \in Call : Entered(c) =>
           Later(opened, frame[c].before) /\ Later(frame[c].before, Snapshot)
      /\ (\E c \in Call : SawCompletion(c)) <=> Grew(opened, Snapshot)
      /\ (\E c \in Call : SawHarm(c)) <=> Hurt(opened, Snapshot)

\* What the call that moves saw stays seen, and is true of the message.
LEMMA MoverSees ==
    ASSUME RequestInv, TypeOK', [Next]_envVars, MergedInv, NEW c \in Call, CallMoves(c)
    PROVE  /\ Entered(c)'
           /\ Later(opened, frame'[c].before) /\ Later(frame'[c].before, Snapshot')
           /\ SawCompletion(c) \/ Grew(Snapshot, Snapshot') => SawCompletion(c)'
           /\ SawCompletion(c)' => Grew(opened, Snapshot')
           /\ SawHarm(c) \/ Hurt(Snapshot, Snapshot') => SawHarm(c)'
           /\ SawHarm(c)' => Hurt(opened, Snapshot')
<1> DEFINE b == frame[c].before
<1>1. /\ TypeOK
      /\ opened \in SnapshotType /\ Snapshot \in SnapshotType
      /\ Snapshot' \in SnapshotType /\ b \in SnapshotType
  BY SnapshotIsTyped, NextSnapshotIsTyped DEF RequestInv, RequestTyped, FrameType
<1>2. Later(Snapshot, Snapshot') /\ Later(opened, Snapshot)
  BY <1>1, SnapshotMovesOn DEF MergedInv, CallMoves
<1>3. Entered(c) => Later(opened, b) /\ Later(b, Snapshot)
  BY DEF MergedInv, CallMoves
<1>4. /\ Later(opened, Snapshot')
      /\ Grew(Snapshot, Snapshot') => Grew(opened, Snapshot')
      /\ Hurt(Snapshot, Snapshot') => Hurt(opened, Snapshot')
  BY <1>1, <1>2, LaterChains
<1>5. ASSUME Snapshot' = Snapshot
      PROVE  ~Grew(Snapshot, Snapshot') /\ ~Hurt(Snapshot, Snapshot')
  BY <1>1, <1>5, LaterIsReflexive
<1>6. UNCHANGED envVars => Snapshot' = Snapshot
  BY DEF envVars, prefVars, taskVars, statusVars, Snapshot, Answered
<1> HIDE DEF b
<1> USE DEF InPhase, SawCompletion, SawHarm, Entered
<1>7. CASE CallEnters(c)
  <2>1. /\ frame[c].phase = "called" /\ frame'[c].phase = "entered"
        /\ frame'[c].before = Snapshot /\ Snapshot' = Snapshot
    BY <1>6, <1>7 DEF CallEnters
  <2>2. ~Grew(Snapshot, Snapshot') /\ ~Hurt(Snapshot, Snapshot')
    BY <1>5, <2>1
  <2>3. QED
    BY <1>2, <2>1, <2>2
<1>8. CASE CallIsRefused(c)
  <2>1. /\ frame[c].phase = "called" /\ frame'[c].phase = "done"
        /\ frame'[c].before = Snapshot
        /\ frame'[c].event = TurnEvent(Snapshot, Snapshot')
    BY <1>8 DEF CallIsRefused
  <2>2. /\ frame'[c].event.completed = Grew(Snapshot, Snapshot')
        /\ frame'[c].event.invalid = Hurt(Snapshot, Snapshot')
    BY <2>1, EventSays
  <2>3. QED
    BY <1>2, <1>4, <2>1, <2>2
<1>9. CASE CallSuspends(c)
  <2>1. /\ frame[c].phase = "entered" /\ frame'[c].phase = "awaiting"
        /\ frame'[c].before = b
    BY <1>9 DEF CallSuspends, b
  <2>2. ~Grew(Snapshot, Snapshot') /\ ~Hurt(Snapshot, Snapshot')
    BY <1>1, <1>9
       DEF CallSuspends, Grew, Hurt, Snapshot, Answered, statusVars, TypeOK,
           SnapshotType
  <2>3. Later(b, Snapshot')
    BY <1>1, <1>2, <1>3, <2>1, LaterChains
  <2>4. QED
    BY <1>3, <2>1, <2>2, <2>3
<1>10. CASE CallReturns(c)
  <2>1. /\ frame[c].phase \in {"entered", "awaiting"} /\ frame'[c].phase = "returned"
        /\ frame'[c].before = b
    BY <1>10 DEF CallReturns, b
  <2>2. /\ Later(b, Snapshot')
        /\ Grew(Snapshot, Snapshot') => Grew(b, Snapshot')
        /\ Hurt(Snapshot, Snapshot') => Hurt(b, Snapshot')
    BY <1>1, <1>2, <1>3, <2>1, LaterChains
  <2>3. /\ Grew(b, Snapshot') => Grew(opened, Snapshot')
        /\ Hurt(b, Snapshot') => Hurt(opened, Snapshot')
    BY <1>1, <1>3, <2>1, <2>2, LaterChains
  <2>4. QED
    BY <1>3, <2>1, <2>2, <2>3
<1>11. CASE CallIsCredited(c)
  <2>1. /\ frame[c].phase = "returned" /\ frame'[c].phase = "done"
        /\ frame'[c].before = b /\ Snapshot' = Snapshot
        /\ frame'[c].event = TurnEvent(b, Snapshot)
    BY <1>6, <1>11 DEF CallIsCredited, b
  <2>2. /\ frame'[c].event.completed = Grew(b, Snapshot)
        /\ frame'[c].event.invalid = Hurt(b, Snapshot)
    BY <2>1, EventSays
  <2>3. ~Grew(Snapshot, Snapshot') /\ ~Hurt(Snapshot, Snapshot')
    BY <1>5, <2>1
  <2>4. /\ Grew(b, Snapshot) => Grew(opened, Snapshot)
        /\ Hurt(b, Snapshot) => Hurt(opened, Snapshot)
    BY <1>1, <1>3, <2>1, LaterChains
  <2>5. QED
    BY <1>3, <2>1, <2>2, <2>3, <2>4 DEF b
<1>12. QED
  BY <1>7, <1>8, <1>9, <1>10, <1>11 DEF CallMoves

\* The same of a call that stays where it is.
LEMMA OtherSees ==
    ASSUME RequestInv, TypeOK', [Next]_envVars, MergedInv, NEW c \in Call, CallMoves(c),
           NEW o \in Call, o # c
    PROVE  /\ Entered(o)' =>
                Later(opened, frame'[o].before) /\ Later(frame'[o].before, Snapshot')
           /\ SawCompletion(o) => SawCompletion(o)'
           /\ SawCompletion(o)' => Grew(opened, Snapshot')
           /\ SawHarm(o) => SawHarm(o)'
           /\ SawHarm(o)' => Hurt(opened, Snapshot')
<1> DEFINE b == frame[o].before
<1>0. frame'[o] = frame[o] /\ state = "tool_calling"
  BY DEF CallMoves
<1>1. /\ TypeOK
      /\ opened \in SnapshotType /\ Snapshot \in SnapshotType
      /\ Snapshot' \in SnapshotType /\ b \in SnapshotType
  BY SnapshotIsTyped, NextSnapshotIsTyped DEF RequestInv, RequestTyped, FrameType
<1>2. Later(Snapshot, Snapshot') /\ Later(opened, Snapshot)
  BY <1>0, <1>1, SnapshotMovesOn DEF MergedInv
<1>3. /\ Grew(opened, Snapshot) => Grew(opened, Snapshot')
      /\ Hurt(opened, Snapshot) => Hurt(opened, Snapshot')
  BY <1>1, <1>2, LaterChains
<1>4. /\ SawCompletion(o) => Grew(opened, Snapshot)
      /\ SawHarm(o) => Hurt(opened, Snapshot)
  BY <1>0 DEF MergedInv
<1> HIDE DEF b
<1> USE DEF InPhase, SawCompletion, SawHarm, Entered
<1>5. CASE Entered(o)
  <2>1. Later(opened, b) /\ Later(b, Snapshot)
    BY <1>0, <1>5 DEF MergedInv, b
  <2>2. /\ Later(b, Snapshot')
        /\ Grew(b, Snapshot) => Grew(b, Snapshot')
        /\ Hurt(b, Snapshot) => Hurt(b, Snapshot')
    BY <1>1, <1>2, <2>1, LaterChains
  <2>3. /\ Grew(b, Snapshot') => Grew(opened, Snapshot')
        /\ Hurt(b, Snapshot') => Hurt(opened, Snapshot')
    BY <1>1, <2>1, <2>2, LaterChains
  <2>4. QED
    BY <1>0, <1>3, <1>4, <2>1, <2>2, <2>3 DEF b
<1>6. CASE ~Entered(o)
  BY <1>0, <1>6
<1>7. QED
  BY <1>5, <1>6

LEMMA NextMerged ==
    ASSUME RequestInv, RequestInv', MergedInv, [RequestNext]_vars
    PROVE  MergedInv'
<1>1. ASSUME NEW c \in Call, CallMoves(c), RequestNext PROVE MergedInv'
  <2>0. [Next]_envVars /\ TypeOK' /\ TypeOK
    BY <1>1, RequestStepsEnv DEF RequestInv, RequestTyped
  <2>1. /\ opened' = opened /\ opened \in SnapshotType
        /\ Snapshot \in SnapshotType /\ Snapshot' \in SnapshotType
    BY <1>1, <2>0, SnapshotIsTyped, NextSnapshotIsTyped
       DEF CallMoves, RequestInv, RequestTyped
  <2>2. Later(opened, Snapshot) /\ Later(Snapshot, Snapshot')
    BY <1>1, <2>0, SnapshotMovesOn DEF CallMoves, MergedInv
  <2>3. /\ Later(opened, Snapshot')
        /\ Grew(opened, Snapshot') <=> Grew(opened, Snapshot) \/ Grew(Snapshot, Snapshot')
        /\ Hurt(opened, Snapshot') <=> Hurt(opened, Snapshot) \/ Hurt(Snapshot, Snapshot')
    BY <2>1, <2>2, LaterChains
  <2>4. \A o \in Call : Entered(o)' =>
          Later(opened, frame'[o].before) /\ Later(frame'[o].before, Snapshot')
    BY <1>1, <2>0, MoverSees, OtherSees
  <2>5. (\E o \in Call : SawCompletion(o)') <=> Grew(opened, Snapshot')
    <3>1. (\E o \in Call : SawCompletion(o)) <=> Grew(opened, Snapshot)
      BY <1>1 DEF MergedInv, CallMoves
    <3>2. \A o \in Call : SawCompletion(o) => SawCompletion(o)'
      BY <1>1, <2>0, MoverSees, OtherSees
    <3>3. \A o \in Call : SawCompletion(o)' => Grew(opened, Snapshot')
      BY <1>1, <2>0, MoverSees, OtherSees
    <3>4. Grew(Snapshot, Snapshot') => SawCompletion(c)'
      BY <1>1, <2>0, MoverSees
    <3>5. QED
      BY <2>3, <3>1, <3>2, <3>3, <3>4
  <2>6. (\E o \in Call : SawHarm(o)') <=> Hurt(opened, Snapshot')
    <3>1. (\E o \in Call : SawHarm(o)) <=> Hurt(opened, Snapshot)
      BY <1>1 DEF MergedInv, CallMoves
    <3>2. \A o \in Call : SawHarm(o) => SawHarm(o)'
      BY <1>1, <2>0, MoverSees, OtherSees
    <3>3. \A o \in Call : SawHarm(o)' => Hurt(opened, Snapshot')
      BY <1>1, <2>0, MoverSees, OtherSees
    <3>4. Hurt(Snapshot, Snapshot') => SawHarm(c)'
      BY <1>1, <2>0, MoverSees
    <3>5. QED
      BY <2>3, <3>1, <3>2, <3>3, <3>4
  <2>7. QED
    BY <2>1, <2>3, <2>4, <2>5, <2>6 DEF MergedInv
<1>2. ASSUME NEW calls \in (SUBSET Call) \ {{}}, Generate(calls) PROVE MergedInv'
  <2>1. Snapshot' = Snapshot /\ opened' = Snapshot /\ Snapshot \in SnapshotType
    BY <1>2, SnapshotIsTyped
       DEF Generate, envVars, prefVars, taskVars, statusVars, Snapshot, Answered,
           RequestInv, RequestTyped
  <2>2. Later(opened', Snapshot') /\ ~Grew(opened', Snapshot') /\ ~Hurt(opened', Snapshot')
    BY <2>1, LaterIsReflexive
  <2>3. \A c \in Call : frame'[c].phase \in {"idle", "called"}
    BY <1>2, GenerateMoves
  <2>4. \A c \in Call : ~Entered(c)' /\ ~SawCompletion(c)' /\ ~SawHarm(c)'
    BY <2>3 DEF Entered, SawCompletion, SawHarm, InPhase
  <2>5. QED
    BY <2>2, <2>4 DEF MergedInv
<1>3. CASE state' # "tool_calling"
  BY <1>3 DEF MergedInv
<1>4. CASE UNCHANGED vars
  <2>1. Snapshot' = Snapshot
    BY <1>4 DEF vars, envVars, prefVars, taskVars, statusVars, Snapshot, Answered
  <2>2. UNCHANGED <<state, frame, opened>>
    BY <1>4 DEF vars, requestVars
  <2>3. \A c \in Call : /\ Entered(c)' <=> Entered(c)
                        /\ SawCompletion(c)' <=> SawCompletion(c)
                        /\ SawHarm(c)' <=> SawHarm(c)
    BY <2>1, <2>2 DEF Entered, SawCompletion, SawHarm, InPhase
  <2>4. QED
    BY <2>1, <2>2, <2>3 DEF MergedInv
<1>5. HandlePendingState \/ FinishToolTurn \/ RunOutOfTurns \/ ScoreAndRelease
        \/ Quarantine \/ Raise => state' # "tool_calling"
  BY DEF HandlePendingState, FinishToolTurn, RunOutOfTurns, ScoreAndRelease,
         Quarantine, Raise
<1>6. RequestNext => \/ \E c \in Call : CallMoves(c)
                     \/ \E calls \in (SUBSET Call) \ {{}} : Generate(calls)
                     \/ state' # "tool_calling"
  BY <1>5, StepsAreMoves DEF RequestInv, RequestTyped
<1>7. QED
  BY <1>1, <1>2, <1>3, <1>4, <1>6

LEMMA InitMerged == RequestInit => MergedInv
BY DEF RequestInit, MergedInv

\* The events of a message, merged, say exactly whether it completed an aspect
\* and whether one of its calls was refused or failed, although the snapshots
\* they are differences of overlap (build_turn_credit_event,
\* _coalesce_turn_event).
THEOREM EventsMergeExactly == RequestSpec => []MergedEventsExact
<1>1. RequestInit => RequestInv /\ MergedInv
  BY InitRequest, InitMerged
<1>2. RequestInv /\ MergedInv /\ [RequestNext]_vars => (RequestInv /\ MergedInv)'
  BY NextRequest, NextMerged
<1>3. RequestInv /\ MergedInv => MergedEventsExact
  <2> SUFFICES ASSUME RequestInv, MergedInv, GatherIsOver
               PROVE  /\ (\E c \in Batch : frame[c].event.completed)
                           <=> Cardinality(Answered) > opened.answered
                      /\ (\E c \in Batch : frame[c].event.invalid)
                           <=> invalid > opened.invalid \/ (opened.valid /\ ~rewardValid)
    BY DEF MergedEventsExact
  <2>1. state = "tool_calling" /\ \A c \in Batch : frame[c].phase = "done"
    BY DEF GatherIsOver, InPhase
  <2>2. Batch = {c \in Call : frame[c].phase = "done"}
    BY <2>1 DEF Batch
  <2>3. /\ \A c \in Batch : SawCompletion(c) <=> frame[c].event.completed
        /\ \A c \in Batch : SawHarm(c) <=> frame[c].event.invalid
    BY <2>1 DEF SawCompletion, SawHarm, InPhase
  <2>4. \A c \in Call \ Batch : ~SawCompletion(c) /\ ~SawHarm(c)
    BY DEF Batch, SawCompletion, SawHarm, InPhase
  <2>5. /\ Grew(opened, Snapshot) <=> Cardinality(Answered) > opened.answered
        /\ Hurt(opened, Snapshot)
             <=> invalid > opened.invalid \/ (opened.valid /\ ~rewardValid)
    BY DEF Grew, Hurt, Snapshot
  <2>6. Batch \subseteq Call
    BY DEF Batch
  <2>7. (\E c \in Call : SawCompletion(c)) <=> \E c \in Batch : frame[c].event.completed
    BY <2>3, <2>4, <2>6
  <2>8. (\E c \in Call : SawHarm(c)) <=> \E c \in Batch : frame[c].event.invalid
    BY <2>3, <2>4, <2>6
  <2>9. QED
    BY <2>1, <2>5, <2>7, <2>8 DEF MergedInv
<1>4. QED
  BY <1>1, <1>2, <1>3, PTL DEF RequestSpec

-----------------------------------------------------------------------------
(* The turn that never runs *)

\* The deadline guard keeps one step more than the plan needs.
SpareStep ==
    ~Closed /\ invalid = 0 /\ 2 * Len(plan) < MaxSteps
      => MinimumCompletionSteps < MaxSteps - steps

LEMMA InitSpareStep == Init => SpareStep
<1> SUFFICES ASSUME Init PROVE SpareStep
  OBVIOUS
<1>1. MaxSteps \in Nat \ {0} /\ steps = 0
  BY ConstantsAssumption DEF Init
<1>2. plan \in Seq(Aspect) /\ Len(plan) \in Nat
  BY PlansAssumption DEF Init
<1>3. PlanSet \ Answered = PlanSet /\ PlanSet \ (Answered \cup searched) = PlanSet
  BY DEF Init, Answered
<1>4. MinimumCompletionSteps = Cardinality(PlanSet) + Cardinality(PlanSet)
  BY <1>3 DEF MinimumCompletionSteps
<1>5. Cardinality(PlanSet) \in Nat /\ Cardinality(PlanSet) <= Len(plan)
  BY <1>2, PlanIsFinite
<1>6. QED
  BY <1>1, <1>2, <1>4, <1>5 DEF SpareStep

LEMMA NextSpareStep ==
    ASSUME TypeOK, [Next]_envVars, SpareStep
    PROVE  SpareStep'
<1> DEFINE Needed == MinimumCompletionSteps
           Fits   == 2 * Len(plan) < MaxSteps
           Kept   == plan' = plan /\ (Fits => Needed' < MaxSteps - steps')
<1>1. /\ MaxSteps \in Nat \ {0} /\ steps \in Nat /\ invalid \in Nat
      /\ Needed \in Nat
  BY ConstantsAssumption, NeededIsNat DEF TypeOK
<1> SUFFICES ASSUME ~Closed', invalid' = 0 PROVE SpareStep'
  BY DEF SpareStep
<1>2. ~Closed
  BY ClosedStep
<1>3. invalid = 0
  BY <1>1, EpisodeMovesOn
<1>4. Fits => Needed < MaxSteps - steps
  BY <1>2, <1>3 DEF SpareStep
<1>5. Kept => SpareStep'
  BY DEF SpareStep
<1>6. ~Rejection
  BY <1>3, RejectionIsRefuse DEF Refuse
<1>7. ASSUME NEW a \in Aspect, Search(a) PROVE Kept
  <2>1. plan' = plan /\ steps' = steps + 1
    BY <1>7 DEF Search
  <2>2. QED
    BY <1>1, <1>4, <1>7, <2>1, SearchPays
<1>8. ASSUME NEW a \in Aspect, NEW o \in Option, Answer(a, o) PROVE Kept
  <2>1. plan' = plan /\ steps' = steps + 1
    BY <1>8 DEF Answer
  <2>2. QED
    BY <1>1, <1>4, <1>8, <2>1, AnswerPays
<1>9. ASSUME NEW a \in Aspect, NEW q \in Question, LocalAction(a, q) PROVE Kept
  <2>1. plan' = plan /\ Needed' = Needed /\ steps' = steps + 1
    BY <1>9, NeededIsKept DEF LocalAction, taskVars
  <2>2. Needed < MaxSteps - (steps + 1)
    BY <1>1, <1>9 DEF LocalAction, DeadlineBlocks
  <2>3. QED
    BY <2>1, <2>2
<1>10. ASSUME NEW c \in Call, NEW a \in Aspect, NEW q \in Question,
              BeginAction(c, a, q)
       PROVE  Kept
  <2>1. plan' = plan /\ Needed' = Needed /\ steps' = steps + 1
    BY <1>10, NeededIsKept DEF BeginAction, taskVars
  <2>2. Needed < MaxSteps - (steps + 1)
    BY <1>1, <1>10 DEF BeginAction, DeadlineBlocks
  <2>3. QED
    BY <2>1, <2>2
<1>11. ASSUME NEW r \in pending, CompleteAction(r) PROVE Kept
  <2>1. plan' = plan /\ Needed' = Needed /\ steps' = steps
    BY <1>11, NeededIsKept DEF CompleteAction, taskVars
  <2>2. QED
    BY <1>4, <2>1
<1>12. CASE UNCHANGED envVars
  <2>1. plan' = plan /\ Needed' = Needed /\ steps' = steps
    BY <1>12, NeededIsKept DEF envVars, taskVars
  <2>2. QED
    BY <1>4, <1>5, <2>1
<1>13. ~Finish /\ \A r \in pending : ~FailAction(r)
  BY DEF Finish, FailAction, MarkFailed, Closed
<1>14. QED
  BY <1>5, <1>6, <1>7, <1>8, <1>9, <1>10, <1>11, <1>12, <1>13 DEF Next

\* Every turn of an agent without refused calls is paid for by a step, except
\* the one whose calls have not been counted yet.
Counted(c) == frame[c].phase \in {"awaiting", "returned", "done"}
TurnsAreCounted ==
    invalid = 0 =>
      /\ state \in {"pending", "running"} => turns <= steps
      /\ state = "tool_calling" =>
           /\ turns <= steps + 1
           /\ (\E c \in Call : Counted(c)) => turns <= steps

LEMMA StepsKeepUp ==
    ASSUME NEW t \in Nat, NEW s \in Nat, NEW n \in Nat, s <= n
    PROVE  /\ t <= s => t <= n /\ t <= n + 1 /\ t + 1 <= n + 1
           /\ t <= s + 1 => t <= n + 1
OBVIOUS

LEMMA NextCounted ==
    ASSUME RequestInv, RequestInv', TurnsAreCounted, [RequestNext]_vars
    PROVE  TurnsAreCounted'
<1> SUFFICES ASSUME invalid' = 0 PROVE TurnsAreCounted'
  BY DEF TurnsAreCounted
<1>1. /\ turns \in Nat /\ steps \in Nat /\ invalid \in Nat
      /\ turns' \in Nat /\ steps' \in Nat
  BY TurnsAssumption, ConstantsAssumption DEF RequestInv, RequestTyped, TypeOK
<1>0. TypeOK /\ TypeOK'
  BY DEF RequestInv, RequestTyped
<1>2. [Next]_envVars
  <2>1. CASE UNCHANGED vars
    BY <2>1 DEF vars
  <2>2. CASE RequestNext
    BY <2>2, RequestStepsEnv
  <2>3. QED
    BY <2>1, <2>2
<1>3. invalid = 0 /\ steps <= steps'
  BY <1>0, <1>1, <1>2, EpisodeMovesOn, StepsMove
<1>4. ASSUME NEW c \in Call, CallMoves(c) PROVE TurnsAreCounted'
  <2>0. state' = "tool_calling" /\ turns' = turns /\ turns <= steps + 1
    BY <1>3, <1>4 DEF CallMoves, TurnsAreCounted
  <2>1. CASE CallEnters(c)
    <3>1. \A o \in Call : Counted(o)' => Counted(o)
      BY <1>4, <2>1 DEF CallMoves, CallEnters, Counted
    <3>2. turns <= steps + 1 /\ ((\E o \in Call : Counted(o)) => turns <= steps)
      BY <1>3, <1>4 DEF TurnsAreCounted, CallMoves
    <3>3. turns' <= steps' + 1 /\ ((\E o \in Call : Counted(o)') => turns' <= steps')
      BY <1>1, <1>3, <2>0, <3>1, <3>2, StepsKeepUp
    <3>4. QED
      BY <2>0, <3>3 DEF TurnsAreCounted
  <2>2. CASE CallIsRefused(c)
    BY <1>3, <2>2 DEF CallIsRefused
  <2>3. CASE CallSuspends(c)
    BY <1>1, <2>0, <2>3 DEF CallSuspends, TurnsAreCounted
  <2>4. CASE CallReturns(c) /\ frame[c].phase = "entered"
    BY <1>1, <1>3, <2>0, <2>4 DEF CallReturns, TurnsAreCounted
  <2>5. CASE Counted(c)
    <3>1. turns <= steps
      BY <1>3, <1>4, <2>5 DEF CallMoves, TurnsAreCounted
    <3>2. turns' <= steps' /\ turns' <= steps' + 1
      BY <1>1, <1>3, <2>0, <3>1, StepsKeepUp
    <3>3. QED
      BY <2>0, <3>2 DEF TurnsAreCounted
  <2>6. QED
    BY <1>4, <2>1, <2>2, <2>3, <2>4, <2>5
       DEF CallMoves, CallReturns, CallIsCredited, Counted
<1>5. ASSUME NEW calls \in (SUBSET Call) \ {{}}, Generate(calls)
      PROVE  TurnsAreCounted'
  <2>1. state = "running" /\ state' = "tool_calling" /\ turns' = turns + 1
    BY <1>5 DEF Generate
  <2>2. \A c \in Call : ~Counted(c)'
    BY <1>5, GenerateMoves DEF Counted
  <2>3. turns <= steps
    BY <1>3, <2>1 DEF TurnsAreCounted
  <2>4. turns' <= steps' + 1
    BY <1>1, <1>3, <2>1, <2>3, StepsKeepUp
  <2>5. QED
    BY <2>1, <2>2, <2>4 DEF TurnsAreCounted
<1>6. CASE HandlePendingState
  <2>1. state = "pending" /\ state' = "running" /\ turns' = turns
    BY <1>6 DEF HandlePendingState
  <2>2. turns <= steps
    BY <1>3, <2>1 DEF TurnsAreCounted
  <2>3. turns' <= steps'
    BY <1>1, <1>3, <2>1, <2>2
  <2>4. QED
    BY <2>1, <2>3 DEF TurnsAreCounted
<1>7. CASE FinishToolTurn
  <2>1. PICK c \in Call : frame[c].phase = "done"
    BY <1>7 DEF FinishToolTurn, GatherIsOver, RequestInv, CallsInMessage, Batch, InPhase
  <2>2. turns <= steps /\ turns' = turns /\ state' \in {"stopped", "running"}
    BY <1>3, <1>7, <2>1 DEF FinishToolTurn, GatherIsOver, TurnsAreCounted, Counted
  <2>3. turns' <= steps'
    BY <1>1, <1>3, <2>2
  <2>4. QED
    BY <2>2, <2>3 DEF TurnsAreCounted
<1>8. CASE RunOutOfTurns \/ ScoreAndRelease \/ Quarantine \/ Raise
  BY <1>8 DEF RunOutOfTurns, ScoreAndRelease, Quarantine, Raise, TurnsAreCounted
<1>9. CASE UNCHANGED vars
  <2>1. UNCHANGED <<state, turns, frame, steps>>
    BY <1>9 DEF vars, envVars, requestVars
  <2>2. QED
    BY <1>3, <2>1 DEF TurnsAreCounted, Counted
<1>10. QED
  BY <1>0, <1>4, <1>5, <1>6, <1>7, <1>8, <1>9, StepsAreMoves

LEMMA InitCounted == RequestInit => TurnsAreCounted /\ SpareStep
<1>1. RequestInit => turns = 0 /\ steps = 0 /\ state = "pending"
  BY DEF RequestInit, Init
<1>2. QED
  BY <1>1, InitSpareStep DEF RequestInit, TurnsAreCounted

\* The turn loop never executes the calls of its last message, and an agent
\* without refused calls does not need them: the step the deadline guard keeps
\* free is that turn's (the while condition of _async_rollout_a_request against
\* _deadline_blocks_action).
THEOREM LastTurnIsNotNeeded == RequestSpec => []LastTurnIsSpare
<1>1. RequestInit => RequestInv /\ SpareStep /\ TurnsAreCounted
  BY InitRequest, InitCounted
<1>2. RequestInv /\ SpareStep /\ TurnsAreCounted /\ [RequestNext]_vars
        => (RequestInv /\ SpareStep /\ TurnsAreCounted)'
  <2> SUFFICES ASSUME RequestInv, SpareStep, TurnsAreCounted, [RequestNext]_vars
               PROVE  (RequestInv /\ SpareStep /\ TurnsAreCounted)'
    OBVIOUS
  <2>1. [Next]_envVars /\ TypeOK
    <3>1. UNCHANGED vars => UNCHANGED envVars
      BY DEF vars
    <3>2. QED
      BY <3>1, RequestStepsEnv DEF RequestInv, RequestTyped
  <2>2. QED
    BY <2>1, NextRequest, NextSpareStep, NextCounted
<1>3. RequestInv /\ SpareStep /\ TurnsAreCounted => LastTurnIsSpare
  <2> SUFFICES ASSUME RequestInv, SpareStep, TurnsAreCounted, state = "running",
                      invalid = 0, 2 * Len(plan) < MaxTurns
               PROVE  MinimumCompletionSteps < MaxTurns - turns
    BY DEF LastTurnIsSpare
  <2>1. ~Closed /\ TypeOK
    BY DEF RequestInv, RequestTyped, EndIsReported
  <2>2. /\ turns \in Nat /\ steps \in Nat /\ MaxSteps \in Nat
        /\ MinimumCompletionSteps \in Nat
    BY <2>1, NeededIsNat, ConstantsAssumption, TurnsAssumption
       DEF RequestInv, RequestTyped, TypeOK
  <2>3. MinimumCompletionSteps < MaxSteps - steps /\ turns <= steps
    BY <2>1, TurnsAssumption DEF SpareStep, TurnsAreCounted
  <2>4. QED
    BY <2>2, <2>3, TurnsAssumption
<1>4. QED
  BY <1>1, <1>2, <1>3, PTL DEF RequestSpec

=============================================================================
