------------------------- MODULE SimulatorCallsProofs -------------------------
(***************************************************************************)
(* The remote simulator keeps its contract, its answers and its slots, for *)
(* any number of callers, loops, questions and preferences.                *)
(***************************************************************************)
EXTENDS SimulatorCalls, FiniteSetTheorems, TLAPS

USE SimulatorAssumption, ArgumentsAssumption

Stages == {"lookup", "queued", "calling", "backoff"} \cup Final

\* The variables by themselves.  The queues are left out: who waits is also
\* known from the stages.
CallsTyped ==
    /\ input \in [Caller -> Arguments]
    /\ stage \in [Caller -> Stages]
    /\ request \in [Caller -> Key]
    /\ turn = [c \in Caller |-> turn[c]]
    /\ free \in [Loop -> Int]
    /\ cache \in [Key -> Reply \cup {NoReply}]

\* A response is only asked for that the judgment allowed: of a preference the
\* caller offered, elicited when it is due and natural when it is not.
Fits(i, k) ==
    /\ k.kind \in {"preference", "elicit"}
         => \E p \in i.offered : k.about = {p}
    /\ k.kind = "elicit" => MustElicit(i)
    /\ k.kind = "natural" => ~MustElicit(i)

PromptsFit == \A c \in Caller : Fits(input[c], request[c])

CallsInv == CallsTyped /\ PromptsFit /\ ReturnsContract

-----------------------------------------------------------------------------
(* What a step does to the coroutine that takes it: it waits somewhere, asks *)
(* a fitting prompt, or returns a turn of the contract.                      *)

Waits(c) ==
    \E s \in Stages \ {"returned"} :
      /\ stage' = [stage EXCEPT ![c] = s]
      /\ UNCHANGED <<request, turn>>

AsksFitting(c) ==
    \E k \in Key :
      /\ Fits(input[c], k)
      /\ stage' = [stage EXCEPT ![c] = "lookup"]
      /\ request' = [request EXCEPT ![c] = k]
      /\ UNCHANGED turn

ReturnsTurn(c) ==
    \E t \in SimulatorTurns(input[c]) :
      /\ stage' = [stage EXCEPT ![c] = "returned"]
      /\ turn' = [turn EXCEPT ![c] = t]
      /\ UNCHANGED request

Moves(c) == Waits(c) \/ AsksFitting(c) \/ ReturnsTurn(c)

LEMMA InputIsTyped ==
    ASSUME CallsTyped, NEW c \in Caller
    PROVE  /\ input[c].question \in Question
           /\ input[c].offered \subseteq Pref
           /\ input[c].nonpref \in Nat
BY DEF CallsTyped, Input

LEMMA RepliesAreTyped ==
    ASSUME NEW k
    PROVE  RepliesTo(k) \subseteq Reply
BY DEF RepliesTo, Reply

LEMMA LeavingWaits ==
    ASSUME NEW c \in Caller, NEW how \in Stages \ {"returned"}, Leave(c, how)
    PROVE  Moves(c)
BY DEF Leave, Moves, Waits

\* Whichever response the judgment calls for fits the arguments.
LEMMA JudgmentMoves ==
    ASSUME CallsInv, NEW c \in Caller, NEW reply \in Reply, OnJudgment(c, reply)
    PROVE  Moves(c)
<1> DEFINE i == input[c]
<1> USE DEF CallsInv
<1>1. CASE Leave(c, "failed")
    BY <1>1, LeavingWaits DEF Stages, Final
<1>2. CASE /\ reply.pref \in i.offered
           /\ Ask(c, ResponseKey(i, "preference", {reply.pref}))
    <2> DEFINE k == ResponseKey(i, "preference", {reply.pref})
    <2>1. k \in Key
        BY <1>2, InputIsTyped DEF Key, ResponseKey
    <2>2. Fits(i, k)
        BY <1>2 DEF Fits, ResponseKey
    <2> QED
        BY <1>2, <2>1, <2>2 DEF Ask, Moves, AsksFitting
<1>3. CASE /\ MustElicit(i)
           /\ \E p \in i.offered : Ask(c, ResponseKey(i, "elicit", {p}))
    <2> PICK p \in i.offered : Ask(c, ResponseKey(i, "elicit", {p}))
        BY <1>3
    <2> DEFINE k == ResponseKey(i, "elicit", {p})
    <2>1. k \in Key
        BY InputIsTyped DEF Key, ResponseKey
    <2>2. Fits(i, k)
        BY <1>3 DEF Fits, ResponseKey
    <2> QED
        BY <2>1, <2>2 DEF Ask, Moves, AsksFitting
<1>4. CASE ~MustElicit(i) /\ Ask(c, ResponseKey(i, "natural", {}))
    <2> DEFINE k == ResponseKey(i, "natural", {})
    <2>1. k \in Key
        BY InputIsTyped DEF Key, ResponseKey
    <2>2. Fits(i, k)
        BY <1>4 DEF Fits, ResponseKey
    <2> QED
        BY <1>4, <2>1, <2>2 DEF Ask, Moves, AsksFitting
<1>5. CASE /\ ~MustElicit(i)
           /\ Return(c, [agent |-> {}, simulator |-> {},
                         nonpref |-> i.nonpref + 1])
    BY <1>5 DEF MustElicit, SimulatorTurns, Return, Moves, ReturnsTurn
<1> QED
    BY <1>1, <1>2, <1>3, <1>4, <1>5 DEF OnJudgment

\* A response text completes the turn its prompt was asked for.
LEMMA ResponseMoves ==
    ASSUME CallsInv, NEW c \in Caller, NEW reply,
           request[c].kind # "judge", OnResponse(c, reply)
    PROVE  Moves(c)
<1> DEFINE i == input[c]
           k == request[c]
<1> USE DEF CallsInv
<1>1. CASE Leave(c, "failed")
    BY <1>1, LeavingWaits DEF Stages, Final
<1>2. CASE Return(c, TurnOf(i, k))
    <2>1. Fits(i, k) /\ k \in Key
        BY DEF PromptsFit, CallsTyped
    <2>2. k.kind \in {"preference", "elicit", "natural"}
        BY <2>1 DEF Key
    <2>3. TurnOf(i, k) \in SimulatorTurns(i)
        <3>1. CASE k.kind = "preference"
            BY <2>1, <3>1 DEF Fits, TurnOf, SimulatorTurns
        <3>2. CASE k.kind = "elicit"
            BY <2>1, <3>2 DEF Fits, MustElicit, TurnOf, SimulatorTurns
        <3>3. CASE k.kind = "natural"
            BY <2>1, <3>3 DEF Fits, MustElicit, TurnOf, SimulatorTurns
        <3> QED
            BY <2>2, <3>1, <3>2, <3>3
    <2> QED
        BY <1>2, <2>3 DEF Return, Moves, ReturnsTurn
<1> QED
    BY <1>1, <1>2 DEF OnResponse

LEMMA DeliveryMoves ==
    ASSUME CallsInv, NEW c \in Caller, NEW reply \in Reply, Deliver(c, reply)
    PROVE  Moves(c)
BY JudgmentMoves, ResponseMoves DEF Deliver

\* Every step of a caller is such a move; its arguments are fixed.
LEMMA StepMoves ==
    ASSUME CallsInv, NEW c \in Caller, Step(c) \/ Cancel(c)
    PROVE  Moves(c) /\ input' = input
<1> USE DEF Moves, Waits, Stages, Final
<1>1. CASE CacheHit(c)
    <2>1. cache[request[c]] \in Reply
        BY <1>1 DEF CacheHit, CallsInv, CallsTyped
    <2> QED
        BY <1>1, <2>1, DeliveryMoves DEF CacheHit
<1>2. CASE CacheMiss(c)
    BY <1>2 DEF CacheMiss
<1>3. CASE AcquireSlot(c)
    BY <1>3 DEF AcquireSlot
<1>4. ASSUME NEW reply \in RepliesTo(request[c]), Succeed(c, reply)
      PROVE  Moves(c) /\ input' = input
    <2>1. reply \in Reply
        BY RepliesAreTyped
    <2> QED
        BY <1>4, <2>1, DeliveryMoves DEF Succeed
<1>5. CASE TransientError(c)
    BY <1>5 DEF TransientError, Leave
<1>6. CASE FatalError(c)
    BY <1>6 DEF FatalError, Leave
<1>7. CASE Retry(c)
    BY <1>7 DEF Retry
<1>8. CASE Cancel(c)
    BY <1>8 DEF Cancel, Leave
<1> QED
    BY <1>1, <1>2, <1>3, <1>4, <1>5, <1>6, <1>7, <1>8 DEF Step

LEMMA InitCalls == Init => CallsInv
<1> SUFFICES ASSUME Init
             PROVE  CallsInv
    OBVIOUS
<1>1. CallsTyped
    <2>1. input \in [Caller -> Arguments]
        BY DEF Init
    <2>2. \A c \in Caller : JudgeKey(input[c]) \in Key
        BY <2>1 DEF JudgeKey, Key, Input
    <2> QED
        BY <2>1, <2>2 DEF Init, CallsTyped, Stages
<1>2. PromptsFit
    BY DEF Init, PromptsFit, Fits, JudgeKey
<1>3. ReturnsContract
    BY DEF Init, ReturnsContract
<1> QED
    BY <1>1, <1>2, <1>3 DEF CallsInv

\* What the queue, the slots and the cache may become.
LEMMA StepKeepsShared ==
    ASSUME CallsInv, NEW c \in Caller, Step(c) \/ Cancel(c)
    PROVE  /\ free' \in [Loop -> Int]
           /\ cache' \in [Key -> Reply \cup {NoReply}]
           /\ \A k \in Key : cache[k] # NoReply => cache'[k] = cache[k]
<1> DEFINE Kept ==
        /\ free' \in [Loop -> Int]
        /\ cache' \in [Key -> Reply \cup {NoReply}]
        /\ \A k \in Key : cache[k] # NoReply => cache'[k] = cache[k]
<1> USE DEF CallsInv, CallsTyped
<1>1. Release(c) => free' \in [Loop -> Int]
    BY DEF Release
<1>2. ASSUME NEW reply \in RepliesTo(request[c]), Store(request[c], reply)
      PROVE  /\ cache' \in [Key -> Reply \cup {NoReply}]
             /\ \A k \in Key : cache[k] # NoReply => cache'[k] = cache[k]
    <2>1. reply \in Reply
        BY RepliesAreTyped
    <2> QED
        BY <1>2, <2>1 DEF Store
<1>3. CASE CacheHit(c)
    BY <1>3 DEF CacheHit
<1>4. CASE CacheMiss(c)
    BY <1>4 DEF CacheMiss
<1>5. CASE AcquireSlot(c)
    BY <1>5 DEF AcquireSlot
<1>6. ASSUME NEW reply \in RepliesTo(request[c]), Succeed(c, reply)
      PROVE  Kept
    BY <1>1, <1>2, <1>6 DEF Succeed
<1>7. CASE TransientError(c)
    BY <1>1, <1>7 DEF TransientError
<1>8. CASE FatalError(c)
    BY <1>1, <1>2, <1>8 DEF FatalError
<1>9. CASE Retry(c)
    BY <1>9 DEF Retry
<1>10. CASE Cancel(c)
    BY <1>1, <1>10 DEF Cancel
<1> QED
    BY <1>3, <1>4, <1>5, <1>6, <1>7, <1>8, <1>9, <1>10 DEF Step

LEMMA MoveKeepsCalls ==
    ASSUME CallsInv, NEW c \in Caller, Moves(c), input' = input,
           free' \in [Loop -> Int], cache' \in [Key -> Reply \cup {NoReply}]
    PROVE  CallsInv'
<1> USE DEF CallsInv
<1>1. CallsTyped'
    BY DEF Moves, Waits, AsksFitting, ReturnsTurn, CallsTyped, Stages, Final
<1>2. PromptsFit'
    <2> SUFFICES ASSUME NEW d \in Caller
                 PROVE  Fits(input[d], request'[d])
        BY DEF PromptsFit, Fits, MustElicit
    <2>1. Fits(input[d], request[d])
        BY DEF PromptsFit
    <2> QED
        BY <2>1 DEF Moves, Waits, AsksFitting, ReturnsTurn, CallsTyped
<1>3. ReturnsContract'
    <2> SUFFICES ASSUME NEW d \in Caller, stage'[d] = "returned"
                 PROVE  turn'[d] \in SimulatorTurns(input[d])
        BY DEF ReturnsContract, SimulatorTurns
    <2>1. stage[d] = "returned" => turn[d] \in SimulatorTurns(input[d])
        BY DEF ReturnsContract
    <2> QED
        BY <2>1 DEF Moves, Waits, AsksFitting, ReturnsTurn, CallsTyped
<1> QED
    BY <1>1, <1>2, <1>3

LEMMA NextCalls == CallsInv /\ [Next]_vars => CallsInv'
<1> SUFFICES ASSUME CallsInv, [Next]_vars
             PROVE  CallsInv'
    OBVIOUS
<1>1. ASSUME NEW c \in Caller, Step(c) \/ Cancel(c)
      PROVE  CallsInv'
    BY <1>1, StepMoves, StepKeepsShared, MoveKeepsCalls
<1>2. CASE UNCHANGED vars
    BY <1>2 DEF vars, CallsInv, CallsTyped, PromptsFit, Fits, MustElicit,
                ReturnsContract, SimulatorTurns
<1> QED
    BY <1>1, <1>2 DEF Next

LEMMA CallsAlways == Spec => []CallsInv
BY InitCalls, NextCalls, PTL DEF Spec

\* A turn the environment is handed is one its model assumes the simulator may
\* return for what step_async read: TravelEnv rests on this theorem.
THEOREM ContractKept == Spec => []ReturnsContract
<1>1. CallsInv => ReturnsContract
    BY DEF CallsInv
<1> QED
    BY <1>1, CallsAlways, PTL

\* INSERT OR IGNORE: whoever pays last changes nothing for later readers.
THEOREM AnswersAreFinal == Spec => FirstAnswerWins
<1>1. CallsInv /\ [Next]_vars
        => [\A k \in Key : cache[k] # NoReply => cache'[k] = cache[k]]_vars
    BY StepKeepsShared DEF Next
<1> QED
    BY <1>1, CallsAlways, PTL DEF Spec, FirstAnswerWins

-----------------------------------------------------------------------------
(* The slots of a loop. *)

\* A caller takes a slot of its loop when it starts a request and gives it
\* back when the request ends, however it ends.
TakesSlot(c) ==
    /\ stage[c] # "calling" /\ stage'[c] = "calling"
    /\ free' = [free EXCEPT ![LoopOf[c]] = @ - 1]

GivesSlotBack(c) ==
    /\ stage[c] = "calling" /\ stage'[c] # "calling"
    /\ free' = [free EXCEPT ![LoopOf[c]] = @ + 1]

NeedsNoSlot(c) ==
    /\ stage[c] # "calling" /\ stage'[c] # "calling"
    /\ free' = free

LEMMA DeliveryEndsCall ==
    ASSUME CallsInv, NEW c \in Caller, NEW reply \in Reply, Deliver(c, reply)
    PROVE  stage'[c] # "calling"
BY DEF CallsInv, CallsTyped, Deliver, OnJudgment, OnResponse, Ask, Return, Leave

LEMMA StepMovesSlot ==
    ASSUME CallsInv, NEW c \in Caller, Step(c) \/ Cancel(c)
    PROVE  /\ TakesSlot(c) \/ GivesSlotBack(c) \/ NeedsNoSlot(c)
           /\ \A d \in Caller \ {c} : stage'[d] = stage[d]
<1>1. \A d \in Caller \ {c} : stage'[d] = stage[d]
    BY StepMoves DEF Moves, Waits, AsksFitting, ReturnsTurn, CallsInv, CallsTyped
<1>2. TakesSlot(c) \/ GivesSlotBack(c) \/ NeedsNoSlot(c)
    <2> USE DEF CallsInv, CallsTyped, TakesSlot, GivesSlotBack, NeedsNoSlot
    <2>1. CASE CacheHit(c)
        <3>1. cache[request[c]] \in Reply
            BY <2>1 DEF CacheHit
        <3> QED
            BY <2>1, <3>1, DeliveryEndsCall DEF CacheHit
    <2>2. CASE CacheMiss(c)
        BY <2>2 DEF CacheMiss
    <2>3. CASE AcquireSlot(c)
        BY <2>3 DEF AcquireSlot
    <2>4. ASSUME NEW reply \in RepliesTo(request[c]), Succeed(c, reply)
          PROVE  GivesSlotBack(c)
        <3>1. reply \in Reply
            BY RepliesAreTyped
        <3> QED
            BY <2>4, <3>1, DeliveryEndsCall DEF Succeed, Release
    <2>5. CASE TransientError(c)
        BY <2>5 DEF TransientError, Leave, Release
    <2>6. CASE FatalError(c)
        BY <2>6 DEF FatalError, Leave, Release
    <2>7. CASE Retry(c)
        BY <2>7 DEF Retry
    <2>8. CASE Cancel(c)
        BY <2>8 DEF Cancel, Leave, Release
    <2> QED
        BY <2>1, <2>2, <2>3, <2>4, <2>5, <2>6, <2>7, <2>8 DEF Step
<1> QED
    BY <1>1, <1>2

LEMMA MoveAccountsSlots ==
    ASSUME CallsTyped, SlotsAccounted, NEW c \in Caller,
           TakesSlot(c) \/ GivesSlotBack(c) \/ NeedsNoSlot(c),
           \A d \in Caller \ {c} : stage'[d] = stage[d]
    PROVE  SlotsAccounted'
<1> SUFFICES ASSUME NEW l \in Loop
             PROVE  free'[l] + Cardinality(Holders(l)') = Slots
    BY DEF SlotsAccounted
<1> DEFINE H == Holders(l)
           n == Cardinality(H)
<1>1. H \subseteq Caller /\ IsFiniteSet(H)
    BY FS_Subset DEF Holders
<1>2. n \in Nat
    BY <1>1, FS_CardinalityType
<1>3. free[l] \in Int /\ free[l] + n = Slots
    BY DEF SlotsAccounted, CallsTyped
<1>4. CASE LoopOf[c] # l \/ NeedsNoSlot(c)
    <2>1. Holders(l)' = H
        BY <1>4 DEF Holders, NeedsNoSlot
    <2>2. free'[l] = free[l]
        BY <1>4 DEF TakesSlot, GivesSlotBack, NeedsNoSlot, CallsTyped
    <2> QED
        BY <1>3, <2>1, <2>2
<1>5. CASE LoopOf[c] = l /\ TakesSlot(c)
    <2>1. Holders(l)' = H \cup {c} /\ c \notin H
        BY <1>5 DEF Holders, TakesSlot
    <2>2. Cardinality(H \cup {c}) = n + 1
        BY <1>1, <2>1, FS_AddElement
    <2>3. free'[l] = free[l] - 1
        BY <1>5 DEF TakesSlot, CallsTyped
    <2> QED
        BY <1>2, <1>3, <2>1, <2>2, <2>3
<1>6. CASE LoopOf[c] = l /\ GivesSlotBack(c)
    <2>1. Holders(l)' = H \ {c} /\ c \in H
        BY <1>6 DEF Holders, GivesSlotBack
    <2>2. Cardinality(H \ {c}) = n - 1
        BY <1>1, <2>1, FS_RemoveElement
    <2>3. free'[l] = free[l] + 1
        BY <1>6 DEF GivesSlotBack, CallsTyped
    <2> QED
        BY <1>2, <1>3, <2>1, <2>2, <2>3
<1> QED
    BY <1>4, <1>5, <1>6

\* The concurrency limit of a loop neither grows nor shrinks, whichever mix of
\* errors, retries and cancellations its callers meet.
THEOREM NoSlotLeaks == Spec => []SlotsAccounted
<1>1. Init => SlotsAccounted
    <2> SUFFICES ASSUME Init, NEW l \in Loop
                 PROVE  free[l] + Cardinality(Holders(l)) = Slots
        BY DEF SlotsAccounted
    <2>1. Holders(l) = {}
        BY DEF Init, Holders
    <2>2. Cardinality({}) = 0
        BY FS_EmptySet
    <2> QED
        BY <2>1, <2>2 DEF Init
<1>2. CallsInv /\ SlotsAccounted /\ [Next]_vars => SlotsAccounted'
    <2> SUFFICES ASSUME CallsInv, SlotsAccounted, [Next]_vars
                 PROVE  SlotsAccounted'
        OBVIOUS
    <2>1. ASSUME NEW c \in Caller, Step(c) \/ Cancel(c)
          PROVE  SlotsAccounted'
        BY <2>1, StepMovesSlot, MoveAccountsSlots DEF CallsInv
    <2>2. CASE UNCHANGED vars
        BY <2>2 DEF vars, SlotsAccounted, Holders
    <2> QED
        BY <2>1, <2>2 DEF Next
<1> QED
    BY <1>1, <1>2, CallsAlways, PTL DEF Spec

=============================================================================
