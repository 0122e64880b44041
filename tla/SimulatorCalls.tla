---------------------------- MODULE SimulatorCalls ----------------------------
(***************************************************************************)
(* The remote user simulator                                               *)
(* (environments/TravelGym/travelgym/env/user_simulator.py): coroutines in *)
(* evaluate_user_question, each asking a judgment and, when the judgment   *)
(* calls for it, a response through model_call.                            *)
(*                                                                         *)
(* All callers share one SQLite file of answers.  The callers of one event *)
(* loop share a semaphore; the rollout workers are processes with loops of *)
(* their own, so anything of another loop may happen between the cache     *)
(* lookup of a call and the insertion of its answer.                       *)
(*                                                                         *)
(* A prompt is told apart by what it is built from; a reply by what the    *)
(* code reads from it.  Judgments 3 and 4 differ only in a canned text.    *)
(***************************************************************************)
EXTENDS SimulatorContract, Sequences, FiniteSets, SequencesExt

CONSTANTS
    Caller,        \* coroutines awaiting a turn
    Loop,          \* event loops (worker processes)
    LoopOf,        \* the loop each caller runs on
    Question,      \* task, history and latest utterance of a caller
    Pref,          \* hidden preferences
    NoPref,        \* no preference id in the reply
    NoReply,       \* no row for the key
    NoTurn,        \* the caller was given no turn
    Arguments,     \* arguments the callers may have
    MaxAttempts,   \* max_attempts of model_call
    Slots          \* TRAVELGYM_USER_REQUEST_CONCURRENCY, per loop

ASSUME SimulatorAssumption ==
    /\ IsFiniteSet(Caller)
    /\ LoopOf \in [Caller -> Loop]
    /\ NoPref \notin Pref
    /\ Interval \in Nat
    /\ MaxAttempts \in Nat \ {0}
    /\ Slots \in Nat \ {0}

Input == [question : Question, offered : SUBSET Pref, nonpref : Nat]

ASSUME ArgumentsAssumption == Arguments \subseteq Input

\* The request_hash of a prompt.
Key == [kind : {"judge", "preference", "elicit", "natural"},
        question : Question, about : SUBSET Pref]

\* A parsed reply: a judgment type ("other" is none of the four), or the
\* response text, which may be missing.
Reply == [says : {"1", "2", "3", "other", "text", "empty"},
          pref : Pref \cup {NoPref}]

ASSUME ReplyAssumption == NoReply \notin Reply

\* What the model may reply to a prompt: any JSON object parses.
RepliesTo(k) ==
    IF k.kind = "judge"
      THEN [says : {"2"}, pref : Pref]
             \cup [says : {"1", "3", "other"}, pref : {NoPref}]
      ELSE [says : {"text", "empty"}, pref : {NoPref}]

VARIABLES
    input,     \* the arguments of each caller, fixed
    stage,     \* where each caller is
    request,   \* the prompt it is asking (request_hash)
    attempt,   \* the attempt of the current model_call, 0 before the first
    turn,      \* the UserSimulatorTurn it returned
    waiting,   \* callers queued on the semaphore of each loop, first come first
    free,      \* the slots of that semaphore that are left
    cache      \* the responses table: first answer of each prompt

vars == <<input, stage, request, attempt, turn, waiting, free, cache>>

Final   == {"returned", "failed", "cancelled"}
Holders(l) == {c \in Caller : LoopOf[c] = l /\ stage[c] = "calling"}

JudgeKey(i)  == [kind |-> "judge", question |-> i.question, about |-> i.offered]
ResponseKey(i, kind, about) ==
    [kind |-> kind, question |-> i.question, about |-> about]

-----------------------------------------------------------------------------
(* What evaluate_user_question does with a reply *)

Ask(c, k) ==
    /\ stage' = [stage EXCEPT ![c] = "lookup"]
    /\ request' = [request EXCEPT ![c] = k]
    /\ attempt' = [attempt EXCEPT ![c] = 0]
    /\ UNCHANGED turn

Return(c, t) ==
    /\ stage' = [stage EXCEPT ![c] = "returned"]
    /\ turn' = [turn EXCEPT ![c] = t]
    /\ UNCHANGED <<request, attempt>>

Leave(c, how) ==
    /\ stage' = [stage EXCEPT ![c] = how]
    /\ UNCHANGED <<request, attempt, turn>>

MustElicit(i) == i.nonpref >= Interval /\ i.offered # {}

UncheckedJudgment(c, reply) ==
    LET i == input[c]
    IN  IF reply.says = "other" THEN Leave(c, "failed")
        ELSE IF reply.says = "2"
          THEN Ask(c, ResponseKey(i, "preference", {reply.pref}))
        ELSE IF MustElicit(i)
          THEN \E p \in i.offered : Ask(c, ResponseKey(i, "elicit", {p}))
        ELSE IF reply.says = "1" THEN Ask(c, ResponseKey(i, "natural", {}))
        ELSE Return(c, [agent |-> {}, simulator |-> {},
                        nonpref |-> i.nonpref + 1])

\* The judgment of c decides which response it needs, if any; the preference
\* to elicit is drawn at random.
OnJudgment(c, reply) ==
    LET i == input[c]
    IN  \/ /\ \/ reply.says = "other"
              \/ reply.says = "2" /\ reply.pref \notin i.offered
           /\ Leave(c, "failed")
        \/ /\ reply.says = "2" /\ reply.pref \in i.offered
           /\ Ask(c, ResponseKey(i, "preference", {reply.pref}))
        \/ /\ reply.says \in {"1", "3"} /\ MustElicit(i)
           /\ \E p \in i.offered : Ask(c, ResponseKey(i, "elicit", {p}))
        \/ /\ reply.says = "1" /\ ~MustElicit(i)
           /\ Ask(c, ResponseKey(i, "natural", {}))
        \/ /\ reply.says = "3" /\ ~MustElicit(i)
           /\ Return(c, [agent |-> {}, simulator |-> {},
                         nonpref |-> i.nonpref + 1])

\* The turn a response text completes.
TurnOf(i, k) ==
    [agent     |-> IF k.kind = "preference" THEN k.about ELSE {},
     simulator |-> IF k.kind = "elicit" THEN k.about ELSE {},
     nonpref   |-> IF k.kind = "natural" THEN i.nonpref + 1 ELSE 0]

OnResponse(c, reply) ==
    IF reply.says = "text"
      THEN Return(c, TurnOf(input[c], request[c]))
      ELSE Leave(c, "failed")

Deliver(c, reply) ==
    IF request[c].kind = "judge" THEN OnJudgment(c, reply)
                                 ELSE OnResponse(c, reply)

-----------------------------------------------------------------------------
(* model_call *)

Init ==
    /\ input \in [Caller -> Arguments]
    /\ stage = [c \in Caller |-> "lookup"]
    /\ request = [c \in Caller |-> JudgeKey(input[c])]
    /\ attempt = [c \in Caller |-> 0]
    /\ turn = [c \in Caller |-> NoTurn]
    /\ waiting = [l \in Loop |-> <<>>]
    /\ free = [l \in Loop |-> Slots]
    /\ cache = [k \in Key |-> NoReply]

Enqueue(c) == waiting' = [waiting EXCEPT ![LoopOf[c]] = Append(@, c)]

Release(c) == free' = [free EXCEPT ![LoopOf[c]] = @ + 1]

StoreLatest(k, reply) == cache' = [cache EXCEPT ![k] = reply]

\* INSERT OR IGNORE
Store(k, reply) ==
    cache' = [cache EXCEPT ![k] = IF @ = NoReply THEN reply ELSE @]

CacheHit(c) ==
    /\ stage[c] = "lookup"
    /\ cache[request[c]] # NoReply
    /\ Deliver(c, cache[request[c]])
    /\ UNCHANGED <<input, waiting, free, cache>>

\* The first attempt counts as started before it has a slot.
CacheMiss(c) ==
    /\ stage[c] = "lookup"
    /\ cache[request[c]] = NoReply
    /\ stage' = [stage EXCEPT ![c] = "queued"]
    /\ attempt' = [attempt EXCEPT ![c] = 1]
    /\ Enqueue(c)
    /\ UNCHANGED <<input, request, turn, free, cache>>

AcquireSlot(c) ==
    LET l == LoopOf[c]
    IN  /\ stage[c] = "queued"
        /\ waiting[l] # <<>> /\ Head(waiting[l]) = c
        /\ free[l] > 0
        /\ free' = [free EXCEPT ![l] = @ - 1]
        /\ waiting' = [waiting EXCEPT ![l] = Tail(@)]
        /\ stage' = [stage EXCEPT ![c] = "calling"]
        /\ UNCHANGED <<input, request, attempt, turn, cache>>

\* The request returned an object: stored, logged and used.
Succeed(c, reply) ==
    /\ stage[c] = "calling"
    /\ Release(c)
    /\ Store(request[c], reply)
    /\ Deliver(c, reply)
    /\ UNCHANGED <<input, waiting>>

\* Timeout, connection or rate-limit error, or a reply that is no JSON object.
TransientError(c) ==
    /\ stage[c] = "calling"
    /\ Release(c)
    /\ IF attempt[c] < MaxAttempts
         THEN Leave(c, "backoff")
         ELSE Leave(c, "failed")
    /\ UNCHANGED <<input, waiting, cache>>

\* An error the server will repeat, or one of the cache or the event log after
\* the answer was there: the call fails without another attempt.
FatalError(c) ==
    /\ stage[c] = "calling"
    /\ Release(c)
    /\ \/ UNCHANGED cache
       \/ \E reply \in RepliesTo(request[c]) : Store(request[c], reply)
    /\ Leave(c, "failed")
    /\ UNCHANGED <<input, waiting>>

\* The sleep before the next attempt holds no slot.
Retry(c) ==
    /\ stage[c] = "backoff"
    /\ stage' = [stage EXCEPT ![c] = "queued"]
    /\ attempt' = [attempt EXCEPT ![c] = @ + 1]
    /\ Enqueue(c)
    /\ UNCHANGED <<input, request, turn, free, cache>>

CancelKeepingSlot(c) ==
    /\ stage[c] \in {"queued", "calling", "backoff"}
    /\ waiting' = [waiting EXCEPT ![LoopOf[c]] = Remove(@, c)]
    /\ Leave(c, "cancelled")
    /\ UNCHANGED <<input, free, cache>>

\* The tool's outer timeout cancels the coroutine at whatever it awaits; the
\* async with gives the slot back.
Cancel(c) ==
    /\ stage[c] \in {"queued", "calling", "backoff"}
    /\ IF stage[c] = "calling" THEN Release(c) ELSE UNCHANGED free
    /\ waiting' = [waiting EXCEPT ![LoopOf[c]] = Remove(@, c)]
    /\ Leave(c, "cancelled")
    /\ UNCHANGED <<input, cache>>

Step(c) ==
    \/ CacheHit(c)
    \/ CacheMiss(c)
    \/ AcquireSlot(c)
    \/ \E reply \in RepliesTo(request[c]) : Succeed(c, reply)
    \/ TransientError(c)
    \/ FatalError(c)
    \/ Retry(c)

Next == \E c \in Caller : Step(c) \/ Cancel(c)

Spec == Init /\ [][Next]_vars

(***************************************************************************)
(* Every ready coroutine runs; wait_for bounds a request, asyncio.sleep    *)
(* returns, and the semaphore serves its waiters in order.                 *)
(***************************************************************************)
Fairness == \A c \in Caller : WF_vars(Step(c))

FairSpec == Spec /\ Fairness

-----------------------------------------------------------------------------
(* Properties *)

\* Every variable stays in its range; no call is attempted more than
\* max_attempts times.
TypeOK ==
    /\ input \in [Caller -> Arguments]
    /\ stage \in [Caller -> {"lookup", "queued", "calling", "backoff"} \cup Final]
    /\ request \in [Caller -> Key]
    /\ attempt \in [Caller -> 0..MaxAttempts]
    /\ waiting \in [Loop -> Seq(Caller)]
    /\ free \in [Loop -> 0..Slots]
    /\ cache \in [Key -> Reply \cup {NoReply}]

\* The slots of a loop are in use by requests in flight or free: none leaks
\* through an error, a retry or a cancellation, so the concurrency limit holds
\* and never shrinks.
SlotsAccounted == \A l \in Loop : free[l] + Cardinality(Holders(l)) = Slots

\* Whatever the model replied, the cache held and concurrent callers stored:
\* a turn handed to the environment is one SimulatorContract allows for the
\* arguments of that very call.
ReturnsContract ==
    \A c \in Caller :
      stage[c] = "returned" => turn[c] \in SimulatorTurns(input[c])

\* The first answer to a prompt stays its answer, also when two callers missed
\* together and both paid for one.
FirstAnswerWins ==
    [][\A k \in Key : cache[k] # NoReply => cache'[k] = cache[k]]_vars

\* Every caller gets a turn, an error or its cancellation: no retry, queue or
\* cancelled neighbour keeps it waiting for ever.
EveryCallEnds == \A c \in Caller : <>(stage[c] \in Final)

=============================================================================
