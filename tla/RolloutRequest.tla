--------------------------- MODULE RolloutRequest ---------------------------
(***************************************************************************)
(* One multi-turn rollout request of the SGLang worker                     *)
(* (_async_rollout_a_request in                                            *)
(* verl/workers/rollout/sglang_rollout/sglang_rollout_customized.py)       *)
(* driving one TravelGym episode through InteractTool                      *)
(* (verl/tools/interact_tool.py).                                          *)
(*                                                                         *)
(* An assistant message may hold several tool calls.  asyncio.gather runs  *)
(* their execute() coroutines concurrently on the same environment; each   *)
(* takes a counter snapshot, runs its step and turns the difference into   *)
(* a turn-credit event.  asyncio.wait_for may start the step in a task of  *)
(* its own, so the snapshot, the step, its end and the event are separate  *)
(* points where other calls can run.                                       *)
(*                                                                         *)
(* Generation is the engine's choice of calls.  Tokens are left out: the   *)
(* budget, template and protocol errors they cause may occur wherever the  *)
(* code checks for them.                                                   *)
(***************************************************************************)
EXTENDS TravelEnv

CONSTANTS
    MaxTurns,  \* config.multi_turn.max_turns
    NoReport   \* no terminal report built yet

\* create_kwargs["max_turns"] becomes the max_steps of the environment.
ASSUME TurnsAssumption == MaxTurns = MaxSteps

VARIABLES
    state,     \* AsyncRolloutRequestState, plus the ways a request ends
    turns,     \* current_turns
    entry,     \* the request's entry in the EnvironmentManager
    frame,     \* the execute() frame of each call of the message
    opened,    \* the counters when the message's calls started (history)
    report     \* _terminal_report, what the trainer is given

requestVars == <<state, turns, entry, frame, opened, report>>
vars == <<envVars, requestVars>>

-----------------------------------------------------------------------------

\* The counters of get_turn_credit_snapshot the properties need.
Snapshot == [prefs    |-> Cardinality(agentSeen),
             invalid  |-> invalid,
             answered |-> Cardinality(Answered),
             valid    |-> rewardValid]

TurnEventOfRefusals(before, after) ==
    [prefs     |-> after.prefs - before.prefs,
     invalid   |-> after.invalid > before.invalid,
     completed |-> after.answered > before.answered]

\* build_turn_credit_event: one transition, as the difference of snapshots.
TurnEvent(before, after) ==
    [prefs     |-> after.prefs - before.prefs,
     invalid   |-> after.invalid > before.invalid \/ (before.valid /\ ~after.valid),
     completed |-> after.answered > before.answered]

ZeroSnapshot == [prefs |-> 0, invalid |-> 0, answered |-> 0, valid |-> TRUE]
NoEvent   == [prefs |-> 0, invalid |-> FALSE, completed |-> FALSE]
IdleFrame == [phase |-> "idle", before |-> ZeroSnapshot, event |-> NoEvent,
              done |-> FALSE]

\* What _build_terminal_report reads.
Ledger == [answers |-> answers, searched |-> searched, seen |-> agentSeen,
           steps |-> steps, invalid |-> invalid, redundant |-> redundant,
           valid |-> rewardValid, reason |-> reason]

Batch        == {c \in Call : frame[c].phase # "idle"}
InPhase(c, ph) == frame[c].phase = ph
OutOfTurns   == turns >= MaxTurns
Ended        == state \in {"scored", "quarantined", "raised"}

\* The call's frame moves on; its flag is what step_async returned.
Return(c, done) ==
    frame' = [frame EXCEPT ![c] = [@ EXCEPT !.phase = "returned", !.done = done]]

-----------------------------------------------------------------------------

RequestInit ==
    /\ Init
    /\ state = "pending"
    /\ turns = 0
    /\ entry = "absent"
    /\ frame = [c \in Call |-> IdleFrame]
    /\ opened = Snapshot
    /\ report = NoReport

\* _handle_pending_state: plan, then create and reset the environment.
HandlePendingState ==
    /\ state = "pending"
    /\ state' = "running"
    /\ entry' = "live"
    /\ UNCHANGED <<envVars, turns, frame, opened, report>>

\* A reasoning and a tool-call generation that together parse into `calls`.
Generate(calls) ==
    /\ state = "running"
    /\ ~OutOfTurns
    /\ turns' = turns + 1
    /\ state' = "tool_calling"
    /\ frame' = [c \in Call |-> IF c \in calls
                                  THEN [IdleFrame EXCEPT !.phase = "called"]
                                  ELSE IdleFrame]
    /\ opened' = Snapshot
    /\ UNCHANGED <<envVars, entry, report>>

\* execute() up to the step: the snapshot is taken, the arguments are valid.
EnterCall(c) ==
    /\ state = "tool_calling"
    /\ ~OutOfTurns
    /\ InPhase(c, "called")
    /\ frame' = [frame EXCEPT
                   ![c] = [@ EXCEPT !.phase = "entered", !.before = Snapshot]]
    /\ UNCHANGED <<envVars, state, turns, entry, opened, report>>

\* execute() with arguments the adapter refuses never suspends.
RefuseArguments(c) ==
    /\ state = "tool_calling"
    /\ ~OutOfTurns
    /\ InPhase(c, "called")
    /\ RegisterExternalInvalidCall
    /\ frame' = [frame EXCEPT
                   ![c] = [phase  |-> "done",
                           before |-> Snapshot,
                           event  |-> TurnEvent(Snapshot, Snapshot'),
                           done   |-> Closed']]
    /\ UNCHANGED <<state, turns, entry, opened, report>>

\* step_async without a suspension.  The adapter lets neither [finish] nor
\* text that does not parse through.
StepCall(c) ==
    /\ InPhase(c, "entered")
    /\ \/ RejectCall
       \/ RejectFinished
       \/ \E a \in Aspect : Search(a)
       \/ \E a \in Aspect, q \in Question : LocalAction(a, q)
       \/ \E a \in Aspect, o \in Option : Answer(a, o)
    /\ Return(c, Closed')
    /\ UNCHANGED <<state, turns, entry, opened, report>>

SuspendCall(c) ==
    /\ InPhase(c, "entered")
    /\ \E a \in Aspect, q \in Question : BeginAction(c, a, q)
    /\ frame' = [frame EXCEPT ![c] = [@ EXCEPT !.phase = "awaiting"]]
    /\ UNCHANGED <<state, turns, entry, opened, report>>

ResumeIfOpen(r) ==
    /\ ~Closed
    /\ \/ CompleteAction(r) /\ Return(r.call, Closed')
       \/ FailAction(r) /\ Return(r.call, TRUE)
    /\ UNCHANGED <<state, turns, entry, opened, report>>

\* The simulator answers, fails, or the step timeout gives up on it.
ResumeCall(r) ==
    /\ \/ CompleteAction(r) /\ Return(r.call, Closed')
       \/ FailAction(r) /\ Return(r.call, TRUE)
    /\ UNCHANGED <<state, turns, entry, opened, report>>

\* execute() after the step.
BuildEvent(c) ==
    /\ InPhase(c, "returned")
    /\ frame' = [frame EXCEPT
                   ![c] = [@ EXCEPT !.phase = "done",
                                    !.event = TurnEvent(frame[c].before, Snapshot)]]
    /\ UNCHANGED <<envVars, state, turns, entry, opened, report>>

GatherFailsFast ==
    /\ state = "tool_calling"
    /\ ~OutOfTurns
    /\ \E c \in Batch : InPhase(c, "done")

GatherIsOver ==
    /\ state = "tool_calling"
    /\ ~OutOfTurns
    /\ \A c \in Batch : InPhase(c, "done")

FinishUnlessOneIsOpen ==
    /\ GatherIsOver
    /\ state' = IF \A c \in Batch : frame[c].done THEN "stopped" ELSE "running"
    /\ frame' = [c \in Call |-> IdleFrame]
    /\ UNCHANGED <<envVars, turns, entry, opened, report>>

\* The responses are appended; a finished episode stops the loop, and so may
\* responses that fill the model's context to the last token.
FinishToolTurn ==
    /\ GatherIsOver
    /\ \/ state' = "stopped"
       \/ state' = "running" /\ \A c \in Batch : ~frame[c].done
    /\ frame' = [c \in Call |-> IdleFrame]
    /\ UNCHANGED <<envVars, turns, entry, opened, report>>

\* The while condition fails: the last message's calls are never executed.
RunOutOfTurns ==
    /\ state \in {"running", "tool_calling"}
    /\ OutOfTurns
    /\ state' = "stopped"
    /\ frame' = [c \in Call |-> IdleFrame]
    /\ UNCHANGED <<envVars, turns, entry, opened, report>>

\* calc_reward, get_reward_metadata and release, without a suspension.
ScoreAndRelease ==
    /\ state = "stopped"
    /\ state' = "scored"
    /\ report' = Ledger
    /\ entry' = "released"
    /\ UNCHANGED <<envVars, turns, frame, opened>>

\* A length, protocol or template error voids the request: of the first
\* prompt, in a generation, or after the tool responses (before the stop flag
\* is looked at).
Quarantine ==
    /\ \/ state = "pending"
       \/ state = "running" /\ ~OutOfTurns
       \/ GatherIsOver
    /\ state' = "quarantined"
    /\ report' = [Ledger EXCEPT !.valid = FALSE]
    /\ entry' = "released"
    /\ frame' = [c \in Call |-> IdleFrame]
    /\ UNCHANGED <<envVars, turns, opened>>

\* Any other exception of the engine or of create() ends the whole batch;
\* the environment is not released.
Raise ==
    /\ state \in {"pending", "running"}
    /\ state' = "raised"
    /\ UNCHANGED <<envVars, turns, entry, frame, opened, report>>

RequestNext ==
    \/ HandlePendingState
    \/ \E calls \in (SUBSET Call) \ {{}} : Generate(calls)
    \/ \E c \in Call : EnterCall(c)
    \/ \E c \in Call : RefuseArguments(c)
    \/ \E c \in Call : StepCall(c)
    \/ \E c \in Call : SuspendCall(c)
    \/ \E r \in pending : ResumeCall(r)
    \/ \E c \in Call : BuildEvent(c)
    \/ FinishToolTurn
    \/ RunOutOfTurns
    \/ ScoreAndRelease
    \/ Quarantine
    \/ Raise

RequestSpec == RequestInit /\ [][RequestNext]_vars

(***************************************************************************)
(* The event loop runs every ready coroutine; the engine returns, and a    *)
(* suspended step is answered or cancelled by wait_for's timeout.          *)
(***************************************************************************)
Fairness == WF_vars(RequestNext)

FairSpec == RequestSpec /\ Fairness

-----------------------------------------------------------------------------
(* Properties *)

RequestTypeOK ==
    /\ state \in {"pending", "running", "tool_calling", "stopped", "scored",
                  "quarantined", "raised"}
    /\ turns \in 0..MaxTurns
    /\ entry \in {"absent", "live", "released"}
    /\ \A c \in Call : frame[c].phase \in
          {"idle", "called", "entered", "awaiting", "returned", "done"}
    /\ {r.call : r \in pending} = {c \in Call : InPhase(c, "awaiting")}

\* The reward the trainer gets describes the episode as it ended: no call is
\* left that could change it behind the cached report, and none ever runs on
\* an environment that was released.
ReportIsFinal ==
    /\ state = "scored" => report = Ledger
    /\ entry = "released" => pending = {} /\ Batch = {}

\* No turn is generated for an episode that is over: one finished call among
\* the concurrent ones is enough to stop the loop.
NoTurnAfterTheEnd == state = "running" => ~Closed

\* Merged over the message (_coalesce_turn_event), the events of concurrent
\* calls say exactly whether it completed an aspect, and whether one of its
\* calls was refused or failed.
MergedEventsExact ==
    GatherIsOver =>
      /\ (\E c \in Batch : frame[c].event.completed)
           <=> Cardinality(Answered) > opened.answered
      /\ (\E c \in Batch : frame[c].event.invalid)
           <=> invalid > opened.invalid \/ (opened.valid /\ ~rewardValid)

\* The loop never executes the calls of its last message, so one of the
\* max_steps steps cannot be used.  The deadline guard keeps one more step
\* free than the plan needs: an agent without refused calls can finish its
\* plan in the turns that really run.
LastTurnIsSpare ==
    state = "running" /\ invalid = 0 /\ 2 * Len(plan) < MaxTurns
      => MinimumCompletionSteps < MaxTurns - turns

\* Every request ends, whatever the simulator does.
EveryRequestEnds == <>Ended

\* build_turn_credit_event is documented to "describe one transition": the
\* preferences its events report for a message would be those it revealed.
\* Overlapping Actions count each other's, so the code does not keep this; no
\* run checks it, and TLC violates it as an INVARIANT of MCRolloutRequest.cfg.
EventsDescribeTheirTransition ==
    GatherIsOver =>
      SumFunction([c \in Batch |-> frame[c].event.prefs])
        = Cardinality(agentSeen) - opened.prefs

\* Reward documentation: an episode that used up its turns without a natural
\* end pays the maximum steps penalty.  The calls of the last message are not
\* executed, so the code does not keep this; no run checks it, and TLC violates
\* it as an INVARIANT of MCRolloutRequest.cfg.
ExhaustionIsCharged ==
    state = "scored" /\ turns = MaxTurns /\ ~terminated /\ rewardValid
      => report.reason = "max_steps"

\* Reward documentation and tests: an episode with a natural end does not.
NaturalEndIsNotCharged ==
    state = "scored" /\ terminated => report.reason # "max_steps"

=============================================================================
