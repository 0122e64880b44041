# A TLA+ verification of the TravelGym rollout and collection code

This directory models the concurrent core of the repository: a TravelGym
episode and its user simulator, the multi-turn rollout that drives it, the state
concurrent rollouts share, the context that is compacted on the way and the
credit its turns receive, the resampling of GRPO groups, the paid collection of
Teacher trajectories, the training loop with its checkpoints, and the watcher
that switches the machine off after it. TLC checks the models on
small instances; TLAPS proves the main invariants for every value of the
constants. Paths below are relative to the repository root (`src/travel_grpo`
is the Python package of that name).

## 1. Inventory of the system

The repository trains a tool-calling travel agent with GRPO. A *rollout worker*
(SGLang) generates assistant messages; each message may call the `interact` tool,
which steps one *TravelGym environment*; an Action of the agent is answered by a
*user simulator*, local or behind a paid API. The trainer turns finished
episodes into advantages. Separately, a *Teacher collection* buys trajectories
of a stronger model for supervised training.

| Part | State it keeps | Operations | Interacts with |
|---|---|---|---|
| TravelGym environment (`environments/TravelGym/travelgym/env/travel_env.py`) | plan, current aspect, searched/answered aspects, hidden and revealed preferences, outcome counters, steps, termination flags and reason, cached report | `reset`, `step`, `step_async`, `register_external_invalid_call`, `mark_user_simulator_failure`, snapshots, terminal report | awaited by the tool; awaits the simulator |
| User simulator (`.../env/user_simulator.py`) | per-loop clients and semaphores, SQLite cache of judgments and responses, event log | `evaluate_user_question`, `model_call` with retries | called by the environment |
| Interact tool, environment manager (`verl/tools/interact_tool.py`, `env_manager.py`) | one environment and one conversation record per request id | `create`, `execute` (with a step timeout), `calc_reward`, `release` | called by the rollout, concurrently for the calls of one message |
| SGLang multi-turn rollout (`verl/workers/rollout/sglang_rollout/sglang_rollout_customized.py`) | per request: state, turn counter, turn events; shared by all requests: the sampling parameters | the turn loop, `gather` of tool calls, quarantine of broken requests, `gather` of requests | engine, tools, trainer |
| Teacher collection (`src/travel_grpo/collection/teacher_collection.py`, `evaluation/eval.py`) | cache file of records, the same records in memory, a queue, workers | `claim`, `record_success`, `record_error`, `reconcile_in_flight`, `abandon_in_flight`, worker pool | paid provider, operator |
| Turn credit and advantage (`verl/trainer/ppo/core_algos.py`) | none (pure) | merging of turn events, advantages | trainer |
| GRPO trainer, checkpoints (`verl/trainer/ppo/ray_trainer.py`) | global step, checkpoint folders, tracker file | fit loop, save, resume | rollout, dynamic sampling, hard-case pool |
| Dynamic sampling (`verl/trainer/ppo/dynamic_sampling.py`) | per update: generated batches, the pooled rows of every prompt; over updates: skips in a row | wrap `generate_sequences`, select a group, merge, mark a skip | rollout, the trainer's mask |
| Hard-case pool (`verl/trainer/ppo/hard_case_pool.py`) | streaks and admitted tasks, persisted by itself and with each checkpoint | `observe_group`, save, load | trainer |
| Segmented rollout, request state (`verl/workers/rollout/schemas.py`, `verl/trainer/ppo/segmented_rollout.py`) | per request: the token ledger, the archive of messages, the open fragment, the closed ones, which turns were cleaned | `begin_turn`, `complete_turn`, `maybe_cleanup_context`, `finalize` | the turn loop, turn credit |
| Shutdown watchers (`scripts/*shutdown*.py`, `scripts/train_grpo.sh`) | observed process identity, stop flag, report file, lock | poll, judge the files, report, delay, power off | the trainer's process and files |
| Validation, integrity, evaluation reports, data preparation, SFT trainer, tool adapter | files | batch computations | – |
| Vendored verl (models, sharding, kernels, other rewards) | – | – | – |

### What is hard here

* **Interleaving.** `asyncio.gather` runs all calls of a message on the same
  environment, and `step_async` reads the state, awaits the simulator and then
  writes. All requests override keys of one `sampling_params` dictionary
  around an await. All callers of the simulator share one file of answers and,
  per event loop, one semaphore. A watcher, the training it watches and the
  operator who restarts it share only files and the process table.
* **Ordering and staleness.** A simulator answer may arrive after the aspect
  was answered or the episode ended; turn events are differences of snapshots
  taken around an await; the terminal report is cached.
* **Boundaries.** The step budget, the deadline guard that must leave room for
  the rest of the plan, and the turn loop whose last message is not executed; the
  lengths at which a context must be compacted, and a fragment must still fit;
  which rows of a pool make a group whose rewards differ enough.
* **Crashes and partial failures.** A collecting process can die, or a write
  can fail, between claiming a pass, paying for it and recording the outcome. A
  training process can die between any two files of a checkpoint, or in one.
* **Timeouts.** The step timeout cancels an Action; a Teacher request that timed
  out looks like an answer; a cancelled simulator call must give its slot back.

`PROJECT.json` lists each of these hazards at its line of code, with the
properties that cover it, or the reason why none does yet.

### What makes each part correct

* Environment: the public protocol (search before answer, one aspect at a time,
  in plan order) under every interleaving; budgets; no preference credited
  twice or too late; the termination reason agrees with the state; a closed
  episode is frozen; every Action counted has exactly one outcome.
* Rollout request: what the trainer receives is final; no turn after the end;
  merged events are exact; an agent without refused calls can finish in the
  turns that run; every request ends.
* User simulator: a turn it returns is one the environment's model allows; the
  first answer to a prompt stays; no slot leaks; every call ends.
* Segmented rollout: what the actor generated is trained once, as generated,
  within the context; compaction forgets nothing; fragments do not change the
  credit of a turn.
* Dynamic sampling: what trains is a whole useful group or nothing; an update is
  skipped only if no useful group exists; limits are those of the update they
  serve.
* Watcher: a power-off follows the exit of the watched process and an uncancelled
  report of the same watcher; success is only reported of a whole checkpoint.
* Sampling parameters: whenever the engine reads them, it finds a call's own value
  where the call's block is the innermost; overrides are undone.
* Teacher collection: no pass is billed twice unsettled; the file protects
  everything sent; outcomes are kept; runs end, unless the tracker ends every
  worker.
* Trainer: a resumed process continues from one saved state as a whole, with the
  next batch and the hard-case pool that belongs to it; no hard case is missed.

## 2. Modules

| Module | Models |
|---|---|
| `TravelEpisode` | what an episode promises: the abstract protocol |
| `SimulatorContract` | which turns the user simulator may return for the inputs it is given |
| `TravelEnv` | one environment: `travel_env.py`, with the simulator as its contract |
| `SimulatorCalls` | the remote simulator: `evaluate_user_question` over `model_call` |
| `RolloutRequest` | one request: the turn loop and `InteractTool.execute` on top of `TravelEnv` |
| `SamplingParams` | the dictionary that concurrent requests share |
| `SegmentLedger` | one request with context cleanup on: ledger, fragments, compaction |
| `TurnCredit` | to which turns each component of the reward goes (pure operators) |
| `SegmentedTraining` | `SegmentLedger` with `TurnCredit` computed over its fragments |
| `GroupSelection` | the choice of a group among the rows of a prompt (pure operators) |
| `DynamicSampling` | the bounded resampling of an update, and the trainer's mask |
| `TeacherCollection` | the cache file, the process's memory, the workers, the operator |
| `AtomicTraining` | what checkpointing promises: states are saved and restored as a whole |
| `TrainerCheckpoint` | the fit loop, the files of a checkpoint, crashes, resumes, the hard-case pool |
| `ShutdownWatcher` | the watcher composed with `TrainerCheckpoint` |
| `MC*` | constants for TLC |
| `*Proofs` | theorems about the module they extend |

How they fit together: `SimulatorCalls` is checked and proved to keep
`SimulatorContract`, which `TravelEnv` uses in place of the simulator;
`RolloutRequest` is proved to drive `TravelEnv` by steps of `TravelEnv` only, which
implements `TravelEpisode`; `SegmentedTraining` reads the fragments
`SegmentLedger` leaves; `ShutdownWatcher` runs beside an instance of
`TrainerCheckpoint`, which implements `AtomicTraining`.

A definition whose comment calls it a mutant, or whose name describes a bug
(`RevealUnfiltered`, `DeadlineAskedTooEarly`, ...), is never used by a
specification: it is a plausible wrong version of the definition below it, kept to
show that the properties notice it. `PROJECT.json` pairs each property with one.

### TravelEpisode, TravelEnv

Variables are the environment's attributes (`steps` is `_steps`, `remaining` is
`_remaining_preferences`, ...; the declaration names each). Every operation that
runs without suspending is one action: `Search`, `Answer`, `Finish`,
`LocalAction`, and the four kinds of refused calls, which differ in whether the
step is charged. `step_async` is split at its await: `BeginAction` counts the
call and keeps, in `pending`, what the simulator was given; `CompleteAction`
applies any turn the simulator may return for *those* inputs to the state *now*;
`FailAction` is both the simulator's own failure and the tool's timeout, which
have the same effect (`mark_user_simulator_failure`). `remote`, fixed when an
episode starts, says whether the simulator is awaited: with the local one an
Action is a single step, `LocalAction`. `Reveal` and `RecordOutcome`
are the two helpers that do the crediting.

Left out: observation texts, the public transcript, option tables (an option is
an identity) and reward magnitudes. The plan is any sequence in `Plans` because
the code that extracts it is not in the repository.

`TravelEpisode` has four variables. `TravelEnv!FollowsProtocol` instantiates it
with `answered` as the support of `answers` and `closed` as
`terminated \/ truncated`, and says the environment implements it.

### RolloutRequest

EXTENDS `TravelEnv` and adds the request's `state` and turn counter, the life of
the environment in the manager (`entry`), and one frame per concurrent call. A
call goes `called -> entered -> (awaiting ->) returned -> done`; the snapshot, the
step, the await and the event are separate steps because `asyncio.wait_for` may
run the step in a task of its own. `FinishToolTurn`, `RunOutOfTurns`,
`ScoreAndRelease`, `Quarantine` and `Raise` are the ways out of the loop. Tokens are
not counted: an error they cause may occur wherever the code checks for one.

Whatever the request does to its environment, the environment sees only its own
steps: theorem `ImplementsEnv`, so that what is proved of an episode holds in the
loop.

### SamplingParams

One dictionary with two keys (the budget, which every call overrides, and the stop
marker, which only the reasoning phase does), the open `with` blocks, and the
phase of each request. Leaving a block restores what it saved on entry, in the
`finally` order of the code. The call is passed the dictionary itself, across an
await, and the engine is not in the repository: `EngineReads` may happen at any moment
between `Enter` and `Exit` (`given` is `Unread` until then), so it may find what
another request put there meanwhile. That every call arrives with its own
arguments (`OwnArgumentsArrive`) is therefore false. What holds is
`ReadsOwnArguments`: a call still finds its value in a key after any number of
blocks were entered and left inside its own, calls that raised included; an engine
that reads before it suspends is the case in which no other block is entered first.

### SimulatorCalls

A caller is a coroutine in `evaluate_user_question`: it asks for a judgment and,
when the judgment calls for one, for a response. `stage` says where its
`model_call` is: looking up the cache, queued on the semaphore of its loop, in the
request, in the backoff sleep, or out. A prompt (`request`) is told apart by what
it is built from; a reply by what the code reads from it. A request may succeed
(the answer is stored by `INSERT OR IGNORE`, logged and used), fail and be
retried, fail for good before or after the answer was stored, or be cancelled by
the tool's timeout, wherever it waits.

### SegmentLedger, TurnCredit, SegmentedTraining

A run of tokens is a span with a kind, a turn and a size; positions count spans
and budgets count tokens. `req` is the request's own state: the ledger of the
active context, the append-only archive, the open fragment, the closed ones
(`records`) and one entry per turn (`past`). `Generate` is the RUNNING state (clean up
if the next turn would not fit, open the turn, generate within the budget),
`RunTools` the TOOL_CALLING state (append the observations, close the turn, clean
up, refuse a context that is still too long), `OutOfTurns` the end of the loop and
`Reject` any error of a turn. `Cleanup` is `maybe_cleanup_context`: the fewest
completed aspects, oldest first, that bring the context under the target. Where the
chat template raises inside it (`works` is false) everything is undone and the
rollout goes on without a cleanup, as it does where compaction does not help. A
memory holds the observations of its actions and answers, the refused ones too
(`Feedback`). `given` keeps what the engine saw at each turn.

`TurnCredit` has one operator per routing rule of `core_algos.py`, in exact
multiples of `1 / Scale`: the three chains of answers (`AnswerRoutes`: correct, best
and legal ones), the useful turns weighted by the preferences they elicited
(`Elicited`), the penalties, and in `Credit` the even spread of a component without a
route and the fallback of a rollout without any report, whose advantages stay what
they were. `max_steps_penalty` stands for the three penalties that take its
route. A call carries the flags of `build_turn_credit_event`: its kind, what else is
noted of it (`also`) and what it elicited (`gain`). Best answers are taken among
the correct ones, and a custom routing table (`causal_routing`) is not modelled. `SegmentedTraining` computes it over the units of the
fragments, as the trainer does, and over the rollout as if it had not been split.

### GroupSelection, DynamicSampling

`GroupSelection` is `_select_candidate_group` with Python's rounding. In
`DynamicSampling` one action is one call of the wrapped `generate_sequences`, with
what follows it: another attempt (`Refill`), the merged groups (`Merge`) or the
skip mark (`GiveUp`). `Update` is what the trainer does with the output, skipped or
not.

### ShutdownWatcher

The training is an instance of `TrainerCheckpoint` without tasks, plus the dumps
the watcher looks for. A process is its start (PID and start ticks). A watcher
polls (`CancelWatching`, `SeeExit`, `MisreadIdentity`), judges the files and reports
(`Report`), looks for a stop once more and then every second (`CancelDelay`,
`EnterDelay`), and powers off (`RequestPowerOff`, `PowerOff`). It can be signalled
and killed anywhere, and the machine going off takes everything with it.

### TeacherCollection

A record is its status. `memory` and `disk` are separate, since the atomic
replacement of the file can fail after memory changed. `Crash` drops the process
at any suspension; `Start` loads the file; `Reconcile` and `Abandon` are the
operator's commands between runs. `Finish` is the worker's `finally`: every `LogEvery`
passes, and when the queue is empty, it reports to the experiment tracker, which
may raise. Nothing in the worker catches that, so the worker is `Killed` for the rest of the
run. What the provider saw is kept in the history
variables `paid`, `settled` and `answered`.

### AtomicTraining, TrainerCheckpoint

A process's memory (`step` is `global_steps`, `goal` is `run_until_step`, `model` the
batches the actor was given, `data` the position of the dataloader, `pool` the
hard-case pool) and the disk: one function per file of the checkpoint folders, the
`tracker`, and the pool's own file. One step of training is `Rollout` (fetch,
generate, observe, persist the pool) and `Update`; `_save_checkpoint` is one action
per file, in its order. The actor and the dataloader state are written in place, so
`CrashWriting` leaves them torn; the pool goes through a temporary file; saving the
random state may fail, which the code only prints; the tracker is truncated and
written in two steps. `Crash` may happen anywhere. `Resume` follows the tracker and
needs every file; `StartFromScratch` is what happens when there is no tracker: the
pool's constructor has then read the file a dead process left, which `inherited`
records.

`AtomicTraining` has a running flag, a model and a saved model. The folders and the
tracker implement it with the tracked actor as the saved model.

Left out: rewards and advantages (a skipped update is a batch like the others), the
critic, validation and its best-score folders, `resume_path` and the deletion of
folders after a load, the end of the epochs. The pool's file is written once per
batch, not once per group: the states in between are those of a smaller batch.

## 3. Runs

| Run | Question | Bounds, and why they are enough |
|---|---|---|
| `env` (26 544 states) | does an episode keep its promises when Actions overlap, and against the local simulator? | two served aspects and one without options, two preferences on different aspects, two overlapping Actions, two questions, `MaxSteps` 7, plans that cover all, part or none of the task. Both aspects can be searched, asked twice and answered with the deadline guard active in between; an Answer can overtake both Actions; redundancy needs a repeated and a fresh question, and both fit. |
| `request` (17 611) | does the composed loop keep its promises, and end? | two calls per message, five turns for a plan of two aspects: the spare step exists and is used. `MaxInvalid` 10 exceeds what five turns of two calls can produce, so it never binds. |
| `simulator` (120 896) | is the contract kept, does a slot or an answer get lost, does every call end? | two callers on one loop with one slot, so that one waits; two attempts, so that a retry happens; the same prompts, so that both may miss, pay and store; two preferences. |
| `sampling` (1 128 416) | does the engine find a call's own arguments, are nested blocks undone? | three requests (two can overlap, the third finds what they left), two turns each. |
| `segments` (160 332) | are fragments trained once, as generated, within the context, and credited as if there were none? | three aspects and six turns in a context of about three turns: a second fragment is common and a third one occurs; one size of observation stays within the reserve and the other exceeds it; an Action elicits one preference or two. |
| `dynamic` (52 164) | is what trains useful, and what is skipped hopeless? | two prompts, groups of two, rewards that are equal, too close, far enough apart and void, three batches, one skip allowed, three updates: a group may need rows of two attempts, and skips can be broken up by an update that trains. The ranks chosen are evaluated for group sizes 2 to 8 (`ChosenRanksFormAGroup`). |
| `teacher` (558 393) | is any request paid twice, any outcome lost? what keeps a run from ending? | three passes, two workers on one queue, two runs: claim, crash, settle, resume. `LogEvery` 1: each worker may be lost to the tracker with a pass left for nobody. |
| `trainer` (67 745) | is what a process resumes whole, in step, and exact about hard cases? | three processes, three steps, a checkpoint at step 2 and at the goals 2 and 3, threshold 2: a crash between two checkpoints, a second attempt at the same folder, and a streak that spans a resume all fit. |
| `watcher` (264 203) | is every power-off justified, and every exit recorded? | two watchers, a training of two steps that may be started twice: a restart before the next poll, a second watcher, a stop in every phase. |
| `request_natural_end`, `quarantined_ledger`, `fragmented_credit` | each shows one statement of the documentation, of a comment or of a test that the code does not keep | three concurrent calls for the first; the instance of `segments` for the others |

Bounds that exist only for TLC: `MaxInvalid` (refused calls), `MaxTurns` of
`SamplingParams`, `MaxRuns`, `MaxStarts`, `MaxUpdates`. Symmetry is used in runs
without liveness properties only. Deadlock is not checked where the system really
stops: an episode whose refused calls are used up, a request, a caller or a
segmented rollout that ended, a collection that is done, a sampler that ended the
training, a training run that reached its goal or cannot be resumed, and a
machine that is off.

The type invariants are not checked by the runs: for `TravelEnv`, `RolloutRequest`,
`TeacherCollection`, `TrainerCheckpoint` and `DynamicSampling` they are theorems.

### Findings

1. `travel_env.py:757`: an episode that ended naturally while another Action
   was awaited can be relabelled `max_steps` and charged the penalty.
2. `sglang_rollout_customized.py:1229`: a request that raises is quarantined with
   the caller's copy, which never saw a turn; the archive and the fragments that
   the comment promises to keep are gone.
3. `core_algos.py:1270`: a request that runs out of turns leaves its last turn
   without a global index; after a cleanup its position in the fragment is taken
   for one, and its credit goes to another turn.

### Observations

Met while modelling and not checked by a run. For the first eight a definition
states what a document or a comment promises, or what a reader would expect; adding
its name as an INVARIANT (`CollectionEnds` as a PROPERTY) to the module's configuration
shows the behaviour.

* `ExhaustionIsCharged`: the calls of the last message never run, so with one call
  per message the environment counts at most `max_turns - 1` steps and never
  reports `max_steps`, which `docs/reward.md:67` describes.
* `EventsDescribeTheirTransition` (`travel_env.py:378`): the events of overlapping
  Actions both contain what either revealed, so their sum exceeds what the
  message revealed. What `MergedEventsExact` says of the merged event still holds.
* `BlocksRestore` (`sglang_rollout_customized.py:671`): blocks that overlap without
  being nested leave the reasoning stop marker in the shared parameters.
* `OwnArgumentsArrive` (`sglang_rollout_customized.py:1590`): the engine is passed the
  shared dictionary; should it suspend before it reads it, a call runs with the
  arguments of another request.
* `CollectionEnds` (`eval.py:1935`): the report to the tracker is in the worker's
  `finally`, outside its `except Exception`, and `Tracking.log`
  (`verl/utils/tracking.py:241-245`) catches nothing. A tracking backend that raises
  ends the worker, where the comments at `eval.py:1916-1918` ("Keep a worker alive for an
  unexpected local error so the remaining queue can still drain") and 1814-1816 ("A
  monitoring outage must not corrupt the paid-request cache") promise otherwise; when all
  workers have gone with passes left, `pending_queue.join()` (1951) waits for ever.
  `EndsUnlessAllKilled` says that this is the only way a run that is left alone hangs.
* `InvalidWasAnswered` (`eval.py:1147`): a Teacher rollout that timed out is recorded
  as a complete but invalid pass.
* `TrackerCanBeRestartedFrom` (`ray_trainer.py:2361`, `:2358`): the tracker is
  rewritten in place, and names a folder even when its random state could not be
  saved; in both cases no process can resume, although older complete
  checkpoints are on disk.
* `CancelledMeansNoPowerOff` (`grpo_shutdown_watcher.py:325`, `:331`): a stop that
  arrives after the deadline of the delay is logged as a cancellation and the
  machine is powered off.
* An unreadable `/proc` entry is taken for the exit of the process (the disjunct
  with `misread` in `PowerOffIsJustified`), and the power-off for a process that is
  gone also ends a training that was started in the meantime.
* `dynamic_sampling.py:7` says that a given-up update skips the optimizer step; the
  trainer runs it on masked advantages.
* An unusable judgment stays in the simulator's cache, and every later caller of
  that prompt fails on it.
* A message that answers one aspect and searches the next is coalesced under the
  next aspect, so that the search of the answered one gets no credit from it
  (`core_algos.py:891`); `CreditStaysWithItsAspect` is about one call per message.
* `FragmentsFit` bounds a fragment by the context only. Its response may exceed
  `response_length`; `sglang_rollout_customized.py:1819-1824` then fails the whole batch.
* The watcher accepts a delay of 0 (`grpo_shutdown_watcher.py:463`), with which a stop
  that arrives after the judgment goes unheeded: `EarlyStopIsHonoured` and its theorem
  assume the positive delay that the launcher passes by default.
* Context cleanup is off by default (`scripts/train_grpo.sh:43`).

## 4. Fairness

* `RolloutRequest!Fairness` is weak fairness of the whole request: the event loop
  runs every ready coroutine, `wait_for` bounds a suspended step, and the turn
  counter bounds the loop. No agent action is assumed fair on its own.
* `SimulatorCalls!Fairness`: each caller takes its next step. A request returns or
  times out, the backoff sleep ends and the semaphore serves its waiters in
  order. Cancellations are not fair.
* `DynamicSampling!FairSpec`: the trainer is one sequential process, and a rollout
  batch returns.
* `TeacherCollection!Fairness`: the loop resumes every worker that is ready, a
  request returns or raises (the client has a timeout), and the main coroutine
  leaves when the queue has been joined. Crashes, operators and a tracker that raises
  are not fair.
* `ShutdownWatcher!Spec`: a running watcher takes its next step, since it only
  sleeps for bounded times and its commands time out. Nothing is assumed of the
  training, of signals or of operators.

## 5. Proofs

TLAPS proves, for every value of the constants allowed by the named assumptions
of each module:

| Module | Theorems |
|---|---|
| `RolloutRequestProofs` | of the episode (`TravelEnv`): `TypeCorrect`, `ClosedFrozen`, `BudgetRespected`, `PlanStaysFeasible`, `ReasonBacked`, `CreditedOnce`, `CreditedInTime`, `ProtocolFollowed` (the refinement of `TravelEpisode`), `OutcomesAccounted`, `GraceIsGiven`; of the request: `ImplementsEnv` (the refinement of `TravelEnv`), `RequestTypeCorrect`, `FinalReport`, `TurnsStopAtTheEnd`, `EventsMergeExactly`, `LastTurnIsNotNeeded` |
| `SimulatorCallsProofs` | `ContractKept`, `AnswersAreFinal`, `NoSlotLeaks` |
| `SamplingParamsProofs` | `InnermostReadsItsOwn`, `BlocksAreUndone` |
| `SegmentedTrainingProofs` | `GeneratedThere`, `TrainedOnce`, `FragmentsFitTheContext`, `NothingIsForgotten`, `CreditStays`, `CreditIgnoresSplits` |
| `DynamicSamplingProofs` | `TypeCorrect`, `CountersServe`, `SkippedRowsAreMaskedHolds`, `OnlyUsefulGroupsTrainHolds`, `SkipOnlyWhenHopelessHolds` |
| `TeacherCollectionProofs` | `TypeCorrect`, `NeverBilledTwice`, `FileProtectsRequests`, `OutcomesSurvive` |
| `TrainerCheckpointProofs` | `TypeCorrect`, `ResumesInStep`, `NamedCheckpointIsWhole`, `NeverBehind`, `CheckpointsLookAtomic` (the refinement of `AtomicTraining`), `ResumesExactly`, `MissesNoHardCase` |
| `ShutdownWatcherProofs` | `EarlyStopsCount`, `ReportIsOwn`, `PowerOffJustified`, `TrainingIsUndisturbed`, `SuccessMeansCheckpoint` |

The arguments:

* *Budget.* `StepBudget` alone is not inductive for the plan: the deadline guard
  bounds what an Action leaves, but a Search or an Answer lowers the minimum by
  exactly the step it takes, which needs cardinality facts about the plan's
  set, and a refused call is paid for by `invalid`. The lemmas on
  `MinimumCompletionSteps` say how each operation changes it.
* *Protocol.* The refinement needs that `current` is always the first open
  aspect of the plan, and that only searched aspects are answered; each
  concrete step then maps to `Search`, `Answer`, `Close` or a stutter. An Action that
  returns into a closed episode is a stutter.
* *Credit.* The credited sets and `remaining` are disjoint, and every preference of
  an answered aspect has left `remaining`; `Reveal` filters by `remaining` at the
  time of the return, so the stale inputs do not matter.
* *Outcomes.* `OutcomeAccounting` sums a function with a recursive definition that
  always takes some element first. A first lemma shows that any element may be
  taken first, by a smallest set for which it may not; then a step that raises
  one outcome by one raises the sum by one, and `pending` shrinks by the same one.
  For the grace, `OutcomeInv` bounds the redundant outcomes by those without gain
  less one for every aspect that was asked about, and says that an aspect without
  questions has no outcome without gain.
* *Request.* Every step of the loop is one of five moves of a call's frame
  (`CallMoves`), a step at a message boundary, or no step of the frames at all.
  `RequestInv` says that a call awaits the simulator exactly when the environment
  has its Action pending, that only calls of the current message have frames,
  that an open request whose episode has closed has a call that will report it, and
  that nothing is released before the report is made. With it, type correctness of the composition follows from that of the
  environment (`ImplementsEnv`), and the report cannot change because a closed
  episode is frozen and no call is left.
* *Events.* `MergedInv` compares snapshots: each call's `before` lies between the one
  the message was opened with and the present state, and an aspect was completed,
  or the episode harmed, since the message was opened exactly when one of the
  calls saw it between its own snapshots. When the last call is done, the
  merged event is the change.
* *Spare turn.* The deadline guard leaves one step more than the plan needs
  (`SpareStep`), and without refused calls every turn has used at least one step,
  except the one whose calls are not counted yet (`TurnsAreCounted`); so the turns
  that are left exceed the steps that are needed.
* *Fragments.* `SegInv` says what the closed fragments train on: a prefix of the
  actor's messages, each one behind what the engine was given for it, and the open
  fragment the rest. Where a cleanup cuts, every target of the open fragment
  lies before (`CutIsBehindTargets`), so closing it loses none, and the next one
  starts behind all of the new context, whatever that holds. `FitInv` adds sizes: the
  sum of a context is that of its prefix and of its rest (`TokensOfFragment`), an open
  fragment is cut where it fits, and a turn starts either from a context that fits
  or from one a cleanup brought under the limit. The budget of an engine call
  keeps the observation's reserve free, which is why a turn that fits the reserve
  may follow. `FragmentsFitTheContext` assumes `TurnsHaveRoom`: the first prompt leaves room
  for one turn, which is a property of the data; a whole turn's reserve is more than
  that of its observation and of the marker; and the response limit exceeds the
  observation's reserve. The reserve of a turn is that of the observation plus
  two caps, both positive, and a margin that is not negative
  (`sglang_rollout_customized.py:381-402`; 3 072 tokens and the margin by default).
* *Memory.* `NothingForgotten` counts how often a message occurs in the context. What
  makes each message occur once (`MemInv`): the archive has at most one message of a
  kind for each turn, and a marker for each turn (`Archived`); a turn that may be
  cleaned is the only one of its aspect, that aspect is finished, and its group is
  the turns of that aspect up to itself (`Grouped`), so groups do not overlap and no
  turn joins one later; and every message of the archive is told once, or is
  covered and its memory is (`Told`). A cleanup glues one piece for each message of the
  archive, each with at most one element (`Flattened`): the message, the memory when
  the message is the marker of the first turn of its group, or nothing. A step of the
  rollout appends one message to the archive and to the context that is of a turn no
  group covers.
* *Credit of an answer.* `CreditInv` adds to `MemInv` that a closed turn with one call is
  about the aspect the environment was at, and that whatever follows an answer is
  about a later one (`InTurn`); so no aspect is answered correctly twice. Then the
  weight of a turn is that of the one answer of its aspect (`AnswerCredit`), and the
  weights of an aspect's turns are a single share for the search, equal shares for the
  useful actions and a single share for the answer. The lemmas on sums say that the
  order in which the fold takes its elements does not matter, and what a sum of one
  element, of equal elements and of two functions is. `SharesAreWhole` assumes that the
  common denominator `Scale` is divisible by every number of turns, which makes the
  division by the number of actions exact, as that of the code's fractions is.
* *Split credit.* `UnitInv` adds to `CreditInv` the closed form of every fragment
  (`ShapedRecord`, `ShapedSegment`): the boundary of its first turn is at 0 and that of
  its i-th behind 3i - 4 spans, what the actor wrote in its i-th turn is at position
  3i - 2 and nothing else carries loss, and the turns stored for it are consecutive. A
  cleanup closes a fragment between two turns, so only the end of the rollout closes
  one with a turn that is not stored (`Complete`, `Broken`). So each unit has one target
  (`ShapeHoldsTurns`), and with `TrainedInOrder` the units and the turns correspond one
  to one. The index of a unit is its turn when the turn was stored, and also when
  there is one fragment, whose positions are the turns (`TurnsAreIndices`). The order
  is proved by counting: when every index below n is that of one unit, as many
  units come before a unit as its index says (`CountBelow`, `UnitsInOrder`). Then the
  events in the order of the units are those of the turns, and so is the credit,
  whatever routing it takes. The run `fragmented_credit` shows that the theorem's condition
  is needed.
* *Simulator.* A response is only asked for that fits the arguments of the caller
  (`Fits`): of an offered preference, elicited when it is due, natural when it is
  not. That makes each returned turn one of the contract, whatever the cache
  holds. For the slots, a step either takes one, gives one back or needs none, and
  the set of callers in flight changes by that one element.
* *Parameters.* `ParamsInv` adds to the two properties that a request is in one block
  at a time and that the first open block of an uncrossed key saved its default:
  leaving a block that is not the last of its key is what `crossed` records, and
  leaving the last and only one restores the default (`LeaveSafe`). `InnermostInForce` says
  that the dictionary holds the value of the innermost block of each such key,
  which is what a reading finds, however late it is.
* *Sampler.* The counter of batches equals the attempts of the update (`Counters`);
  the sampler raises or resets it before the next update starts.
* *Groups.* The chosen ranks are different positions of the sorted rewards, and any
  two rows of a pool whose rewards are far enough apart lie between its first and
  its last rank; so the choice is a useful group if the pool has one
  (`DynamicSamplingProofs`, part on ranks), and the pool of a prompt holds every
  valid row of its attempts.
* *Teacher.* `NoSilentReissue` needs to know what the file, the memory and the
  worker say together. The invariant `IInv` says: an unsettled request is
  marked in the file; memory agrees with the file on everything final, and
  never shows a pass as claimable that the file protects; a pass a worker holds
  is marked in both and unpaid until the request is sent; and no two workers hold one pass.
* *Trainer.* That the tracked checkpoint is whole is not inductive: a process may
  be overwriting folders. `IInv` adds that every readable file carries its
  folder's step, which files of the current folder are already written, and that a
  running process is past the tracker's folder, so that writes, finished or
  torn, go elsewhere. Then every file written is a stutter of `AtomicTraining`, and
  only the two steps on the tracker are its `Save`.
* *Pool.* What the pool says of a task is a fold over the batches the model has
  seen. `PoolBelongs` carries the fold along (`StreakStep`, `HardCasesStep`) for the
  running process and for the checkpoint the tracker names, each with the batches
  of its own moment: the pool is exactly their fold, or at least as much when a run
  from scratch inherited the pool file of one that died.
* *Watcher.* A process that is gone never runs again, because a restart is another
  start (`GoneForEver`); so what `SeeExit` saw stays true until the power-off, and
  with the lock no other watcher can replace the report in between (`WatchInv`).
  The training beside the watchers takes steps of `TrainerCheckpoint` only, which
  brings `NamedCheckpointIsWhole` to the files a success is reported of.

### Only model-checked

* Liveness (`EveryRequestEnds`, `EveryCallEnds`, `SamplingEnds`,
  `EndsUnlessAllKilled`, `EveryExitIsRecorded`), because it needs fairness.

Every safety property of a passing run is stated by a theorem. Sums and folds over
functions and sequences are inside the proofs' reach where an induction over their
elements can be written with a set of good numbers (`InductionOnNaturals`) or a
smallest counterexample; an induction theorem with an operator as parameter cannot be
used, and what the prover does not expand (`SelectSeq`, a sort) the model says with
`SubSeq` and a count of what comes before (`BoundsBelow`, `UnitOrder`).

## 6. Not modelled

Every part is listed in `PROJECT.json` with its reason. In short:

* vendored library code of verl: models, sharding, kernels, other reward managers,
  and the server mode (async server, chat scheduler) that the configuration does
  not use;
* batch transformations of files: data preparation, evaluation reports and their
  merging, the integrity manifests; they run once, alone, over complete inputs;
* the SFT trainer: it keeps no state a restart continues from, and its collectives
  are kept in step by a sampler that gives every rank the same number of batches;
* floating-point arithmetic: the magnitude of rewards, the group-relative
  advantages, the projection of float residuals;
* tokens as such: chat templates, attention and position masks, multi-modal
  inputs. `SegmentLedger` counts them, the other modules do not, so an error they
  cause may occur wherever the code checks for one;
* within modelled parts: the branch of the rollout loop for a request without
  tools, weight loading and memory release, the padding of batches, outputs
  without TravelGym's reward metadata (`dynamic_sampling.py:381-400`), validation's
  best-score folders, the watcher's task kind "validation", and
  `sft_shutdown_watcher.py`, which repeats the watcher's loop over other files.

## 7. Plan

Done: the modules, runs and theorems above. Left, in this order:

1. The ranks and collectives of the SFT trainer, and pass@k and the merging of
   evaluation reports as pure operators.
