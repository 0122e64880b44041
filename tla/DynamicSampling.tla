---------------------------- MODULE DynamicSampling ----------------------------
(***************************************************************************)
(* Bounded resampling of GRPO groups                                       *)
(* (verl/trainer/ppo/dynamic_sampling.py) and what the training step does  *)
(* with its result (compute_advantage and fit in ray_trainer.py,           *)
(* update_policy in verl/workers/actor/dp_actor.py).                       *)
(*                                                                         *)
(* The wrapper repeats a rollout batch until every prompt has a group of   *)
(* valid rows whose rewards differ enough, pooling the rows of all         *)
(* attempts; when the attempts are used up the last output is marked       *)
(* travel_skip_update.                                                     *)
(*                                                                         *)
(* Rewards are scaled to integers.  The train dataloader drops its last    *)
(* batch, so one BoundedSamplingState serves all updates.  Calls that      *)
(* bypass the wrapper, and outputs without TravelGym's reward metadata,    *)
(* change none of this state and are left out.                             *)
(***************************************************************************)
EXTENDS GroupSelection

CONSTANTS
    Prompt,       \* the prompt UIDs of a batch
    Reward,       \* terminal rewards
    Invalid,      \* the reward of a row whose reward is void
    Rollouts,     \* the rewards a prompt's rows may get in one attempt
    MaxBatches,   \* max_generation_batches
    MaxSkips,     \* max_consecutive_skips
    MaxUpdates    \* bound on the updates explored

ASSUME SamplingAssumption ==
    /\ Reward \subseteq Int
    /\ Invalid \notin Reward
    /\ Rollouts \subseteq [1..GroupSize -> Reward \cup {Invalid}]
    /\ MaxBatches \in Nat \ {0}
    /\ MaxSkips \in Nat
    /\ MaxUpdates \in Nat

VARIABLES
    phase,       \* where the training step is
    batches,     \* BoundedSamplingState.generation_batches
    skips,       \* BoundedSamplingState.consecutive_skips
    attempts,    \* calls of the wrapped generate_sequences in this update
    candidates,  \* the valid rows of each prompt, of all attempts
    output,      \* the rows of each prompt the trainer was given
    skip,        \* meta_info["travel_skip_update"]
    trained,     \* the rows whose advantages are not masked
    streak,      \* updates skipped in a row (history)
    updates      \* updates finished

vars == <<phase, batches, skips, attempts, candidates, output, skip, trained,
          streak, updates>>

Nothing == [u \in Prompt |-> {}]

\* The rows of attempt b as the sampler sees them.
Rows(rollout, b) ==
    {[reward |-> rollout[i], batch |-> b, row |-> i,
      valid  |-> rollout[i] # Invalid] : i \in 1..GroupSize}

Selections(pool) == [u \in Prompt |-> SelectGroup(pool[u])]

\* select_reward_varying_groups, as compute_advantage uses it: rows of a
\* useful group, and the valid rows of a group with an invalid sibling.
Kept(rows) ==
    IF Cardinality(rows) < GroupSize \/ \E r \in rows : ~r.valid
      THEN {r \in rows : r.valid}
      ELSE IF VariesEnough(rows) THEN rows ELSE {}

-----------------------------------------------------------------------------

Init ==
    /\ phase = "idle"
    /\ batches = 0
    /\ skips = 0
    /\ attempts = 0
    /\ candidates = Nothing
    /\ output = Nothing
    /\ skip = FALSE
    /\ trained = Nothing
    /\ streak = 0
    /\ updates = 0

StartUpdate ==
    /\ phase = "idle"
    /\ updates < MaxUpdates
    /\ phase' = "sampling"
    /\ attempts' = 0
    /\ trained' = Nothing
    /\ UNCHANGED <<batches, skips, candidates, output, skip, streak, updates>>

\* The rows an attempt adds to the pool.
Pooled(sampled) ==
    [u \in Prompt |->
       candidates[u] \cup {r \in Rows(sampled[u], attempts) : r.valid}]

\* Mutants of finish_update: the counter of batches is kept; an update that
\* trained keeps the count of skips.
FinishWithoutReset(train) ==
    /\ skips' = IF train THEN 0 ELSE skips + 1
    /\ phase' = IF skips' > MaxSkips THEN "raised" ELSE "sampled"
    /\ batches' = batches + 1

FinishKeepingSkips(train) ==
    /\ skips' = IF train THEN skips ELSE skips + 1
    /\ phase' = IF skips' > MaxSkips THEN "raised" ELSE "sampled"
    /\ batches' = IF skips' > MaxSkips THEN batches + 1 ELSE 0

\* finish_update; too many skipped updates in a row end the training.
FinishUpdate(train) ==
    /\ skips' = IF train THEN 0 ELSE skips + 1
    /\ phase' = IF skips' > MaxSkips THEN "raised" ELSE "sampled"
    /\ batches' = IF skips' > MaxSkips THEN batches + 1 ELSE 0

\* Every attempt starts with record_batch, which raises at the limit.
Generate(sampled) ==
    /\ phase = "sampling"
    /\ batches < MaxBatches
    /\ attempts' = attempts + 1
    /\ candidates' = Pooled(sampled)
    /\ UNCHANGED <<trained, updates>>

\* Some prompt has no group yet, and attempts are left.
Refill(sampled) ==
    /\ Generate(sampled)
    /\ \E u \in Prompt : Selections(candidates')[u] = {}
    /\ attempts' < MaxBatches
    /\ batches' = batches + 1
    /\ UNCHANGED <<phase, skips, output, skip, streak>>

\* Every prompt has a group: the groups are merged into one output.
Merge(sampled) ==
    /\ Generate(sampled)
    /\ \A u \in Prompt : Selections(candidates')[u] # {}
    /\ output' = Selections(candidates')
    /\ skip' = FALSE
    /\ FinishUpdate(TRUE)
    /\ streak' = 0

\* The attempts are used up: the last output is passed on, marked.
GiveUp(sampled) ==
    /\ Generate(sampled)
    /\ \E u \in Prompt : Selections(candidates')[u] = {}
    /\ attempts' = MaxBatches
    /\ FinishUpdate(FALSE)
    /\ IF phase' = "raised"
         THEN UNCHANGED <<output, skip>>
         ELSE /\ output' = [u \in Prompt |-> Rows(sampled[u], attempts)]
              /\ skip' = TRUE
    /\ streak' = streak + 1

\* Mutant of TrainMask: the filter alone decides, whatever was skipped.
TrainKept == [u \in Prompt |-> Kept(output[u])]

\* The advantage mask of compute_advantage.
TrainMask == IF skip THEN Nothing ELSE TrainKept

\* compute_advantage and update_actor: the trainer does not ask whether the
\* update was skipped, it runs it on the masked advantages.
Update ==
    /\ phase = "sampled"
    /\ phase' = "idle"
    /\ trained' = TrainMask
    /\ updates' = updates + 1
    /\ candidates' = Nothing
    /\ output' = Nothing
    /\ UNCHANGED <<batches, skips, attempts, skip, streak>>

Sample ==
    \E sampled \in [Prompt -> Rollouts] :
      Refill(sampled) \/ Merge(sampled) \/ GiveUp(sampled)

Next == StartUpdate \/ Sample \/ Update

Spec == Init /\ [][Next]_vars

(***************************************************************************)
(* The training loop is one sequential process and every rollout batch     *)
(* returns.                                                                *)
(***************************************************************************)
FairSpec == Spec /\ WF_vars(Sample) /\ WF_vars(Update)

-----------------------------------------------------------------------------
(* Properties *)

Candidate == [reward : Reward \cup {Invalid}, batch : Nat, row : 1..GroupSize, valid : BOOLEAN]

\* Every variable stays in its range.
TypeOK ==
    /\ phase \in {"idle", "sampling", "sampled", "raised"}
    /\ batches \in 0..MaxBatches
    /\ skips \in 0..(MaxSkips + 1)
    /\ attempts \in 0..MaxBatches
    /\ candidates \in [Prompt -> SUBSET Candidate]
    /\ output \in [Prompt -> SUBSET Candidate]
    /\ skip \in BOOLEAN
    /\ trained \in [Prompt -> SUBSET Candidate]
    /\ streak \in Nat
    /\ updates \in Nat

\* The sampler's counter is that of the update it serves: it starts at zero,
\* so the limit of one update is never charged with the batches of another
\* and record_batch never raises.
LimitIsPerUpdate ==
    /\ phase = "sampling" => batches = attempts /\ batches < MaxBatches
    /\ phase \in {"idle", "sampled"} => batches = 0

\* A merged output gives every prompt one complete group of valid rows, and
\* the trainer's own filter, run later on the merged batch, keeps all of it.
MergedGroupsTrain ==
    phase = "sampled" /\ ~skip =>
      \A u \in Prompt : /\ Cardinality(output[u]) = GroupSize
                        /\ \A r \in output[u] : r.valid
                        /\ Kept(output[u]) = output[u]

\* An update is given up only when some prompt has no useful group among all
\* the valid rows of all its attempts.
SkipOnlyWhenHopeless ==
    phase = "raised" \/ (phase = "sampled" /\ skip) =>
      \E u \in Prompt :
        \A group \in SUBSET candidates[u] :
          Cardinality(group) = GroupSize => ~VariesEnough(group)

\* Training stops exactly when one update more than allowed was skipped in a
\* row: an update that trained starts the count afresh.
SkipsAreConsecutive ==
    /\ skips = streak
    /\ phase = "raised" <=> streak > MaxSkips

\* A skipped update trains no row, although its last output may hold groups
\* that pass the filter and valid siblings of invalid rows.
SkippedRowsAreMasked ==
    phase = "idle" /\ skip => trained = Nothing

\* BoundedSamplingState, one object for all updates, always counts for the
\* update it serves.
CountersServeTheirUpdate == LimitIsPerUpdate /\ SkipsAreConsecutive

\* What the update trains: whole useful groups, or nothing.
OnlyUsefulGroupsTrain == MergedGroupsTrain /\ SkippedRowsAreMasked

\* Sampling for an update ends, with an output or by ending the training.
SamplingEnds == phase = "sampling" ~> phase # "sampling"

=============================================================================
