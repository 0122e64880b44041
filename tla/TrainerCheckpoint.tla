-------------------------- MODULE TrainerCheckpoint --------------------------
(***************************************************************************)
(* The GRPO training loop with its checkpoints, crashes and resumes        *)
(* (fit, _save_checkpoint and _load_checkpoint in                          *)
(* verl/trainer/ppo/ray_trainer.py) and the hard-case pool it feeds        *)
(* (verl/trainer/ppo/hard_case_pool.py).                                   *)
(*                                                                         *)
(* A checkpoint is a folder of files written one after the other; a        *)
(* tracker file, rewritten in place, names the latest.  The hard-case pool *)
(* is part of every checkpoint and is also written to a file of its own    *)
(* after each observation, which a new process reads first.                *)
(*                                                                         *)
(* The parameters of the actor are the sequence of batches they were given *)
(* to train on, the dataloader is its position and never runs out.  Of a   *)
(* batch only the tasks the pool could observe matter, and which of them   *)
(* scored zero.  resume_mode is "auto" and nothing deletes a folder.       *)
(* Rewards, advantages, the critic and validation are left out.            *)
(***************************************************************************)
EXTENDS Integers, Sequences, FiniteSets

CONSTANTS
    Task,        \* task keys (compose_task_key)
    Groups,      \* the sets of tasks a batch's groups may report on
    Threshold,   \* hard_case_pool.threshold
    MaxSteps,    \* total_training_steps
    SaveAt,      \* milestones and multiples of save_freq
    Goals,       \* allowed_run_until_steps
    MaxStarts,   \* bound on the processes started
    NoFile,      \* the file does not exist
    Torn,        \* the file was not written to its end
    NoBatch      \* no batch between rollout and update

Steps == 1..MaxSteps

ASSUME TrainerAssumption ==
    /\ MaxSteps \in Nat \ {0}
    /\ Threshold \in Nat \ {0}
    /\ IsFiniteSet(Task)
    /\ Groups \subseteq SUBSET Task
    /\ SaveAt \subseteq Steps
    /\ Goals \subseteq Steps
    /\ MaxStarts \in Nat

\* A batch as the pool sees it; invalid groups are among the others.
Batch == {b \in [groups : Groups, zeros : SUBSET Task] : b.zeros \subseteq b.groups}

Pool == [streak : [Task -> Nat], admitted : SUBSET Task]

EmptyPool == [streak |-> [t \in Task |-> 0], admitted |-> {}]

\* Files are told apart from their contents.
ASSUME FilesAssumption ==
    /\ NoFile # Torn
    /\ NoFile \notin Seq(Batch) \cup Pool \cup Nat
    /\ Torn \notin Seq(Batch) \cup Pool \cup Nat
    /\ NoBatch \notin Batch

VARIABLES
    phase,      \* where the process is, or "down"
    goal,       \* run_until_step
    step,       \* global_steps
    model,      \* the batches the actor was trained on
    data,       \* batches the dataloader has handed out
    pool,       \* hard_case_pool
    current,    \* the batch that was rolled out and not yet trained on
    poolFile,   \* hard_case_pool.json
    actors,     \* global_step_<n>/actor
    datas,      \* global_step_<n>/data.pt
    pools,      \* global_step_<n>/hard_case_pool_state.json
    rngs,       \* global_step_<n>/rng_state.pt
    tracker,    \* latest_checkpointed_iteration.txt
    starts,     \* processes started so far
    inherited   \* a run from scratch found a pool of an earlier run (history)

process == <<phase, goal, step, model, data, pool, current>>
folders == <<actors, datas, pools, rngs>>
disk    == <<poolFile, folders, tracker>>
history == <<starts, inherited>>
vars    == <<process, disk, history>>

Up == phase # "down"

-----------------------------------------------------------------------------

\* Mutant: a task is admitted one group too late.
ObserveLate(b) ==
    LET streak == [t \in Task |-> IF t \notin b.groups THEN pool.streak[t]
                                  ELSE IF t \in b.zeros THEN pool.streak[t] + 1
                                  ELSE 0]
    IN  [streak   |-> streak,
         admitted |-> pool.admitted
                        \cup {t \in b.zeros : streak[t] > Threshold}]

\* observe_group, for every group of the batch.
Observe(b) ==
    LET streak == [t \in Task |-> IF t \notin b.groups THEN pool.streak[t]
                                  ELSE IF t \in b.zeros THEN pool.streak[t] + 1
                                  ELSE 0]
    IN  [streak   |-> streak,
         admitted |-> pool.admitted
                        \cup {t \in b.zeros : streak[t] >= Threshold}]

\* The process is gone, and with it everything in memory.
Down ==
    /\ phase' = "down"
    /\ goal' = 0
    /\ step' = 0
    /\ model' = <<>>
    /\ data' = 0
    /\ pool' = EmptyPool
    /\ current' = NoBatch

Init ==
    /\ phase = "down"
    /\ goal = 0
    /\ step = 0
    /\ model = <<>>
    /\ data = 0
    /\ pool = EmptyPool
    /\ current = NoBatch
    /\ poolFile = NoFile
    /\ actors = [n \in Steps |-> NoFile]
    /\ datas = [n \in Steps |-> NoFile]
    /\ pools = [n \in Steps |-> NoFile]
    /\ rngs = [n \in Steps |-> NoFile]
    /\ tracker = NoFile
    /\ starts = 0
    /\ inherited = FALSE

\* No checkpoint was ever completed.  The pool's constructor has already read
\* the pool's own file.
StartFromScratch(g) ==
    /\ phase = "down"
    /\ tracker = NoFile
    /\ starts < MaxStarts
    /\ starts' = starts + 1
    /\ phase' = "rollout"
    /\ goal' = g
    /\ step' = 1
    /\ pool' = IF poolFile = NoFile THEN EmptyPool ELSE poolFile
    /\ inherited' = (inherited \/ poolFile # NoFile)
    /\ UNCHANGED <<model, data, current, disk>>

\* _load_checkpoint raises unless every file of the folder is there.
Loadable(n) ==
    /\ actors[n] \notin {NoFile, Torn}
    /\ datas[n] \notin {NoFile, Torn}
    /\ pools[n] \notin {NoFile, Torn}
    /\ rngs[n] \notin {NoFile, Torn}

\* The process finds the folder the tracker names and counts from its number.
Resuming(g) ==
    /\ phase = "down"
    /\ tracker \in Steps
    /\ Loadable(tracker)
    /\ tracker < g
    /\ starts < MaxStarts
    /\ starts' = starts + 1
    /\ phase' = "rollout"
    /\ goal' = g
    /\ step' = tracker + 1
    /\ UNCHANGED <<current, disk, inherited>>

\* Mutant: the pool stays what its constructor read.
ResumeWithOwnPool(g) ==
    /\ Resuming(g)
    /\ model' = actors[tracker]
    /\ data' = datas[tracker]
    /\ pool' = IF poolFile = NoFile THEN EmptyPool ELSE poolFile

\* Mutant: the newest actor on disk is loaded, not the one the tracker names.
ResumeNewest(g) ==
    /\ Resuming(g)
    /\ \E n \in Steps :
         /\ actors[n] \notin {NoFile, Torn}
         /\ \A o \in Steps : actors[o] \notin {NoFile, Torn} => o <= n
         /\ model' = actors[n]
    /\ data' = datas[tracker]
    /\ pool' = pools[tracker]

\* A process whose goal is already reached returns at once.
Resume(g) ==
    /\ Resuming(g)
    /\ model' = actors[tracker]
    /\ data' = datas[tracker]
    /\ pool' = pools[tracker]

\* A batch is fetched and rolled out; the pool observes it and is persisted.
Rollout(b) ==
    /\ phase = "rollout"
    /\ phase' = "update"
    /\ data' = data + 1
    /\ current' = b
    /\ pool' = Observe(b)
    /\ poolFile' = pool'
    /\ UNCHANGED <<goal, step, model, folders, tracker, history>>

SavesNow == step \in SaveAt \/ step >= goal

Update ==
    /\ phase = "update"
    /\ model' = Append(model, current)
    /\ current' = NoBatch
    /\ phase' = IF SavesNow THEN "actor" ELSE "ended"
    /\ UNCHANGED <<goal, step, data, pool, disk, history>>

-----------------------------------------------------------------------------
(* _save_checkpoint *)

\* Mutant: the tracker names the folder as soon as the actor is in it.
SaveActorFirst ==
    /\ phase = "actor"
    /\ actors' = [actors EXCEPT ![step] = model]
    /\ tracker' = step
    /\ phase' = "data"
    /\ UNCHANGED <<goal, step, model, data, pool, current, poolFile, datas,
                   pools, rngs, history>>

SaveActor ==
    /\ phase = "actor"
    /\ actors' = [actors EXCEPT ![step] = model]
    /\ phase' = "data"
    /\ UNCHANGED <<goal, step, model, data, pool, current, poolFile, datas,
                   pools, rngs, tracker, history>>

SaveData ==
    /\ phase = "data"
    /\ datas' = [datas EXCEPT ![step] = data]
    /\ phase' = "pool"
    /\ UNCHANGED <<goal, step, model, data, pool, current, poolFile, actors,
                   pools, rngs, tracker, history>>

\* Through a temporary file.
SavePool ==
    /\ phase = "pool"
    /\ pools' = [pools EXCEPT ![step] = pool]
    /\ phase' = "rng"
    /\ UNCHANGED <<goal, step, model, data, pool, current, poolFile, actors,
                   datas, rngs, tracker, history>>

\* A failure to save the random state is only printed.
SaveRng ==
    /\ phase = "rng"
    /\ \/ rngs' = [rngs EXCEPT ![step] = step]
       \/ rngs' = [rngs EXCEPT ![step] = Torn]
       \/ rngs' = rngs
    /\ phase' = "tracker"
    /\ UNCHANGED <<goal, step, model, data, pool, current, poolFile, actors,
                   datas, pools, tracker, history>>

\* open(..., "w") truncates the tracker before it is written.
TruncateTracker ==
    /\ phase = "tracker"
    /\ tracker' = Torn
    /\ phase' = "closing"
    /\ UNCHANGED <<goal, step, model, data, pool, current, poolFile, folders,
                   history>>

WriteTracker ==
    /\ phase = "closing"
    /\ tracker' = step
    /\ phase' = "ended"
    /\ UNCHANGED <<goal, step, model, data, pool, current, poolFile, folders,
                   history>>

-----------------------------------------------------------------------------

EndStep ==
    /\ phase = "ended"
    /\ IF step >= goal
         THEN Down
         ELSE /\ phase' = "rollout"
              /\ step' = step + 1
              /\ UNCHANGED <<goal, model, data, pool, current>>
    /\ UNCHANGED <<disk, history>>

Crash == Up /\ Down /\ UNCHANGED <<disk, history>>

\* A crash, or a full disk, in the middle of a file that is written in place.
CrashWriting ==
    /\ \/ /\ phase = "actor"
          /\ actors' = [actors EXCEPT ![step] = Torn]
          /\ UNCHANGED datas
       \/ /\ phase = "data"
          /\ datas' = [datas EXCEPT ![step] = Torn]
          /\ UNCHANGED actors
    /\ Down
    /\ UNCHANGED <<poolFile, pools, rngs, tracker, history>>

Next ==
    \/ \E g \in Goals : StartFromScratch(g)
    \/ \E g \in Goals : Resume(g)
    \/ \E b \in Batch : Rollout(b)
    \/ Update
    \/ SaveActor
    \/ SaveData
    \/ SavePool
    \/ SaveRng
    \/ TruncateTracker
    \/ WriteTracker
    \/ EndStep
    \/ Crash
    \/ CrashWriting

Spec == Init /\ [][Next]_vars

-----------------------------------------------------------------------------
(* Properties *)

Phase == {"down", "rollout", "update", "actor", "data", "pool", "rng",
          "tracker", "closing", "ended"}

File(S) == S \cup {NoFile, Torn}

\* Every variable stays in the range the code gives it.
TypeOK ==
    /\ phase \in Phase
    /\ goal \in 0..MaxSteps
    /\ step \in 0..MaxSteps
    /\ model \in Seq(Batch)
    /\ data \in Nat
    /\ pool \in Pool
    /\ current \in Batch \cup {NoBatch}
    /\ poolFile \in Pool \cup {NoFile}
    /\ actors \in [Steps -> File(Seq(Batch))]
    /\ datas \in [Steps -> File(Nat)]
    /\ pools \in [Steps -> Pool \cup {NoFile}]
    /\ rngs \in [Steps -> File(Steps)]
    /\ tracker \in File(Steps)
    /\ starts \in 0..MaxStarts
    /\ inherited \in BOOLEAN

\* The batches this run has rolled out, the one in training included.
Observed == IF phase = "update" THEN Append(model, current) ELSE model

\* The consecutive zero groups of t a history ends with.
Streak(t, s) ==
    Cardinality({i \in DOMAIN s :
                   /\ t \in s[i].groups
                   /\ \A j \in i..Len(s) : t \in s[j].groups => t \in s[j].zeros})

\* The tasks that had Threshold zero groups in a row at some time.
HardCases(s) ==
    {t \in Task : \E n \in 1..Len(s) : Streak(t, SubSeq(s, 1, n)) >= Threshold}

\* Step counter, model and dataloader always belong together: a resumed run
\* trains on the batch after the last one its model has seen, whichever file
\* of a checkpoint a crash interrupted and however often it was saved again.
InStep ==
    Up => /\ data = Len(Observed)
          /\ step = Len(model) + (IF phase \in {"rollout", "update"} THEN 1 ELSE 0)

\* The checkpoint the tracker names is complete, and its parts belong together.
TrackedIsWhole ==
    tracker \in Steps =>
      /\ actors[tracker] \in Seq(Batch) /\ Len(actors[tracker]) = tracker
      /\ datas[tracker] = tracker
      /\ pools[tracker] \in Pool

\* "Resume reproduces the zero-group streak exactly": what the pool says is
\* what the batches of this model say, unless a run from scratch inherited the
\* pool of one that died.
ResumeIsExact ==
    Up /\ ~inherited =>
      /\ pool.streak = [t \in Task |-> Streak(t, Observed)]
      /\ pool.admitted = HardCases(Observed)

\* No hard case is ever missed, not even after crashes between the pool's
\* file, the checkpoint and the tracker.
NoHardCaseMissed ==
    Up => /\ \A t \in Task : pool.streak[t] >= Streak(t, Observed)
          /\ HardCases(Observed) \subseteq pool.admitted

\* No process works behind a checkpoint that was completed, and none writes
\* into the folder the tracker names.
AheadOfTheTracker ==
    Up /\ tracker \in Steps => tracker < step \/ (phase = "ended" /\ tracker = step)

\* To those who restart it, the run looks as if checkpoints were atomic.
SavedModel == CASE tracker = NoFile   -> <<>>
                [] tracker = Torn     -> Torn
                [] tracker \in Steps  -> actors[tracker]

Atomic == INSTANCE AtomicTraining
            WITH running <- Up, saved <- SavedModel, Unreadable <- Torn

CheckpointsAreAtomic == Atomic!Spec

\* checkpoint_manager.py: the tracker file "records the latest checkpoint
\* during training to restart from".  A
\* crash while it is rewritten, or a random state that could not be saved,
\* leaves nothing to restart from; no run checks this, and TLC violates it as
\* an INVARIANT of MCTrainerCheckpoint.cfg.
TrackerCanBeRestartedFrom ==
    ~Up => tracker = NoFile \/ (tracker \in Steps /\ Loadable(tracker))

=============================================================================
