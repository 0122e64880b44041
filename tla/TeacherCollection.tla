-------------------------- MODULE TeacherCollection --------------------------
(***************************************************************************)
(* Paid Teacher trajectories and the cache that keeps track of them        *)
(* (TeacherCache in src/travel_grpo/collection/teacher_collection.py,      *)
(* driven by the workers of src/travel_grpo/evaluation/eval.py).           *)
(*                                                                         *)
(* Workers are coroutines of one process and share the records in memory;  *)
(* every change is followed by an atomic replacement of the cache file.    *)
(* The process may die at any suspension and the replacement may fail.     *)
(* The experiment tracker a worker reports to may raise, which nothing     *)
(* catches: that worker is gone for the rest of the run.                   *)
(* Between two runs an operator may settle a pass that was left in flight. *)
(*                                                                         *)
(* Trajectories, provenance and statistics are left out: a record is its   *)
(* status.  What the provider did is observed by the history variables     *)
(* paid, settled and answered.                                             *)
(***************************************************************************)
EXTENDS Integers, FiniteSets

CONSTANTS
    Pass,      \* the passes of the task pool (task and pass index)
    Worker,    \* collection_worker coroutines
    LogEvery,  \* TEACHER_TRACKING_LOG_EVERY
    MaxRuns    \* bound on the processes started

ASSUME RunsAssumption == MaxRuns \in Nat /\ LogEvery \in Nat \ {0}

VARIABLES
    running,   \* a collecting process is up
    runs,      \* processes started so far
    disk,      \* status of each pass in the cache file
    memory,    \* cache.records of the process
    queue,     \* pending_queue
    worker,    \* what each worker is doing
    progress,  \* progress_count: passes the process is done with
    paid,      \* requests the provider was sent, per pass (history)
    settled,   \* how many of them an operator has accounted for (history)
    answered   \* the last of them brought a complete pass back (history)

records == <<disk, memory>>
ledger  == <<paid, settled, answered>>
process == <<running, runs, queue>>
vars    == <<process, progress, records, worker, ledger>>

Status == {"none", "in_flight", "error", "success", "invalid", "abandoned"}

Idle       == [phase |-> "idle"]
Killed     == [phase |-> "killed"]
At(ph, p)  == [phase |-> ph, pass |-> p]
Working(w) == worker[w] \notin {Idle, Killed}

ClaimableUnlessDone(status) == status \notin {"success", "invalid", "abandoned"}

\* pending() and claim() leave these statuses alone.
Claimable(status) == status \notin {"success", "in_flight", "invalid", "abandoned"}

-----------------------------------------------------------------------------

\* records[p] = status, then _write(), which may raise.
Record(p, status) ==
    /\ memory' = [memory EXCEPT ![p] = status]
    /\ disk' = memory'

RecordUnsaved(p, status) ==
    /\ memory' = [memory EXCEPT ![p] = status]
    /\ UNCHANGED disk

\* The worker's `finally`: the pass is done and, for every LogEvery-th one and
\* when nothing is left, the tracker is told, outside the worker's `except`.
Finish(w, left) ==
    /\ progress' = progress + 1
    /\ \/ worker' = [worker EXCEPT ![w] = Idle]
       \/ /\ (progress + 1) % LogEvery = 0 \/ left = {}
          /\ worker' = [worker EXCEPT ![w] = Killed]

Init ==
    /\ running = FALSE
    /\ runs = 0
    /\ disk = [p \in Pass |-> "none"]
    /\ memory = disk
    /\ queue = {}
    /\ worker = [w \in Worker |-> Idle]
    /\ progress = 0
    /\ paid = [p \in Pass |-> 0]
    /\ settled = [p \in Pass |-> 0]
    /\ answered = [p \in Pass |-> FALSE]

StartWithoutLoading ==
    /\ ~running
    /\ runs < MaxRuns
    /\ running' = TRUE
    /\ runs' = runs + 1
    /\ memory' = [p \in Pass |-> "none"]
    /\ queue' = Pass
    /\ UNCHANGED <<disk, worker, progress, ledger>>

\* The cache is loaded; --collection-task-limit may select a part of what is
\* pending.
Start ==
    /\ ~running
    /\ runs < MaxRuns
    /\ running' = TRUE
    /\ runs' = runs + 1
    /\ memory' = disk
    /\ queue' \in SUBSET {p \in Pass : Claimable(disk[p])}
    /\ UNCHANGED <<disk, worker, progress, ledger>>

\* A worker takes a pass.  If the claim cannot be written the exception skips
\* the request, not the marker in memory.
Claim(w, p) ==
    /\ running
    /\ worker[w] = Idle
    /\ p \in queue
    /\ queue' = queue \ {p}
    /\ \/ /\ Claimable(memory[p])
          /\ Record(p, "in_flight")
          /\ worker' = [worker EXCEPT ![w] = At("claimed", p)]
          /\ UNCHANGED progress
       \/ /\ Claimable(memory[p])
          /\ RecordUnsaved(p, "in_flight")
          /\ Finish(w, queue')
       \/ /\ ~Claimable(memory[p])
          /\ UNCHANGED records
          /\ Finish(w, queue')
    /\ UNCHANGED <<running, runs, ledger>>

\* The task of a claimed pass is not in the data: a retryable error.
TaskNotLoaded(w) ==
    /\ worker[w].phase = "claimed"
    /\ \/ Record(worker[w].pass, "error")
       \/ RecordUnsaved(worker[w].pass, "error")
    /\ Finish(w, queue)
    /\ UNCHANGED <<process, ledger>>

\* The rollout's first request reaches the provider.
SendRequest(w) ==
    /\ worker[w].phase = "claimed"
    /\ paid' = [paid EXCEPT ![worker[w].pass] = @ + 1]
    /\ worker' = [worker EXCEPT ![w] = At("waiting", worker[w].pass)]
    /\ answered' = [answered EXCEPT ![worker[w].pass] = FALSE]
    /\ UNCHANGED <<process, progress, records, settled>>

\* record_success of a valid trajectory.  Should the write fail, record_error
\* finds the success in memory and leaves it.
RecordSuccess(w) ==
    /\ worker[w].phase = "waiting"
    /\ \/ Record(worker[w].pass, "success")
       \/ RecordUnsaved(worker[w].pass, "success")
    /\ Finish(w, queue)
    /\ answered' = [answered EXCEPT ![worker[w].pass] = TRUE]
    /\ UNCHANGED <<process, paid, settled>>

\* record_success of an invalid trajectory.  rollout() turns each of its own
\* exceptions, a timeout or a lost connection too, into an invalid report.
RecordInvalid(w) ==
    /\ worker[w].phase = "waiting"
    /\ Record(worker[w].pass, "invalid")
    /\ Finish(w, queue)
    /\ \E complete \in BOOLEAN :
         answered' = [answered EXCEPT ![worker[w].pass] = complete]
    /\ UNCHANGED <<process, paid, settled>>

RecordErrorAndDie(w) ==
    /\ worker[w].phase \in {"claimed", "waiting"}
    /\ Record(worker[w].pass, "in_flight")
    /\ worker' = [worker EXCEPT ![w] = At("dead", worker[w].pass)]
    /\ UNCHANGED <<process, progress, ledger>>

\* An exception before rollout() takes over, or of writing an invalid
\* trajectory, leaves the marker to an operator: record_error(retryable=False).
RecordError(w) ==
    /\ worker[w].phase \in {"claimed", "waiting"}
    /\ \/ Record(worker[w].pass, "in_flight")
       \/ RecordUnsaved(worker[w].pass, "in_flight")
    /\ Finish(w, queue)
    /\ UNCHANGED <<process, ledger>>

\* pending_queue.join() returns once every pass is done, and gather() the end of
\* the workers: by itself or with the error of one that was killed.
Stop ==
    /\ running
    /\ queue = {}
    /\ \A w \in Worker : ~Working(w)
    /\ running' = FALSE
    /\ progress' = 0
    /\ worker' = [w \in Worker |-> Idle]
    /\ UNCHANGED <<runs, records, queue, ledger>>

\* The process is killed or cancelled; requests it sent stay sent.
Crash ==
    /\ running
    /\ running' = FALSE
    /\ queue' = {}
    /\ progress' = 0
    /\ worker' = [w \in Worker |-> Idle]
    /\ UNCHANGED <<runs, records, ledger>>

\* reconcile_in_flight, after the operator looked the request up.
Reconcile(p) ==
    /\ ~running
    /\ disk[p] = "in_flight"
    /\ \E status \in {"none", "error"} : disk' = [disk EXCEPT ![p] = status]
    /\ settled' = [settled EXCEPT ![p] = paid[p]]
    /\ UNCHANGED <<process, progress, memory, worker, paid, answered>>

\* abandon_in_flight
Abandon(p) ==
    /\ ~running
    /\ disk[p] = "in_flight"
    /\ disk' = [disk EXCEPT ![p] = "abandoned"]
    /\ UNCHANGED <<process, progress, memory, worker, ledger>>

WorkerStep(w) ==
    \/ \E p \in Pass : Claim(w, p)
    \/ TaskNotLoaded(w)
    \/ SendRequest(w)
    \/ RecordSuccess(w)
    \/ RecordInvalid(w)
    \/ RecordError(w)

Next ==
    \/ Start
    \/ \E w \in Worker : WorkerStep(w)
    \/ Stop
    \/ Crash
    \/ \E p \in Pass : Reconcile(p) \/ Abandon(p)

Spec == Init /\ [][Next]_vars

\* The loop resumes every ready worker; a rollout returns or raises.
Fairness == WF_vars(Stop) /\ \A w \in Worker : WF_vars(WorkerStep(w))

FairSpec == Spec /\ Fairness

-----------------------------------------------------------------------------
(* Properties *)

WorkerState ==
    {Idle, Killed} \cup [phase : {"claimed", "waiting"}, pass : Pass]

\* Every variable stays in the range the code gives it.
TypeOK ==
    /\ running \in BOOLEAN
    /\ runs \in Nat
    /\ disk \in [Pass -> Status]
    /\ memory \in [Pass -> Status]
    /\ queue \subseteq Pass
    /\ worker \in [Worker -> WorkerState]
    /\ progress \in Nat
    /\ paid \in [Pass -> Nat]
    /\ settled \in [Pass -> Nat]
    /\ answered \in [Pass -> BOOLEAN]

\* A pass is never billed a second time unless an operator settled the first:
\* not by another worker, not by a resumed run, not after a failed write.
NoSilentReissue == \A p \in Pass : paid[p] <= settled[p] + 1

\* Whenever the process may die, the file shows every request that was sent
\* and is not settled: a resumed run will leave that pass alone.
SentIsOnDisk ==
    \A p \in Pass : paid[p] > settled[p] => ~Claimable(disk[p])

\* The outcome of a pass, once in the file, is never overwritten, although
\* every write replaces the whole file with one worker's view of it.
OutcomeIsKept ==
    [][\A p \in Pass : disk[p] \in {"success", "invalid", "abandoned"}
                         => disk'[p] = disk[p]]_vars

\* TeacherCache.pending: "invalid means the provider returned a complete pass
\* but the trajectory failed the local protocol/Thinking check".
\* A rollout that timed out is recorded as invalid too; no run checks this, and
\* TLC violates it as an INVARIANT of MCTeacherCollection.cfg.
InvalidWasAnswered ==
    \A p \in Pass : disk[p] = "invalid" => answered[p]

\* eval.py, collection_worker: "Keep a worker alive for an unexpected local error
\* so the remaining queue can still drain": a run that is left alone ends.  A
\* tracker that raises in the worker's finally ends the worker instead; no run
\* checks this, and TLC violates it as a PROPERTY of MCTeacherCollection.cfg.
CollectionEnds == running ~> ~running

\* What does hold: a run that goes on for good has lost every worker to the
\* tracker with passes left, and never to the outcome of a request.
EndsUnlessAllKilled ==
    running ~> \/ ~running
               \/ queue # {} /\ \A w \in Worker : worker[w] = Killed

=============================================================================
