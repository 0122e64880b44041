--------------------------- MODULE ShutdownWatcher ---------------------------
(***************************************************************************)
(* scripts/grpo_shutdown_watcher.py beside the training it watches.        *)
(*                                                                         *)
(* train_grpo.sh starts a training process and a watcher that polls it; an *)
(* operator may start others, or restart the training, at any time.  When  *)
(* the watched process is gone the watcher judges the files left behind,   *)
(* writes a report and, if armed, powers the machine off.                  *)
(*                                                                         *)
(* A process is its start (PID and start ticks).  The training is          *)
(* TrainerCheckpoint without tasks, with the generation dumps the watcher  *)
(* looks for; task kind "validation" is left out.  Polling, grace and delay are   *)
(* longer than zero and otherwise arbitrary; heartbeats, logs and the      *)
(* contents of the snapshot are left out.                                  *)
(***************************************************************************)
EXTENDS Integers, Sequences, FiniteSets

CONSTANTS
    Watcher,       \* watcher processes
    ExpectedStep,  \* --expected-step
    NoReport,      \* no report file
    MaxSteps, SaveAt, Goals, MaxStarts, NoFile, Torn, NoBatch

VARIABLES
    phase, goal, step, model, data, pool, current, poolFile, actors, datas,
    pools, rngs, tracker, starts, inherited,
    rollouts,      \* steps with a rollout dump
    validations,   \* steps with a validation dump
    kind,          \* --task-kind; validation is disabled or not
    mode,          \* where each watcher's main() is
    target,        \* the start each watcher watches
    armed,         \* --arm
    stop,          \* STOP_REQUESTED, and whether it came before the report
    report,        \* the report file
    power,         \* the machine
    misread        \* starts whose /proc could not be read once (history)

Training == INSTANCE TrainerCheckpoint
              WITH Task <- {}, Groups <- {{}}, Threshold <- 1

trainer  == <<phase, goal, step, model, data, pool, current, poolFile, actors,
              datas, pools, rngs, tracker, starts, inherited>>
training == <<trainer, rollouts, validations, kind>>
watchers == <<mode, target, armed, stop, report, misread>>
vars     == <<training, watchers, power>>

Running(n) == Training!Up /\ starts = n

\* What a report says, as far as anyone acts on it.
Reports == [target : Nat, success : BOOLEAN, requested : BOOLEAN,
            cancelled : BOOLEAN]

ASSUME WatcherAssumption ==
    /\ MaxSteps \in Nat \ {0}
    /\ ExpectedStep \in 1..MaxSteps
    /\ SaveAt \subseteq 1..MaxSteps
    /\ Goals \subseteq 1..MaxSteps
    /\ MaxStarts \in Nat
    /\ NoReport \notin Reports

\* As in TrainerCheckpoint: files are told apart from their contents.
ASSUME FilesAssumption ==
    /\ NoFile # Torn
    /\ NoFile \notin Seq(Training!Batch) \cup Training!Pool \cup Nat
    /\ Torn \notin Seq(Training!Batch) \cup Training!Pool \cup Nat
    /\ NoBatch \notin Training!Batch

-----------------------------------------------------------------------------

Init ==
    /\ Training!Init
    /\ rollouts = {}
    /\ validations = {}
    /\ kind \in {"training", "training_no_validation"}
    /\ mode = [w \in Watcher |-> "off"]
    /\ target = [w \in Watcher |-> 0]
    /\ armed = [w \in Watcher |-> FALSE]
    /\ stop = [w \in Watcher |-> "no"]
    /\ report = NoReport
    /\ power = "on"
    /\ misread = {}

(* The training *)

\* Validation follows the checkpoint of a milestone and of the last step.
Validates == kind = "training" /\ (step \in SaveAt \/ step >= goal)

\* A step dumps its rollouts before its checkpoint and its validation after.
TrainingStep ==
    /\ power # "off"
    /\ Training!Next
    /\ Training!SaveActor => step \in rollouts
    /\ Training!EndStep => /\ step \in rollouts
                           /\ Validates => step \in validations
    /\ UNCHANGED <<rollouts, validations, kind, watchers, power>>

DumpRollout ==
    /\ power # "off"
    /\ phase = (IF Training!SavesNow THEN "actor" ELSE "ended")
    /\ rollouts' = rollouts \cup {step}
    /\ UNCHANGED <<trainer, validations, kind, watchers, power>>

DumpValidation ==
    /\ power # "off"
    /\ phase = "ended"
    /\ Validates
    /\ validations' = validations \cup {step}
    /\ UNCHANGED <<trainer, rollouts, kind, watchers, power>>

-----------------------------------------------------------------------------
(* The watcher *)

Active(w) == mode[w] # "off"

Goto(w, m) ==
    /\ mode' = [mode EXCEPT ![w] = m]
    /\ UNCHANGED <<target, armed, stop>>

\* The process is gone; the kernel releases its lock.
Leave(w) ==
    /\ mode' = [mode EXCEPT ![w] = "off"]
    /\ target' = [target EXCEPT ![w] = 0]
    /\ armed' = [armed EXCEPT ![w] = FALSE]
    /\ stop' = [stop EXCEPT ![w] = "no"]

\* Mutant: the lock file is not locked.
StartUnlocked(w) ==
    /\ power # "off"
    /\ ~Active(w)
    /\ Training!Up
    /\ mode' = [mode EXCEPT ![w] = "watching"]
    /\ target' = [target EXCEPT ![w] = starts]
    /\ \E a \in BOOLEAN : armed' = [armed EXCEPT ![w] = a]
    /\ UNCHANGED <<training, stop, report, misread, power>>

\* main() up to its loop: the target must be there, the lock must be free.
Start(w) ==
    /\ power # "off"
    /\ ~Active(w)
    /\ Training!Up
    /\ \A v \in Watcher : ~Active(v)
    /\ mode' = [mode EXCEPT ![w] = "watching"]
    /\ target' = [target EXCEPT ![w] = starts]
    /\ \E a \in BOOLEAN : armed' = [armed EXCEPT ![w] = a]
    /\ UNCHANGED <<training, stop, report, misread, power>>

\* Mutant: the start time of the process is not compared.
SamePid(w) == Training!Up

\* same_process, where /proc can be read.
SameProcess(w) == Running(target[w])

\* A stop is looked at once per poll while the target lives.
CancelWatching(w) ==
    /\ mode[w] = "watching"
    /\ SameProcess(w)
    /\ stop[w] # "no"
    /\ Leave(w)
    /\ UNCHANGED <<training, report, misread, power>>

SeeExit(w) ==
    /\ mode[w] = "watching"
    /\ ~SameProcess(w)
    /\ Goto(w, "grace")
    /\ UNCHANGED <<training, report, misread, power>>

\* process_identity answers an OSError with a record without start ticks,
\* which same_process takes for another process.
MisreadIdentity(w) ==
    /\ mode[w] = "watching"
    /\ SameProcess(w)
    /\ misread' = misread \cup {target[w]}
    /\ Goto(w, "grace")
    /\ UNCHANGED <<training, report, power>>

\* nonempty: half a file is one too.
NonEmpty(f) == f # NoFile

\* Mutant: the marker of the latest checkpoint is not compared.
FilesOnly ==
    /\ NonEmpty(actors[ExpectedStep])
    /\ NonEmpty(datas[ExpectedStep])
    /\ NonEmpty(rngs[ExpectedStep])
    /\ kind = "training" => ExpectedStep \in validations
    /\ ExpectedStep \in rollouts

\* grpo_artifact_status; a torn marker reads as no step.
Complete ==
    /\ tracker = ExpectedStep
    /\ NonEmpty(actors[ExpectedStep])
    /\ NonEmpty(datas[ExpectedStep])
    /\ NonEmpty(rngs[ExpectedStep])
    /\ kind = "training" => ExpectedStep \in validations
    /\ ExpectedStep \in rollouts

NewReport(w) == [target |-> target[w], success |-> Complete,
                 requested |-> FALSE, cancelled |-> FALSE]

\* Mutant: with a delay of zero a stop is never looked at again.
ReportWithoutDelay(w) ==
    /\ mode[w] = "grace"
    /\ report' = NewReport(w)
    /\ IF armed[w] THEN Goto(w, "delay") ELSE Leave(w)
    /\ UNCHANGED <<training, misread, power>>

\* After the grace period; a watcher that is not armed is done.
Report(w) ==
    /\ mode[w] = "grace"
    /\ report' = NewReport(w)
    /\ IF armed[w] THEN Goto(w, "armed") ELSE Leave(w)
    /\ UNCHANGED <<training, misread, power>>

\* Mutant: the stop is noted in the report and the loop goes on.
CancelDelayWithoutReturn(w) ==
    /\ mode[w] \in {"armed", "delay"}
    /\ stop[w] # "no"
    /\ report' = [report EXCEPT !.cancelled = TRUE]
    /\ Goto(w, "delay")
    /\ UNCHANGED <<training, misread, power>>

\* The delay loop looks for a stop at once and then every second.
CancelDelay(w) ==
    /\ mode[w] \in {"armed", "delay"}
    /\ stop[w] # "no"
    /\ report' = [report EXCEPT !.cancelled = TRUE]
    /\ Leave(w)
    /\ UNCHANGED <<training, misread, power>>

EnterDelay(w) ==
    /\ mode[w] = "armed"
    /\ stop[w] = "no"
    /\ Goto(w, "delay")
    /\ UNCHANGED <<training, report, misread, power>>

\* The deadline has passed: no stop is looked at any more.
RequestPowerOff(w) ==
    /\ mode[w] = "delay"
    /\ report' = [report EXCEPT !.requested = TRUE]
    /\ Goto(w, "poweroff")
    /\ UNCHANGED <<training, misread, power>>

\* One of the commands is accepted, or all of them fail.
PowerOff(w) ==
    /\ mode[w] = "poweroff"
    /\ power' \in {"on", "going"}
    /\ Leave(w)
    /\ UNCHANGED <<training, report, misread>>

WatcherStep(w) ==
    \/ CancelWatching(w)
    \/ SeeExit(w)
    \/ Report(w)
    \/ CancelDelay(w)
    \/ EnterDelay(w)
    \/ RequestPowerOff(w)
    \/ PowerOff(w)

\* request_stop, on SIGTERM or SIGINT.
Signal(w) ==
    /\ Active(w)
    /\ stop[w] = "no"
    /\ stop' = [stop EXCEPT ![w] =
                  IF mode[w] \in {"watching", "grace"} THEN "early" ELSE "late"]
    /\ UNCHANGED <<training, mode, target, armed, report, misread, power>>

\* SIGKILL.
Kill(w) ==
    /\ Active(w)
    /\ Leave(w)
    /\ UNCHANGED <<training, report, misread, power>>

\* Everything in memory is gone, the disk stays.
MachineOff ==
    /\ power = "going"
    /\ power' = "off"
    /\ IF Training!Up THEN Training!Crash ELSE UNCHANGED trainer
    /\ mode' = [w \in Watcher |-> "off"]
    /\ target' = [w \in Watcher |-> 0]
    /\ armed' = [w \in Watcher |-> FALSE]
    /\ stop' = [w \in Watcher |-> "no"]
    /\ UNCHANGED <<rollouts, validations, kind, report, misread>>

Next ==
    \/ TrainingStep
    \/ DumpRollout
    \/ DumpValidation
    \/ \E w \in Watcher :
         \/ Start(w)
         \/ WatcherStep(w)
         \/ MisreadIdentity(w)
         \/ Signal(w)
         \/ Kill(w)
    \/ MachineOff

\* Sleeps end and commands time out, so a running watcher takes its next step.
\* Nothing is asked of the training.
Spec ==
    /\ Init
    /\ [][Next]_vars
    /\ \A w \in Watcher : WF_vars(WatcherStep(w))

-----------------------------------------------------------------------------
(* Properties *)

\* A report of success is never about half a checkpoint: when it is written,
\* the step's model and dataloader are whole, although the watcher only looks
\* for files that are not empty, and although a later process may have begun
\* to write the same folders again.
SuccessIsCheckpointed ==
    [][\A w \in Watcher : Report(w) /\ report'.success =>
         /\ actors[ExpectedStep] \in Seq(Training!Batch)
         /\ Len(actors[ExpectedStep]) = ExpectedStep
         /\ datas[ExpectedStep] = ExpectedStep]_vars

\* "record_then_poweroff_after_any_target_exit": the machine is told to go off
\* only while an armed watcher's report says so and was not cancelled, and only
\* if the process that report is about is gone or its /proc was unreadable.
PowerOffIsJustified ==
    [][power = "on" /\ power' = "going" =>
         /\ report # NoReport
         /\ report.requested /\ ~report.cancelled
         /\ Running(report.target) => report.target \in misread]_vars

\* A stop that comes before the report, the grace period included, keeps that
\* watcher from powering the machine off.
EarlyStopIsHonoured ==
    \A w \in Watcher : stop[w] = "early" => mode[w] # "poweroff"

\* Only one watcher writes the report: what a watcher is about to act on is
\* the report it wrote itself.
ActsOnItsOwnReport ==
    \A w \in Watcher : mode[w] \in {"armed", "delay", "poweroff"} =>
      /\ armed[w]
      /\ report.target = target[w]
      /\ report.requested <=> mode[w] = "poweroff"

\* Every exit of a watched process is noticed, also when a new one took its
\* place before the next poll: a report about it is written or the watcher ends.
EveryExitIsRecorded ==
    \A w \in Watcher : \A n \in 1..MaxStarts :
      mode[w] = "watching" /\ target[w] = n /\ ~Running(n)
        ~> ~Active(w) \/ (report # NoReport /\ report.target = n)

\* grpo_shutdown_watcher.py:325: on a signal, "watcher cancelled without
\* powering off".  After the deadline of its delay it powers off all the same;
\* no run checks this, and TLC violates it as an INVARIANT of
\* MCShutdownWatcher.cfg.
CancelledMeansNoPowerOff ==
    \A w \in Watcher : stop[w] # "no" => mode[w] # "poweroff"

=============================================================================
