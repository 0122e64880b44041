------------------------ MODULE ShutdownWatcherProofs ------------------------
(***************************************************************************)
(* Why a power-off is justified, for any number of watchers, trainings and *)
(* restarts.                                                               *)
(***************************************************************************)
EXTENDS ShutdownWatcher, TLAPS

USE WatcherAssumption

Modes == {"off", "watching", "grace", "armed", "delay", "poweroff"}

\* The variables of the watchers by themselves, and the number of starts.
WatchersTyped ==
    /\ mode \in [Watcher -> Modes]
    /\ target \in [Watcher -> Nat]
    /\ armed \in [Watcher -> BOOLEAN]
    /\ stop \in [Watcher -> {"no", "early", "late"}]
    /\ report \in Reports \cup {NoReport}
    /\ misread \subseteq Nat
    /\ starts \in Nat

\* The lock file: one watcher at a time.  One that is off wants nothing.
OneWatcher ==
    /\ \A v, w \in Watcher : Active(v) /\ Active(w) => v = w
    /\ \A w \in Watcher : ~Active(w) => stop[w] = "no"

\* Nobody watches a process that was not started yet.
TargetsWereStarted == \A w \in Watcher : target[w] <= starts

\* A stop of the grace period is met by the first look of the delay loop.
EarlyStopComesFirst ==
    \A w \in Watcher : mode[w] \in {"delay", "poweroff"} => stop[w] # "early"

\* Past the loop the watched process is gone, or was taken to be.
TargetIsGone ==
    \A w \in Watcher : mode[w] \in {"grace", "armed", "delay", "poweroff"} =>
      ~Running(target[w]) \/ target[w] \in misread

\* What a watcher acts on is its own report, which nobody cancelled.
HoldsItsReport ==
    \A w \in Watcher : mode[w] \in {"armed", "delay", "poweroff"} =>
      /\ armed[w]
      /\ report # NoReport
      /\ report.target = target[w]
      /\ report.requested <=> mode[w] = "poweroff"
      /\ ~report.cancelled

WatchInv ==
    /\ WatchersTyped
    /\ OneWatcher
    /\ TargetsWereStarted
    /\ EarlyStopComesFirst
    /\ TargetIsGone
    /\ HoldsItsReport

-----------------------------------------------------------------------------
(* The training, as a watcher sees it. *)

\* A process that is gone never comes back: what runs later is another start.
LEMMA GoneForEver ==
    ASSUME starts \in Nat, [Training!Next]_trainer
    PROVE  /\ starts' \in Nat
           /\ starts <= starts'
           /\ \A n \in 0..starts : ~Running(n) => ~Running(n)'
<1> USE DEF Running, Training!Up
<1>1. ASSUME NEW g \in Goals, Training!StartFromScratch(g) \/ Training!Resume(g)
      PROVE  starts' = starts + 1
    BY <1>1 DEF Training!StartFromScratch, Training!Resume, Training!Resuming
<1>2. CASE \/ \E b \in Training!Batch : Training!Rollout(b)
           \/ Training!Update
           \/ Training!SaveActor
           \/ Training!SaveData
           \/ Training!SavePool
           \/ Training!SaveRng
           \/ Training!TruncateTracker
           \/ Training!WriteTracker
    BY <1>2 DEF Training!Rollout, Training!Update, Training!SaveActor,
        Training!SaveData, Training!SavePool, Training!SaveRng,
        Training!TruncateTracker, Training!WriteTracker, Training!history
<1>3. CASE \/ Training!EndStep
           \/ Training!Crash
           \/ Training!CrashWriting
    BY <1>3 DEF Training!EndStep, Training!Crash, Training!CrashWriting,
        Training!Down, Training!history
<1>4. CASE UNCHANGED trainer
    BY <1>4 DEF trainer
<1> QED
    BY <1>1, <1>2, <1>3, <1>4 DEF Training!Next

\* Whatever happens beside it, the training takes its own steps only.
LEMMA TrainingSteps == [Next]_vars => [Training!Next]_trainer
<1> SUFFICES ASSUME [Next]_vars
             PROVE  [Training!Next]_trainer
    OBVIOUS
<1>1. CASE TrainingStep
    BY <1>1 DEF TrainingStep
<1>2. CASE DumpRollout \/ DumpValidation
    BY <1>2 DEF DumpRollout, DumpValidation
<1>3. ASSUME NEW w \in Watcher,
             Start(w) \/ WatcherStep(w) \/ MisreadIdentity(w) \/ Signal(w) \/ Kill(w)
      PROVE  UNCHANGED trainer
    BY <1>3 DEF Start, WatcherStep, MisreadIdentity, Signal, Kill, CancelWatching,
        SeeExit, Report, CancelDelay, EnterDelay, RequestPowerOff, PowerOff, training
<1>4. CASE MachineOff
    BY <1>4 DEF MachineOff, Training!Next
<1>5. CASE UNCHANGED vars
    BY <1>5 DEF vars, training
<1> QED
    BY <1>1, <1>2, <1>3, <1>4, <1>5 DEF Next

-----------------------------------------------------------------------------
(* The watchers. *)

LEMMA InitWatch == Init => WatchInv
BY DEF Init, Training!Init, WatchInv, WatchersTyped, Modes, OneWatcher, Active,
       TargetsWereStarted, EarlyStopComesFirst, TargetIsGone, HoldsItsReport

LEMMA TrainingKeepsWatch ==
    ASSUME WatchInv, UNCHANGED watchers, [Training!Next]_trainer
    PROVE  WatchInv'
<1> USE DEF WatchInv, watchers
<1>1. /\ starts' \in Nat /\ starts <= starts'
      /\ \A n \in 0..starts : ~Running(n) => ~Running(n)'
    BY GoneForEver DEF WatchersTyped
<1>2. WatchersTyped'
    BY <1>1 DEF WatchersTyped
<1>3. OneWatcher'
    BY DEF OneWatcher, Active
<1>4. \A w \in Watcher : target[w] \in 0..starts
    BY DEF WatchersTyped, TargetsWereStarted
<1>5. TargetsWereStarted'
    BY <1>1, <1>4 DEF WatchersTyped, TargetsWereStarted
<1>6. EarlyStopComesFirst'
    BY DEF EarlyStopComesFirst
<1>7. TargetIsGone'
    <2> SUFFICES ASSUME NEW w \in Watcher, mode[w] \in {"grace", "armed", "delay", "poweroff"}
                 PROVE  ~Running(target[w])' \/ target[w] \in misread
        BY DEF TargetIsGone, Running
    <2> QED
        BY <1>1, <1>4 DEF TargetIsGone, Running
<1>8. HoldsItsReport'
    BY DEF HoldsItsReport
<1> QED
    BY <1>2, <1>3, <1>5, <1>6, <1>7, <1>8

LEMMA NewReportIsReport ==
    ASSUME WatchersTyped, NEW w \in Watcher
    PROVE  NewReport(w) \in Reports
<1>1. Complete \in BOOLEAN
    BY DEF Complete
<1> QED
    BY <1>1 DEF WatchersTyped, NewReport, Reports

\* The invariant is kept by each step of a watcher: it only speaks of other
\* watchers to say that there are none.
LEMMA WatcherKeepsWatch ==
    ASSUME WatchInv, NEW w \in Watcher, UNCHANGED training,
           Start(w) \/ WatcherStep(w) \/ MisreadIdentity(w) \/ Signal(w) \/ Kill(w)
    PROVE  WatchInv'
<1> USE DEF WatchInv
<1>1. \A n : Running(n)' <=> Running(n)
    BY DEF training, trainer, Running, Training!Up
<1>2. starts' = starts
    BY DEF training, trainer
<1>3. CASE Leave(w) /\ UNCHANGED misread /\ report' \in Reports \cup {NoReport}
           /\ Active(w)
    BY <1>1, <1>2, <1>3 DEF Leave, Active, WatchersTyped, Modes, OneWatcher,
        TargetsWereStarted, EarlyStopComesFirst, TargetIsGone, HoldsItsReport
<1>4. CASE Start(w)
    BY <1>1, <1>2, <1>4 DEF Start, Active, WatchersTyped, Modes, OneWatcher,
        TargetsWereStarted, EarlyStopComesFirst, TargetIsGone, HoldsItsReport
<1>5. CASE CancelWatching(w)
    BY <1>3, <1>5 DEF CancelWatching, Active, WatchersTyped
<1>6. CASE SeeExit(w)
    BY <1>1, <1>2, <1>6 DEF SeeExit, SameProcess, Goto, Active, WatchersTyped,
        Modes, OneWatcher, TargetsWereStarted, EarlyStopComesFirst,
        TargetIsGone, HoldsItsReport
<1>7. CASE MisreadIdentity(w)
    <2>1. WatchersTyped'
        BY <1>2, <1>7 DEF MisreadIdentity, Goto, WatchersTyped, Modes
    <2>2. TargetIsGone'
        BY <1>1, <1>7 DEF MisreadIdentity, Goto, WatchersTyped, TargetIsGone
    <2>3. OneWatcher' /\ TargetsWereStarted' /\ EarlyStopComesFirst'
        BY <1>2, <1>7 DEF MisreadIdentity, Goto, Active, WatchersTyped,
            OneWatcher, TargetsWereStarted, EarlyStopComesFirst
    <2>4. HoldsItsReport'
        BY <1>7 DEF MisreadIdentity, Goto, WatchersTyped, HoldsItsReport
    <2> QED
        BY <2>1, <2>2, <2>3, <2>4
<1>8. CASE Report(w)
    <2>1. report' \in Reports
        BY <1>8, NewReportIsReport DEF Report
    <2>2. CASE Leave(w)
        BY <1>3, <1>8, <2>1, <2>2 DEF Report, Active
    <2>3. CASE armed[w] /\ Goto(w, "armed")
        BY <1>1, <1>2, <1>8, <2>1, <2>3 DEF Report, NewReport, Goto, Active,
            WatchersTyped, Modes, OneWatcher, TargetsWereStarted,
            EarlyStopComesFirst, TargetIsGone, HoldsItsReport
    <2> QED
        BY <1>8, <2>2, <2>3 DEF Report
<1>9. CASE CancelDelay(w)
    <2>1. report \in Reports
        BY <1>9 DEF CancelDelay, HoldsItsReport, WatchersTyped
    <2>2. report' \in Reports
        BY <1>9, <2>1 DEF CancelDelay, Reports
    <2> QED
        BY <1>3, <1>9, <2>2 DEF CancelDelay, Active
<1>10. CASE EnterDelay(w)
    BY <1>1, <1>2, <1>10 DEF EnterDelay, Goto, Active, WatchersTyped, Modes,
        OneWatcher, TargetsWereStarted, EarlyStopComesFirst, TargetIsGone,
        HoldsItsReport
<1>11. CASE RequestPowerOff(w)
    <2>1. report \in Reports
        BY <1>11 DEF RequestPowerOff, HoldsItsReport, WatchersTyped
    <2>2. /\ report' \in Reports /\ report'.requested
          /\ report'.target = report.target /\ report'.cancelled = report.cancelled
        BY <1>11, <2>1 DEF RequestPowerOff, Reports
    <2>3. WatchersTyped' /\ OneWatcher' /\ TargetsWereStarted'
        BY <1>2, <1>11, <2>2 DEF RequestPowerOff, Goto, Active, WatchersTyped,
            Modes, OneWatcher, TargetsWereStarted
    <2>4. EarlyStopComesFirst' /\ TargetIsGone'
        BY <1>1, <1>11 DEF RequestPowerOff, Goto, WatchersTyped,
            EarlyStopComesFirst, TargetIsGone
    <2>5. \A v \in Watcher \ {w} : mode'[v] = "off"
        BY <1>11 DEF RequestPowerOff, Goto, WatchersTyped, OneWatcher, Active
    <2>6. /\ mode'[w] = "poweroff" /\ armed'[w] /\ report' # NoReport
          /\ report'.target = target'[w] /\ ~report'.cancelled
        BY <1>11, <2>2 DEF RequestPowerOff, Goto, WatchersTyped, HoldsItsReport
    <2>7. HoldsItsReport'
        BY <2>2, <2>5, <2>6 DEF HoldsItsReport
    <2> QED
        BY <2>3, <2>4, <2>7
<1>12. CASE PowerOff(w)
    BY <1>3, <1>12 DEF PowerOff, Active, WatchersTyped
<1>13. CASE Signal(w)
    BY <1>1, <1>2, <1>13 DEF Signal, Active, WatchersTyped, Modes,
        OneWatcher, TargetsWereStarted, EarlyStopComesFirst, TargetIsGone,
        HoldsItsReport
<1>14. CASE Kill(w)
    BY <1>3, <1>14 DEF Kill, WatchersTyped
<1> QED
    BY <1>4, <1>5, <1>6, <1>7, <1>8, <1>9, <1>10, <1>11, <1>12, <1>13, <1>14
       DEF WatcherStep

LEMMA NextWatch == WatchInv /\ [Next]_vars => WatchInv'
<1> SUFFICES ASSUME WatchInv, [Next]_vars
             PROVE  WatchInv'
    OBVIOUS
<1>1. CASE TrainingStep \/ DumpRollout \/ DumpValidation \/ UNCHANGED vars
    <2>1. UNCHANGED watchers
        BY <1>1 DEF TrainingStep, DumpRollout, DumpValidation, vars
    <2> QED
        BY <2>1, TrainingSteps, TrainingKeepsWatch
<1>2. ASSUME NEW w \in Watcher,
             Start(w) \/ WatcherStep(w) \/ MisreadIdentity(w) \/ Signal(w) \/ Kill(w)
      PROVE  WatchInv'
    <2>1. UNCHANGED training
        BY <1>2 DEF Start, WatcherStep, MisreadIdentity, Signal, Kill,
            CancelWatching, SeeExit, Report, CancelDelay, EnterDelay,
            RequestPowerOff, PowerOff
    <2> QED
        BY <1>2, <2>1, WatcherKeepsWatch
<1>3. CASE MachineOff
    <2>1. starts' \in Nat
        BY TrainingSteps, GoneForEver DEF WatchInv, WatchersTyped
    <2> QED
        BY <1>3, <2>1 DEF MachineOff, WatchInv, WatchersTyped, Modes, OneWatcher,
            Active, TargetsWereStarted, EarlyStopComesFirst, TargetIsGone,
            HoldsItsReport
<1> QED
    BY <1>1, <1>2, <1>3 DEF Next

LEMMA WatchAlways == Spec => []WatchInv
BY InitWatch, NextWatch, PTL DEF Spec

\* A stop before the report keeps the watcher from powering the machine off.
THEOREM EarlyStopsCount == Spec => []EarlyStopIsHonoured
<1>1. WatchInv => EarlyStopIsHonoured
    BY DEF WatchInv, EarlyStopComesFirst, EarlyStopIsHonoured
<1> QED
    BY <1>1, WatchAlways, PTL

\* The report a watcher is about to act on is its own.
THEOREM ReportIsOwn == Spec => []ActsOnItsOwnReport
<1>1. WatchInv => ActsOnItsOwnReport
    BY DEF WatchInv, HoldsItsReport, ActsOnItsOwnReport
<1> QED
    BY <1>1, WatchAlways, PTL

\* Only PowerOff sends the machine off, and the invariant holds what it needs:
\* an uncancelled report of this watcher, whose target is gone or was misread.
THEOREM PowerOffJustified == Spec => PowerOffIsJustified
<1> DEFINE Justified ==
        power = "on" /\ power' = "going" =>
          /\ report # NoReport
          /\ report.requested /\ ~report.cancelled
          /\ Running(report.target) => report.target \in misread
<1>1. WatchInv /\ [Next]_vars => [Justified]_vars
    <2> SUFFICES ASSUME WatchInv, Next, power = "on", power' = "going"
                 PROVE  /\ report # NoReport
                        /\ report.requested /\ ~report.cancelled
                        /\ Running(report.target) => report.target \in misread
        OBVIOUS
    <2>1. PICK w \in Watcher : PowerOff(w)
        BY DEF Next, TrainingStep, DumpRollout, DumpValidation, MachineOff, Start,
            WatcherStep, MisreadIdentity, Signal, Kill, CancelWatching, SeeExit,
            Report, CancelDelay, EnterDelay, RequestPowerOff
    <2> QED
        BY <2>1 DEF PowerOff, WatchInv, TargetIsGone, HoldsItsReport
<1> QED
    BY <1>1, WatchAlways, PTL DEF Spec, PowerOffIsJustified

-----------------------------------------------------------------------------
(* The report of a success. *)

Trainer == INSTANCE TrainerCheckpointProofs
             WITH Task <- {}, Groups <- {{}}, Threshold <- 1

\* Watchers and power-offs do nothing to a training that crashes do not.
THEOREM TrainingIsUndisturbed == Spec => Training!Spec
<1>1. Init => Training!Init
    BY DEF Init
<1>2. [Next]_vars => [Training!Next]_(Training!vars)
    BY TrainingSteps DEF trainer, Training!vars, Training!process, Training!disk,
        Training!folders, Training!history
<1> QED
    BY <1>1, <1>2, PTL DEF Spec, Training!Spec


\* The training is TrainerCheckpoint, so what is proved there holds here.  Its
\* definitions, seen through its proofs, are the same.
LEMMA TrainingIsTrainer == Training!Spec => Trainer!Spec
<1>1. Training!Init => Trainer!Init
    BY DEF Training!Init, Trainer!Init, Training!EmptyPool, Trainer!EmptyPool,
           Training!Steps, Trainer!Steps
<1>2. [Training!Next]_(Training!vars) => [Trainer!Next]_(Trainer!vars)
    BY DEF Training!Next, Trainer!Next, Training!vars, Trainer!vars,
        Training!process, Trainer!process, Training!disk, Trainer!disk,
        Training!folders, Trainer!folders, Training!history, Trainer!history,
        Training!Up, Trainer!Up, Training!Batch, Trainer!Batch,
        Training!Steps, Trainer!Steps, Training!EmptyPool, Trainer!EmptyPool,
        Training!Observe, Trainer!Observe, Training!Down, Trainer!Down,
        Training!StartFromScratch, Trainer!StartFromScratch,
        Training!Loadable, Trainer!Loadable, Training!Resuming, Trainer!Resuming,
        Training!Resume, Trainer!Resume, Training!Rollout, Trainer!Rollout,
        Training!SavesNow, Trainer!SavesNow, Training!Update, Trainer!Update,
        Training!SaveActor, Trainer!SaveActor, Training!SaveData, Trainer!SaveData,
        Training!SavePool, Trainer!SavePool, Training!SaveRng, Trainer!SaveRng,
        Training!TruncateTracker, Trainer!TruncateTracker,
        Training!WriteTracker, Trainer!WriteTracker,
        Training!EndStep, Trainer!EndStep, Training!Crash, Trainer!Crash,
        Training!CrashWriting, Trainer!CrashWriting
<1> QED
    BY <1>1, <1>2, PTL DEF Training!Spec, Trainer!Spec

LEMMA NoTaskIsFinite == Trainer!IsFiniteSet({})
<1>1. <<>> \in Seq({})
    OBVIOUS
<1> QED
    BY <1>1 DEF Trainer!IsFiniteSet

\* The checkpoint the tracker names is whole: NamedCheckpointIsWhole, for this
\* training.
LEMMA TrackedAlways == Spec => []Training!TrackedIsWhole
<1>1. Trainer!Spec => []Trainer!TrackedIsWhole
    <2>1. Trainer!Batch = Training!Batch
        BY DEF Trainer!Batch, Training!Batch
    <2>2. Trainer!Pool = Training!Pool
        BY DEF Trainer!Pool, Training!Pool
    <2>3. Trainer!Steps = 1..MaxSteps
        BY DEF Trainer!Steps
    <2> QED
        BY Trainer!NamedCheckpointIsWhole, NoTaskIsFinite, FilesAssumption,
           <2>1, <2>2, <2>3
<1>2. Trainer!TrackedIsWhole => Training!TrackedIsWhole
    BY DEF Trainer!TrackedIsWhole, Training!TrackedIsWhole, Trainer!Steps,
           Training!Steps, Trainer!Batch, Training!Batch, Trainer!Pool, Training!Pool
<1> QED
    BY <1>1, <1>2, TrainingIsUndisturbed, TrainingIsTrainer, PTL

\* The watcher only looks for files that are not empty, but it also compares
\* the tracker, and what the tracker names is whole.
THEOREM SuccessMeansCheckpoint == Spec => SuccessIsCheckpointed
<1> DEFINE Backed ==
        \A w \in Watcher : Report(w) /\ report'.success =>
          /\ actors[ExpectedStep] \in Seq(Training!Batch)
          /\ Len(actors[ExpectedStep]) = ExpectedStep
          /\ datas[ExpectedStep] = ExpectedStep
<1>1. Training!TrackedIsWhole /\ [Next]_vars => [Backed]_vars
    <2> SUFFICES ASSUME Training!TrackedIsWhole, NEW w \in Watcher,
                        Report(w), report'.success
                 PROVE  /\ actors[ExpectedStep] \in Seq(Training!Batch)
                        /\ Len(actors[ExpectedStep]) = ExpectedStep
                        /\ datas[ExpectedStep] = ExpectedStep
        OBVIOUS
    <2>1. Complete
        BY DEF Report, NewReport
    <2> QED
        BY <2>1 DEF Complete, Training!TrackedIsWhole, Training!Steps
<1> QED
    BY <1>1, TrackedAlways, PTL DEF Spec, SuccessIsCheckpointed

=============================================================================
