----------------------- MODULE TrainerCheckpointProofs -----------------------
(***************************************************************************)
(* Proofs about checkpoints and resumes, for runs of any length, any       *)
(* checkpoint steps and any number of processes and crashes.               *)
(*                                                                         *)
(* The inductive invariant says of every folder that its files carry its   *)
(* number, of the folder being written which files it already has, and of  *)
(* a running process that it is past the folder the tracker names: what it *)
(* writes, or leaves half written, is never what the tracker points to.    *)
(***************************************************************************)
EXTENDS TrainerCheckpoint, FiniteSetTheorems, TLAPS

\* A file that can be read belongs to the step of its folder.
FilesCarryTheirStep ==
    \A n \in Steps :
      /\ actors[n] \in Seq(Batch) => Len(actors[n]) = n
      /\ datas[n] \in Nat => datas[n] = n

\* What _save_checkpoint has already put into the folder of this step.
WrittenSoFar ==
    /\ phase \in {"data", "pool", "rng", "tracker", "closing"} =>
         actors[step] = model
    /\ phase \in {"pool", "rng", "tracker", "closing"} => datas[step] = data
    /\ phase \in {"rng", "tracker", "closing"} => pools[step] = pool

\* Nothing of a process outlives it.
ProcessState ==
    /\ Up => step \in Steps
    /\ ~Up => model = <<>> /\ data = 0
    /\ phase = "update" => current \in Batch

\* What the pool p says is at least what the batches s say ...
Covers(p, s) ==
    /\ \A t \in Task : p.streak[t] >= Streak(t, s)
    /\ HardCases(s) \subseteq p.admitted

\* ... or exactly that.
Tells(p, s) ==
    /\ p.streak = [t \in Task |-> Streak(t, s)]
    /\ p.admitted = HardCases(s)

Remembers(p, s, exactly) == Covers(p, s) /\ (exactly => Tells(p, s))

\* The pool belongs to the model, in memory and in the named checkpoint.
PoolBelongs ==
    /\ Up => Remembers(pool, Observed, ~inherited)
    /\ tracker \in Steps =>
         Remembers(pools[tracker], actors[tracker], ~inherited)

IInv ==
    /\ TypeOK
    /\ ProcessState
    /\ FilesCarryTheirStep
    /\ WrittenSoFar
    /\ InStep
    /\ TrackedIsWhole
    /\ AheadOfTheTracker
    /\ PoolBelongs

-----------------------------------------------------------------------------

\* The pool stays a pool, whatever it observes.
LEMMA ObserveType ==
    ASSUME pool \in Pool, NEW b \in Batch
    PROVE  Observe(b) \in Pool
  <1>1. b.zeros \subseteq Task
    BY TrainerAssumption DEF Batch
  <1>2. pool.streak \in [Task -> Nat] /\ pool.admitted \subseteq Task
    BY DEF Pool
  <1> QED
    BY <1>1, <1>2 DEF Observe, Pool

LEMMA EmptyPoolType == EmptyPool \in Pool
  BY DEF EmptyPool, Pool

-----------------------------------------------------------------------------
(* Streaks and hard cases, batch by batch. *)

\* The batches of s that count for the streak of t.
Counted(t, s) ==
    {i \in DOMAIN s :
       /\ t \in s[i].groups
       /\ \A j \in i..Len(s) : t \in s[j].groups => t \in s[j].zeros}

LEMMA StreakType ==
    ASSUME NEW t \in Task, NEW s \in Seq(Batch)
    PROVE  /\ IsFiniteSet(Counted(t, s)) /\ Counted(t, s) \subseteq 1..Len(s)
           /\ Streak(t, s) = Cardinality(Counted(t, s))
           /\ Streak(t, s) \in Nat
  <1>1. Counted(t, s) \subseteq 1..Len(s)
    BY DEF Counted
  <1>2. IsFiniteSet(Counted(t, s))
    BY <1>1, FS_Interval, FS_Subset, Len(s) \in Int
  <1>3. Streak(t, s) = Cardinality(Counted(t, s))
    BY DEF Streak, Counted
  <1> QED
    BY <1>1, <1>2, <1>3, FS_CardinalityType

LEMMA StreakOfNothing == \A t \in Task : Streak(t, <<>>) = 0
  <1> SUFFICES ASSUME NEW t \in Task PROVE Streak(t, <<>>) = 0
    OBVIOUS
  <1>1. Counted(t, <<>>) = {}
    BY DEF Counted
  <1> QED
    BY <1>1, StreakType, FS_EmptySet, <<>> \in Seq(Batch)

\* A group that reports on t lengthens its streak or ends it, and no other
\* group matters.
LEMMA StreakStep ==
    ASSUME NEW t \in Task, NEW s \in Seq(Batch), NEW b \in Batch
    PROVE  Streak(t, Append(s, b)) = IF t \notin b.groups THEN Streak(t, s)
                                     ELSE IF t \in b.zeros THEN Streak(t, s) + 1
                                     ELSE 0
  <1> DEFINE u == Append(s, b)
             n == Len(s)
  <1>1. /\ u \in Seq(Batch) /\ n \in Nat /\ Len(u) = n + 1
        /\ DOMAIN u = 1..(n + 1) /\ DOMAIN s = 1..n
        /\ u[n + 1] = b /\ \A i \in 1..n : u[i] = s[i]
    OBVIOUS
  <1> HIDE DEF u, n
  <1>2. b.zeros \subseteq b.groups
    BY DEF Batch
  <1>3. IsFiniteSet(Counted(t, s)) /\ n + 1 \notin Counted(t, s)
    BY <1>1, StreakType DEF n
  <1>4. CASE t \notin b.groups
    <2>1. Counted(t, u) = Counted(t, s)
      BY <1>1, <1>4 DEF Counted, n
    <2> QED
      BY <1>1, <1>4, <2>1, StreakType DEF u
  <1>5. CASE t \in b.zeros
    <2>1. Counted(t, u) = Counted(t, s) \cup {n + 1}
      BY <1>1, <1>2, <1>5 DEF Counted, n
    <2>2. Cardinality(Counted(t, u)) = Cardinality(Counted(t, s)) + 1
      BY <1>3, <2>1, FS_AddElement
    <2> QED
      BY <1>1, <1>2, <1>5, <2>2, StreakType DEF u
  <1>6. CASE t \in b.groups /\ t \notin b.zeros
    <2>1. Counted(t, u) = {}
      BY <1>1, <1>6 DEF Counted
    <2> QED
      BY <1>1, <1>6, <2>1, StreakType, FS_EmptySet DEF u
  <1> QED
    BY <1>2, <1>4, <1>5, <1>6

LEMMA HardCasesOfNothing == HardCases(<<>>) = {}
  BY DEF HardCases

\* A batch adds to the hard cases the zero groups that complete a streak.
LEMMA HardCasesStep ==
    ASSUME NEW s \in Seq(Batch), NEW b \in Batch
    PROVE  HardCases(Append(s, b)) =
             HardCases(s) \cup {t \in b.zeros : Streak(t, s) + 1 >= Threshold}
  <1> DEFINE u == Append(s, b)
             n == Len(s)
  <1>1. /\ u \in Seq(Batch) /\ n \in Nat /\ Len(u) = n + 1
        /\ SubSeq(u, 1, n + 1) = u /\ SubSeq(s, 1, n) = s
    OBVIOUS
  <1>2. \A m \in 1..n : SubSeq(u, 1, m) = SubSeq(s, 1, m)
    OBVIOUS
  <1>3. b.zeros \subseteq b.groups /\ b.zeros \subseteq Task
    BY TrainerAssumption DEF Batch
  <1> HIDE DEF u, n
  <1>4. \A t \in Task : \/ t \in HardCases(s)
                        \/ t \in b.zeros /\ Streak(t, s) + 1 >= Threshold
                        <=> t \in HardCases(s) \/ Streak(t, u) >= Threshold
    <2> SUFFICES ASSUME NEW t \in Task, t \notin HardCases(s)
                 PROVE  t \in b.zeros /\ Streak(t, s) + 1 >= Threshold
                          <=> Streak(t, u) >= Threshold
      OBVIOUS
    <2>1. Streak(t, u) = IF t \notin b.groups THEN Streak(t, s)
                         ELSE IF t \in b.zeros THEN Streak(t, s) + 1
                         ELSE 0
      BY StreakStep DEF u
    <2>2. Streak(t, s) \in Nat /\ Threshold \in Nat \ {0}
      BY StreakType, TrainerAssumption
    <2>3. ~(Streak(t, s) >= Threshold)
      <3>1. CASE n = 0
        BY <1>1, <3>1, StreakOfNothing, TrainerAssumption DEF n
      <3>2. CASE n # 0
        <4>1. \A m \in 1..n : ~(Streak(t, SubSeq(s, 1, m)) >= Threshold)
          BY DEF HardCases, n
        <4>2. n \in 1..n
          BY <1>1, <3>2
        <4> QED
          BY <1>1, <4>1, <4>2
      <3> QED
        BY <3>1, <3>2
    <2> QED
      BY <1>3, <2>1, <2>2, <2>3
  <1>5. \A t \in Task : t \in HardCases(u)
                        <=> t \in HardCases(s) \/ Streak(t, u) >= Threshold
    <2> SUFFICES ASSUME NEW t \in Task
                 PROVE  t \in HardCases(u)
                          <=> t \in HardCases(s) \/ Streak(t, u) >= Threshold
      OBVIOUS
    <2>1. t \in HardCases(u)
            <=> \E m \in 1..(n + 1) : Streak(t, SubSeq(u, 1, m)) >= Threshold
      BY <1>1 DEF HardCases
    <2>2. t \in HardCases(s)
            <=> \E m \in 1..n : Streak(t, SubSeq(s, 1, m)) >= Threshold
      BY <1>1 DEF HardCases, n
    <2>3. 1..(n + 1) = (1..n) \cup {n + 1}
      BY <1>1
    <2> QED
      BY <1>1, <1>2, <2>1, <2>2, <2>3
  <1>6. HardCases(u) \subseteq Task /\ HardCases(s) \subseteq Task
    BY DEF HardCases
  <1> QED
    BY <1>3, <1>4, <1>5, <1>6 DEF u

\* What observing a batch does to the pool is what the batch does to the
\* streaks: a pool that remembers the batches before it remembers it too.
LEMMA ObserveRemembers ==
    ASSUME pool \in Pool, NEW s \in Seq(Batch), NEW b \in Batch,
           NEW exactly \in BOOLEAN, Remembers(pool, s, exactly)
    PROVE  Remembers(Observe(b), Append(s, b), exactly)
  <1> DEFINE p == Observe(b)
             u == Append(s, b)
  <1>1. b.zeros \subseteq Task
    BY TrainerAssumption DEF Batch
  <1>2. \A t \in Task : Streak(t, s) \in Nat /\ pool.streak[t] \in Nat
    BY StreakType DEF Pool
  <1>3. \A t \in Task : p.streak[t] = IF t \notin b.groups THEN pool.streak[t]
                                      ELSE IF t \in b.zeros THEN pool.streak[t] + 1
                                      ELSE 0
    BY DEF Observe
  <1>4. \A t \in Task : Streak(t, u) = IF t \notin b.groups THEN Streak(t, s)
                                       ELSE IF t \in b.zeros THEN Streak(t, s) + 1
                                       ELSE 0
    BY StreakStep
  <1>5. p.admitted = pool.admitted
                       \cup {t \in b.zeros : p.streak[t] >= Threshold}
    BY DEF Observe
  <1>6. HardCases(u) = HardCases(s)
                         \cup {t \in b.zeros : Streak(t, s) + 1 >= Threshold}
    BY HardCasesStep
  <1>7. b.zeros \subseteq b.groups /\ Threshold \in Nat
    BY TrainerAssumption DEF Batch
  <1>8. p.streak = [t \in Task |-> p.streak[t]]
    BY DEF Observe
  <1> HIDE DEF p, u
  <1>9. \A t \in b.zeros : /\ p.streak[t] = pool.streak[t] + 1
                           /\ Streak(t, u) = Streak(t, s) + 1
    BY <1>1, <1>3, <1>4, <1>7
  <1>10. Covers(p, u)
    <2>1. \A t \in Task : pool.streak[t] >= Streak(t, s)
      BY DEF Remembers, Covers
    <2>2. \A t \in Task : p.streak[t] >= Streak(t, u)
      BY <1>2, <1>3, <1>4, <2>1
    <2>3. \A t \in b.zeros : Streak(t, s) + 1 >= Threshold
                               => p.streak[t] >= Threshold
      BY <1>1, <1>2, <1>7, <1>9, <2>1
    <2> QED
      BY <1>5, <1>6, <2>2, <2>3 DEF Covers, Remembers
  <1>11. ASSUME exactly PROVE Tells(p, u)
    <2>1. \A t \in Task : pool.streak[t] = Streak(t, s)
      BY <1>11 DEF Remembers, Tells
    <2>2. \A t \in Task : p.streak[t] = Streak(t, u)
      BY <1>3, <1>4, <2>1
    <2>3. p.admitted = HardCases(u)
      BY <1>1, <1>5, <1>6, <1>9, <1>11, <2>1 DEF Remembers, Tells
    <2> QED
      BY <1>8, <2>2, <2>3 DEF Tells
  <1> QED
    BY <1>10, <1>11 DEF Remembers, p, u

-----------------------------------------------------------------------------

\* In the initial state there is no process and no file.
LEMMA InitInv == Init => IInv
  <1> SUFFICES ASSUME Init PROVE IInv
    OBVIOUS
  <1>1. TypeOK
    <2>1. phase \in Phase /\ inherited \in BOOLEAN
      BY DEF Init, Phase
    <2>5. model \in Seq(Batch)
      BY <<>> \in Seq(Batch) DEF Init
    <2>4. /\ goal \in 0..MaxSteps /\ step \in 0..MaxSteps
          /\ data \in Nat /\ starts \in 0..MaxStarts
      BY TrainerAssumption DEF Init
    <2>2. /\ pool \in Pool /\ current \in Batch \cup {NoBatch}
          /\ poolFile \in Pool \cup {NoFile} /\ tracker \in File(Steps)
      BY EmptyPoolType DEF Init, File
    <2>3. /\ actors \in [Steps -> File(Seq(Batch))]
          /\ datas \in [Steps -> File(Nat)]
          /\ pools \in [Steps -> Pool \cup {NoFile}]
          /\ rngs \in [Steps -> File(Steps)]
      BY DEF Init, File
    <2> QED
      BY <2>1, <2>2, <2>3, <2>4, <2>5 DEF TypeOK
  <1>2. ProcessState /\ WrittenSoFar /\ InStep /\ AheadOfTheTracker
    BY DEF Init, ProcessState, WrittenSoFar, InStep, AheadOfTheTracker, Up
  <1>3. FilesCarryTheirStep
    BY FilesAssumption DEF Init, FilesCarryTheirStep
  <1>4. TrackedIsWhole
    BY FilesAssumption DEF Init, TrackedIsWhole, Steps
  <1>5. PoolBelongs
    BY FilesAssumption DEF Init, PoolBelongs, Up, Steps
  <1> QED
    BY <1>1, <1>2, <1>3, <1>4, <1>5 DEF IInv

-----------------------------------------------------------------------------
(* Type correctness. *)

\* What a folder that loads contains.
LEMMA LoadableFiles ==
    ASSUME TypeOK, NEW n \in Steps, Loadable(n)
    PROVE  actors[n] \in Seq(Batch) /\ datas[n] \in Nat /\ pools[n] \in Pool
  BY DEF TypeOK, Loadable, File

\* Where a process goes down it leaves nothing ill-typed.
LEMMA DownType ==
    ASSUME Down
    PROVE  /\ phase' \in Phase
           /\ goal' \in 0..MaxSteps /\ step' \in 0..MaxSteps
           /\ model' \in Seq(Batch) /\ data' \in Nat /\ pool' \in Pool
           /\ current' \in Batch \cup {NoBatch}
  BY EmptyPoolType, TrainerAssumption DEF Down, Phase

LEMMA NextType == IInv /\ [Next]_vars => TypeOK'
  <1> SUFFICES ASSUME IInv, [Next]_vars PROVE TypeOK'
    OBVIOUS
  <1> USE TrainerAssumption DEF IInv, history, disk, folders
  <1>1. ASSUME NEW g \in Goals, StartFromScratch(g) PROVE TypeOK'
    <2>1. g \in 0..MaxSteps /\ 1 \in 0..MaxSteps
      BY DEF Steps
    <2>2. pool' \in Pool
      BY <1>1, EmptyPoolType DEF StartFromScratch, TypeOK
    <2>3. starts' \in 0..MaxStarts
      BY <1>1 DEF StartFromScratch, TypeOK
    <2> QED
      BY <1>1, <2>1, <2>2, <2>3 DEF StartFromScratch, TypeOK, Phase
  <1>2. ASSUME NEW g \in Goals, Resume(g) PROVE TypeOK'
    <2>1. model' \in Seq(Batch) /\ data' \in Nat /\ pool' \in Pool
      BY <1>2, LoadableFiles DEF Resume, Resuming
    <2>2. goal' \in 0..MaxSteps /\ step' \in 0..MaxSteps
      BY <1>2 DEF Resume, Resuming, Steps
    <2>3. starts' \in 0..MaxStarts
      BY <1>2 DEF Resume, Resuming, TypeOK
    <2> QED
      BY <1>2, <2>1, <2>2, <2>3 DEF Resume, Resuming, TypeOK, Phase
  <1>3. ASSUME NEW b \in Batch, Rollout(b) PROVE TypeOK'
    <2>1. pool' \in Pool
      BY <1>3, ObserveType DEF Rollout, TypeOK
    <2> QED
      BY <1>3, <2>1 DEF Rollout, TypeOK, Phase
  <1>4. CASE Update
    <2>1. model' \in Seq(Batch)
      BY <1>4 DEF Update, TypeOK, ProcessState
    <2>2. phase' \in Phase
      BY <1>4 DEF Update, Phase
    <2> QED
      BY <1>4, <2>1, <2>2 DEF Update, TypeOK
  <1>5. CASE SaveActor
    BY <1>5 DEF SaveActor, TypeOK, Phase, File
  <1>6. CASE SaveData
    BY <1>6 DEF SaveData, TypeOK, Phase, File
  <1>7. CASE SavePool
    BY <1>7 DEF SavePool, TypeOK, Phase
  <1>8. CASE SaveRng
    BY <1>8 DEF SaveRng, TypeOK, Phase, File, ProcessState, Up
  <1>9. CASE TruncateTracker
    BY <1>9 DEF TruncateTracker, TypeOK, Phase, File
  <1>10. CASE WriteTracker
    BY <1>10 DEF WriteTracker, TypeOK, Phase, File, ProcessState, Up
  <1>11. CASE EndStep
    <2>1. CASE step >= goal
      BY <1>11, <2>1, DownType DEF EndStep, TypeOK
    <2>2. CASE ~(step >= goal)
      BY <1>11, <2>2 DEF EndStep, TypeOK, Phase
    <2> QED
      BY <2>1, <2>2
  <1>12. CASE Crash
    BY <1>12, DownType DEF Crash, TypeOK
  <1>13. CASE CrashWriting
    BY <1>13, DownType DEF CrashWriting, TypeOK, File
  <1>14. CASE UNCHANGED vars
    BY <1>14 DEF vars, process, TypeOK
  <1> QED
    BY <1>1, <1>2, <1>3, <1>4, <1>5, <1>6, <1>7, <1>8, <1>9, <1>10, <1>11,
       <1>12, <1>13, <1>14 DEF Next

-----------------------------------------------------------------------------
(* The invariant. *)

\* Nothing that happens in a process puts it outside its range.
LEMMA NextProcess == IInv /\ [Next]_vars => ProcessState'
  <1> SUFFICES ASSUME IInv, [Next]_vars PROVE ProcessState'
    OBVIOUS
  <1> USE TrainerAssumption DEF IInv, ProcessState, Up
  <1>1. ASSUME NEW g \in Goals, StartFromScratch(g) PROVE ProcessState'
    BY <1>1 DEF StartFromScratch, Steps
  <1>2. ASSUME NEW g \in Goals, Resume(g) PROVE ProcessState'
    BY <1>2 DEF Resume, Resuming, Steps
  <1>3. ASSUME NEW b \in Batch, Rollout(b) PROVE ProcessState'
    BY <1>3 DEF Rollout
  <1>4. CASE Update
    BY <1>4 DEF Update
  <1>5. CASE SaveActor \/ SaveData \/ SavePool \/ SaveRng \/ TruncateTracker
              \/ WriteTracker
    BY <1>5 DEF SaveActor, SaveData, SavePool, SaveRng, TruncateTracker,
                WriteTracker
  <1>6. CASE EndStep
    BY <1>6 DEF EndStep, Down, TypeOK, Steps
  <1>7. CASE Crash \/ CrashWriting
    BY <1>7 DEF Crash, CrashWriting, Down
  <1>8. CASE UNCHANGED vars
    BY <1>8 DEF vars, process
  <1> QED
    BY <1>1, <1>2, <1>3, <1>4, <1>5, <1>6, <1>7, <1>8 DEF Next

\* Model, dataloader and step counter move together, in memory and on disk.
LEMMA NextInStep == IInv /\ [Next]_vars => InStep'
  <1> SUFFICES ASSUME IInv, [Next]_vars PROVE InStep'
    OBVIOUS
  <1> USE TrainerAssumption DEF IInv, InStep, Observed, Up
  <1>1. ASSUME NEW g \in Goals, StartFromScratch(g) PROVE InStep'
    BY <1>1 DEF StartFromScratch, ProcessState
  <1>2. ASSUME NEW g \in Goals, Resume(g) PROVE InStep'
    <2>1. Len(actors[tracker]) = tracker /\ datas[tracker] = tracker
      BY <1>2, LoadableFiles DEF Resume, Resuming, FilesCarryTheirStep
    <2> QED
      BY <1>2, <2>1 DEF Resume, Resuming, Steps
  <1>3. ASSUME NEW b \in Batch, Rollout(b) PROVE InStep'
    BY <1>3 DEF Rollout, TypeOK
  <1>4. CASE Update
    BY <1>4 DEF Update, TypeOK, ProcessState
  <1>5. CASE SaveActor \/ SaveData \/ SavePool \/ SaveRng \/ TruncateTracker
              \/ WriteTracker
    BY <1>5 DEF SaveActor, SaveData, SavePool, SaveRng, TruncateTracker,
                WriteTracker
  <1>6. CASE EndStep
    BY <1>6 DEF EndStep, Down, TypeOK
  <1>7. CASE Crash \/ CrashWriting
    BY <1>7 DEF Crash, CrashWriting, Down
  <1>8. CASE UNCHANGED vars
    BY <1>8 DEF vars, process
  <1> QED
    BY <1>1, <1>2, <1>3, <1>4, <1>5, <1>6, <1>7, <1>8 DEF Next

\* A process that starts is past the tracker's folder, and moves forward.
LEMMA NextAhead == IInv /\ [Next]_vars => AheadOfTheTracker'
  <1> SUFFICES ASSUME IInv, [Next]_vars PROVE AheadOfTheTracker'
    OBVIOUS
  <1> USE TrainerAssumption, FilesAssumption
      DEF IInv, AheadOfTheTracker, Up, Steps, disk, folders
  <1>1. ASSUME NEW g \in Goals, StartFromScratch(g) PROVE AheadOfTheTracker'
    BY <1>1 DEF StartFromScratch
  <1>2. ASSUME NEW g \in Goals, Resume(g) PROVE AheadOfTheTracker'
    BY <1>2 DEF Resume, Resuming
  <1>3. ASSUME NEW b \in Batch, Rollout(b) PROVE AheadOfTheTracker'
    BY <1>3 DEF Rollout
  <1>4. CASE Update
    BY <1>4 DEF Update
  <1>5. CASE SaveActor \/ SaveData \/ SavePool \/ SaveRng
    BY <1>5 DEF SaveActor, SaveData, SavePool, SaveRng
  <1>6. CASE TruncateTracker \/ WriteTracker
    BY <1>6 DEF TruncateTracker, WriteTracker
  <1>7. CASE EndStep
    BY <1>7 DEF EndStep, Down, TypeOK
  <1>8. CASE Crash \/ CrashWriting
    BY <1>8 DEF Crash, CrashWriting, Down
  <1>9. CASE UNCHANGED vars
    BY <1>9 DEF vars, process
  <1> QED
    BY <1>1, <1>2, <1>3, <1>4, <1>5, <1>6, <1>7, <1>8, <1>9 DEF Next

\* Only SaveActor and SaveData write files that carry a step, and they write
\* what belongs to the folder's.
LEMMA NextFiles == IInv /\ [Next]_vars => FilesCarryTheirStep'
  <1> SUFFICES ASSUME IInv, [Next]_vars PROVE FilesCarryTheirStep'
    OBVIOUS
  <1> USE TrainerAssumption, FilesAssumption
      DEF IInv, FilesCarryTheirStep, disk, folders
  <1>1. CASE UNCHANGED <<actors, datas>>
    BY <1>1
  <1>2. CASE SaveActor
    <2>1. Len(model) = step
      BY <1>2 DEF SaveActor, InStep, Up, TypeOK
    <2> QED
      BY <1>2, <2>1 DEF SaveActor, TypeOK
  <1>3. CASE SaveData
    <2>1. data = step
      BY <1>3 DEF SaveData, InStep, Observed, Up, TypeOK
    <2> QED
      BY <1>3, <2>1 DEF SaveData, TypeOK
  <1>4. CASE CrashWriting
    BY <1>4 DEF CrashWriting, TypeOK
  <1>5. SaveActor \/ SaveData \/ CrashWriting \/ UNCHANGED <<actors, datas>>
    BY DEF Next, vars, StartFromScratch, Resume, Resuming, Rollout, Update,
           SavePool, SaveRng, TruncateTracker, WriteTracker, EndStep, Crash
  <1> QED
    BY <1>1, <1>2, <1>3, <1>4, <1>5

\* The files of a checkpoint stay as they were written until it is named.
LEMMA NextWritten == IInv /\ [Next]_vars => WrittenSoFar'
  <1> SUFFICES ASSUME IInv, [Next]_vars PROVE WrittenSoFar'
    OBVIOUS
  <1> USE DEF IInv, WrittenSoFar, ProcessState, TypeOK, Up
  <1>1. CASE phase' \in {"down", "rollout", "update", "actor", "ended"}
    BY <1>1
  <1>2. CASE SaveActor
    BY <1>2 DEF SaveActor
  <1>3. CASE SaveData
    BY <1>3 DEF SaveData
  <1>4. CASE SavePool
    BY <1>4 DEF SavePool
  <1>5. CASE SaveRng
    BY <1>5 DEF SaveRng
  <1>6. CASE TruncateTracker
    BY <1>6 DEF TruncateTracker, folders
  <1>7. CASE UNCHANGED vars
    BY <1>7 DEF vars, process, disk, folders
  <1>8. \/ phase' \in {"down", "rollout", "update", "actor", "ended"}
        \/ SaveActor \/ SaveData \/ SavePool \/ SaveRng \/ TruncateTracker
        \/ UNCHANGED vars
    BY DEF Next, StartFromScratch, Resume, Resuming, Rollout, Update,
           WriteTracker, EndStep, Crash, CrashWriting, Down
  <1> QED
    BY <1>1, <1>2, <1>3, <1>4, <1>5, <1>6, <1>7, <1>8

\* What is written goes to another folder than the tracker's, and the tracker
\* is set to a folder that is complete.
LEMMA NextTracked == IInv /\ [Next]_vars => TrackedIsWhole'
  <1> SUFFICES ASSUME IInv, [Next]_vars PROVE TrackedIsWhole'
    OBVIOUS
  <1> USE TrainerAssumption, FilesAssumption DEF IInv, TrackedIsWhole
  <1>1. CASE UNCHANGED <<actors, datas, pools, tracker>>
    BY <1>1
  <1>2. CASE SaveActor \/ SaveData \/ SavePool \/ CrashWriting
    <2>1. tracker \in Steps => tracker < step
      BY <1>2 DEF SaveActor, SaveData, SavePool, CrashWriting,
                  AheadOfTheTracker, Up
    <2>2. step \in Steps
      BY <1>2 DEF SaveActor, SaveData, SavePool, CrashWriting, ProcessState, Up
    <2>3. \A n \in Steps \ {step} : /\ actors'[n] = actors[n]
                                    /\ datas'[n] = datas[n]
                                    /\ pools'[n] = pools[n]
      BY <1>2 DEF SaveActor, SaveData, SavePool, CrashWriting, TypeOK
    <2>4. tracker' = tracker
      BY <1>2 DEF SaveActor, SaveData, SavePool, CrashWriting
    <2> QED
      BY <2>1, <2>2, <2>3, <2>4 DEF Steps
  <1>3. CASE TruncateTracker
    BY <1>3 DEF TruncateTracker, Steps
  <1>4. CASE WriteTracker
    <2>1. step \in Steps /\ data = step /\ Len(model) = step
      BY <1>4 DEF WriteTracker, ProcessState, InStep, Observed, Up, TypeOK
    <2>2. actors[step] = model /\ datas[step] = data /\ pools[step] \in Pool
      BY <1>4 DEF WriteTracker, WrittenSoFar, TypeOK
    <2> QED
      BY <1>4, <2>1, <2>2 DEF WriteTracker, folders, TypeOK
  <1>5. \/ UNCHANGED <<actors, datas, pools, tracker>>
        \/ SaveActor \/ SaveData \/ SavePool \/ CrashWriting
        \/ TruncateTracker \/ WriteTracker
    BY DEF Next, vars, disk, folders, StartFromScratch, Resume, Resuming,
           Rollout, Update, SaveRng, EndStep, Crash
  <1> QED
    BY <1>1, <1>2, <1>3, <1>4, <1>5

\* Nothing is forgotten by a process that has seen nothing.
LEMMA ScratchRemembers ==
    ASSUME NEW g \in Goals, TypeOK, StartFromScratch(g)
    PROVE  Remembers(pool', <<>>, ~inherited')
  <1> DEFINE p == IF poolFile = NoFile THEN EmptyPool ELSE poolFile
  <1>1. p \in Pool /\ pool' = p
    BY EmptyPoolType DEF TypeOK, StartFromScratch
  <1>2. Covers(p, <<>>)
    BY <1>1, StreakOfNothing, HardCasesOfNothing DEF Covers, Pool
  <1>3. Tells(EmptyPool, <<>>)
    BY StreakOfNothing, HardCasesOfNothing DEF Tells, EmptyPool
  <1>4. inherited' \/ p = EmptyPool
    BY DEF StartFromScratch
  <1> QED
    BY <1>1, <1>2, <1>3, <1>4 DEF Remembers

\* The pool is saved with the model it belongs to and comes back with it.
LEMMA NextPool == IInv /\ [Next]_vars => PoolBelongs'
  <1> SUFFICES ASSUME IInv, [Next]_vars PROVE PoolBelongs'
    OBVIOUS
  <1>0. \/ UNCHANGED <<pools, actors, tracker, inherited>>
        \/ SaveActor \/ SaveData \/ SavePool \/ CrashWriting
        \/ TruncateTracker \/ WriteTracker
        \/ \E g \in Goals : StartFromScratch(g)
    BY DEF Next, vars, disk, folders, history, Resume, Resuming,
           Rollout, Update, SaveRng, EndStep, Crash
  <1>1. tracker' \in Steps =>
          Remembers(pools'[tracker'], actors'[tracker'], ~inherited')
    <2> USE FilesAssumption, TrainerAssumption DEF IInv, PoolBelongs
    <2>1. CASE UNCHANGED <<pools, actors, tracker, inherited>>
      BY <2>1
    <2>2. CASE SaveActor \/ SaveData \/ SavePool \/ CrashWriting
      <3>1. tracker \in Steps => tracker < step
        BY <2>2 DEF SaveActor, SaveData, SavePool, CrashWriting,
                    AheadOfTheTracker, Up
      <3>2. step \in Steps
        BY <2>2 DEF SaveActor, SaveData, SavePool, CrashWriting, ProcessState, Up
      <3>3. \A n \in Steps \ {step} : actors'[n] = actors[n] /\ pools'[n] = pools[n]
        BY <2>2 DEF SaveActor, SaveData, SavePool, CrashWriting, TypeOK
      <3>4. tracker' = tracker /\ inherited' = inherited
        BY <2>2 DEF SaveActor, SaveData, SavePool, CrashWriting, history
      <3> QED
        BY <3>1, <3>2, <3>3, <3>4 DEF Steps
    <2>3. CASE TruncateTracker
      BY <2>3 DEF TruncateTracker, Steps
    <2>4. CASE WriteTracker
      <3>1. actors[step] = model /\ pools[step] = pool
        BY <2>4 DEF WriteTracker, WrittenSoFar
      <3>2. Remembers(pool, model, ~inherited)
        BY <2>4 DEF WriteTracker, Observed, Up
      <3> QED
        BY <2>4, <3>1, <3>2 DEF WriteTracker, folders, history
    <2>5. ASSUME NEW g \in Goals, StartFromScratch(g)
          PROVE  tracker' \notin Steps
      BY <2>5 DEF StartFromScratch, disk, Steps
    <2> QED
      BY <1>0, <2>1, <2>2, <2>3, <2>4, <2>5
  <1>2. Up' => Remembers(pool', Observed', ~inherited')
    <2> USE DEF IInv, PoolBelongs, Up
    <2>1. ASSUME NEW g \in Goals, StartFromScratch(g)
          PROVE  Remembers(pool', Observed', ~inherited')
      <3>1. Observed' = <<>>
        BY <2>1 DEF StartFromScratch, ProcessState, Observed
      <3> QED
        BY <2>1, <3>1, ScratchRemembers
    <2>2. ASSUME NEW g \in Goals, Resume(g)
          PROVE  Remembers(pool', Observed', ~inherited')
      BY <2>2 DEF Resume, Resuming, Observed
    <2>3. ASSUME NEW b \in Batch, Rollout(b)
          PROVE  Remembers(pool', Observed', ~inherited')
      <3>1. Observed = model /\ Observed' = Append(model, b)
        BY <2>3 DEF Rollout, Observed
      <3>2. Remembers(pool, model, ~inherited)
        BY <2>3, <3>1 DEF Rollout
      <3>3. Remembers(Observe(b), Append(model, b), ~inherited)
        BY <3>2, ObserveRemembers DEF TypeOK
      <3> QED
        BY <2>3, <3>1, <3>3 DEF Rollout, history
    <2>4. CASE Update
      <3>1. Observed' = Observed
        BY <2>4 DEF Update, Observed
      <3> QED
        BY <2>4, <3>1 DEF Update, history
    <2>5. CASE SaveActor \/ SaveData \/ SavePool \/ SaveRng \/ TruncateTracker
                \/ WriteTracker
      <3>1. Observed' = Observed
        BY <2>5 DEF SaveActor, SaveData, SavePool, SaveRng, TruncateTracker,
                    WriteTracker, Observed
      <3> QED
        BY <2>5, <3>1 DEF SaveActor, SaveData, SavePool, SaveRng,
                          TruncateTracker, WriteTracker, history
    <2>6. CASE EndStep
      BY <2>6 DEF EndStep, Down, Observed, history
    <2>7. CASE Crash \/ CrashWriting
      BY <2>7 DEF Crash, CrashWriting, Down
    <2>8. CASE UNCHANGED vars
      BY <2>8 DEF vars, process, history, Observed
    <2> QED
      BY <2>1, <2>2, <2>3, <2>4, <2>5, <2>6, <2>7, <2>8 DEF Next
  <1> QED
    BY <1>1, <1>2 DEF PoolBelongs

LEMMA Invariance == Spec => []IInv
  <1>1. IInv /\ [Next]_vars => IInv'
    BY NextType, NextProcess, NextInStep, NextAhead, NextFiles, NextWritten,
       NextTracked, NextPool DEF IInv
  <1> QED
    BY <1>1, InitInv, PTL DEF Spec

-----------------------------------------------------------------------------
(* Theorems. *)

\* The state keeps its type for every number of steps, processes and crashes.
THEOREM TypeCorrect == Spec => []TypeOK
  <1>1. IInv => TypeOK
    BY DEF IInv
  <1> QED
    BY <1>1, Invariance, PTL

\* A resumed run goes on with the batch after the last one of its model.
THEOREM ResumesInStep == Spec => []InStep
  <1>1. IInv => InStep
    BY DEF IInv
  <1> QED
    BY <1>1, Invariance, PTL

\* The checkpoint that is named is always complete and of one step.
THEOREM NamedCheckpointIsWhole == Spec => []TrackedIsWhole
  <1>1. IInv => TrackedIsWhole
    BY DEF IInv
  <1> QED
    BY <1>1, Invariance, PTL

\* No process works behind, or writes into, the checkpoint that is named.
THEOREM NeverBehind == Spec => []AheadOfTheTracker
  <1>1. IInv => AheadOfTheTracker
    BY DEF IInv
  <1> QED
    BY <1>1, Invariance, PTL

\* After any number of crashes and resumes the streaks and the hard cases are
\* those of the batches the model was trained on, to the last one.
THEOREM ResumesExactly == Spec => []ResumeIsExact
  <1>1. IInv => ResumeIsExact
    BY DEF IInv, PoolBelongs, Remembers, Tells, ResumeIsExact
  <1> QED
    BY <1>1, Invariance, PTL

\* No hard case is missed, not even by a run that inherits a pool.
THEOREM MissesNoHardCase == Spec => []NoHardCaseMissed
  <1>1. IInv => NoHardCaseMissed
    BY DEF IInv, PoolBelongs, Remembers, Covers, NoHardCaseMissed
  <1> QED
    BY <1>1, Invariance, PTL

-----------------------------------------------------------------------------
(* The refinement. *)

\* The folder of a running process is not the one the tracker names.
LEMMA SavedModelStays ==
    ASSUME IInv, IInv', tracker' = tracker,
           \A n \in Steps : actors'[n] = actors[n] \/ (Up /\ n = step /\ phase # "ended")
    PROVE  SavedModel' = SavedModel
  <1>1. CASE tracker \notin Steps
    BY <1>1, FilesAssumption DEF SavedModel, IInv, TypeOK, File
  <1>2. CASE tracker \in Steps
    <2>1. actors'[tracker] = actors[tracker]
      BY <1>2 DEF IInv, AheadOfTheTracker, Steps
    <2> QED
      BY <1>2, <2>1, FilesAssumption DEF SavedModel, Steps
  <1> QED
    BY <1>1, <1>2

LEMMA NextAtomic ==
    IInv /\ IInv' /\ [Next]_vars => [Atomic!Next]_Atomic!vars
  <1> SUFFICES ASSUME IInv, IInv', [Next]_vars
               PROVE  [Atomic!Next]_Atomic!vars
    OBVIOUS
  <1> USE DEF Atomic!Next, Atomic!vars, history, disk, folders
  <1>1. ASSUME NEW g \in Goals, StartFromScratch(g) PROVE Atomic!Start
    <2>1. SavedModel = <<>> /\ SavedModel' = <<>>
      BY <1>1, FilesAssumption, TrainerAssumption
         DEF StartFromScratch, SavedModel, Steps
    <2>2. Torn # <<>>
      BY <<>> \in Seq(Batch), FilesAssumption
    <2> QED
      BY <1>1, <2>1, <2>2
         DEF StartFromScratch, Atomic!Start, IInv, ProcessState, Up
  <1>2. ASSUME NEW g \in Goals, Resume(g) PROVE Atomic!Start
    <2>1. SavedModel = actors[tracker] /\ SavedModel' = SavedModel
      BY <1>2, FilesAssumption DEF Resume, Resuming, SavedModel, Steps
    <2>2. SavedModel # Torn
      BY <1>2, <2>1 DEF Resume, Resuming, Loadable
    <2> QED
      BY <1>2, <2>1, <2>2 DEF Resume, Resuming, Atomic!Start, Up
  <1>3. ASSUME NEW b \in Batch, Rollout(b) PROVE UNCHANGED Atomic!vars
    BY <1>3, SavedModelStays DEF Rollout, Up
  <1>4. CASE Update
    <2>1. SavedModel' = SavedModel
      BY <1>4, SavedModelStays DEF Update
    <2> QED
      BY <1>4, <2>1 DEF Update, Atomic!Train, IInv, ProcessState, Up
  <1>5. CASE SaveActor \/ SaveData \/ SavePool \/ SaveRng
    <2>1. SavedModel' = SavedModel
      BY <1>5, SavedModelStays
         DEF SaveActor, SaveData, SavePool, SaveRng, Up, IInv, TypeOK
    <2> QED
      BY <1>5, <2>1 DEF SaveActor, SaveData, SavePool, SaveRng, Up
  <1>6. CASE TruncateTracker
    <2>1. SavedModel' = Torn
      BY <1>6, FilesAssumption DEF TruncateTracker, SavedModel, Steps
    <2> QED
      BY <1>6, <2>1 DEF TruncateTracker, Atomic!Save, Up
  <1>7. CASE WriteTracker
    <2>1. step \in Steps /\ actors[step] = model
      BY <1>7 DEF WriteTracker, IInv, ProcessState, WrittenSoFar, Up
    <2>2. SavedModel' = model
      BY <1>7, <2>1, FilesAssumption DEF WriteTracker, SavedModel, Steps
    <2> QED
      BY <1>7, <2>2 DEF WriteTracker, Atomic!Save, Up
  <1>8. CASE EndStep
    <2>1. SavedModel' = SavedModel
      BY <1>8, SavedModelStays DEF EndStep
    <2> QED
      BY <1>8, <2>1 DEF EndStep, Down, Atomic!Stop, Up
  <1>9. CASE Crash \/ CrashWriting
    <2>1. SavedModel' = SavedModel
      BY <1>9, SavedModelStays DEF Crash, CrashWriting, Up, IInv, TypeOK
    <2> QED
      BY <1>9, <2>1 DEF Crash, CrashWriting, Down, Atomic!Stop, Up
  <1>10. CASE UNCHANGED vars
    BY <1>10 DEF vars, process, SavedModel, Up
  <1> QED
    BY <1>1, <1>2, <1>3, <1>4, <1>5, <1>6, <1>7, <1>8, <1>9, <1>10 DEF Next

\* Files written one by one, crashes between and in them, and restarts look
\* like checkpoints that are taken as a whole.
THEOREM CheckpointsLookAtomic == Spec => CheckpointsAreAtomic
  <1>1. Init => Atomic!Init
    BY FilesAssumption, TrainerAssumption
       DEF Init, Atomic!Init, Up, SavedModel, Steps
  <1> QED
    BY <1>1, NextAtomic, Invariance, PTL
       DEF Spec, CheckpointsAreAtomic, Atomic!Spec

=============================================================================
