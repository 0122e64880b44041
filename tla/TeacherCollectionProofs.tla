----------------------- MODULE TeacherCollectionProofs -----------------------
(***************************************************************************)
(* Proofs about the Teacher cache, for any number of passes, workers and   *)
(* runs.  One inductive invariant carries all of them: whatever may have   *)
(* been billed is visible both in the file and in the memory of the        *)
(* running process.                                                        *)
(***************************************************************************)
EXTENDS TeacherCollection, TLAPS

Final == {"success", "invalid", "abandoned"}

\* A pass a worker holds is marked in memory and in the file, and no other
\* worker holds it.
HeldIsMarked ==
    \A w \in Worker : Working(w) =>
      /\ memory[worker[w].pass] = "in_flight"
      /\ disk[worker[w].pass] = "in_flight"
      /\ \A v \in Worker : Working(v) /\ worker[v].pass = worker[w].pass => v = w

\* Before its request is sent, a claimed pass has nothing outstanding.
ClaimedIsSettled ==
    \A w \in Worker : worker[w].phase = "claimed" =>
      paid[worker[w].pass] <= settled[worker[w].pass]

\* The running process knows of every outstanding request and of every outcome.
MemoryKnows ==
    running => \A p \in Pass :
      /\ paid[p] > settled[p] => ~Claimable(memory[p])
      /\ disk[p] \in Final => memory[p] = disk[p]

IInv ==
    /\ TypeOK
    /\ ~running => \A w \in Worker : worker[w] = Idle
    /\ HeldIsMarked
    /\ ClaimedIsSettled
    /\ MemoryKnows
    /\ NoSilentReissue
    /\ SentIsOnDisk

-----------------------------------------------------------------------------

\* A worker that is neither idle nor killed holds a pass, in one of two phases.
LEMMA HeldPass ==
    ASSUME TypeOK, NEW w \in Worker
    PROVE  /\ Working(w) <=> worker[w].phase \in {"claimed", "waiting"}
           /\ Working(w) => worker[w].pass \in Pass
  <1>1. worker[w] \in WorkerState
    BY DEF TypeOK
  <1>2. CASE worker[w] \in {Idle, Killed}
    BY <1>2 DEF Working, Idle, Killed
  <1>3. CASE worker[w] \in [phase : {"claimed", "waiting"}, pass : Pass]
    BY <1>3 DEF Working, Idle, Killed
  <1> QED
    BY <1>1, <1>2, <1>3 DEF WorkerState

\* In the initial state nothing was sent and nobody works.
LEMMA InitInv == Init => IInv
  <1> SUFFICES ASSUME Init PROVE IInv
    OBVIOUS
  <1>1. TypeOK
    BY DEF Init, TypeOK, Status, WorkerState
  <1>2. \A w \in Worker : worker[w] = Idle
    BY DEF Init
  <1>3. HeldIsMarked /\ ClaimedIsSettled
    BY <1>2 DEF HeldIsMarked, ClaimedIsSettled, Working, Idle
  <1>4. \A p \in Pass : paid[p] = 0 /\ settled[p] = 0
    BY DEF Init
  <1>5. MemoryKnows /\ NoSilentReissue /\ SentIsOnDisk
    BY <1>4 DEF Init, MemoryKnows, NoSilentReissue, SentIsOnDisk
  <1> QED
    BY <1>1, <1>2, <1>3, <1>5 DEF IInv

\* A worker puts the outcome of its pass in memory, perhaps in the file, and
\* lets go.  A pass can only become claimable if its request was never sent.
LEMMA OutcomeStep ==
    ASSUME IInv, NEW w \in Worker, NEW status \in Status \ {"none"},
           Working(w),
           status = "error" => worker[w].phase = "claimed",
           \/ Record(worker[w].pass, status)
           \/ RecordUnsaved(worker[w].pass, status),
           Finish(w, queue),
           answered' \in [Pass -> BOOLEAN],
           UNCHANGED <<process, paid, settled>>
    PROVE  IInv'
  <1> DEFINE p == worker[w].pass
  <1>0. /\ TypeOK /\ p \in Pass
        /\ UNCHANGED <<running, runs, queue, paid, settled>>
    BY HeldPass DEF IInv, process
  <1>1. /\ memory' = [memory EXCEPT ![p] = status]
        /\ disk' = disk \/ disk' = memory'
    BY DEF Record, RecordUnsaved
  <1>2. TypeOK'
    <2>1. progress' \in Nat /\ worker' \in [Worker -> WorkerState]
      BY <1>0 DEF TypeOK, Finish, WorkerState
    <2> QED
      BY <1>0, <1>1, <2>1 DEF TypeOK
  <1>3. \A v \in Worker : v # w => worker'[v] = worker[v]
    BY <1>0 DEF TypeOK, Finish
  <1>4. worker'[w] \in {Idle, Killed}
    BY <1>0 DEF TypeOK, Finish
  <1>5. running
    BY DEF IInv, Working
  <1>6. disk[p] = "in_flight" /\ memory[p] = "in_flight"
    BY DEF IInv, HeldIsMarked
  <1>7. HeldIsMarked'
    <2> SUFFICES ASSUME NEW v \in Worker, Working(v)'
                 PROVE  /\ memory'[worker'[v].pass] = "in_flight"
                        /\ disk'[worker'[v].pass] = "in_flight"
                        /\ \A u \in Worker : Working(u)' /\ worker'[u].pass = worker'[v].pass
                                               => u = v
      BY DEF HeldIsMarked
    <2>1. v # w /\ Working(v) /\ worker'[v] = worker[v]
      BY <1>3, <1>4 DEF Working
    <2>2. worker[v].pass # p /\ worker[v].pass \in Pass
      BY <1>0, <2>1, HeldPass DEF IInv, HeldIsMarked
    <2>3. memory'[worker[v].pass] = "in_flight" /\ disk'[worker[v].pass] = "in_flight"
      BY <1>0, <1>1, <2>1, <2>2 DEF IInv, HeldIsMarked, TypeOK
    <2>4. \A u \in Worker : Working(u)' => u # w /\ Working(u) /\ worker'[u] = worker[u]
      BY <1>3, <1>4 DEF Working
    <2> QED
      BY <2>1, <2>3, <2>4 DEF IInv, HeldIsMarked
  <1>8. ClaimedIsSettled'
    <2> SUFFICES ASSUME NEW v \in Worker, worker'[v].phase = "claimed"
                 PROVE  paid'[worker'[v].pass] <= settled'[worker'[v].pass]
      BY DEF ClaimedIsSettled
    <2>1. v # w
      BY <1>4 DEF Idle, Killed
    <2> QED
      BY <1>3, <2>1 DEF IInv, ClaimedIsSettled
  <1>9. paid[p] > settled[p] => ~Claimable(status)
    <2>1. worker[w].phase = "claimed" => paid[p] <= settled[p]
      BY DEF IInv, ClaimedIsSettled
    <2>2. status # "error" => ~Claimable(status)
      BY DEF Status, Claimable
    <2> QED
      BY <1>0, <2>1, <2>2 DEF TypeOK
  <1>10. \A q \in Pass : paid[q] > settled[q] => ~Claimable(memory'[q])
    BY <1>0, <1>1, <1>5, <1>9 DEF IInv, MemoryKnows, TypeOK
  <1>11. \A q \in Pass : disk'[q] \in Final => memory'[q] = disk'[q]
    BY <1>0, <1>1, <1>5, <1>6 DEF IInv, MemoryKnows, TypeOK, Final
  <1>12. MemoryKnows'
    BY <1>5, <1>10, <1>11 DEF MemoryKnows
  <1>13. SentIsOnDisk'
    BY <1>1, <1>10 DEF SentIsOnDisk, IInv
  <1> QED
    BY <1>0, <1>2, <1>5, <1>7, <1>8, <1>12, <1>13 DEF IInv, NoSilentReissue

\* A claim marks the pass before anything is sent; when it cannot be written
\* only the memory is marked and the worker does not go on.
LEMMA ClaimStep ==
    ASSUME IInv, NEW w \in Worker, NEW p \in Pass, Claim(w, p)
    PROVE  IInv'
  <1>0. /\ TypeOK /\ running /\ UNCHANGED <<running, runs, ledger>>
        /\ worker[w] = Idle /\ ~Working(w)
    BY DEF IInv, Claim, Working
  <1>1. CASE ~Claimable(memory[p])
    <2>1. Finish(w, queue') /\ UNCHANGED records
      BY <1>1 DEF Claim
    <2>2. /\ worker'[w] \in {Idle, Killed} /\ worker' \in [Worker -> WorkerState]
          /\ \A v \in Worker : v # w => worker'[v] = worker[v]
          /\ progress' \in Nat
      BY <1>0, <2>1 DEF Finish, TypeOK, WorkerState
    <2>3. TypeOK'
      BY <1>0, <2>1, <2>2 DEF Claim, TypeOK, records, ledger
    <2>4. \A v \in Worker : /\ Working(v)' => Working(v) /\ worker'[v] = worker[v]
                            /\ worker'[v].phase = "claimed" => worker'[v] = worker[v]
      BY <2>2 DEF Working, Idle, Killed
    <2>5. HeldIsMarked' /\ ClaimedIsSettled'
      BY <1>0, <2>1, <2>4 DEF IInv, HeldIsMarked, ClaimedIsSettled, records, ledger
    <2> QED
      BY <1>0, <2>1, <2>3, <2>5
         DEF IInv, MemoryKnows, NoSilentReissue, SentIsOnDisk, records, ledger
  <1>2. CASE Claimable(memory[p])
    <2>1. /\ memory' = [memory EXCEPT ![p] = "in_flight"]
          /\ \/ /\ disk' = memory' /\ worker' = [worker EXCEPT ![w] = At("claimed", p)]
                /\ progress' = progress
             \/ disk' = disk /\ Finish(w, queue')
      BY <1>2 DEF Claim, Record, RecordUnsaved
    <2>2. TypeOK'
      <3>1. progress' \in Nat /\ worker' \in [Worker -> WorkerState]
        BY <1>0, <2>1 DEF Finish, TypeOK, WorkerState, At
      <3> QED
        BY <1>0, <2>1, <3>1 DEF Claim, TypeOK, Status, ledger
    <2>3. paid[p] <= settled[p] /\ disk[p] \notin Final
      BY <1>0, <1>2 DEF IInv, MemoryKnows, TypeOK, Claimable, Final
    <2>4. \A v \in Worker : Working(v) => worker[v].pass # p /\ v # w
      BY <1>0, <1>2 DEF IInv, HeldIsMarked, Claimable
    <2>5. \A q \in Pass : q # p => memory'[q] = memory[q]
      BY <1>0, <2>1 DEF TypeOK
    <2>6. memory'[p] = "in_flight"
      BY <1>0, <2>1 DEF TypeOK
    <2>7. \A v \in Worker : v # w => worker'[v] = worker[v]
      BY <1>0, <2>1 DEF TypeOK, Finish
    <2>8. \/ worker'[w] \in {Idle, Killed}
          \/ disk' = memory' /\ worker'[w].pass = p
      BY <1>0, <2>1 DEF TypeOK, At, Finish
    <2>9. HeldIsMarked'
      <3> SUFFICES ASSUME NEW v \in Worker, Working(v)'
                   PROVE  /\ memory'[worker'[v].pass] = "in_flight"
                          /\ disk'[worker'[v].pass] = "in_flight"
                          /\ \A u \in Worker :
                                Working(u)' /\ worker'[u].pass = worker'[v].pass
                                  => u = v
        BY DEF HeldIsMarked
      <3>1. CASE v = w
        <4>1. disk' = memory' /\ worker'[w].pass = p
          BY <2>8, <3>1 DEF Working
        <4>2. \A u \in Worker : Working(u)' /\ u # w => worker'[u].pass # p
          BY <2>4, <2>7 DEF Working
        <4> QED
          BY <2>6, <3>1, <4>1, <4>2
      <3>2. CASE v # w
        <4>1. worker'[v] = worker[v] /\ Working(v)
          BY <2>7, <3>2 DEF Working
        <4>2. worker[v].pass # p /\ worker[v].pass \in Pass
          BY <1>0, <2>4, <4>1, HeldPass
        <4>3. memory'[worker[v].pass] = "in_flight" /\ disk'[worker[v].pass] = "in_flight"
          BY <2>1, <2>5, <4>1, <4>2 DEF IInv, HeldIsMarked
        <4>4. \A u \in Worker : Working(u)' /\ u # w => worker'[u] = worker[u] /\ Working(u)
          BY <2>7 DEF Working
        <4>5. Working(w)' => worker'[w].pass = p
          BY <1>0, <2>8 DEF Working
        <4> QED
          BY <4>1, <4>2, <4>3, <4>4, <4>5 DEF IInv, HeldIsMarked
      <3> QED
        BY <3>1, <3>2
    <2>10. ClaimedIsSettled'
      <3> SUFFICES ASSUME NEW v \in Worker, worker'[v].phase = "claimed"
                   PROVE  paid[worker'[v].pass] <= settled[worker'[v].pass]
        BY <1>0 DEF ClaimedIsSettled, ledger
      <3>1. CASE worker'[v] = worker[v]
        BY <3>1 DEF IInv, ClaimedIsSettled
      <3>2. CASE worker'[v] # worker[v]
        <4>1. v = w /\ worker'[w] \notin {Idle, Killed}
          BY <2>7, <3>2 DEF Idle, Killed
        <4> QED
          BY <2>3, <2>8, <4>1
      <3> QED
        BY <3>1, <3>2
    <2>11. MemoryKnows'
      <3>1. \A q \in Pass : paid[q] > settled[q] => ~Claimable(memory'[q])
        BY <1>0, <2>5, <2>6 DEF IInv, MemoryKnows, Claimable
      <3>2. \A q \in Pass : disk'[q] \in Final => memory'[q] = disk'[q]
        BY <1>0, <2>1, <2>3, <2>5 DEF IInv, MemoryKnows
      <3> QED
        BY <1>0, <3>1, <3>2 DEF MemoryKnows, ledger
    <2>12. SentIsOnDisk'
      BY <1>0, <2>1, <2>11 DEF SentIsOnDisk, MemoryKnows, IInv, ledger
    <2> QED
      BY <1>0, <2>2, <2>9, <2>10, <2>11, <2>12 DEF IInv, NoSilentReissue, ledger
  <1> QED
    BY <1>1, <1>2 DEF Claim

\* The request of a claimed pass is sent: the marker is already everywhere.
LEMMA SendStep ==
    ASSUME IInv, NEW w \in Worker, SendRequest(w)
    PROVE  IInv'
  <1> DEFINE p == worker[w].pass
  <1>0. /\ TypeOK /\ worker[w].phase = "claimed"
        /\ UNCHANGED <<running, runs, disk, memory, queue, settled, progress>>
    BY DEF IInv, SendRequest, records, process
  <1>1. Working(w) /\ p \in Pass
    BY <1>0, HeldPass
  <1>2. /\ paid' = [paid EXCEPT ![p] = paid[p] + 1]
        /\ worker' = [worker EXCEPT ![w] = At("waiting", p)]
    BY DEF SendRequest
  <1>3. worker'[w] \in [phase : {"claimed", "waiting"}, pass : Pass]
        /\ worker'[w].phase = "waiting" /\ worker'[w].pass = p
    BY <1>0, <1>1, <1>2 DEF TypeOK, At
  <1>4. \A v \in Worker : v # w => worker'[v] = worker[v]
    BY <1>0, <1>2 DEF TypeOK
  <1>5. TypeOK'
    BY <1>0, <1>1, <1>2, <1>3 DEF TypeOK, WorkerState, SendRequest
  <1>6. \A v \in Worker : Working(v)' => Working(v) /\ worker'[v].pass = worker[v].pass
    BY <1>1, <1>3, <1>4 DEF Working
  <1>7. HeldIsMarked'
    BY <1>0, <1>6 DEF IInv, HeldIsMarked
  <1>8. memory[p] = "in_flight" /\ disk[p] = "in_flight"
    BY <1>1 DEF IInv, HeldIsMarked
  <1>9. paid[p] <= settled[p]
    BY <1>0 DEF IInv, ClaimedIsSettled
  <1>10. \A q \in Pass : q # p => paid'[q] = paid[q]
    BY <1>0, <1>2 DEF TypeOK
  <1>11. ClaimedIsSettled'
    <2> SUFFICES ASSUME NEW v \in Worker, worker'[v].phase = "claimed"
                 PROVE  paid'[worker'[v].pass] <= settled[worker'[v].pass]
      BY <1>0 DEF ClaimedIsSettled
    <2>1. v # w /\ worker'[v] = worker[v]
      BY <1>3, <1>4
    <2>2. worker[v].pass \in Pass /\ worker[v].pass # p
      BY <1>0, <1>1, <2>1, HeldPass DEF IInv, HeldIsMarked
    <2> QED
      BY <1>10, <2>1, <2>2 DEF IInv, ClaimedIsSettled
  <1>12. NoSilentReissue'
    BY <1>0, <1>1, <1>2, <1>9, <1>10 DEF IInv, NoSilentReissue, TypeOK
  <1>13. MemoryKnows' /\ SentIsOnDisk'
    BY <1>0, <1>8, <1>10
       DEF IInv, MemoryKnows, SentIsOnDisk, Claimable
  <1>14. (~running => \A v \in Worker : worker[v] = Idle)'
    BY <1>0, <1>1 DEF IInv, Working
  <1> QED
    BY <1>5, <1>7, <1>11, <1>12, <1>13, <1>14 DEF IInv

\* A process starts with what the file says.
LEMMA StartStep == ASSUME IInv, Start PROVE IInv'
  <1>1. /\ ~running /\ running' /\ memory' = disk
        /\ UNCHANGED <<disk, worker, paid, settled>>
    BY DEF Start, ledger
  <1>2. \A w \in Worker : worker'[w] = Idle
    BY <1>1 DEF IInv
  <1>3. TypeOK'
    BY <1>1 DEF IInv, TypeOK, Start, ledger
  <1>4. HeldIsMarked' /\ ClaimedIsSettled'
    BY <1>2 DEF HeldIsMarked, ClaimedIsSettled, Working, Idle
  <1>5. MemoryKnows'
    BY <1>1 DEF IInv, MemoryKnows, SentIsOnDisk
  <1> QED
    BY <1>1, <1>2, <1>3, <1>4, <1>5 DEF IInv, NoSilentReissue, SentIsOnDisk

\* A process ends, by itself or not: only the file remains.
LEMMA EndStep == ASSUME IInv, Stop \/ Crash PROVE IInv'
  <1>1. ~running' /\ UNCHANGED <<disk, memory, runs, paid, settled>>
    BY DEF Stop, Crash, records, ledger
  <1>2. \A w \in Worker : worker'[w] = Idle
    BY DEF Stop, Crash, Working, IInv, TypeOK
  <1>3. TypeOK'
    <2>1. worker' \in [Worker -> WorkerState]
      BY DEF Stop, Crash, WorkerState
    <2>2. /\ progress' \in Nat /\ queue' \subseteq Pass
          /\ answered' \in [Pass -> BOOLEAN]
      BY DEF IInv, TypeOK, Stop, Crash, ledger
    <2>3. running' = FALSE
      BY Zenon DEF Stop, Crash
    <2> QED
      BY <1>1, <2>1, <2>2, <2>3 DEF IInv, TypeOK
  <1>4. HeldIsMarked' /\ ClaimedIsSettled'
    BY <1>2 DEF HeldIsMarked, ClaimedIsSettled, Working, Idle
  <1> QED
    BY <1>1, <1>2, <1>3, <1>4 DEF IInv, MemoryKnows, NoSilentReissue, SentIsOnDisk

\* The operator settles or gives up a pass while no process runs.
LEMMA OperatorStep ==
    ASSUME IInv, NEW p \in Pass, Reconcile(p) \/ Abandon(p)
    PROVE  IInv'
  <1>0. /\ TypeOK /\ ~running /\ disk[p] = "in_flight"
        /\ UNCHANGED <<running, runs, memory, queue, worker, paid, progress>>
    BY DEF IInv, Reconcile, Abandon, process, ledger
  <1>1. \A w \in Worker : worker'[w] = Idle
    BY <1>0 DEF IInv
  <1>2. \A q \in Pass : q # p => disk'[q] = disk[q] /\ settled'[q] = settled[q]
    BY <1>0 DEF Reconcile, Abandon, TypeOK, ledger
  <1>3. \/ settled'[p] = paid[p]
        \/ disk'[p] = "abandoned" /\ settled'[p] = settled[p]
    BY <1>0 DEF Reconcile, Abandon, TypeOK, ledger
  <1>4. TypeOK'
    BY <1>0 DEF Reconcile, Abandon, TypeOK, Status, ledger
  <1>5. HeldIsMarked' /\ ClaimedIsSettled'
    BY <1>1 DEF HeldIsMarked, ClaimedIsSettled, Working, Idle
  <1>6. paid \in [Pass -> Nat] /\ settled \in [Pass -> Nat]
    BY <1>0 DEF TypeOK
  <1>7. NoSilentReissue' /\ SentIsOnDisk'
    BY <1>0, <1>2, <1>3, <1>6
       DEF IInv, NoSilentReissue, SentIsOnDisk, Claimable
  <1> QED
    BY <1>0, <1>1, <1>4, <1>5, <1>7 DEF IInv, MemoryKnows

\* Every step of a worker keeps the invariant.
LEMMA WorkerStepInv ==
    ASSUME IInv, NEW w \in Worker, WorkerStep(w)
    PROVE  IInv'
  <1>1. TypeOK
    BY DEF IInv
  <1> USE DEF ledger
  <1>2. CASE \E p \in Pass : Claim(w, p)
    BY <1>2, ClaimStep
  <1>3. CASE TaskNotLoaded(w)
    <2>1. Working(w) /\ answered' \in [Pass -> BOOLEAN]
      BY <1>1, <1>3, HeldPass DEF TaskNotLoaded, TypeOK
    <2> QED
      BY <1>3, <2>1, OutcomeStep DEF TaskNotLoaded, Status
  <1>4. CASE SendRequest(w)
    BY <1>4, SendStep
  <1>5. CASE RecordSuccess(w)
    <2>1. Working(w) /\ answered' \in [Pass -> BOOLEAN]
      BY <1>1, <1>5, HeldPass DEF RecordSuccess, TypeOK
    <2>2. /\ "success" \in Status \ {"none"}
          /\ "success" = "error" => worker[w].phase = "claimed"
      BY DEF Status
    <2> QED
      BY <1>5, <2>1, <2>2, OutcomeStep DEF RecordSuccess
  <1>6. CASE RecordInvalid(w)
    <2>1. Working(w) /\ answered' \in [Pass -> BOOLEAN]
      BY <1>1, <1>6, HeldPass DEF RecordInvalid, TypeOK
    <2>2. /\ "invalid" \in Status \ {"none"}
          /\ "invalid" = "error" => worker[w].phase = "claimed"
      BY DEF Status
    <2> QED
      BY <1>6, <2>1, <2>2, OutcomeStep DEF RecordInvalid
  <1>7. CASE RecordError(w)
    <2>1. Working(w) /\ answered' \in [Pass -> BOOLEAN]
      BY <1>1, <1>7, HeldPass DEF RecordError, TypeOK
    <2>2. /\ "in_flight" \in Status \ {"none"}
          /\ "in_flight" = "error" => worker[w].phase = "claimed"
      BY DEF Status
    <2> QED
      BY <1>7, <2>1, <2>2, OutcomeStep DEF RecordError
  <1> QED
    BY <1>2, <1>3, <1>4, <1>5, <1>6, <1>7 DEF WorkerStep

\* The invariant holds in every state of every behaviour.
THEOREM Invariance == Spec => []IInv
  <1>1. IInv /\ [Next]_vars => IInv'
    <2> SUFFICES ASSUME IInv, [Next]_vars PROVE IInv'
      OBVIOUS
    <2>1. CASE Start
      BY <2>1, StartStep
    <2>2. CASE \E w \in Worker : WorkerStep(w)
      BY <2>2, WorkerStepInv
    <2>3. CASE Stop \/ Crash
      BY <2>3, EndStep
    <2>4. CASE \E p \in Pass : Reconcile(p) \/ Abandon(p)
      BY <2>4, OperatorStep
    <2>5. CASE UNCHANGED vars
      BY <2>5
         DEF vars, process, records, ledger, IInv, TypeOK, HeldIsMarked, Working,
             ClaimedIsSettled, MemoryKnows, NoSilentReissue, SentIsOnDisk
    <2> QED
      BY <2>1, <2>2, <2>3, <2>4, <2>5 DEF Next
  <1> QED
    BY <1>1, InitInv, PTL DEF Spec

\* Type correctness of the collector.
THEOREM TypeCorrect == Spec => []TypeOK
  <1>1. IInv => TypeOK
    BY DEF IInv
  <1> QED
    BY <1>1, Invariance, PTL

\* No pass is billed twice unless an operator settled it: for any number of
\* workers, crashes, failed writes and resumed runs (teacher_collection.py,
\* claim and record_error).
THEOREM NeverBilledTwice == Spec => []NoSilentReissue
  <1>1. IInv => NoSilentReissue
    BY DEF IInv
  <1> QED
    BY <1>1, Invariance, PTL

\* At every instant the cache file protects the requests that were sent.
THEOREM FileProtectsRequests == Spec => []SentIsOnDisk
  <1>1. IInv => SentIsOnDisk
    BY DEF IInv
  <1> QED
    BY <1>1, Invariance, PTL

\* A worker's write replaces the whole file, and yet keeps every outcome in it:
\* its memory has them all and changes only a pass without one.
LEMMA WriteKeepsOutcomes ==
    ASSUME IInv, NEW w \in Worker, WorkerStep(w),
           NEW q \in Pass, disk[q] \in Final
    PROVE  disk'[q] = disk[q]
  <1>0. TypeOK
    BY DEF IInv
  <1>1. running => memory[q] = disk[q]
    BY DEF IInv, MemoryKnows
  <1>2. ASSUME NEW p \in Pass, NEW status \in Status, running, memory[p] \notin Final,
               Record(p, status) \/ RecordUnsaved(p, status)
        PROVE  disk'[q] = disk[q]
    BY <1>0, <1>1, <1>2 DEF Record, RecordUnsaved, TypeOK
  <1>3. ASSUME NEW p \in Pass, Claim(w, p)
        PROVE  disk'[q] = disk[q]
    <2>1. running
      BY <1>3 DEF Claim
    <2>2. CASE ~Claimable(memory[p])
      BY <1>3, <2>2 DEF Claim, records
    <2>3. CASE Claimable(memory[p])
      <3>1. memory[p] \notin Final
        BY <2>3 DEF Claimable, Final
      <3>2. Record(p, "in_flight") \/ RecordUnsaved(p, "in_flight")
        BY <1>3, <2>3 DEF Claim
      <3> QED
        BY <1>2, <2>1, <3>1, <3>2 DEF Status
    <2> QED
      BY <2>2, <2>3
  <1>4. ASSUME NEW status \in Status, worker[w].phase \in {"claimed", "waiting"},
               \/ Record(worker[w].pass, status)
               \/ RecordUnsaved(worker[w].pass, status)
        PROVE  disk'[q] = disk[q]
    <2>1. Working(w) /\ worker[w].pass \in Pass
      BY <1>0, <1>4, HeldPass
    <2>2. running /\ memory[worker[w].pass] \notin Final
      BY <2>1 DEF IInv, HeldIsMarked, Final, Working
    <2> QED
      BY <1>2, <1>4, <2>1, <2>2
  <1>5. CASE TaskNotLoaded(w)
    BY <1>4, <1>5 DEF TaskNotLoaded, Status
  <1>6. CASE SendRequest(w)
    BY <1>6 DEF SendRequest, records
  <1>7. CASE RecordSuccess(w)
    BY <1>4, <1>7 DEF RecordSuccess, Status
  <1>8. CASE RecordInvalid(w)
    BY <1>4, <1>8 DEF RecordInvalid, Status
  <1>9. CASE RecordError(w)
    BY <1>4, <1>9 DEF RecordError, Status
  <1> QED
    BY <1>3, <1>5, <1>6, <1>7, <1>8, <1>9 DEF WorkerStep

\* The outcome of a pass survives every later write, crash, restart and
\* operator command (teacher_collection.py, _write).
THEOREM OutcomesSurvive == Spec => OutcomeIsKept
  <1> DEFINE Kept == \A p \in Pass : disk[p] \in {"success", "invalid", "abandoned"}
                                       => disk'[p] = disk[p]
  <1>1. IInv /\ [Next]_vars => [Kept]_vars
    <2> SUFFICES ASSUME IInv, Next, NEW q \in Pass, disk[q] \in Final
                 PROVE  disk'[q] = disk[q]
      BY DEF Final
    <2>1. CASE Start
      BY <2>1 DEF Start
    <2>2. CASE \E w \in Worker : WorkerStep(w)
      BY <2>2, WriteKeepsOutcomes
    <2>3. CASE Stop \/ Crash
      BY <2>3 DEF Stop, Crash, records
    <2>4. CASE \E p \in Pass : Reconcile(p) \/ Abandon(p)
      <3>1. PICK p \in Pass : Reconcile(p) \/ Abandon(p)
        BY <2>4
      <3>2. p # q
        BY <3>1 DEF Reconcile, Abandon, Final
      <3> QED
        BY <3>1, <3>2 DEF Reconcile, Abandon, IInv, TypeOK
    <2> QED
      BY <2>1, <2>2, <2>3, <2>4 DEF Next
  <1>2. Spec => [][Next]_vars
    BY DEF Spec
  <1> QED
    BY <1>1, <1>2, Invariance, PTL DEF OutcomeIsKept

=============================================================================
