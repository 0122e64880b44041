---------------------------- MODULE AtomicTraining ----------------------------
(***************************************************************************)
(* What checkpointing promises a training run                              *)
(* (verl/trainer/ppo/ray_trainer.py): a process continues from the state   *)
(* some process saved as a whole, never from a mixture of two saves or     *)
(* from a part of one.  A death in the instant the latest checkpoint is    *)
(* named may make it unreadable; then no process continues at all.         *)
(***************************************************************************)
EXTENDS Sequences

CONSTANTS Batch, Unreadable

VARIABLES running, model, saved

vars == <<running, model, saved>>

Init ==
    /\ running = FALSE
    /\ model = <<>>
    /\ saved = <<>>

Start ==
    /\ ~running
    /\ saved # Unreadable
    /\ running' = TRUE
    /\ model' = saved
    /\ UNCHANGED saved

Train ==
    /\ running
    /\ \E b \in Batch : model' = Append(model, b)
    /\ UNCHANGED <<running, saved>>

Save ==
    /\ running
    /\ saved' \in {model, Unreadable}
    /\ UNCHANGED <<running, model>>

\* The process ends or dies; its memory is gone.
Stop ==
    /\ running
    /\ running' = FALSE
    /\ model' = <<>>
    /\ UNCHANGED saved

Next == Start \/ Train \/ Save \/ Stop

Spec == Init /\ [][Next]_vars

=============================================================================
