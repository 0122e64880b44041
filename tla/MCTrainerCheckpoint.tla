------------------------- MODULE MCTrainerCheckpoint -------------------------
(* Short runs for TLC: one task, a checkpoint in the middle and at the end. *)
EXTENDS TrainerCheckpoint

CONSTANT t1

MCTask   == {t1}
MCGroups == {{}, {t1}}
MCSaveAt == {2}
MCGoals  == {2, 3}

=============================================================================
