------------------------- MODULE MCTeacherCollection -------------------------
(* Three passes, two workers, up to two runs of the collector. *)
EXTENDS TeacherCollection, TLC

CONSTANTS w1, w2, t1, t2, t3

MCWorkers == {w1, w2}
MCPasses  == {t1, t2, t3}

=============================================================================
