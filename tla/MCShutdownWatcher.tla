-------------------------- MODULE MCShutdownWatcher --------------------------
(* Two watchers and a training of two steps that may be started twice. *)
EXTENDS ShutdownWatcher, TLC

CONSTANTS w1, w2

MCWatcher == {w1, w2}
MCSaveAt  == {}
MCGoals   == {2}
Symmetry  == Permutations(MCWatcher)

=============================================================================
