--------------------------- MODULE MCDynamicSampling ---------------------------
(* Two prompts with groups of two, on rewards that are equal, too close and *)
(* far enough apart.                                                         *)
EXTENDS DynamicSampling

CONSTANTS u1, u2

MCPrompt == {u1, u2}

\* Constant, too close, far enough, half invalid
\* and invalid.
MCRollouts == {<<0, 0>>, <<0, 1>>, <<0, 2>>, <<2, Invalid>>, <<Invalid, Invalid>>}

\* For every group size up to eight and the pools three attempts may fill, the
\* selection takes a whole group, its extremes included.
Of(size) == INSTANCE GroupSelection WITH GroupSize <- size
ASSUME ChosenRanksFormAGroup ==
    \A size \in 2..8 : \A n \in size..(3 * size) :
      LET ranks == Of(size)!ChosenRanks(n)
      IN  Cardinality(ranks) = size /\ {1, n} \subseteq ranks /\ ranks \subseteq 1..n

=============================================================================
