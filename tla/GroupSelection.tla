---------------------------- MODULE GroupSelection ----------------------------
(***************************************************************************)
(* How the bounded sampler picks a group of rollouts for one prompt        *)
(* (_reward_spread_reason and _select_candidate_group in                   *)
(* verl/trainer/ppo/dynamic_sampling.py).                                  *)
(***************************************************************************)
EXTENDS Integers, Sequences, FiniteSets

CONSTANTS
    GroupSize,   \* rollout.n
    Epsilon,     \* numerical_epsilon
    MinSpread    \* min_reward_spread

ASSUME GroupAssumption ==
    /\ GroupSize \in Nat \ {0, 1}
    /\ Epsilon \in Nat
    /\ MinSpread \in Nat

\* _reward_spread_reason gives no reason to drop these rows.
VariesEnough(rows) ==
    \E low, high \in rows :
      /\ high.reward - low.reward > Epsilon
      /\ high.reward - low.reward + Epsilon >= MinSpread

Before(x, y) ==
    \/ x.reward < y.reward
    \/ x.reward = y.reward /\ x.batch < y.batch
    \/ x.reward = y.reward /\ x.batch = y.batch /\ x.row < y.row

\* Python's round(a / b) for naturals: halves go to the even neighbour.
RoundDiv(a, b) ==
    LET q == a \div b
        r == a % b
    IN  IF 2 * r > b \/ (2 * r = b /\ q % 2 = 1) THEN q + 1 ELSE q

\* Where the rows between the extremes are taken from, of n sorted ones.
MiddleRanks(n) ==
    LET slots == GroupSize - 2
    IN  IF n - 2 <= slots
          THEN [i \in 1..(n - 2) |-> i + 1]
          ELSE [s \in 1..slots |-> 2 + RoundDiv(s * (n - 3), slots + 1)]

\* The order in which ranks are considered; a rank counts once.
RankOrder(n) == <<1, n>> \o MiddleRanks(n) \o [i \in 1..n |-> i]

FirstUses(s) == {i \in DOMAIN s : \A j \in 1..(i - 1) : s[j] # s[i]}

\* The ranks of the group: the first GroupSize different ones of that order.
ChosenRanks(n) ==
    LET s == RankOrder(n)
    IN  {s[i] : i \in {j \in FirstUses(s) :
                         Cardinality(FirstUses(s) \cap (1..j)) <= GroupSize}}

Rank(rows, r) == Cardinality({x \in rows : x = r \/ Before(x, r)})

\* Mutants of SelectGroup: rows of one attempt only; the rows that came first.
SelectWithinAttempt(rows) ==
    LET groups == {{r \in rows : r.batch = x.batch} : x \in rows}
        whole == {g \in groups : Cardinality(g) = GroupSize /\ VariesEnough(g)}
    IN  IF whole = {} THEN {} ELSE CHOOSE g \in whole : TRUE

SelectOldest(rows) ==
    LET Older(x, y) == x.batch < y.batch \/ (x.batch = y.batch /\ x.row <= y.row)
    IN  IF Cardinality(rows) < GroupSize \/ ~VariesEnough(rows)
          THEN {}
          ELSE {r \in rows : Cardinality({x \in rows : Older(x, r)}) <= GroupSize}

\* _select_candidate_group; {} when there is no group.
SelectGroup(rows) ==
    IF Cardinality(rows) < GroupSize \/ ~VariesEnough(rows)
      THEN {}
      ELSE LET ranks == ChosenRanks(Cardinality(rows))
           IN  {r \in rows : Rank(rows, r) \in ranks}

=============================================================================
