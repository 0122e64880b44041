------------------------- MODULE SegmentedTraining -------------------------
(***************************************************************************)
(* The fragments of a finished request as the trainer sees them            *)
(* (_segmented_turn_units, _ordered_segment_units and                      *)
(* redistribute_segmented_behavior_component_turn_credit of core_algos.py): *)
(* SegmentLedger with TurnCredit computed over its fragments.               *)
(***************************************************************************)
EXTENDS SegmentLedger, TurnCredit

\* The turns of a rollout divide a component into equal parts.
ASSUME SharesAreWhole == \A n \in 1 .. MaxTurns : Scale % n = 0

\* Mutant: the position in the fragment is taken for the global turn.
LocalIndex(f, i) == i - 1

\* A unit is the stretch of a fragment from one turn boundary to the next, when
\* it has a target.  Its index is the global turn stored for it, or its position
\* in the fragment when none is; only an indexed unit has an event.
UnitTargets(f, i) ==
  LET end == IF i < Len(f.bounds) THEN f.bounds[i + 1] ELSE Len(f.response)
  IN {j \in Trained(f) : f.bounds[i] < j /\ j <= end}
UnitIndex(f, i) == IF i <= Len(f.turns) THEN f.turns[i] ELSE i - 1
UnitEvent(f, i) ==
  IF i <= Len(f.turns) THEN Coalesced(req.past[f.turns[i] + 1].calls) ELSE Unreported
Unit(row, f, i) == [index |-> UnitIndex(f, i), row |-> row, local |-> i,
                    turns |-> {f.response[j].turn : j \in UnitTargets(f, i)},
                    event |-> UnitEvent(f, i)]
Units(fragments) ==
  UNION {{Unit(row, fragments[row], i) :
            i \in {l \in DOMAIN fragments[row].bounds : UnitTargets(fragments[row], l) # {}}} :
         row \in DOMAIN fragments}

\* The units of a rollout by index, those of equal index in the order of their
\* fragments: the k-th is the one that k - 1 others come before.
UnitBefore(u, v) ==
  \/ u.index < v.index
  \/ u.index = v.index /\ u.row < v.row
  \/ u.index = v.index /\ u.row = v.row /\ u.local < v.local
UnitOrder(fragments) ==
  LET units == Units(fragments)
  IN [k \in 1 .. Cardinality(units) |->
        CHOOSE u \in units : Cardinality({v \in units : UnitBefore(v, u)}) = k - 1]

-----------------------------------------------------------------------------
(* Properties. *)

\* The credit of every turn, that of the unit its tokens are in, computed over
\* the fragments and over the rollout as if it had never been split.
SplitCredit(component, gain, order) ==
  LET events == [k \in DOMAIN order |-> order[k].event]
      weights == Credit(component, gain, events)
      Holder(t) == CHOOSE k \in DOMAIN order : t \in order[k].turns
  IN [t \in 0 .. Len(given) - 1 |-> weights[Holder(t)]]
TurnEvents ==
  [i \in DOMAIN given |-> IF i <= Len(req.past) THEN Coalesced(req.past[i].calls) ELSE Unreported]
WholeCredit(component, gain, events) ==
  LET weights == Credit(component, gain, events)
  IN [t \in 0 .. Len(given) - 1 |-> weights[t + 1]]

\* "终局 Reward、动态采样和 Turn Credit 仍按原始 rollout 计算一次" (docs/grpo.md): splitting
\* a rollout into fragments does not change the credit of its turns.  (Known(s)
\* is s: it lets TLC compute the elements of s once for all the components.)
CreditIgnoresFragments ==
  LET Known(s) == SubSeq(s, 1, Len(s))
      order == Known(UnitOrder(req.records))
      events == Known(TurnEvents)
  IN phase = "done" =>
       \A component \in Components, gain \in BOOLEAN :
          SplitCredit(component, gain, order) = WholeCredit(component, gain, events)

\* It holds of every request whose turns were all closed, and of every request
\* that stayed in one fragment.
CreditIgnoresFragmentsOfClosedTurns ==
  Len(req.past) = Len(given) \/ Len(req.records) = 1 => CreditIgnoresFragments

\* A correct answer is credited to the turns of its own aspect and to no other,
\* its whole weight to them together (README: search 15%, actions 25%, answer
\* 60%), in every request whose messages made one call each.
CreditStaysWithItsAspect ==
  LET events == TurnEvents
      credit == Credit("correct_completion", TRUE, events)
      Turns(a) == {i \in DOMAIN events : events[i].aspect = a}
      Right(a) == \E i \in Turns(a) : "right" \in events[i].kinds
  IN (/\ phase = "done"
      /\ \A p \in ToSet(req.past) : p.aspect # 0
      /\ \E a \in 1 .. Aspects : Right(a))
     => \A a \in 0 .. Aspects :
          SumFunction([i \in Turns(a) |-> credit[i]]) = IF Right(a) THEN 100 * Scale ELSE 0

=============================================================================
