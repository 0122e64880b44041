--------------------------- MODULE SegmentLedger ---------------------------
(***************************************************************************)
(* The token ledger of one rollout request when context cleanup is on      *)
(* (verl/workers/rollout/schemas.py, driven by the turn loop of            *)
(* sglang_rollout_customized.py).  The actor's context grows turn by turn; *)
(* when the next turn would not fit, the turns of completed aspects are    *)
(* replaced by a public memory, the tokens seen so far are closed as one   *)
(* trainable fragment and the next turn opens another fragment on the      *)
(* compacted context.  At the end every fragment becomes a training row.   *)
(*                                                                         *)
(* A run of tokens is a span: what it renders, the turn it belongs to and  *)
(* how many tokens it has.  Positions (a fragment's prompt, its turn       *)
(* boundaries, the end of the actor's output) count spans; budgets count   *)
(* tokens.  An assistant message is two spans, the generation marker and   *)
(* what the actor wrote after it, and only the latter carries loss.        *)
(***************************************************************************)
EXTENDS Integers, Sequences, FiniteSets, SequencesExt, FiniteSetsExt

CONSTANTS Aspects,          \* number of aspects of the task, completed in order
          MaxTurns,         \* config.multi_turn.max_turns
          MaxModelLen,      \* longest context the engine takes
          MaxResponseLen,   \* longest response of one training row
          Target,           \* context_cleanup.target_context_tokens
          NextTurnReserve,  \* tokens a whole next turn may need
          ToolReserve,      \* tokens kept free for the observation of a turn
          BaseSize,         \* tokens of the first prompt, before the marker
          ActorSizes,       \* what one turn of the actor may generate
          ToolSizes,        \* what one turn's observations may take
          Gains             \* preferences one useful Action may elicit

ASSUME SizesAreTokens ==
  /\ {Aspects, MaxTurns, MaxModelLen, MaxResponseLen, Target, BaseSize} \subseteq Nat \ {0}
  /\ ActorSizes \subseteq Nat \ {0} /\ ToolSizes \subseteq Nat \ {0}
  /\ Gains \subseteq Nat \ {0}
  /\ ToolReserve \in Nat /\ NextTurnReserve \in Nat

VARIABLES req,      \* the loop's own copy of the AsyncRolloutRequest
          phase,    \* "next", "tools", "done", "invalid": what the loop does next
          aspect,   \* the environment's current aspect
          given,    \* history: the context the engine was given at each turn
          exported  \* what leaves the rollout: the archive and the fragments kept with it

vars == <<req, phase, aspect, given, exported>>

Span(kind, turn, size) == [kind |-> kind, turn |-> turn, size |-> size]
Base == Span("base", -1, BaseSize)
Marker(turn) == Span("marker", turn, 1)
Tokens(spans) == FoldLeft(LAMBDA n, s : n + s.size, 0, spans)

NoSegment == [prompt |-> 0, turns |-> <<>>, bounds |-> <<>>]
Open(r) == r.segment /= NoSegment
Questions == {"useful", "idle", "redundant"}
Answers == {"right", "wrong"}

-----------------------------------------------------------------------------
(* Closing a fragment: its first `cut` spans, without retokenising them.   *)

\* Mutant: the fragment is stored and stays open under the old prompt.
StoreFragment(r, cut) ==
  [r EXCEPT !.records = IF ~Open(r) \/ cut = r.segment.prompt THEN @ ELSE
               Append(@, [prompt   |-> SubSeq(r.ledger, 1, r.segment.prompt),
                          response |-> SubSeq(r.ledger, r.segment.prompt + 1, cut),
                          turns    |-> r.segment.turns,
                          bounds   |-> r.segment.bounds])]

\* The boundaries ascend: those below a length come first.
BoundsBelow(bounds, length) ==
  SubSeq(bounds, 1, Cardinality({i \in DOMAIN bounds : bounds[i] < length}))

CloseFragment(r, cut) ==
  [r EXCEPT !.segment = NoSegment,
            !.records = IF ~Open(r) \/ cut = r.segment.prompt THEN @ ELSE
               Append(@, [prompt   |-> SubSeq(r.ledger, 1, r.segment.prompt),
                          response |-> SubSeq(r.ledger, r.segment.prompt + 1, cut),
                          turns    |-> r.segment.turns,
                          bounds   |-> BoundsBelow(r.segment.bounds, cut - r.segment.prompt)])]

-----------------------------------------------------------------------------
(* Compaction.  A turn that completed its aspect stands for the group of    *)
(* all turns of that aspect; a cleaned group is rendered as one memory at   *)
(* the place of its first message, holding the observations of its action   *)
(* and answer turns, refused ones too, word for word.                       *)

Feedback(r, turns) ==
  {m \in ToSet(r.archive) :
     m.kind = "tool" /\ m.turn \in turns
       /\ r.past[m.turn + 1].calls[1].kind \in Questions \cup Answers \cup {"refused"}}

Memory(r, t) ==
  Span("memory", t, 1 + MapThenSumSet(LAMBDA m : m.size, Feedback(r, r.past[t + 1].group)))

\* Mutant: the cleaned turns leave nothing behind.
CompactedWithoutMemory(r, answers) ==
  SelectSeq(r.archive, LAMBDA m : \A t \in answers : m.turn \notin r.past[t + 1].group)

Compacted(r, answers) ==
  LET cleaned == UNION {r.past[t + 1].group : t \in answers}
      Rendered(m, first) ==
        IF m.turn \notin cleaned THEN <<m>>
        ELSE LET t == CHOOSE t \in answers : m.turn \in r.past[t + 1].group
             IN IF first /\ m.turn = Min(r.past[t + 1].group) THEN <<Memory(r, t)>> ELSE <<>>
  IN FlattenSeq([i \in DOMAIN r.archive |->
                   Rendered(r.archive[i], r.archive[i].kind = "marker")])

PastTurns(r) == 0 .. Len(r.past) - 1
Cleaned(r) == {t \in PastTurns(r) : r.past[t + 1].cleaned}
Candidates(r) == {t \in PastTurns(r) \ Cleaned(r) : r.past[t + 1].cleanable}
Oldest(turns, k) == {t \in turns : Cardinality({u \in turns : u <= t}) <= k}

\* Mutant: a fragment that went over the limit is cut at its last boundary.
LastBoundary(r) ==
  IF Tokens(r.ledger) > MaxModelLen /\ Open(r)
  THEN r.segment.prompt + Last(r.segment.bounds) ELSE Len(r.ledger)

\* Where the old fragment ends: an observation that went over the limit is
\* left out of it and only survives in the compacted context.
FragmentEnd(r) ==
  IF Tokens(r.ledger) > MaxModelLen /\ Open(r) /\ r.past /= <<>>
  THEN Last(r.past).actorEnd ELSE Len(r.ledger)

\* maybe_cleanup_context: clean the fewest candidates, oldest first, that bring
\* the context under the target; all of them when no prefix does.  A context
\* that stays unsafe, a fragment that would be too long, or a template that
\* fails (~works) undoes everything, and the rollout goes on.
Cleanup(r, force, needsNextTurn, works) ==
  LET todo == Candidates(r)
      UpTo(k) == Cleaned(r) \cup Oldest(todo, k)
      Size(k) == Tokens(Compacted(r, UpTo(k)))
      Safe(k) == Size(k) + NextTurnReserve <= MaxModelLen
      Enough(k) == IF needsNextTurn THEN Size(k) <= Target /\ Safe(k)
                                    ELSE Size(k) <= Target \/ Safe(k)
      chosen == Min({k \in 1 .. Cardinality(todo) : Enough(k)} \cup {Cardinality(todo)})
      danger == force \/ Tokens(r.ledger) + NextTurnReserve > MaxModelLen
      recovered == IF needsNextTurn THEN Safe(chosen) ELSE Size(chosen) <= MaxModelLen
      fits == Open(r) => Tokens(SubSeq(r.ledger, 1, FragmentEnd(r))) <= MaxModelLen
  IN IF ~danger \/ todo = {} THEN r
     ELSE IF ~works \/ ~recovered \/ ~fits THEN r
     ELSE [CloseFragment(r, FragmentEnd(r)) EXCEPT
             !.ledger = Compacted(r, UpTo(chosen)),
             !.past = [i \in DOMAIN r.past |->
                         [r.past[i] EXCEPT !.cleaned = i - 1 \in UpTo(chosen)]]]

-----------------------------------------------------------------------------
(* One turn of the actor. *)

\* begin_turn and ensure_active_segment, around the generation marker.
OpenTurn(r, turn) ==
  LET boundary == Len(r.ledger) - r.segment.prompt
  IN [r EXCEPT !.ledger = Append(@, Marker(turn)),
               !.segment = IF Open(r) THEN [r.segment EXCEPT !.bounds = Append(@, boundary)]
                           ELSE [prompt |-> Len(r.ledger) + 1, turns |-> <<>>, bounds |-> <<0>>]]

\* _compute_generation_budget, over the active fragment.
Budget(r) ==
  LET prompt == Tokens(SubSeq(r.ledger, 1, r.segment.prompt))
      context == Tokens(r.ledger)
  IN Min({Min({MaxResponseLen, MaxModelLen - prompt}) - (context - prompt) - ToolReserve,
          MaxModelLen - context - ToolReserve - 1})

\* complete_turn: a turn may be cleaned when its only call answered an aspect
\* and every turn so far made exactly one call.
CompleteTurn(r, turn, calls, size) ==
  LET owner == IF Len(calls) = 1 THEN calls[1].aspect ELSE 0
      group == {t \in PastTurns(r) : r.past[t + 1].aspect = owner} \cup {turn}
      cleanable == owner # 0 /\ calls[1].kind \in Answers
                     /\ \A p \in ToSet(r.past) : p.aspect # 0
      observed == Span("tool", turn, size)
  IN [r EXCEPT
        !.ledger = Append(@, observed),
        !.archive = Append(@, observed),
        !.segment.turns = Append(@, turn),
        !.past = Append(@, [calls |-> calls, aspect |-> owner,
                            cleanable |-> cleanable, cleaned |-> FALSE,
                            actorEnd |-> Len(r.ledger),
                            group |-> IF cleanable THEN group ELSE {turn}])]

\* The request as the caller made it, before its first turn.
Fresh == [ledger |-> <<Base>>, archive |-> <<Base>>, segment |-> NoSegment,
          records |-> <<>>, past |-> <<>>]
NotExported == [archive |-> <<>>, fragments |-> <<>>]

Init ==
  /\ req = Fresh
  /\ phase = "next"
  /\ aspect = 1
  /\ given = <<>>
  /\ exported = NotExported

\* RUNNING: clean up if the turn would not fit, open it, generate.
Generate(works) ==
  /\ phase = "next"
  /\ LET turn == Len(given)
         r == OpenTurn(Cleanup(req, FALSE, TRUE, works), turn)
     IN \E size \in ActorSizes :
          /\ size <= Budget(r)
          /\ req' = [r EXCEPT
                       !.ledger = Append(@, Span("actor", turn, size)),
                       !.archive = @ \o <<Marker(turn), Span("actor", turn, size)>>]
          /\ given' = Append(given, r.ledger)
  /\ phase' = "tools"
  /\ UNCHANGED <<aspect, exported>>

\* finalize: the open fragment is closed as it stands, an open turn with it.
Finalize(r) ==
  LET closed == CloseFragment(r, Len(r.ledger))
  IN /\ req' = closed
     /\ exported' = [archive |-> closed.archive, fragments |-> closed.records]

\* The quarantine of _semaphore_wrapped_rollout: it is handed the caller's
\* request, and none of its fragments is trained on.
Quarantine ==
  /\ phase' = "invalid"
  /\ req' = Fresh
  /\ exported' = [archive |-> Fresh.archive, fragments |-> Fresh.records]

\* The calls a message may make: the environment takes one search per aspect,
\* then actions and the answer, which moves it on to the next aspect; it refuses
\* anything else, an Action or an Answer ("refused") or another call ("invalid").
\* Several calls of one message run one after the other.  `also` is what else
\* the environment notes of a call: a useful Action may repeat a question, a
\* right answer may be the best one, and an answer after a question is legal.
CallsNow ==
  LET Before(kinds) == \E p \in ToSet(req.past) : \E c \in ToSet(p.calls) :
                         c.kind \in kinds /\ c.aspect = aspect
      Call(kind, also, gain, a) ==
        [kind |-> kind, also |-> also, gain |-> gain, aspect |-> a]
      Plain(kind) == Call(kind, {}, 0, aspect)
      useful == {Call("useful", repeated, gain, aspect) :
                   repeated \in SUBSET {"redundant"}, gain \in Gains}
      legal == IF Before(Questions) THEN {"legal"} ELSE {}
      right == {Call("right", best \cup legal, 0, aspect) : best \in SUBSET {"best"}}
      moves == IF aspect = Aspects THEN {}
               ELSE {<<c, Call("search", {}, 0, aspect + 1)>> : c \in right}
  IN {<<Plain("invalid")>>, <<Plain("refused")>>}
       \cup IF Before({"search"})
            THEN {<<c>> : c \in useful \cup {Plain("idle"), Plain("redundant")} \cup right
                                  \cup {Call("wrong", legal, 0, aspect)}}
                   \cup moves
            ELSE {<<Plain("search")>>} \cup {<<Plain("search"), c>> : c \in right}
HasAnswer(calls) == \E c \in ToSet(calls) : c.kind \in Answers

\* Mutant: one turn more, and no look at the length after the cleanup.
RunToolsUnchecked(calls, size, stop, works) ==
  LET r == Cleanup(CompleteTurn(req, Len(given) - 1, calls, size), FALSE, ~stop, works)
  IN /\ phase = "tools"
     /\ calls \in CallsNow
     /\ aspect' = IF HasAnswer(calls) THEN aspect + 1 ELSE aspect
     /\ aspect' > Aspects => stop
     /\ IF stop THEN phase' = "done" /\ Finalize(r)
        ELSE phase' = "next" /\ req' = r /\ UNCHANGED exported
     /\ UNCHANGED given

\* TOOL_CALLING: run the calls, append their observations, close the turn and
\* clean up.  An observation that leaves the context too long is quarantined.
RunTools(calls, size, stop, works) ==
  LET answered == CompleteTurn(req, Len(given) - 1, calls, size)
      r == Cleanup(answered, Tokens(answered.ledger) > MaxModelLen, ~stop, works)
  IN /\ phase = "tools"
     /\ Len(given) < MaxTurns
     /\ calls \in CallsNow
     /\ aspect' = IF HasAnswer(calls) THEN aspect + 1 ELSE aspect
     /\ aspect' > Aspects => stop
     /\ IF Tokens(r.ledger) > MaxModelLen THEN Quarantine
        ELSE IF stop THEN phase' = "done" /\ Finalize(r)
        ELSE phase' = "next" /\ req' = r /\ UNCHANGED exported
     /\ UNCHANGED given

\* The loop ends after max_turns messages: the calls of the last never run.
OutOfTurns ==
  /\ phase = "tools"
  /\ Len(given) = MaxTurns
  /\ phase' = "done"
  /\ Finalize(req)
  /\ UNCHANGED <<aspect, given>>

\* A protocol, template or length error of the turn, no budget left among them.
Reject ==
  /\ phase \in {"next", "tools"}
  /\ Quarantine
  /\ UNCHANGED <<aspect, given>>

Next ==
  \/ \E works \in BOOLEAN : Generate(works)
  \/ \E calls \in CallsNow, size \in ToolSizes, stop, works \in BOOLEAN :
       RunTools(calls, size, stop, works)
  \/ OutOfTurns
  \/ Reject

Spec == Init /\ [][Next]_vars

-----------------------------------------------------------------------------
(* Properties. *)

\* The fragments so far, the open one included, and the loss mask of one.
Fragments == CloseFragment(req, Len(req.ledger)).records
Trained(f) == {i \in DOMAIN f.response : f.response[i].kind = "actor"}

\* The fragments train on n messages of the actor, each once, in their order.
TrainedInOrder(fragments, n) ==
  LET Turn(k, i) == fragments[k].response[i].turn
  IN /\ \A k \in DOMAIN fragments : \A i \in Trained(fragments[k]) : Turn(k, i) \in 0 .. n - 1
     /\ \A t \in 0 .. n - 1 :
          \E k \in DOMAIN fragments : \E i \in Trained(fragments[k]) : Turn(k, i) = t
     /\ \A k, l \in DOMAIN fragments :
          \A i \in Trained(fragments[k]), j \in Trained(fragments[l]) :
             Turn(k, i) < Turn(l, j) <=> k < l \/ (k = l /\ i < j)

\* Every message the actor generated is a training target of exactly one
\* fragment, in the order it was generated (_finalize_active_segment: nothing
\* is lost at a cleanup and nothing is trained on twice).
TargetsTrainOnce == phase /= "invalid" => TrainedInOrder(Fragments, Len(given))

\* What precedes a target in its fragment is what the engine was given when it
\* generated the target ("Start a fragment at the exact native prompt sent to
\* the engine"), so its log-probabilities are those of the rollout.
TrainedAsGenerated ==
  \A f \in ToSet(Fragments) : \A i \in Trained(f) :
     f.prompt \o SubSeq(f.response, 1, i - 1) = given[f.response[i].turn + 1]

\* No fragment is longer than the engine's context, although an observation may
\* have gone over it; the next turn never starts from a longer context, and a
\* cleanup that opens a fragment leaves it room to generate: the reserve kept
\* free covers the budget the engine call computes.
FragmentsFit ==
  /\ \A f \in ToSet(req.records) : Tokens(f.prompt) + Tokens(f.response) <= MaxModelLen
  /\ phase \in {"next", "done"} => Tokens(req.ledger) <= MaxModelLen
  /\ phase = "next" => \A works \in BOOLEAN :
       LET r == OpenTurn(Cleanup(req, FALSE, TRUE, works), Len(given))
       IN r.segment.bounds = <<0>> => Budget(r) > 0

\* Compaction loses no public message: each one is in the context exactly once,
\* or its turn belongs to a completed aspect whose memory is there instead.
NothingForgotten ==
  LET Covered(turn) == {t \in Cleaned(req) : turn \in req.past[t + 1].group}
      Times(m) == Cardinality({i \in DOMAIN req.ledger : req.ledger[i] = m})
  IN phase /= "invalid" =>
       \A m \in ToSet(req.archive) :
          IF m.turn = -1 \/ Covered(m.turn) = {} THEN Times(m) = 1
          ELSE /\ Times(m) = 0
               /\ req.past[m.turn + 1].aspect < aspect
               /\ \A t \in Covered(m.turn) : Times(Memory(req, t)) = 1

\* "Partial fragments remain in a separate archive field so quarantine does not
\* erase their ledger" (_quarantine_invalid_request).
QuarantineKeepsTheLedger ==
  [][phase' = "invalid" /\ phase /= "invalid" =>
       /\ exported'.fragments = req.records
       /\ IsPrefix(req.archive, exported'.archive)]_vars

=============================================================================
