---------------------------- MODULE SamplingParams ----------------------------
(***************************************************************************)
(* The sampling parameters the requests of one SGLang worker share         *)
(* (update_sampling_params, _handle_engine_call and _extract_actor_aspects *)
(* in verl/workers/rollout/sglang_rollout/sglang_rollout_customized.py).   *)
(*                                                                         *)
(* self.sampling_params is one dictionary.  A `with` block saves the keys  *)
(* it overrides, overrides them and restores what it saved on exit; the    *)
(* engine call inside it is awaited, so blocks of other requests open and  *)
(* close meanwhile, in any order.  The call is passed the dictionary       *)
(* itself: the engine, which is not in the repository, reads it at some    *)
(* moment before it answers, and finds what it holds then.                 *)
(*                                                                         *)
(* Two keys stand for the two kinds the code has: the token budget, which  *)
(* every call overrides, and the stop marker, which only the reasoning     *)
(* phase does.  Values are only told apart by whose they are.              *)
(***************************************************************************)
EXTENDS Integers, Sequences, SequencesExt, FiniteSets

CONSTANTS
    Request,   \* concurrent rollouts (_semaphore_wrapped_rollout)
    Default,   \* the value _init_sampling_params gave a key
    Marker,    \* stop = "</think>"
    Unread,    \* the engine has not read the parameters of the call yet
    MaxTurns   \* bound on the turns explored

ASSUME ParamsAssumption ==
    /\ IsFiniteSet(Request)
    /\ Default \notin Request \cup {Marker}
    /\ Unread \notin [{"budget", "stop"} -> Request \cup {Default, Marker}]
    /\ MaxTurns \in Nat

VARIABLES
    params,    \* self.sampling_params
    open,      \* the `with` blocks, in the order they were entered
    phase,     \* what each request does next
    turns,     \* turns each request has started
    given,     \* what the engine has read for the call each request is in
    crossed    \* keys for which blocks were not left in nested order (history)

vars == <<params, open, phase, turns, given, crossed>>

Key == {"budget", "stop"}

Phase == {"extraction", "reasoning", "tool_call", "done"}

Defaults == [k \in Key |-> Default]

\* The value a request passes for a key; the budget is its own.
Argument(r, k) == IF k = "budget" THEN r ELSE Marker

\* The arguments a request passes in a phase.
Overrides(r, ph) ==
    [k \in IF ph = "reasoning" THEN Key ELSE {"budget"} |-> Argument(r, k)]

InCall(r) == \E i \in DOMAIN open : open[i].request = r

\* A request awaits its calls one after the other.
CanCall(r) ==
    /\ ~InCall(r)
    /\ phase[r] # "done"
    /\ phase[r] = "reasoning" => turns[r] < MaxTurns

Updated(args) == [k \in Key |-> IF k \in DOMAIN args THEN args[k] ELSE params[k]]

\* What may follow a call that returned: planning leads to the first turn,
\* later a protocol or length error or the end of the episode may stop it.
Following(r) ==
    CASE phase[r] = "extraction" -> {"reasoning"}
      [] phase[r] = "reasoning"  -> {"tool_call", "done"}
      [] phase[r] = "tool_call"  -> {"reasoning", "done"}

-----------------------------------------------------------------------------

Init ==
    /\ params = Defaults
    /\ open = <<>>
    /\ phase \in [Request -> {"extraction", "reasoning"}]
    /\ turns = [r \in Request |-> 0]
    /\ given = [r \in Request |-> Unread]
    /\ crossed = {}

\* The block is entered and the engine is called with the dictionary itself.
Enter(r) ==
    LET args == Overrides(r, phase[r])
    IN  /\ CanCall(r)
        /\ open' = Append(open, [request |-> r,
                                 saved   |-> [k \in DOMAIN args |-> params[k]]])
        /\ params' = Updated(args)
        /\ turns' = [turns EXCEPT ![r] = IF phase[r] = "reasoning" THEN @ + 1 ELSE @]
        /\ UNCHANGED <<phase, crossed, given>>

\* The engine turns the dictionary into the parameters of the call.
EngineReads(r) ==
    /\ InCall(r)
    /\ given[r] = Unread
    /\ given' = [given EXCEPT ![r] = params]
    /\ UNCHANGED <<params, open, phase, turns, crossed>>

\* Mutant: leaving puts the engine's defaults back.
LeaveToDefaults(i) ==
    /\ params' = Updated([k \in DOMAIN open[i].saved |-> Default])
    /\ open' = RemoveAt(open, i)
    /\ crossed' = crossed \cup
         {k \in DOMAIN open[i].saved :
            \E j \in DOMAIN open : j > i /\ k \in DOMAIN open[j].saved}
    /\ given' = [given EXCEPT ![open[i].request] = Unread]
    /\ UNCHANGED turns

\* Leaving the i-th block: `finally` restores what it saved.
Leave(i) ==
    /\ params' = Updated(open[i].saved)
    /\ open' = RemoveAt(open, i)
    /\ crossed' = crossed \cup
         {k \in DOMAIN open[i].saved :
            \E j \in DOMAIN open : j > i /\ k \in DOMAIN open[j].saved}
    /\ given' = [given EXCEPT ![open[i].request] = Unread]
    /\ UNCHANGED turns

\* The engine returned, which it does only for parameters it has read.
Exit(r) ==
    \E i \in DOMAIN open :
      /\ open[i].request = r
      /\ given[r] # Unread
      /\ Leave(i)
      /\ \E next \in Following(r) : phase' = [phase EXCEPT ![r] = next]

ExitOnErrorWithoutFinally(r) ==
    \E i \in DOMAIN open :
      /\ open[i].request = r
      /\ open' = RemoveAt(open, i)
      /\ phase' = [phase EXCEPT ![r] = IF @ = "extraction" THEN "reasoning"
                                                          ELSE "done"]
      /\ given' = [given EXCEPT ![r] = Unread]
      /\ UNCHANGED <<params, crossed, turns>>

\* The engine raised, at any moment: fatal for the request, except while it is planning.
ExitOnError(r) ==
    \E i \in DOMAIN open :
      /\ open[i].request = r
      /\ Leave(i)
      /\ phase' = [phase EXCEPT ![r] = IF @ = "extraction" THEN "reasoning"
                                                          ELSE "done"]

Next == \E r \in Request : Enter(r) \/ EngineReads(r) \/ Exit(r) \/ ExitOnError(r)

Spec == Init /\ [][Next]_vars

-----------------------------------------------------------------------------
(* Properties *)

Value == Request \cup {Default, Marker}

TypeOK ==
    /\ params \in [Key -> Value]
    /\ phase \in [Request -> Phase]
    /\ turns \in [Request -> 0..MaxTurns]
    /\ given \in [Request -> [Key -> Value] \cup {Unread}]
    /\ crossed \subseteq Key
    /\ \A i \in DOMAIN open : open[i].request \in Request
    /\ \A i, j \in DOMAIN open : open[i].request = open[j].request => i = j

\* The blocks that override a key, and the last entered of them.
Blocks(k) == {i \in DOMAIN open : k \in DOMAIN open[i].saved}

Innermost(i, k) == i \in Blocks(k) /\ \A j \in Blocks(k) : j <= i

\* What the engine reads, whenever it does, is what the call passed for every
\* key whose blocks were nested in time and whose innermost block is the call's:
\* the blocks entered and left inside it put its values back.
ReadsOwnArguments ==
    [][\A i \in DOMAIN open, k \in Key \ crossed :
         LET r == open[i].request
         IN  given[r] = Unread /\ given'[r] # Unread /\ Innermost(i, k)
               => given'[r][k] = Argument(r, k)]_vars

\* async_generate is passed the shared dictionary, so an engine that suspends
\* before it reads finds the values of a request that called meanwhile.  No run
\* checks this, and TLC violates it as an INVARIANT of MCSamplingParams.cfg.
OwnArgumentsArrive ==
    \A i \in DOMAIN open :
      LET r == open[i].request
      IN  given[r] # Unread =>
            \A k \in DOMAIN open[i].saved : given[r][k] = Argument(r, k)

\* The promise of update_sampling_params holds for every key whose blocks were
\* nested in time, also when calls fail: once all of them are left, the key has
\* its original value.
NestedBlocksRestore ==
    \A k \in Key \ crossed :
      Blocks(k) = {} => params[k] = Default

\* update_sampling_params: "Parameters are automatically fall back to their
\* original values upon exiting the block."  Overlapping blocks that are not
\* nested leave the marker behind; no run checks this, and TLC violates it as an
\* INVARIANT of MCSamplingParams.cfg.
BlocksRestore == open = <<>> => params["stop"] = Default

=============================================================================
