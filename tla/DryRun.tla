-------------------------------- MODULE DryRun --------------------------------
(***************************************************************************)
(* evaluateWorkflow (packages/orchestrator/src/graph/evaluate.ts): before  *)
(* a run is started its path through the graph is predicted.  walkGraph    *)
(* has a queue where the engine has rounds, predicts what nodes settle     *)
(* with, and stops where it cannot tell.  The engine then executes the     *)
(* same graph in the world that was predicted: every node settles as       *)
(* predicted, a condition depends on how its node settled.                 *)
(***************************************************************************)
EXTENDS GraphEngine, SequencesExt

CONSTANTS
    Worlds(_),      \* graph -> the worlds considered: [status, condition]
    WALK_SETTLEMENT_BACKSTOP

ASSUME WorldsAssumption ==
    /\ \A g \in Workflows : Worlds(g) \subseteq
          [status : [g.nodes -> {"succeeded", "failed", "unknown"}],
           condition : [DOMAIN g.transitions -> {"always", "succeeded", "failed"}]]
    /\ WALK_SETTLEMENT_BACKSTOP \in Nat

VARIABLES
    world,  \* node -> succeeded, failed or unknown; transition -> always, succeeded, failed
    walk    \* the walk: its queue, path, counters and the reason it stopped

dryVars == <<world, walk>>

Walk == [queue |-> <<>>, path |-> <<>>, wide |-> FALSE, counters |-> loopCounters,
         activations |-> activations, stop |-> "off", at |-> graph.entry]

\* A run nobody asked a prediction for.
TickInit == Init /\ world = [status |-> <<>>, condition |-> <<>>] /\ walk = Walk
TickNext == walk.stop = "off" /\ Next /\ UNCHANGED dryVars
TickStep == walk.stop = "off" /\ Step /\ UNCHANGED dryVars

DryInit ==
    /\ Init
    /\ world \in Worlds(graph)
    /\ walk = [Walk EXCEPT !.stop = "none", !.queue = <<graph.entry>>,
                           !.activations[graph.entry] = 1]

holds(i, failed) == world.condition[i] \in {"always", IF failed THEN "failed" ELSE "succeeded"}

\* A join that is not declared is taken for 'any'.
walkJoinSatisfied(w, n) ==
    LET activated == w.activations[n] - entryOffset(n)
        join == graph.join[n]
        fired == firedCount(n, w.counters)
    IN  CASE join.mode \in {"implicit", "any"} -> maxSingleFirings(n, w.counters) > activated
          [] join.mode = "all" -> fired = Cardinality(incoming(n)) /\ activated = 0
          [] join.mode = "min" -> fired >= join.n /\ activated = 0

walkActivate(w, n) ==
    [w EXCEPT !.activations[n] = @ + 1, !.queue = Append(@, n)]

\* Mutant: the walk lets a transition fire once more than its bound.
walkFire_PastBound(w, i) ==
    LET bound == transitions[i].loopBound
        fired == [w EXCEPT !.counters[i] = @ + 1]
        target == transitions[i].to
    IN  IF w.stop # "none" \/ ~holds(i, world.status[w.at] = "failed") THEN w
        ELSE IF bound > 0 /\ w.counters[i] > bound THEN [w EXCEPT !.stop = "loop-bound"]
        ELSE IF walkJoinSatisfied(fired, target) THEN walkActivate(fired, target) ELSE fired

\* One outgoing transition of the settled node; nothing follows a reached bound.
walkFire(w, i) ==
    LET bound == transitions[i].loopBound
        fired == [w EXCEPT !.counters[i] = @ + 1]
        target == transitions[i].to
    IN  IF w.stop # "none" \/ ~holds(i, world.status[w.at] = "failed") THEN w
        ELSE IF bound > 0 /\ w.counters[i] >= bound THEN [w EXCEPT !.stop = "loop-bound"]
        ELSE IF walkJoinSatisfied(fired, target) THEN walkActivate(fired, target) ELSE fired

\* The transitions of the settled node in their order: what the walk is after each.
walkFireAll(settled) ==
    LET after[i \in 0..Len(transitions)] ==
          IF i = 0 THEN settled
          ELSE IF i \in outgoingOf(settled.at) THEN walkFire(after[i - 1], i) ELSE after[i - 1]
    IN  after[Len(transitions)]

\* Predicted from hypothetical outputs, decidable gates, assumed actions and guards.
walkSettle(w) ==
    LET settled == [w EXCEPT !.path = Append(@, w.at)]
        after == walkFireAll(settled)
    IN  IF isTerminalNode(graph, w.at) THEN [settled EXCEPT !.stop = "terminal"]
        ELSE IF /\ world.status[w.at] = "failed"
                /\ after.counters = settled.counters /\ after.stop = "none"
        THEN [after EXCEPT !.stop = "failed"]
        ELSE after

\* The next node is taken from the queue; wide tells whether there ever was a choice.
shift(w) == [w EXCEPT !.at = Head(w.queue), !.queue = Tail(@),
                      !.wide = @ \/ Len(w.queue) > 1]

walkNode(w) ==
    IF w.queue = <<>> THEN [w EXCEPT !.stop = "stalled"]
    ELSE IF Len(w.path) >= WALK_SETTLEMENT_BACKSTOP THEN [w EXCEPT !.stop = "settlement-limit"]
    ELSE IF world.status[Head(w.queue)] = "unknown" THEN [shift(w) EXCEPT !.stop = "indeterminate"]
    ELSE walkSettle(shift(w))

walkGraph ==
    /\ walk.stop = "none"
    /\ walk' = walkNode(walk)
    /\ UNCHANGED <<vars, world>>

--------------------------------------------------------------------------------
(* The run that was predicted, without abort and without waits                  *)

AsPredicted ==
    \/ StartTick({}) \/ Backstop \/ Execute \/ RoundOver \/ Settled \/ EndTick
    \/ \E failed \in BOOLEAN :
         executions # {} /\ world.status[current] = (IF failed THEN "failed" ELSE "succeeded")
         /\ TakeResult(failed)
    \/ /\ Fire
       /\ (loopCounters' # loopCounters \/ fatalError') <=> holds(Min(settling.rest), settling.failed)

RunPredicted ==
    /\ walk.stop \notin {"off", "none"}
    /\ AsPredicted
    /\ UNCHANGED dryVars

DryNext == walkGraph \/ RunPredicted
DrySpec == DryInit /\ [][DryNext]_<<vars, dryVars>>

--------------------------------------------------------------------------------
(* Properties                                                                   *)

walked(n) == Cardinality({k \in DOMAIN walk.path : walk.path[k] = n})

\* Every join with a choice of arrivals says which of them it takes.
JoinsDeclared == \A n \in graph.nodes :
    graph.join[n].mode = "implicit" => Cardinality(incoming(n)) <= 1

\* A run does what its dry run said, in a world that is as it was predicted, where
\* the graph declares its joins and the walk never had two nodes to choose from: it
\* executes no node that was not on the path and ends the way the path ended
\* ("Mirrors the graph engine's activation, effect, transition, join, and
\* loop-bound semantics", evaluate.ts).
PredictionKept ==
    walk.stop \notin {"off", "none", "settlement-limit"} /\ ~walk.wide /\ JoinsDeclared =>
        /\ \A n \in graph.nodes : results[n] - retries[n] <= walked(n)
        /\ pc = "ended" /\ settlements < maxSettlements =>
             /\ \A n \in graph.nodes : results[n] - retries[n] = walked(n)
             /\ terminal = IF walk.stop = "terminal" THEN graph.kind[walk.at] ELSE "none"
===============================================================================
