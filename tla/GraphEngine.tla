----------------------------- MODULE GraphEngine -----------------------------
(***************************************************************************)
(* GraphEngine.tick (packages/workflow/src/graph-engine/engine.ts): one    *)
(* tick executes the runnable nodes of a workflow graph in rounds until    *)
(* every active node waits, a terminal node settles, or the run fails.     *)
(*                                                                         *)
(* The executors of a round run concurrently; the engine looks at their    *)
(* yields when all of them are back, in the order of the node ids, so the  *)
(* only thing that happens during a round is that the run is aborted.      *)
(* What a node yields, and whether a condition holds, is arbitrary.        *)
(***************************************************************************)
EXTENDS GraphValidation, GraphTick, FiniteSets, FiniteSetsExt

CONSTANTS
    Workflows,      \* the graphs considered, see GraphValidation
    maxSettlements  \* settlement backstop of a tick

\* A run executes the graph of a snapshot, which has passed the validation; the
\* backstop is 1000, no caller passes another.
ASSUME EngineAssumption ==
    /\ Nodes \subseteq Nat /\ IsFiniteSet(Nodes)
    /\ \A g \in Workflows : g.nodes \subseteq Nodes /\ isWorkflowGraph(g) /\ validateGraph(g)
    /\ maxSettlements \in Nat \ {0}

VARIABLES
    graph,         \* the workflow of the run
    active,        \* RunGraphState.activeNodeIds
    waiting,       \* RunGraphState.waitingNodeIds
    loopCounters,  \* transition -> firing count
    activations,   \* node -> times activated
    retries,       \* node -> local retry re-executions
    results,       \* node -> its entries in resultHistory
    pc,            \* "idle" between ticks, "loop", "batch", "fire", "ended"
    input,         \* the argument of the tick: state and satisfied nodes
    pendingSatisfactions, newWaits, settlements, terminal, fatalError, aborted,
    executions,    \* nodes of the round whose yields are still to be taken up,
                   \* in the order of the ids
    settling,      \* the node whose transitions are being fired
    rearrived,     \* history: this tick re-activated a waiting node
    asked          \* nodes that have a wait row

state == <<active, waiting, loopCounters, activations, retries, results>>
locals == <<input, pendingSatisfactions, newWaits, settlements, terminal,
            fatalError, aborted, executions, settling, rearrived>>
vars == <<graph, state, pc, locals, asked>>

-----------------------------------------------------------------------------
(* Joins *)

transitions == graph.transitions
incoming(n) == {i \in DOMAIN transitions : transitions[i].to = n}
outgoingOf(n) == {i \in DOMAIN transitions : transitions[i].from = n}

\* The firings of transition i, and those that have reached n.
firingsOf(i, counters) == {i} \X (1..counters[i])
totalFirings(n, counters) == Cardinality(UNION {firingsOf(i, counters) : i \in incoming(n)})
firedCount(n, counters) == Cardinality({i \in incoming(n) : counters[i] > 0})
maxSingleFirings(n, counters) == Max({counters[i] : i \in incoming(n)} \cup {0})

\* Mutant: the entry's initial activation is counted as a firing.
entryOffset_None(n) == 0

\* The initial activation of the entry comes without a firing.
entryOffset(n) == IF n = graph.entry THEN 1 ELSE 0

joinSatisfied(n, counters) ==
    LET activated == activations[n] - entryOffset(n)
        join == graph.join[n]
    IN  \/ join.mode = "implicit" /\ totalFirings(n, counters) > activated
        \/ join.mode = "any" /\ maxSingleFirings(n, counters) > activated
        \/ /\ join.mode = "all"
           /\ firedCount(n, counters) = Cardinality(incoming(n)) /\ activated = 0
        \/ /\ join.mode = "min"
           /\ firedCount(n, counters) >= join.n /\ activated = 0

activate(n) ==
    /\ activations' = [activations EXCEPT ![n] = @ + 1]
    /\ active' = active \cup {n}
    /\ waiting' = waiting \ {n}
    /\ rearrived' = (rearrived \/ n \in waiting)

-----------------------------------------------------------------------------
(* A tick *)

started == \E n \in graph.nodes : activations[n] > 0

runnable == {n \in active : n \notin waiting \/ n \in pendingSatisfactions}

LoopOver == aborted \/ terminal # "none" \/ fatalError

Status ==
    IF aborted THEN "CANCELLED"
    ELSE IF fatalError THEN "FAILED"
    ELSE IF terminal = "completed" THEN "COMPLETED"
    ELSE IF terminal = "blocked" THEN "BLOCKED"
    ELSE IF terminal = "failed" THEN "FAILED"
    ELSE IF waiting # {} THEN "WAITING"
    ELSE "FAILED"

\* The coordinator delivers satisfactions for nodes that asked before; the
\* node may have moved on.  A crash in a tick leads back to the same call.
StartTick(satisfied) ==
    /\ pc = "idle"
    /\ pc' = "loop"
    /\ input' = [state |-> [saved |-> TRUE, started |-> started,
                            active |-> active, waiting |-> waiting],
                 satisfied |-> satisfied]
    /\ pendingSatisfactions' = satisfied
    /\ newWaits' = {} /\ settlements' = 0 /\ executions' = {}
    /\ terminal' = "none" /\ fatalError' = FALSE /\ aborted' = FALSE
    /\ settling' = [node |-> graph.entry, failed |-> FALSE, rest |-> {}, fired |-> 0]
    /\ IF active = {} /\ waiting = {} /\ ~started
       THEN /\ activations' = [activations EXCEPT ![graph.entry] = @ + 1]
            /\ active' = {graph.entry}
       ELSE UNCHANGED <<activations, active>>
    /\ rearrived' = FALSE
    /\ UNCHANGED <<graph, asked, waiting, loopCounters, retries, results>>

\* The abort signal may come at any time; the loop looks at it once a round.
Abort ==
    /\ pc \in {"loop", "batch", "fire"} /\ ~aborted
    /\ aborted' = TRUE
    /\ UNCHANGED <<graph, asked, state, pc, input, pendingSatisfactions, newWaits, settlements,
                   terminal, fatalError, executions, settling, rearrived>>

Backstop ==
    /\ pc = "loop" /\ ~LoopOver /\ settlements >= maxSettlements
    /\ fatalError' = TRUE
    /\ UNCHANGED <<graph, asked, state, pc, input, pendingSatisfactions, newWaits, settlements,
                   terminal, aborted, executions, settling, rearrived>>

\* Mutant: a satisfaction stays pending after its delivery.
Execute_KeepsSatisfaction ==
    /\ pc = "loop" /\ ~LoopOver /\ settlements < maxSettlements /\ runnable # {}
    /\ executions' = runnable
    /\ waiting' = waiting \ pendingSatisfactions
    /\ pc' = "batch"
    /\ UNCHANGED <<graph, asked, active, loopCounters, activations, retries, results, input, newWaits,
                   settlements, terminal, fatalError, aborted, settling, rearrived,
                   pendingSatisfactions>>

\* Mutant: a node that consumes its satisfaction is still marked as waiting.
Execute_StaysWaiting ==
    /\ pc = "loop" /\ ~LoopOver /\ settlements < maxSettlements /\ runnable # {}
    /\ executions' = runnable
    /\ pendingSatisfactions' = pendingSatisfactions \ waiting
    /\ pc' = "batch"
    /\ UNCHANGED <<graph, asked, state, input, newWaits, settlements, terminal, fatalError,
                   aborted, settling, rearrived>>

\* A round: the runnable nodes execute; a waiting one consumes its satisfaction.
Execute ==
    /\ pc = "loop" /\ ~LoopOver /\ settlements < maxSettlements /\ runnable # {}
    /\ executions' = runnable
    /\ waiting' = waiting \ pendingSatisfactions
    /\ pendingSatisfactions' = pendingSatisfactions \ waiting
    /\ pc' = "batch"
    /\ UNCHANGED <<graph, asked, active, loopCounters, activations, retries, results, input, newWaits,
                   settlements, terminal, fatalError, aborted, settling, rearrived>>

\* The node whose yield is taken up next.
current == Min(executions)
attempt(n) == activations[n] + retries[n]

\* Mutant: a node that waits is no longer active.
TakeWait_Deactivates ==
    /\ pc = "batch" /\ executions # {} /\ ~isTerminalNode(graph, current)
    /\ current \notin waiting
    /\ active' = active \ {current}
    /\ waiting' = waiting \cup {current}
    /\ newWaits' = newWaits \cup {current}
    /\ executions' = executions \ {current}
    /\ UNCHANGED <<graph, asked, loopCounters, activations, retries, results, pc, input,
                   pendingSatisfactions, settlements, terminal, fatalError, aborted,
                   settling, rearrived>>

\* A node yields a wait, superseding one it yielded earlier in the tick.
TakeWait ==
    /\ pc = "batch" /\ executions # {} /\ ~isTerminalNode(graph, current)
    /\ IF current \in waiting THEN UNCHANGED <<waiting, newWaits>>
       ELSE /\ waiting' = waiting \cup {current}
            /\ newWaits' = newWaits \cup {current}
    /\ executions' = executions \ {current}
    /\ UNCHANGED <<graph, asked, active, loopCounters, activations, retries, results, pc, input,
                   pendingSatisfactions, settlements, terminal, fatalError, aborted,
                   settling, rearrived>>

\* settleNode, up to the transitions: a terminal node ends the run, a failed
\* one is executed again while its retry policy allows.
TakeResult(failed) ==
    LET retry == failed /\ attempt(current) < graph.maxAttempts[current]
    IN
    /\ pc = "batch" /\ executions # {}
    /\ results' = [results EXCEPT ![current] = @ + 1]
    /\ settlements' = settlements + 1
    /\ waiting' = waiting \ {current}
    /\ CASE isTerminalNode(graph, current) ->
              /\ terminal' = graph.kind[current]
              /\ active' = active \ {current}
              /\ executions' = {}
              /\ pc' = "loop"
              /\ UNCHANGED <<retries, settling>>
         [] ~isTerminalNode(graph, current) /\ retry ->
              /\ retries' = [retries EXCEPT ![current] = @ + 1]
              /\ active' = active \cup {current}
              /\ executions' = executions \ {current}
              /\ UNCHANGED <<terminal, pc, settling>>
         [] OTHER ->
              /\ active' = active \ {current}
              /\ executions' = executions \ {current}
              /\ settling' = [node |-> current, failed |-> failed,
                              rest |-> outgoingOf(current), fired |-> 0]
              /\ pc' = "fire"
              /\ UNCHANGED <<retries, terminal>>
    /\ UNCHANGED <<graph, asked, loopCounters, activations, input, pendingSatisfactions, newWaits,
                   fatalError, aborted, rearrived>>

\* The run fails at once; the rest of the round is dropped.
Fatal ==
    /\ fatalError' = TRUE
    /\ executions' = {}
    /\ pc' = "loop"
    /\ UNCHANGED <<state, settling, rearrived>>

\* loopBound: the firings allowed in a run.
BoundReached(i) == transitions[i].loopBound > 0 /\ loopCounters[i] >= transitions[i].loopBound

\* The condition of transition i holds: it fires, and its target is activated
\* when its join is satisfied.
Pass(i) ==
    LET counters == [loopCounters EXCEPT ![i] = @ + 1]
        target == transitions[i].to
    IN
    /\ loopCounters' = counters
    /\ IF joinSatisfied(target, counters) THEN activate(target)
       ELSE UNCHANGED <<activations, active, waiting, rearrived>>
    /\ settling' = [settling EXCEPT !.rest = @ \ {i}, !.fired = @ + 1]
    /\ UNCHANGED <<retries, results, pc, fatalError, executions>>

\* The next declared transition of the settled node.
Fire ==
    LET i == Min(settling.rest) IN
    /\ pc = "fire" /\ settling.rest # {}
    /\ \/ BoundReached(i) /\ Fatal
       \/ ~BoundReached(i) /\ Pass(i)
       \/ \* the condition does not hold
          /\ settling' = [settling EXCEPT !.rest = @ \ {i}]
          /\ UNCHANGED <<state, pc, fatalError, executions, rearrived>>
    /\ UNCHANGED <<graph, asked, input, pendingSatisfactions, newWaits, settlements, terminal, aborted>>

\* A failure no transition takes up fails the run.
Settled ==
    /\ pc = "fire" /\ settling.rest = {}
    /\ \/ settling.failed /\ settling.fired = 0 /\ Fatal
       \/ /\ ~(settling.failed /\ settling.fired = 0)
          /\ pc' = "batch"
          /\ UNCHANGED <<state, fatalError, executions, settling, rearrived>>
    /\ UNCHANGED <<graph, asked, input, pendingSatisfactions, newWaits, settlements, terminal, aborted>>

RoundOver ==
    /\ pc = "batch" /\ executions = {}
    /\ pc' = "loop"
    /\ UNCHANGED <<graph, asked, state, locals>>

\* The loop has come to its end.
Finished == pc = "loop" /\ (LoopOver \/ (settlements < maxSettlements /\ runnable = {}))

EndTick ==
    /\ Finished
    /\ IF Status = "WAITING"
       THEN pc' = "idle" /\ asked' = asked \cup newWaits
       ELSE pc' = "ended" /\ UNCHANGED asked
    /\ UNCHANGED <<graph, state, locals>>

-----------------------------------------------------------------------------

\* A run of g, in its initial graph state.
Fresh(g) ==
    /\ graph = g
    /\ active = {} /\ waiting = {}
    /\ loopCounters = [i \in DOMAIN g.transitions |-> 0]
    /\ activations = [n \in g.nodes |-> 0]
    /\ retries = [n \in g.nodes |-> 0]
    /\ results = [n \in g.nodes |-> 0]
    /\ pc = "idle"
    /\ input = [state |-> initialRunGraphState, satisfied |-> {}]
    /\ pendingSatisfactions = {} /\ newWaits = {} /\ settlements = 0
    /\ terminal = "none" /\ fatalError = FALSE /\ aborted = FALSE
    /\ executions = {} /\ rearrived = FALSE /\ asked = {}
    /\ settling = [node |-> g.entry, failed |-> FALSE, rest |-> {}, fired |-> 0]

Init == \E g \in Workflows : Fresh(g)

Step ==
    \/ Backstop \/ Execute \/ TakeWait \/ TakeResult(TRUE) \/ TakeResult(FALSE)
    \/ Fire \/ Settled \/ RoundOver \/ EndTick

Next ==
    \/ \E satisfied \in SUBSET asked : StartTick(satisfied)
    \/ Abort
    \/ Step

Spec == Init /\ [][Next]_vars

\* Executors return, within the timeouts of the agents and commands they run.
FairSpec == Spec /\ WF_vars(Step)

-----------------------------------------------------------------------------
(* Properties *)

TypeOK ==
    /\ active \subseteq graph.nodes
    /\ waiting \subseteq active
    /\ loopCounters \in [DOMAIN transitions -> Nat]
    /\ {activations, retries, results} \subseteq [graph.nodes -> Nat]
    /\ pc \in {"idle", "loop", "batch", "fire", "ended"}
    /\ input \in [state : GraphState, satisfied : SUBSET graph.nodes]
    /\ pendingSatisfactions \subseteq input.satisfied
    /\ {newWaits, asked} \subseteq SUBSET graph.nodes
    /\ settlements \in 0..maxSettlements + Cardinality(graph.nodes)
    /\ terminal \in {"none", "completed", "failed", "blocked"}
    /\ {fatalError, aborted, rearrived} \subseteq BOOLEAN
    /\ executions \subseteq graph.nodes
    /\ settling \in [node : graph.nodes, failed : BOOLEAN,
                     rest : SUBSET DOMAIN transitions, fired : Nat]

\* What a tick hands to GraphRunCoordinator.drive is one of the outcomes the
\* coordinator is modelled to expect (module GraphTick): nodes without an answer
\* keep waiting, every new waiting node of a suspended run is among the
\* reported waits, a satisfaction is handed to its node, and nothing else.
TickWithinContract ==
    Finished =>
        LET outcome == Outcome(Status, Ticked(active, waiting),
                               IF Status = "WAITING" THEN newWaits ELSE {},
                               input.satisfied \ pendingSatisfactions)
        IN  outcome \in Outcomes(input.state, input.satisfied, aborted,
                                 {"raceToEnd"} \cup (IF rearrived THEN {"rearrive"} ELSE {}))

\* The activations the join of n calls for, with these firings.
calledFor(n, counters) ==
    LET join == graph.join[n] IN
    CASE join.mode = "implicit" -> totalFirings(n, counters)
      [] join.mode = "any" -> maxSingleFirings(n, counters)
      [] join.mode = "all" ->
           IF incoming(n) # {} /\ \A i \in incoming(n) : counters[i] > 0 THEN 1 ELSE 0
      [] join.mode = "min" -> IF firedCount(n, counters) >= join.n THEN 1 ELSE 0

\* The activations of a node are those its join calls for, however firings,
\* retries and loop re-entries interleave: one per firing without a join, one
\* per arrival wave for 'any', one when enough transitions fired for 'all' and
\* 'min' (durable-workflows.md, Joins).
JoinAccounting ==
    \A n \in graph.nodes :
        activations[n] = calledFor(n, loopCounters) + (IF n = graph.entry /\ started THEN 1 ELSE 0)

\* An accepted tick ends: nodes that answer a satisfaction by asking again, loops
\* and retries never keep it running forever.
TickEnds == pc = "loop" ~> pc \in {"idle", "ended"}
=============================================================================
