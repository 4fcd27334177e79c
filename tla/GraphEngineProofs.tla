--------------------------- MODULE GraphEngineProofs ---------------------------
(***************************************************************************)
(* Safety of the ticks of GraphEngine, for every set of valid workflow     *)
(* graphs and every backstop: what the engine counts, what it hands back   *)
(* to the coordinator, and that it does what a dry run predicted; and of   *)
(* the store its state is kept in.                                         *)
(***************************************************************************)
EXTENDS DryRun, Stores, FiniteSetTheorems, SequenceTheorems, WellFoundedInduction, TLAPS

--------------------------------------------------------------------------------
(* Graphs and the least element of a set of numbers *)

less == OpToRel(<, Nat)

\* The engine takes up nodes and transitions in their order: there is a next one.
LEMMA LeastExists ==
    ASSUME NEW S, S \subseteq Nat, S # {}
    PROVE  Min(S) \in S /\ \A y \in S : Min(S) =< y
<1>1. IsWellFoundedOn(less, Nat)
  BY NatLessThanWellFounded DEF OpToRel, less
<1>2. PICK x \in S : \A y \in S : ~ (<<y, x>> \in less)
  BY <1>1, WFMin
<1>3. \A y \in S : x =< y
  <2> SUFFICES ASSUME NEW y \in S PROVE x =< y
    OBVIOUS
  <2>1. ~ (<<y, x>> \in less) /\ x \in Nat /\ y \in Nat
    BY <1>2
  <2>2. ~ (y < x)
    BY <2>1 DEF less, OpToRel
  <2> QED
    BY <2>1, <2>2
<1> QED
  BY <1>3 DEF Min

\* What isWorkflowGraph and validateGraph say of the graph of a run.
LEMMA GraphFacts ==
    ASSUME graph \in Workflows
    PROVE  /\ graph.nodes \subseteq Nodes /\ graph.nodes \subseteq Nat /\ IsFiniteSet(graph.nodes)
           /\ graph.entry \in graph.nodes
           /\ graph.kind \in [graph.nodes -> {"work", "completed", "failed", "blocked"}]
           /\ graph.join \in [graph.nodes -> [mode : {"implicit", "any", "all", "min"}, n : Nat]]
           /\ \A n \in graph.nodes : graph.join[n].mode = "min" => graph.join[n].n >= 1
           /\ DOMAIN transitions \subseteq Nat /\ IsFiniteSet(DOMAIN transitions)
           /\ \A i \in DOMAIN transitions : /\ transitions[i].from \in graph.nodes
                                            /\ transitions[i].to \in graph.nodes
                                            /\ transitions[i].loopBound \in Nat
<1>1. graph.nodes \subseteq Nodes /\ isWorkflowGraph(graph) /\ validateGraph(graph)
  BY EngineAssumption
<1>2. IsFiniteSet(graph.nodes) /\ graph.nodes \subseteq Nat
  BY <1>1, EngineAssumption, FS_Subset
<1>3. transitions \in Seq([from : graph.nodes, to : graph.nodes, loopBound : Nat])
  BY <1>1 DEF isWorkflowGraph, transitions
<1>4. DOMAIN transitions = 1..Len(transitions) /\ Len(transitions) \in Nat
  BY <1>3
<1>5. IsFiniteSet(DOMAIN transitions)
  BY <1>4, FS_Interval
<1>6. \A i \in DOMAIN transitions : /\ transitions[i].from \in graph.nodes
                                     /\ transitions[i].to \in graph.nodes
                                     /\ transitions[i].loopBound \in Nat
  <2> SUFFICES ASSUME NEW i \in DOMAIN transitions
               PROVE  transitions[i] \in [from : graph.nodes, to : graph.nodes, loopBound : Nat]
    OBVIOUS
  <2>1. \A S : transitions \in Seq(S) => transitions[i] \in S
    BY <1>4
  <2> QED
    BY <1>3, <2>1
<1>7. /\ graph.entry \in graph.nodes
      /\ \A n \in graph.nodes : graph.join[n].mode = "min" => graph.join[n].n >= 1
  BY <1>1 DEF validateGraph
<1>8. /\ graph.kind \in [graph.nodes -> {"work", "completed", "failed", "blocked"}]
      /\ graph.join \in [graph.nodes -> [mode : {"implicit", "any", "all", "min"}, n : Nat]]
  BY <1>1 DEF isWorkflowGraph
<1> QED
  BY <1>1, <1>2, <1>4, <1>5, <1>6, <1>7, <1>8

LEMMA IncomingFinite ==
    ASSUME graph \in Workflows, NEW n
    PROVE  incoming(n) \subseteq DOMAIN transitions /\ IsFiniteSet(incoming(n))
BY GraphFacts, FS_Subset DEF incoming

--------------------------------------------------------------------------------
(* The inductive invariant *)

\* Before the first tick nothing has happened.
Unstarted ==
    ~started => /\ pc = "idle" /\ active = {}
                /\ \A i \in DOMAIN transitions : loopCounters[i] = 0

\* The nodes of a round are active and do not wait, and each settles at most once.
RoundKept ==
    /\ executions \subseteq active /\ executions \cap waiting = {}
    /\ pc \notin {"batch", "fire"} => executions = {}
    /\ pc \in {"batch", "fire"} =>
         settlements + Cardinality(executions) < maxSettlements + Cardinality(graph.nodes)

TickInv == graph \in Workflows /\ TypeOK /\ Unstarted /\ RoundKept

LEMMA Begins == Init => TickInv
<1> SUFFICES ASSUME NEW g \in Workflows, Fresh(g) PROVE TickInv
  BY DEF Init
<1>1. graph = g /\ graph \in Workflows
  BY DEF Fresh
<1> USE DEF Fresh
<1>2. TypeOK
  <2>1. loopCounters \in [DOMAIN transitions -> Nat] /\ {activations, retries, results} \subseteq [graph.nodes -> Nat]
    BY <1>1 DEF transitions
  <2>2. input \in [state : GraphState, satisfied : SUBSET graph.nodes]
    BY <1>1 DEF GraphState, initialRunGraphState, NoGraph
  <2>3. settling \in [node : graph.nodes, failed : BOOLEAN, rest : SUBSET DOMAIN transitions, fired : Nat]
    BY <1>1, GraphFacts
  <2>4. settlements \in 0..maxSettlements + Cardinality(graph.nodes)
    BY <1>1, GraphFacts, FS_CardinalityType, EngineAssumption
  <2> QED
    BY <1>1, <2>1, <2>2, <2>3, <2>4 DEF TypeOK
<1>3. Unstarted
  BY <1>1 DEF Unstarted, transitions
<1>4. RoundKept
  BY <1>1 DEF RoundKept
<1> QED
  BY <1>1, <1>2, <1>3, <1>4 DEF TickInv

--------------------------------------------------------------------------------
(* Every step keeps it *)

LEMMA CurrentNode ==
    ASSUME TickInv, executions # {}
    PROVE  current \in executions /\ current \in graph.nodes /\ current \in active
BY LeastExists, GraphFacts DEF current, TickInv, TypeOK, RoundKept

LEMMA NextTransition ==
    ASSUME TickInv, settling.rest # {}
    PROVE  Min(settling.rest) \in settling.rest /\ Min(settling.rest) \in DOMAIN transitions
<1>1. settling.rest \subseteq DOMAIN transitions /\ graph \in Workflows
  BY DEF TickInv, TypeOK
<1>2. settling.rest \subseteq Nat
  BY <1>1, GraphFacts
<1> QED
  BY <1>1, <1>2, LeastExists

LEMMA Counts ==
    ASSUME TickInv
    PROVE  /\ Cardinality(graph.nodes) \in Nat /\ settlements \in Nat
           /\ IsFiniteSet(executions) /\ Cardinality(executions) \in Nat
<1>1. graph \in Workflows /\ executions \subseteq graph.nodes
  BY DEF TickInv, TypeOK
<1>2. settlements \in Nat
  BY DEF TickInv, TypeOK
<1> QED
  BY <1>1, <1>2, GraphFacts, FS_Subset, FS_CardinalityType

\* What happens in a tick happens to a run that has started.
LEMMA TickStarted ==
    ASSUME TickInv, pc # "idle" PROVE started
BY DEF TickInv, Unstarted

LEMMA StartTickKeeps ==
    ASSUME TickInv, NEW satisfied \in SUBSET asked, StartTick(satisfied)
    PROVE  TickInv'
<1> USE DEF TickInv
<1>1. graph' = graph /\ transitions' = transitions /\ graph \in Workflows /\ graph.entry \in graph.nodes
  BY GraphFacts DEF StartTick, transitions
<1>2. satisfied \subseteq graph.nodes /\ graph.nodes \subseteq Nodes
  BY GraphFacts DEF TypeOK
<1>3. /\ activations \in [graph.nodes -> Nat] /\ activations' \in [graph.nodes -> Nat]
      /\ active' \subseteq graph.nodes /\ waiting' \subseteq active'
  BY <1>1 DEF TypeOK, StartTick
<1>4. started'
  <2>1. CASE active = {} /\ waiting = {} /\ ~started
    <3>1. activations' = [activations EXCEPT ![graph.entry] = @ + 1]
      BY <2>1 DEF StartTick
    <3> QED
      BY <1>1, <1>3, <3>1 DEF started
  <2>2. CASE ~ (active = {} /\ waiting = {} /\ ~started)
    <3>1. activations' = activations
      BY <2>2 DEF StartTick
    <3>2. started
      BY <2>2 DEF Unstarted, TypeOK
    <3> QED
      BY <1>1, <3>1, <3>2 DEF started
  <2> QED
    BY <2>1, <2>2
<1>5. input' \in [state : GraphState, satisfied : SUBSET graph.nodes]
  <2>1. started \in BOOLEAN
    BY DEF started
  <2>2. active \in SUBSET Nodes /\ waiting \in SUBSET Nodes
    BY <1>2 DEF TypeOK
  <2> QED
    BY <1>2, <2>1, <2>2 DEF StartTick, GraphState
<1>6. settlements' \in 0..maxSettlements + Cardinality(graph.nodes)
  BY Counts, EngineAssumption DEF StartTick
<1>7. settling' \in [node : graph.nodes, failed : BOOLEAN, rest : SUBSET DOMAIN transitions, fired : Nat]
  BY <1>1 DEF StartTick
<1>8. TypeOK'
  BY <1>1, <1>2, <1>3, <1>5, <1>6, <1>7 DEF TypeOK, StartTick
<1>9. RoundKept'
  BY DEF StartTick, RoundKept
<1> QED
  BY <1>1, <1>4, <1>8, <1>9 DEF Unstarted

LEMMA AbortKeeps ==
    ASSUME TickInv, Abort \/ Backstop
    PROVE  TickInv'
<1>1. graph' = graph /\ transitions' = transitions
  BY DEF Abort, Backstop, transitions
<1>2. TypeOK'
  BY <1>1 DEF TickInv, TypeOK, Abort, Backstop, state
<1>3. Unstarted' /\ RoundKept'
  BY <1>1 DEF TickInv, Unstarted, RoundKept, Abort, Backstop, state, started
<1> QED
  BY <1>1, <1>2, <1>3 DEF TickInv

LEMMA ExecuteKeeps ==
    ASSUME TickInv, Execute
    PROVE  TickInv'
<1>1. graph' = graph /\ transitions' = transitions /\ graph \in Workflows
  BY DEF Execute, transitions, TickInv
<1>2. runnable \subseteq active /\ runnable \cap (waiting \ pendingSatisfactions) = {}
  BY DEF runnable
<1>3. TypeOK'
  BY <1>1, <1>2 DEF TickInv, TypeOK, Execute
<1>4. Unstarted'
  BY <1>1, TickStarted DEF Execute, Unstarted, started
<1>5. Cardinality(runnable) \in Nat /\ Cardinality(runnable) <= Cardinality(graph.nodes)
  <2>1. runnable \subseteq graph.nodes
    BY <1>2 DEF TickInv, TypeOK
  <2> QED
    BY <1>1, <2>1, GraphFacts, FS_Subset, FS_CardinalityType
<1>6. RoundKept'
  BY <1>1, <1>2, <1>5, Counts, EngineAssumption DEF Execute, RoundKept
<1> QED
  BY <1>1, <1>3, <1>4, <1>6 DEF TickInv

LEMMA OneFewer ==
    ASSUME TickInv, executions # {}
    PROVE  /\ Cardinality(executions \ {current}) \in Nat
           /\ Cardinality(executions \ {current}) + 1 = Cardinality(executions)
<1>1. Cardinality(executions \ {current}) = Cardinality(executions) - 1 /\ IsFiniteSet(executions \ {current})
  BY Counts, CurrentNode, FS_RemoveElement
<1>2. Cardinality(executions \ {current}) \in Nat
  BY <1>1, FS_CardinalityType
<1> QED
  BY <1>1, <1>2, Counts

LEMMA TakeWaitKeeps ==
    ASSUME TickInv, TakeWait
    PROVE  TickInv'
<1>1. graph' = graph /\ transitions' = transitions /\ executions # {}
  BY DEF TakeWait, transitions
<1>2. current \in executions /\ current \in active /\ current \in graph.nodes
  BY <1>1, CurrentNode
<1>3. TypeOK'
  BY <1>1, <1>2 DEF TickInv, TypeOK, TakeWait
<1>4. Unstarted'
  BY <1>1, TickStarted DEF TakeWait, Unstarted, started
<1>5. RoundKept'
  BY <1>1, <1>2, OneFewer, Counts, EngineAssumption DEF TickInv, TakeWait, RoundKept
<1> QED
  BY <1>1, <1>3, <1>4, <1>5 DEF TickInv

LEMMA TakeResultKeeps ==
    ASSUME TickInv, NEW failed \in BOOLEAN, TakeResult(failed)
    PROVE  TickInv'
<1>1. /\ graph' = graph /\ transitions' = transitions /\ executions # {} /\ pc = "batch"
      /\ graph \in Workflows
  BY DEF TakeResult, transitions, TickInv
<1>2. current \in executions /\ current \in active /\ current \in graph.nodes
  BY <1>1, CurrentNode
<1>3. /\ UNCHANGED <<asked, loopCounters, activations, input, pendingSatisfactions, newWaits,
                      fatalError, aborted, rearrived>>
      /\ results' = [results EXCEPT ![current] = @ + 1]
      /\ settlements' = settlements + 1
      /\ waiting' = waiting \ {current}
  BY DEF TakeResult
<1>4. /\ retries' \in [graph.nodes -> Nat]
      /\ terminal' \in {"none", "completed", "failed", "blocked"}
      /\ pc' \in {"batch", "loop", "fire"}
      /\ active' \in {active \ {current}, active \cup {current}}
      /\ executions' \subseteq executions \ {current}
      /\ pc' = "loop" => executions' = {}
      /\ settling' \in [node : graph.nodes, failed : BOOLEAN, rest : SUBSET DOMAIN transitions, fired : Nat]
  <2>1. CASE isTerminalNode(graph, current)
    <3>1. /\ terminal' = graph.kind[current] /\ active' = active \ {current} /\ executions' = {}
          /\ pc' = "loop" /\ UNCHANGED <<retries, settling>>
      BY <2>1 DEF TakeResult
    <3>2. graph.kind[current] \in {"completed", "failed", "blocked"}
      BY <1>1, <1>2, <2>1, GraphFacts DEF isTerminalNode
    <3> QED
      BY <3>1, <3>2 DEF TickInv, TypeOK
  <2>2. CASE ~isTerminalNode(graph, current) /\ failed /\ attempt(current) < graph.maxAttempts[current]
    <3>1. /\ retries' = [retries EXCEPT ![current] = @ + 1] /\ active' = active \cup {current}
          /\ executions' = executions \ {current} /\ UNCHANGED <<terminal, pc, settling>>
      BY <2>2 DEF TakeResult
    <3> QED
      BY <1>1, <1>2, <3>1 DEF TickInv, TypeOK
  <2>3. CASE ~isTerminalNode(graph, current) /\ ~ (failed /\ attempt(current) < graph.maxAttempts[current])
    <3>1. /\ active' = active \ {current} /\ executions' = executions \ {current}
          /\ settling' = [node |-> current, failed |-> failed, rest |-> outgoingOf(current), fired |-> 0]
          /\ pc' = "fire" /\ UNCHANGED <<retries, terminal>>
      BY <2>3 DEF TakeResult
    <3>2. outgoingOf(current) \subseteq DOMAIN transitions
      BY DEF outgoingOf
    <3> QED
      BY <1>1, <1>2, <3>1, <3>2 DEF TickInv, TypeOK
  <2> QED
    BY <2>1, <2>2, <2>3
<1>5. settlements + Cardinality(executions) < maxSettlements + Cardinality(graph.nodes)
  BY <1>1 DEF TickInv, RoundKept
<1>6. /\ Cardinality(executions') \in Nat
      /\ settlements' + Cardinality(executions') < maxSettlements + Cardinality(graph.nodes)
  <2>1. IsFiniteSet(executions \ {current})
    BY Counts, FS_Subset
  <2>2. Cardinality(executions') \in Nat /\ Cardinality(executions') <= Cardinality(executions \ {current})
    BY <1>4, <2>1, FS_Subset, FS_CardinalityType
  <2> QED
    BY <1>1, <1>3, <1>5, <2>2, OneFewer, Counts, EngineAssumption
<1>7. settlements' \in 0..maxSettlements + Cardinality(graph.nodes)
  BY <1>3, <1>6, Counts, EngineAssumption
<1>8. TypeOK'
  BY <1>1, <1>2, <1>3, <1>4, <1>7 DEF TickInv, TypeOK
<1>9. Unstarted'
  BY <1>1, <1>3, TickStarted DEF Unstarted, started
<1>10. RoundKept'
  BY <1>1, <1>3, <1>4, <1>6 DEF TickInv, RoundKept
<1> QED
  BY <1>1, <1>8, <1>9, <1>10 DEF TickInv

\* What happens to the target of a transition that fires.
LEMMA Activated ==
    ASSUME TickInv, NEW n \in graph.nodes,
           \/ activate(n)
           \/ UNCHANGED <<activations, active, waiting, rearrived>>
    PROVE  /\ activations' \in [graph.nodes -> Nat]
           /\ \A k \in graph.nodes : activations'[k] >= activations[k]
           /\ active \subseteq active' /\ active' \subseteq graph.nodes
           /\ waiting' \subseteq waiting /\ waiting' \subseteq active'
           /\ rearrived' \in BOOLEAN
<1>1. /\ activations \in [graph.nodes -> Nat] /\ active \subseteq graph.nodes
      /\ waiting \subseteq active /\ rearrived \in BOOLEAN
  BY DEF TickInv, TypeOK
<1>2. CASE activate(n)
  <2>1. /\ activations' = [activations EXCEPT ![n] = @ + 1] /\ active' = active \cup {n}
        /\ waiting' = waiting \ {n}
    BY <1>2 DEF activate
  <2>2. rearrived' \in BOOLEAN
    BY <1>1, <1>2 DEF activate
  <2>3. activations' \in [graph.nodes -> Nat] /\ \A k \in graph.nodes : activations'[k] >= activations[k]
    BY <1>1, <2>1
  <2> QED
    BY <1>1, <2>1, <2>2, <2>3
<1>3. CASE UNCHANGED <<activations, active, waiting, rearrived>>
  BY <1>1, <1>3
<1> QED
  BY <1>2, <1>3

LEMMA FireKeeps ==
    ASSUME TickInv, Fire
    PROVE  TickInv'
<1> DEFINE i == Min(settling.rest)
<1>1. /\ graph' = graph /\ transitions' = transitions /\ settling.rest # {} /\ pc = "fire"
      /\ UNCHANGED <<asked, input, pendingSatisfactions, newWaits, settlements, terminal, aborted>>
      /\ graph \in Workflows
  BY DEF Fire, transitions, TickInv
<1>2. i \in settling.rest /\ i \in DOMAIN transitions
  BY <1>1, NextTransition
<1>3. transitions[i].to \in graph.nodes
  BY <1>1, <1>2, GraphFacts
<1>4. started
  BY <1>1, TickStarted
<1> HIDE DEF i
<1>5. CASE Fatal
  <2>1. TypeOK' /\ RoundKept'
    BY <1>1, <1>5 DEF Fatal, state, TickInv, TypeOK, RoundKept
  <2>2. Unstarted'
    BY <1>1, <1>4, <1>5 DEF Fatal, state, Unstarted, started
  <2> QED
    BY <1>1, <2>1, <2>2 DEF TickInv
<1>6. CASE Pass(i)
  <2>1. /\ loopCounters' = [loopCounters EXCEPT ![i] = @ + 1]
        /\ settling' = [settling EXCEPT !.rest = @ \ {i}, !.fired = @ + 1]
        /\ UNCHANGED <<retries, results, pc, fatalError, executions>>
        /\ \/ activate(transitions[i].to)
           \/ UNCHANGED <<activations, active, waiting, rearrived>>
    BY <1>6 DEF Pass
  <2>2. /\ activations' \in [graph.nodes -> Nat]
        /\ \A k \in graph.nodes : activations'[k] >= activations[k]
        /\ active \subseteq active' /\ active' \subseteq graph.nodes
        /\ waiting' \subseteq waiting /\ waiting' \subseteq active'
        /\ rearrived' \in BOOLEAN
    BY <1>3, <2>1, Activated
  <2>3. settling' \in [node : graph.nodes, failed : BOOLEAN, rest : SUBSET DOMAIN transitions, fired : Nat]
    <3>1. settling \in [node : graph.nodes, failed : BOOLEAN, rest : SUBSET DOMAIN transitions, fired : Nat]
      BY DEF TickInv, TypeOK
    <3>2. /\ settling'.node = settling.node /\ settling'.failed = settling.failed
          /\ settling'.rest = settling.rest \ {i} /\ settling'.fired = settling.fired + 1
          /\ settling' = [node |-> settling'.node, failed |-> settling'.failed,
                          rest |-> settling'.rest, fired |-> settling'.fired]
      BY <2>1, <3>1
    <3> QED
      BY <3>1, <3>2
  <2>4. loopCounters' \in [DOMAIN transitions -> Nat]
    BY <1>2, <2>1 DEF TickInv, TypeOK
  <2>5. TypeOK'
    BY <1>1, <2>1, <2>2, <2>3, <2>4 DEF TickInv, TypeOK
  <2>6. started'
    BY <1>1, <1>4, <2>2 DEF started, TickInv, TypeOK
  <2>7. RoundKept'
    BY <1>1, <2>1, <2>2 DEF TickInv, RoundKept
  <2> QED
    BY <1>1, <2>5, <2>6, <2>7 DEF TickInv, Unstarted
<1>7. CASE /\ settling' = [settling EXCEPT !.rest = @ \ {i}]
           /\ UNCHANGED <<state, pc, fatalError, executions, rearrived>>
  <2>1. settling' \in [node : graph.nodes, failed : BOOLEAN, rest : SUBSET DOMAIN transitions, fired : Nat]
    BY <1>7 DEF TickInv, TypeOK
  <2>2. TypeOK' /\ RoundKept'
    BY <1>1, <1>7, <2>1 DEF state, TickInv, TypeOK, RoundKept
  <2>3. Unstarted'
    BY <1>1, <1>4, <1>7 DEF state, Unstarted, started
  <2> QED
    BY <1>1, <2>2, <2>3 DEF TickInv
<1> QED
  BY <1>5, <1>6, <1>7 DEF Fire, i

LEMMA RestKeeps ==
    ASSUME TickInv, Settled \/ RoundOver \/ EndTick
    PROVE  TickInv'
<1>1. graph' = graph /\ transitions' = transitions /\ state' = state /\ started' = started
  BY DEF Settled, RoundOver, EndTick, Fatal, transitions, state, started
<1>2. TypeOK' /\ RoundKept'
  <2>1. CASE Settled
    BY <1>1, <2>1 DEF Settled, Fatal, state, TickInv, TypeOK, RoundKept
  <2>2. CASE RoundOver
    BY <1>1, <2>2 DEF RoundOver, locals, state, TickInv, TypeOK, RoundKept
  <2>3. CASE EndTick
    BY <1>1, <2>3 DEF EndTick, Finished, locals, state, TickInv, TypeOK, RoundKept
  <2> QED
    BY <2>1, <2>2, <2>3
<1>3. started
  BY TickStarted DEF Settled, RoundOver, EndTick, Finished
<1> QED
  BY <1>1, <1>2, <1>3 DEF TickInv, Unstarted, state

LEMMA TickInvariant == Spec => []TickInv
<1>1. TickInv /\ [Next]_vars => TickInv'
  <2> SUFFICES ASSUME TickInv, [Next]_vars PROVE TickInv'
    OBVIOUS
  <2>1. CASE \E satisfied \in SUBSET asked : StartTick(satisfied)
    BY <2>1, StartTickKeeps
  <2>2. CASE Abort
    BY <2>2, AbortKeeps
  <2>3. CASE Step
    BY <2>3, AbortKeeps, ExecuteKeeps, TakeWaitKeeps, TakeResultKeeps, FireKeeps, RestKeeps DEF Step
  <2>4. CASE UNCHANGED vars
    <3>1. graph' = graph /\ transitions' = transitions
      BY <2>4 DEF vars, transitions
    <3> QED
      BY <2>4, <3>1 DEF vars, state, locals, TickInv, TypeOK, Unstarted, RoundKept, started
  <2> QED
    BY <2>1, <2>2, <2>3, <2>4 DEF Next
<1> QED
  BY <1>1, Begins, PTL DEF Spec

\* Every variable of the engine keeps its type, for every valid graph: nodes that
\* wait are active, and a tick settles at most a round more than its backstop.
THEOREM TypeCorrect == Spec => []TypeOK
BY TickInvariant, PTL DEF TickInv

--------------------------------------------------------------------------------
(* Joins.  A firing of transition i turns the counters c into d. *)

Counters == [DOMAIN transitions -> Nat]
Fired(c, i) == [c EXCEPT ![i] = @ + 1]

arrived(n, c) == UNION {firingsOf(i, c) : i \in incoming(n)}
peaks(n, c) == {c[i] : i \in incoming(n)} \cup {0}
firedOnce(n, c) == {i \in incoming(n) : c[i] > 0}

LEMMA ArrivedFinite ==
    ASSUME graph \in Workflows, NEW c \in Counters, NEW b \in Nat,
           \A i \in DOMAIN transitions : c[i] <= b, NEW n
    PROVE  IsFiniteSet(arrived(n, c)) /\ Cardinality(arrived(n, c)) \in Nat
<1>1. IsFiniteSet(DOMAIN transitions) /\ IsFiniteSet(1..b)
  BY GraphFacts, FS_Interval
<1>2. IsFiniteSet((DOMAIN transitions) \X (1..b))
  BY <1>1, FS_Product
<1>3. arrived(n, c) \subseteq (DOMAIN transitions) \X (1..b)
  <2> SUFFICES ASSUME NEW i \in incoming(n) PROVE firingsOf(i, c) \subseteq (DOMAIN transitions) \X (1..b)
    BY DEF arrived
  <2>1. i \in DOMAIN transitions /\ c[i] \in Nat /\ c[i] <= b
    BY DEF incoming, Counters
  <2> QED
    BY <2>1 DEF firingsOf
<1> QED
  BY <1>2, <1>3, FS_Subset, FS_CardinalityType

LEMMA OneMoreArrival ==
    ASSUME graph \in Workflows, NEW c \in Counters, NEW b \in Nat,
           \A i \in DOMAIN transitions : c[i] <= b, NEW n, NEW i \in incoming(n)
    PROVE  totalFirings(n, Fired(c, i)) = totalFirings(n, c) + 1
<1> DEFINE d == Fired(c, i)
           new == <<i, c[i] + 1>>
<1>1. i \in DOMAIN transitions /\ c[i] \in Nat /\ incoming(n) \subseteq DOMAIN transitions
  BY DEF incoming, Counters
<1>2. d[i] = c[i] + 1 /\ \A k \in DOMAIN transitions : k # i => d[k] = c[k]
  BY <1>1 DEF Fired, Counters
<1>3. firingsOf(i, d) = firingsOf(i, c) \cup {new}
  <2>1. 1..d[i] = (1..c[i]) \cup {c[i] + 1}
    BY <1>1, <1>2
  <2> QED
    BY <2>1 DEF firingsOf
<1>4. \A k \in incoming(n) : k # i => firingsOf(k, d) = firingsOf(k, c)
  BY <1>1, <1>2 DEF firingsOf
<1>5. arrived(n, d) = arrived(n, c) \cup {new}
  BY <1>3, <1>4 DEF arrived
<1>6. new \notin arrived(n, c)
  <2> SUFFICES ASSUME NEW k \in incoming(n), new \in firingsOf(k, c) PROVE FALSE
    BY DEF arrived
  <2>1. k = i /\ c[i] + 1 \in 1..c[i]
    BY DEF firingsOf
  <2> QED
    BY <1>1, <2>1
<1>7. IsFiniteSet(arrived(n, c))
  BY ArrivedFinite
<1>8. Cardinality(arrived(n, d)) = Cardinality(arrived(n, c)) + 1
  BY <1>5, <1>6, <1>7, FS_AddElement
<1> QED
  BY <1>8 DEF totalFirings, arrived

LEMMA GreatestExists ==
    ASSUME NEW b \in Nat, NEW S, S \subseteq 0..b, S # {}
    PROVE  Max(S) \in S /\ \A x \in S : x <= Max(S)
<1> DEFINE below == {b - x : x \in S}
<1>1. below \subseteq Nat /\ below # {}
  <2>1. \A x \in S : b - x \in Nat
    OBVIOUS
  <2> QED
    BY <2>1
<1>2. Min(below) \in below /\ \A y \in below : Min(below) =< y
  <2> HIDE DEF below
  <2> QED
    BY <1>1, LeastExists
<1>3. PICK x \in S : Min(below) = b - x
  BY <1>2
<1>4. \A y \in S : x >= y
  <2> SUFFICES ASSUME NEW y \in S PROVE x >= y
    OBVIOUS
  <2>1. b - y \in below /\ x \in Int /\ y \in Int
    OBVIOUS
  <2>2. b - x <= b - y
    BY <1>2, <1>3, <2>1
  <2> QED
    BY <2>1, <2>2
<1>5. \A z \in S : (\A y \in S : z >= y) => z = x
  BY <1>4
<1> QED
  BY <1>4, <1>5 DEF Max

LEMMA PeakKnown ==
    ASSUME graph \in Workflows, NEW c \in Counters, NEW b \in Nat,
           \A i \in DOMAIN transitions : c[i] <= b, NEW n
    PROVE  /\ maxSingleFirings(n, c) \in Nat
           /\ maxSingleFirings(n, c) \in peaks(n, c)
           /\ \A x \in peaks(n, c) : x <= maxSingleFirings(n, c)
<1>1. peaks(n, c) \subseteq 0..b /\ peaks(n, c) # {}
  BY DEF peaks, incoming, Counters
<1>2. Max(peaks(n, c)) \in peaks(n, c) /\ \A x \in peaks(n, c) : x <= Max(peaks(n, c))
  BY <1>1, GreatestExists
<1>3. maxSingleFirings(n, c) = Max(peaks(n, c))
  BY DEF maxSingleFirings, peaks
<1> QED
  BY <1>1, <1>2, <1>3

LEMMA PeakMoves ==
    ASSUME graph \in Workflows, NEW c \in Counters, NEW b \in Nat,
           \A i \in DOMAIN transitions : c[i] <= b, NEW n, NEW i \in incoming(n)
    PROVE  maxSingleFirings(n, Fired(c, i)) \in {maxSingleFirings(n, c), maxSingleFirings(n, c) + 1}
<1> DEFINE d == Fired(c, i)
           m == maxSingleFirings(n, c)
           k == maxSingleFirings(n, d)
<1>1. i \in DOMAIN transitions /\ c[i] \in Nat /\ incoming(n) \subseteq DOMAIN transitions
  BY DEF incoming, Counters
<1>2. /\ d \in Counters /\ d[i] = c[i] + 1
      /\ \A j \in DOMAIN transitions : d[j] \in {c[j], c[j] + 1} /\ d[j] <= b + 1
  BY <1>1 DEF Fired, Counters
<1>3. m \in Nat /\ m \in peaks(n, c) /\ \A x \in peaks(n, c) : x <= m
  BY PeakKnown
<1>4. k \in Nat /\ k \in peaks(n, d) /\ \A x \in peaks(n, d) : x <= k
  <2> HIDE DEF d
  <2>1. b + 1 \in Nat
    OBVIOUS
  <2> QED
    BY <1>2, <2>1, PeakKnown
<1>5. k <= m + 1
  <2>1. CASE k = 0
    BY <1>3, <2>1
  <2>2. CASE k # 0
    <3>1. PICK j \in incoming(n) : k = d[j]
      BY <1>4, <2>2 DEF peaks
    <3>2. c[j] <= m /\ c[j] \in Nat /\ d[j] \in {c[j], c[j] + 1}
      BY <1>1, <1>2, <1>3 DEF peaks, Counters
    <3> QED
      BY <1>3, <1>4, <3>1, <3>2
  <2> QED
    BY <2>1, <2>2
<1>6. m <= k
  <2>1. CASE m = 0
    BY <1>4, <2>1
  <2>2. CASE m # 0
    <3>1. PICK j \in incoming(n) : m = c[j]
      BY <1>3, <2>2 DEF peaks
    <3>2. d[j] <= k /\ c[j] \in Nat /\ d[j] \in {c[j], c[j] + 1}
      BY <1>1, <1>2, <1>4 DEF peaks, Counters
    <3> QED
      BY <1>3, <1>4, <3>1, <3>2
  <2> QED
    BY <2>1, <2>2
<1> QED
  BY <1>3, <1>4, <1>5, <1>6

LEMMA FiredCounts ==
    ASSUME graph \in Workflows, NEW c \in Counters, NEW i \in DOMAIN transitions, NEW n
    PROVE  /\ firedCount(n, c) \in Nat /\ firedCount(n, Fired(c, i)) \in Nat
           /\ firedCount(n, c) <= firedCount(n, Fired(c, i))
           /\ firedCount(n, c) = Cardinality(incoming(n)) <=> \A k \in incoming(n) : c[k] > 0
<1> DEFINE d == Fired(c, i)
<1>1. \A k \in incoming(n) : c[k] \in Nat /\ d[k] \in Nat /\ c[k] <= d[k]
  BY DEF Fired, Counters, incoming
<1>2. IsFiniteSet(incoming(n))
  BY IncomingFinite
<1>3. firedOnce(n, d) \subseteq incoming(n) /\ firedOnce(n, c) \subseteq incoming(n) /\ firedOnce(n, c) \subseteq firedOnce(n, d)
  BY <1>1 DEF firedOnce
<1>4. /\ IsFiniteSet(firedOnce(n, d)) /\ IsFiniteSet(firedOnce(n, c))
      /\ Cardinality(firedOnce(n, c)) = Cardinality(incoming(n)) => firedOnce(n, c) = incoming(n)
  BY <1>2, <1>3, FS_Subset
<1>5. Cardinality(firedOnce(n, c)) <= Cardinality(firedOnce(n, d))
  BY <1>3, <1>4, FS_Subset
<1>6. firedOnce(n, c) = incoming(n) <=> \A k \in incoming(n) : c[k] > 0
  BY DEF firedOnce
<1>7. firedCount(n, c) = Cardinality(firedOnce(n, c)) /\ firedCount(n, d) = Cardinality(firedOnce(n, d))
  BY DEF firedCount, firedOnce
<1> QED
  BY <1>4, <1>5, <1>6, <1>7, FS_CardinalityType

LEMMA OtherNodes ==
    ASSUME graph \in Workflows, NEW c \in Counters, NEW i \in DOMAIN transitions,
           NEW n, i \notin incoming(n)
    PROVE  calledFor(n, Fired(c, i)) = calledFor(n, c)
<1> DEFINE d == Fired(c, i)
<1>1. \A k \in incoming(n) : d[k] = c[k]
  BY DEF Fired, Counters, incoming
<1> HIDE DEF d
<1>2. totalFirings(n, d) = totalFirings(n, c)
  <2>1. \A k \in incoming(n) : firingsOf(k, d) = firingsOf(k, c)
    BY <1>1 DEF firingsOf
  <2>2. arrived(n, d) = arrived(n, c)
    BY <2>1 DEF arrived
  <2> QED
    BY <2>2 DEF totalFirings, arrived
<1>3. maxSingleFirings(n, d) = maxSingleFirings(n, c)
  <2>1. peaks(n, d) = peaks(n, c)
    BY <1>1 DEF peaks
  <2> QED
    BY <2>1 DEF maxSingleFirings, peaks
<1>4. firedCount(n, d) = firedCount(n, c)
  <2>1. firedOnce(n, d) = firedOnce(n, c)
    BY <1>1 DEF firedOnce
  <2> QED
    BY <2>1 DEF firedCount, firedOnce
<1>5. (\A k \in incoming(n) : d[k] > 0) <=> \A k \in incoming(n) : c[k] > 0
  BY <1>1
<1> QED
  BY <1>2, <1>3, <1>4, <1>5 DEF calledFor, d

\* A join is satisfied exactly when the firing calls for one more activation.
LEMMA JoinCalls ==
    ASSUME graph \in Workflows, NEW c \in Counters, NEW b \in Nat,
           \A i \in DOMAIN transitions : c[i] <= b,
           NEW n \in graph.nodes, NEW i \in incoming(n),
           activations[n] = calledFor(n, c) + entryOffset(n)
    PROVE  /\ calledFor(n, c) \in Nat /\ calledFor(n, Fired(c, i)) \in Nat
           /\ calledFor(n, Fired(c, i)) =
                IF joinSatisfied(n, Fired(c, i)) THEN calledFor(n, c) + 1 ELSE calledFor(n, c)
<1> DEFINE d == Fired(c, i)
           activated == activations[n] - entryOffset(n)
           join == graph.join[n]
<1>1. join \in [mode : {"implicit", "any", "all", "min"}, n : Nat] /\ (join.mode = "min" => join.n >= 1)
  BY GraphFacts
<1>2. i \in DOMAIN transitions /\ d \in Counters
  BY DEF incoming, Fired, Counters
<1>3. entryOffset(n) \in Nat
  BY DEF entryOffset
<1>4. CASE join.mode = "implicit"
  <2>1. calledFor(n, c) = totalFirings(n, c) /\ calledFor(n, d) = totalFirings(n, d)
    BY <1>4 DEF calledFor
  <2>2. totalFirings(n, c) \in Nat
    BY ArrivedFinite DEF totalFirings, arrived
  <2>3. totalFirings(n, d) = totalFirings(n, c) + 1
    BY OneMoreArrival
  <2>4. joinSatisfied(n, d) <=> totalFirings(n, d) > activated
    BY <1>4 DEF joinSatisfied
  <2>5. activated = totalFirings(n, c)
    BY <2>1, <2>2, <1>3
  <2> QED
    BY <2>1, <2>2, <2>3, <2>4, <2>5
<1>5. CASE join.mode = "any"
  <2>1. calledFor(n, c) = maxSingleFirings(n, c) /\ calledFor(n, d) = maxSingleFirings(n, d)
    BY <1>5 DEF calledFor
  <2>2. maxSingleFirings(n, c) \in Nat
    BY PeakKnown
  <2>3. maxSingleFirings(n, d) \in {maxSingleFirings(n, c), maxSingleFirings(n, c) + 1}
    BY PeakMoves
  <2>4. joinSatisfied(n, d) <=> maxSingleFirings(n, d) > activated
    BY <1>5 DEF joinSatisfied
  <2>5. activated = maxSingleFirings(n, c)
    BY <2>1, <2>2, <1>3
  <2> QED
    BY <2>1, <2>2, <2>3, <2>4, <2>5
<1>6. CASE join.mode = "all"
  <2>1. calledFor(n, c) = (IF \A k \in incoming(n) : c[k] > 0 THEN 1 ELSE 0)
    BY <1>6 DEF calledFor
  <2>2. calledFor(n, d) = (IF \A k \in incoming(n) : d[k] > 0 THEN 1 ELSE 0)
    BY <1>6 DEF calledFor
  <2>3. joinSatisfied(n, d) <=> firedCount(n, d) = Cardinality(incoming(n)) /\ activated = 0
    BY <1>6 DEF joinSatisfied
  <2>4. firedCount(n, d) = Cardinality(incoming(n)) <=> \A k \in incoming(n) : d[k] > 0
    <3> HIDE DEF d
    <3> QED
      BY <1>2, FiredCounts
  <2>5. \A k \in incoming(n) : c[k] > 0 => d[k] > 0
    BY DEF incoming, Fired, Counters
  <2>6. activated = calledFor(n, c)
    BY <2>1, <1>3
  <2> QED
    BY <2>1, <2>2, <2>3, <2>4, <2>5, <2>6
<1>7. CASE join.mode = "min"
  <2>1. calledFor(n, c) = (IF firedCount(n, c) >= join.n THEN 1 ELSE 0)
    BY <1>7 DEF calledFor
  <2>2. calledFor(n, d) = (IF firedCount(n, d) >= join.n THEN 1 ELSE 0)
    BY <1>7 DEF calledFor
  <2>3. joinSatisfied(n, d) <=> firedCount(n, d) >= join.n /\ activated = 0
    BY <1>7 DEF joinSatisfied
  <2>4. /\ firedCount(n, c) \in Nat /\ firedCount(n, d) \in Nat
        /\ firedCount(n, c) <= firedCount(n, d)
    BY <1>2, FiredCounts
  <2>5. activated = calledFor(n, c)
    BY <2>1, <1>3
  <2> QED
    BY <1>1, <2>1, <2>2, <2>3, <2>4, <2>5
<1> QED
  BY <1>1, <1>4, <1>5, <1>6, <1>7

\* The counters never pass some bound.
Bounded == \E b \in Nat : \A i \in DOMAIN transitions : loopCounters[i] <= b

JoinInv == TickInv /\ JoinAccounting /\ Bounded

\* What a node is called for depends on the graph and the counters only.
LEMMA SameGraph ==
    ASSUME graph' = graph, NEW n
    PROVE  calledFor(n, loopCounters)' = calledFor(n, loopCounters')
<1>1. transitions' = transitions
  BY DEF transitions
<1>2. incoming(n)' = incoming(n)
  BY <1>1 DEF incoming
<1> QED
  BY <1>2 DEF calledFor, totalFirings, firingsOf, maxSingleFirings, firedCount

\* The state after the firing of transition i accounts for its joins.
LEMMA PassAccounts ==
    ASSUME JoinInv, TickInv', graph' = graph, pc # "idle", NEW i \in DOMAIN transitions, Pass(i)
    PROVE  JoinAccounting' /\ Bounded'
<1> DEFINE t == transitions[i].to
<1>1. /\ graph \in Workflows /\ loopCounters \in Counters
      /\ transitions' = transitions /\ t \in graph.nodes /\ i \in incoming(t)
      /\ activations \in [graph.nodes -> Nat]
  BY GraphFacts DEF JoinInv, TickInv, TypeOK, Counters, transitions, incoming
<1>2. started /\ started'
  <2>1. pc' = pc
    BY DEF Pass
  <2> QED
    BY <2>1, TickStarted DEF JoinInv, TickInv, Unstarted
<1>3. PICK b \in Nat : \A k \in DOMAIN transitions : loopCounters[k] <= b
  BY DEF JoinInv, Bounded
<1>4. loopCounters' = Fired(loopCounters, i)
  BY DEF Pass, Fired
<1>5. Bounded'
  <2>1. \A k \in DOMAIN transitions' : loopCounters'[k] <= b + 1
    BY <1>1, <1>3, <1>4 DEF Fired, Counters
  <2> QED
    BY <2>1 DEF Bounded
<1>6. \A n \in graph.nodes : activations[n] = calledFor(n, loopCounters) + entryOffset(n)
  BY <1>2 DEF JoinInv, JoinAccounting, entryOffset
<1>7. ASSUME NEW n \in graph.nodes
      PROVE  activations'[n] = calledFor(n, loopCounters') + entryOffset(n)
  <2>1. CASE n # t
    <3>1. activations'[n] = activations[n]
      BY <1>1, <2>1 DEF Pass, activate
    <3>2. i \notin incoming(n)
      BY <2>1 DEF incoming
    <3>3. calledFor(n, loopCounters') = calledFor(n, loopCounters)
      BY <1>1, <1>4, <3>2, OtherNodes
    <3> QED
      BY <1>6, <3>1, <3>3
  <2>2. CASE n = t
    <3>1. /\ calledFor(n, loopCounters) \in Nat
          /\ calledFor(n, Fired(loopCounters, i)) =
               IF joinSatisfied(n, Fired(loopCounters, i)) THEN calledFor(n, loopCounters) + 1
               ELSE calledFor(n, loopCounters)
      BY <1>1, <1>3, <1>6, <2>2, JoinCalls
    <3>2. activations'[n] = IF joinSatisfied(n, Fired(loopCounters, i)) THEN activations[n] + 1
                            ELSE activations[n]
      BY <1>1, <1>4, <2>2 DEF Pass, activate, Fired
    <3>3. entryOffset(n) \in Nat
      BY DEF entryOffset
    <3> QED
      BY <1>4, <1>6, <3>1, <3>2, <3>3
  <2> QED
    BY <2>1, <2>2
<1>8. JoinAccounting'
  <2> SUFFICES ASSUME NEW n \in graph.nodes
               PROVE  activations'[n] = calledFor(n, loopCounters)' + entryOffset(n)
    BY <1>2 DEF JoinAccounting, entryOffset
  <2> QED
    BY <1>7, SameGraph
<1> QED
  BY <1>5, <1>8

LEMMA UntouchedAccounts ==
    ASSUME JoinInv, graph' = graph, started' = started, UNCHANGED <<activations, loopCounters>>
    PROVE  JoinAccounting' /\ Bounded'
<1>1. \A n : calledFor(n, loopCounters)' = calledFor(n, loopCounters)
  BY SameGraph
<1>2. transitions' = transitions
  BY DEF transitions
<1> QED
  BY <1>1, <1>2 DEF JoinInv, JoinAccounting, Bounded

LEMMA CalledTyped ==
    ASSUME JoinInv, NEW n \in graph.nodes
    PROVE  calledFor(n, loopCounters) \in Nat
<1>1. PICK b \in Nat : \A k \in DOMAIN transitions : loopCounters[k] <= b
  BY DEF JoinInv, Bounded
<1>2. graph \in Workflows /\ loopCounters \in Counters
  BY DEF JoinInv, TickInv, TypeOK, Counters
<1>3. graph.join[n].mode \in {"implicit", "any", "all", "min"}
  BY <1>2, GraphFacts
<1>4. totalFirings(n, loopCounters) \in Nat /\ maxSingleFirings(n, loopCounters) \in Nat
  BY <1>1, <1>2, ArrivedFinite, PeakKnown DEF totalFirings, arrived
<1> QED
  BY <1>3, <1>4 DEF calledFor

LEMMA StartAccounts ==
    ASSUME JoinInv, TickInv', NEW satisfied \in SUBSET asked, StartTick(satisfied)
    PROVE  JoinAccounting' /\ Bounded'
<1>1. /\ graph' = graph /\ loopCounters' = loopCounters /\ transitions' = transitions
      /\ started' /\ graph.entry \in graph.nodes /\ activations \in [graph.nodes -> Nat]
  <2>1. pc' # "idle" /\ graph' = graph /\ loopCounters' = loopCounters
    BY DEF StartTick
  <2>2. started'
    BY <2>1 DEF TickInv, Unstarted
  <2> QED
    BY <2>1, <2>2, GraphFacts DEF transitions, JoinInv, TickInv, TypeOK
<1>2. Bounded'
  BY <1>1 DEF JoinInv, Bounded
<1>3. \A n : calledFor(n, loopCounters)' = calledFor(n, loopCounters)
  BY <1>1, SameGraph
<1>4. CASE active = {} /\ waiting = {} /\ ~started
  <2>1. activations' = [activations EXCEPT ![graph.entry] = @ + 1]
    BY <1>4 DEF StartTick
  <2>2. \A n \in graph.nodes : activations[n] = 0 /\ activations[n] = calledFor(n, loopCounters) + 0
    BY <1>1, <1>4 DEF started, JoinInv, JoinAccounting
  <2>3. \A n \in graph.nodes : calledFor(n, loopCounters) \in Nat
    BY GraphFacts, CalledTyped DEF JoinInv
  <2>4. \A n \in graph.nodes : calledFor(n, loopCounters)' = 0
    BY <1>3, <2>2, <2>3
  <2>5. \A n \in graph.nodes : activations'[n] = IF n = graph.entry THEN 1 ELSE 0
    BY <1>1, <2>1, <2>2
  <2> QED
    BY <1>1, <1>2, <2>4, <2>5 DEF JoinAccounting
<1>5. CASE ~ (active = {} /\ waiting = {} /\ ~started)
  <2>1. activations' = activations
    BY <1>5 DEF StartTick
  <2>2. started
    BY <1>5 DEF Unstarted, JoinInv, TickInv, TypeOK
  <2> QED
    BY <1>1, <1>2, <1>3, <2>1, <2>2 DEF JoinInv, JoinAccounting
<1> QED
  BY <1>4, <1>5

LEMMA JoinsBegin == Init => JoinInv
<1> SUFFICES ASSUME Init PROVE JoinAccounting /\ Bounded
  BY Begins DEF JoinInv
<1>1. TickInv
  BY Begins
<1>2. /\ graph \in Workflows /\ loopCounters = [i \in DOMAIN transitions |-> 0]
      /\ activations = [n \in graph.nodes |-> 0] /\ loopCounters \in Counters
  BY <1>1 DEF Init, Fresh, transitions, TickInv, TypeOK, Counters
<1>3. \A i \in DOMAIN transitions : loopCounters[i] <= 0
  BY <1>2
<1>4. Bounded
  BY <1>3 DEF Bounded
<1>5. ~started
  BY <1>2 DEF started
<1>6. ASSUME NEW n \in graph.nodes
      PROVE  calledFor(n, loopCounters) = 0
  <2>1. \A i \in incoming(n) : loopCounters[i] = 0
    BY <1>2 DEF incoming
  <2>2. totalFirings(n, loopCounters) = 0
    <3>1. arrived(n, loopCounters) = {}
      BY <2>1 DEF arrived, firingsOf
    <3> QED
      BY <3>1, FS_EmptySet DEF arrived, totalFirings
  <2>3. maxSingleFirings(n, loopCounters) = 0
    <3>1. maxSingleFirings(n, loopCounters) \in peaks(n, loopCounters)
      BY <1>2, <1>3, PeakKnown
    <3> QED
      BY <2>1, <3>1 DEF peaks
  <2>4. firedCount(n, loopCounters) = 0
    <3>1. firedOnce(n, loopCounters) = {}
      BY <2>1 DEF firedOnce
    <3> QED
      BY <3>1, FS_EmptySet DEF firedOnce, firedCount
  <2>5. /\ graph.join[n].mode \in {"implicit", "any", "all", "min"}
        /\ graph.join[n].mode = "min" => graph.join[n].n >= 1 /\ graph.join[n].n \in Nat
    BY <1>2, GraphFacts
  <2>6. incoming(n) # {} => ~ \A i \in incoming(n) : loopCounters[i] > 0
    BY <2>1
  <2>7. graph.join[n].mode = "min" => ~ (firedCount(n, loopCounters) >= graph.join[n].n)
    BY <2>4, <2>5
  <2> QED
    BY <2>2, <2>3, <2>5, <2>6, <2>7 DEF calledFor
<1>7. JoinAccounting
  BY <1>2, <1>5, <1>6 DEF JoinAccounting
<1> QED
  BY <1>4, <1>7

\* Every node has been activated exactly as often as its join calls for, with
\* every join, however firings, retries and loops follow each other.
THEOREM JoinsAccounted == Spec => []JoinAccounting
<1>1. JoinInv /\ TickInv' /\ [Next]_vars => JoinInv'
  <2> SUFFICES ASSUME JoinInv, TickInv', [Next]_vars PROVE JoinAccounting' /\ Bounded'
    BY DEF JoinInv
  <2>1. CASE \E satisfied \in SUBSET asked : StartTick(satisfied)
    BY <2>1, StartAccounts
  <2>2. CASE Fire
    <3>1. graph' = graph /\ pc # "idle" /\ settling.rest # {}
      BY <2>2 DEF Fire
    <3>2. Min(settling.rest) \in DOMAIN transitions
      BY <3>1, NextTransition DEF JoinInv
    <3>3. CASE Pass(Min(settling.rest))
      BY <3>1, <3>2, <3>3, PassAccounts
    <3>4. CASE Fatal \/ state' = state
      BY <3>1, <3>4, UntouchedAccounts DEF Fatal, state, started
    <3> QED
      BY <2>2, <3>3, <3>4 DEF Fire, state
  <2>3. CASE ~ Fire /\ ~ \E satisfied \in SUBSET asked : StartTick(satisfied)
    <3>1. graph' = graph /\ UNCHANGED <<activations, loopCounters>>
      BY <2>3 DEF Next, Step, Abort, Backstop, Execute, TakeWait, TakeResult, Settled, RoundOver,
                  EndTick, Fatal, state, vars
    <3> QED
      BY <3>1, UntouchedAccounts DEF started
  <2> QED
    BY <2>1, <2>2, <2>3
<1>2. JoinInv => JoinAccounting
  BY DEF JoinInv
<1> QED
  BY <1>1, <1>2, JoinsBegin, TickInvariant, PTL DEF Spec

--------------------------------------------------------------------------------
(* What a tick hands back *)

kept == Kept(input.state, input.satisfied)

\* No node can run: the state has started and all its active nodes keep waiting.
nothingToDo == input.state.started /\ input.state.active \subseteq kept

\* Before the first round the tick has only read its argument, and activated the
\* entry of a fresh run.
Untouched ==
    /\ pc = "loop" /\ settlements = 0 /\ newWaits = {} /\ terminal = "none" /\ ~fatalError
    /\ ~rearrived
    /\ pendingSatisfactions = input.satisfied
    /\ waiting = input.state.waiting
    /\ active = IF input.state.started THEN input.state.active ELSE {graph.entry}

\* Nodes handed a satisfaction for a wait they yielded in this tick.
echoed == (input.satisfied \ pendingSatisfactions) \ input.state.waiting

\* From then on the nodes that waited when the tick began keep waiting or have
\* their satisfaction, and every other wait is new.
Underway ==
    /\ ~nothingToDo
    /\ pendingSatisfactions \cap input.state.waiting = {}
    /\ (waiting \ kept) \cup echoed \subseteq newWaits
    /\ ~rearrived => kept \subseteq waiting /\ newWaits \subseteq (waiting \ kept) \cup echoed

HandedOver ==
    pc \in {"loop", "batch", "fire"} =>
      /\ input.state.saved /\ input.state.waiting \subseteq input.state.active
      /\ ~input.state.started => input.state.active = {}
      /\ Untouched \/ Underway

LEMMA HandedOverKept ==
    ASSUME TickInv, TickInv', HandedOver, [Next]_vars
    PROVE  HandedOver'
<1>1. CASE \E satisfied \in SUBSET asked : StartTick(satisfied)
  <2>1. PICK satisfied \in SUBSET asked : StartTick(satisfied)
    BY <1>1
  <2>2. /\ input'.state.saved /\ input'.satisfied = satisfied
        /\ input'.state.waiting = waiting /\ input'.state.active = active
        /\ input'.state.started = started
    BY <2>1 DEF StartTick
  <2>3. waiting \subseteq active /\ (~started => active = {}) /\ (active = {} => waiting = {})
    BY DEF TickInv, TypeOK, Unstarted
  <2>4. Untouched'
    BY <2>1, <2>2, <2>3 DEF StartTick, Untouched
  <2> QED
    BY <2>2, <2>3, <2>4 DEF HandedOver
<1>2. CASE Abort \/ Backstop
  <2>1. UNCHANGED <<graph, input, pendingSatisfactions, waiting, active, newWaits, rearrived, pc,
                    settlements, terminal>>
    BY <1>2 DEF Abort, Backstop, state
  <2>2. Untouched => ~ Backstop
    BY EngineAssumption DEF Untouched, Backstop
  <2>3. Untouched => Untouched'
    BY <1>2, <2>1, <2>2 DEF Untouched, Abort
  <2>4. Underway => Underway'
    BY <2>1 DEF Underway, nothingToDo, kept, echoed
  <2> QED
    BY <2>1, <2>3, <2>4 DEF HandedOver
<1>3. CASE Execute
  <2>1. /\ UNCHANGED <<graph, input, active, newWaits, rearrived>> /\ pc = "loop"
        /\ waiting' = waiting \ pendingSatisfactions
        /\ pendingSatisfactions' = pendingSatisfactions \ waiting
        /\ runnable # {}
    BY <1>3 DEF Execute
  <2>2. CASE Untouched
    <3>1. ~nothingToDo
      BY <2>1, <2>2 DEF Untouched, nothingToDo, kept, Kept, runnable
    <3>2. echoed' = {} /\ waiting' = kept /\ kept' = kept /\ newWaits' = {}
      BY <2>1, <2>2 DEF Untouched, echoed, kept, Kept
    <3>3. Underway'
      BY <2>1, <2>2, <3>1, <3>2 DEF Untouched, Underway, nothingToDo, kept
    <3> QED
      BY <2>1, <3>3 DEF HandedOver
  <2>3. CASE Underway
    <3>1. Underway'
      BY <2>1, <2>3 DEF Underway, nothingToDo, kept, Kept, echoed, TickInv, TypeOK
    <3> QED
      BY <2>1, <3>1 DEF HandedOver
  <2> QED
    BY <2>1, <2>2, <2>3 DEF HandedOver
<1>4. CASE TakeWait
  <2>1. /\ UNCHANGED <<graph, input, active, pendingSatisfactions, rearrived, pc>> /\ pc = "batch"
        /\ \/ UNCHANGED <<waiting, newWaits>>
           \/ /\ current \notin waiting
              /\ waiting' = waiting \cup {current} /\ newWaits' = newWaits \cup {current}
    BY <1>4 DEF TakeWait
  <2>2. Underway
    BY <2>1 DEF HandedOver, Untouched
  <2>3. Underway'
    BY <2>1, <2>2 DEF Underway, nothingToDo, kept, echoed
  <2> QED
    BY <2>1, <2>3 DEF HandedOver
<1>5. CASE \E failed \in BOOLEAN : TakeResult(failed)
  <2>1. /\ UNCHANGED <<graph, input, newWaits, pendingSatisfactions, rearrived>> /\ pc = "batch"
        /\ waiting' = waiting \ {current} /\ executions # {}
    BY <1>5 DEF TakeResult
  <2>2. current \notin waiting
    BY <2>1, CurrentNode DEF TickInv, RoundKept
  <2>3. Underway
    BY <2>1 DEF HandedOver, Untouched
  <2>4. Underway'
    BY <2>1, <2>2, <2>3 DEF Underway, nothingToDo, kept, echoed
  <2> QED
    BY <2>1, <2>4 DEF HandedOver
<1>6. CASE Fire
  <2>1. /\ UNCHANGED <<graph, input, newWaits, pendingSatisfactions>> /\ pc = "fire"
        /\ waiting' \subseteq waiting /\ (~rearrived' => ~rearrived /\ waiting' = waiting)
    <3>1. /\ UNCHANGED <<graph, input, newWaits, pendingSatisfactions>> /\ pc = "fire"
          /\ (\E n : activate(n)) \/ UNCHANGED <<waiting, rearrived>>
      BY <1>6 DEF Fire, Fatal, Pass, state
    <3>2. ASSUME NEW n, activate(n)
          PROVE  waiting' = waiting \ {n} /\ (~rearrived' => ~rearrived /\ n \notin waiting)
      <4>1. rearrived' = (rearrived \/ n \in waiting)
        BY <3>2 DEF activate
      <4>2. ~rearrived' => ~rearrived /\ n \notin waiting
        BY <4>1, Zenon
      <4> QED
        BY <3>2, <4>2 DEF activate
    <3> QED
      BY <3>1, <3>2
  <2>2. Underway
    BY <2>1 DEF HandedOver, Untouched
  <2>3. Underway'
    BY <2>1, <2>2 DEF Underway, nothingToDo, kept, echoed
  <2> QED
    BY <2>1, <2>3 DEF HandedOver
<1>7. CASE Settled \/ RoundOver
  <2>1. /\ UNCHANGED <<graph, input, newWaits, pendingSatisfactions, waiting, rearrived>>
        /\ pc \in {"batch", "fire"}
    BY <1>7 DEF Settled, RoundOver, Fatal, locals, state
  <2>2. Underway
    BY <2>1 DEF HandedOver, Untouched
  <2>3. Underway'
    BY <2>1, <2>2 DEF Underway, nothingToDo, kept, echoed
  <2> QED
    BY <2>1, <2>3 DEF HandedOver
<1>8. CASE EndTick
  BY <1>8 DEF EndTick, HandedOver
<1>9. CASE UNCHANGED vars
  BY <1>9 DEF vars, locals, state, HandedOver, Untouched, Underway, nothingToDo, kept, echoed
<1> QED
  BY <1>1, <1>2, <1>3, <1>4, <1>5, <1>6, <1>7, <1>8, <1>9 DEF Next, Step

(* The outcomes of module GraphTick for this tick *)

shapes == {"raceToEnd"} \cup (IF rearrived THEN {"rearrive"} ELSE {})
took == input.satisfied \ pendingSatisfactions
met == Met(input.state, input.satisfied)

LEMMA Shapes == "raceToEnd" \in shapes /\ ("rearrive" \in shapes <=> rearrived)
BY DEF shapes

\* Once a round has begun: what stays of the old waits, what is new, and the
\* satisfactions handed over, are among those the coordinator expects.
LEMMA UnderwayParts ==
    ASSUME TickInv, Underway
    PROVE  /\ waiting \cap kept \in Stay(input.state, input.satisfied, shapes)
           /\ waiting \ kept \in New(input.state, input.satisfied, shapes)
           /\ echoed \in Echo(input.state, input.satisfied)
           /\ took = met \cup echoed
           /\ active \subseteq Nodes /\ waiting \subseteq active /\ newWaits \subseteq Nodes
<1>1. /\ active \subseteq Nodes /\ waiting \subseteq active /\ newWaits \subseteq Nodes
  BY GraphFacts DEF TickInv, TypeOK
<1>2. waiting \cap kept \in Stay(input.state, input.satisfied, shapes)
  <2>1. ~rearrived => waiting \cap kept = kept
    BY DEF Underway
  <2>2. CASE rearrived
    BY <2>2, Shapes DEF Stay, kept
  <2>3. CASE ~rearrived
    BY <2>1, <2>3, Shapes DEF Stay, kept
  <2> QED
    BY <2>2, <2>3
<1>3. waiting \ kept \in New(input.state, input.satisfied, shapes)
  BY <1>1 DEF New, kept
<1>4. echoed \in Echo(input.state, input.satisfied)
  BY DEF echoed, Echo
<1>5. took = met \cup echoed
  BY DEF took, met, Met, echoed, Underway
<1> QED
  BY <1>1, <1>2, <1>3, <1>4, <1>5

\* An ended loop, underway or not, is one the coordinator expects to have stopped.
LEMMA StoppedUnderway ==
    ASSUME TickInv, Underway, NEW verdict \in Verdicts(aborted)
    PROVE  Outcome(verdict, Ticked(active, waiting), {}, took)
             \in Stopped(input.state, input.satisfied, aborted, shapes)
<1> DEFINE x == [verdict |-> verdict, stay |-> waiting \cap kept, left |-> {},
                 new |-> waiting \ kept, rest |-> active, echo |-> echoed]
<1>1. x \in [verdict : Verdicts(aborted), stay : Stay(input.state, input.satisfied, shapes),
              left : Left(input.state, input.satisfied, aborted),
              new : Raced(input.state, input.satisfied, shapes),
              rest : SUBSET Nodes, echo : Echo(input.state, input.satisfied)]
  <2>1. {} \in Left(input.state, input.satisfied, aborted)
    BY DEF Left
  <2>2. waiting \ kept \in Raced(input.state, input.satisfied, shapes)
    BY UnderwayParts, Shapes DEF Raced
  <2> QED
    BY <2>1, <2>2, UnderwayParts
<1>2. x.stay \cup x.left \cup x.new = waiting /\ waiting \cup x.rest = active
  BY UnderwayParts
<1>3. (Met(input.state, input.satisfied) \ x.left) \cup x.echo = took
  BY UnderwayParts DEF met
<1>4. x.verdict = verdict
  OBVIOUS
<1> HIDE DEF x
<1> QED
  BY <1>1, <1>2, <1>3, <1>4 DEF Stopped

LEMMA StoppedUntouched ==
    ASSUME TickInv, Untouched, aborted, input.state.waiting \subseteq input.state.active
    PROVE  Outcome("CANCELLED", Ticked(active, waiting), {}, took)
             \in Stopped(input.state, input.satisfied, TRUE, shapes)
<1> DEFINE x == [verdict |-> "CANCELLED", stay |-> kept, left |-> met,
                 new |-> {}, rest |-> active, echo |-> {}]
<1>1. x \in [verdict : Verdicts(TRUE), stay : Stay(input.state, input.satisfied, shapes),
              left : Left(input.state, input.satisfied, TRUE),
              new : Raced(input.state, input.satisfied, shapes),
              rest : SUBSET Nodes, echo : Echo(input.state, input.satisfied)]
  <2>1. met \in Left(input.state, input.satisfied, TRUE) /\ "CANCELLED" \in Verdicts(TRUE)
    BY DEF Left, met, Verdicts
  <2>2. {} \in Raced(input.state, input.satisfied, shapes) /\ {} \in Echo(input.state, input.satisfied)
    BY DEF Raced, New, Echo
  <2>3. kept \in Stay(input.state, input.satisfied, shapes)
    BY Shapes DEF Stay, kept, Untouched
  <2>4. active \in SUBSET Nodes
    BY GraphFacts DEF TickInv, TypeOK
  <2> QED
    BY <2>1, <2>2, <2>3, <2>4
<1>2. x.stay \cup x.left \cup x.new = waiting /\ waiting \cup x.rest = active
  BY DEF kept, Kept, met, Met, Untouched, TickInv, TypeOK
<1>3. (Met(input.state, input.satisfied) \ x.left) \cup x.echo = took
  BY DEF met, took, Untouched
<1>4. x.verdict = "CANCELLED"
  OBVIOUS
<1> HIDE DEF x
<1> QED
  BY <1>1, <1>2, <1>3, <1>4 DEF Stopped

\* A loop that ran until every active node waits.
LEMMA QuiescentUnderway ==
    ASSUME TickInv, Underway, active = waiting, waiting # {}
    PROVE  Outcome("WAITING", Ticked(active, waiting), newWaits, took)
             \in {o \in Quiescent(input.state, input.satisfied, shapes) : o.graph.waiting # {}}
<1> DEFINE x == [stay |-> waiting \cap kept, new |-> waiting \ kept, echo |-> echoed,
                 gone |-> IF rearrived THEN newWaits ELSE {}]
           o == Outcome("WAITING", Ticked(active, waiting), newWaits, took)
<1>1. x \in [stay : Stay(input.state, input.satisfied, shapes),
              new : New(input.state, input.satisfied, shapes),
              echo : Echo(input.state, input.satisfied), gone : Gone(shapes)]
  <2>1. (IF rearrived THEN newWaits ELSE {}) \in Gone(shapes)
    BY UnderwayParts, Shapes DEF Gone
  <2> QED
    BY <2>1, UnderwayParts
<1>2. x.stay \cup x.new = waiting
  OBVIOUS
<1>3. x.new \cup x.echo \cup x.gone = newWaits
  <2>1. (waiting \ kept) \cup echoed \subseteq newWaits
    BY DEF Underway
  <2>2. ~rearrived => newWaits \subseteq (waiting \ kept) \cup echoed
    BY DEF Underway
  <2> QED
    BY <2>1, <2>2
<1>4. Met(input.state, input.satisfied) \cup x.echo = took
  BY UnderwayParts DEF met
<1> HIDE DEF x
<1>5. o \in Quiescent(input.state, input.satisfied, shapes)
  BY <1>1, <1>2, <1>3, <1>4 DEF Quiescent, ReportedWaits
<1>6. o.graph.waiting # {}
  BY DEF Outcome, Ticked
<1> QED
  BY <1>5, <1>6

LEMMA ContractKept == TickInv /\ HandedOver => TickWithinContract
<1> SUFFICES ASSUME TickInv, HandedOver, Finished
             PROVE  Outcome(Status, Ticked(active, waiting),
                            IF Status = "WAITING" THEN newWaits ELSE {}, took)
                      \in Outcomes(input.state, input.satisfied, aborted, shapes)
  BY DEF TickWithinContract, took, shapes
<1>1. /\ pc = "loop" /\ waiting \subseteq active
      /\ terminal \in {"none", "completed", "failed", "blocked"} /\ aborted \in BOOLEAN
      /\ input.state \in GraphState
  BY DEF Finished, TickInv, TypeOK
<1>2. /\ input.state.saved /\ input.state.waiting \subseteq input.state.active
      /\ ~input.state.started => input.state.active = {}
      /\ Untouched \/ Underway
  BY <1>1 DEF HandedOver
<1>3. CASE aborted
  <2>1. Status = "CANCELLED" /\ "CANCELLED" \in Verdicts(aborted) /\ aborted = TRUE
    BY <1>1, <1>3 DEF Status, Verdicts
  <2>2. Outcome("CANCELLED", Ticked(active, waiting), {}, took)
          \in Stopped(input.state, input.satisfied, TRUE, shapes)
    BY <1>2, <1>3, <2>1, StoppedUnderway, StoppedUntouched
  <2> QED
    BY <2>1, <2>2 DEF Outcomes
<1>4. CASE ~aborted /\ Underway
  <2>1. Outcomes(input.state, input.satisfied, aborted, shapes)
          = Stopped(input.state, input.satisfied, FALSE, shapes)
            \cup {o \in Quiescent(input.state, input.satisfied, shapes) : o.graph.waiting # {}}
    BY <1>4 DEF Outcomes, Underway, nothingToDo, kept
  <2>2. Verdicts(aborted) = {"COMPLETED", "BLOCKED", "FAILED"} /\ aborted = FALSE
    BY <1>1, <1>4 DEF Verdicts
  <2>3. CASE Status = "WAITING"
    <3>1. waiting # {} /\ runnable = {}
      BY <1>1, <1>4, <2>3 DEF Status, Finished, LoopOver
    <3>2. active = waiting
      BY <1>1, <3>1 DEF runnable
    <3> QED
      BY <1>4, <2>1, <2>3, <3>1, <3>2, QuiescentUnderway
  <2>4. CASE Status # "WAITING"
    <3>1. Status \in Verdicts(aborted)
      BY <1>1, <1>4, <2>2, <2>4 DEF Status
    <3>2. Outcome(Status, Ticked(active, waiting), {}, took)
            \in Stopped(input.state, input.satisfied, aborted, shapes)
      BY <1>4, <3>1, StoppedUnderway
    <3> QED
      BY <2>1, <2>2, <2>4, <3>2
  <2> QED
    BY <2>3, <2>4
<1>5. CASE ~aborted /\ Untouched
  <2>1. ~LoopOver /\ runnable = {} /\ terminal = "none" /\ ~fatalError
    BY <1>5 DEF Finished, LoopOver, Untouched
  <2>2. nothingToDo
    <3>1. \A n \in active : n \in waiting /\ n \notin pendingSatisfactions
      BY <2>1 DEF runnable
    <3>2. input.state.started
      BY <1>2, <1>5, <3>1 DEF Untouched
    <3> QED
      BY <1>5, <3>1, <3>2 DEF Untouched, nothingToDo, kept, Kept
  <2>3. Ticked(active, waiting) = input.state
    <3>1. active = input.state.active /\ waiting = input.state.waiting
      BY <1>5, <2>2 DEF Untouched, nothingToDo
    <3>2. input.state.saved = TRUE /\ input.state.started = TRUE
      BY <1>1, <1>2, <2>2 DEF nothingToDo, GraphState
    <3> QED
      BY <1>1, <3>1, <3>2 DEF Ticked, GraphState
  <2>4. Status = (IF input.state.waiting # {} THEN "WAITING" ELSE "FAILED")
    BY <1>5, <2>1 DEF Status, Untouched
  <2>5. took = {} /\ newWaits = {}
    BY <1>5 DEF took, Untouched
  <2>6. Outcomes(input.state, input.satisfied, aborted, shapes) = {Idle(input.state)}
    BY <1>5, <2>2 DEF Outcomes, nothingToDo, kept
  <2> QED
    BY <2>3, <2>4, <2>5, <2>6 DEF Idle
<1> QED
  BY <1>2, <1>3, <1>4, <1>5

\* What a tick hands back, whatever the graph, the yields of its nodes and its
\* conditions are, is one of the outcomes the coordinator is modelled to expect:
\* the assumption under which the coordinator's theorems are about this engine.
THEOREM ContractHolds == Spec => []TickWithinContract
<1>1. Init => HandedOver
  BY DEF Init, Fresh, HandedOver
<1> QED
  BY <1>1, HandedOverKept, ContractKept, TickInvariant, PTL DEF Spec

--------------------------------------------------------------------------------
(* Dry runs *)

Walks == [queue : Seq(graph.nodes), path : Seq(graph.nodes), wide : BOOLEAN,
          counters : Counters, activations : [graph.nodes -> Nat],
          stop : {"none", "terminal", "failed", "loop-bound", "stalled", "settlement-limit",
                  "indeterminate"},
          at : graph.nodes]

\* A declared join is the same to the walk and to the engine.
LEMMA JoinsAgree ==
    ASSUME graph \in Workflows, JoinsDeclared, NEW w \in Walks, w.activations = activations,
           NEW n \in graph.nodes
    PROVE  walkJoinSatisfied(w, n) <=> joinSatisfied(n, w.counters)
<1> DEFINE c == w.counters
<1>1. graph.join[n].mode \in {"implicit", "any", "all", "min"} /\ c \in Counters
  BY GraphFacts DEF Walks
<1>2. ASSUME graph.join[n].mode = "implicit"
      PROVE  totalFirings(n, c) = maxSingleFirings(n, c)
  <2>1. Cardinality(incoming(n)) <= 1 /\ IsFiniteSet(incoming(n)) /\ Cardinality(incoming(n)) \in Nat
    BY <1>2, IncomingFinite, FS_CardinalityType DEF JoinsDeclared
  <2>2. CASE Cardinality(incoming(n)) = 0
    <3>1. incoming(n) = {}
      BY <2>1, <2>2, FS_EmptySet
    <3>2. arrived(n, c) = {} /\ peaks(n, c) = {0}
      BY <3>1 DEF arrived, peaks
    <3>3. totalFirings(n, c) = 0
      BY <3>2, FS_EmptySet DEF totalFirings, arrived
    <3>4. peaks(n, c) \subseteq 0..0 /\ peaks(n, c) # {} /\ 0 \in Nat
      BY <3>2
    <3>5. Max(peaks(n, c)) \in peaks(n, c)
      BY <3>4, GreatestExists
    <3> QED BY <3>2, <3>3, <3>5 DEF maxSingleFirings, peaks
  <2>3. CASE Cardinality(incoming(n)) = 1
    <3>1. PICK i : incoming(n) = {i}
      BY <2>1, <2>3, FS_Singleton
    <3>2. i \in DOMAIN transitions /\ c[i] \in Nat
      BY <3>1, <1>1 DEF incoming, Counters
    <3>3. arrived(n, c) = {i} \X (1..c[i]) /\ peaks(n, c) = {c[i], 0}
      BY <3>1 DEF arrived, peaks, firingsOf
    <3>4. Cardinality({i} \X (1..c[i])) = c[i]
      <4>1. PICK k \in Nat : k = c[i]
        BY <3>2
      <4>2. PICK s : s = {i}
        OBVIOUS
      <4>3. IsFiniteSet(s) /\ Cardinality(s) = 1
        BY <4>2, FS_Singleton
      <4>4. IsFiniteSet(1..k) /\ Cardinality(1..k) = k
        BY FS_Interval
      <4>5. Cardinality(s \X (1..k)) = 1 * k
        BY <4>3, <4>4, FS_Product
      <4>6. Cardinality(s \X (1..k)) = k
        BY <4>5
      <4> QED BY <4>1, <4>2, <4>6
    <3>5. peaks(n, c) \subseteq 0..c[i] /\ peaks(n, c) # {}
      BY <3>2, <3>3
    <3>6. Max(peaks(n, c)) \in peaks(n, c) /\ \A x \in peaks(n, c) : x <= Max(peaks(n, c))
      BY <3>2, <3>5, GreatestExists
    <3>7. Max(peaks(n, c)) = c[i]
      BY <3>2, <3>3, <3>6
    <3> QED BY <3>3, <3>4, <3>7 DEF maxSingleFirings, peaks, totalFirings, arrived
  <2> QED BY <2>1, <2>2, <2>3
<1>3. CASE graph.join[n].mode = "implicit"
  BY <1>2, <1>3 DEF walkJoinSatisfied, joinSatisfied
<1>4. CASE graph.join[n].mode = "any"
  BY <1>4 DEF walkJoinSatisfied, joinSatisfied
<1>5. CASE graph.join[n].mode = "all"
  BY <1>5 DEF walkJoinSatisfied, joinSatisfied
<1>6. CASE graph.join[n].mode = "min"
  BY <1>6 DEF walkJoinSatisfied, joinSatisfied
<1> QED
  BY <1>1, <1>3, <1>4, <1>5, <1>6

\* What the walk is after a transition.
LEMMA FireTyped ==
    ASSUME graph \in Workflows, NEW w \in Walks, NEW i \in DOMAIN transitions
    PROVE  /\ walkFire(w, i) \in Walks
           /\ walkFire(w, i).path = w.path /\ walkFire(w, i).at = w.at
           /\ walkFire(w, i).wide = w.wide
           /\ w.stop # "none" => walkFire(w, i) = w
           /\ w.stop = "none" => walkFire(w, i).stop \in {"none", "loop-bound"}
           /\ \A j \in DOMAIN transitions : w.counters[j] <= walkFire(w, i).counters[j]
<1> DEFINE fired == [w EXCEPT !.counters[i] = @ + 1]
           target == transitions[i].to
           next == walkFire(w, i)
<1>1. target \in graph.nodes
  BY GraphFacts
<1>2. /\ fired \in Walks /\ fired.path = w.path /\ fired.at = w.at /\ fired.wide = w.wide
      /\ fired.stop = w.stop /\ \A j \in DOMAIN transitions : w.counters[j] <= fired.counters[j]
  <2> DEFINE more == [w.counters EXCEPT ![i] = @ + 1]
  <2>1. more \in Counters /\ \A j \in DOMAIN transitions : w.counters[j] <= more[j]
    <3>1. w.counters \in [DOMAIN transitions -> Nat]
      BY DEF Walks, Counters
    <3> QED BY <3>1 DEF Counters
  <2> HIDE DEF more
  <2>2. [w EXCEPT !.counters = more] \in Walks /\ fired = [w EXCEPT !.counters = more]
    BY <2>1 DEF Walks, more
  <2>3. /\ fired.counters = more /\ fired.path = w.path /\ fired.at = w.at /\ fired.wide = w.wide
        /\ fired.stop = w.stop
    BY <2>2 DEF Walks
  <2> QED BY <2>1, <2>2, <2>3
<1>3. /\ walkActivate(fired, target) \in Walks
      /\ walkActivate(fired, target).path = fired.path /\ walkActivate(fired, target).at = fired.at
      /\ walkActivate(fired, target).wide = fired.wide /\ walkActivate(fired, target).stop = fired.stop
      /\ walkActivate(fired, target).counters = fired.counters
  <2> HIDE DEF fired, target
  <2>1. Append(fired.queue, target) \in Seq(graph.nodes)
    BY <1>1, <1>2 DEF Walks
  <2>2. [fired.activations EXCEPT ![target] = @ + 1] \in [graph.nodes -> Nat]
    BY <1>1, <1>2 DEF Walks
  <2> QED BY <1>1, <1>2, <2>1, <2>2 DEF walkActivate, Walks
<1>4. \/ next = w
      \/ w.stop = "none" /\ next = [w EXCEPT !.stop = "loop-bound"]
      \/ w.stop = "none" /\ next = fired
      \/ w.stop = "none" /\ next = walkActivate(fired, target)
  BY DEF walkFire
<1>5. w \in Walks /\ [w EXCEPT !.stop = "loop-bound"] \in Walks
      /\ \A j \in DOMAIN transitions : w.counters[j] <= w.counters[j]
  <2>1. w.counters \in [DOMAIN transitions -> Nat]
    BY DEF Walks, Counters
  <2>2. \A j \in DOMAIN transitions : w.counters[j] <= w.counters[j]
    BY <2>1
  <2>3. [w EXCEPT !.stop = "loop-bound"] \in Walks
    BY DEF Walks
  <2> HIDE DEF fired, target, next
  <2> QED BY <2>2, <2>3
<1>6. w.stop # "none" => next = w
  BY DEF walkFire
<1> HIDE DEF next, fired
<1>7. CASE next = w
  BY <1>5, <1>6, <1>7 DEF next
<1>8. CASE w.stop = "none" /\ next = [w EXCEPT !.stop = "loop-bound"]
  BY <1>5, <1>8 DEF next, Walks
<1>9. CASE w.stop = "none" /\ next = fired
  BY <1>2, <1>9 DEF next
<1>10. CASE w.stop = "none" /\ next = walkActivate(fired, target)
  BY <1>2, <1>3, <1>10 DEF next
<1> QED
  BY <1>4, <1>7, <1>8, <1>9, <1>10

\* What holds of nothing done and is kept by each step holds after any number of them.
LEMMA UpTo ==
    ASSUME NEW n \in Nat, NEW G, 0 \in G, \A m \in 1..n : m - 1 \in G => m \in G
    PROVE  \A m \in 0..n : m \in G
<1> DEFINE Bad == {m \in 0..n : m \notin G}
<1> SUFFICES ASSUME Bad # {} PROVE FALSE
  OBVIOUS
<1>1. Bad \subseteq Nat
  OBVIOUS
<1> HIDE DEF Bad
<1>2. PICK m \in Bad : \A k \in Bad : m <= k
  BY <1>1, LeastExists
<1>3. m \in 1..n /\ m - 1 \in 0..n /\ m - 1 \notin Bad
  <2>1. m \in 0..n /\ m # 0
    BY DEF Bad
  <2>2. m \in Nat /\ ~(m <= m - 1)
    BY <2>1
  <2> QED BY <1>2, <2>1, <2>2
<1> QED
  BY <1>2, <1>3 DEF Bad

\* What the walk is after each transition of the node that has settled.
Fires(after, settled) ==
    /\ after \in [0..Len(transitions) -> Walks]
    /\ after[0] = settled
    /\ \A i \in 1..Len(transitions) :
          after[i] = IF i \in outgoingOf(settled.at) THEN walkFire(after[i - 1], i) ELSE after[i - 1]

LEMMA TransitionsInOrder ==
    ASSUME graph \in Workflows
    PROVE  Len(transitions) \in Nat /\ DOMAIN transitions = 1..Len(transitions)
<1>1. transitions \in Seq([from : graph.nodes, to : graph.nodes, loopBound : Nat])
  BY EngineAssumption DEF isWorkflowGraph, transitions
<1> QED
  BY <1>1

\* The recursion of the walk over the transitions has a solution.
LEMMA FiresAll ==
    ASSUME graph \in Workflows, NEW settled \in Walks
    PROVE  \E after : Fires(after, settled) /\ walkFireAll(settled) = after[Len(transitions)]
<1> DEFINE n == Len(transitions)
           Then(w, i) == IF i \in outgoingOf(settled.at) THEN walkFire(w, i) ELSE w
           Solves(f) == f = [i \in 0..n |-> IF i = 0 THEN settled
                                            ELSE IF i \in outgoingOf(settled.at) THEN walkFire(f[i - 1], i)
                                            ELSE f[i - 1]]
           Upto(f, m) == /\ f \in [0..m -> Walks] /\ f[0] = settled
                         /\ \A i \in 1..m : f[i] = Then(f[i - 1], i)
           G == {m \in 0..n : \E f : Upto(f, m)}
<1>1. n \in Nat /\ DOMAIN transitions = 1..n
  BY TransitionsInOrder
<1> HIDE DEF n
<1>2. ASSUME NEW w \in Walks, NEW i \in 1..n PROVE Then(w, i) \in Walks
  BY <1>1, FireTyped
<1> HIDE DEF Then
<1>3. 0 \in G
  <2>1. Upto([i \in 0..0 |-> settled], 0)
    OBVIOUS
  <2> HIDE DEF Upto
  <2> QED BY <1>1, <2>1
<1>4. ASSUME NEW m \in 1..n, m - 1 \in G PROVE m \in G
  <2>1. PICK f : Upto(f, m - 1)
    <3> HIDE DEF Upto
    <3> QED BY <1>4
  <2>2. /\ f \in [0..(m - 1) -> Walks] /\ f[0] = settled
        /\ \A i \in 1..(m - 1) : f[i] = Then(f[i - 1], i)
    BY <2>1
  <2> DEFINE g == [i \in 0..m |-> IF i = m THEN Then(f[m - 1], m) ELSE f[i]]
  <2>3. m \in Nat
    BY <1>1
  <2>4. /\ m # 0 /\ \A i \in 0..m : i # m => i \in 0..(m - 1)
        /\ m - 1 \in 0..(m - 1) /\ m \in 0..m /\ m - 1 \in 0..m /\ m - 1 # m /\ 0 \in 0..m
        /\ m \in 0..n
    BY <1>1, <2>3
  <2>5. Then(f[m - 1], m) \in Walks
    BY <1>2, <2>2, <2>4
  <2>6. g \in [0..m -> Walks] /\ g[0] = settled
    BY <2>2, <2>4, <2>5
  <2>7. ASSUME NEW i \in 1..m PROVE g[i] = Then(g[i - 1], i)
    <3>1. CASE i = m
      BY <2>4, <3>1
    <3>2. CASE i # m
      <4>1. i \in 1..(m - 1) /\ i \in 0..m /\ i - 1 \in 0..m /\ i - 1 # m
        BY <2>3, <3>2
      <4>2. g[i] = f[i] /\ g[i - 1] = f[i - 1]
        BY <3>2, <4>1
      <4> QED BY <2>2, <4>1, <4>2
    <3> QED BY <3>1, <3>2
  <2>8. Upto(g, m)
    BY <2>6, <2>7
  <2> HIDE DEF Upto
  <2> QED BY <2>4, <2>8
<1>5. PICK f : Upto(f, n)
  <2> HIDE DEF G
  <2>1. \A m \in 0..n : m \in G
    BY <1>1, <1>3, <1>4, UpTo
  <2>2. n \in G
    BY <1>1, <2>1
  <2> QED BY <2>2 DEF G
<1>6. Solves(f)
  <2>1. \A i \in 0..n : i = 0 \/ i \in 1..n
    BY <1>1
  <2>2. \A i \in 0..n : f[i] = IF i = 0 THEN settled
                                ELSE IF i \in outgoingOf(settled.at) THEN walkFire(f[i - 1], i)
                                ELSE f[i - 1]
    BY <1>5, <2>1 DEF Then
  <2>3. f \in [0..n -> Walks]
    BY <1>5
  <2> QED BY <2>2, <2>3
<1>7. PICK g : Solves(g) /\ walkFireAll(settled) = g[n]
  <2>1. walkFireAll(settled) = (CHOOSE g : Solves(g))[n]
    BY DEF walkFireAll, n
  <2>2. Solves(CHOOSE g : Solves(g))
    <3> HIDE DEF Solves
    <3> QED BY <1>6
  <2> HIDE DEF Solves
  <2> QED BY <2>1, <2>2
<1>8. /\ DOMAIN g = 0..n /\ g[0] = settled
      /\ \A i \in 1..n : g[i] = Then(g[i - 1], i)
      /\ g = [i \in 0..n |-> g[i]]
  <2>1. \A i \in 0..n : g[i] = IF i = 0 THEN settled
                                ELSE IF i \in outgoingOf(settled.at) THEN walkFire(g[i - 1], i)
                                ELSE g[i - 1]
    BY <1>7
  <2>2. 0 \in 0..n /\ \A i \in 1..n : i \in 0..n /\ i # 0
    BY <1>1
  <2> QED BY <1>7, <2>1, <2>2 DEF Then
<1> HIDE DEF Solves
<1>9. \A m \in 0..n : g[m] \in Walks
  <2> DEFINE K == {m \in 0..n : g[m] \in Walks}
  <2>1. 0 \in K
    BY <1>1, <1>8
  <2>2. ASSUME NEW m \in 1..n, m - 1 \in K PROVE m \in K
    <3>1. m \in 0..n
      BY <1>1
    <3> QED BY <1>2, <1>8, <2>2, <3>1
  <2> HIDE DEF K
  <2>3. \A m \in 0..n : m \in K
    BY <1>1, <2>1, <2>2, UpTo
  <2> QED BY <2>3 DEF K
<1>10. g \in [0..n -> Walks]
  BY <1>8, <1>9
<1> QED
  BY <1>7, <1>8, <1>10 DEF Fires, Then, n

\* What the transitions leave of the walk.
LEMMA FiresKeep ==
    ASSUME graph \in Workflows, NEW settled \in Walks, NEW after, Fires(after, settled)
    PROVE  \A i \in 0..Len(transitions) :
              /\ after[i] \in Walks
              /\ after[i].path = settled.path /\ after[i].at = settled.at
              /\ after[i].wide = settled.wide
<1> DEFINE n == Len(transitions)
           Same(w) == w \in Walks /\ w.path = settled.path /\ w.at = settled.at /\ w.wide = settled.wide
           G == {m \in 0..n : Same(after[m])}
<1>1. n \in Nat /\ DOMAIN transitions = 1..n
  BY TransitionsInOrder
<1>2. 0 \in G
  BY <1>1 DEF Fires
<1>3. ASSUME NEW m \in 1..n, m - 1 \in G PROVE m \in G
  <2>1. m \in 0..n /\ Same(after[m - 1])
    BY <1>1, <1>3
  <2>2. after[m] = after[m - 1] \/ after[m] = walkFire(after[m - 1], m)
    BY DEF Fires
  <2>3. Same(walkFire(after[m - 1], m))
    BY <1>1, <2>1, FireTyped
  <2> QED BY <2>1, <2>2, <2>3
<1> HIDE DEF G, n
<1>4. \A m \in 0..n : m \in G
  BY <1>1, <1>2, <1>3, UpTo
<1> QED
  BY <1>4 DEF G, n

\* Where nothing happens the walk stays as it is.
LEMMA Steady ==
    ASSUME graph \in Workflows, NEW settled \in Walks, NEW after, Fires(after, settled),
           NEW j \in 0..Len(transitions), NEW k \in j..Len(transitions),
           \/ after[j].stop # "none"
           \/ \A i \in (j + 1)..k : i \notin outgoingOf(settled.at)
    PROVE  after[k] = after[j]
<1> DEFINE n == Len(transitions)
           G == {m \in 0..k : m < j \/ after[m] = after[j]}
<1>1. n \in Nat /\ DOMAIN transitions = 1..n
  BY TransitionsInOrder
<1>2. j \in Nat /\ k \in Nat /\ j <= k /\ k <= n
  BY <1>1
<1>3. 0 \in G
  BY <1>2
<1>4. ASSUME NEW m \in 1..k, m - 1 \in G PROVE m \in G
  <2>1. m \in 0..k /\ m \in 1..n /\ m - 1 \in 0..n /\ m \in Nat
    BY <1>2
  <2>2. CASE m <= j
    BY <1>2, <2>1, <2>2
  <2>3. CASE ~(m <= j)
    <3>1. after[m - 1] = after[j] /\ m \in (j + 1)..k
      BY <1>2, <1>4, <2>1, <2>3
    <3>2. after[m] = IF m \in outgoingOf(settled.at) THEN walkFire(after[m - 1], m) ELSE after[m - 1]
      BY <2>1 DEF Fires
    <3>3. after[m - 1] \in Walks /\ m \in DOMAIN transitions
      BY <1>1, <2>1 DEF Fires
    <3>4. after[m - 1].stop # "none" => walkFire(after[m - 1], m) = after[m - 1]
      BY <3>3, FireTyped
    <3>5. after[m] = after[j]
      BY <3>1, <3>2, <3>4
    <3> QED BY <2>1, <3>5
  <2> QED BY <2>2, <2>3
<1> HIDE DEF G, n
<1>5. \A m \in 0..k : m \in G
  BY <1>2, <1>3, <1>4, UpTo
<1>6. k \in 0..k /\ ~(k < j)
  BY <1>2
<1> QED
  BY <1>5, <1>6 DEF G

--------------------------------------------------------------------------------
(* A step of the walk, and its history *)

OnPath(w) == [w EXCEPT !.path = Append(@, w.at)]
AtLast(after) == after[Len(transitions)]
Conclusion(settled, end) ==
    IF isTerminalNode(graph, settled.at) THEN [settled EXCEPT !.stop = "terminal"]
    ELSE IF /\ world.status[settled.at] = "failed"
            /\ end.counters = settled.counters /\ end.stop = "none"
    THEN [end EXCEPT !.stop = "failed"]
    ELSE end
Takes(w, w2) ==
    \E after : Fires(after, OnPath(shift(w))) /\ w2 = Conclusion(OnPath(shift(w)), AtLast(after))
NodeStep(w, w2) ==
    \/ w.queue = <<>> /\ w2 = [w EXCEPT !.stop = "stalled"]
    \/ w.queue # <<>> /\ w2 = [w EXCEPT !.stop = "settlement-limit"]
    \/ /\ w.queue # <<>> /\ world.status[Head(w.queue)] = "unknown"
       /\ w2 = [shift(w) EXCEPT !.stop = "indeterminate"]
    \/ w.queue # <<>> /\ Takes(w, w2)

LEMMA ShiftTyped ==
    ASSUME NEW w \in Walks, w.queue # <<>>
    PROVE  /\ shift(w) \in Walks /\ OnPath(shift(w)) \in Walks
           /\ Head(w.queue) \in graph.nodes /\ Tail(w.queue) \in Seq(graph.nodes)
           /\ \A v \in {shift(w), OnPath(shift(w))} :
                 /\ v.at = Head(w.queue) /\ v.queue = Tail(w.queue)
                 /\ v.wide = (w.wide \/ Len(w.queue) > 1)
                 /\ v.counters = w.counters /\ v.activations = w.activations /\ v.stop = w.stop
           /\ shift(w).path = w.path
           /\ OnPath(shift(w)).path = Append(w.path, Head(w.queue))
<1>1. w.queue \in Seq(graph.nodes) /\ w.wide \in BOOLEAN /\ w.path \in Seq(graph.nodes)
  BY DEF Walks
<1>2. PICK h, t, b : h = Head(w.queue) /\ t = Tail(w.queue) /\ b = (w.wide \/ Len(w.queue) > 1)
  OBVIOUS
<1>3. h \in graph.nodes /\ t \in Seq(graph.nodes) /\ b \in BOOLEAN
  <2>1. PICK q, s : q = w.queue /\ s = graph.nodes
    OBVIOUS
  <2>2. q \in Seq(s) /\ q # <<>>
    BY <1>1, <2>1
  <2>3. Head(q) \in s /\ Tail(q) \in Seq(s)
    BY <2>2, HeadTailProperties
  <2> QED BY <1>1, <1>2, <2>1, <2>3
<1>4. shift(w) = [w EXCEPT !.at = h, !.queue = t, !.wide = b]
  BY <1>2 DEF shift
<1>5. /\ shift(w) \in Walks
      /\ shift(w).at = h /\ shift(w).queue = t /\ shift(w).wide = b
      /\ shift(w).counters = w.counters /\ shift(w).activations = w.activations
      /\ shift(w).stop = w.stop /\ shift(w).path = w.path
  BY <1>3, <1>4 DEF Walks
<1>6. Append(w.path, h) \in Seq(graph.nodes)
  <2>1. PICK q, s : q = w.path /\ s = graph.nodes
    OBVIOUS
  <2>2. q \in Seq(s) /\ h \in s
    BY <1>1, <1>3, <2>1
  <2>3. Append(q, h) \in Seq(s)
    BY <2>2
  <2> QED BY <2>1, <2>3
<1>7. PICK v : v = shift(w)
  OBVIOUS
<1>8. PICK p : p = Append(w.path, h)
  OBVIOUS
<1>9. OnPath(v) = [v EXCEPT !.path = p]
  BY <1>5, <1>7, <1>8 DEF OnPath
<1>10. /\ OnPath(v) \in Walks
       /\ OnPath(v).at = v.at /\ OnPath(v).queue = v.queue /\ OnPath(v).wide = v.wide
       /\ OnPath(v).counters = v.counters /\ OnPath(v).activations = v.activations
       /\ OnPath(v).stop = v.stop /\ OnPath(v).path = p
  BY <1>5, <1>6, <1>7, <1>8, <1>9 DEF Walks
<1> QED
  BY <1>2, <1>3, <1>5, <1>7, <1>8, <1>10

LEMMA ConclusionTyped ==
    ASSUME NEW settled \in Walks, NEW end \in Walks, end.path = settled.path,
           end.wide = settled.wide, end.at = settled.at
    PROVE  /\ Conclusion(settled, end) \in Walks
           /\ Conclusion(settled, end).path = settled.path /\ Conclusion(settled, end).wide = settled.wide
           /\ Conclusion(settled, end).at = settled.at
<1>1. /\ [settled EXCEPT !.stop = "terminal"] \in Walks
      /\ [settled EXCEPT !.stop = "terminal"].path = settled.path
      /\ [settled EXCEPT !.stop = "terminal"].wide = settled.wide
      /\ [settled EXCEPT !.stop = "terminal"].at = settled.at
  BY DEF Walks
<1>2. /\ [end EXCEPT !.stop = "failed"] \in Walks
      /\ [end EXCEPT !.stop = "failed"].path = end.path
      /\ [end EXCEPT !.stop = "failed"].wide = end.wide
      /\ [end EXCEPT !.stop = "failed"].at = end.at
  BY DEF Walks
<1> QED
  BY <1>1, <1>2 DEF Conclusion

\* How often a path visits a node.
visits(path, n) == Cardinality({k \in DOMAIN path : path[k] = n})

LEMMA OneMoreVisit ==
    ASSUME NEW S, NEW path \in Seq(S), NEW at \in S, NEW n
    PROVE  /\ visits(path, n) \in Nat
           /\ visits(Append(path, at), n) = visits(path, n) + (IF n = at THEN 1 ELSE 0)
<1> DEFINE V == {k \in DOMAIN path : path[k] = n}
           W == {k \in DOMAIN Append(path, at) : Append(path, at)[k] = n}
           last == Len(path) + 1
<1>1. /\ Len(path) \in Nat /\ DOMAIN path = 1..Len(path)
      /\ DOMAIN Append(path, at) = 1..(Len(path) + 1)
      /\ Append(path, at)[last] = at
      /\ \A k \in DOMAIN path : Append(path, at)[k] = path[k]
  OBVIOUS
<1>2. IsFiniteSet(V) /\ Cardinality(V) \in Nat
  <2>1. IsFiniteSet(1..Len(path)) /\ V \subseteq 1..Len(path)
    BY <1>1, FS_Interval
  <2> QED BY <2>1, FS_Subset, FS_CardinalityType
<1>3. /\ last \notin V /\ last \in DOMAIN Append(path, at)
      /\ \A k \in DOMAIN Append(path, at) : k = last \/ k \in DOMAIN path
      /\ \A k \in DOMAIN path : k \in DOMAIN Append(path, at) /\ k # last
  BY <1>1
<1>4. CASE n = at
  <2>1. W = V \cup {last}
    BY <1>1, <1>3, <1>4
  <2>2. Cardinality(V \cup {last}) = Cardinality(V) + 1
    BY <1>2, <1>3, FS_AddElement
  <2>3. visits(Append(path, at), n) = visits(path, n) + 1 /\ visits(path, n) \in Nat
    BY <1>2, <2>1, <2>2 DEF visits
  <2> QED BY <1>4, <2>3
<1>5. CASE n # at
  <2>1. W = V
    BY <1>1, <1>3, <1>5
  <2>2. visits(Append(path, at), n) = visits(path, n) /\ visits(path, n) \in Nat
    BY <1>2, <2>1 DEF visits
  <2> QED BY <1>5, <2>2
<1> QED
  BY <1>4, <1>5

\* A walk looks at its graph and its world, which stay what they are.
LEMMA SameFiring ==
    ASSUME graph' = graph, world' = world, NEW w, NEW i
    PROVE  walkFire(w, i)' = walkFire(w, i)
<1>1. transitions' = transitions
  BY DEF transitions
<1>2. \A n : incoming(n)' = incoming(n)
  BY <1>1 DEF incoming
<1>3. \A n, c : /\ firedCount(n, c)' = firedCount(n, c)
                /\ maxSingleFirings(n, c)' = maxSingleFirings(n, c)
                /\ entryOffset(n)' = entryOffset(n)
  BY <1>2 DEF firedCount, maxSingleFirings, entryOffset
<1>4. ASSUME NEW v, NEW n PROVE walkJoinSatisfied(v, n)' = walkJoinSatisfied(v, n)
  <2>1. /\ incoming(n)' = incoming(n) /\ firedCount(n, v.counters)' = firedCount(n, v.counters)
        /\ maxSingleFirings(n, v.counters)' = maxSingleFirings(n, v.counters)
        /\ entryOffset(n)' = entryOffset(n) /\ graph.join[n]' = graph.join[n]
    BY <1>2, <1>3
  <2> QED BY <2>1 DEF walkJoinSatisfied
<1>5. \A f : holds(i, f)' <=> holds(i, f)
  BY DEF holds
<1> QED
  BY <1>1, <1>4, <1>5 DEF walkFire, walkActivate

LEMMA SameStep ==
    ASSUME graph' = graph, world' = world, NEW w, NEW w2
    PROVE  /\ Walks' = Walks
           /\ NodeStep(w, w2)' <=> NodeStep(w, w2)
           /\ \A after, settled : Fires(after, settled)' <=> Fires(after, settled)
           /\ \A end, settled : Conclusion(settled, end)' = Conclusion(settled, end)
<1>1. transitions' = transitions
  BY DEF transitions
<1>2. Walks' = Walks
  BY <1>1 DEF Walks, Counters
<1>3. \A n : outgoingOf(n)' = outgoingOf(n)
  BY <1>1 DEF outgoingOf
<1>4. \A after, settled : Fires(after, settled)' <=> Fires(after, settled)
  BY <1>1, <1>2, <1>3, SameFiring DEF Fires
<1>5. \A end, settled : Conclusion(settled, end)' = Conclusion(settled, end)
  BY DEF Conclusion
<1>6. shift(w)' = shift(w) /\ OnPath(shift(w))' = OnPath(shift(w))
  BY DEF shift, OnPath
<1>7. \A after : AtLast(after)' = AtLast(after)
  BY <1>1 DEF AtLast
<1>8. Takes(w, w2)' <=> Takes(w, w2)
  BY <1>4, <1>5, <1>6, <1>7 DEF Takes
<1> QED
  BY <1>2, <1>4, <1>5, <1>6, <1>8 DEF NodeStep

\* A step of the walk is typed, and forgets neither a visit nor a choice.
LEMMA NodeStepTaken ==
    ASSUME graph \in Workflows, NEW w \in Walks
    PROVE  NodeStep(w, walkNode(w))
<1>1. CASE w.queue = <<>> \/ Len(w.path) >= WALK_SETTLEMENT_BACKSTOP
           \/ world.status[Head(w.queue)] = "unknown"
  BY <1>1 DEF walkNode, NodeStep
<1>2. CASE ~(w.queue = <<>> \/ Len(w.path) >= WALK_SETTLEMENT_BACKSTOP
             \/ world.status[Head(w.queue)] = "unknown")
  <2> DEFINE v == shift(w)
             settled == OnPath(v)
  <2>1. walkNode(w) = walkSettle(v)
    BY <1>2 DEF walkNode
  <2>2. settled \in Walks /\ settled.at = v.at
    BY <1>2, ShiftTyped
  <2>3. PICK after : Fires(after, settled) /\ walkFireAll(settled) = AtLast(after)
    BY <2>2, FiresAll DEF AtLast
  <2>4. walkSettle(v) = Conclusion(settled, walkFireAll(settled))
    BY <2>2 DEF walkSettle, Conclusion, OnPath
  <2>5. Takes(w, walkNode(w))
    BY <2>1, <2>3, <2>4 DEF Takes
  <2> QED BY <1>2, <2>5 DEF NodeStep
<1> QED
  BY <1>1, <1>2

LEMMA TakesTyped ==
    ASSUME graph \in Workflows, NEW w \in Walks, NEW w2, w.queue # <<>>, Takes(w, w2)
    PROVE  /\ w2 \in Walks /\ w2.wide = (w.wide \/ Len(w.queue) > 1)
           /\ w2.path = Append(w.path, Head(w.queue)) /\ w2.at = Head(w.queue)
<1> DEFINE settled == OnPath(shift(w))
<1>1. /\ settled \in Walks /\ settled.path = Append(w.path, Head(w.queue))
      /\ settled.wide = (w.wide \/ Len(w.queue) > 1) /\ settled.at = Head(w.queue)
  BY ShiftTyped
<1> HIDE DEF settled
<1>2. PICK after : Fires(after, settled) /\ w2 = Conclusion(settled, AtLast(after))
  BY DEF Takes, settled
<1>3. Len(transitions) \in 0..Len(transitions)
  BY TransitionsInOrder
<1>4. /\ AtLast(after) \in Walks /\ AtLast(after).path = settled.path
      /\ AtLast(after).at = settled.at /\ AtLast(after).wide = settled.wide
  BY <1>1, <1>2, <1>3, FiresKeep DEF AtLast
<1>5. w2 \in Walks /\ w2.path = settled.path /\ w2.wide = settled.wide /\ w2.at = settled.at
  BY <1>1, <1>2, <1>4, ConclusionTyped
<1> QED
  BY <1>1, <1>5

LEMMA NodeStepTyped ==
    ASSUME graph \in Workflows, NEW w \in Walks, NEW w2, NodeStep(w, w2)
    PROVE  /\ w2 \in Walks
           /\ w2.wide \in {w.wide, w.wide \/ Len(w.queue) > 1}
           /\ \/ w2.path = w.path
              \/ w.queue # <<>> /\ w2.path = Append(w.path, Head(w.queue))
<1>1. CASE w2 = [w EXCEPT !.stop = "stalled"]
  BY <1>1 DEF Walks
<1>2. CASE w2 = [w EXCEPT !.stop = "settlement-limit"]
  BY <1>2 DEF Walks
<1>3. CASE w.queue # <<>> /\ w2 = [shift(w) EXCEPT !.stop = "indeterminate"]
  <2>1. PICK v : v = shift(w)
    OBVIOUS
  <2>2. v \in Walks /\ v.path = w.path /\ v.wide = (w.wide \/ Len(w.queue) > 1)
    BY <1>3, <2>1, ShiftTyped
  <2>3. [v EXCEPT !.stop = "indeterminate"] \in Walks
        /\ [v EXCEPT !.stop = "indeterminate"].path = v.path
        /\ [v EXCEPT !.stop = "indeterminate"].wide = v.wide
    BY <2>2 DEF Walks
  <2> QED BY <1>3, <2>1, <2>2, <2>3
<1>4. CASE w.queue # <<>> /\ Takes(w, w2)
  BY <1>4, TakesTyped
<1> QED
  BY <1>1, <1>2, <1>3, <1>4 DEF NodeStep

\* The counters only grow along the transitions.
LEMMA CountersGrow ==
    ASSUME graph \in Workflows, NEW settled \in Walks, NEW after, Fires(after, settled),
           NEW j \in 0..Len(transitions), NEW i \in DOMAIN transitions
    PROVE  settled.counters[i] <= after[j].counters[i]
<1> DEFINE n == Len(transitions)
           G == {m \in 0..n : settled.counters[i] <= after[m].counters[i]}
<1>1. n \in Nat /\ DOMAIN transitions = 1..n
  BY TransitionsInOrder
<1>2. \A w \in Walks : w.counters[i] \in Nat
  BY DEF Walks, Counters
<1>3. 0 \in G
  <2>1. settled.counters[i] <= settled.counters[i]
    BY <1>2
  <2> QED BY <1>1, <2>1 DEF Fires
<1>4. ASSUME NEW m \in 1..n, m - 1 \in G PROVE m \in G
  <2>1. m \in 0..n /\ m - 1 \in 0..n /\ m \in DOMAIN transitions
    BY <1>1
  <2>2. after[m - 1] \in Walks /\ after[m] \in Walks
    BY <2>1 DEF Fires
  <2>3. after[m - 1].counters[i] <= walkFire(after[m - 1], m).counters[i]
        /\ walkFire(after[m - 1], m) \in Walks
    BY <2>1, <2>2, FireTyped
  <2>4. after[m] = after[m - 1] \/ after[m] = walkFire(after[m - 1], m)
    BY DEF Fires
  <2>5. settled.counters[i] <= after[m - 1].counters[i]
    BY <1>4
  <2>6. after[m - 1].counters[i] <= after[m].counters[i]
    <3>1. after[m - 1].counters[i] <= after[m - 1].counters[i]
      BY <1>2, <2>2
    <3> QED BY <2>3, <2>4, <3>1
  <2>7. settled.counters[i] \in Nat /\ after[m - 1].counters[i] \in Nat /\ after[m].counters[i] \in Nat
    BY <1>2, <2>2
  <2>8. settled.counters[i] <= after[m].counters[i]
    BY <2>5, <2>6, <2>7
  <2> QED BY <2>1, <2>8
<1> HIDE DEF G, n
<1>5. \A m \in 0..n : m \in G
  BY <1>1, <1>3, <1>4, UpTo
<1> QED
  BY <1>5 DEF G, n

--------------------------------------------------------------------------------
(* The run follows its walk *)

Start == [queue |-> <<graph.entry>>, path |-> <<>>, wide |-> FALSE,
          counters |-> [i \in DOMAIN transitions |-> 0],
          activations |-> [n \in graph.nodes |-> IF n = graph.entry THEN 1 ELSE 0],
          stop |-> "none", at |-> graph.entry]

\* H is the walk from its start to what it has become in m steps.
History(m, H) ==
    /\ m \in Nat /\ H \in [0..m -> Walks]
    /\ H[0] = Start /\ H[m] = walk
    /\ \A i \in 1..m : H[i - 1].stop = "none" /\ NodeStep(H[i - 1], H[i])
    /\ \A i \in 0..m : /\ H[i].wide => walk.wide
                       /\ \A n \in graph.nodes : visits(H[i].path, n) <= visits(walk.path, n)

Visited(path) == \A n \in graph.nodes : results[n] = retries[n] + visits(path, n)
Undisturbed == waiting = {} /\ pendingSatisfactions = {} /\ ~aborted
Level(w) == loopCounters = w.counters /\ activations = w.activations /\ active = ToSet(w.queue)

NotBegun ==
    /\ pc = "idle" /\ Undisturbed /\ active = {} /\ terminal = "none" /\ ~fatalError
    /\ loopCounters = [i \in DOMAIN transitions |-> 0]
    /\ {activations, results, retries} = {[n \in graph.nodes |-> 0]}

\* Between two nodes the run is where the walk was.
Ready(w) ==
    /\ pc \in {"loop", "batch"} /\ Undisturbed /\ Level(w) /\ Visited(w.path)
    /\ terminal = "none" /\ (fatalError => pc = "loop" /\ settlements >= maxSettlements)

\* At a node it has fired as many of its transitions as some stage of the walk there.
Firing(w, w2) ==
    LET settled == OnPath(shift(w)) IN
    /\ pc = "fire" /\ Undisturbed /\ executions = {} /\ terminal = "none" /\ ~fatalError
    /\ w.queue # <<>> /\ Visited(settled.path)
    /\ settling.failed = (world.status[settled.at] = "failed")
    /\ ~isTerminalNode(graph, settled.at)
    /\ \E after, j :
         /\ Fires(after, settled) /\ w2 = Conclusion(settled, AtLast(after))
         /\ j \in 0..Len(transitions) /\ Level(after[j]) /\ after[j].stop = "none"
         /\ settling.rest = {i \in outgoingOf(settled.at) : i > j}
         /\ settling.fired = 0 => loopCounters = settled.counters
         /\ settling.fired > 0 => \E i \in DOMAIN transitions : settled.counters[i] < loopCounters[i]

\* It has come to its end, by the backstop of the tick or where the walk did.
Over(w) ==
    /\ pc \in {"loop", "ended"} /\ Undisturbed /\ (pc = "loop" => LoopOver)
    /\ \/ settlements >= maxSettlements /\ Visited(w.path)
       \/ Visited(walk.path) /\ terminal = IF walk.stop = "terminal" THEN graph.kind[walk.at] ELSE "none"

Predictable == ~walk.wide /\ JoinsDeclared /\ walk.stop \notin {"none", "settlement-limit"}
Follows(w, w2) == Ready(w) \/ Firing(w, w2) \/ Over(w)

DryInv ==
    \E m, H :
       /\ History(m, H)
       /\ walk.stop = "none" => NotBegun
       /\ Predictable => NotBegun \/ \E i \in 1..m : Follows(H[i - 1], H[i])

\* What is known of two successive stages of a walk without a choice.
OnTheWay(w, w2) ==
    /\ w \in Walks /\ w2 \in Walks /\ w.stop = "none"
    /\ w2.stop # "none" => w2 = walk
    /\ w.queue = <<>> => w2.stop = "stalled" /\ w2.path = w.path
    /\ w.queue # <<>> =>
         /\ ToSet(w.queue) = {Head(w.queue)} /\ Tail(w.queue) = <<>>
         /\ world.status[Head(w.queue)] = "unknown" \/ Takes(w, w2)

LEMMA OneInQueue ==
    ASSUME NEW S, NEW q \in Seq(S), q # <<>>, ~(Len(q) > 1)
    PROVE  ToSet(q) = {Head(q)} /\ Tail(q) = <<>>
<1>1. Len(q) = 1 /\ DOMAIN q = {1} /\ Head(q) = q[1]
  <2>1. Len(q) \in Nat /\ Len(q) # 0 /\ DOMAIN q = 1..Len(q) /\ Head(q) = q[1]
    BY EmptySeq
  <2>2. Len(q) = 1
    BY <2>1
  <2> QED BY <2>1, <2>2
<1>2. Tail(q) \in Seq(S) /\ Len(Tail(q)) = Len(q) - 1
  BY HeadTailProperties
<1>3. Tail(q) = <<>>
  <2>1. PICK t : t = Tail(q)
    OBVIOUS
  <2>2. t \in Seq(S) /\ Len(t) = 0
    BY <1>1, <1>2, <2>1
  <2> QED BY <2>1, <2>2, EmptySeq
<1> QED
  BY <1>1, <1>3 DEF ToSet

LEMMA Stage ==
    ASSUME graph \in Workflows, Predictable, NEW m, NEW H, History(m, H), NEW i \in 1..m
    PROVE  /\ OnTheWay(H[i - 1], H[i])
           /\ H[i].stop = "none" => i + 1 \in 1..m
<1>1. m \in Nat /\ i \in 0..m /\ i - 1 \in 0..m /\ (i # m => i + 1 \in 1..m)
  BY DEF History
<1>2. PICK w, w2 : w = H[i - 1] /\ w2 = H[i]
  OBVIOUS
<1>3. w \in Walks /\ w2 \in Walks /\ NodeStep(w, w2) /\ w.stop = "none"
  BY <1>1, <1>2 DEF History
<1>4. w2.stop # "none" => w2 = walk
  <2>1. CASE i = m
    BY <1>2, <2>1 DEF History
  <2>2. CASE i # m
    <3>1. i + 1 \in 1..m /\ (i + 1) - 1 = i
      BY <1>1, <2>2
    <3>2. H[(i + 1) - 1].stop = "none"
      BY <3>1 DEF History
    <3> QED BY <1>2, <3>1, <3>2
  <2> QED BY <2>1, <2>2
<1>5. w2.stop = "none" => i # m
  BY <1>2 DEF History, Predictable
<1>6. w2.stop # "settlement-limit"
  BY <1>4 DEF Predictable
<1>7. w.queue = <<>> => w2.stop = "stalled" /\ w2.path = w.path
  BY <1>3 DEF NodeStep, Walks
<1>8. ASSUME w.queue # <<>>
      PROVE  ~(Len(w.queue) > 1) /\ (world.status[Head(w.queue)] = "unknown" \/ Takes(w, w2))
  <2>1. w2 # [w EXCEPT !.stop = "settlement-limit"]
    BY <1>3, <1>6 DEF Walks
  <2>2. \/ world.status[Head(w.queue)] = "unknown" /\ w2 = [shift(w) EXCEPT !.stop = "indeterminate"]
        \/ Takes(w, w2)
    BY <1>3, <1>8, <2>1 DEF NodeStep
  <2>3. w2.wide => walk.wide
    BY <1>1, <1>2 DEF History
  <2>4. ~w2.wide
    BY <2>3 DEF Predictable
  <2>5. w2.wide = (w.wide \/ Len(w.queue) > 1)
    <3>1. CASE w2 = [shift(w) EXCEPT !.stop = "indeterminate"]
      <4>1. PICK v : v = shift(w)
        OBVIOUS
      <4>2. v \in Walks /\ v.wide = (w.wide \/ Len(w.queue) > 1)
        BY <1>3, <1>8, <4>1, ShiftTyped
      <4>3. w2.wide = v.wide
        BY <3>1, <4>1, <4>2 DEF Walks
      <4> QED BY <4>2, <4>3
    <3>2. CASE Takes(w, w2)
      BY <1>3, <1>8, <3>2, TakesTyped
    <3> QED BY <2>2, <3>1, <3>2
  <2> QED BY <2>2, <2>4, <2>5
<1>9. w.queue \in Seq(graph.nodes)
  BY <1>3 DEF Walks
<1>10. w.queue # <<>> => ToSet(w.queue) = {Head(w.queue)} /\ Tail(w.queue) = <<>>
  BY <1>8, <1>9, OneInQueue
<1> QED
  BY <1>1, <1>2, <1>3, <1>4, <1>5, <1>7, <1>8, <1>10 DEF OnTheWay

\* The first tick starts where the walk does.
LEMMA BeginFollows ==
    ASSUME TickInv, NotBegun, StartTick({}), NEW w, w = Start
    PROVE  Ready(w)'
<1>1. graph \in Workflows /\ graph.entry \in graph.nodes
  BY GraphFacts DEF TickInv
<1>2. graph' = graph /\ pc' = "loop" /\ terminal' = "none" /\ ~fatalError'
      /\ Undisturbed'
  BY DEF StartTick, NotBegun, Undisturbed
<1>3. activations = [n \in graph.nodes |-> 0] /\ results = [n \in graph.nodes |-> 0]
      /\ retries = [n \in graph.nodes |-> 0]
  BY DEF NotBegun
<1>4. active = {} /\ waiting = {} /\ ~started
  BY <1>3 DEF NotBegun, Undisturbed, started
<1>5. /\ activations' = [activations EXCEPT ![graph.entry] = @ + 1] /\ active' = {graph.entry}
      /\ loopCounters' = loopCounters /\ results' = results /\ retries' = retries
  BY <1>4 DEF StartTick
<1>6. activations' = w.activations
  BY <1>1, <1>3, <1>5 DEF Start
<1>7. active' = ToSet(w.queue)
  <2>1. w.queue = <<graph.entry>> /\ DOMAIN <<graph.entry>> = {1} /\ <<graph.entry>>[1] = graph.entry
    BY DEF Start
  <2> QED BY <1>5, <2>1 DEF ToSet
<1>8. loopCounters' = w.counters
  BY <1>5 DEF Start, NotBegun
<1>9. Visited(w.path)'
  <2>1. \A n : visits(<<>>, n) = 0
    <3> TAKE n
    <3>1. {k \in DOMAIN <<>> : <<>>[k] = n} = {}
      OBVIOUS
    <3> QED BY <3>1, FS_EmptySet DEF visits
  <2>2. w.path = <<>>
    BY DEF Start
  <2>3. \A n \in graph.nodes : visits(w.path, n) = 0
    BY <2>1, <2>2
  <2> QED BY <1>2, <1>3, <1>5, <2>3 DEF Visited
<1> QED
  BY <1>2, <1>6, <1>7, <1>8, <1>9 DEF Ready, Level

\* Nothing else happens before.
LEMMA Resting ==
    ASSUME TickInv, NotBegun, AsPredicted
    PROVE  StartTick({})
BY DEF NotBegun, AsPredicted, Backstop, Execute, RoundOver, Settled, EndTick, TakeResult, Fire, Finished

\* A run between two nodes.
LEMMA ReadyRounds ==
    ASSUME TickInv, NEW w, NEW w2, OnTheWay(w, w2), Ready(w), UNCHANGED dryVars,
           Backstop \/ Execute \/ RoundOver \/ EndTick
    PROVE  Ready(w)' \/ Over(w)'
<1>1. graph' = graph /\ walk' = walk /\ UNCHANGED <<loopCounters, activations, active, results, retries>>
  BY DEF Backstop, Execute, RoundOver, EndTick, state, locals, dryVars
<1>2. Level(w)' /\ (Visited(w.path) => Visited(w.path)') /\ (Visited(walk.path) => Visited(walk.path)')
  BY <1>1 DEF Ready, Level, Visited
<1>3. runnable = active
  BY DEF runnable, Ready, Undisturbed
<1>4. CASE Backstop
  BY <1>2, <1>4 DEF Backstop, Ready, Undisturbed, state
<1>5. CASE Execute
  BY <1>2, <1>5 DEF Execute, Ready, Undisturbed, LoopOver
<1>6. CASE RoundOver
  BY <1>2, <1>6 DEF RoundOver, Ready, Undisturbed, state, locals
<1>7. CASE EndTick
  <2>1. UNCHANGED <<waiting, pendingSatisfactions, aborted, settlements, terminal, fatalError>> /\ pc = "loop"
    BY <1>7 DEF EndTick, state, locals, Finished
  <2>2. Status # "WAITING"
    BY DEF Status, Ready, Undisturbed
  <2>3. pc' = "ended" /\ Undisturbed'
    BY <1>7, <2>1, <2>2 DEF EndTick, Ready, Undisturbed
  <2>4. CASE fatalError
    BY <1>2, <2>1, <2>3, <2>4 DEF Ready, Over
  <2>5. CASE ~fatalError
    <3>1. runnable = {}
      BY <1>7, <2>5 DEF EndTick, Finished, LoopOver, Ready, Undisturbed
    <3>2. ToSet(w.queue) = {}
      BY <1>3, <3>1 DEF Ready, Level
    <3>3. w.queue = <<>>
      BY <3>2 DEF OnTheWay
    <3>4. w2.stop = "stalled" /\ w2.path = w.path /\ w2 = walk
      BY <3>3 DEF OnTheWay
    <3> QED BY <1>1, <1>2, <2>1, <2>3, <3>4 DEF Ready, Over
  <2> QED BY <2>4, <2>5
<1> QED
  BY <1>4, <1>5, <1>6, <1>7

\* A run that is over ends.
LEMMA OverRemains ==
    ASSUME TickInv, NEW w, Over(w), AsPredicted, UNCHANGED dryVars
    PROVE  Over(w)'
<1>1. EndTick
  BY DEF Over, AsPredicted, StartTick, Backstop, Execute, RoundOver, Settled, TakeResult, Fire
<1>2. UNCHANGED <<graph, walk, waiting, pendingSatisfactions, aborted, settlements, terminal,
                  results, retries>>
  BY <1>1 DEF EndTick, state, locals, dryVars
<1>3. pc' = "ended"
  BY <1>1 DEF EndTick, Status, Over, Undisturbed
<1> QED
  BY <1>2, <1>3 DEF Over, Undisturbed, Visited

\* A node that executes settles as it was predicted.
LEMMA ReadySettles ==
    ASSUME TickInv, NEW w, NEW w2, OnTheWay(w, w2), Ready(w), UNCHANGED dryVars,
           NEW failed \in BOOLEAN, TakeResult(failed), executions # {},
           world.status[current] = (IF failed THEN "failed" ELSE "succeeded")
    PROVE  Ready(w)' \/ Firing(w, w2)' \/ Over(w)'
<1> DEFINE n == Head(w.queue)
           settled == OnPath(shift(w))
<1>1. graph \in Workflows /\ graph' = graph /\ world' = world /\ walk' = walk
  BY DEF TakeResult, TickInv, dryVars
<1>2. current \in executions /\ current \in graph.nodes /\ current \in active
  BY CurrentNode
<1>3. w.queue # <<>> /\ active = {n} /\ current = n /\ Tail(w.queue) = <<>>
  <2>1. active = ToSet(w.queue)
    BY DEF Ready, Level
  <2>2. w.queue # <<>>
    <3>1. ASSUME w.queue = <<>> PROVE FALSE
      <4>1. ToSet(<<>>) = {}
        BY DEF ToSet
      <4> QED BY <1>2, <2>1, <3>1, <4>1
    <3> QED BY <3>1
  <2> QED BY <1>2, <2>1, <2>2 DEF OnTheWay
<1>4. Takes(w, w2)
  BY <1>3 DEF OnTheWay
<1>5. w \in Walks /\ w.stop = "none" /\ w2 \in Walks
  BY DEF OnTheWay
<1>6. /\ settled \in Walks /\ settled.at = n /\ settled.queue = Tail(w.queue)
      /\ settled.counters = w.counters /\ settled.activations = w.activations
      /\ settled.stop = "none" /\ settled.path = Append(w.path, n)
  BY <1>3, <1>5, ShiftTyped
<1>7. executions = {n}
  BY <1>2, <1>3 DEF TickInv, RoundKept
<1>8. w.path \in Seq(graph.nodes) /\ n \in graph.nodes
  BY <1>2, <1>3, <1>5 DEF Walks
<1>9. results \in [graph.nodes -> Nat] /\ retries \in [graph.nodes -> Nat]
  BY DEF TickInv, TypeOK
<1>10. \A x \in graph.nodes : visits(w.path, x) \in Nat
          /\ visits(settled.path, x) = visits(w.path, x) + (IF x = n THEN 1 ELSE 0)
  BY <1>6, <1>8, OneMoreVisit
<1>11. Visited(w.path)
  BY DEF Ready
<1>12. settlements' = settlements + 1 /\ results' = [results EXCEPT ![n] = @ + 1] /\ Undisturbed'
       /\ fatalError' = fatalError /\ ~fatalError /\ terminal = "none"
       /\ loopCounters' = loopCounters /\ activations' = activations
  BY <1>3 DEF TakeResult, Ready, Undisturbed
<1>13. ASSUME retries' = retries PROVE Visited(settled.path)'
  <2>1. \A x \in graph.nodes : results'[x] = retries[x] + visits(settled.path, x)
    <3> TAKE x \in graph.nodes
    <3>1. results[x] = retries[x] + visits(w.path, x) /\ results[x] \in Nat /\ retries[x] \in Nat
      BY <1>9, <1>11 DEF Visited
    <3>2. results'[x] = results[x] + (IF x = n THEN 1 ELSE 0)
      BY <1>9, <1>12, <3>1
    <3> QED BY <1>10, <3>1, <3>2
  <2> QED BY <1>1, <1>13, <2>1 DEF Visited
<1> HIDE DEF n, settled
<1>14. CASE isTerminalNode(graph, n)
  <2>1. terminal' = graph.kind[n] /\ pc' = "loop" /\ retries' = retries
    BY <1>3, <1>14 DEF TakeResult
  <2>2. LoopOver'
    <3>1. graph.kind[n] # "none"
      BY <1>1, <1>8, GraphFacts
    <3> QED BY <2>1, <3>1 DEF LoopOver
  <2>3. w2 = [settled EXCEPT !.stop = "terminal"]
    BY <1>4, <1>6, <1>14 DEF Takes, Conclusion, settled
  <2>4. w2.stop = "terminal" /\ w2.path = settled.path /\ w2.at = n
    BY <1>6, <2>3 DEF Walks
  <2>5. w2 = walk
    BY <2>4 DEF OnTheWay
  <2>6. Visited(walk.path)'
    BY <1>1, <1>13, <2>1, <2>4, <2>5
  <2>7. terminal' = IF walk'.stop = "terminal" THEN graph'.kind[walk'.at] ELSE "none"
    BY <1>1, <2>1, <2>4, <2>5
  <2> QED BY <1>12, <2>1, <2>2, <2>6, <2>7 DEF Over
<1>15. CASE ~isTerminalNode(graph, n) /\ failed /\ attempt(n) < graph.maxAttempts[n]
  <2>1. /\ retries' = [retries EXCEPT ![n] = @ + 1] /\ active' = active \cup {n} /\ pc' = pc
        /\ terminal' = terminal
    BY <1>3, <1>15 DEF TakeResult
  <2>2. active' = active
    BY <1>3, <2>1 DEF n
  <2>3. Level(w)'
    BY <1>12, <2>2 DEF Level, Ready
  <2>4. \A x \in graph.nodes : results'[x] = retries'[x] + visits(w.path, x)
    <3> TAKE x \in graph.nodes
    <3>1. results[x] = retries[x] + visits(w.path, x) /\ results[x] \in Nat /\ retries[x] \in Nat
          /\ visits(w.path, x) \in Nat
      BY <1>9, <1>10, <1>11 DEF Visited
    <3>2. results'[x] = results[x] + (IF x = n THEN 1 ELSE 0)
          /\ retries'[x] = retries[x] + (IF x = n THEN 1 ELSE 0)
      BY <1>9, <1>12, <2>1
    <3> QED BY <3>1, <3>2
  <2>5. Visited(w.path)'
    BY <1>1, <2>4 DEF Visited
  <2> QED BY <1>12, <2>1, <2>3, <2>5 DEF Ready
<1>16. CASE ~isTerminalNode(graph, n) /\ ~(failed /\ attempt(n) < graph.maxAttempts[n])
  <2>1. /\ retries' = retries /\ active' = active \ {n} /\ pc' = "fire" /\ terminal' = terminal
        /\ executions' = executions \ {n}
        /\ settling' = [node |-> n, failed |-> failed, rest |-> outgoingOf(n), fired |-> 0]
    BY <1>3, <1>16 DEF TakeResult
  <2>2. executions' = {} /\ active' = {}
    BY <1>3, <1>7, <2>1 DEF n
  <2>3. PICK after : Fires(after, settled) /\ w2 = Conclusion(settled, AtLast(after))
    BY <1>4 DEF Takes, settled
  <2>4. after[0] = settled /\ 0 \in 0..Len(transitions)
    BY <1>1, <2>3, TransitionsInOrder DEF Fires
  <2>5. Level(after[0])'
    <3>1. ToSet(settled.queue) = {}
      <4>1. settled.queue = <<>> /\ ToSet(<<>>) = {}
        BY <1>3, <1>6 DEF ToSet
      <4> QED BY <4>1
    <3> QED BY <1>6, <1>12, <2>2, <2>4, <3>1 DEF Level, Ready
  <2>6. outgoingOf(n) = {i \in outgoingOf(n) : i > 0}
    <3>1. \A i \in outgoingOf(n) : i > 0
      <4> TAKE i \in outgoingOf(n)
      <4>1. i \in 1..Len(transitions)
        BY <1>1, TransitionsInOrder DEF outgoingOf
      <4> QED BY <4>1
    <3> QED BY <3>1
  <2>7. outgoingOf(n)' = outgoingOf(n) /\ (0..Len(transitions))' = 0..Len(transitions)
    BY <1>1 DEF outgoingOf, transitions
  <2>8. Fires(after, settled)' /\ w2 = Conclusion(settled, AtLast(after))'
    <3>1. PICK s : s = settled
      OBVIOUS
    <3>2. settled' = s
      BY <1>1, <3>1 DEF settled, OnPath, shift
    <3>3. AtLast(after)' = AtLast(after)
      BY <1>1 DEF AtLast, transitions
    <3>4. Fires(after, s)' /\ w2 = Conclusion(s, AtLast(after))'
      <4>1. PICK e : e = AtLast(after)
        OBVIOUS
      <4>2. Conclusion(s, e)' = Conclusion(s, e) /\ Fires(after, s)'
        BY <1>1, <2>3, <3>1, SameStep
      <4> QED BY <2>3, <3>1, <3>3, <4>1, <4>2
    <3> QED BY <3>2, <3>4
  <2>9. Visited(settled.path)'
    BY <1>13, <2>1
  <2>10. settling'.failed = (world'.status[n] = "failed")
    BY <1>1, <1>3, <2>1
  <2>11. /\ settling'.rest = {i \in outgoingOf(n)' : i > 0} /\ settling'.fired = 0
         /\ loopCounters' = settled.counters
    BY <1>6, <1>12, <2>1, <2>6, <2>7 DEF Ready, Level
  <2> QED
    BY <1>1, <1>3, <1>6, <1>12, <1>16, <2>1, <2>2, <2>4, <2>5, <2>7, <2>8, <2>9, <2>10, <2>11
    DEF Firing, settled
<1> QED
  BY <1>14, <1>15, <1>16

\* A transition fires, or not, as it does in the walk.
LEMMA FiringFires ==
    ASSUME TickInv, JoinsDeclared, NEW w, NEW w2, OnTheWay(w, w2), Firing(w, w2), UNCHANGED dryVars,
           Fire, loopCounters' # loopCounters \/ fatalError' <=> holds(Min(settling.rest), settling.failed)
    PROVE  Firing(w, w2)' \/ Over(w)'
<1>0. PICK i : i = Min(settling.rest)
  OBVIOUS
<1> DEFINE settled == OnPath(shift(w))
           n == Len(transitions)
           bound == transitions[i].loopBound
           target == transitions[i].to
<1>1. graph \in Workflows /\ graph' = graph /\ world' = world /\ walk' = walk
  BY DEF Fire, TickInv, dryVars
<1>2. PICK after, j :
         /\ Fires(after, settled) /\ w2 = Conclusion(settled, AtLast(after))
         /\ j \in 0..n /\ Level(after[j]) /\ after[j].stop = "none"
         /\ settling.rest = {k \in outgoingOf(settled.at) : k > j}
         /\ settling.fired = 0 => loopCounters = settled.counters
         /\ settling.fired > 0 => \E k \in DOMAIN transitions : settled.counters[k] < loopCounters[k]
  BY DEF Firing
<1>3. n \in Nat /\ DOMAIN transitions = 1..n
  BY <1>1, TransitionsInOrder
<1>4. settled \in Walks /\ w \in Walks /\ w2 \in Walks
  BY ShiftTyped DEF OnTheWay, Firing
<1>5. settling.rest # {} /\ i \in settling.rest /\ i \in 1..n /\ \A k \in settling.rest : i <= k
  <2>1. settling.rest # {}
    BY DEF Fire
  <2>2. settling.rest \subseteq Nat
    BY <1>1, <1>3 DEF TickInv, TypeOK
  <2> QED BY <1>0, <1>3, <2>1, <2>2, NextTransition, LeastExists
<1>6. i \in Nat /\ i \in outgoingOf(settled.at) /\ i > j /\ i - 1 \in j..n /\ i \in 0..n /\ j \in Nat
      /\ i - 1 \in 0..n /\ n \in i..n /\ n \in 0..n
  BY <1>2, <1>3, <1>5
<1>7. after[i - 1] = after[j]
  <2>1. ASSUME NEW k \in (j + 1)..(i - 1) PROVE k \notin outgoingOf(settled.at)
    <3>1. k > j /\ ~(i <= k)
      BY <1>6
    <3> QED BY <1>2, <1>5, <3>1
  <2> QED BY <1>1, <1>2, <1>4, <1>6, <2>1, Steady
<1>8. after[i] = walkFire(after[j], i)
  BY <1>2, <1>5, <1>6, <1>7 DEF Fires
<1>9. /\ after[j] \in Walks /\ after[j].path = settled.path /\ after[j].at = settled.at
      /\ after[i] \in Walks /\ after[i].path = settled.path /\ after[i].at = settled.at
      /\ AtLast(after) \in Walks /\ AtLast(after).path = settled.path
  BY <1>1, <1>2, <1>4, <1>6, FiresKeep DEF AtLast
<1>10. settling.failed = (world.status[after[j].at] = "failed") /\ ~isTerminalNode(graph, settled.at)
  BY <1>9 DEF Firing
<1>11. loopCounters = after[j].counters /\ activations = after[j].activations
       /\ active = ToSet(after[j].queue)
  BY <1>2 DEF Level
<1>12. /\ waiting = {} /\ pendingSatisfactions = {} /\ ~aborted /\ executions = {}
       /\ terminal = "none" /\ ~fatalError /\ pc = "fire" /\ w.queue # <<>> /\ Visited(settled.path)
  BY DEF Firing, Undisturbed
<1>13. /\ UNCHANGED <<pendingSatisfactions, aborted, terminal, results, retries>>
       /\ waiting' = {} /\ executions' = {}
       /\ settling'.failed = settling.failed
  BY <1>12, NextTransition DEF Fire, Fatal, Pass, state, activate, TickInv, TypeOK
<1>14. Visited(settled.path)'
  BY <1>1, <1>12, <1>13 DEF Visited
<1>15. Undisturbed'
  BY <1>12, <1>13 DEF Undisturbed
<1> DEFINE h == holds(i, world.status[after[j].at] = "failed")
<1>16. h <=> (loopCounters' # loopCounters \/ fatalError')
  BY <1>0, <1>10
<1>17. BoundReached(i) <=> (bound > 0 /\ after[j].counters[i] >= bound)
  BY <1>11 DEF BoundReached
\* The stage after a transition that is not the end of the run.
<1>18. ASSUME Level(after[i])', after[i].stop = "none", pc' = "fire", ~fatalError',
              settling'.rest = settling.rest \ {i},
              settling'.fired = 0 => loopCounters' = settled.counters,
              settling'.fired > 0 => \E k \in DOMAIN transitions : settled.counters[k] < loopCounters'[k]
       PROVE  Firing(w, w2)'
  <2>1. PICK s : s = settled
    OBVIOUS
  <2>2. settled' = s
    BY <1>1, <2>1 DEF OnPath, shift
  <2> HIDE DEF settled
  <2>3. settling'.rest = {k \in outgoingOf(s.at) : k > i}
    <3>1. \A k \in outgoingOf(s.at) : k \in 1..n
      BY <1>3 DEF outgoingOf
    <3>2. \A k \in outgoingOf(s.at) : (k > j /\ k # i) <=> k > i
      <4> TAKE k \in outgoingOf(s.at)
      <4>1. k \in Nat /\ (k > j => i <= k)
        BY <1>2, <1>3, <1>5, <2>1, <3>1
      <4> QED BY <1>6, <4>1
    <3> QED BY <1>2, <1>18, <2>1, <3>2
  <2>4. transitions' = transitions /\ outgoingOf(s.at)' = outgoingOf(s.at)
    BY <1>1 DEF outgoingOf, transitions
  <2>5. Fires(after, s)' /\ w2 = Conclusion(s, AtLast(after))'
    <3>1. PICK e : e = AtLast(after)
      OBVIOUS
    <3>2. AtLast(after)' = AtLast(after)
      BY <2>4 DEF AtLast
    <3>3. Conclusion(s, e)' = Conclusion(s, e) /\ (Fires(after, s)' <=> Fires(after, s))
      BY <1>1, SameStep
    <3> QED BY <1>2, <2>1, <3>1, <3>2, <3>3
  <2>6. settling'.failed = (world'.status[s.at] = "failed")
    BY <1>1, <1>9, <1>10, <1>13, <2>1
  <2>7. ~isTerminalNode(graph', s.at) /\ Visited(s.path)'
    BY <1>1, <1>10, <1>14, <2>1, <2>2
  <2>8. /\ settling'.fired = 0 => loopCounters' = s.counters
        /\ settling'.fired > 0 => \E k \in DOMAIN transitions' : s.counters[k] < loopCounters'[k]
    BY <1>18, <2>1, <2>4
  <2>9. i \in 0..Len(transitions')
    BY <1>6, <2>4
  <2>10. terminal' = "none" /\ executions' = {}
    BY <1>12, <1>13
  <2> HIDE DEF n, bound, target, h
  <2> QED
    BY <1>12, <1>15, <1>18, <2>2, <2>3, <2>4, <2>5, <2>6, <2>7, <2>8, <2>9, <2>10
    DEF Firing, settled
<1>19. CASE BoundReached(i) /\ Fatal
  <2>1. fatalError' = TRUE /\ pc' = "loop" /\ h
    BY <1>16, <1>19 DEF Fatal
  <2>2. after[i] = [after[j] EXCEPT !.stop = "loop-bound"]
    BY <1>2, <1>8, <1>17, <1>19, <2>1 DEF walkFire
  <2>3. after[i].stop = "loop-bound"
    BY <1>9, <2>2 DEF Walks
  <2>4. AtLast(after) = after[i]
    BY <1>1, <1>2, <1>4, <1>6, <2>3, Steady DEF AtLast
  <2>5. w2 = AtLast(after)
    BY <1>2, <1>10, <2>3, <2>4 DEF Conclusion
  <2>6. w2 = walk /\ walk.stop = "loop-bound" /\ walk.path = settled.path
    BY <1>9, <2>3, <2>4, <2>5 DEF OnTheWay
  <2>7. Visited(walk.path)'
    BY <1>1, <1>14, <2>6 DEF Visited
  <2>8. terminal' = IF walk'.stop = "terminal" THEN graph'.kind[walk'.at] ELSE "none"
    BY <1>1, <1>12, <1>13, <2>6
  <2> QED BY <1>15, <2>1, <2>7, <2>8 DEF Over, LoopOver
<1>20. CASE ~BoundReached(i) /\ Pass(i)
  <2> DEFINE counters == [loopCounters EXCEPT ![i] = @ + 1]
             v == after[j]
             fired == [v EXCEPT !.counters[i] = @ + 1]
  <2>1. loopCounters' = counters /\ loopCounters \in [DOMAIN transitions -> Nat]
        /\ activations \in [graph.nodes -> Nat] /\ settling.fired \in Nat
        /\ target \in graph.nodes
    BY <1>1, <1>3, <1>5, <1>20, GraphFacts DEF Pass, TickInv, TypeOK
  <2>2. counters # loopCounters /\ counters[i] = loopCounters[i] + 1 /\ counters \in Counters
    <3>1. PICK c, D : c = loopCounters /\ D = DOMAIN transitions
      OBVIOUS
    <3>2. c \in [D -> Nat] /\ i \in D /\ counters = [c EXCEPT ![i] = @ + 1] /\ Counters = [D -> Nat]
      BY <1>3, <1>5, <2>1, <3>1 DEF Counters
    <3> HIDE DEF counters
    <3>3. c[i] \in Nat /\ counters[i] = c[i] + 1 /\ counters \in [D -> Nat]
      BY <3>2
    <3>4. counters # c
      BY <3>3
    <3> QED BY <3>1, <3>2, <3>3, <3>4
  <2>3. h
    BY <1>16, <2>1, <2>2
  <2>4. after[i] = IF walkJoinSatisfied(fired, target) THEN walkActivate(fired, target) ELSE fired
    BY <1>2, <1>8, <1>17, <1>20, <2>3 DEF walkFire
  <2>5. /\ fired \in Walks /\ fired.counters = counters /\ fired.activations = activations
        /\ fired.queue = v.queue /\ fired.stop = "none"
    <3>1. fired = [v EXCEPT !.counters = counters]
      BY <1>9, <1>11 DEF Walks
    <3>2. [v EXCEPT !.counters = counters] \in Walks
      BY <1>9, <2>2 DEF Walks
    <3> QED BY <1>2, <1>9, <1>11, <3>1, <3>2 DEF Walks
  <2>6. walkJoinSatisfied(fired, target) <=> joinSatisfied(target, counters)
    <3> HIDE DEF fired, target, counters, v
    <3>1. walkJoinSatisfied(fired, target) <=> joinSatisfied(target, fired.counters)
      BY <1>1, <2>1, <2>5, JoinsAgree
    <3> QED BY <2>5, <3>1
  <2>7. /\ pc' = "fire" /\ ~fatalError' /\ settling'.rest = settling.rest \ {i}
        /\ settling'.fired = settling.fired + 1
    BY <1>12, <1>20, <2>1 DEF Pass, TickInv, TypeOK
  <2>8. Level(after[i])' /\ after[i].stop = "none"
    <3>1. CASE joinSatisfied(target, counters)
      <4>1. activations' = [activations EXCEPT ![target] = @ + 1] /\ active' = active \cup {target}
        BY <1>20, <3>1 DEF Pass, activate
      <4> HIDE DEF fired, target, counters, v
      <4>2. after[i] = walkActivate(fired, target)
        BY <2>4, <2>6, <3>1
      <4>3. PICK q, a, s : q = fired.queue /\ a = fired.activations /\ s = graph.nodes
        OBVIOUS
      <4>4. q \in Seq(s) /\ target \in s
        BY <2>1, <2>5, <4>3 DEF Walks
      <4>5. ToSet(Append(q, target)) = ToSet(q) \cup {target}
        <5>1. /\ Len(q) \in Nat /\ DOMAIN q = 1..Len(q) /\ DOMAIN Append(q, target) = 1..(Len(q) + 1)
              /\ Append(q, target)[Len(q) + 1] = target
              /\ \A k \in 1..Len(q) : Append(q, target)[k] = q[k]
          BY <4>4
        <5>2. \A k \in 1..(Len(q) + 1) : k = Len(q) + 1 \/ k \in 1..Len(q)
          BY <5>1
        <5>3. Len(q) + 1 \in 1..(Len(q) + 1) /\ \A k \in 1..Len(q) : k \in 1..(Len(q) + 1)
          BY <5>1
        <5> QED BY <5>1, <5>2, <5>3 DEF ToSet
      <4>6. PICK t : t = Append(q, target)
        OBVIOUS
      <4>7. /\ walkActivate(fired, target).queue = t
            /\ walkActivate(fired, target).activations = [a EXCEPT ![target] = @ + 1]
            /\ walkActivate(fired, target).counters = fired.counters
            /\ walkActivate(fired, target).stop = fired.stop
        BY <2>5, <4>3, <4>6 DEF walkActivate, Walks
      <4>8. active = ToSet(q)
        BY <1>11, <2>5, <4>3 DEF v
      <4> QED BY <2>1, <2>5, <4>1, <4>2, <4>3, <4>5, <4>6, <4>7, <4>8 DEF Level
    <3>2. CASE ~joinSatisfied(target, counters)
      <4>1. activations' = activations /\ active' = active
        BY <1>20, <3>2 DEF Pass
      <4>2. after[i] = fired
        BY <2>4, <2>6, <3>2
      <4> HIDE DEF fired, target, counters
      <4> QED BY <1>11, <2>1, <2>5, <4>1, <4>2 DEF Level
    <3> QED BY <3>1, <3>2
  <2>9. settled.counters[i] < loopCounters'[i]
    <3>1. settled.counters[i] <= v.counters[i]
      BY <1>1, <1>2, <1>3, <1>4, <1>5, CountersGrow
    <3>2. settled.counters[i] \in Nat
      BY <1>3, <1>4, <1>5 DEF Walks, Counters
    <3>3. loopCounters[i] \in Nat /\ v.counters[i] = loopCounters[i]
      BY <1>3, <1>5, <1>11, <2>1
    <3>4. loopCounters'[i] = loopCounters[i] + 1
      BY <2>1, <2>2
    <3> QED BY <3>1, <3>2, <3>3, <3>4
  <2>10. settling'.fired # 0
    BY <2>1, <2>7
  <2> HIDE DEF settled, n, bound, target, h, counters, v, fired
  <2>11. i \in DOMAIN transitions
    BY <1>3, <1>5
  <2> QED BY <1>18, <2>7, <2>8, <2>9, <2>10, <2>11
<1>21. CASE UNCHANGED <<state, pc, fatalError, executions, rearrived>>
            /\ settling' = [settling EXCEPT !.rest = @ \ {i}]
  <2>1. UNCHANGED <<loopCounters, activations, active, fatalError, pc>>
    BY <1>21 DEF state
  <2>2. ~h
    BY <1>12, <1>16, <2>1
  <2>3. after[i] = after[j]
    BY <1>2, <1>8, <2>2 DEF walkFire
  <2>4. settling'.rest = settling.rest \ {i} /\ settling'.fired = settling.fired
    BY <1>21 DEF TickInv, TypeOK
  <2>5. Level(after[i])' /\ after[i].stop = "none"
    BY <1>2, <1>11, <2>1, <2>3 DEF Level
  <2> HIDE DEF settled, n, bound, target, h
  <2> QED BY <1>2, <1>12, <1>18, <2>1, <2>4, <2>5
<1> QED
  BY <1>0, <1>19, <1>20, <1>21 DEF Fire

\* The last transition is behind it: the run goes on or fails where the walk does.
LEMMA FiringSettles ==
    ASSUME TickInv, NEW w, NEW w2, OnTheWay(w, w2), Firing(w, w2), UNCHANGED dryVars, Settled
    PROVE  Over(w)' \/ (w2.stop = "none" /\ Ready(w2)')
<1> DEFINE settled == OnPath(shift(w))
           n == Len(transitions)
<1>1. graph \in Workflows /\ graph' = graph /\ world' = world /\ walk' = walk
  BY DEF Settled, TickInv, dryVars
<1>2. PICK after, j :
         /\ Fires(after, settled) /\ w2 = Conclusion(settled, AtLast(after))
         /\ j \in 0..n /\ Level(after[j]) /\ after[j].stop = "none"
         /\ settling.rest = {k \in outgoingOf(settled.at) : k > j}
         /\ settling.fired = 0 => loopCounters = settled.counters
         /\ settling.fired > 0 => \E k \in DOMAIN transitions : settled.counters[k] < loopCounters[k]
  BY DEF Firing
<1>3. n \in Nat /\ DOMAIN transitions = 1..n /\ n \in j..n /\ n \in 0..n
  <2>1. n \in Nat /\ DOMAIN transitions = 1..n
    BY <1>1, TransitionsInOrder
  <2> QED BY <1>2, <2>1
<1>4. settled \in Walks /\ w \in Walks /\ w2 \in Walks
  BY ShiftTyped DEF OnTheWay, Firing
<1>5. AtLast(after) = after[j]
  <2>1. settling.rest = {}
    BY DEF Settled
  <2>2. \A k \in (j + 1)..n : k \notin outgoingOf(settled.at)
    <3>1. \A k \in (j + 1)..n : k > j
      BY <1>2, <1>3
    <3> QED BY <1>2, <2>1, <3>1
  <2> QED BY <1>1, <1>2, <1>3, <1>4, <2>2, Steady DEF AtLast
<1>6. after[j] \in Walks /\ after[j].path = settled.path /\ after[j].at = settled.at
  BY <1>1, <1>2, <1>4, FiresKeep
<1>7. loopCounters = after[j].counters /\ settling.fired \in Nat
  BY <1>2 DEF Level, TickInv, TypeOK
<1>8. settling.failed = (world.status[settled.at] = "failed") /\ ~isTerminalNode(graph, settled.at)
      /\ Undisturbed /\ executions = {} /\ terminal = "none" /\ ~fatalError /\ Visited(settled.path)
  BY DEF Firing
<1>9. UNCHANGED <<state, pendingSatisfactions, terminal, aborted>>
  BY DEF Settled, Fatal, state
<1>10. Undisturbed' /\ Level(after[j])' /\ Visited(settled.path)' /\ terminal' = "none"
  BY <1>1, <1>2, <1>8, <1>9 DEF Undisturbed, Level, Visited, state
<1>11. settling.fired = 0 <=> after[j].counters = settled.counters
  <2>1. settling.fired = 0 \/ settling.fired > 0
    BY <1>7
  <2>2. ASSUME NEW k \in DOMAIN transitions, settled.counters[k] < loopCounters[k]
        PROVE  loopCounters # settled.counters
    <3>1. settled.counters[k] \in Nat
      BY <1>4 DEF Walks, Counters
    <3>2. ~(settled.counters[k] < settled.counters[k])
      BY <3>1
    <3> QED BY <2>2, <3>2
  <2>3. settling.fired > 0 => loopCounters # settled.counters
    BY <1>2, <2>2
  <2> HIDE DEF settled, n
  <2> QED BY <1>2, <1>7, <2>1, <2>3
<1> HIDE DEF settled
<1>12. CASE settling.failed /\ settling.fired = 0 /\ Fatal
  <2>1. w2 = [after[j] EXCEPT !.stop = "failed"]
    BY <1>2, <1>5, <1>8, <1>11, <1>12 DEF Conclusion
  <2>2. w2.stop = "failed" /\ w2.path = settled.path
    BY <1>6, <2>1 DEF Walks
  <2>3. w2 = walk
    BY <2>2 DEF OnTheWay
  <2>4. fatalError' /\ pc' = "loop"
    BY <1>12 DEF Fatal
  <2>5. terminal' = IF walk'.stop = "terminal" THEN graph'.kind[walk'.at] ELSE "none"
    BY <1>1, <1>10, <2>2, <2>3
  <2>6. Visited(walk.path)'
    BY <1>1, <1>10, <2>2, <2>3
  <2> QED BY <1>10, <2>4, <2>5, <2>6 DEF Over, LoopOver
<1>13. CASE /\ ~(settling.failed /\ settling.fired = 0) /\ pc' = "batch"
            /\ UNCHANGED <<state, fatalError, executions, settling, rearrived>>
  <2>1. w2 = after[j]
    BY <1>2, <1>5, <1>8, <1>11, <1>13 DEF Conclusion
  <2>2. Visited(w2.path)' /\ Level(w2)'
    BY <1>6, <1>10, <2>1
  <2>3. ~fatalError'
    BY <1>8, <1>13
  <2> QED BY <1>2, <1>10, <1>13, <2>1, <2>2, <2>3 DEF Ready
<1> QED
  BY <1>12, <1>13 DEF Settled

--------------------------------------------------------------------------------
(* The prediction is kept *)

\* A step of the run leads from a stage of the walk to this one or the next.
LEMMA StageKept ==
    ASSUME TickInv, JoinsDeclared, NEW w, NEW w2, OnTheWay(w, w2), Follows(w, w2),
           AsPredicted, UNCHANGED dryVars
    PROVE  Follows(w, w2)' \/ (w2.stop = "none" /\ Ready(w2)')
<1>1. CASE Over(w)
  BY <1>1, OverRemains DEF Follows
<1>2. CASE Ready(w)
  <2>1. ~StartTick({}) /\ ~Settled /\ ~Fire
    BY <1>2 DEF Ready, StartTick, Settled, Fire
  <2>2. CASE Backstop \/ Execute \/ RoundOver \/ EndTick
    BY <1>2, <2>2, ReadyRounds DEF Follows
  <2>3. ASSUME NEW failed \in BOOLEAN, executions # {}, TakeResult(failed),
               world.status[current] = (IF failed THEN "failed" ELSE "succeeded")
        PROVE  Follows(w, w2)'
    BY <1>2, <2>3, ReadySettles DEF Follows
  <2> QED BY <2>1, <2>2, <2>3 DEF AsPredicted
<1>3. CASE Firing(w, w2)
  <2>1. pc = "fire"
    BY <1>3 DEF Firing
  <2>2. \/ Settled
        \/ Fire /\ (loopCounters' # loopCounters \/ fatalError' <=> holds(Min(settling.rest), settling.failed))
    BY <2>1 DEF AsPredicted, StartTick, Backstop, Execute, RoundOver, EndTick, Finished, TakeResult
  <2> QED BY <1>3, <2>2, FiringFires, FiringSettles DEF Follows
<1> QED
  BY <1>1, <1>2, <1>3 DEF Follows

LEMMA StartTyped ==
    ASSUME graph \in Workflows
    PROVE  Start \in Walks
<1>1. <<graph.entry>> \in Seq(graph.nodes) /\ <<>> \in Seq(graph.nodes) /\ graph.entry \in graph.nodes
  <2>1. PICK s, e : s = graph.nodes /\ e = graph.entry
    OBVIOUS
  <2>2. e \in s
    BY <2>1, GraphFacts
  <2>3. <<e>> \in Seq(s) /\ <<>> \in Seq(s)
    BY <2>2
  <2> QED BY <2>1, <2>2, <2>3
<1>2. [i \in DOMAIN transitions |-> 0] \in Counters
  BY DEF Counters
<1>3. [n \in graph.nodes |-> IF n = graph.entry THEN 1 ELSE 0] \in [graph.nodes -> Nat]
  OBVIOUS
<1> QED
  BY <1>1, <1>2, <1>3 DEF Start, Walks

LEMMA VisitsCounted ==
    ASSUME NEW S, NEW p \in Seq(S), NEW n
    PROVE  visits(p, n) \in Nat
<1>1. Len(p) \in Nat /\ DOMAIN p = 1..Len(p)
  OBVIOUS
<1>2. IsFiniteSet(1..Len(p)) /\ {k \in DOMAIN p : p[k] = n} \subseteq 1..Len(p)
  BY <1>1, FS_Interval
<1> QED
  BY <1>2, FS_Subset, FS_CardinalityType DEF visits

LEMMA DryBegins == ASSUME DryInit PROVE DryInv
<1>1. Init /\ TickInv /\ graph \in Workflows
  BY Begins DEF DryInit, TickInv
<1>2. PICK g \in Workflows : Fresh(g)
  BY <1>1 DEF Init
<1>3. graph = g /\ transitions = g.transitions
  BY <1>2 DEF Fresh, transitions
<1>4. NotBegun
  BY <1>2, <1>3 DEF Fresh, NotBegun, Undisturbed
<1>5. walk = Start
  <2>1. /\ activations = [n \in graph.nodes |-> 0] /\ graph.entry \in graph.nodes
        /\ loopCounters = [i \in DOMAIN transitions |-> 0]
    BY <1>1, <1>2, <1>3, GraphFacts DEF Fresh
  <2>2. [activations EXCEPT ![graph.entry] = 1] = [n \in graph.nodes |-> IF n = graph.entry THEN 1 ELSE 0]
    BY <2>1
  <2>3. walk = [Walk EXCEPT !.stop = "none", !.queue = <<graph.entry>>,
                            !.activations = [activations EXCEPT ![graph.entry] = 1]]
    BY DEF DryInit, Walk
  <2> QED BY <2>1, <2>2, <2>3 DEF Walk, Start
<1> DEFINE H == [i \in 0..0 |-> walk]
<1>6. walk \in Walks
  BY <1>1, <1>5, StartTyped
<1>7. H \in [0..0 -> Walks] /\ H[0] = Start /\ H[0] = walk /\ 1..0 = {} /\ \A i \in 0..0 : H[i] = walk
  BY <1>5, <1>6
<1>8. \A n \in graph.nodes : visits(walk.path, n) <= visits(walk.path, n)
  <2>1. walk.path \in Seq(graph.nodes)
    BY <1>6 DEF Walks
  <2>2. \A n : visits(walk.path, n) \in Nat
    BY <2>1, VisitsCounted
  <2> QED BY <2>2
<1> HIDE DEF H
<1>9. History(0, H)
  BY <1>7, <1>8 DEF History
<1> QED
  BY <1>4, <1>9 DEF DryInv

\* What the walk has come to is one stage more of its history.
LEMMA WalkStepKept ==
    ASSUME TickInv, DryInv, walkGraph
    PROVE  DryInv'
<1>1. graph \in Workflows /\ graph' = graph /\ world' = world /\ walk' = walkNode(walk) /\ walk.stop = "none"
  BY DEF walkGraph, vars, TickInv
<1>2. PICK m, H : History(m, H) /\ NotBegun
  BY <1>1 DEF DryInv
<1>3. PICK w : w = walkNode(walk)
  OBVIOUS
<1>4. m \in Nat /\ m \in 0..m /\ H \in [0..m -> Walks] /\ H[0] = Start /\ H[m] = walk /\ walk \in Walks
  BY <1>2 DEF History
<1>5. NodeStep(walk, w) /\ w \in Walks
  BY <1>1, <1>3, <1>4, NodeStepTaken, NodeStepTyped
<1>6. (walk.wide => w.wide) /\ \A n \in graph.nodes : visits(walk.path, n) <= visits(w.path, n)
  <2>1. /\ w.wide \in {walk.wide, walk.wide \/ Len(walk.queue) > 1}
        /\ w.path = walk.path \/ (walk.queue # <<>> /\ w.path = Append(walk.path, Head(walk.queue)))
    BY <1>1, <1>4, <1>5, NodeStepTyped
  <2>2. walk.path \in Seq(graph.nodes)
    BY <1>4 DEF Walks
  <2>3. ASSUME NEW n \in graph.nodes PROVE visits(walk.path, n) <= visits(w.path, n)
    <3>1. visits(walk.path, n) \in Nat
      BY <2>2, VisitsCounted
    <3>2. CASE w.path = walk.path
      BY <3>1, <3>2
    <3>3. CASE walk.queue # <<>> /\ w.path = Append(walk.path, Head(walk.queue))
      <4>1. Head(walk.queue) \in graph.nodes
        BY <1>4, <3>3, ShiftTyped
      <4>2. visits(w.path, n) = visits(walk.path, n) + (IF n = Head(walk.queue) THEN 1 ELSE 0)
        BY <2>2, <3>3, <4>1, OneMoreVisit
      <4> QED BY <3>1, <4>2
    <3> QED BY <2>1, <3>2, <3>3
  <2> QED BY <2>1, <2>3
<1> DEFINE G == [i \in 0..(m + 1) |-> IF i = m + 1 THEN w ELSE H[i]]
<1>7. /\ m + 1 \in Nat /\ 0 \in 0..(m + 1) /\ 0 # m + 1 /\ m + 1 \in 0..(m + 1) /\ m \in 0..(m + 1)
      /\ m # m + 1
      /\ \A i \in 0..(m + 1) : i # m + 1 => i \in 0..m
      /\ \A i \in 1..(m + 1) : /\ i \in 0..(m + 1) /\ i - 1 \in 0..(m + 1) /\ i - 1 # m + 1
                               /\ i = m + 1 => i - 1 = m
                               /\ i # m + 1 => i \in 1..m
  BY <1>4
<1>8. G \in [0..(m + 1) -> Walks] /\ G[0] = Start /\ G[m + 1] = w /\ G[m] = walk
  BY <1>4, <1>5, <1>7
<1>9. ASSUME NEW i \in 1..(m + 1) PROVE G[i - 1].stop = "none" /\ NodeStep(G[i - 1], G[i])
  <2>1. G[i - 1] = H[i - 1]
    BY <1>7
  <2>2. CASE i = m + 1
    BY <1>1, <1>4, <1>5, <1>7, <1>8, <2>2
  <2>3. CASE i # m + 1
    <3>1. i \in 1..m /\ G[i] = H[i]
      BY <1>7, <2>3
    <3> QED BY <1>2, <2>1, <3>1 DEF History
  <2> QED BY <2>2, <2>3
<1>10. ASSUME NEW i \in 0..(m + 1)
       PROVE  (G[i].wide => w.wide) /\ \A n \in graph.nodes : visits(G[i].path, n) <= visits(w.path, n)
  <2>1. \A n : visits(w.path, n) \in Nat /\ visits(walk.path, n) \in Nat /\ visits(G[i].path, n) \in Nat
    <3>1. w.path \in Seq(graph.nodes) /\ walk.path \in Seq(graph.nodes) /\ G[i].path \in Seq(graph.nodes)
      BY <1>4, <1>5, <1>8 DEF Walks
    <3> QED BY <3>1, VisitsCounted
  <2>2. CASE i = m + 1
    BY <1>8, <2>1, <2>2
  <2>3. CASE i # m + 1
    <3>1. i \in 0..m /\ G[i] = H[i]
      BY <1>7, <2>3
    <3>2. (H[i].wide => walk.wide) /\ \A n \in graph.nodes : visits(H[i].path, n) <= visits(walk.path, n)
      BY <1>2, <3>1 DEF History
    <3>3. ASSUME NEW n \in graph.nodes PROVE visits(G[i].path, n) <= visits(w.path, n)
      <4>1. visits(G[i].path, n) <= visits(walk.path, n) /\ visits(walk.path, n) <= visits(w.path, n)
        BY <1>6, <3>1, <3>2
      <4>2. PICK a, b, c : a = visits(G[i].path, n) /\ b = visits(walk.path, n) /\ c = visits(w.path, n)
        OBVIOUS
      <4>3. a \in Nat /\ b \in Nat /\ c \in Nat /\ a <= b /\ b <= c
        BY <2>1, <4>1, <4>2
      <4>4. a <= c
        BY <4>3
      <4> QED BY <4>2, <4>4
    <3> QED BY <1>6, <3>1, <3>2, <3>3
  <2> QED BY <2>2, <2>3
<1>11. PICK F : F = G
  OBVIOUS
<1> HIDE DEF G
<1>12. History(m + 1, F)'
  <2>1. Start' = Start /\ Walks' = Walks
    BY <1>1, SameStep DEF Start, transitions
  <2>2. \A i \in 1..(m + 1) : NodeStep(F[i - 1], F[i])'
    <3> TAKE i \in 1..(m + 1)
    <3>1. PICK v, v2 : v = F[i - 1] /\ v2 = F[i]
      OBVIOUS
    <3>2. NodeStep(v, v2)' <=> NodeStep(v, v2)
      BY <1>1, SameStep
    <3> QED BY <1>9, <1>11, <3>1, <3>2
  <2>3. /\ F \in [0..(m + 1) -> Walks'] /\ F[0] = Start' /\ F[m + 1] = walk'
    BY <1>1, <1>3, <1>8, <1>11, <2>1
  <2>4. \A i \in 0..(m + 1) : /\ F[i].wide => walk'.wide
                              /\ \A n \in graph' .nodes : visits(F[i].path, n) <= visits(walk'.path, n)
    BY <1>1, <1>3, <1>10, <1>11
  <2>5. \A i \in 1..(m + 1) : F[i - 1].stop = "none"
    BY <1>9, <1>11
  <2> QED BY <1>7, <2>2, <2>3, <2>4, <2>5 DEF History
<1>13. NotBegun'
  BY <1>2 DEF walkGraph, vars, state, locals, NotBegun, Undisturbed, transitions
<1> QED
  BY <1>12, <1>13 DEF DryInv

\* A history of the walk stays one while the run executes.
LEMMA HistoryKept ==
    ASSUME graph' = graph, UNCHANGED dryVars, NEW m, NEW H, History(m, H)
    PROVE  History(m, H)'
<1>1. world' = world /\ walk' = walk
  BY DEF dryVars
<1>2. Start' = Start /\ Walks' = Walks
  BY <1>1, SameStep DEF Start, transitions
<1>3. \A i \in 1..m : NodeStep(H[i - 1], H[i])'
  <2> TAKE i \in 1..m
  <2>1. PICK v, v2 : v = H[i - 1] /\ v2 = H[i]
    OBVIOUS
  <2>2. NodeStep(v, v2)' <=> NodeStep(v, v2)
    BY <1>1, SameStep
  <2> QED BY <2>1, <2>2 DEF History
<1> QED
  BY <1>1, <1>2, <1>3 DEF History

LEMMA RunStepKept ==
    ASSUME TickInv, DryInv, RunPredicted
    PROVE  DryInv'
<1>1. AsPredicted /\ UNCHANGED dryVars /\ walk' = walk /\ walk.stop # "none" /\ graph \in Workflows
  BY DEF RunPredicted, dryVars, TickInv
<1>2. graph' = graph
  BY <1>1 DEF AsPredicted, StartTick, Backstop, Execute, RoundOver, Settled, EndTick, TakeResult, Fire
<1>3. PICK m, H : History(m, H) /\ (Predictable => NotBegun \/ \E i \in 1..m : Follows(H[i - 1], H[i]))
  BY DEF DryInv
<1>4. History(m, H)'
  BY <1>1, <1>2, <1>3, HistoryKept
<1>5. ASSUME Predictable PROVE \E i \in 1..m : Follows(H[i - 1], H[i])'
  <2>1. CASE NotBegun
    <3>1. PICK w : w = Start
      OBVIOUS
    <3>2. Ready(w)'
      BY <1>1, <2>1, <3>1, Resting, BeginFollows
    <3>3. m \in Nat /\ m # 0 /\ H[0] = w
      BY <1>1, <1>3, <3>1 DEF History, Start
    <3>4. 1 \in 1..m /\ 1 - 1 = 0
      BY <3>3
    <3>5. PICK w2 : w2 = H[1]
      OBVIOUS
    <3>6. Follows(w, w2)'
      BY <3>2 DEF Follows
    <3>7. H[1 - 1] = w /\ H[1] = w2
      BY <3>3, <3>4, <3>5
    <3>8. Follows(H[1 - 1], H[1])'
      BY <3>6, <3>7
    <3> QED BY <3>4, <3>8
  <2>2. ASSUME NEW i \in 1..m, Follows(H[i - 1], H[i]) PROVE \E k \in 1..m : Follows(H[k - 1], H[k])'
    <3>1. PICK w, w2 : w = H[i - 1] /\ w2 = H[i]
      OBVIOUS
    <3>2. OnTheWay(w, w2) /\ (w2.stop = "none" => i + 1 \in 1..m)
      BY <1>1, <1>3, <1>5, <3>1, Stage
    <3>3. Follows(w, w2)' \/ (w2.stop = "none" /\ Ready(w2)')
      BY <1>1, <1>5, <2>2, <3>1, <3>2, StageKept DEF Predictable
    <3>4. CASE Follows(w, w2)'
      BY <3>1, <3>4
    <3>5. CASE w2.stop = "none" /\ Ready(w2)'
      <4>1. i + 1 \in 1..m /\ (i + 1) - 1 = i
        BY <3>2, <3>5
      <4>2. PICK w3 : w3 = H[i + 1]
        OBVIOUS
      <4>3. Follows(w2, w3)'
        BY <3>5 DEF Follows
      <4>4. Follows(H[(i + 1) - 1], H[i + 1])'
        BY <3>1, <4>1, <4>2, <4>3
      <4> QED BY <4>1, <4>4
    <3> QED BY <3>3, <3>4, <3>5
  <2> QED BY <1>3, <1>5, <2>1, <2>2
<1>6. Predictable' => Predictable
  <2>1. \A n : incoming(n)' = incoming(n)
    BY <1>2 DEF incoming, transitions
  <2> QED BY <1>1, <1>2, <2>1 DEF Predictable, JoinsDeclared
<1> QED
  BY <1>1, <1>4, <1>5, <1>6 DEF DryInv

LEMMA DryKeeps ==
    ASSUME TickInv, DryInv, [DryNext]_<<vars, dryVars>>
    PROVE  DryInv'
<1>1. CASE walkGraph
  BY <1>1, WalkStepKept
<1>2. CASE RunPredicted
  BY <1>2, RunStepKept
<1>3. CASE UNCHANGED <<vars, dryVars>>
  <2>1. graph' = graph /\ UNCHANGED dryVars /\ walk' = walk
    BY <1>3 DEF vars, dryVars
  <2>2. UNCHANGED <<pc, waiting, pendingSatisfactions, aborted, active, terminal, fatalError, settling,
                    loopCounters, activations, results, retries, executions, settlements>>
    BY <1>3 DEF vars, state, locals
  <2>3. PICK m, H :
           /\ History(m, H)
           /\ walk.stop = "none" => NotBegun
           /\ Predictable => NotBegun \/ \E i \in 1..m : Follows(H[i - 1], H[i])
    BY DEF DryInv
  <2>4. History(m, H)'
    BY <2>1, <2>3, HistoryKept
  <2>5. (NotBegun' <=> NotBegun) /\ transitions' = transitions
    BY <2>1, <2>2 DEF NotBegun, Undisturbed, transitions
  <2>6. Predictable' <=> Predictable
    <3>1. \A n : incoming(n)' = incoming(n)
      BY <2>5 DEF incoming
    <3> QED BY <2>1, <3>1 DEF Predictable, JoinsDeclared
  <2>7. ASSUME NEW w, NEW w2, Follows(w, w2) PROVE Follows(w, w2)'
    <3>1. CASE Ready(w)
      BY <2>1, <2>2, <3>1 DEF Ready, Level, Visited, Undisturbed, Follows
    <3>2. CASE Over(w)
      BY <2>1, <2>2, <3>2 DEF Over, LoopOver, Visited, Undisturbed, Follows
    <3>3. CASE Firing(w, w2)
      <4>1. world' = world
        BY <2>1 DEF dryVars
      <4>2. PICK s : s = OnPath(shift(w))
        OBVIOUS
      <4>3. OnPath(shift(w))' = s
        BY <2>1, <4>2 DEF OnPath, shift
      <4>4. PICK after, j :
              /\ Fires(after, s) /\ w2 = Conclusion(s, AtLast(after))
              /\ j \in 0..Len(transitions) /\ Level(after[j]) /\ after[j].stop = "none"
              /\ settling.rest = {i \in outgoingOf(s.at) : i > j}
              /\ settling.fired = 0 => loopCounters = s.counters
              /\ settling.fired > 0 => \E i \in DOMAIN transitions : s.counters[i] < loopCounters[i]
        BY <3>3, <4>2 DEF Firing
      <4>5. Fires(after, s)' /\ w2 = Conclusion(s, AtLast(after))'
        <5>1. PICK e : e = AtLast(after)
          OBVIOUS
        <5>2. AtLast(after)' = AtLast(after)
          BY <2>5 DEF AtLast
        <5>3. Conclusion(s, e)' = Conclusion(s, e) /\ (Fires(after, s)' <=> Fires(after, s))
          BY <2>1, <4>1, SameStep
        <5> QED BY <4>4, <5>1, <5>2, <5>3
      <4>6. Level(after[j])' /\ outgoingOf(s.at)' = outgoingOf(s.at) /\ (Visited(s.path) => Visited(s.path)')
        BY <2>1, <2>2, <2>5, <4>4 DEF Level, outgoingOf, Visited
      <4>7. /\ pc = "fire" /\ Undisturbed /\ executions = {} /\ terminal = "none" /\ ~fatalError
            /\ w.queue # <<>> /\ Visited(s.path)
            /\ settling.failed = (world.status[s.at] = "failed")
            /\ ~isTerminalNode(graph, s.at)
        BY <3>3, <4>2 DEF Firing
      <4>8. Undisturbed'
        BY <2>2, <4>7 DEF Undisturbed
      <4> QED
        BY <2>1, <2>2, <2>5, <4>1, <4>3, <4>4, <4>5, <4>6, <4>7, <4>8 DEF Firing, Follows
    <3> QED BY <2>7, <3>1, <3>2, <3>3 DEF Follows
  <2>8. ASSUME NEW i \in 1..m, Follows(H[i - 1], H[i]) PROVE Follows(H[i - 1], H[i])'
    <3>1. PICK w, w2 : w = H[i - 1] /\ w2 = H[i]
      OBVIOUS
    <3>2. Follows(w, w2)'
      BY <2>7, <2>8, <3>1
    <3> QED BY <3>1, <3>2
  <2> QED BY <2>1, <2>3, <2>4, <2>5, <2>6, <2>8 DEF DryInv
<1> QED
  BY <1>1, <1>2, <1>3 DEF DryNext

\* Where the run is tells what it has executed.
LEMMA DryKept ==
    ASSUME TickInv, DryInv
    PROVE  PredictionKept
<1> SUFFICES ASSUME Predictable, walk.stop # "off" PROVE
       /\ \A n \in graph.nodes : results[n] - retries[n] <= walked(n)
       /\ pc = "ended" /\ settlements < maxSettlements =>
            /\ \A n \in graph.nodes : results[n] - retries[n] = walked(n)
            /\ terminal = IF walk.stop = "terminal" THEN graph.kind[walk.at] ELSE "none"
  BY DEF PredictionKept, Predictable
<1>1. graph \in Workflows /\ settlements \in Nat /\ maxSettlements \in Nat
      /\ results \in [graph.nodes -> Nat] /\ retries \in [graph.nodes -> Nat]
  BY Counts, EngineAssumption DEF TickInv, TypeOK
<1>2. PICK m, H : History(m, H) /\ (NotBegun \/ \E i \in 1..m : Follows(H[i - 1], H[i]))
  BY DEF DryInv
<1>3. walk \in Walks /\ \A n : walked(n) = visits(walk.path, n)
  BY <1>2 DEF History, walked, visits
<1>4. \A n : visits(walk.path, n) \in Nat
  BY <1>3, VisitsCounted DEF Walks
<1>5. ASSUME NEW p, Visited(p), \A n \in graph.nodes : visits(p, n) <= visits(walk.path, n),
             \A n \in graph.nodes : visits(p, n) \in Nat
      PROVE  \A n \in graph.nodes : results[n] - retries[n] <= walked(n)
  <2> TAKE n \in graph.nodes
  <2>1. PICK r, t, a, b : r = results[n] /\ t = retries[n] /\ a = visits(p, n) /\ b = visits(walk.path, n)
    OBVIOUS
  <2>2. r \in Nat /\ t \in Nat /\ a \in Nat /\ b \in Nat /\ r = t + a /\ a <= b
    BY <1>1, <1>4, <1>5, <2>1 DEF Visited
  <2>3. r - t <= b
    BY <2>2
  <2> QED BY <1>3, <2>1, <2>3
<1>6. CASE NotBegun
  <2>1. \A n \in graph.nodes : results[n] - retries[n] = 0
    BY <1>6 DEF NotBegun
  <2> QED BY <1>3, <1>4, <1>6, <2>1 DEF NotBegun
<1>7. ASSUME NEW i \in 1..m, Follows(H[i - 1], H[i])
      PROVE  /\ \A n \in graph.nodes : results[n] - retries[n] <= walked(n)
             /\ pc = "ended" /\ settlements < maxSettlements =>
                  /\ \A n \in graph.nodes : results[n] - retries[n] = walked(n)
                  /\ terminal = IF walk.stop = "terminal" THEN graph.kind[walk.at] ELSE "none"
  <2>1. PICK w, w2 : w = H[i - 1] /\ w2 = H[i]
    OBVIOUS
  <2>2. OnTheWay(w, w2) /\ Follows(w, w2)
    BY <1>1, <1>2, <1>7, <2>1, Stage
  <2>3. i - 1 \in 0..m /\ i \in 0..m
    BY <1>2 DEF History
  <2>4. \A v \in {w, w2, walk} : \A n \in graph.nodes : /\ visits(v.path, n) <= visits(walk.path, n)
                                                       /\ visits(v.path, n) \in Nat
    <3>1. \A v \in {w, w2, walk} : v \in Walks /\ v.path \in Seq(graph.nodes)
      BY <1>3, <2>2 DEF OnTheWay, Walks
    <3>2. \A v \in {w, w2} : \A n \in graph.nodes : visits(v.path, n) <= visits(walk.path, n)
      BY <1>2, <2>1, <2>3 DEF History
    <3>3. \A n \in graph.nodes : visits(walk.path, n) <= visits(walk.path, n)
      BY <1>4
    <3> QED BY <3>1, <3>2, <3>3, VisitsCounted
  <2>5. CASE Ready(w)
    <3>1. Visited(w.path) /\ pc # "ended"
      BY <2>5 DEF Ready
    <3>2. PICK p : p = w.path
      OBVIOUS
    <3> QED BY <1>5, <2>4, <3>1, <3>2
  <2>6. CASE Firing(w, w2)
    <3>1. Visited(OnPath(shift(w)).path) /\ pc # "ended" /\ w.queue # <<>>
          /\ ~isTerminalNode(graph, OnPath(shift(w)).at)
      BY <2>6 DEF Firing
    <3>2. Takes(w, w2)
      BY <2>6 DEF Firing, Takes
    <3>3. w2.path = OnPath(shift(w)).path
      <4>1. w \in Walks
        BY <2>2 DEF OnTheWay
      <4>2. w2.path = Append(w.path, Head(w.queue))
        BY <1>1, <3>1, <3>2, <4>1, TakesTyped
      <4>3. OnPath(shift(w)).path = Append(w.path, Head(w.queue))
        BY <3>1, <4>1, ShiftTyped
      <4> QED BY <4>2, <4>3
    <3> QED BY <1>5, <2>4, <3>1, <3>3
  <2>7. CASE Over(w)
    <3>1. \/ settlements >= maxSettlements /\ Visited(w.path)
          \/ Visited(walk.path) /\ terminal = IF walk.stop = "terminal" THEN graph.kind[walk.at] ELSE "none"
      BY <2>7 DEF Over
    <3>2. CASE settlements >= maxSettlements /\ Visited(w.path)
      <4>1. ~(settlements < maxSettlements)
        BY <1>1, <3>2
      <4> QED BY <1>5, <2>4, <3>2, <4>1
    <3>3. CASE /\ Visited(walk.path)
               /\ terminal = IF walk.stop = "terminal" THEN graph.kind[walk.at] ELSE "none"
      <4>1. \A n \in graph.nodes : results[n] - retries[n] <= walked(n)
        BY <1>5, <2>4, <3>3
      <4>2. ASSUME NEW n \in graph.nodes PROVE results[n] - retries[n] = walked(n)
        <5>1. PICK r, t, b : r = results[n] /\ t = retries[n] /\ b = visits(walk.path, n)
          OBVIOUS
        <5>2. r \in Nat /\ t \in Nat /\ b \in Nat /\ r = t + b
          BY <1>1, <1>4, <3>3, <5>1 DEF Visited
        <5>3. r - t = b
          BY <5>2
        <5> QED BY <1>3, <5>1, <5>3
      <4> QED BY <3>3, <4>1, <4>2
    <3> QED BY <3>1, <3>2, <3>3
  <2> QED BY <2>2, <2>5, <2>6, <2>7 DEF Follows
<1> QED
  BY <1>2, <1>6, <1>7

\* A run does what its dry run said it would, in the world that was predicted, where every
\* join is declared and the walk never had two nodes to choose from (evaluateWorkflow).
THEOREM PredictionIsKept == DrySpec => []PredictionKept
<1>1. DrySpec => Spec
  <2>1. DryInit => Init
    BY DEF DryInit
  <2>2. [DryNext]_<<vars, dryVars>> => [Next]_vars
    <3>1. walkGraph => UNCHANGED vars
      BY DEF walkGraph
    <3>2. AsPredicted => Next
      BY DEF AsPredicted, Next, Step
    <3>3. UNCHANGED <<vars, dryVars>> => UNCHANGED vars
      OBVIOUS
    <3> QED BY <3>1, <3>2, <3>3 DEF DryNext, RunPredicted
  <2> QED BY <2>1, <2>2, PTL DEF DrySpec, Spec
<1>2. DryInit => DryInv
  BY DryBegins
<1>3. TickInv /\ DryInv /\ [DryNext]_<<vars, dryVars>> => DryInv'
  BY DryKeeps
<1>4. TickInv /\ DryInv => PredictionKept
  BY DryKept
<1> QED
  BY <1>1, <1>2, <1>3, <1>4, TickInvariant, PTL DEF DrySpec

--------------------------------------------------------------------------------
(***************************************************************************)
(* The store below the coordinators: its adapters, for any number of calls *)
(* and rows, and its schema, for every number of migrations and kills.     *)
(***************************************************************************)

\* Where the migrations stand: what a transaction has recorded it has created, and the
\* database has nothing that the next migration would create again.
SchemaInv ==
    /\ schema \in [created : SUBSET (1..Versions), recorded : SUBSET (1..Versions),
                   applied : SUBSET (1..Versions), next : 1..(Versions + 1),
                   pc : {"closed", "between", "created", "open"}]
    /\ schema.created = schema.recorded /\ schema.applied \subseteq schema.recorded
    /\ schema.pc \in {"between", "created", "open"} =>
         /\ \A n \in 1..Versions : n < schema.next => n \in schema.recorded
         /\ \A n \in schema.recorded \ schema.applied : n < schema.next
    /\ schema.pc = "created" => schema.next \notin schema.recorded /\ schema.next <= Versions
    /\ schema.pc = "open" => schema.next = Versions + 1

\* Every write is one call.
LEMMA WritesCall == ASSUME Writes PROVE Call
<1>1. ASSUME NEW kind, NEW name, NEW document, SaveDefinition(kind, name, document) PROVE Call
  BY <1>1 DEF SaveDefinition
<1>2. ASSUME NEW owner, NEW id,
             \/ Delete(owner, id) \/ tryClaim(id, owner) \/ release(id, owner)
             \/ SetLifecycle(owner, id, "enabled") \/ trySatisfy(id)
             \/ markSupplementalPromoted(id) \/ cancelForRun(owner)
      PROVE  Call
  BY <1>2 DEF Delete, tryClaim, release, SetLifecycle, trySatisfy, markSupplementalPromoted, cancelForRun
<1>3. ASSUME NEW row, SaveRow(row) PROVE Call
  BY <1>3 DEF SaveRow
<1> QED
  BY <1>1, <1>2, <1>3 DEF Writes

LEMMA SchemaNext == ASSUME Versions \in Nat, SchemaInv, [StoresNext]_storeVars PROVE SchemaInv'
<1>1. CASE UNCHANGED schema
  BY <1>1 DEF SchemaInv
<1>2. CASE Migrate
  <2>1. schema' = [schema EXCEPT !.pc = "between", !.applied = schema.recorded, !.next = 1]
    BY <1>2 DEF Migrate
  <2>2. /\ schema'.pc = "between" /\ schema'.applied = schema.recorded /\ schema'.next = 1
        /\ UNCHANGED <<schema.created, schema.recorded>>
        /\ 1 \in 1..(Versions + 1) /\ \A n \in 1..Versions : ~(n < 1)
    BY <2>1 DEF SchemaInv
  <2>3. schema' \in [created : SUBSET (1..Versions), recorded : SUBSET (1..Versions),
                     applied : SUBSET (1..Versions), next : 1..(Versions + 1),
                     pc : {"closed", "between", "created", "open"}]
    BY <2>1, <2>2 DEF SchemaInv
  <2> QED
    BY <2>2, <2>3 DEF SchemaInv
<1>3. CASE CreateTables
  <2>1. CASE schema.next \in schema.applied
    <3>1. schema' = [schema EXCEPT !.next = @ + 1] /\ schema.next <= Versions /\ schema.pc = "between"
      BY <1>3, <2>1 DEF CreateTables
    <3>2. /\ schema'.next = schema.next + 1 /\ schema'.pc = "between"
          /\ UNCHANGED <<schema.created, schema.recorded, schema.applied>>
          /\ schema.next \in 1..Versions /\ schema'.next \in 1..(Versions + 1)
      BY <3>1 DEF SchemaInv
    <3>3. \A n \in 1..Versions : n < schema'.next => n \in schema.recorded
      BY <2>1, <3>1, <3>2 DEF SchemaInv
    <3>4. \A n \in schema.recorded \ schema.applied : n < schema'.next
      BY <3>1, <3>2 DEF SchemaInv
    <3>5. schema' \in [created : SUBSET (1..Versions), recorded : SUBSET (1..Versions),
                       applied : SUBSET (1..Versions), next : 1..(Versions + 1),
                       pc : {"closed", "between", "created", "open"}]
      BY <3>1, <3>2 DEF SchemaInv
    <3> QED
      BY <3>2, <3>3, <3>4, <3>5 DEF SchemaInv
  <2>2. CASE schema.next \notin schema.applied
    <3>1. schema.next \notin schema.recorded
      BY <1>3, <2>2 DEF SchemaInv, CreateTables
    <3>2. schema' = [schema EXCEPT !.pc = "created"] /\ schema.next <= Versions /\ schema.pc = "between"
      BY <1>3, <2>2, <3>1 DEF SchemaInv, CreateTables
    <3> QED
      BY <3>1, <3>2 DEF SchemaInv
  <2> QED
    BY <2>1, <2>2
<1>4. CASE CommitMigration
  <2>1. /\ schema' = [schema EXCEPT !.pc = "between", !.next = @ + 1,
                        !.created = @ \cup {schema.next}, !.recorded = @ \cup {schema.next}]
        /\ schema.pc = "created"
    BY <1>4 DEF CommitMigration
  <2>2. /\ schema'.created = schema.created \cup {schema.next}
        /\ schema'.recorded = schema.recorded \cup {schema.next}
        /\ schema'.next = schema.next + 1 /\ schema'.applied = schema.applied /\ schema'.pc = "between"
    BY <2>1 DEF SchemaInv
  <2>3. schema'.next \in 1..(Versions + 1) /\ schema.next \in 1..Versions
    BY <2>1, <2>2 DEF SchemaInv
  <2>4. \A n \in 1..Versions : n < schema'.next => n \in schema'.recorded
    BY <2>1, <2>2, <2>3 DEF SchemaInv
  <2>5. \A n \in schema'.recorded \ schema'.applied : n < schema'.next
    BY <2>1, <2>2, <2>3 DEF SchemaInv
  <2>6. schema' \in [created : SUBSET (1..Versions), recorded : SUBSET (1..Versions),
                     applied : SUBSET (1..Versions), next : 1..(Versions + 1),
                     pc : {"closed", "between", "created", "open"}]
    BY <2>1, <2>3 DEF SchemaInv
  <2> QED
    BY <2>1, <2>2, <2>4, <2>5, <2>6 DEF SchemaInv
<1>5. CASE MigrationsDone
  <2>1. schema' = [schema EXCEPT !.pc = "open"] /\ schema.pc = "between" /\ schema.next > Versions
    BY <1>5 DEF MigrationsDone
  <2> QED
    BY <2>1 DEF SchemaInv
<1>6. CASE Stop
  <2>1. schema' = [schema EXCEPT !.pc = "closed"]
    BY <1>6 DEF Stop
  <2> QED
    BY <2>1 DEF SchemaInv
<1>7. Writes => UNCHANGED schema
  BY WritesCall DEF Call
<1> QED
  BY <1>1, <1>2, <1>3, <1>4, <1>5, <1>6, <1>7 DEF StoresNext, storeVars

\* SchemaCompletes (a conjunct of StoresAgree): whenever processes stopped while they
\* migrated, no migration meets its own tables, and the store that opens has all of them.
THEOREM SchemaIsCompleted == ASSUME Versions \in Nat PROVE StoresSpec => []SchemaCompletes
<1>1. StoresInit => SchemaInv
  BY DEF StoresInit, SchemaInv
<1>2. SchemaInv /\ [StoresNext]_storeVars => SchemaInv'
  BY SchemaNext
<1>3. ASSUME SchemaInv PROVE SchemaCompletes
  <2>1. schema.pc = "open" => \A n \in 1..Versions : n < schema.next
    BY <1>3 DEF SchemaInv
  <2> QED
    BY <1>3, <2>1 DEF SchemaInv, SchemaCompletes
<1> QED
  BY <1>1, <1>2, <1>3, PTL DEF StoresSpec

Stamp == [id : Ids, owner : Owners, at : Times \cup {1}, due : Times \cup {0},
          state : States \cup {"open", "satisfied", "cancelled", "promoted", "held", "released"}]

\* At most one row of a key.
Distinct(rows) == \A i, j \in DOMAIN rows : key(rows[i]) = key(rows[j]) => i = j

\* But for definitions: both adapters hold the same rows in the same order.
RowsAgree == table # "definitions" => answered = TRUE /\ memory = database

StoreInv ==
    /\ RowsAgree
    /\ table \notin {"definitions", "config"} => database \in Seq(Stamp)
    /\ table \in {"waits", "claims"} => Distinct(database)
    /\ table = "claims" => \A i \in DOMAIN database :
         database[i].state \in {"held", "released"} /\ database[i].at = 1 /\ database[i].due = 0

LEMMA FirstOf ==
    ASSUME NEW I \in SUBSET Nat, I # {}
    PROVE  Min(I) \in I
<1>1. \A m, n \in Nat : <<m, n>> \in OpToRel(<, Nat) <=> m < n
  BY DEF OpToRel
<1>2. PICK m \in I : \A n \in I : <<n, m>> \notin OpToRel(<, Nat)
  BY NatLessThanWellFounded, WFMin, Zenon
<1>3. \A n \in I : ~(n < m)
  BY <1>1, <1>2
<1>4. \E x \in I : \A y \in I : x <= y
  BY <1>3
<1> QED
  BY <1>4 DEF Min

LEMMA Place ==
    ASSUME NEW rows \in Seq(Stamp), NEW row
    PROVE  \/ place(rows, row) = 0 /\ \A i \in DOMAIN rows : key(rows[i]) # key(row)
           \/ place(rows, row) \in DOMAIN rows /\ key(rows[place(rows, row)]) = key(row)
<1> DEFINE I == {i \in 1..Len(rows) : key(rows[i]) = key(row)}
<1>1. place(rows, row) = IF I # {} THEN Min(I) ELSE 0
  BY DEF place, SelectInSeq
<1>2. I # {} => Min(I) \in I
  <2>1. I \in SUBSET Nat
    OBVIOUS
  <2> HIDE DEF I
  <2> QED
    BY <2>1, FirstOf
<1>3. DOMAIN rows = 1..Len(rows)
  OBVIOUS
<1> QED
  BY <1>1, <1>2, <1>3

\* What put makes of the rows: they stay a set of keys, and the row is found among them.
LEMMA Put ==
    ASSUME NEW rows \in Seq(Stamp), NEW row \in Stamp
    PROVE  /\ put(rows, row) \in Seq(Stamp)
           /\ Distinct(rows) => Distinct(put(rows, row))
           /\ \E i \in DOMAIN put(rows, row) : put(rows, row)[i] = row
           /\ \A i \in DOMAIN put(rows, row) :
                put(rows, row)[i] = row \/ (i \in DOMAIN rows /\ put(rows, row)[i] = rows[i])
<1> DEFINE p == place(rows, row)
<1>1. \/ p = 0 /\ \A i \in DOMAIN rows : key(rows[i]) # key(row)
      \/ p \in DOMAIN rows /\ key(rows[p]) = key(row)
  BY Place
<1>2. put(rows, row) = IF p = 0 THEN Append(rows, row) ELSE [rows EXCEPT ![p] = row]
  BY DEF put
<1> HIDE DEF p
<1>3. DOMAIN rows = 1..Len(rows) /\ Len(rows) \in Nat
  OBVIOUS
<1>4. CASE p = 0 /\ \A i \in DOMAIN rows : key(rows[i]) # key(row)
  <2> DEFINE more == Append(rows, row)
  <2>1. /\ put(rows, row) = more /\ more \in Seq(Stamp) /\ DOMAIN more = 1..(Len(rows) + 1)
        /\ more[Len(rows) + 1] = row /\ \A i \in 1..Len(rows) : more[i] = rows[i]
    BY <1>2, <1>4
  <2> HIDE DEF more
  <2>2. \A i \in DOMAIN more : i = Len(rows) + 1 \/ i \in DOMAIN rows
    BY <1>3, <2>1
  <2>3. Distinct(rows) => Distinct(more)
    BY <1>3, <1>4, <2>1, <2>2 DEF Distinct
  <2>4. Len(rows) + 1 \in DOMAIN more
    BY <1>3, <2>1
  <2> QED
    BY <1>3, <2>1, <2>2, <2>3, <2>4
<1>5. CASE p \in DOMAIN rows /\ key(rows[p]) = key(row)
  <2> DEFINE new == [rows EXCEPT ![p] = row]
  <2>0. p # 0 /\ \A i \in 1..Len(rows) : rows[i] \in Stamp
    BY <1>3, <1>5
  <2>1. /\ DOMAIN new = DOMAIN rows /\ \A i \in DOMAIN rows : new[i] = IF i = p THEN row ELSE rows[i]
    OBVIOUS
  <2> HIDE DEF new
  <2>2. new \in Seq(Stamp)
    <3>1. \A i \in 1..Len(rows) : new[i] \in Stamp
      BY <1>3, <2>0, <2>1
    <3>2. new = [i \in 1..Len(rows) |-> new[i]]
      BY <1>3, <2>1 DEF new
    <3> QED
      BY <1>3, <3>1, <3>2
  <2>3. put(rows, row) = new
    BY <1>2, <2>0 DEF new
  <2>4. Distinct(rows) => Distinct(new)
    BY <1>5, <2>1 DEF Distinct
  <2> QED
    BY <1>5, <2>1, <2>2, <2>3, <2>4
<1> QED
  BY <1>1, <1>4, <1>5

LEMMA Changed ==
    ASSUME NEW rows \in Seq(Stamp), NEW which,
           NEW value \in {"satisfied", "cancelled", "promoted", "released"},
           NEW new, new = changed(rows, which, value)
    PROVE  /\ new \in Seq(Stamp) /\ DOMAIN new = DOMAIN rows
           /\ \A i \in DOMAIN rows : new[i] = rows[i] \/ new[i] = [rows[i] EXCEPT !.state = value]
           /\ \A i \in DOMAIN rows : rows[i] \notin which => new[i] = rows[i]
           /\ \A i \in DOMAIN rows : rows[i] \in which => new[i] = [rows[i] EXCEPT !.state = value]
           /\ Distinct(rows) => Distinct(new)
<1> DEFINE made == [i \in DOMAIN rows |-> IF rows[i] \in which
                                         THEN [rows[i] EXCEPT !.state = value] ELSE rows[i]]
<1>1. DOMAIN rows = 1..Len(rows) /\ Len(rows) \in Nat /\ \A i \in DOMAIN rows : rows[i] \in Stamp
  OBVIOUS
<1>2. \A r \in Stamp : [r EXCEPT !.state = value] \in Stamp
                       /\ key([r EXCEPT !.state = value]) = key(r)
  BY DEF Stamp, key
<1>3. DOMAIN made = 1..Len(rows) /\ \A i \in 1..Len(rows) : made[i] \in Stamp /\ key(made[i]) = key(rows[i])
  BY <1>1, <1>2
<1>4. made \in Seq(Stamp)
  BY <1>1, <1>3
<1>5. new = made
  BY DEF changed
<1>6. Distinct(rows) => Distinct(made)
  BY <1>1, <1>3 DEF Distinct
<1> QED
  BY <1>1, <1>4, <1>5, <1>6

LEMMA StoreKept ==
    ASSUME UNCHANGED table, table # "definitions", answered' = TRUE, NEW rows,
           memory' = rows, database' = rows,
           table # "config" => rows \in Seq(Stamp),
           table \in {"waits", "claims"} => Distinct(rows),
           table = "claims" => \A i \in DOMAIN rows :
             rows[i].state \in {"held", "released"} /\ rows[i].at = 1 /\ rows[i].due = 0
    PROVE  StoreInv'
<1>1. Distinct(rows) => Distinct(database)'
  BY DEF Distinct, key
<1> QED
  BY <1>1 DEF StoreInv, RowsAgree

LEMMA SaveRowKeeps ==
    ASSUME StoreInv, NEW row \in IF table = "waits" THEN WaitRow ELSE Row, SaveRow(row)
    PROVE  StoreInv'
<1>1. /\ table \notin {"claims", "definitions"} /\ UNCHANGED table
      /\ memory' = inMemory(row) /\ database' = inDatabase(row)
      /\ memory = database
      /\ answered' = ("saved" = IF table \in Unique /\ place(database, row) # 0 THEN "throws" ELSE "saved")
  BY DEF SaveRow, Call, result, StoreInv, RowsAgree
<1>2. row \in Stamp
  BY DEF Row, WaitRow, Stamp
<1>3. table \in Unique => place(database, row) = 0
  BY DEF SaveRow, asCalled
<1>4. answered' = TRUE
  BY <1>1, <1>3
<1>5. table = "runs" => row = [row EXCEPT !.at = database[place(database, row)].at] \/ place(database, row) = 0
  <2> SUFFICES ASSUME table = "runs", place(database, row) # 0
               PROVE  row = [row EXCEPT !.at = database[place(database, row)].at]
    OBVIOUS
  <2>1. /\ place(database, row) \in DOMAIN database
        /\ key(database[place(database, row)]) = key(row)
    BY Place DEF StoreInv
  <2>2. database[place(database, row)].id = row.id
    BY <2>1 DEF key
  <2>3. database[place(database, row)].at = row.at
    BY <2>1, <2>2 DEF SaveRow, asCalled
  <2> QED
    BY <1>2, <2>3 DEF Stamp
<1>6. CASE table \in Maps \cup Unique
  <2>1. table \in Maps \/ place(database, row) = 0
    BY <1>3, <1>6
  <2>2. memory' = put(database, row)
    BY <1>1, <2>1 DEF inMemory, put
  <2>3. database' = put(database, row)
    BY <1>1, <1>3, <1>5, <1>6 DEF inDatabase, upserted, put
  <2>4. /\ table # "config" => put(database, row) \in Seq(Stamp)
        /\ table = "waits" => Distinct(put(database, row))
    BY <1>1, <1>2, Put DEF StoreInv
  <2> QED
    BY <1>1, <1>4, <2>2, <2>3, <2>4, StoreKept
<1>7. CASE table \notin Maps \cup Unique
  <2>1. memory' = Append(database, row) /\ database' = Append(database, row)
    BY <1>1, <1>7 DEF inMemory, inDatabase
  <2>2. table # "config" /\ table # "waits"
    BY <1>7 DEF Maps
  <2>3. Append(database, row) \in Seq(Stamp)
    BY <1>1, <1>2, <2>2 DEF StoreInv
  <2> QED
    BY <1>1, <1>4, <2>1, <2>2, <2>3, StoreKept
<1> QED
  BY <1>6, <1>7

LEMMA DeleteKeeps ==
    ASSUME StoreInv, NEW owner, NEW id, Delete(owner, id)
    PROVE  StoreInv'
<1>1. table = "config" /\ UNCHANGED table /\ answered' = TRUE /\ memory' = database'
  BY DEF Delete, Call, result, StoreInv, RowsAgree
<1> QED
  BY <1>1, StoreKept

LEMMA InEntries ==
    ASSUME StoreInv, table \notin {"definitions", "config"}
    PROVE  /\ memory = database /\ database \in Seq(Stamp)
           /\ \A i \in DOMAIN database : database[i] \in entries
  BY DEF StoreInv, RowsAgree, entries, ToSet

LEMMA ChangesKeep ==
    ASSUME StoreInv, NEW which, NEW value \in {"satisfied", "cancelled", "promoted", "released"},
           table \notin {"definitions", "config"}, UNCHANGED table, answered' = TRUE,
           table = "claims" => value = "released",
           memory' = changed(database, which, value), database' = changed(database, which, value)
    PROVE  StoreInv'
<1>0. PICK new : new = changed(database, which, value)
  OBVIOUS
<1>1. database \in Seq(Stamp) /\ \A i \in DOMAIN database : database[i] \in Stamp
  BY DEF StoreInv
<1>2. /\ new \in Seq(Stamp) /\ DOMAIN new = DOMAIN database
      /\ \A i \in DOMAIN database :
           new[i] = database[i] \/ new[i] = [database[i] EXCEPT !.state = value]
      /\ Distinct(database) => Distinct(new)
  BY <1>0, <1>1, Changed
<1>3. ASSUME table = "claims", NEW i \in DOMAIN new
      PROVE  new[i].state \in {"held", "released"} /\ new[i].at = 1 /\ new[i].due = 0
  <2>1. /\ database[i] \in Stamp /\ database[i].state \in {"held", "released"}
        /\ database[i].at = 1 /\ database[i].due = 0 /\ value = "released"
    BY <1>1, <1>2, <1>3 DEF StoreInv
  <2>2. new[i] = database[i] \/ new[i] = [database[i] EXCEPT !.state = "released"]
    BY <1>2, <1>3, <2>1
  <2> QED
    BY <2>1, <2>2 DEF Stamp
<1>4. memory' = new /\ database' = new
  BY <1>0
<1> QED
  BY <1>2, <1>3, <1>4, StoreKept DEF StoreInv

LEMMA TrySatisfyKeeps ==
    ASSUME StoreInv, NEW id, trySatisfy(id)
    PROVE  StoreInv'
<1> DEFINE open == {r \in entries : r.id = id /\ r.state = "open"}
           found == SelectInSeq(memory, LAMBDA r : r.id = id)
           wins == found # 0 /\ memory[found].state = "open"
<1>0. PICK new : new = changed(database, open, "satisfied")
  OBVIOUS
<1>1. /\ table = "waits" /\ UNCHANGED table /\ database' = new
      /\ memory' = IF wins THEN [memory EXCEPT ![found].state = "satisfied"] ELSE memory
      /\ answered' = (wins = (database' # database))
  BY <1>0 DEF trySatisfy, Call, result
<1>2. /\ memory = database /\ database \in Seq(Stamp) /\ Distinct(database)
      /\ \A i \in DOMAIN database : database[i] \in entries /\ database[i] \in Stamp
      /\ DOMAIN database = 1..Len(database)
  BY <1>1, InEntries DEF StoreInv
<1>3. \/ found = 0 /\ \A i \in DOMAIN database : database[i].id # id
      \/ found \in DOMAIN database /\ database[found].id = id
  <2> DEFINE I == {i \in 1..Len(memory) : memory[i].id = id}
  <2>1. found = IF I # {} THEN Min(I) ELSE 0
    BY DEF SelectInSeq
  <2>2. I \in SUBSET Nat
    BY <1>2
  <2>3. I # {} => Min(I) \in I
    <3> HIDE DEF I
    <3> QED
      BY <2>2, FirstOf
  <2> HIDE DEF found
  <2> QED
    BY <1>2, <2>1, <2>3
<1>4. \A i, j \in DOMAIN database : database[i].id = database[j].id => i = j
  BY <1>1, <1>2 DEF Distinct, key
<1>5. /\ new \in Seq(Stamp) /\ DOMAIN new = DOMAIN database
      /\ \A i \in DOMAIN database : database[i] \notin open => new[i] = database[i]
      /\ \A i \in DOMAIN database : database[i] \in open =>
           new[i] = [database[i] EXCEPT !.state = "satisfied"]
      /\ Distinct(new)
  BY <1>0, <1>2, Changed
<1>6. \A i \in DOMAIN database : database[i] \in open <=> database[i].id = id /\ database[i].state = "open"
  BY <1>2
<1> HIDE DEF open, found
<1>7. CASE wins
  <2>1. found \in DOMAIN database /\ database[found].id = id /\ database[found].state = "open"
    BY <1>2, <1>3, <1>7
  <2>2. \A i \in DOMAIN database : database[i] \in open <=> i = found
    BY <1>4, <1>6, <2>1
  <2>3. memory' = [i \in DOMAIN database |-> IF i = found THEN [database[i] EXCEPT !.state = "satisfied"]
                                             ELSE database[i]]
    BY <1>1, <1>2, <1>7, <2>1
  <2>4. new = [i \in DOMAIN database |-> IF i = found THEN [database[i] EXCEPT !.state = "satisfied"]
                                         ELSE database[i]]
    BY <1>2, <1>5, <2>2
  <2>5. new[found].state = "satisfied"
    BY <1>2, <1>5, <2>1, <2>2 DEF Stamp
  <2>6. database' # database
    BY <1>1, <2>1, <2>5
  <2> QED
    BY <1>1, <1>5, <1>7, <2>3, <2>4, <2>6, StoreKept
<1>8. CASE ~wins
  <2>1. \A i \in DOMAIN database : database[i] \notin open
    BY <1>2, <1>3, <1>4, <1>6, <1>8
  <2>2. new = database
    BY <1>2, <1>5, <2>1
  <2> QED
    BY <1>1, <1>2, <1>8, <2>2, StoreKept
<1> QED
  BY <1>7, <1>8

LEMMA CancelKeeps ==
    ASSUME StoreInv, NEW run, NEW id, cancelForRun(run) \/ markSupplementalPromoted(id)
    PROVE  StoreInv'
<1>1. /\ table \in {"waits", "supplementals"} /\ UNCHANGED table /\ answered' = TRUE
      /\ \E which : \E value \in {"cancelled", "promoted"} :
           memory' = changed(memory, which, value) /\ database' = changed(database, which, value)
  BY DEF cancelForRun, markSupplementalPromoted, Call, result
<1>2. memory = database
  BY <1>1, InEntries
<1> QED
  BY <1>1, <1>2, ChangesKeep

LEMMA ReleaseKeeps ==
    ASSUME StoreInv, NEW item, NEW run, release(item, run)
    PROVE  StoreInv'
<1>1. /\ table = "claims" /\ UNCHANGED table /\ answered' = TRUE
      /\ \E which : /\ memory' = changed(memory, which, "released")
                    /\ database' = changed(database, which, "released")
  BY DEF release, Call, result
<1>2. memory = database
  BY <1>1, InEntries
<1> QED
  BY <1>1, <1>2, ChangesKeep

\* The look and the write of one adapter come to what the conditional upsert of the
\* other does, also for the run that holds the claim already.
LEMMA TryClaimKeeps ==
    ASSUME StoreInv, NEW item \in Ids, NEW run \in Owners, tryClaim(item, run)
    PROVE  StoreInv'
<1> DEFINE row == claimed(item, run)
           p == place(database, row)
           held == p # 0 /\ database[p].state = "held"
           q == place(database', row)
           new == put(database, row)
<1>1. table = "claims" /\ UNCHANGED table
  BY DEF tryClaim, Call
<1>2. /\ memory = database /\ database \in Seq(Stamp) /\ Distinct(database)
      /\ \A i \in DOMAIN database :
           /\ database[i] \in Stamp /\ database[i].state \in {"held", "released"}
           /\ database[i].at = 1 /\ database[i].due = 0
  BY <1>1, InEntries DEF StoreInv
<1>3. /\ memory' = IF held THEN database ELSE new
      /\ database' = IF free(database, item, run) THEN new ELSE database
      /\ answered' = ((held => database[p].owner = run) = (database'[q] = row))
  BY <1>2 DEF tryClaim, result
<1>4. row \in Stamp /\ row = [id |-> item, owner |-> run, state |-> "held", at |-> 1, due |-> 0]
  BY DEF claimed, Stamp
<1>5. \A r, s : key(r) = key(s) <=> r.id = s.id
  BY <1>1 DEF key
<1>6. \/ p = 0 /\ \A i \in DOMAIN database : database[i].id # item
      \/ p \in DOMAIN database /\ database[p].id = item
  BY <1>2, <1>4, <1>5, Place
<1>7. free(database, item, run) <=>
        \A i \in DOMAIN database : database[i].id = item =>
            database[i].state = "released" \/ database[i].owner = run
  BY DEF free
<1>8. /\ new \in Seq(Stamp) /\ Distinct(new)
      /\ \E i \in DOMAIN new : new[i] = row
      /\ \A i \in DOMAIN new : new[i] = row \/ (i \in DOMAIN database /\ new[i] = database[i])
  BY <1>2, <1>4, Put
<1>9. new = IF p = 0 THEN Append(database, row) ELSE [database EXCEPT ![p] = row]
  BY DEF put
<1>10. \A r, s \in DOMAIN database : database[r].id = database[s].id => r = s
  BY <1>2, <1>5 DEF Distinct
<1>11. \/ q = 0 /\ \A i \in DOMAIN database' : database'[i].id # item
       \/ q \in DOMAIN database' /\ database'[q].id = item
  <2>1. database' \in Seq(Stamp)
    BY <1>2, <1>3, <1>8
  <2> QED
    BY <2>1, <1>4, <1>5, Place
<1> HIDE DEF row, p, q, new
<1>12. database' = new => database'[q] = row
  <2> SUFFICES ASSUME database' = new PROVE new[q] = row
    OBVIOUS
  <2>1. PICK i \in DOMAIN new : new[i] = row
    BY <1>8
  <2>2. q \in DOMAIN new /\ new[q].id = item /\ new[i].id = item
    BY <1>4, <1>11, <2>1
  <2>3. q = i
    BY <1>5, <1>8, <2>1, <2>2 DEF Distinct
  <2> QED
    BY <2>1, <2>3
<1>13. CASE held /\ database[p].owner = run
  <2>1. p \in DOMAIN database /\ database[p].id = item
    BY <1>6, <1>13
  <2>2. database[p] = row
    BY <1>2, <1>4, <1>13, <2>1 DEF Stamp
  <2>3. new = database
    BY <1>2, <1>9, <1>13, <2>2
  <2>4. database' = new
    BY <1>3, <2>3
  <2> QED
    BY <1>1, <1>2, <1>3, <1>12, <1>13, <2>3, <2>4, StoreKept
<1>14. CASE held /\ database[p].owner # run
  <2>1. p \in DOMAIN database /\ database[p].id = item /\ database[p].state = "held"
    BY <1>6, <1>14
  <2>2. ~free(database, item, run)
    BY <1>7, <1>14, <2>1
  <2>3. database' = database /\ memory' = database
    BY <1>3, <1>14, <2>2
  <2>4. q = p
    BY <1>10, <1>11, <2>1, <2>3
  <2>5. database'[q] # row
    BY <1>4, <1>14, <2>3, <2>4
  <2> QED
    BY <1>1, <1>2, <1>3, <1>14, <2>3, <2>5, StoreKept
<1>15. CASE ~held
  <2>1. free(database, item, run)
    BY <1>2, <1>6, <1>7, <1>10, <1>15
  <2>2. database' = new /\ memory' = new
    BY <1>3, <1>15, <2>1
  <2>3. \A i \in DOMAIN new : new[i].state \in {"held", "released"} /\ new[i].at = 1 /\ new[i].due = 0
    BY <1>2, <1>4, <1>8
  <2> QED
    BY <1>1, <1>3, <1>8, <1>12, <1>15, <2>2, <2>3, StoreKept
<1> QED
  BY <1>13, <1>14, <1>15

LEMMA StoreNext == ASSUME StoreInv, [StoresNext]_storeVars PROVE StoreInv'
<1>1. ASSUME UNCHANGED <<table, memory, database, answered>> PROVE StoreInv'
  BY <1>1 DEF StoreInv, RowsAgree, Distinct, key
<1>2. CASE UNCHANGED storeVars \/ Migrate \/ CreateTables \/ CommitMigration \/ MigrationsDone \/ Stop
  BY <1>1, <1>2 DEF storeVars, Migrate, CreateTables, CommitMigration, MigrationsDone, Stop
<1>3. ASSUME NEW kind, NEW name, NEW value, SetLifecycle(kind, name, value) \/ SaveDefinition(kind, name, value)
      PROVE  StoreInv'
  <2>1. table' = "definitions"
    BY <1>3 DEF SetLifecycle, SaveDefinition, Call
  <2> QED
    BY <2>1 DEF StoreInv, RowsAgree
<1>4. CASE Writes
  BY <1>3, <1>4, SaveRowKeeps, DeleteKeeps, TryClaimKeeps, ReleaseKeeps, TrySatisfyKeeps, CancelKeeps
     DEF Writes
<1> QED
  BY <1>2, <1>4 DEF StoresNext


--------------------------------------------------------------------------------
(* Definitions *)

Edition == [id : Ids, owner : Owners, state : States, at : Nat, due : {0}]
OfName(r, kind, name) == r.owner = kind /\ r.id = name

\* The versions of a name are numbered in the order they came in, in both adapters, and a
\* lifecycle is the same or the default.
Numbered(rows) == \A i, j \in DOMAIN rows :
    i < j /\ OfName(rows[j], rows[i].owner, rows[i].id) => rows[i].at < rows[j].at
Lifecycles == [Owners \X Ids -> {"none", "draft", "enabled"}]
DefinitionsInv ==
    table = "definitions" =>
      /\ answered = TRUE /\ memory = database
      /\ database \in Seq(Edition) /\ Numbered(database)
      /\ lifecycles \in [memory : Lifecycles, database : Lifecycles]
      /\ \A name \in Owners \X Ids : lifecycles.database[name] # lifecycles.memory[name] =>
           lifecycles.database[name] = "draft" /\ lifecycles.memory[name] = "none"

LEMMA LastPlace ==
    ASSUME NEW n \in Nat, NEW I \in SUBSET (1..n), I # {}
    PROVE  Max(I) \in I /\ \A i \in I : i <= Max(I)
<1> DEFINE J == {k \in Nat : n - k \in I}
<1>1. J \in SUBSET Nat /\ J # {}
  <2>1. PICK i \in I : TRUE
    OBVIOUS
  <2>2. n - i \in Nat /\ n - (n - i) = i
    OBVIOUS
  <2> QED
    BY <2>1, <2>2
<1>3. \A m, k \in Nat : <<m, k>> \in OpToRel(<, Nat) <=> m < k
  BY DEF OpToRel
<1>4. PICK m \in J : \A k \in J : <<k, m>> \notin OpToRel(<, Nat)
  <2> HIDE DEF J
  <2> QED BY <1>1, NatLessThanWellFounded, WFMin, Zenon
<1>5. n - m \in I /\ m \in Nat
  BY <1>4
<1>6. ASSUME NEW i \in I PROVE i <= n - m
  <2>1. n - i \in J
    OBVIOUS
  <2>2. ~(n - i < m)
    BY <1>3, <1>4, <1>5, <2>1
  <2> QED
    BY <1>5, <2>2
<1>7. \E x \in I : \A y \in I : x >= y
  BY <1>5, <1>6
<1>8. Max(I) \in I /\ \A y \in I : Max(I) >= y
  BY <1>7 DEF Max
<1> QED
  BY <1>8

LEMMA LastOfName ==
    ASSUME NEW rows \in Seq(Edition), NEW kind, NEW name,
           NEW last, last = lastOf(rows, kind, name)
    PROVE  \/ last = 0 /\ \A i \in DOMAIN rows : ~OfName(rows[i], kind, name)
           \/ /\ last \in DOMAIN rows /\ OfName(rows[last], kind, name)
              /\ \A i \in DOMAIN rows : OfName(rows[i], kind, name) => i <= last
<1> DEFINE I == {i \in 1..Len(rows) : OfName(rows[i], kind, name)}
<1>1. last = IF I # {} THEN Max(I) ELSE 0
  BY DEF lastOf, SelectLastInSeq, OfName
<1>2. I \in SUBSET (1..Len(rows)) /\ Len(rows) \in Nat /\ DOMAIN rows = 1..Len(rows)
  OBVIOUS
<1>3. I # {} => Max(I) \in I /\ \A i \in I : i <= Max(I)
  <2> HIDE DEF I
  <2> QED BY <1>2, LastPlace
<1> QED
  BY <1>1, <1>2, <1>3

VersionsOf(rows, kind, name) == {r \in ToSet(rows) : r.owner = kind /\ r.id = name}
LatestOf(mine) == {r \in mine : \A other \in mine : other.at <= r.at}

\* Both adapters find the same version to be the latest, and number the next alike.
LEMMA NextVersion ==
    ASSUME NEW rows \in Seq(Edition), Numbered(rows), NEW kind, NEW name,
           NEW last, last = lastOf(rows, kind, name),
           NEW mine, mine = VersionsOf(rows, kind, name),
           NEW latest, latest = LatestOf(mine)
    PROVE  /\ last = 0 => mine = {} /\ latest = {}
           /\ last # 0 => mine # {} /\ latest = {rows[last]} /\ rows[last].at \in Nat
<1>1. \/ last = 0 /\ \A i \in DOMAIN rows : ~OfName(rows[i], kind, name)
      \/ /\ last \in DOMAIN rows /\ OfName(rows[last], kind, name)
         /\ \A i \in DOMAIN rows : OfName(rows[i], kind, name) => i <= last
  BY LastOfName
<1>2. DOMAIN rows = 1..Len(rows) /\ Len(rows) \in Nat /\ \A i \in DOMAIN rows : rows[i].at \in Nat
  <2>1. DOMAIN rows = 1..Len(rows) /\ Len(rows) \in Nat /\ \A i \in DOMAIN rows : rows[i] \in Edition
    OBVIOUS
  <2> QED
    BY <2>1 DEF Edition
<1>3. mine = {rows[i] : i \in {j \in DOMAIN rows : OfName(rows[j], kind, name)}}
  BY DEF VersionsOf, ToSet, OfName
<1>0. latest = {r \in mine : \A other \in mine : other.at <= r.at}
  BY DEF LatestOf
<1>4. CASE last = 0 /\ \A i \in DOMAIN rows : ~OfName(rows[i], kind, name)
  BY <1>0, <1>2, <1>3, <1>4
<1>5. CASE /\ last \in DOMAIN rows /\ OfName(rows[last], kind, name)
           /\ \A i \in DOMAIN rows : OfName(rows[i], kind, name) => i <= last
  <2>1. rows[last] \in mine /\ rows[last].at \in Nat /\ last # 0
    BY <1>2, <1>3, <1>5
  <2>2. ASSUME NEW i \in DOMAIN rows, OfName(rows[i], kind, name), i # last
        PROVE  rows[i].at < rows[last].at
    <3>1. i < last
      BY <1>2, <1>5, <2>2
    <3>2. OfName(rows[last], rows[i].owner, rows[i].id)
      BY <1>5, <2>2 DEF OfName
    <3> QED
      BY <1>5, <3>1, <3>2 DEF Numbered
  <2>3. \A r \in mine : r = rows[last] \/ (r.at \in Nat /\ r.at < rows[last].at)
    BY <1>2, <1>3, <2>2
  <2>4. \A r \in mine : r.at <= rows[last].at
    BY <2>1, <2>3
  <2>5. \A r \in mine : r # rows[last] => ~(rows[last].at <= r.at)
    BY <2>1, <2>3
  <2> QED
    BY <1>0, <2>1, <2>4, <2>5
<1> QED
  BY <1>1, <1>4, <1>5

LEMMA SaveDefinitionKeeps ==
    ASSUME DefinitionsInv, NEW kind \in Owners, NEW name \in Ids, NEW document \in States,
           SaveDefinition(kind, name, document)
    PROVE  DefinitionsInv'
<1> DEFINE last == lastOf(database, kind, name)
           mine == {r \in ToSet(database) : r.owner = kind /\ r.id = name}
           latest == {r \in mine : \A other \in mine : other.at <= r.at}
           number == IF last = 0 THEN 1 ELSE database[last].at + 1
           new == version(kind, name, document, number)
           more == Append(database, new)
<1>1. /\ table = "definitions" /\ memory = database /\ UNCHANGED table
      /\ database \in Seq(Edition) /\ Numbered(database)
  BY DEF DefinitionsInv, SaveDefinition, Call
<1>2. /\ last = 0 => mine = {} /\ latest = {}
      /\ last # 0 => mine # {} /\ latest = {database[last]} /\ database[last].at \in Nat
  <2> HIDE DEF latest
  <2>1. latest = LatestOf(mine)
    BY DEF latest, LatestOf
  <2> HIDE DEF mine
  <2>2. mine = VersionsOf(database, kind, name)
    BY DEF mine, VersionsOf
  <2> HIDE DEF last
  <2>3. last = lastOf(database, kind, name)
    BY DEF last
  <2> HIDE DEF number, new, more
  <2>4. database \in Seq(Edition) /\ Numbered(database)
    BY <1>1
  <2> QED
    BY <2>1, <2>2, <2>3, <2>4, NextVersion
<1>3. number = 1 + (IF mine = {} THEN 0 ELSE (CHOOSE r \in latest : TRUE).at) /\ number \in Nat
  <2> HIDE DEF last, mine, latest
  <2>1. CASE last = 0
    BY <1>2, <2>1
  <2>2. CASE last # 0
    <3>1. (CHOOSE r \in latest : TRUE) = database[last]
      BY <1>2, <2>2
    <3> QED
      BY <1>2, <2>2, <3>1
  <2> QED
    BY <2>1, <2>2
<1>4. (last # 0 /\ database[last].state = document) <=> \E r \in latest : r.state = document
  <2> HIDE DEF last, mine, latest
  <2> QED BY <1>2
<1>5. /\ memory' = IF last # 0 /\ database[last].state = document THEN memory ELSE more
      /\ database' = IF \E r \in latest : r.state = document THEN database ELSE more
  <2>1. memory' = IF last # 0 /\ memory[last].state = document THEN memory ELSE more
    BY <1>1 DEF SaveDefinition
  <2>2. database' = IF \E r \in latest : r.state = document THEN database
                    ELSE Append(database, version(kind, name, document,
                           1 + (IF mine = {} THEN 0 ELSE (CHOOSE r \in latest : TRUE).at)))
    BY DEF SaveDefinition
  <2> QED
    BY <1>1, <1>3, <2>1, <2>2
<1>6. memory' = database' /\ (database' = database \/ database' = more)
  BY <1>1, <1>4, <1>5
<1>7. answered' = TRUE
  BY <1>6 DEF SaveDefinition, result
<1>8. new \in Edition /\ OfName(new, kind, name) /\ new.at = number
  BY <1>3 DEF version, Edition, OfName
<1> HIDE DEF new
<1>9. /\ more \in Seq(Edition) /\ DOMAIN database = 1..Len(database) /\ Len(database) \in Nat
      /\ DOMAIN more = 1..(Len(database) + 1) /\ more[Len(database) + 1] = new
      /\ \A i \in DOMAIN database : more[i] = database[i]
  BY <1>1, <1>8
<1>10. \A i \in DOMAIN database : OfName(database[i], kind, name) => database[i].at < number
  <2> SUFFICES ASSUME NEW i \in DOMAIN database, OfName(database[i], kind, name)
               PROVE  database[i].at < number
    OBVIOUS
  <2>1. database[i] \in mine /\ database[i].at \in Nat
    <3>1. database[i] \in Edition
      BY <1>1
    <3> QED
      BY <3>1 DEF ToSet, OfName, Edition
  <2>2. last # 0 /\ database[last] \in latest
    <3> HIDE DEF last, mine, latest
    <3> QED BY <1>2, <2>1
  <2>3. database[i].at <= database[last].at
    BY <2>1, <2>2
  <2> QED
    BY <1>2, <2>1, <2>2, <2>3
<1>11. Numbered(more)
  <2> SUFFICES ASSUME NEW i \in DOMAIN more, NEW j \in DOMAIN more, i < j,
                      OfName(more[j], more[i].owner, more[i].id)
               PROVE  more[i].at < more[j].at
    BY DEF Numbered
  <2> HIDE DEF more
  <2>1. i \in DOMAIN database /\ (j \in DOMAIN database \/ j = Len(database) + 1)
    BY <1>9
  <2>2. CASE j \in DOMAIN database
    BY <1>1, <1>9, <2>1, <2>2 DEF Numbered
  <2>3. CASE j = Len(database) + 1
    <3>1. OfName(database[i], kind, name)
      BY <1>8, <1>9, <2>1, <2>3 DEF OfName
    <3> QED
      BY <1>8, <1>9, <1>10, <2>1, <2>3, <3>1
  <2> QED
    BY <2>1, <2>2, <2>3
<1>12. database' \in Seq(Edition) /\ Numbered(database')
  <2> HIDE DEF more
  <2> QED BY <1>1, <1>6, <1>9, <1>11
<1>13. \/ lifecycles' = lifecycles
       \/ /\ lifecycles.database[<<kind, name>>] = "none"
          /\ lifecycles' = [lifecycles EXCEPT !.database[<<kind, name>>] = "draft"]
  BY DEF SaveDefinition
<1>14. /\ lifecycles' \in [memory : Lifecycles, database : Lifecycles]
       /\ \A n \in Owners \X Ids : lifecycles'.database[n] # lifecycles'.memory[n] =>
            lifecycles'.database[n] = "draft" /\ lifecycles'.memory[n] = "none"
  <2>1. /\ lifecycles \in [memory : Lifecycles, database : Lifecycles]
        /\ \A n \in Owners \X Ids : lifecycles.database[n] # lifecycles.memory[n] =>
             lifecycles.database[n] = "draft" /\ lifecycles.memory[n] = "none"
    BY <1>1 DEF DefinitionsInv
  <2>2. PICK mem, dat : /\ mem = lifecycles.memory /\ dat = lifecycles.database
                        /\ mem \in Lifecycles /\ dat \in Lifecycles
    BY <2>1
  <2>3. <<kind, name>> \in Owners \X Ids
    OBVIOUS
  <2>4. PICK key1 : key1 = <<kind, name>>
    OBVIOUS
  <2>5. \/ lifecycles' = lifecycles
        \/ /\ dat[key1] = "none" /\ lifecycles'.memory = mem
           /\ lifecycles'.database = [dat EXCEPT ![key1] = "draft"]
           /\ lifecycles' = [memory |-> lifecycles'.memory, database |-> lifecycles'.database]
    BY <1>13, <2>1, <2>2, <2>4
  <2>6. CASE lifecycles' = lifecycles
    BY <2>1, <2>6
  <2>7. CASE /\ dat[key1] = "none" /\ lifecycles'.memory = mem
             /\ lifecycles'.database = [dat EXCEPT ![key1] = "draft"]
             /\ lifecycles' = [memory |-> lifecycles'.memory, database |-> lifecycles'.database]
    <3>1. /\ lifecycles'.database \in Lifecycles
          /\ \A n \in Owners \X Ids :
               lifecycles'.database[n] = IF n = key1 THEN "draft" ELSE dat[n]
      BY <2>2, <2>7 DEF Lifecycles
    <3>2. mem[key1] = "none"
      BY <2>1, <2>2, <2>3, <2>4, <2>7
    <3> QED
      BY <2>1, <2>2, <2>7, <3>1, <3>2
  <2> QED
    BY <2>5, <2>6, <2>7
<1>15. Numbered(database)'
  BY <1>12 DEF Numbered, OfName
<1> QED
  BY <1>6, <1>7, <1>12, <1>14, <1>15 DEF DefinitionsInv, Lifecycles

LEMMA DefinitionsNext ==
    ASSUME DefinitionsInv, [StoresNext]_storeVars
    PROVE  DefinitionsInv'
<1>1. CASE table # "definitions"
  <2>1. UNCHANGED table
    BY WritesCall DEF StoresNext, storeVars, Migrate, CreateTables, CommitMigration, MigrationsDone,
                      Stop, Call
  <2> QED
    BY <1>1, <2>1 DEF DefinitionsInv
<1>2. ASSUME UNCHANGED <<table, memory, database, lifecycles, answered>> PROVE DefinitionsInv'
  BY <1>2 DEF DefinitionsInv, Numbered, OfName, Lifecycles
<1>3. CASE UNCHANGED storeVars \/ Migrate \/ CreateTables \/ CommitMigration \/ MigrationsDone \/ Stop
  BY <1>2, <1>3 DEF storeVars, Migrate, CreateTables, CommitMigration, MigrationsDone, Stop
<1>4. ASSUME table = "definitions", NEW kind \in Owners, NEW name \in Ids,
             SetLifecycle(kind, name, "enabled")
      PROVE  DefinitionsInv'
  <2>1. /\ UNCHANGED <<table, memory, database>> /\ answered' = TRUE
        /\ lifecycles' = [memory |-> [lifecycles.memory EXCEPT ![<<kind, name>>] = "enabled"],
                          database |-> [lifecycles.database EXCEPT ![<<kind, name>>] = "enabled"]]
    BY <1>4 DEF SetLifecycle, Call, result
  <2>2. /\ lifecycles.memory \in Lifecycles /\ lifecycles.database \in Lifecycles
        /\ memory = database /\ database \in Seq(Edition) /\ Numbered(database)
        /\ \A n \in Owners \X Ids : lifecycles.database[n] # lifecycles.memory[n] =>
             lifecycles.database[n] = "draft" /\ lifecycles.memory[n] = "none"
    BY <1>4 DEF DefinitionsInv
  <2>3. PICK key1 : key1 = <<kind, name>>
    OBVIOUS
  <2>4. /\ lifecycles'.memory = [lifecycles.memory EXCEPT ![key1] = "enabled"]
        /\ lifecycles'.database = [lifecycles.database EXCEPT ![key1] = "enabled"]
        /\ lifecycles' = [memory |-> lifecycles'.memory, database |-> lifecycles'.database]
    BY <2>1, <2>3
  <2>5. /\ lifecycles'.memory \in Lifecycles /\ lifecycles'.database \in Lifecycles
        /\ \A n \in Owners \X Ids :
             /\ lifecycles'.memory[n] = IF n = key1 THEN "enabled" ELSE lifecycles.memory[n]
             /\ lifecycles'.database[n] = IF n = key1 THEN "enabled" ELSE lifecycles.database[n]
    BY <2>2, <2>4 DEF Lifecycles
  <2>6. lifecycles' \in [memory : Lifecycles, database : Lifecycles]
    BY <2>4, <2>5
  <2>7. Numbered(database)'
    BY <2>1, <2>2 DEF Numbered, OfName
  <2>8. \A n \in Owners \X Ids : lifecycles'.database[n] # lifecycles'.memory[n] =>
             lifecycles'.database[n] = "draft" /\ lifecycles'.memory[n] = "none"
    BY <2>2, <2>5
  <2> QED
    BY <2>1, <2>2, <2>6, <2>7, <2>8 DEF DefinitionsInv, Lifecycles
<1>5. CASE table = "definitions" /\ Writes
  BY <1>4, <1>5, SaveDefinitionKeeps
     DEF Writes, SaveRow, Delete, tryClaim, release, trySatisfy, markSupplementalPromoted, cancelForRun
<1> QED
  BY <1>1, <1>3, <1>5 DEF StoresNext

\* What the two adapters of the port hold is the same, row by row, and so is what a write
\* returns, whatever calls are made: all that StoresAgree asks of queries is then about
\* their filters and orders.
AdaptersAgree == answered = TRUE /\ memory = database

THEOREM AdaptersHoldTheSame == StoresSpec => []AdaptersAgree
<1>1. StoresInit => StoreInv /\ DefinitionsInv
  <2> SUFFICES ASSUME StoresInit PROVE StoreInv /\ DefinitionsInv
    OBVIOUS
  <2>1. StoreInv
    BY DEF StoresInit, StoreInv, RowsAgree, Distinct
  <2>2. NoRows \in Lifecycles
    BY DEF NoRows, Lifecycles
  <2>3. <<>> \in Seq(Edition) /\ Numbered(<<>>)
    BY DEF Numbered
  <2> QED
    BY <2>1, <2>2, <2>3 DEF StoresInit, DefinitionsInv
<1>2. StoreInv /\ DefinitionsInv /\ [StoresNext]_storeVars => StoreInv' /\ DefinitionsInv'
  BY StoreNext, DefinitionsNext
<1>3. StoreInv /\ DefinitionsInv => AdaptersAgree
  BY DEF StoreInv, DefinitionsInv, AdaptersAgree, RowsAgree
<1> QED
  BY <1>1, <1>2, <1>3, PTL DEF StoresSpec

\* StoresAgree of the repositories that have no query to filter or sort: what is listed in
\* no order is the same of both, and a definition has the same version and lifecycle.
THEOREM ListsAgree == StoresSpec => [](table \in {"config", "claims", "definitions"} => StoresAgree)
<1>1. StoresInit => DefinitionsInv
  <2> SUFFICES ASSUME StoresInit PROVE DefinitionsInv
    OBVIOUS
  <2>2. NoRows \in Lifecycles
    BY DEF NoRows, Lifecycles
  <2>3. <<>> \in Seq(Edition) /\ Numbered(<<>>)
    BY DEF Numbered
  <2> QED
    BY <2>2, <2>3 DEF StoresInit, DefinitionsInv
<1>2. DefinitionsInv /\ [StoresNext]_storeVars => DefinitionsInv'
  BY DefinitionsNext
<1>3. ASSUME DefinitionsInv, AdaptersAgree, table \in {"config", "claims", "definitions"}
      PROVE  StoresAgree
  <2>1. CASE table \in {"config", "claims"}
    BY <1>3, <2>1 DEF AdaptersAgree, StoresAgree
  <2>2. CASE table = "definitions"
    <3>1. \A r \in ToSet(database) : <<r.owner, r.id>> \in Owners \X Ids
      <4>1. database \in Seq(Edition)
        BY <1>3, <2>2 DEF DefinitionsInv
      <4>2. \A i \in DOMAIN database : database[i] \in Edition
        BY <4>1
      <4> QED
        BY <4>2 DEF ToSet, Edition
    <3>2. \A r \in ToSet(database) :
            (IF lifecycles.memory[<<r.owner, r.id>>] = "none" THEN "draft"
             ELSE lifecycles.memory[<<r.owner, r.id>>])
            = (IF lifecycles.database[<<r.owner, r.id>>] = "none" THEN "draft"
               ELSE lifecycles.database[<<r.owner, r.id>>])
      BY <1>3, <2>2, <3>1 DEF DefinitionsInv
    <3>3. statusesIn(database, lifecycles.memory) = statusesIn(database, lifecycles.database)
      BY <3>2 DEF statusesIn
    <3> QED
      BY <1>3, <2>2, <3>3 DEF AdaptersAgree, StoresAgree
  <2> QED
    BY <1>3, <2>1, <2>2
<1> QED
  BY <1>1, <1>2, <1>3, AdaptersHoldTheSame, PTL DEF StoresSpec
================================================================================
