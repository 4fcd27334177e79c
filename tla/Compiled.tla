-------------------------------- MODULE Compiled ---------------------------------
(* compileWorkflow (packages/workflow/src/graph-engine/compile.ts): a version 1  *)
(* workflow as a graph.  Once the version 1 engine has returned, the graph its   *)
(* definition compiles to is run by the graph engine in the same world: every    *)
(* step ends as it did, every `when` is evaluated to what it was.  An approval   *)
(* step is one more node that settles.                                           *)
EXTENDS WorkflowEngine, Sequences, SequencesExt

CONSTANT Compilable \* the definitions compiled: acyclic, their steps numbered 1..n

\* The last of some steps, of which none of them depends on another: what the parser asks
\* of a workflow (findCycle).
Acyclic(d) ==
    \A S \in SUBSET d.steps : S # {} => \E s \in S : \A t \in S : s \notin d.dependsOn[t]

\* The compiler refuses a workflow without steps.
ASSUME CompilableAssumption ==
    \A d \in Compilable :
        /\ d \in Definitions /\ d.steps = 1..Cardinality(d.steps) /\ d.steps # {}
        /\ Acyclic(d)

VARIABLES graph, active, waiting, loopCounters, activations, retries, nodeResults, tick,
          input, pendingSatisfactions, newWaits, settlements, terminal, fatalError,
          stopped, executions, settling, rearrived, asked

graphVars == <<graph, active, waiting, loopCounters, activations, retries, nodeResults, tick,
               input, pendingSatisfactions, newWaits, settlements, terminal, fatalError,
               stopped, executions, settling, rearrived, asked>>

Graph == INSTANCE GraphEngine WITH
    Nodes <- {}, Workflows <- {}, maxSettlements <- 100,
    results <- nodeResults, pc <- tick, aborted <- stopped

--------------------------------------------------------------------------------
(* The compiler.  Nodes are numbered in the order of their ids: __done_s,       *)
(* __skip_s, __start, __success, __when_s, s.                                   *)

last(d) == Cardinality(d.steps)
doneNode(d, s) == s
skipNode(d, s) == last(d) + s
startNode(d) == 2 * last(d) + 1
successNode(d) == 2 * last(d) + 2
whenNode(d, s) == 2 * last(d) + 2 + s
stepNode(d, s) == 3 * last(d) + 2 + s

\* Mutant: only a `when` of its own makes a step skip-capable.
isSkipCapable_Own(d) == [s \in d.steps |-> s \in d.when]

\* The steps that can end benignly skipped: by their `when`, or with a dependency.
isSkipCapable(d) ==
    LET capable[s \in d.steps] == s \in d.when \/ \E dep \in d.dependsOn[s] : capable[dep]
    IN capable

dependedOn(d) == UNION {d.dependsOn[s] : s \in d.steps}

\* condition: "always", "succeeded", or the step whose `when` decides and what it must be.
transition(from, to, condition, step) ==
    [from |-> from, to |-> to, loopBound |-> 0, condition |-> condition, step |-> step]
always(from, to) == <<transition(from, to, "always", 0)>>
onSuccess(d, dep, to) ==
    <<transition(stepNode(d, dep), to, IF dep \in d.continueOnFailure THEN "always" ELSE "succeeded", 0)>>
unless(test, seq) == IF test THEN <<>> ELSE seq
fromDeps(d, s, edges) ==
    FlattenSeq([dep \in 1..last(d) |-> unless(dep \notin d.dependsOn[s], edges[dep])])

\* A `when` is evaluated by a decision node once every dependency has settled or was
\* skipped; it leads to the step or to its skip channel.
whenTransitions(d, s) ==
    LET node == whenNode(d, s)
        settles == [dep \in d.steps |->
                      always(stepNode(d, dep), node)
                      \o unless(~isSkipCapable(d)[dep], always(skipNode(d, dep), node))]
    IN  unless(d.dependsOn[s] # {}, always(startNode(d), node))
        \o fromDeps(d, s, settles)
        \o <<transition(node, stepNode(d, s), "true", s), transition(node, skipNode(d, s), "false", s)>>

\* Another step is reached by the success of its dependencies, its skip channel by theirs.
stepTransitions(d, s) ==
    LET succeeds == [dep \in d.steps |-> onSuccess(d, dep, stepNode(d, s))]
        skips == [dep \in d.steps |->
                     unless(~isSkipCapable(d)[dep], always(skipNode(d, dep), skipNode(d, s)))]
    IN  unless(d.dependsOn[s] # {}, always(startNode(d), stepNode(d, s)))
        \o fromDeps(d, s, succeeds)
        \o unless(~isSkipCapable(d)[s], fromDeps(d, s, skips))

\* One relay for each step nothing depends on.
doneTransitions(d, s) ==
    onSuccess(d, s, doneNode(d, s))
    \o unless(~isSkipCapable(d)[s], always(skipNode(d, s), doneNode(d, s)))
    \o always(doneNode(d, s), successNode(d))

joinOf(d, n) ==
    LET all == [mode |-> "all", n |-> 0]
        step == n - (IF n > 3 * last(d) + 2 THEN 3 * last(d) + 2 ELSE 2 * last(d) + 2)
    IN  CASE n = successNode(d) -> all
          [] n > 3 * last(d) + 2 /\ step \notin d.when /\ Cardinality(d.dependsOn[step]) >= 2 -> all
          [] n \in {whenNode(d, s) : s \in d.when} /\ d.dependsOn[step] # {} ->
                IF \E dep \in d.dependsOn[step] : isSkipCapable(d)[dep]
                THEN [mode |-> "min", n |-> Cardinality(d.dependsOn[step])] ELSE all
          [] OTHER -> [mode |-> "implicit", n |-> 0]

compileWorkflow(d) ==
    LET ends == d.steps \ dependedOn(d)
        nodes == {startNode(d), successNode(d)} \cup {stepNode(d, s) : s \in d.steps}
                 \cup {whenNode(d, s) : s \in d.when}
                 \cup {skipNode(d, s) : s \in {s \in d.steps : isSkipCapable(d)[s]}}
                 \cup {doneNode(d, s) : s \in ends}
        bodies == [s \in 1..last(d) |-> IF s \in d.when THEN whenTransitions(d, s) ELSE stepTransitions(d, s)]
        relays == [s \in 1..last(d) |-> unless(s \notin ends, doneTransitions(d, s))]
    IN  [nodes |-> nodes, entry |-> startNode(d),
         kind |-> [n \in nodes |-> IF n = successNode(d) THEN "completed" ELSE "work"],
         join |-> [n \in nodes |-> joinOf(d, n)],
         maxAttempts |-> [n \in nodes |-> IF n > 3 * last(d) + 2
                                          THEN d.maxAttempts[n - 3 * last(d) - 2] ELSE 0],
         transitions |-> FlattenSeq(bodies \o relays)]

--------------------------------------------------------------------------------
(* Both engines                                                                 *)

CompiledInit ==
    /\ Init
    /\ IF definition \in Compilable THEN Graph!Fresh(compileWorkflow(definition))
       ELSE Graph!Fresh(compileWorkflow([definition EXCEPT !.dependsOn = [s \in steps |-> {}],
                                                           !.when = {}]))

WorkflowStep == Next /\ UNCHANGED graphVars

\* A synthetic node is a no-op; a step fails as it did, after its retries, or
\* succeeds, at any attempt.  What a step that was passed over would do is open.
stepOf(n) == n - 3 * last(definition) - 2
asItDid(n, failed) ==
    \/ stepOf(n) <= 0 /\ ~failed
    \/ stepOf(n) > 0 /\ results[stepOf(n)] = "skipped"
    \/ stepOf(n) > 0 /\ results[stepOf(n)] = "failed" /\ failed
    \/ stepOf(n) > 0 /\ results[stepOf(n)] = "succeeded"
       /\ (failed => Graph!attempt(n) < graph.maxAttempts[n])

conditionHolds(t) ==
    CASE t.condition = "always" -> TRUE
      [] t.condition = "succeeded" -> ~settling.failed
      [] t.condition = "true" -> results[t.step] # "skipped"
      [] t.condition = "false" -> results[t.step] = "skipped"

RunCompiled ==
    /\ pc = "returned" /\ ~cancelled /\ settledSteps = steps /\ definition \in Compilable
    /\ \/ Graph!StartTick({}) \/ Graph!Execute \/ Graph!RoundOver \/ Graph!Settled \/ Graph!EndTick
       \/ \E failed \in BOOLEAN :
            executions # {} /\ asItDid(Graph!current, failed) /\ Graph!TakeResult(failed)
       \/ /\ Graph!Fire
          /\ loopCounters' # loopCounters <=> conditionHolds(graph.transitions[Min(settling.rest)])
    /\ UNCHANGED vars

CompiledNext == WorkflowStep \/ RunCompiled
CompiledSpec == CompiledInit /\ [][CompiledNext]_<<vars, graphVars>>
FairCompiledSpec ==
    /\ CompiledSpec
    /\ WF_vars(Loop /\ UNCHANGED graphVars)
    /\ \A s \in AllSteps : WF_vars(s \in steps /\ Progress(s) /\ UNCHANGED graphVars)

--------------------------------------------------------------------------------
(* Properties                                                                   *)

\* What the header of compile.ts lists as a known divergence: a step with `when` behind
\* a step that was skipped because of a failure.
Recovered ==
    \E s \in definition.when : \E dep \in definition.dependsOn[s] :
        results[dep] = "skipped" /\ dep \in tainted

\* And what it does not list: a step skipped because of a failure that has also a
\* dependency skipped by its `when`, whose skip channel then speaks for it.
SkipSpeaksForFailure ==
    \E s \in steps \ definition.when : \E failed, skipped \in definition.dependsOn[s] :
        /\ failedHard(failed) \/ failed \in tainted
        /\ results[skipped] = "skipped" /\ skipped \notin tainted

\* The compiler preserves "v1 execution semantics" (compile.ts): but for the two cases
\* above, the graph completes exactly when the workflow succeeds by what its steps came
\* to (which the version 1 engine may compute too early, see FailureHasACause), and
\* executes no step that was skipped.
CompiledKeepsVerdict ==
    tick = "ended" /\ ~Recovered /\ ~SkipSpeaksForFailure =>
        /\ terminal = "completed" <=> computeStatus = "succeeded"
        /\ \A s \in steps : results[s] = "skipped" => nodeResults[stepNode(definition, s)] = 0
================================================================================
