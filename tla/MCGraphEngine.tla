---------------------------- MODULE MCGraphEngine ----------------------------
(* Small workflow graphs for TLC: ticks with arbitrary yields, and dry runs.   *)
EXTENDS DryRun

\* The graph with these edges, in this order; bound is the loopBound of the
\* transitions on a cycle, join gives the mode of each node.
Workflow(last, edges, bound, join, attempts) ==
    LET bare == [nodes |-> 1..last,
                 transitions |-> [i \in DOMAIN edges |->
                                    [from |-> edges[i][1], to |-> edges[i][2], loopBound |-> 0]]]
        bounded(i) == edges[i][1] \in reachable(bare, edges[i][2])
    IN  [nodes |-> 1..last, entry |-> 1,
         kind |-> [n \in 1..last |-> IF n = last THEN "completed" ELSE "work"],
         join |-> [n \in 1..last |-> [mode |-> join[n], n |-> 2]],
         maxAttempts |-> [n \in 1..last |-> IF n = 2 THEN attempts ELSE 0],
         transitions |-> [i \in DOMAIN edges |->
                            [from |-> edges[i][1], to |-> edges[i][2],
                             loopBound |-> IF bounded(i) THEN bound ELSE 0]]]

Edges3 == {<<1, 1>>, <<1, 2>>, <<1, 3>>, <<2, 1>>, <<2, 2>>, <<2, 3>>}
InOrder(S) == SetToSortSeq(S, LAMBDA a, b : a[1] < b[1] \/ (a[1] = b[1] /\ a[2] < b[2]))

\* Every graph with two nodes that work and one that ends the run, and at most
\* size transitions, that passes the validation.
Graphs3(size, bounds, modes, attempts) ==
    {w \in {Workflow(3, InOrder(S), b, <<"implicit", m, m3>>, a) :
              S \in {T \in SUBSET Edges3 : Cardinality(T) \in 2..size}, b \in bounds,
              m \in modes, m3 \in modes, a \in attempts} : validateGraph(w)}

Diamond(join) ==
    Workflow(4, <<<<1, 2>>, <<1, 3>>, <<2, 4>>, <<3, 4>>>>, 0,
             <<"implicit", "implicit", "implicit", join>>, 0)

\* The branches declared in the other order than the names of their nodes.
Crossed == Workflow(4, <<<<1, 3>>, <<1, 2>>, <<2, 4>>, <<3, 4>>>>, 0,
                    <<"implicit", "implicit", "implicit", "any">>, 0)

\* Two branches converge on a node that works.
Converging(join) ==
    Workflow(5, <<<<1, 2>>, <<1, 3>>, <<2, 4>>, <<3, 4>>, <<4, 5>>>>, 0,
             <<"implicit", "implicit", "implicit", join, "implicit">>, 0)
Modes == {"implicit", "any", "all", "min"}
Diamonds == {Diamond(m) : m \in Modes}
Convergings == {Converging(m) : m \in Modes}

AllContract == Graphs3(3, {0, 1}, {"implicit", "any", "all"}, {0, 2}) \cup Diamonds \cup {Crossed}

\* A node settles in one way or is not predictable, every condition is possible.
AllWorlds(g) ==
    [status : {f \in [g.nodes -> {"succeeded", "failed", "unknown"}] :
                 \A n \in g.nodes : isTerminalNode(g, n) => f[n] = "succeeded"},
     condition : [DOMAIN g.transitions -> {"always", "succeeded", "failed"}]]

\* A behaviour is about the ticks of a run, or about a dry run and what became of it.
MCInit == TickInit \/ DryInit
MCNext == TickNext \/ DryNext
MCSpec == MCInit /\ [][MCNext]_<<vars, dryVars>> /\ WF_vars(TickStep)

\* An accepted tick ends: nodes that answer a satisfaction by asking again, loops
\* and retries never keep it running forever.
TicksEnd == walk.stop = "off" => TickEnds
=============================================================================
