--------------------------- MODULE GraphValidation ---------------------------
(***************************************************************************)
(* Workflow graphs and validateGraph (packages/core/src/graph-validate.ts).*)
(* A graph is a record                                                     *)
(*   nodes        set of nodes, numbered in the order of their ids         *)
(*   entry        the node a fresh run activates                           *)
(*   kind         "work", or the outcome of a terminal node                *)
(*   join         [mode, n]; mode "implicit" when none is declared         *)
(*   maxAttempts  of the retry policy, 0 without one                       *)
(*   transitions  in declaration order, with loopBound 0 when undeclared;  *)
(*                a condition may hold or not whenever it is evaluated     *)
(***************************************************************************)
EXTENDS Naturals, Sequences

isWorkflowGraph(g) ==
    /\ g.kind \in [g.nodes -> {"work", "completed", "failed", "blocked"}]
    /\ g.join \in [g.nodes -> [mode : {"implicit", "any", "all", "min"}, n : Nat]]
    /\ g.maxAttempts \in [g.nodes -> Nat]
    /\ g.transitions \in Seq([from : g.nodes, to : g.nodes, loopBound : Nat])

isTerminalNode(g, n) == g.kind[n] # "work"

outgoing(g, n) == {g.transitions[i].to : i \in {j \in DOMAIN g.transitions :
                                                  g.transitions[j].from = n}}

\* The nodes reached from n, n included, following outgoing transitions.
reachable(g, n) ==
    {m \in g.nodes :
        \A S \in SUBSET g.nodes :
            n \in S /\ (\A k \in S : outgoing(g, k) \subseteq S) => m \in S}

inCycle(g, n) == \E next \in outgoing(g, n) : n \in reachable(g, next)

\* Every transition on a cycle declares a loopBound.
cyclesBounded(g) ==
    \A i \in DOMAIN g.transitions :
        \/ g.transitions[i].loopBound > 0
        \/ g.transitions[i].from \notin reachable(g, g.transitions[i].to)

validateGraph(g) ==
    /\ g.entry \in g.nodes
    /\ \A i \in DOMAIN g.transitions : {g.transitions[i].from, g.transitions[i].to} \subseteq g.nodes
    /\ reachable(g, g.entry) = g.nodes
    /\ \E n \in g.nodes : isTerminalNode(g, n)
    /\ \A n \in g.nodes :
         /\ isTerminalNode(g, n) => outgoing(g, n) = {}
         /\ g.join[n].mode \in {"all", "min"} => ~inCycle(g, n)
         /\ g.join[n].mode = "min" => g.join[n].n >= 1
    /\ cyclesBounded(g)
=============================================================================
