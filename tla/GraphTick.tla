------------------------------ MODULE GraphTick ------------------------------
(***************************************************************************)
(* What GraphEngine.tick (packages/workflow/src/graph-engine/engine.ts)    *)
(* may return, whatever the graph, its conditions and its executors are:   *)
(* the contract between the engine and the coordinator that drives it.     *)
(***************************************************************************)

CONSTANT Nodes  \* nodes of the workflow graph

\* The part of RunGraphState that decides what a tick can do; started tells
\* whether any node was ever activated.
GraphState == [saved : BOOLEAN, started : BOOLEAN,
               active : SUBSET Nodes, waiting : SUBSET Nodes]
NoGraph == [saved |-> FALSE, started |-> FALSE, active |-> {}, waiting |-> {}]
initialRunGraphState == [NoGraph EXCEPT !.saved = TRUE]

Ticked(a, w) == [saved |-> TRUE, started |-> TRUE, active |-> a, waiting |-> w]

\* took are the nodes handed their satisfaction, asks those in newWaits.
Outcome(verdict, graph, asks, took) ==
    [verdict |-> verdict, graph |-> graph, asks |-> asks, took |-> took]

\* Mutant: the wait a node was satisfied on is reported as a new one.
ReportedWaits_Stale(new, met) == new \cup met

\* newWaits: one entry for each node that yielded a wait in this tick.
ReportedWaits(new, met) == new

(* A node is runnable when it is active and not waiting, or waiting and     *)
(* satisfied; it settles, and its transitions activate other nodes, or it   *)
(* yields a wait.  shapes are the unusual graphs considered: "rearrive", an *)
(* implicit join re-activates a waiting node; "raceToEnd", a node yields a  *)
(* wait in the tick in which a parallel branch ends the run.                *)

\* The nodes with a satisfaction, and what an abort before the first round
\* leaves of them.
Met(g, asked) == g.waiting \cap asked
Left(g, asked, aborted) == IF aborted THEN {{}, Met(g, asked)} ELSE {{}}

\* Unless a join re-activates it, a node without an answer keeps waiting.
Kept(g, asked) == g.waiting \ asked
Stay(g, asked, shapes) ==
    IF "rearrive" \in shapes THEN SUBSET Kept(g, asked) ELSE {Kept(g, asked)}

\* Nodes waiting on a condition they yielded in this tick, or, echo, handed a
\* satisfaction for it, or, gone, re-activated and settled after it.
New(g, asked, shapes) ==
    SUBSET (IF "rearrive" \in shapes THEN Nodes ELSE Nodes \ Kept(g, asked))
Echo(g, asked) == SUBSET (asked \ g.waiting)
Gone(shapes) == IF "rearrive" \in shapes THEN SUBSET Nodes ELSE {{}}

Raced(g, asked, shapes) ==
    IF "raceToEnd" \in shapes THEN New(g, asked, shapes) ELSE {{}}
Verdicts(aborted) ==
    IF aborted THEN {"CANCELLED"} ELSE {"COMPLETED", "BLOCKED", "FAILED"}

\* An abort, a terminal node or a fatal error ended the loop.
Stopped(g, asked, aborted, shapes) ==
    {LET waiting == x.stay \cup x.left \cup x.new IN
     Outcome(x.verdict, Ticked(waiting \cup x.rest, waiting), {},
             (Met(g, asked) \ x.left) \cup x.echo) :
        x \in [verdict : Verdicts(aborted), stay : Stay(g, asked, shapes),
               left : Left(g, asked, aborted), new : Raced(g, asked, shapes),
               rest : SUBSET Nodes, echo : Echo(g, asked)]}

\* The loop ran until every node still active waits.
Quiescent(g, asked, shapes) ==
    {Outcome("WAITING", Ticked(x.stay \cup x.new, x.stay \cup x.new),
             ReportedWaits(x.new \cup x.echo \cup x.gone, Met(g, asked)),
             Met(g, asked) \cup x.echo) :
        x \in [stay : Stay(g, asked, shapes), new : New(g, asked, shapes),
               echo : Echo(g, asked), gone : Gone(shapes)]}

\* Nothing was runnable: the run still waits, or it is stalled.
Idle(g) == Outcome(IF g.waiting # {} THEN "WAITING" ELSE "FAILED", g, {}, {})

Outcomes(g, asked, aborted, shapes) ==
    IF aborted THEN Stopped(g, asked, TRUE, shapes)
    ELSE IF g.started /\ g.active \subseteq Kept(g, asked) THEN {Idle(g)}
    ELSE Stopped(g, asked, FALSE, shapes)
         \cup {o \in Quiescent(g, asked, shapes) : o.graph.waiting # {}}
=============================================================================
