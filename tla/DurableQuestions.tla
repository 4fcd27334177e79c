--------------------------- MODULE DurableQuestions ---------------------------
(***************************************************************************)
(* What durable waits promise (docs/durable-workflows.md, ADR-0019): a     *)
(* question of a run is asked once per node at a time, the first answer    *)
(* settles it, its answer is given to the node once, and a run that ends   *)
(* withdraws all of its questions together.  GraphCoordinator implements   *)
(* this with wait rows, locks, ticks and stored states.                    *)
(***************************************************************************)
CONSTANTS Runs, Nodes, Questions

VARIABLE question   \* of a run and a node: none, open, answered, delivered or withdrawn

Question == [run : Runs, node : Nodes, status : {"open", "answered", "delivered", "withdrawn"}]
Unasked == [run |-> "none", node |-> "none", status |-> "none"]

Init == question = [q \in Questions |-> Unasked]

open(r) == {q \in Questions : question[q].run = r /\ question[q].status = "open"}

Ask(q, r, n) ==
    /\ question[q] = Unasked
    /\ \A p \in open(r) : question[p].node # n
    /\ question' = [question EXCEPT ![q] = [run |-> r, node |-> n, status |-> "open"]]

Answer(q) ==
    /\ question[q].status = "open"
    /\ question' = [question EXCEPT ![q].status = "answered"]

\* A run that goes on gives its nodes the answers it has, one to a node.
Deliver(r, answers) ==
    /\ \A q \in answers : question[q].run = r /\ question[q].status = "answered"
    /\ \A p, q \in answers : question[p].node = question[q].node => p = q
    /\ question' = [q \in Questions |->
         IF q \in answers THEN [question[q] EXCEPT !.status = "delivered"] ELSE question[q]]

Withdraw(r) ==
    question' = [q \in Questions |->
        IF q \in open(r) THEN [question[q] EXCEPT !.status = "withdrawn"] ELSE question[q]]

Next ==
    \/ \E q \in Questions, r \in Runs, n \in Nodes : Ask(q, r, n)
    \/ \E q \in Questions : Answer(q)
    \/ \E r \in Runs : (\E answers \in SUBSET Questions : Deliver(r, answers)) \/ Withdraw(r)

Spec == Init /\ [][Next]_question
===============================================================================
