-------------------------- MODULE MCWorkflowEngine ---------------------------
(* Small version 1 workflows for TLC. *)
EXTENDS Compiled

\* Steps 1..n; a step depends on earlier ones only.
Workflow(n, deps, when, forgiven, timeouts, attempts) ==
    [steps |-> 1..n, dependsOn |-> deps, when |-> when, continueOnFailure |-> forgiven,
     timeoutMs |-> timeouts, maxAttempts |-> [s \in 1..n |-> IF s = 1 THEN attempts ELSE 1]]

Ordered(n) == {deps \in [1..n -> SUBSET (1..n)] : \A s \in 1..n : deps[s] \subseteq 1..(s - 1)}

\* Every shape of three steps, with every choice of a step with `when` and of one
\* that continues on failure; the first step may be retried and timed out.
Three ==
    {Workflow(3, deps, when, forgiven, {1}, 2) :
        deps \in Ordered(3), when \in {{}, {2}, {3}, {2, 3}}, forgiven \in {{}, {1}, {2}}}

\* Chains and diamonds of four steps, where taint travels over two skips.
Chain == [s \in 1..4 |-> IF s = 1 THEN {} ELSE {s - 1}]
Diamond == <<{}, {1}, {1}, {2, 3}>>
Four == {Workflow(4, deps, when, {}, {1}, 1) :
            deps \in {Chain, Diamond, <<{}, {}, {1, 2}, {3}>>, <<{}, {}, {1}, {1}>>}, when \in {{}, {3}, {4}}}

\* A cycle with a step behind it: what the validation refuses, given to execute.
Cyclic == {Workflow(3, <<{2}, {1}, {2}>>, {}, {}, {}, 1)}

Acyclics == Three \cup Four
All == Acyclics \cup Cyclic

\* Two steps that do not depend on each other.
Parallel == {Workflow(2, <<{}, {}>>, {}, {}, {}, 1)}
=============================================================================
