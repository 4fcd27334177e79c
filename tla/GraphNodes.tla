------------------------------ MODULE GraphNodes ------------------------------
(***************************************************************************)
(* What a node of a graph run does when the engine activates it: it gives  *)
(* a result, or waits and is activated again with the satisfaction of its  *)
(* wait.  Gate nodes evaluate a sequence of gates, with remediation.       *)
(***************************************************************************)
EXTENDS Naturals, Sequences, FiniteSets

CONSTANTS
    GateSets,               \* sequences of gates: [kind, required, remediation, maxAttempts]
    maxRemediationAttempts,
    Kinds,                  \* the kinds of node that are run
    MaxQuestions,           \* bound: waits of an agent, and answers without a value
    MaxKills                \* bound: restarts while the node is active

VARIABLES
    node,       \* its kind, whether it runs, waits or settled, and its satisfaction
    gate        \* the evaluation of a gate node

nodeVars == <<node, gate>>

Nothing == [gate |-> 0, input |-> "none", event |-> FALSE]
Evaluation == [pc |-> "evaluate", k |-> 1, attempt |-> 1, remediations |-> 0, passed |-> FALSE,
               judged |-> 0, verdicts |-> <<>>]

NodesInit ==
    /\ \E kind \in Kinds, gates \in GateSets :
        node = [kind |-> kind, gates |-> gates, pc |-> "active", satisfaction |-> Nothing, asked |-> 0,
                status |-> "none", questions |-> 0, crashes |-> 0]
    /\ gate = Evaluation

Active(kind) == node.kind = kind /\ node.pc = "active"
result(status) == [node EXCEPT !.pc = "settled", !.status = status]
suspends(k) == [node EXCEPT !.pc = "waiting", !.asked = k]
Yield(yield) == node' = yield /\ UNCHANGED gate

answered == node.satisfaction.input # "none"
satisfied == node.satisfaction # Nothing

--------------------------------------------------------------------------------
(* The simple executors                                                        *)

\* The agent's session, structured output asked for and missing; an error of the
\* whole fallback chain fails the node too.
AgentNode ==
    /\ Active("agent")
    /\ \/ \E status \in {"succeeded", "failed"} : Yield(result(status))
       \/ node.questions < MaxQuestions /\ Yield([suspends(0) EXCEPT !.questions = @ + 1])

\* No workspace, an unknown action, an exit code other than zero or a throw fails.
WorkNode ==
    /\ Active("command") \/ Active("action")
    /\ \E status \in {"succeeded", "failed"} : Yield(result(status))

HumanInputNode ==
    /\ Active("human-input")
    /\ Yield(IF answered THEN result("succeeded") ELSE suspends(0))

WaitNode ==
    /\ Active("wait")
    /\ Yield(IF satisfied THEN result("succeeded") ELSE suspends(0))

TerminalNode == Active("terminal") /\ Yield(result("succeeded"))

--------------------------------------------------------------------------------
(* Gates                                                                       *)

Evaluating(pc) == Active("gate") /\ gate.pc = pc

gateAt == node.gates[gate.k]

verdict(passed) ==
    gate' = [gate EXCEPT !.pc = "verdict", !.passed = passed, !.judged = gate.attempt]

\* Expressions and commands; an expression that throws has failed.
EvaluateCheck ==
    /\ Evaluating("evaluate")
    /\ gateAt.kind # "human"
    /\ \E passed \in BOOLEAN : verdict(passed)
    /\ UNCHANGED node

\* The agent that evaluates a gate, or remediates, may throw: the node fails.
AgentThrows ==
    /\ \/ Evaluating("evaluate") /\ gateAt.kind = "agent"
       \/ Evaluating("remediate")
    /\ Yield(result("failed"))

\* The approval of this gate is consumed; any other suspends the node.
EvaluateHuman ==
    /\ Evaluating("evaluate")
    /\ gateAt.kind = "human"
    /\ IF answered /\ node.satisfaction.gate = gate.k
       THEN verdict(node.satisfaction.input = "approved") /\ UNCHANGED node
       ELSE Yield(suspends(gate.k))

remediable ==
    /\ ~gate.passed
    /\ gateAt.required /\ gateAt.remediation
    /\ gate.remediations < maxRemediationAttempts
    /\ gate.attempt <= gateAt.maxAttempts

Remediate ==
    /\ Evaluating("verdict") /\ remediable
    /\ gate' = [gate EXCEPT !.pc = "remediate", !.remediations = @ + 1]
    /\ UNCHANGED node

Remediated_Mutated ==           \* the remediator declares success
    /\ Evaluating("remediate")
    /\ gate' = [gate EXCEPT !.pc = "verdict", !.attempt = @ + 1, !.passed = TRUE]
    /\ UNCHANGED node

\* The remediator declares nothing: the gate is evaluated again.
Remediated ==
    /\ Evaluating("remediate")
    /\ gate' = [gate EXCEPT !.pc = "evaluate", !.attempt = @ + 1]
    /\ UNCHANGED node

Conclude ==
    /\ Evaluating("verdict") /\ ~remediable
    /\ LET blocked == ~gate.passed /\ gateAt.required
           last == gate.k = Len(node.gates)
           entry == [passed |-> gate.passed, afterRemediation |-> gate.judged = gate.attempt]
       IN  /\ gate' = [gate EXCEPT !.pc = "evaluate", !.verdicts = Append(@, entry), !.attempt = 1,
                                   !.k = IF blocked \/ last THEN @ ELSE @ + 1]
           /\ node' = IF blocked THEN result("failed")
                      ELSE IF last THEN result("succeeded") ELSE node

GateNode ==
    \/ EvaluateCheck \/ AgentThrows \/ EvaluateHuman
    \/ Remediate \/ Remediated \/ Conclude

--------------------------------------------------------------------------------
(* The wait of a node is satisfied: by a value, or by an event that carries    *)
(* none. A new activation starts from nothing but the satisfaction.            *)

values ==
    CASE node.kind = "gate" -> {"approved", "rejected", "none"}
      [] node.kind = "wait" -> {"none"}
      [] OTHER -> {"value", "none"}

Satisfied ==
    /\ node.pc = "waiting"
    /\ \E input \in values :
        /\ input = "none" => node.kind = "wait" \/ node.questions < MaxQuestions
        /\ node' = [node EXCEPT !.pc = "active",
                                !.questions = IF input = "none" THEN @ + 1 ELSE @,
                                !.satisfaction = [gate |-> node.asked, input |-> input, event |-> TRUE]]
    /\ gate' = Evaluation

\* A process that dies activates the node again, with the satisfaction it had.
Restart ==
    /\ node.pc = "active"
    /\ node.crashes < MaxKills
    /\ node' = [node EXCEPT !.crashes = @ + 1]
    /\ gate' = Evaluation

NodeStep == AgentNode \/ WorkNode \/ HumanInputNode \/ WaitNode \/ TerminalNode \/ GateNode
NodesNext == NodeStep \/ Satisfied \/ Restart

NodesSpec == NodesInit /\ [][NodesNext]_nodeVars

NodesFairness == WF_nodeVars(NodeStep) /\ WF_nodeVars(Satisfied)

--------------------------------------------------------------------------------
(* Properties                                                                  *)

\* A gate node succeeds only when every required gate passed, in order and in this
\* activation, by an evaluation later than any remediation of it, and every required
\* human gate by an approval given for that very gate.
GatePassIsEarned ==
    node.kind = "gate" /\ node.status = "succeeded" =>
        /\ Len(gate.verdicts) = Len(node.gates)
        /\ \A k \in DOMAIN node.gates : node.gates[k].required =>
            /\ gate.verdicts[k].passed /\ gate.verdicts[k].afterRemediation
            /\ node.gates[k].kind = "human" =>
                node.satisfaction.gate = k /\ node.satisfaction.input = "approved"

HumanGates == {k \in DOMAIN node.gates : node.gates[k].kind = "human"}

\* A node settles, however often its checks fail and whatever is answered, once its
\* waits are answered with values; a gate node if it has one human gate at most.
NodeSettles == (node.kind = "gate" => Cardinality(HumanGates) <= 1) ~> (node.pc = "settled")
===============================================================================
