-------------------------------- MODULE Routing --------------------------------
(***************************************************************************)
(* Which workflow an item gets: the trigger and eligibility test of the    *)
(* version 1 scheduler, the routing rules of the graph scheduler, and the  *)
(* rules it proposes from what people selected.  An attribute stands for   *)
(* a label, a type or a repository; a rule's condition tests one of them.  *)
(***************************************************************************)
EXTENDS Naturals, Sequences, FiniteSets, SequencesExt

CONSTANTS
    Attributes, Workflows,
    AttributesOf,           \* the attributes of each item
    RuleName,               \* the slug of an attribute and a workflow
    MIN_SUGGESTION_EVIDENCE,
    MaxDecisions            \* bound: how often people select

VARIABLES
    decisions,      \* selections made so far, oldest first
    rules,          \* rule name -> the approved rule, or NoRule
    proposals       \* rule name -> the suggestion a proposal asks about, or NoRule

routingVars == <<decisions, rules, proposals>>

NoRule == [attribute |-> "none", workflow |-> "none"]
Suggestions == [attribute : Attributes, workflow : Workflows]
RuleNames == {RuleName[s] : s \in Suggestions}

RoutingInit ==
    /\ decisions = <<>>
    /\ rules = [n \in RuleNames |-> NoRule]
    /\ proposals = [n \in RuleNames |-> NoRule]

--------------------------------------------------------------------------------
(* The version 1 scheduler: the first definition an item is eligible for *)

\* An empty list of the trigger or the eligibility asks for nothing.
evaluateEligibility(item, definition) ==
    /\ definition.states = {} \/ item.state \in definition.states
    /\ definition.labels = {} \/ item.labels \cap definition.labels # {}
    /\ definition.labelsInclude \subseteq item.labels
    /\ definition.labelsExclude \cap item.labels = {}
    /\ definition.types = {} \/ item.type \in definition.types
    /\ definition.unassigned => item.assignees = {}

selectWorkflow(item, definitions) ==
    LET eligible == SelectSeq(definitions, LAMBDA d : evaluateEligibility(item, d))
    IN  IF eligible = <<>> THEN "none" ELSE Head(eligible).name

--------------------------------------------------------------------------------
(* Routing rules: rules that agree on the workflow are not ambiguous *)

listRules == {rules[n] : n \in RuleNames} \ {NoRule}

routeItem(item, rs, enabledWorkflows) ==
    LET workflows == {r.workflow : r \in {x \in rs : /\ x.workflow \in enabledWorkflows
                                                     /\ x.attribute \in AttributesOf[item]}}
    IN  [kind |-> CASE workflows = {} -> "no-match"
                    [] Cardinality(workflows) = 1 -> "unique"
                    [] OTHER -> "ambiguous",
         workflows |-> workflows]

--------------------------------------------------------------------------------
(* Learning: an attribute whose selections all chose one workflow *)

group(a, history) == {i \in DOMAIN history : a \in AttributesOf[history[i].item]}

suggestRoutingRules(history) ==
    {s \in Suggestions :
        /\ Cardinality(group(s.attribute, history)) >= MIN_SUGGESTION_EVIDENCE
        /\ \A i \in group(s.attribute, history) : history[i].workflow = s.workflow}

\* What a rule already tests for is not suggested again.
suggestRules ==
    {s \in suggestRoutingRules(decisions) :
        s.attribute \notin {r.attribute : r \in listRules}}

recordDecision(item, workflow) ==
    decisions' = Append(decisions, [item |-> item, workflow |-> workflow])

\* Two suggestions with one name share a proposal: the first is asked about.
proposeRule(s) ==
    /\ s \in suggestRules
    /\ proposals[RuleName[s]] = NoRule
    /\ proposals' = [proposals EXCEPT ![RuleName[s]] = s]
    /\ UNCHANGED <<decisions, rules>>

onRuleApproval(n, approved) ==
    /\ proposals[n] # NoRule
    /\ proposals' = [proposals EXCEPT ![n] = NoRule]
    /\ rules' = IF approved THEN [rules EXCEPT ![n] = proposals[n]] ELSE rules
    /\ UNCHANGED decisions

RoutingNext ==
    \/ \E s \in Suggestions : proposeRule(s)
    \/ \E n \in RuleNames, approved \in BOOLEAN : onRuleApproval(n, approved)

--------------------------------------------------------------------------------

seen(a, history, k) == {i \in 1..k : a \in AttributesOf[history[i].item]}

\* Enough selections had been made after k of them, and all agreed.
agreedOn(s, history, k) ==
    /\ Cardinality(seen(s.attribute, history, k)) >= MIN_SUGGESTION_EVIDENCE
    /\ \A i \in seen(s.attribute, history, k) : history[i].workflow = s.workflow

\* A rule is only ever learned from agreement: when it was suggested, enough
\* selections of items with its attribute had been made and every one of them
\* chose its workflow (suggestRoutingRules; "Never guesses").
RulesLearnedFromAgreement ==
    \A s \in listRules \cup ({proposals[n] : n \in RuleNames} \ {NoRule}) :
        \E k \in 0..Len(decisions) : agreedOn(s, decisions, k)
===============================================================================
