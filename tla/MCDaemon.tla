-------------------------------- MODULE MCDaemon --------------------------------
(* A small daemon: two items, two lanes, four schedules, a calendar of days of *)
(* two minutes and years of two days, every second one with a leap day.         *)
EXTENDS Daemon, TLC

FreeField == <<[base |-> <<>>, step |-> 0]>>
Only(n) == <<[base |-> <<n>>, step |-> 0]>>
Cron == [kind |-> "cron", minute |-> FreeField, hour |-> FreeField, dayOfMonth |-> FreeField,
         month |-> FreeField, dayOfWeek |-> FreeField]

TwoItems == {"a", "b"}
TwoRuns == 1..2
ListedSchedules == <<"broken", "daily", "every", "leap">>
ListedLanes == <<"ranked", "serial", "parallel">>
SomeSources ==
    [broken |-> [Cron EXCEPT !.hour = Only(7)],
     daily  |-> [Cron EXCEPT !.hour = Only(1), !.dayOfWeek = <<[base |-> <<0, 2>>, step |-> 2]>>],
     every  |-> [kind |-> "interval", everyMs |-> 2],
     leap   |-> [Cron EXCEPT !.dayOfMonth = Only(2), !.month = Only(2)]]
SomeLanes ==
    [ranked |-> [policy |-> "ranked_parallel", maxActive |-> 1, workflow |-> "routed"],
     serial |-> [policy |-> "strict_serial", maxActive |-> 5, workflow |-> "w1"],
     parallel |-> [policy |-> "ranked_parallel", maxActive |-> 2, workflow |-> "w1"]]
RankedItems ==
    [ranked |-> <<"a", "b">>, serial |-> <<"a", "b">>, parallel |-> <<"c", "d", "e">>]
FiveItems == {"a", "b", "c", "d", "e"}
TwoAttributes == {"bug", "docs"}
TwoWorkflows == {"w1", "w2"}
ItemAttributes == [a |-> {"bug"}, b |-> {"docs"}]
Names == [s \in [attribute : TwoAttributes, workflow : TwoWorkflows] |-> s.attribute]
SomeRules == {[attribute |-> "bug", workflow |-> "w1"], [attribute |-> "docs", workflow |-> "w1"],
              [attribute |-> "docs", workflow |-> "w2"]}
Eligible == [state |-> "open", labels |-> {"bug"}, type |-> "task", assignees |-> {}]
Data == [a |-> Eligible, b |-> Eligible]
FirstFree ==
    <<[name |-> "w1", states |-> {"open"}, labels |-> {"bug"}, labelsInclude |-> {},
       labelsExclude |-> {"wip"}, types |-> {}, unassigned |-> TRUE]>>
Months == <<1, 1>>
NoneBlocked == {}
Enablements == {{"serial"}, {"ranked"}, {"broken", "daily", "every", "leap"}}

\* A lane of two over items of its own, which nobody else starts.
Parallel == INSTANCE Daemon WITH
    Items <- FiveItems, RunIds <- 1..3, AttributesOf <- [i \in FiveItems |-> {}],
    Throwing <- {}, Scenarios <- {{"parallel"}}, MaxDecisions <- 0,
    ItemData <- [i \in FiveItems |-> Eligible], Definitions <- <<>>, ByHand <- {}

MCInit == Init \/ Parallel!Init
MCNext ==
    \/ "parallel" \notin enabled /\ Next
    \/ "parallel" \in enabled /\ Parallel!Next
MCSpec ==
    /\ MCInit /\ [][MCNext]_vars
    /\ WF_vars("parallel" \notin enabled /\ Start)
    /\ WF_vars("parallel" \notin enabled /\ ServeControlPlane)
    /\ WF_vars("parallel" \notin enabled /\ Tick)
    /\ \A r \in RunIds : WF_vars("parallel" \notin enabled /\ RunOn(r))

\* What the daemon has put down of its past is true: the slots it fired, each once, and
\* the rules it learned.
RecordsKept == FiredOncePerSlot /\ RulesLearnedFromAgreement
===============================================================================
