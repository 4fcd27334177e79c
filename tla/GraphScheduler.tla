----------------------------- MODULE GraphScheduler -----------------------------
(***************************************************************************)
(* The graph scheduler and the daemon's tick that drives it: schedules,    *)
(* then lanes, one at a time, each start awaited until the run parks or    *)
(* ends.  Selection waits are answered from the control plane meanwhile.   *)
(***************************************************************************)
EXTENDS RunTable, Routing, ScheduleSpec

CONSTANTS
    Schedules,      \* in the order they are listed
    Lanes,          \* in the order they are listed
    ScheduleOf,     \* schedule -> its cron source
    LaneOf,         \* lane -> policy, maxActive, workflow ("routed" when none is fixed)
    Backlog,        \* lane -> what its source lists, in rank order
    Blocked,        \* the items blocked by another
    Rules,          \* the routing rules there were before any was learned
    EnabledWorkflows,
    Throwing,       \* for whom a start may throw
    Scenarios,      \* the sets of definitions that may be enabled
    MaxTime         \* bound: the minutes that pass

ASSUME SchedulingAssumption ==
    /\ Schedules \in Seq(Range(Schedules))
    /\ \A s \in Range(Schedules) :
        ScheduleOf[s].kind = "interval" => ScheduleOf[s].everyMs \in Int
    /\ MaxTime \in Nat

ASSUME LanesAssumption ==
    /\ Lanes \in Seq(Range(Lanes))
    /\ Range(Lanes) \cap (V1 \cup {"nobody", "schedule", "selection"}) = {}
    /\ \A l \in Range(Lanes) : LaneOf[l].maxActive \in Int
    /\ \A scenario \in Scenarios : \A l \in scenario \cap Range(Lanes) :
        Backlog[l] \in Seq(Items)

VARIABLES
    now,            \* the clock, in minutes
    enabled,        \* the schedules and lanes that are enabled
    lastFiring,     \* durable: schedule -> the slot recorded last, 0 is its creation
    started,        \* history: schedule -> the slots a run was started for
    laneRuns,       \* durable: lane -> the runs it tracks
    selections,     \* durable: the items with an open selection wait
    tick            \* the graph tick of this process

schedulingVars == <<now, enabled, lastFiring, started, laneRuns, selections, tick>>

\* at is the schedule or lane the tick has come to; the rest is of one dispatch.
At(pc, n) == [pc |-> pc, at |-> n, left |-> <<>>, active |-> {}, run |-> NoRun]
Idle == At("idle", 0)

SchedulingInit ==
    /\ now = 0
    /\ enabled \in Scenarios
    /\ lastFiring = [s \in Range(Schedules) |-> 0]
    /\ started = [s \in Range(Schedules) |-> <<>>]
    /\ laneRuns = [l \in Range(Lanes) |-> {}]
    /\ selections = {}
    /\ tick = Idle

\* Only schedules look at the clock.
TimePasses ==
    /\ now < MaxTime
    /\ enabled \cap Range(Schedules) # {}
    /\ now' = now + 1
    /\ UNCHANGED <<enabled, lastFiring, started, laneRuns, selections, tick>>

\* Ticks never overlap: one that is under way skips the next.
BeginTick ==
    /\ tick.pc = "idle"
    /\ tick' = At("schedules", 1)
    /\ UNCHANGED <<now, enabled, lastFiring, started, laneRuns, selections>>

--------------------------------------------------------------------------------
(* fireDueSchedules *)

parsed ==
    [s \in {x \in Range(Schedules) : Parses(ScheduleOf[x])} |-> parseScheduleSpec(ScheduleOf[s])]

\* Mutant: measured from the creation of the schedule every time.
dueOf_Mutated(s) == latestDueAtOrBefore(parsed[s], 0, now)

dueOf(s) == latestDueAtOrBefore(parsed[s], lastFiring[s], now)

schedule == Schedules[tick.at]
considered == schedule \in enabled /\ schedule \in DOMAIN parsed
due == dueOf(schedule)

AtSchedule == tick.pc = "schedules" /\ tick.at <= Len(Schedules)

\* Mutant: a schedule that does not parse ends the tick.
PassSchedule_Mutated ==
    /\ AtSchedule
    /\ considered => due = Never
    /\ tick' = IF considered THEN At("schedules", tick.at + 1) ELSE Idle
    /\ UNCHANGED <<now, enabled, lastFiring, started, laneRuns, selections, tableVars>>

PassSchedule ==
    /\ AtSchedule
    /\ considered => due = Never
    /\ tick' = At("schedules", tick.at + 1)
    /\ UNCHANGED <<now, enabled, lastFiring, started, laneRuns, selections, tableVars>>

\* An expression that does not fire within the scan ends the whole tick.
ScheduleThrows ==
    /\ AtSchedule
    /\ considered /\ due = Throws
    /\ tick' = Idle
    /\ UNCHANGED <<now, enabled, lastFiring, started, laneRuns, selections, tableVars>>

\* Recorded before the start: a crash in between loses the firing.
RecordFiring ==
    /\ AtSchedule
    /\ considered /\ due \notin {Never, Throws}
    /\ lastFiring' = [lastFiring EXCEPT ![schedule] = due]
    /\ tick' = [tick EXCEPT !.pc = "fire"]
    /\ UNCHANGED <<now, enabled, started, laneRuns, selections, tableVars>>

StartScheduled ==
    /\ tick.pc = "fire"
    /\ \E r \in RunIds :
        /\ startUnclaimed(r, "schedule")
        /\ tick' = [tick EXCEPT !.pc = "firing", !.run = r]
    /\ started' = [started EXCEPT ![schedule] = Append(@, lastFiring[schedule])]
    /\ UNCHANGED <<now, enabled, lastFiring, laneRuns, selections>>

SchedulesDone ==
    /\ tick.pc = "schedules" /\ tick.at > Len(Schedules)
    /\ tick' = At("lanes", 1)
    /\ UNCHANGED <<now, enabled, lastFiring, started, laneRuns, selections, tableVars>>

fireDueSchedules ==
    PassSchedule \/ ScheduleThrows \/ RecordFiring \/ StartScheduled \/ SchedulesDone

--------------------------------------------------------------------------------
(* dispatchLanes and dispatchLane *)

lane == Lanes[tick.at]
capacity(l) ==
    IF LaneOf[l].policy = "ranked_parallel"
    THEN IF LaneOf[l].maxActive < 1 THEN 1 ELSE LaneOf[l].maxActive
    ELSE 1

AtLane == tick.pc = "lanes" /\ tick.at <= Len(Lanes)

\* A lane that is disabled, of an unknown source, whose discovery failed or
\* found nothing; the runs it tracks are not looked at.
PassLane ==
    /\ AtLane
    /\ tick' = At("lanes", tick.at + 1)
    /\ UNCHANGED <<now, enabled, lastFiring, started, laneRuns, selections, tableVars>>

\* Mutant: the runs tracked before this dispatch are forgotten.
activeLaneRunIds_Mutated(l) == {}

activeLaneRunIds(l) == {r \in laneRuns[l] : ~isTerminal(r)}

\* What is found open of a backlog, in its order.
discovered(backlog) ==
    LET picks(n) == {p \in [1..n -> DOMAIN backlog] : \A i, j \in 1..n : i < j => p[i] < p[j]}
    IN  UNION {{[i \in 1..n |-> backlog[p[i]]] : p \in picks(n)} : n \in DOMAIN backlog}

DiscoverLane ==
    /\ AtLane
    /\ lane \in enabled
    /\ \E open \in discovered(Backlog[lane]) :
        tick' = [tick EXCEPT !.pc = "dispatch", !.left = open,
                             !.active = activeLaneRunIds(lane)]
    /\ UNCHANGED <<now, enabled, lastFiring, started, laneRuns, selections, tableVars>>

Dispatching ==
    /\ tick.pc = "dispatch"
    /\ tick.left # <<>>
    /\ Cardinality(tick.active) < capacity(lane)

\* A lane without a workflow of its own routes the item.
workflowForLaneItem(item) ==
    IF LaneOf[lane].workflow # "routed"
    THEN [kind |-> "unique", workflows |-> {LaneOf[lane].workflow}]
    ELSE routeItem(item, Rules \cup listRules, EnabledWorkflows)

\* What a lane cannot start halts a strict one and is skipped by the others.
afterRefusal ==
    IF LaneOf[lane].policy = "strict_serial" THEN <<>> ELSE Tail(tick.left)

RefuseItem ==
    /\ Dispatching
    /\ LET item == Head(tick.left)
           outcome == workflowForLaneItem(item).kind
       IN  /\ item \in Blocked \/ outcome # "unique"
           /\ selections' = IF item \notin Blocked /\ outcome = "ambiguous"
                            THEN selections \cup {item} ELSE selections
    /\ tick' = [tick EXCEPT !.left = afterRefusal]
    /\ UNCHANGED <<now, enabled, lastFiring, started, laneRuns, tableVars>>

startable(item) == item \notin Blocked /\ workflowForLaneItem(item).kind = "unique"

ItemAlreadyClaimed ==
    /\ Dispatching
    /\ startable(Head(tick.left))
    /\ claims[Head(tick.left)] # NoRun
    /\ tick' = [tick EXCEPT !.left = afterRefusal]
    /\ UNCHANGED <<now, enabled, lastFiring, started, laneRuns, selections, tableVars>>

claimAndStart ==
    /\ Dispatching
    /\ startable(Head(tick.left))
    /\ \E r \in RunIds :
        /\ tryClaim(r, Head(tick.left), lane)
        /\ tick' = [tick EXCEPT !.pc = "starting", !.run = r, !.left = Tail(@)]
    /\ UNCHANGED <<now, enabled, lastFiring, started, laneRuns, selections>>

SaveLane ==
    /\ tick.pc = "dispatch"
    /\ tick.left = <<>> \/ Cardinality(tick.active) >= capacity(lane)
    /\ laneRuns' = [laneRuns EXCEPT ![lane] = tick.active]
    /\ tick' = At("lanes", tick.at + 1)
    /\ UNCHANGED <<now, enabled, lastFiring, started, selections, tableVars>>

EndTick ==
    /\ tick.pc = "lanes" /\ tick.at > Len(Lanes)
    /\ tick' = Idle
    /\ UNCHANGED <<now, enabled, lastFiring, started, laneRuns, selections, tableVars>>

dispatchLanes ==
    \/ PassLane \/ DiscoverLane \/ RefuseItem \/ ItemAlreadyClaimed \/ claimAndStart
    \/ SaveLane \/ EndTick

--------------------------------------------------------------------------------
(* What a run does comes back to the tick that awaits it *)

\* A schedule's error is caught; a lane's ends the tick and forgets its starts.
afterThrow(r) ==
    CASE tick.run # r          -> tick
      [] tick.pc = "firing"    -> At("schedules", tick.at + 1)
      [] OTHER                 -> Idle

afterReturn(r) ==
    CASE tick.run # r          -> tick
      [] tick.pc = "firing"    -> At("schedules", tick.at + 1)
      [] OTHER                 -> [tick EXCEPT !.pc = "dispatch", !.run = NoRun,
                                               !.active = @ \cup {r}]

RunStep(r) ==
    /\ \/ (Prepare(r) \/ BeginWork(r) \/ BeginEnd(r)) /\ UNCHANGED tick
       \/ (Park(r) \/ FinishEnd(r)) /\ tick' = afterReturn(r)
       \/ runs[r].by \in Throwing /\ StartThrows(r) /\ tick' = afterThrow(r)
    /\ UNCHANGED <<now, enabled, lastFiring, started, laneRuns, selections>>

--------------------------------------------------------------------------------
(* From the control plane *)

\* The first valid selection wins and is recorded before the run it starts;
\* later ones only add context.
onSelection(item, workflow) ==
    /\ item \in selections
    /\ Len(decisions) < MaxDecisions
    /\ workflow \in routeItem(item, Rules \cup listRules, EnabledWorkflows).workflows
    /\ selections' = selections \ {item}
    /\ recordDecision(item, workflow)
    /\ IF claims[item] # NoRun THEN UNCHANGED tableVars
       ELSE \E r \in RunIds : tryClaim(r, item, "selection")
    /\ UNCHANGED <<now, enabled, lastFiring, started, laneRuns, tick, rules, proposals>>

\* A resumed run is awaited by its resumer, not by the tick.
Answer(r) ==
    /\ Resume(r) \/ CancelWaiting(r)
    /\ UNCHANGED schedulingVars

--------------------------------------------------------------------------------
(* Properties *)

\* A slot is fired at most once and in order, whatever crashes happen between
\* recording and starting (fireDueSchedules: "a schedule fires at most once per
\* due slot", durable-workflows.md "never a double fire").
FiredOncePerSlot ==
    \A s \in Range(Schedules) : \A m, n \in DOMAIN started[s] :
        m < n => started[s][m] < started[s][n]

ofLane(l) == {r \in DOMAIN runs : runs[r].by = l /\ occupies(r)}

\* A lane's active runs never exceed its cap, over restarts of the daemon and
\* runs that park ("maxActive cap on simultaneously active runs").
LaneWithinCapacity ==
    \A l \in Range(Lanes) : Cardinality(ofLane(l)) <= capacity(l)
===============================================================================
