--------------------------------- MODULE Daemon ---------------------------------
(***************************************************************************)
(* The daemon: boot, the version 1 scheduler, what the control plane       *)
(* starts by hand, the graph tick, shutdown, and a crash at any moment.    *)
(***************************************************************************)
EXTENDS GraphScheduler

CONSTANTS
    ItemData,           \* what eligibility looks at, per item
    Definitions,        \* the version 1 workflows, in their order
    maxConcurrentRuns,
    ByHand,             \* the items people start by hand
    MaxCrashes          \* bound: how often the process ends, by a crash or a shutdown

ASSUME CapAssumption == maxConcurrentRuns \in Nat

VARIABLES
    phase,      \* "down", "v1" (scheduler started), "up", "stopping", "stopped"
    running,    \* Scheduler.running: the runs it started and counts
    crashes

processVars == <<phase, running, crashes>>
vars == <<tableVars, routingVars, schedulingVars, processVars>>

Init ==
    /\ TableInit
    /\ RoutingInit
    /\ SchedulingInit
    /\ phase = "down"
    /\ running = {}
    /\ crashes = 0

--------------------------------------------------------------------------------
(* Boot and shutdown *)

\* Scheduler.start recovers before it polls.
Start ==
    /\ phase = "down"
    /\ recover
    /\ phase' = "v1"
    /\ UNCHANGED <<routingVars, schedulingVars, running, crashes>>

\* The control plane and the graph tick come after the first version 1 tick.
ServeControlPlane ==
    /\ phase = "v1"
    /\ phase' = "up"
    /\ UNCHANGED <<tableVars, routingVars, schedulingVars, running, crashes>>

\* No new graph tick; the one under way goes on, and so do the runs. Aborting
\* them only makes them end.
Shutdown ==
    /\ phase = "up"
    /\ crashes < MaxCrashes
    /\ phase' = "stopping"
    /\ UNCHANGED <<tableVars, routingVars, schedulingVars, running, crashes>>

StopScheduler ==
    /\ phase = "stopping"
    /\ phase' = "stopped"
    /\ UNCHANGED <<tableVars, routingVars, schedulingVars, running, crashes>>

\* A crash, or the exit once the runs the scheduler counts have settled. What
\* the graph runtime and the control plane started is not waited for.
ProcessEnds ==
    /\ phase # "down"
    /\ crashes < MaxCrashes
    /\ Lost
    /\ tick' = Idle
    /\ phase' = "down"
    /\ running' = {}
    /\ crashes' = crashes + 1
    /\ UNCHANGED <<routingVars, now, enabled, lastFiring, started, laneRuns, selections>>

--------------------------------------------------------------------------------
(* The version 1 scheduler and runs started by hand *)

\* Ticks may overlap; each checks the cap and the stop before every item.
SchedulerDispatch(item) ==
    /\ phase \in {"v1", "up", "stopping"}
    /\ Cardinality(running) < maxConcurrentRuns
    /\ selectWorkflow(ItemData[item], Definitions) # "none"
    /\ \E r \in RunIds :
        /\ tryClaim(r, item, "scheduler")
        /\ running' = running \cup {r}
    /\ UNCHANGED <<routingVars, schedulingVars, phase, crashes>>

\* triggerRun, or retryRun of an item whose run has ended.
Launch(item) ==
    /\ phase = "up"
    /\ item \in ByHand
    /\ \E r \in RunIds : tryClaim(r, item, "manual")
    /\ UNCHANGED <<routingVars, schedulingVars, processVars>>

--------------------------------------------------------------------------------

Up == phase # "down"

RunOn(r) ==
    /\ Up
    /\ RunStep(r)
    /\ running' = IF exec'[r] = "no" THEN running \ {r} ELSE running
    /\ UNCHANGED <<routingVars, phase, crashes>>

Tick ==
    /\ \/ phase = "up" /\ BeginTick /\ UNCHANGED tableVars
       \/ Up /\ (fireDueSchedules \/ dispatchLanes)
    /\ UNCHANGED <<routingVars, processVars>>

People ==
    /\ phase = "up"
    /\ \/ \E i \in Items, w \in Workflows : onSelection(i, w)
       \/ (\E r \in RunIds : Answer(r)) /\ UNCHANGED routingVars
       \/ RoutingNext /\ UNCHANGED <<tableVars, schedulingVars>>
    /\ UNCHANGED processVars

Clock == TimePasses /\ UNCHANGED <<tableVars, routingVars, processVars>>

Next ==
    \/ Start \/ ServeControlPlane \/ Shutdown \/ StopScheduler \/ ProcessEnds
    \/ \E i \in Items : SchedulerDispatch(i) \/ Launch(i)
    \/ \E r \in RunIds : RunOn(r)
    \/ Tick \/ People \/ Clock

Spec == Init /\ [][Next]_vars

\* The timers of the process fire, and what a run awaits comes: it parks or ends.
Fairness ==
    /\ WF_vars(Start) /\ WF_vars(ServeControlPlane) /\ WF_vars(Tick)
    /\ \A r \in RunIds : WF_vars(RunOn(r))

FairSpec == Spec /\ Fairness

--------------------------------------------------------------------------------

\* The version 1 scheduler keeps to its cap although its ticks may overlap, and
\* a run it counts is one it started and that still holds its item.
WithinMaxConcurrentRuns ==
    /\ Cardinality(running) <= maxConcurrentRuns
    /\ \A r \in running : runs[r].by = "scheduler" /\ claims[runs[r].item] = r

\* No limit is exceeded: the capacity of a lane, over starts that throw and restarts, and
\* the limit of concurrent runs of the scheduler, which its timer and the operator share.
CapacityKept == LaneWithinCapacity /\ WithinMaxConcurrentRuns

\* The daemon catches up: whatever is due is fired, through crashes and restarts,
\* unless it is shut down. Neither a schedule that does not parse, nor one whose
\* start throws, nor the runs the tick waits for keep it back for ever ("downtime
\* collapses to a single catch-up firing").
behind == \E s \in enabled \cap DOMAIN parsed : dueOf(s) \notin {Never, Throws}

CatchesUp ==
    []<>(\/ ~behind
         \/ phase \in {"stopping", "stopped"}
         \/ \A r \in RunIds : ~unused(r))
===============================================================================
