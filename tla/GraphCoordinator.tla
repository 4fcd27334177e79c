-------------------------- MODULE GraphCoordinator --------------------------
(***************************************************************************)
(* GraphRunCoordinator (packages/orchestrator/src/graph/coordinator.ts):   *)
(* the durable lifecycle of graph runs.  A run is started for a claimed    *)
(* work item, driven through engine ticks, parked on durable wait rows,    *)
(* resumed when a row is satisfied, cancelled, finalized, and recovered    *)
(* after the daemon died at any point.                                     *)
(*                                                                         *)
(* Granularity.  The daemon is one Node.js process.  Every asynchronous    *)
(* call (start, satisfy -> resume, a due timer, recovery) is a task; a     *)
(* task gives up the processor at an await, so one action is the code      *)
(* between two awaits that another task, or the death of the process, can  *)
(* observe.  Each action makes at most one durable write per table.        *)
(* A wait row is identified by its position in creation order.             *)
(***************************************************************************)
EXTENDS RunLifecycle, GraphTick, Naturals, Sequences, FiniteSets

CONSTANTS
    Runs,        \* run ids the generator can hand out
    Items,       \* work items
    ItemOf,      \* [Runs -> Items]: the item a run is started for
    HumanNodes,  \* nodes whose wait carries a typed human request
    Tasks,       \* asynchronous calls in flight at once (bound)
    Recovery,    \* the task that executes recover()
    MaxWaits,    \* wait rows created in a behaviour (bound)
    MaxCrashes,  \* deaths of the daemon in a behaviour (bound)
    Boot,        \* how a restarted process may begin: "v1" when the v1 Scheduler
                 \* recovers the same tables first, as in the daemon, "list" when
                 \* the coordinator has them to itself
    Env          \* what the environment may do, see EnvFlags

EnvFlags ==
    {"cancel",          \* an operator cancels runs
     "late",            \* a second response arrives for a settled row
     "rearrive",        \* an implicit join re-activates a waiting node
     "raceToEnd",       \* a branch ends the run in the tick another yields a wait
     "driveThrows",     \* an expression of the graph or the agent context throws
     "specDiffers",     \* resume reconciliation finds a changed spec
     "resolveFails",    \* SnapshotResolver.resolve rejects the workflow
     "prepareFails",    \* workspace creation or the first spec build fails
     "fetchFails",      \* work.get or the workspace restore fails on resume
     "checkpointFails"} \* a coding run's checkpoint fails on suspend

ASSUME CoordinatorAssumption ==
    /\ ItemOf \in [Runs -> Items]
    /\ HumanNodes \subseteq Nodes
    /\ Recovery \in Tasks
    /\ MaxWaits \in Nat
    /\ MaxCrashes \in Nat
    /\ Boot \subseteq {"v1", "list"}
    /\ Env \subseteq EnvFlags
    /\ "none" \notin Runs

WaitIds == 1..MaxWaits

VARIABLES
    runs,         \* runs table: the state column, "none" when there is no row
    claims,       \* claims table: the run holding an item, "none" when released
    graphs,       \* run_graphs table
    waits,        \* wait_conditions table
    supplemental, \* wait ids with a supplemental_inputs row
    locks,        \* runLocks: the promise chain of each run, head holds it
    active,       \* the active map: "no", "live" or "aborted"
    pc,           \* where each task is
    job,          \* the local variables of each task
    cancels,      \* the cancel() call in progress on a run
    recovery,     \* progress of recover()
    up,           \* the daemon is running
    crashes,      \* deaths so far
    delivered     \* history: deliveries of each satisfaction to a node

durable == <<runs, claims, graphs, waits, supplemental>>
volatile == <<locks, active, pc, job, cancels, recovery>>
vars == <<durable, volatile, up, crashes, delivered>>

-----------------------------------------------------------------------------
(* Values *)

NoRow == [run |-> "none", node |-> "none", status |-> "none"]
WaitRow == [run : Runs, node : Nodes, status : {"open", "satisfied", "cancelled"}]

\* state is the caller's copy of the run, which may be stale; todo is the set
\* of nodes whose wait rows are still to be inserted.
NoJob == [run |-> "none", sat |-> {}, state |-> "none", graph |-> NoGraph,
          verdict |-> "none", todo |-> {}]
Job == [run : Runs \cup {"none"}, sat : SUBSET WaitIds,
        state : RunState \cup {"none"}, graph : GraphState,
        verdict : RunState \cup {"none"}, todo : SUBSET Nodes]

\* What a task does outside the run lock and what it does holding it.
Outside == {"idle", "claimed", "startQueue", "resumeQueue"}
Driving == {"tick", "persistWaits", "saveState", "suspend", "cancelWaits",
            "releaseClaim", "finish", "failWaits", "failClaim", "failRun"}
Locked == {"queued", "prepare", "running", "fetch", "resumed"} \cup Driving

NoCancel == [pc |-> "no", state |-> "none"]
NoRecovery == [phase |-> "off", todo |-> [r \in Runs |-> "none"]]

-----------------------------------------------------------------------------
(* Repository operations *)

OpenRows(r) == {w \in WaitIds : waits[w].run = r /\ waits[w].status = "open"}
RowsOf(r, n) == {w \in WaitIds : waits[w].run = r /\ waits[w].node = n}
FreeIds == {w \in WaitIds : waits[w].status = "none"}

SaveRun(r, state) == runs' = [runs EXCEPT ![r] = state]

\* Mutant: the UPDATE without its status guard.
trySatisfyWins_Unguarded(w) == waits[w].status # "none"

\* UPDATE ... SET status = 'satisfied' WHERE id = ? AND status = 'open'
trySatisfyWins(w) == waits[w].status = "open"

cancelForRun(r) ==
    waits' = [w \in WaitIds |-> IF w \in OpenRows(r)
                                THEN [waits[w] EXCEPT !.status = "cancelled"]
                                ELSE waits[w]]

releaseClaim(r) ==
    claims' = [i \in Items |-> IF i = ItemOf[r] /\ claims[i] = r
                               THEN "none" ELSE claims[i]]

-----------------------------------------------------------------------------
(* Tasks and the per-run lock *)

Goto(t, label) == pc' = [pc EXCEPT ![t] = label]

\* withRunLock: the promise chain of a run runs its callbacks in order.
Enqueue(t, r) == locks' = [locks EXCEPT ![r] = Append(@, t)]

\* Mutant: the chain is kept but nobody waits for it.
HoldsLock_NoWait(t) == locks[job[t].run] # <<>>

HoldsLock(t) ==
    LET r == job[t].run IN locks[r] # <<>> /\ Head(locks[r]) = t

\* The callback settles: the next one in the chain may run.
Done(t) ==
    /\ Goto(t, "idle")
    /\ job' = [job EXCEPT ![t] = NoJob]
    /\ locks' = [locks EXCEPT ![job[t].run] = Tail(@)]

\* Mutant: the control plane listens before the version 1 scheduler has recovered.
Serving_Early == up

Serving == up /\ recovery.phase # "v1"   \* the control plane is listening

-----------------------------------------------------------------------------
(* start *)

\* GraphScheduler.claimAndStart: tryClaim under a fresh run id, then start.
Claim(t, r) ==
    /\ Serving /\ pc[t] = "idle" /\ t # Recovery
    /\ runs[r] = "none" /\ \A u \in Tasks : job[u].run # r
    /\ claims[ItemOf[r]] = "none"
    /\ claims' = [claims EXCEPT ![ItemOf[r]] = r]
    /\ job' = [job EXCEPT ![t] = [NoJob EXCEPT !.run = r]]
    /\ Goto(t, "claimed")
    /\ UNCHANGED <<runs, graphs, waits, supplemental, locks, active, cancels,
                   recovery, up, crashes, delivered>>

\* start(): the snapshot is resolved before the lock is taken.
ResolveSnapshot(t) ==
    /\ pc[t] = "claimed"
    /\ \/ /\ Enqueue(t, job[t].run)
          /\ Goto(t, "startQueue")
          /\ UNCHANGED job
       \/ /\ "resolveFails" \in Env
          /\ Goto(t, "idle")
          /\ job' = [job EXCEPT ![t] = NoJob]
          /\ UNCHANGED locks
    /\ UNCHANGED <<durable, active, cancels, recovery, up, crashes, delivered>>

SaveQueued(t) ==
    /\ pc[t] = "startQueue" /\ HoldsLock(t)
    /\ SaveRun(job[t].run, "QUEUED")
    /\ Goto(t, "queued")
    /\ UNCHANGED <<claims, graphs, waits, supplemental, locks, active, job,
                   cancels, recovery, up, crashes, delivered>>

ToPreparing(t) ==
    /\ pc[t] = "queued"
    /\ SaveRun(job[t].run, "PREPARING")
    /\ Goto(t, "prepare")
    /\ UNCHANGED <<claims, graphs, waits, supplemental, locks, active, job,
                   cancels, recovery, up, crashes, delivered>>

\* prepareWorkspace and the first specification; both are outside drive()'s
\* try block, so a failure leaves the run and its claim as they are.
Prepare(t) ==
    /\ pc[t] = "prepare"
    /\ \/ /\ graphs' = [graphs EXCEPT ![job[t].run] = initialRunGraphState]
          /\ Goto(t, "running")
          /\ UNCHANGED <<locks, job>>
       \/ /\ "prepareFails" \in Env
          /\ Done(t)
          /\ UNCHANGED graphs
    /\ UNCHANGED <<runs, claims, waits, supplemental, active, cancels, recovery,
                   up, crashes, delivered>>

ToRunning(t) ==
    LET r == job[t].run IN
    /\ pc[t] = "running"
    /\ SaveRun(r, "RUNNING")
    /\ job' = [job EXCEPT ![t] = [@ EXCEPT !.state = "RUNNING",
                                           !.graph = initialRunGraphState]]
    /\ active' = [active EXCEPT ![r] = "live"]
    /\ Goto(t, "tick")
    /\ UNCHANGED <<claims, graphs, waits, supplemental, locks, cancels, recovery,
                   up, crashes, delivered>>

-----------------------------------------------------------------------------
(* satisfy, fireDueTimers and resume *)

ResumeWith(t, r, sat) ==
    /\ job' = [job EXCEPT ![t] = [NoJob EXCEPT !.run = r, !.sat = sat]]
    /\ Enqueue(t, r)
    /\ Goto(t, "resumeQueue")

\* Mutant: a satisfaction that arrives while the run is driven is dropped.
Accept_DropsWhileActive(t, w) ==
    /\ trySatisfyWins(w)
    /\ waits' = [waits EXCEPT ![w].status = "satisfied"]
    /\ IF active[waits[w].run] = "no" THEN ResumeWith(t, waits[w].run, {w})
       ELSE UNCHANGED <<job, locks, pc>>

Accept(t, w) ==
    /\ trySatisfyWins(w)
    /\ waits' = [waits EXCEPT ![w].status = "satisfied"]
    /\ ResumeWith(t, waits[w].run, {w})

\* A valid response to a human wait: the first wins the row and resumes the
\* run, a later one is kept as supplemental input.
Satisfy(t, w) ==
    /\ Serving /\ pc[t] = "idle" /\ t # Recovery
    /\ waits[w].node \in HumanNodes
    /\ \/ Accept(t, w) /\ UNCHANGED supplemental
       \/ /\ "late" \in Env
          /\ ~trySatisfyWins(w)
          /\ supplemental' = supplemental \cup {w}
          /\ UNCHANGED <<waits, job, locks, pc>>
    /\ UNCHANGED <<runs, claims, graphs, active, cancels, recovery, up, crashes,
                   delivered>>

\* The periodic scan finds a due time-wait, or an event answers the node.
FireDueTimer(t, w) ==
    /\ Serving /\ pc[t] = "idle" /\ t # Recovery
    /\ waits[w].node \in Nodes \ HumanNodes
    /\ Accept(t, w)
    /\ UNCHANGED <<runs, claims, graphs, supplemental, active, cancels, recovery,
                   up, crashes, delivered>>

\* resumeRunLocked reads the run and its graph; both must exist.
ReadRun(t) ==
    LET r == job[t].run IN
    /\ pc[t] = "resumeQueue" /\ HoldsLock(t)
    /\ IF runs[r] = "none" \/ ~graphs[r].saved
       THEN Done(t)
       ELSE /\ job' = [job EXCEPT ![t] = [@ EXCEPT !.state = runs[r], !.graph = graphs[r]]]
            /\ Goto(t, "fetch")
            /\ UNCHANGED locks
    /\ UNCHANGED <<durable, active, cancels, recovery, up, crashes, delivered>>

\* work.get, restoreWorkspaceIfNeeded and the reconciliation of the spec: a
\* materially different one saves the graph state read before the fetch.
Fetch(t) ==
    /\ pc[t] = "fetch"
    /\ \/ /\ \/ UNCHANGED graphs
             \/ /\ "specDiffers" \in Env
                /\ graphs' = [graphs EXCEPT ![job[t].run] = job[t].graph]
          /\ Goto(t, "resumed")
          /\ UNCHANGED <<job, locks>>
       \/ /\ "fetchFails" \in Env
          /\ Done(t)
          /\ UNCHANGED graphs
    /\ UNCHANGED <<runs, claims, waits, supplemental, active, cancels, recovery,
                   up, crashes, delivered>>

\* A parked run goes back to RUNNING, judged by the copy read before the
\* fetch; any other run is driven as it is.
BackToRunning(t) ==
    LET r == job[t].run
        parked == job[t].state \in Parked
    IN
    /\ pc[t] = "resumed"
    /\ IF parked THEN SaveRun(r, "RUNNING") ELSE UNCHANGED runs
    /\ job' = [job EXCEPT ![t] = [@ EXCEPT !.state = IF parked THEN "RUNNING" ELSE job[t].state,
                                           !.graph = graphs[r]]]
    /\ active' = [active EXCEPT ![r] = "live"]
    /\ Goto(t, "tick")
    /\ UNCHANGED <<claims, graphs, waits, supplemental, locks, cancels, recovery,
                   up, crashes, delivered>>

-----------------------------------------------------------------------------
(* drive *)

\* Wait ids are a bounded resource of the model: rows other tasks are about
\* to insert are reserved.
Room(t) ==
    Cardinality(FreeIds)
      - Cardinality({p \in (Tasks \ {t}) \X Nodes : p[2] \in job[p[1]].todo})

\* Mutant: no dedupe against open conditions.
NeedsRow_Always(r, n) == TRUE

\* persistWaits skips a node with an open condition.
NeedsRow(r, n) == ~\E w \in OpenRows(r) : waits[w].node = n

\* Mutant: the waiting graph state is saved before its wait rows.
TickTo_SavesFirst(t, verdict, graph, asks, took) ==
    LET missing == {n \in asks : NeedsRow(job[t].run, n)} IN
    /\ Cardinality(missing) <= Room(t)
    /\ graphs' = [graphs EXCEPT ![job[t].run] = graph]
    /\ job' = [job EXCEPT ![t] = [@ EXCEPT !.graph = graph, !.verdict = verdict,
                                           !.todo = missing]]
    /\ delivered' = delivered
    /\ Goto(t, IF verdict = "WAITING" THEN "persistWaits" ELSE "saveState")

\* drive() takes up the outcome of the tick: the wait rows come first, the
\* graph state after them.  took are the nodes handed a satisfaction.
TickTo(t, verdict, graph, asks, took) ==
    LET missing == {n \in asks : NeedsRow(job[t].run, n)} IN
    /\ Cardinality(missing) <= Room(t)
    /\ job' = [job EXCEPT ![t] = [@ EXCEPT !.graph = graph, !.verdict = verdict,
                                           !.todo = missing]]
    /\ delivered' = [w \in WaitIds |->
                        IF w \in job[t].sat /\ waits[w].node \in took /\ delivered[w] < 2
                        THEN delivered[w] + 1 ELSE delivered[w]]
    /\ Goto(t, IF verdict = "WAITING" THEN "persistWaits" ELSE "saveState")
    /\ UNCHANGED graphs

\* The engine runs until it can go no further; asked are the nodes the task
\* has a satisfaction for.
Tick(t) ==
    LET asked == {waits[w].node : w \in job[t].sat} IN
    /\ pc[t] = "tick"
    /\ \E o \in Outcomes(job[t].graph, asked, active[job[t].run] = "aborted", Env) :
         TickTo(t, o.verdict, o.graph, o.asks, o.took)
    /\ UNCHANGED <<runs, claims, waits, supplemental, locks, active, cancels,
                   recovery, up, crashes>>

\* The agent context, or an expression evaluated by the tick, throws into
\* drive()'s catch: nothing of the tick is kept.
DriveThrows(t) ==
    /\ pc[t] = "tick" /\ "driveThrows" \in Env
    /\ Goto(t, "failWaits")
    /\ UNCHANGED <<durable, locks, active, job, cancels, recovery, up, crashes,
                   delivered>>

\* One INSERT; the ids come from the generator in creation order.
PersistWait(t) ==
    /\ pc[t] = "persistWaits"
    /\ \E n \in job[t].todo, w \in FreeIds :
         /\ \A v \in FreeIds : w <= v
         /\ waits' = [waits EXCEPT ![w] = [run |-> job[t].run, node |-> n,
                                           status |-> "open"]]
         /\ job' = [job EXCEPT ![t].todo = @ \ {n}]
    /\ UNCHANGED <<runs, claims, graphs, supplemental, locks, active, pc, cancels,
                   recovery, up, crashes, delivered>>

WaitsPersisted(t) ==
    /\ pc[t] = "persistWaits" /\ job[t].todo = {}
    /\ Goto(t, "saveState")
    /\ UNCHANGED <<durable, locks, active, job, cancels, recovery, up, crashes,
                   delivered>>

SaveState(t) ==
    /\ pc[t] = "saveState"
    /\ graphs' = [graphs EXCEPT ![job[t].run] = job[t].graph]
    /\ Goto(t, IF job[t].verdict = "WAITING" THEN "suspend" ELSE "cancelWaits")
    /\ UNCHANGED <<runs, claims, waits, supplemental, locks, active, job, cancels,
                   recovery, up, crashes, delivered>>

\* drive()'s finally block: the abort controller goes, then the lock.
LeaveDrive(t) ==
    /\ active' = [active EXCEPT ![job[t].run] = "no"]
    /\ Done(t)

\* Mutant: every row of the run counts, not only the open ones.
ParkedState_AnyRow(r) ==
    IF \E w \in WaitIds : waits[w].run = r /\ waits[w].node \in HumanNodes
    THEN "WAITING_FOR_HUMAN" ELSE "WAITING"

\* The parked state the open rows call for.
ParkedState(r) ==
    IF \E w \in OpenRows(r) : waits[w].node \in HumanNodes
    THEN "WAITING_FOR_HUMAN" ELSE "WAITING"

\* Mutant: parking gives the claim back along with the other resources.
Suspend_ReleasesClaim(t) ==
    LET r == job[t].run IN
    /\ pc[t] = "suspend"
    /\ canTransition(job[t].state, ParkedState(r))
    /\ SaveRun(r, ParkedState(r))
    /\ LeaveDrive(t)
    /\ releaseClaim(r)
    /\ UNCHANGED <<graphs, waits, supplemental, cancels, recovery, up, crashes,
                   delivered>>

\* suspend(): the checkpoint, then the transition.  An illegal transition
\* throws into drive()'s catch.
Suspend(t) ==
    LET r == job[t].run
        target == ParkedState(r)
    IN
    /\ pc[t] = "suspend"
    /\ \/ /\ canTransition(job[t].state, target)
          /\ SaveRun(r, target)
          /\ LeaveDrive(t)
       \/ /\ ~canTransition(job[t].state, target) \/ "checkpointFails" \in Env
          /\ Goto(t, "failWaits")
          /\ UNCHANGED <<runs, active, job, locks>>
    /\ UNCHANGED <<claims, graphs, waits, supplemental, cancels, recovery, up,
                   crashes, delivered>>

\* finalize(): cancel open waits, release the claim, clean the workspace up,
\* and only then move the run to its terminal state.
CancelWaits(t) ==
    /\ pc[t] = "cancelWaits"
    /\ cancelForRun(job[t].run)
    /\ Goto(t, "releaseClaim")
    /\ UNCHANGED <<runs, claims, graphs, supplemental, locks, active, job, cancels,
                   recovery, up, crashes, delivered>>

ReleaseClaim(t) ==
    /\ pc[t] = "releaseClaim"
    /\ releaseClaim(job[t].run)
    /\ Goto(t, "finish")
    /\ UNCHANGED <<runs, graphs, waits, supplemental, locks, active, job, cancels,
                   recovery, up, crashes, delivered>>

Finish(t) ==
    /\ pc[t] = "finish"
    /\ IF canTransition(job[t].state, job[t].verdict)
       THEN SaveRun(job[t].run, job[t].verdict) /\ LeaveDrive(t)
       ELSE Goto(t, "failWaits") /\ UNCHANGED <<runs, active, job, locks>>
    /\ UNCHANGED <<claims, graphs, waits, supplemental, cancels, recovery, up,
                   crashes, delivered>>

\* drive()'s catch block mirrors finalize's cleanup.
FailWaits(t) ==
    /\ pc[t] = "failWaits"
    /\ cancelForRun(job[t].run)
    /\ Goto(t, "failClaim")
    /\ UNCHANGED <<runs, claims, graphs, supplemental, locks, active, job, cancels,
                   recovery, up, crashes, delivered>>

\* Mutant: the catch block forgets the claim.
FailClaim_Kept(t) ==
    /\ pc[t] = "failClaim"
    /\ Goto(t, "failRun")
    /\ UNCHANGED <<durable, locks, active, job, cancels, recovery, up, crashes,
                   delivered>>

FailClaim(t) ==
    /\ pc[t] = "failClaim"
    /\ releaseClaim(job[t].run)
    /\ Goto(t, "failRun")
    /\ UNCHANGED <<runs, graphs, waits, supplemental, locks, active, job, cancels,
                   recovery, up, crashes, delivered>>

\* Mutant: FAILED is stored without consulting the transition table.
FailRun_Unchecked(t) ==
    /\ pc[t] = "failRun"
    /\ SaveRun(job[t].run, "FAILED")
    /\ LeaveDrive(t)
    /\ UNCHANGED <<claims, graphs, waits, supplemental, cancels, recovery, up,
                   crashes, delivered>>

FailRun(t) ==
    LET current == runs[job[t].run] IN
    /\ pc[t] = "failRun"
    /\ IF canTransition(current, "FAILED")
       THEN SaveRun(job[t].run, "FAILED") ELSE UNCHANGED runs
    /\ LeaveDrive(t)
    /\ UNCHANGED <<claims, graphs, waits, supplemental, cancels, recovery, up,
                   crashes, delivered>>

-----------------------------------------------------------------------------
(* cancel: takes no run lock *)

Cancel(r) ==
    /\ Serving /\ "cancel" \in Env
    /\ \/ /\ active[r] = "live"
          /\ active' = [active EXCEPT ![r] = "aborted"]
          /\ UNCHANGED cancels
       \/ /\ active[r] = "no" /\ runs[r] \in Parked /\ cancels[r] = NoCancel
          /\ cancels' = [cancels EXCEPT ![r] = [pc |-> "waits", state |-> runs[r]]]
          /\ UNCHANGED active
    /\ UNCHANGED <<durable, locks, pc, job, recovery, up, crashes, delivered>>

CancelRows(r) ==
    /\ cancels[r].pc = "waits"
    /\ cancelForRun(r)
    /\ cancels' = [cancels EXCEPT ![r].pc = "claim"]
    /\ UNCHANGED <<runs, claims, graphs, supplemental, locks, active, pc, job,
                   recovery, up, crashes, delivered>>

CancelClaim(r) ==
    /\ cancels[r].pc = "claim"
    /\ releaseClaim(r)
    /\ cancels' = [cancels EXCEPT ![r].pc = "state"]
    /\ UNCHANGED <<runs, graphs, waits, supplemental, locks, active, pc, job,
                   recovery, up, crashes, delivered>>

CancelState(r) ==
    /\ cancels[r].pc = "state"
    /\ canTransition(cancels[r].state, "CANCELLED")
    /\ SaveRun(r, "CANCELLED")
    /\ cancels' = [cancels EXCEPT ![r] = NoCancel]
    /\ UNCHANGED <<claims, graphs, waits, supplemental, locks, active, pc, job,
                   recovery, up, crashes, delivered>>

-----------------------------------------------------------------------------
(* The death of the daemon, and recovery *)

\* Mutant: the tasks outlive the process, their locals do not.
Crash_KeepsTasks ==
    /\ up /\ crashes < MaxCrashes
    /\ up' = FALSE
    /\ crashes' = crashes + 1
    /\ active' = [r \in Runs |-> "no"]
    /\ job' = [t \in Tasks |-> NoJob]
    /\ cancels' = [r \in Runs |-> NoCancel]
    /\ recovery' = NoRecovery
    /\ UNCHANGED <<durable, locks, pc, delivered>>

Crash ==
    /\ up /\ crashes < MaxCrashes
    /\ up' = FALSE
    /\ crashes' = crashes + 1
    /\ locks' = [r \in Runs |-> <<>>]
    /\ active' = [r \in Runs |-> "no"]
    /\ pc' = [t \in Tasks |-> "idle"]
    /\ job' = [t \in Tasks |-> NoJob]
    /\ cancels' = [r \in Runs |-> NoCancel]
    /\ recovery' = NoRecovery
    /\ UNCHANGED <<durable, delivered>>

Restart ==
    /\ ~up
    /\ up' = TRUE
    /\ \E phase \in Boot : recovery' = [recovery EXCEPT !.phase = phase]
    /\ UNCHANGED <<durable, locks, active, pc, job, cancels, crashes, delivered>>

\* Scheduler.recover of the v1 scheduler, awaited before the control plane is
\* up: every run in progress is marked FAILED and its claim released.
V1Recover ==
    LET interrupted == {r \in Runs : runs[r] # "none" /\ runs[r] # "QUEUED"
                                     /\ ~isTerminal(runs[r])}
    IN
    /\ up /\ recovery.phase = "v1"
    /\ runs' = [r \in Runs |-> IF r \in interrupted THEN "FAILED" ELSE runs[r]]
    /\ claims' = [i \in Items |-> IF claims[i] \in interrupted THEN "none" ELSE claims[i]]
    /\ recovery' = [recovery EXCEPT !.phase = "list"]
    /\ UNCHANGED <<graphs, waits, supplemental, locks, active, pc, job, cancels,
                   up, crashes, delivered>>

RecoverList ==
    /\ up /\ recovery.phase = "list"
    /\ recovery' = [phase |-> "runs",
                    todo |-> [r \in Runs |->
                                IF runs[r] \in Parked \cup {"RUNNING", "PREPARING"}
                                THEN runs[r] ELSE "none"]]
    /\ UNCHANGED <<durable, locks, active, pc, job, cancels, up, crashes, delivered>>

\* reconcileWaitingRun compares the persisted waiting nodes with the rows, both
\* read without the run lock: replay the latest satisfied row of a node with
\* no open one, strip a node that has no row at all.
Unasked(r) == {n \in graphs[r].waiting :
                 ~\E w \in RowsOf(r, n) : waits[w].status = "open"}
Missing(r) == {n \in Unasked(r) : RowsOf(r, n) = {}}
Replays(r) ==
    {w \in WaitIds :
        /\ waits[w].run = r /\ waits[w].status = "satisfied"
        /\ waits[w].node \in Unasked(r)
        /\ \A v \in RowsOf(r, waits[w].node) : waits[v].status = "satisfied" => v <= w}

RecoverRun(r) ==
    LET listed == recovery.todo[r] IN
    /\ up /\ recovery.phase = "runs" /\ pc[Recovery] = "idle"
    /\ listed # "none"
    /\ recovery' = [recovery EXCEPT !.todo[r] = "none"]
    /\ IF listed \in {"RUNNING", "PREPARING"}
       THEN ResumeWith(Recovery, r, {}) /\ UNCHANGED graphs
       ELSE IF Missing(r) = {} /\ Replays(r) = {}
       THEN UNCHANGED <<pc, job, locks, graphs>>
       ELSE /\ graphs' = [graphs EXCEPT ![r].waiting = @ \ Missing(r)]
            /\ ResumeWith(Recovery, r, Replays(r))
    /\ UNCHANGED <<runs, claims, waits, supplemental, active, cancels, up, crashes,
                   delivered>>

\* releaseOrphanedClaims.  A start between tryClaim and the first save of its
\* run does no I/O other than the synchronous database, so the sweep, which
\* does none either, never runs inside that window.
ReleaseOrphanedClaims ==
    /\ up /\ recovery.phase = "runs" /\ pc[Recovery] = "idle"
    /\ \A r \in Runs : recovery.todo[r] = "none"
    /\ \A t \in Tasks : pc[t] \notin {"claimed", "startQueue"}
    /\ claims' = [i \in Items |->
                    IF claims[i] # "none" /\ (runs[claims[i]] = "none" \/ isTerminal(runs[claims[i]]))
                    THEN "none" ELSE claims[i]]
    /\ recovery' = NoRecovery
    /\ UNCHANGED <<runs, graphs, waits, supplemental, locks, active, pc, job,
                   cancels, up, crashes, delivered>>

-----------------------------------------------------------------------------
Init ==
    /\ runs = [r \in Runs |-> "none"]
    /\ claims = [i \in Items |-> "none"]
    /\ graphs = [r \in Runs |-> NoGraph]
    /\ waits = [w \in WaitIds |-> NoRow]
    /\ supplemental = {}
    /\ locks = [r \in Runs |-> <<>>]
    /\ active = [r \in Runs |-> "no"]
    /\ pc = [t \in Tasks |-> "idle"]
    /\ job = [t \in Tasks |-> NoJob]
    /\ cancels = [r \in Runs |-> NoCancel]
    /\ recovery = NoRecovery
    /\ up = TRUE
    /\ crashes = 0
    /\ delivered = [w \in WaitIds |-> 0]

\* The next step of a task already under way.
Continue(t) ==
    \/ ResolveSnapshot(t) \/ SaveQueued(t) \/ ToPreparing(t) \/ Prepare(t)
    \/ ToRunning(t) \/ ReadRun(t) \/ Fetch(t) \/ BackToRunning(t)
    \/ Tick(t) \/ DriveThrows(t) \/ PersistWait(t) \/ WaitsPersisted(t)
    \/ SaveState(t) \/ Suspend(t)
    \/ CancelWaits(t) \/ ReleaseClaim(t) \/ Finish(t)
    \/ FailWaits(t) \/ FailClaim(t) \/ FailRun(t)

Request(t) ==
    \/ \E r \in Runs : Claim(t, r)
    \/ \E w \in WaitIds : Satisfy(t, w) \/ FireDueTimer(t, w)

ContinueCancel(r) == CancelRows(r) \/ CancelClaim(r) \/ CancelState(r)

Recover ==
    \/ V1Recover \/ RecoverList \/ ReleaseOrphanedClaims
    \/ \E r \in Runs : RecoverRun(r)

Next ==
    \/ \E t \in Tasks : Continue(t) \/ Request(t)
    \/ \E r \in Runs : Cancel(r) \/ ContinueCancel(r)
    \/ Recover
    \/ Crash
    \/ Restart

Spec == Init /\ [][Next]_vars

(* Promises settle: a pending task, cancel() and recover() take their next  *)
(* step, and an executor returns within its timeouts; the supervisor        *)
(* restarts the daemon.  Nothing obliges a user to answer or the scheduler  *)
(* to find work.                                                            *)
Fairness ==
    /\ \A t \in Tasks : WF_vars(Continue(t))
    /\ \A r \in Runs : WF_vars(ContinueCancel(r))
    /\ WF_vars(Recover)
    /\ WF_vars(Restart)

FairSpec == Spec /\ Fairness

-----------------------------------------------------------------------------
(* Properties *)

TypeOK ==
    /\ runs \in [Runs -> RunState \cup {"none"}]
    /\ claims \in [Items -> Runs \cup {"none"}]
    /\ graphs \in [Runs -> GraphState]
    /\ waits \in [WaitIds -> WaitRow \cup {NoRow}]
    /\ supplemental \subseteq WaitIds
    /\ locks \in [Runs -> Seq(Tasks)]
    /\ active \in [Runs -> {"no", "live", "aborted"}]
    /\ pc \in [Tasks -> Outside \cup Locked]
    /\ job \in [Tasks -> Job]
    /\ \A t \in Tasks : pc[t] # "idle" => job[t].run \in Runs
    /\ cancels \in [Runs -> [pc : {"no", "waits", "claim", "state"},
                             state : RunState \cup {"none"}]]
    /\ recovery \in [phase : {"off", "v1", "list", "runs"},
                     todo : [Runs -> RunState \cup {"none"}]]
    /\ up \in BOOLEAN
    /\ crashes \in 0..MaxCrashes
    /\ delivered \in [WaitIds -> 0..2]

\* Concurrent satisfactions, timers, starts and recovery never drive one run
\* at the same time: withRunLock serializes them (coordinator.ts, runLocks).
OneDriverPerRun ==
    \A t, u \in Tasks :
        t # u /\ pc[t] \in Locked /\ pc[u] \in Locked => job[t].run # job[u].run

\* A node never has two open conditions, however often the tick that asks is
\* replayed after a crash or re-entered by a join (persistWaits' dedupe).
OneOpenWait ==
    \A r \in Runs, n \in Nodes :
        \A v, w \in OpenRows(r) \cap RowsOf(r, n) : v = w

\* Wait rows land before the graph state that needs them: a parked run never
\* waits at a node that has no row somebody could have answered.
WaitsBeforeState ==
    \A r \in Runs : runs[r] \in Parked =>
        \A n \in graphs[r].waiting : RowsOf(r, n) # {}

\* The first response wins and a settled condition never changes again, not
\* by a late response, a timer, a cancellation or a replay.
FirstResponseWins ==
    [][\A w \in WaitIds :
          waits[w].status \in {"satisfied", "cancelled"} => waits'[w] = waits[w]]_waits

\* Nobody is working on run r and recovery is over.
Unattended(r) ==
    /\ up /\ recovery.phase = "off"
    /\ cancels[r] = NoCancel
    /\ \A t \in Tasks : job[t].run # r

\* A parked run at rest waits for something, and every waiting node has an
\* open condition that can still be answered: the run is not stuck.
NoRunStranded ==
    \A r \in Runs : Unattended(r) /\ runs[r] \in Parked =>
        /\ graphs[r].waiting # {}
        /\ \A n \in graphs[r].waiting : OpenRows(r) \cap RowsOf(r, n) # {}

\* A question shown to a user belongs to a node that still waits for it.
NoOrphanQuestion ==
    \A r \in Runs : Unattended(r) =>
        \A w \in OpenRows(r) : waits[w].node \in graphs[r].waiting

\* WAITING_FOR_HUMAN exactly when an open condition carries a human request.
ParkedStateMatchesRows ==
    \A r \in Runs : Unattended(r) /\ runs[r] \in Parked =>
        (runs[r] = "WAITING_FOR_HUMAN" <=>
            \E w \in OpenRows(r) : waits[w].node \in HumanNodes)

\* A terminal run leaks neither its item's claim nor open questions.
TerminalLeavesNothing ==
    \A r \in Runs : Unattended(r) /\ isTerminal(runs[r]) =>
        claims[ItemOf[r]] # r /\ OpenRows(r) = {}

\* Every change of a run's stored state is in the transition table.
LegalChange ==
    \A r \in Runs : runs'[r] # runs[r] =>
        IF runs[r] = "none" THEN runs'[r] = "QUEUED" ELSE canTransition(runs[r], runs'[r])
LegalTransitions == [][LegalChange]_runs

\* A parked run stays so until somebody with an answer to it, or the recovery of a restart,
\* has it in hand; but for that an operator cancels it, or the version 1 scheduler of a
\* booting daemon fails it, which it does before anybody can be at work on it. An answer
\* accepted while that recovery ran, or a resumption left over from before a crash, would
\* drive a run that has failed.
ParkedUntilAnswered ==
    [][\A r \in Runs : runs[r] \in Parked /\ runs'[r] # runs[r] =>
          \/ /\ runs'[r] = "RUNNING"
             /\ \E t \in Tasks :
                   /\ pc[t] = "resumed" /\ job[t].run = r /\ HoldsLock(t)
                   /\ \/ t = Recovery
                      \/ \E w \in job[t].sat : waits[w].run = r /\ waits[w].status = "satisfied"
          \/ runs'[r] = "CANCELLED" /\ cancels[r].pc = "state"
          \/ /\ runs'[r] = "FAILED" /\ recovery.phase = "v1"
             /\ \A t \in Tasks : pc[t] = "idle"]_runs

\* A parked run is resumed or cancelled; a restart leaves it where it is.
ParkedRunSurvivesRestart ==
    [][\A r \in Runs : runs[r] \in Parked /\ runs'[r] # runs[r] =>
          runs'[r] \in {"RUNNING", "CANCELLED"}]_runs

\* Two runs in progress never execute the same work item concurrently.
OneLiveRunPerItem ==
    \A t, u \in Tasks :
        /\ pc[t] = "tick" /\ ~isTerminal(job[t].state)
        /\ pc[u] = "tick" /\ ~isTerminal(job[u].state)
        /\ ItemOf[job[t].run] = ItemOf[job[u].run]
        => job[t].run = job[u].run

\* What users see of the rows and the ticks: an open row is a question, a satisfied
\* one is answered until a tick hands its value to the node.
Asked(w) ==
    [run |-> waits[w].run, node |-> waits[w].node,
     status |-> CASE waits[w].status = "satisfied" /\ delivered[w] = 0 -> "answered"
                  [] waits[w].status = "satisfied" /\ delivered[w] = 1 -> "delivered"
                  [] waits[w].status = "satisfied" /\ delivered[w] > 1 -> "delivered twice"
                  [] waits[w].status = "cancelled" -> "withdrawn"
                  [] OTHER -> waits[w].status]

Promise == INSTANCE DurableQuestions WITH
    Questions <- WaitIds, question <- [w \in WaitIds |-> Asked(w)]

\* The coordinator keeps the promise of durable waits: one question per node at a
\* time, settled by its first answer, which reaches the node that asked, once, and
\* is never applied to a question asked later.
QuestionsKept == Promise!Spec

\* An accepted response is eventually given to the node that asked, unless
\* the run ends.
AnswerReachesNode ==
    \A w \in WaitIds :
        waits[w].status = "satisfied" ~>
            delivered[w] > 0 \/ (\E r \in Runs : waits[w].run = r /\ isTerminal(runs[r]))
=============================================================================
