----------------------- MODULE GraphCoordinatorProofs -----------------------
(***************************************************************************)
(* Safety of GraphCoordinator for every set of runs, items, nodes, tasks   *)
(* and wait rows, every number of crashes and every environment.           *)
(***************************************************************************)
EXTENDS GraphCoordinator, TLAPS

-----------------------------------------------------------------------------
(* Typing *)

\* A satisfaction in a task's hands names a row of the table.
HeldRowsExist ==
    \A t \in Tasks : \A w \in job[t].sat : waits[w] \in WaitRow

Typing == TypeOK /\ HeldRowsExist

\* Whoever works on a run inside withRunLock is at the head of its chain.
LockHolders == \A t \in Tasks : pc[t] \in Locked => HoldsLock(t)

USE DEF Outside, Locked, Driving

LEMMA RowType ==
    ASSUME NEW row \in WaitRow \cup {NoRow}, row.status # "none",
           NEW status \in {"open", "satisfied", "cancelled"}
    PROVE  /\ row \in WaitRow
           /\ [row EXCEPT !.status = status] \in WaitRow
           /\ [row EXCEPT !.status = status].run = row.run
           /\ [row EXCEPT !.status = status].node = row.node
  BY DEF WaitRow, NoRow

LEMMA TypingInit == Init => Typing
<1> SUFFICES ASSUME Init PROVE Typing
  OBVIOUS
<1>1. NoGraph \in GraphState /\ NoJob \in Job /\ NoCancel \in [pc : {"no", "waits", "claim", "state"},
                             state : RunState \cup {"none"}]
  BY DEF NoGraph, GraphState, NoJob, Job, NoCancel
<1>2. NoRecovery \in [phase : {"off", "v1", "list", "runs"},
                      todo : [Runs -> RunState \cup {"none"}]]
  BY DEF NoRecovery
<1>3. HeldRowsExist
  BY DEF Init, HeldRowsExist, NoJob
<1>4. 0 \in 0..MaxCrashes
  BY CoordinatorAssumption
<1>5. \A r \in Runs : <<>> \in Seq(Tasks)
  OBVIOUS
<1> QED BY <1>1, <1>2, <1>3, <1>4, <1>5 DEF Init, TypeOK, Typing

-----------------------------------------------------------------------------
\* What the coordinator relies on in an outcome of the engine: its type; only a
\* suspension asks; and, unless a parallel branch may end the run in the tick
\* in which another yields a wait, a waiting node was waiting before or asks.
LEMMA OutcomeType ==
    ASSUME NEW g \in GraphState, NEW asked \in SUBSET Nodes, NEW aborted \in BOOLEAN,
           NEW o \in Outcomes(g, asked, aborted, Env)
    PROVE  /\ o.verdict \in RunState /\ o.graph \in GraphState /\ o.asks \in SUBSET Nodes
           /\ o.asks # {} => o.verdict = "WAITING"
           /\ "raceToEnd" \notin Env => o.graph.waiting \subseteq g.waiting \cup o.asks
<1>1. /\ g.waiting \subseteq Nodes
      /\ Met(g, asked) \subseteq g.waiting
      /\ \A s \in Stay(g, asked, Env) : s \subseteq g.waiting
      /\ \A s \in New(g, asked, Env) : s \subseteq Nodes
      /\ \A s \in Echo(g, asked) : s \subseteq Nodes
      /\ \A s \in Gone(Env) : s \subseteq Nodes
  BY DEF GraphState, Met, Kept, Stay, New, Echo, Gone
<1>2. ASSUME NEW a \in SUBSET Nodes, NEW w \in SUBSET Nodes
      PROVE  Ticked(a, w) \in GraphState /\ Ticked(a, w).waiting = w
  BY DEF Ticked, GraphState
<1>3. CASE o \in Stopped(g, asked, aborted, Env)
  <2> DEFINE X == [verdict : Verdicts(aborted), stay : Stay(g, asked, Env),
                   left : Left(g, asked, aborted), new : Raced(g, asked, Env),
                   rest : SUBSET Nodes, echo : Echo(g, asked)]
             W(x) == x.stay \cup x.left \cup x.new
             Took(x) == (Met(g, asked) \ x.left) \cup x.echo
  <2>1. PICK x \in X : o = Outcome(x.verdict, Ticked(W(x) \cup x.rest, W(x)), {}, Took(x))
    BY <1>3, Zenon DEF Stopped
  <2>2. x.verdict \in RunState /\ x.left \subseteq g.waiting /\ x.rest \subseteq Nodes
    BY <1>1 DEF RunState, Verdicts, Left
  <2>3. x.new \subseteq Nodes /\ ("raceToEnd" \notin Env => x.new = {})
    BY <1>1 DEF Raced
  <2>4. x.stay \subseteq g.waiting
    BY <1>1
  <2> HIDE DEF X
  <2>5. /\ W(x) \in SUBSET Nodes /\ W(x) \cup x.rest \in SUBSET Nodes
        /\ "raceToEnd" \notin Env => W(x) \subseteq g.waiting
    BY <1>1, <2>2, <2>3, <2>4
  <2>6. o.verdict = x.verdict /\ o.asks = {} /\ o.graph = Ticked(W(x) \cup x.rest, W(x))
    BY <2>1 DEF Outcome
  <2> HIDE DEF W
  <2> QED BY <1>2, <2>2, <2>5, <2>6
<1>4. CASE o \in Quiescent(g, asked, Env)
  <2> DEFINE X == [stay : Stay(g, asked, Env), new : New(g, asked, Env),
                   echo : Echo(g, asked), gone : Gone(Env)]
             W(x) == x.stay \cup x.new
             A(x) == x.new \cup x.echo \cup x.gone
  <2>1. PICK x \in X : o = Outcome("WAITING", Ticked(W(x), W(x)),
                                   ReportedWaits(A(x), Met(g, asked)), Met(g, asked) \cup x.echo)
    BY <1>4, Zenon DEF Quiescent
  <2>2. /\ x.stay \subseteq g.waiting /\ x.new \subseteq Nodes
        /\ x.echo \subseteq Nodes /\ x.gone \subseteq Nodes
    BY <1>1
  <2> HIDE DEF X
  <2>3. W(x) \in SUBSET Nodes /\ A(x) \in SUBSET Nodes /\ W(x) \subseteq g.waiting \cup A(x)
    BY <1>1, <2>2
  <2>4. o.verdict = "WAITING" /\ o.asks = A(x) /\ o.graph = Ticked(W(x), W(x))
    BY <2>1 DEF Outcome, ReportedWaits
  <2> HIDE DEF W, A
  <2> QED BY <1>2, <2>3, <2>4 DEF RunState
<1>5. CASE o = Idle(g)
  BY <1>5 DEF Idle, Outcome, RunState
<1>6. CASE aborted
  BY <1>3, <1>6 DEF Outcomes
<1>7. CASE ~aborted
  BY <1>3, <1>4, <1>5, <1>7 DEF Outcomes
<1> QED BY <1>6, <1>7

\* drive() takes up such an outcome.
LEMMA TickTakes ==
    ASSUME Typing, NEW t \in Tasks, Tick(t)
    PROVE  \E verdict \in RunState, graph \in GraphState, asks \in SUBSET Nodes :
             /\ \E took : TickTo(t, verdict, graph, asks, took)
             /\ "raceToEnd" \notin Env => graph.waiting \subseteq job[t].graph.waiting \cup asks
             /\ asks # {} => verdict = "WAITING"
<1> DEFINE asked == {waits[w].node : w \in job[t].sat}
           aborted == active[job[t].run] = "aborted"
<1>1. job[t].graph \in GraphState /\ asked \in SUBSET Nodes /\ aborted \in BOOLEAN
  BY DEF Typing, TypeOK, HeldRowsExist, Job, WaitRow, GraphState
<1>2. PICK o \in Outcomes(job[t].graph, asked, aborted, Env) :
         TickTo(t, o.verdict, o.graph, o.asks, o.took)
  BY DEF Tick
<1> HIDE DEF asked, aborted
<1> QED BY <1>1, <1>2, OutcomeType

LEMMA TickToType ==
    ASSUME Typing, NEW t \in Tasks, pc[t] # "idle",
           NEW verdict \in RunState, NEW graph \in GraphState,
           NEW asks \in SUBSET Nodes, NEW took,
           TickTo(t, verdict, graph, asks, took),
           UNCHANGED <<runs, claims, waits, supplemental, locks, active, cancels,
                       recovery, up, crashes>>
    PROVE  Typing'
<1>1. /\ job' \in [Tasks -> Job] /\ job'[t].run = job[t].run /\ job'[t].sat = job[t].sat
      /\ \A u \in Tasks \ {t} : job'[u] = job[u]
  <2> DEFINE missing == {n \in asks : NeedsRow(job[t].run, n)}
             J == [job[t] EXCEPT !.graph = graph, !.verdict = verdict, !.todo = missing]
  <2>1. job[t] \in Job /\ missing \in SUBSET Nodes
    BY DEF Typing, TypeOK
  <2>2. J \in Job /\ J.run = job[t].run /\ J.sat = job[t].sat
    BY <2>1 DEF Job
  <2>3. job' = [job EXCEPT ![t] = J]
    BY DEF TickTo
  <2> QED BY <2>2, <2>3 DEF Typing, TypeOK
<1>2. delivered' \in [WaitIds -> 0..2]
  BY DEF Typing, TypeOK, TickTo
<1>3. pc' \in [Tasks -> Outside \cup Locked] /\ \A u \in Tasks \ {t} : pc'[u] = pc[u]
  BY DEF Typing, TypeOK, TickTo, Goto
<1>4. graphs' = graphs
  BY DEF TickTo
<1> QED BY <1>1, <1>2, <1>3, <1>4 DEF Typing, TypeOK, HeldRowsExist

\* The shapes a step gives to the lock, the program counters and the locals.
LEMMA DoneType ==
    ASSUME Typing, NEW t \in Tasks, pc[t] # "idle", HoldsLock(t), Done(t)
    PROVE  /\ locks' \in [Runs -> Seq(Tasks)]
           /\ pc' = [pc EXCEPT ![t] = "idle"]
           /\ job' = [job EXCEPT ![t] = NoJob]
           /\ pc' \in [Tasks -> Outside \cup Locked]
           /\ job' \in [Tasks -> Job]
           /\ \A u \in Tasks : pc'[u] # "idle" => job'[u].run \in Runs
           /\ \A u \in Tasks : job'[u].sat \subseteq job[u].sat
<1>1. Tail(locks[job[t].run]) \in Seq(Tasks)
  BY DEF Typing, TypeOK, HoldsLock
<1>2. NoJob \in Job /\ NoJob.sat = {}
  BY DEF NoJob, Job, GraphState, NoGraph
<1> QED BY <1>1, <1>2 DEF Typing, TypeOK, Done, Goto

LEMMA ResumeWithType ==
    ASSUME Typing, NEW t \in Tasks, NEW r \in Runs, NEW sat \in SUBSET WaitIds,
           ResumeWith(t, r, sat)
    PROVE  /\ locks' \in [Runs -> Seq(Tasks)]
           /\ pc' \in [Tasks -> Outside \cup Locked]
           /\ job' \in [Tasks -> Job]
           /\ \A u \in Tasks : pc'[u] # "idle" => job'[u].run \in Runs
           /\ \A u \in Tasks \ {t} : job'[u] = job[u]
           /\ job'[t].sat = sat
<1> DEFINE J == [NoJob EXCEPT !.run = r, !.sat = sat]
<1>1. J \in Job /\ J.run = r /\ J.sat = sat
  BY DEF NoJob, Job, GraphState, NoGraph
<1>2. Append(locks[r], t) \in Seq(Tasks)
  BY DEF Typing, TypeOK
<1> QED BY <1>1, <1>2 DEF Typing, TypeOK, ResumeWith, Enqueue, Goto

LEMMA CancelForRunType ==
    ASSUME Typing, NEW r \in Runs, cancelForRun(r)
    PROVE  /\ waits' \in [WaitIds -> WaitRow \cup {NoRow}]
           /\ \A w \in WaitIds : waits[w] \in WaitRow => waits'[w] \in WaitRow
<1>1. \A w \in OpenRows(r) : [waits[w] EXCEPT !.status = "cancelled"] \in WaitRow
  BY RowType DEF Typing, TypeOK, OpenRows
<1> QED BY <1>1 DEF Typing, TypeOK, cancelForRun, OpenRows

LEMMA ReleaseClaimType ==
    ASSUME Typing, NEW r \in Runs, releaseClaim(r)
    PROVE  claims' \in [Items -> Runs \cup {"none"}]
  BY DEF Typing, TypeOK, releaseClaim

LEMMA AcceptType ==
    ASSUME Typing, NEW t \in Tasks, NEW w \in WaitIds, Accept(t, w)
    PROVE  /\ waits' \in [WaitIds -> WaitRow \cup {NoRow}]
           /\ \A v \in WaitIds : waits[v] \in WaitRow => waits'[v] \in WaitRow
           /\ waits'[w] \in WaitRow
           /\ ResumeWith(t, waits[w].run, {w})
           /\ waits[w].run \in Runs
<1> DEFINE row == [waits[w] EXCEPT !.status = "satisfied"]
<1>1. waits[w] \in WaitRow /\ row \in WaitRow
  BY RowType DEF Typing, TypeOK, Accept, trySatisfyWins
<1>2. waits \in [WaitIds -> WaitRow \cup {NoRow}] /\ waits' = [waits EXCEPT ![w] = row]
  BY DEF Typing, TypeOK, Accept
<1>3. waits[w].run \in Runs
  BY <1>1 DEF WaitRow
<1> HIDE DEF row
<1>4. /\ waits' \in [WaitIds -> WaitRow \cup {NoRow}] /\ waits'[w] = row
      /\ \A v \in WaitIds \ {w} : waits'[v] = waits[v]
  BY <1>1, <1>2
<1>5. ResumeWith(t, waits[w].run, {w})
  BY DEF Accept
<1> QED BY <1>1, <1>3, <1>4, <1>5

\* Frame: a step that leaves the locals alone keeps them typed.
LEMMA SameJobs ==
    ASSUME Typing, UNCHANGED job, NEW t \in Tasks, NEW label \in Locked, pc[t] # "idle",
           Goto(t, label)
    PROVE  /\ pc' \in [Tasks -> Outside \cup Locked]
           /\ job' \in [Tasks -> Job]
           /\ \A u \in Tasks : pc'[u] # "idle" => job'[u].run \in Runs
           /\ \A u \in Tasks : job'[u].sat = job[u].sat
<1>1. pc \in [Tasks -> Outside \cup Locked] /\ pc' = [pc EXCEPT ![t] = label]
  BY DEF Typing, TypeOK, Goto
<1>2. pc' \in [Tasks -> Outside \cup Locked] /\ \A u \in Tasks \ {t} : pc'[u] = pc[u]
  BY <1>1
<1> QED BY <1>2 DEF Typing, TypeOK

\* A task's locals change in place.
LEMMA NewJob ==
    ASSUME Typing, NEW t \in Tasks, NEW J \in Job, J.run = job[t].run, J.sat = job[t].sat,
           job' = [job EXCEPT ![t] = J], pc[t] # "idle",
           \/ UNCHANGED pc
           \/ \E label \in Locked : Goto(t, label)
    PROVE  /\ pc' \in [Tasks -> Outside \cup Locked]
           /\ job' \in [Tasks -> Job]
           /\ \A u \in Tasks : pc'[u] # "idle" => job'[u].run \in Runs
           /\ \A u \in Tasks : job'[u].sat = job[u].sat
<1>1. job' \in [Tasks -> Job]
  BY DEF Typing, TypeOK
<1>2. pc' \in [Tasks -> Outside \cup Locked] /\ \A u \in Tasks \ {t} : pc'[u] = pc[u]
  <2>1. pc \in [Tasks -> Outside \cup Locked]
    BY DEF Typing, TypeOK
  <2>2. CASE UNCHANGED pc
    BY <2>1, <2>2
  <2>3. CASE \E label \in Locked : Goto(t, label)
    <3>1. PICK label \in Locked : pc' = [pc EXCEPT ![t] = label]
      BY <2>3 DEF Goto
    <3> QED BY <2>1, <3>1
  <2> QED BY <2>2, <2>3
<1>3. job'[t] = J /\ \A u \in Tasks \ {t} : job'[u] = job[u]
  BY DEF Typing, TypeOK
<1> QED BY <1>1, <1>2, <1>3 DEF Typing, TypeOK

LEMMA LeaveDriveType ==
    ASSUME Typing, NEW t \in Tasks, pc[t] # "idle", HoldsLock(t), LeaveDrive(t)
    PROVE  /\ Done(t)
           /\ active' \in [Runs -> {"no", "live", "aborted"}]
  BY DEF Typing, TypeOK, LeaveDrive

LEMMA ContinueType ==
    ASSUME Typing, LockHolders, NEW t \in Tasks, Continue(t)
    PROVE  Typing'
<1>0. /\ pc[t] \in Locked => HoldsLock(t) /\ job[t].run \in Runs
      /\ pc[t] # "idle" => job[t].run \in Runs
      /\ job[t] \in Job
  BY DEF LockHolders, Typing, TypeOK
<1>1. CASE ResolveSnapshot(t)
  <2>1. pc[t] # "idle" /\ job[t].run \in Runs
    BY <1>0, <1>1 DEF ResolveSnapshot
  <2>2. CASE Enqueue(t, job[t].run) /\ Goto(t, "startQueue") /\ UNCHANGED job
    <3>1. locks' \in [Runs -> Seq(Tasks)]
      BY <2>1, <2>2 DEF Enqueue, Typing, TypeOK
    <3>2. pc' \in [Tasks -> Outside \cup Locked] /\ \A u \in Tasks : pc'[u] # "idle" => pc[u] # "idle"
      BY <2>1, <2>2 DEF Goto, Typing, TypeOK
    <3> QED BY <1>1, <2>2, <3>1, <3>2 DEF ResolveSnapshot, Typing, TypeOK, HeldRowsExist, durable
  <2>3. CASE Goto(t, "idle") /\ job' = [job EXCEPT ![t] = NoJob] /\ UNCHANGED locks
    <3>1. NoJob \in Job /\ NoJob.sat = {}
      BY DEF NoJob, Job, GraphState, NoGraph
    <3>2. /\ job' \in [Tasks -> Job] /\ job'[t].sat = {} /\ \A u \in Tasks \ {t} : job'[u] = job[u]
      BY <2>3, <3>1 DEF Typing, TypeOK
    <3>3. pc' \in [Tasks -> Outside \cup Locked] /\ pc'[t] = "idle" /\ \A u \in Tasks \ {t} : pc'[u] = pc[u]
      BY <2>3 DEF Goto, Typing, TypeOK
    <3> QED BY <1>1, <2>3, <3>2, <3>3 DEF ResolveSnapshot, Typing, TypeOK, HeldRowsExist, durable
  <2> QED BY <1>1, <2>2, <2>3 DEF ResolveSnapshot
<1>2. CASE SaveQueued(t)
  <2>1. UNCHANGED job /\ pc[t] # "idle" /\ Goto(t, "queued")
    BY <1>2 DEF SaveQueued
  <2>2. runs' \in [Runs -> RunState \cup {"none"}]
    BY <1>2 DEF SaveQueued, SaveRun, RunState, Typing, TypeOK
  <2> QED BY <1>2, <2>1, <2>2, SameJobs DEF SaveQueued, Typing, TypeOK, HeldRowsExist
<1>3. CASE ToPreparing(t)
  <2>1. UNCHANGED job /\ pc[t] # "idle" /\ Goto(t, "prepare")
    BY <1>3 DEF ToPreparing
  <2>2. runs' \in [Runs -> RunState \cup {"none"}]
    BY <1>3 DEF ToPreparing, SaveRun, RunState, Typing, TypeOK
  <2> QED BY <1>3, <2>1, <2>2, SameJobs DEF ToPreparing, Typing, TypeOK, HeldRowsExist
<1>4. CASE Prepare(t)
  <2>1. pc[t] # "idle" /\ HoldsLock(t)
    BY <1>0, <1>4 DEF Prepare
  <2>2. CASE Done(t) /\ UNCHANGED graphs
    BY <1>4, <2>1, <2>2, DoneType DEF Prepare, Typing, TypeOK, HeldRowsExist
  <2>3. CASE /\ graphs' = [graphs EXCEPT ![job[t].run] = initialRunGraphState]
             /\ Goto(t, "running") /\ UNCHANGED <<locks, job>>
    <3>1. graphs' \in [Runs -> GraphState]
      BY <2>3 DEF initialRunGraphState, NoGraph, GraphState, Typing, TypeOK
    <3> QED BY <1>4, <2>1, <2>3, <3>1, SameJobs DEF Prepare, Typing, TypeOK, HeldRowsExist
  <2> QED BY <1>4, <2>2, <2>3 DEF Prepare
<1>5. CASE ToRunning(t)
  <2> DEFINE J == [job[t] EXCEPT !.state = "RUNNING", !.graph = initialRunGraphState]
  <2>1. initialRunGraphState \in GraphState /\ "RUNNING" \in RunState
    BY DEF initialRunGraphState, NoGraph, GraphState, RunState
  <2>2. J \in Job /\ J.run = job[t].run /\ J.sat = job[t].sat
    BY <1>0, <2>1 DEF Job
  <2>3. job' = [job EXCEPT ![t] = J] /\ Goto(t, "tick") /\ pc[t] # "idle"
    BY <1>5 DEF ToRunning
  <2>4. /\ runs' \in [Runs -> RunState \cup {"none"}]
        /\ active' \in [Runs -> {"no", "live", "aborted"}]
    BY <1>5, <2>1 DEF ToRunning, SaveRun, Typing, TypeOK
  <2> HIDE DEF J
  <2> QED BY <1>5, <2>2, <2>3, <2>4, NewJob DEF ToRunning, Typing, TypeOK, HeldRowsExist
<1>6. CASE ReadRun(t)
  <2> DEFINE r == job[t].run
             J == [job[t] EXCEPT !.state = runs[r], !.graph = graphs[r]]
  <2>1. pc[t] # "idle" /\ HoldsLock(t) /\ r \in Runs
    BY <1>0, <1>6 DEF ReadRun
  <2>2. CASE Done(t)
    BY <1>6, <2>1, <2>2, DoneType DEF ReadRun, Typing, TypeOK, HeldRowsExist, durable
  <2>3. CASE job' = [job EXCEPT ![t] = J] /\ Goto(t, "fetch") /\ UNCHANGED locks
    <3>1. runs[r] \in RunState \cup {"none"} /\ graphs[r] \in GraphState
      BY <2>1 DEF Typing, TypeOK
    <3>2. J \in Job /\ J.run = job[t].run /\ J.sat = job[t].sat
      BY <1>0, <3>1 DEF Job
    <3> HIDE DEF J
    <3> QED BY <1>6, <2>1, <2>3, <3>2, NewJob DEF ReadRun, Typing, TypeOK, HeldRowsExist, durable
  <2> QED BY <1>6, <2>2, <2>3 DEF ReadRun
<1>7. CASE Fetch(t)
  <2>1. pc[t] # "idle" /\ HoldsLock(t)
    BY <1>0, <1>7 DEF Fetch
  <2>2. CASE Done(t) /\ UNCHANGED graphs
    BY <1>7, <2>1, <2>2, DoneType DEF Fetch, Typing, TypeOK, HeldRowsExist
  <2>3. CASE /\ UNCHANGED graphs \/ graphs' = [graphs EXCEPT ![job[t].run] = job[t].graph]
             /\ Goto(t, "resumed") /\ UNCHANGED <<job, locks>>
    <3>1. job[t].graph \in GraphState
      BY <1>0 DEF Job
    <3>2. graphs' \in [Runs -> GraphState]
      BY <2>3, <3>1 DEF Typing, TypeOK
    <3> QED BY <1>7, <2>1, <2>3, <3>2, SameJobs DEF Fetch, Typing, TypeOK, HeldRowsExist
  <2> QED BY <1>7, <2>2, <2>3 DEF Fetch
<1>8. CASE BackToRunning(t)
  <2> DEFINE r == job[t].run
             back == IF job[t].state \in Parked THEN "RUNNING" ELSE job[t].state
             J == [job[t] EXCEPT !.state = back, !.graph = graphs[r]]
  <2>1. pc[t] # "idle" /\ r \in Runs
    BY <1>0, <1>8 DEF BackToRunning
  <2>2. back \in RunState \cup {"none"} /\ graphs[r] \in GraphState
    BY <1>0, <2>1 DEF Job, RunState, Typing, TypeOK
  <2>3. J \in Job /\ J.run = job[t].run /\ J.sat = job[t].sat
    <3> HIDE DEF back
    <3> QED BY <1>0, <2>2 DEF Job
  <2>4. job' = [job EXCEPT ![t] = J] /\ Goto(t, "tick")
    BY <1>8 DEF BackToRunning
  <2>5. /\ runs' \in [Runs -> RunState \cup {"none"}]
        /\ active' \in [Runs -> {"no", "live", "aborted"}]
    <3>1. /\ runs \in [Runs -> RunState \cup {"none"}]
          /\ active \in [Runs -> {"no", "live", "aborted"}] /\ "RUNNING" \in RunState
      BY DEF Typing, TypeOK, RunState
    <3>2. /\ runs' = runs \/ runs' = [runs EXCEPT ![r] = "RUNNING"]
          /\ active' = [active EXCEPT ![r] = "live"]
      BY <1>8 DEF BackToRunning, SaveRun
    <3> HIDE DEF r
    <3>3. runs' \in [Runs -> RunState \cup {"none"}]
      BY <2>1, <3>1, <3>2
    <3>4. active' \in [Runs -> {"no", "live", "aborted"}]
      BY <2>1, <3>1, <3>2
    <3> QED BY <3>3, <3>4
  <2> HIDE DEF J
  <2> QED BY <1>8, <2>1, <2>3, <2>4, <2>5, NewJob DEF BackToRunning, Typing, TypeOK, HeldRowsExist
<1>9. CASE Tick(t)
  <2>1. pc[t] # "idle"
    BY <1>9 DEF Tick
  <2>2. PICK verdict \in RunState, graph \in GraphState, asks \in SUBSET Nodes :
          \E took : TickTo(t, verdict, graph, asks, took)
    BY <1>9, TickTakes
  <2> QED BY <1>9, <2>1, <2>2, TickToType DEF Tick
<1>10. CASE PersistWait(t)
  <2>1. pc[t] # "idle" /\ job[t].run \in Runs
    BY <1>0, <1>10 DEF PersistWait
  <2>2. PICK n \in job[t].todo, w \in FreeIds :
          /\ waits' = [waits EXCEPT ![w] = [run |-> job[t].run, node |-> n, status |-> "open"]]
          /\ job' = [job EXCEPT ![t].todo = @ \ {n}]
    BY <1>10 DEF PersistWait
  <2> DEFINE row == [run |-> job[t].run, node |-> n, status |-> "open"]
             J == [job[t] EXCEPT !.todo = @ \ {n}]
  <2>3. row \in WaitRow /\ J \in Job /\ J.run = job[t].run /\ J.sat = job[t].sat
    BY <1>0, <2>1 DEF Job, WaitRow
  <2>4. waits' = [waits EXCEPT ![w] = row] /\ job' = [job EXCEPT ![t] = J]
    BY <2>2
  <2> HIDE DEF row, J
  <2>5. /\ waits' \in [WaitIds -> WaitRow \cup {NoRow}]
        /\ \A v \in WaitIds : waits[v] \in WaitRow => waits'[v] \in WaitRow
    <3>1. waits \in [WaitIds -> WaitRow \cup {NoRow}]
      BY DEF Typing, TypeOK
    <3>2. \A v \in WaitIds : waits'[v] = IF v = w THEN row ELSE waits[v]
      BY <2>4, <3>1
    <3>3. waits' \in [WaitIds -> WaitRow \cup {NoRow}]
      BY <2>3, <2>4, <3>1
    <3> QED BY <2>3, <3>2, <3>3
  <2>6. UNCHANGED pc
    BY <1>10 DEF PersistWait
  <2>7. \A u \in Tasks : job'[u].sat \subseteq WaitIds
    BY <2>1, <2>3, <2>4, <2>6, NewJob DEF Typing, TypeOK, Job
  <2> QED BY <1>10, <2>1, <2>3, <2>4, <2>5, <2>6, <2>7, NewJob, ZenonT(40)
          DEF PersistWait, Typing, TypeOK, HeldRowsExist
<1>11. CASE WaitsPersisted(t) \/ DriveThrows(t)
  <2>1. UNCHANGED job /\ pc[t] # "idle" /\ \E label \in Outside \cup Locked : label # "idle" /\ Goto(t, label)
    BY <1>11 DEF WaitsPersisted, DriveThrows
  <2> QED BY <1>11, <2>1, SameJobs DEF WaitsPersisted, DriveThrows, Typing, TypeOK, HeldRowsExist, durable
<1>12. CASE SaveState(t)
  <2>1. /\ UNCHANGED job /\ pc[t] # "idle"
        /\ Goto(t, "suspend") \/ Goto(t, "cancelWaits")
    BY <1>12 DEF SaveState
  <2>2. graphs' \in [Runs -> GraphState]
    <3>1. job[t].graph \in GraphState
      BY <1>0 DEF Job
    <3> QED BY <1>12, <3>1 DEF SaveState, Typing, TypeOK
  <2> QED BY <1>12, <2>1, <2>2, SameJobs DEF SaveState, Typing, TypeOK, HeldRowsExist
<1>13. CASE Suspend(t)
  <2>1. pc[t] # "idle" /\ HoldsLock(t) /\ job[t].run \in Runs
    BY <1>0, <1>13 DEF Suspend
  <2>2. CASE SaveRun(job[t].run, ParkedState(job[t].run)) /\ LeaveDrive(t)
    <3>1. runs' \in [Runs -> RunState \cup {"none"}]
      BY <2>2 DEF SaveRun, ParkedState, RunState, Typing, TypeOK
    <3> QED BY <1>13, <2>1, <2>2, <3>1, LeaveDriveType, DoneType
            DEF Suspend, Typing, TypeOK, HeldRowsExist
  <2>3. CASE Goto(t, "failWaits") /\ UNCHANGED <<runs, active, job, locks>>
    BY <1>13, <2>1, <2>3, SameJobs DEF Suspend, Typing, TypeOK, HeldRowsExist
  <2> QED BY <1>13, <2>2, <2>3 DEF Suspend
<1>14. CASE CancelWaits(t)
  <2>1. UNCHANGED job /\ pc[t] # "idle" /\ job[t].run \in Runs
        /\ Goto(t, "releaseClaim") /\ cancelForRun(job[t].run)
    BY <1>0, <1>14 DEF CancelWaits
  <2>2. \A u \in Tasks : job[u].sat \subseteq WaitIds
    BY DEF Typing, TypeOK, Job
  <2> QED BY <1>14, <2>1, <2>2, SameJobs, CancelForRunType DEF CancelWaits, Typing, TypeOK, HeldRowsExist
<1>15. CASE ReleaseClaim(t)
  <2>1. UNCHANGED job /\ pc[t] # "idle" /\ job[t].run \in Runs
        /\ Goto(t, "finish") /\ releaseClaim(job[t].run)
    BY <1>0, <1>15 DEF ReleaseClaim
  <2> QED BY <1>15, <2>1, SameJobs, ReleaseClaimType DEF ReleaseClaim, Typing, TypeOK, HeldRowsExist
<1>16. CASE Finish(t)
  <2>1. pc[t] # "idle" /\ HoldsLock(t) /\ job[t].run \in Runs
    BY <1>0, <1>16 DEF Finish
  <2>2. CASE SaveRun(job[t].run, job[t].verdict) /\ LeaveDrive(t)
    <3>1. runs' \in [Runs -> RunState \cup {"none"}]
      <4>1. job[t].verdict \in RunState \cup {"none"}
        BY <1>0 DEF Job
      <4> QED BY <2>2, <4>1 DEF SaveRun, Typing, TypeOK
    <3> QED BY <1>16, <2>1, <2>2, <3>1, LeaveDriveType, DoneType
            DEF Finish, Typing, TypeOK, HeldRowsExist
  <2>3. CASE Goto(t, "failWaits") /\ UNCHANGED <<runs, active, job, locks>>
    BY <1>16, <2>1, <2>3, SameJobs DEF Finish, Typing, TypeOK, HeldRowsExist
  <2> QED BY <1>16, <2>2, <2>3 DEF Finish
<1>17. CASE FailWaits(t)
  <2>1. UNCHANGED job /\ pc[t] # "idle" /\ job[t].run \in Runs
        /\ Goto(t, "failClaim") /\ cancelForRun(job[t].run)
    BY <1>0, <1>17 DEF FailWaits
  <2>2. \A u \in Tasks : job[u].sat \subseteq WaitIds
    BY DEF Typing, TypeOK, Job
  <2> QED BY <1>17, <2>1, <2>2, SameJobs, CancelForRunType DEF FailWaits, Typing, TypeOK, HeldRowsExist
<1>18. CASE FailClaim(t)
  <2>1. UNCHANGED job /\ pc[t] # "idle" /\ job[t].run \in Runs
        /\ Goto(t, "failRun") /\ releaseClaim(job[t].run)
    BY <1>0, <1>18 DEF FailClaim
  <2> QED BY <1>18, <2>1, SameJobs, ReleaseClaimType DEF FailClaim, Typing, TypeOK, HeldRowsExist
<1>19. CASE FailRun(t)
  <2>1. pc[t] # "idle" /\ HoldsLock(t) /\ job[t].run \in Runs /\ LeaveDrive(t)
    BY <1>0, <1>19 DEF FailRun
  <2>2. runs' \in [Runs -> RunState \cup {"none"}]
    <3>1. runs \in [Runs -> RunState \cup {"none"}] /\ "FAILED" \in RunState
      BY DEF Typing, TypeOK, RunState
    <3>2. runs' = runs \/ runs' = [runs EXCEPT ![job[t].run] = "FAILED"]
      BY <1>19 DEF FailRun, SaveRun
    <3> QED BY <2>1, <3>1, <3>2
  <2> QED BY <1>19, <2>1, <2>2, LeaveDriveType, DoneType DEF FailRun, Typing, TypeOK, HeldRowsExist
<1> QED BY <1>1, <1>2, <1>3, <1>4, <1>5, <1>6, <1>7, <1>8, <1>9, <1>10, <1>11,
           <1>12, <1>13, <1>14, <1>15, <1>16, <1>17, <1>18, <1>19 DEF Continue

LEMMA RequestType ==
    ASSUME Typing, NEW t \in Tasks, Request(t)
    PROVE  Typing'
<1>1. ASSUME NEW r \in Runs, Claim(t, r)
      PROVE  Typing'
  <2> DEFINE J == [NoJob EXCEPT !.run = r]
  <2>1. J \in Job /\ J.run = r /\ J.sat = {}
    BY DEF NoJob, Job, GraphState, NoGraph
  <2>2. job' = [job EXCEPT ![t] = J] /\ pc' = [pc EXCEPT ![t] = "claimed"]
    BY <1>1 DEF Claim, Goto
  <2> HIDE DEF J
  <2>3. /\ pc' \in [Tasks -> Outside \cup Locked]
        /\ job' \in [Tasks -> Job]
        /\ \A u \in Tasks : pc'[u] # "idle" => job'[u].run \in Runs
        /\ \A u \in Tasks : job'[u].sat \subseteq job[u].sat
    <3>1. pc \in [Tasks -> Outside \cup Locked]
      BY DEF Typing, TypeOK
    <3> QED BY <2>1, <2>2, <3>1 DEF Typing, TypeOK
  <2>4. claims' \in [Items -> Runs \cup {"none"}]
    BY <1>1 DEF Claim, Typing, TypeOK
  <2> QED BY <1>1, <2>3, <2>4 DEF Claim, Typing, TypeOK, HeldRowsExist
<1>2. ASSUME NEW w \in WaitIds, Satisfy(t, w) \/ FireDueTimer(t, w)
      PROVE  Typing'
  <2>1. CASE Accept(t, w)
    <3>1. ResumeWith(t, waits[w].run, {w}) /\ waits[w].run \in Runs /\ {w} \in SUBSET WaitIds
      BY <2>1, AcceptType
    <3>2. supplemental' \subseteq WaitIds
      BY <1>2 DEF Satisfy, FireDueTimer, Typing, TypeOK
    <3>3. TypeOK'
      <4>1. waits' \in [WaitIds -> WaitRow \cup {NoRow}]
        BY <2>1, AcceptType
      <4>2. /\ locks' \in [Runs -> Seq(Tasks)]
            /\ pc' \in [Tasks -> Outside \cup Locked]
            /\ job' \in [Tasks -> Job]
            /\ \A u \in Tasks : pc'[u] # "idle" => job'[u].run \in Runs
        BY <3>1, ResumeWithType
      <4>3. UNCHANGED <<runs, claims, graphs, active, cancels, recovery, up, crashes, delivered>>
        BY <1>2 DEF Satisfy, FireDueTimer
      <4> QED BY <3>2, <4>1, <4>2, <4>3 DEF Typing, TypeOK
    <3>4. HeldRowsExist'
      <4>1. /\ \A u \in Tasks \ {t} : job'[u] = job[u]
            /\ job'[t].sat = {w}
        BY <3>1, ResumeWithType
      <4>2. \A u \in Tasks : job[u].sat \subseteq WaitIds
        BY DEF Typing, TypeOK, Job
      <4> QED BY <2>1, <4>1, <4>2, AcceptType DEF Typing, HeldRowsExist
    <3> QED BY <3>3, <3>4 DEF Typing
  <2>2. CASE /\ supplemental' = supplemental \cup {w}
             /\ UNCHANGED <<waits, job, locks, pc>>
             /\ Satisfy(t, w)
    BY <2>2 DEF Satisfy, Typing, TypeOK, HeldRowsExist
  <2> QED BY <1>2, <2>1, <2>2 DEF Satisfy, FireDueTimer
<1> QED BY <1>1, <1>2 DEF Request

LEMMA CancelType ==
    ASSUME Typing, NEW r \in Runs, Cancel(r) \/ ContinueCancel(r)
    PROVE  Typing'
<1> DEFINE Call == [pc : {"no", "waits", "claim", "state"}, state : RunState \cup {"none"}]
<1>1. CASE Cancel(r)
  <2>1. [pc |-> "waits", state |-> runs[r]] \in Call
    BY DEF Typing, TypeOK
  <2>2. active' \in [Runs -> {"no", "live", "aborted"}]
    BY <1>1 DEF Cancel, Typing, TypeOK
  <2>3. cancels' \in [Runs -> Call]
    <3>1. cancels \in [Runs -> Call]
      BY DEF Typing, TypeOK
    <3>2. \/ cancels' = cancels
          \/ cancels' = [cancels EXCEPT ![r] = [pc |-> "waits", state |-> runs[r]]]
      BY <1>1 DEF Cancel
    <3> HIDE DEF Call
    <3> QED BY <2>1, <3>1, <3>2
  <2> QED BY <1>1, <2>2, <2>3 DEF Cancel, Typing, TypeOK, HeldRowsExist, durable
<1>0. ASSUME NEW p \in {"claim", "state"}
      PROVE  [cancels EXCEPT ![r].pc = p] \in [Runs -> Call]
  <2>1. cancels \in [Runs -> Call] /\ cancels[r] \in Call
    BY DEF Typing, TypeOK
  <2>2. [cancels[r] EXCEPT !.pc = p] \in Call
    <3>1. cancels[r] \in Call
      BY <2>1
    <3> QED BY <3>1
  <2> HIDE DEF Call
  <2> QED BY <2>1, <2>2
<1>2. [cancels EXCEPT ![r].pc = "claim"] \in [Runs -> Call]
  BY <1>0
<1>3. [cancels EXCEPT ![r].pc = "state"] \in [Runs -> Call]
  BY <1>0
<1>4. CASE CancelRows(r)
  <2>1. cancels' \in [Runs -> Call] /\ cancelForRun(r)
    BY <1>2, <1>4 DEF CancelRows
  <2>2. \A u \in Tasks : job[u].sat \subseteq WaitIds
    BY DEF Typing, TypeOK, Job
  <2> QED BY <1>4, <2>1, <2>2, CancelForRunType DEF CancelRows, Typing, TypeOK, HeldRowsExist
<1>5. CASE CancelClaim(r)
  <2>1. cancels' \in [Runs -> Call] /\ releaseClaim(r)
    BY <1>3, <1>5 DEF CancelClaim
  <2> QED BY <1>5, <2>1, ReleaseClaimType DEF CancelClaim, Typing, TypeOK, HeldRowsExist
<1>6. CASE CancelState(r)
  <2>1. NoCancel \in Call /\ "CANCELLED" \in RunState
    BY DEF NoCancel, RunState
  <2>2. cancels' \in [Runs -> Call] /\ runs' \in [Runs -> RunState \cup {"none"}]
    BY <1>6, <2>1 DEF CancelState, SaveRun, Typing, TypeOK
  <2> QED BY <1>6, <2>2 DEF CancelState, Typing, TypeOK, HeldRowsExist
<1> QED BY <1>1, <1>4, <1>5, <1>6 DEF ContinueCancel

LEMMA RecoverType ==
    ASSUME Typing, Recover
    PROVE  Typing'
<1> DEFINE States == RunState \cup {"none"}
           Progress == [phase : {"off", "v1", "list", "runs"}, todo : [Runs -> States]]
<1>1. CASE V1Recover
  <2>1. "FAILED" \in RunState
    BY DEF RunState
  <2>2. /\ runs' \in [Runs -> States]
        /\ claims' \in [Items -> Runs \cup {"none"}]
        /\ recovery' \in Progress
    BY <1>1, <2>1 DEF V1Recover, Typing, TypeOK
  <2> QED BY <1>1, <2>2 DEF V1Recover, Typing, TypeOK, HeldRowsExist
<1>2. CASE RecoverList
  <2>1. recovery' \in Progress
    BY <1>2 DEF RecoverList, Typing, TypeOK
  <2> QED BY <1>2, <2>1 DEF RecoverList, Typing, TypeOK, HeldRowsExist, durable
<1>3. CASE ReleaseOrphanedClaims
  <2>1. NoRecovery \in Progress
    BY DEF NoRecovery
  <2>2. claims' \in [Items -> Runs \cup {"none"}] /\ recovery' \in Progress
    BY <1>3, <2>1 DEF ReleaseOrphanedClaims, Typing, TypeOK
  <2> QED BY <1>3, <2>2 DEF ReleaseOrphanedClaims, Typing, TypeOK, HeldRowsExist
<1>4. ASSUME NEW r \in Runs, RecoverRun(r)
      PROVE  Typing'
  <2>1. recovery' \in Progress
    BY <1>4 DEF RecoverRun, Typing, TypeOK
  <2>2. graphs' \in [Runs -> GraphState]
    <3>1. [graphs[r] EXCEPT !.waiting = @ \ Missing(r)] \in GraphState
      <4> DEFINE g == graphs[r]
                 kept == g.waiting \ Missing(r)
      <4>1. g \in GraphState
        BY DEF Typing, TypeOK
      <4>2. kept \in SUBSET Nodes
        BY <4>1 DEF GraphState
      <4> HIDE DEF g, kept
      <4>3. [g EXCEPT !.waiting = kept] \in GraphState
        BY <4>1, <4>2 DEF GraphState
      <4> QED BY <4>3 DEF g, kept
    <3>2. graphs' = graphs \/ graphs' = [graphs EXCEPT ![r] = [graphs[r] EXCEPT !.waiting = @ \ Missing(r)]]
      BY <1>4 DEF RecoverRun
    <3> QED BY <3>1, <3>2 DEF Typing, TypeOK
  <2>3. CASE UNCHANGED <<pc, job, locks>>
    BY <1>4, <2>1, <2>2, <2>3 DEF RecoverRun, Typing, TypeOK, HeldRowsExist
  <2>4. ASSUME NEW sat \in SUBSET WaitIds, ResumeWith(Recovery, r, sat),
               \A w \in sat : waits[w] \in WaitRow
        PROVE  Typing'
    <3>1. Recovery \in Tasks
      BY CoordinatorAssumption
    <3>2. /\ locks' \in [Runs -> Seq(Tasks)]
          /\ pc' \in [Tasks -> Outside \cup Locked]
          /\ job' \in [Tasks -> Job]
          /\ \A u \in Tasks : pc'[u] # "idle" => job'[u].run \in Runs
          /\ \A u \in Tasks \ {Recovery} : job'[u] = job[u]
          /\ job'[Recovery].sat = sat
      BY <2>4, <3>1, ResumeWithType
    <3> QED BY <1>4, <2>1, <2>2, <2>4, <3>2 DEF RecoverRun, Typing, TypeOK, HeldRowsExist
  <2>5. \A w \in Replays(r) : w \in WaitIds /\ waits[w] \in WaitRow
    BY DEF Replays, Typing, TypeOK, NoRow
  <2>6. ResumeWith(Recovery, r, {}) \/ ResumeWith(Recovery, r, Replays(r)) \/ UNCHANGED <<pc, job, locks>>
    BY <1>4 DEF RecoverRun
  <2> QED BY <2>3, <2>4, <2>5, <2>6
<1> QED BY <1>1, <1>2, <1>3, <1>4 DEF Recover

LEMMA CrashType ==
    ASSUME Typing, Crash \/ Restart
    PROVE  Typing'
<1>1. /\ NoJob \in Job /\ NoJob.sat = {}
      /\ NoCancel \in [pc : {"no", "waits", "claim", "state"}, state : RunState \cup {"none"}]
      /\ NoRecovery \in [phase : {"off", "v1", "list", "runs"}, todo : [Runs -> RunState \cup {"none"}]]
  BY DEF NoJob, Job, GraphState, NoGraph, NoCancel, NoRecovery
<1>2. CASE Crash
  <2>1. crashes' \in 0..MaxCrashes
    BY <1>2, CoordinatorAssumption DEF Crash, Typing, TypeOK
  <2>2. /\ locks' \in [Runs -> Seq(Tasks)]
        /\ active' \in [Runs -> {"no", "live", "aborted"}]
        /\ pc' \in [Tasks -> Outside \cup Locked]
        /\ job' \in [Tasks -> Job]
        /\ \A t \in Tasks : pc'[t] = "idle" /\ job'[t].sat = {}
    BY <1>1, <1>2 DEF Crash
  <2>3. /\ cancels' \in [Runs -> [pc : {"no", "waits", "claim", "state"}, state : RunState \cup {"none"}]]
        /\ recovery' \in [phase : {"off", "v1", "list", "runs"}, todo : [Runs -> RunState \cup {"none"}]]
        /\ up' \in BOOLEAN
    BY <1>1, <1>2 DEF Crash
  <2> QED BY <1>2, <2>1, <2>2, <2>3 DEF Crash, Typing, TypeOK, HeldRowsExist, durable
<1>3. CASE Restart
  <2>1. PICK phase \in {"v1", "list"} : recovery' = [recovery EXCEPT !.phase = phase]
    BY <1>3, CoordinatorAssumption DEF Restart
  <2>2. recovery' \in [phase : {"off", "v1", "list", "runs"}, todo : [Runs -> RunState \cup {"none"}]]
    BY <2>1 DEF Typing, TypeOK
  <2> QED BY <1>3, <2>2 DEF Restart, Typing, TypeOK, HeldRowsExist, durable
<1> QED BY <1>2, <1>3

LEMMA TypingNext == Typing /\ LockHolders /\ [Next]_vars => Typing'
<1> SUFFICES ASSUME Typing, LockHolders, [Next]_vars
             PROVE  Typing'
  OBVIOUS
<1>1. CASE UNCHANGED vars
  BY <1>1 DEF vars, durable, volatile, Typing, TypeOK, HeldRowsExist
<1>2. CASE Next
  BY <1>2, ContinueType, RequestType, CancelType, RecoverType, CrashType DEF Next
<1> QED BY <1>1, <1>2

-----------------------------------------------------------------------------
(* Mutual exclusion on a run *)

\* A task under way either works on under its lock, leaves the lock, or is
\* outside of it.
LEMMA ContinueShape ==
    ASSUME Typing, LockHolders, NEW t \in Tasks, Continue(t)
    PROVE  \/ /\ HoldsLock(t) /\ UNCHANGED locks
              /\ \A u \in Tasks : job'[u].run = job[u].run
              /\ \A u \in Tasks \ {t} : pc'[u] = pc[u]
           \/ HoldsLock(t) /\ Done(t)
           \/ /\ pc'[t] \notin Locked
              /\ \A u \in Tasks \ {t} : pc'[u] = pc[u] /\ job'[u] = job[u]
              /\ UNCHANGED locks \/ Enqueue(t, job[t].run)
<1> DEFINE Works == /\ HoldsLock(t) /\ UNCHANGED locks
                    /\ \A u \in Tasks : job'[u].run = job[u].run
                    /\ \A u \in Tasks \ {t} : pc'[u] = pc[u]
<1>0. /\ pc \in [Tasks -> Outside \cup Locked] /\ job \in [Tasks -> Job]
      /\ pc[t] \in Locked => HoldsLock(t)
  BY DEF Typing, TypeOK, LockHolders
<1>1. ASSUME NEW label, Goto(t, label), UNCHANGED <<job, locks>>, HoldsLock(t)
      PROVE  Works
  BY <1>0, <1>1 DEF Goto
<1>2. ASSUME NEW J, J.run = job[t].run, job' = [job EXCEPT ![t] = J], UNCHANGED locks,
             UNCHANGED pc \/ \E label : Goto(t, label), HoldsLock(t)
      PROVE  Works
  <2>1. \A u \in Tasks : job'[u].run = job[u].run
    BY <1>0, <1>2
  <2>2. \A u \in Tasks \ {t} : pc'[u] = pc[u]
    BY <1>0, <1>2 DEF Goto
  <2> QED BY <1>2, <2>1, <2>2
<1>3. CASE ResolveSnapshot(t)
  BY <1>0, <1>3 DEF ResolveSnapshot, Goto
<1>4. CASE SaveQueued(t) \/ ToPreparing(t) \/ DriveThrows(t) \/ WaitsPersisted(t) \/ SaveState(t)
           \/ CancelWaits(t) \/ ReleaseClaim(t) \/ FailWaits(t) \/ FailClaim(t)
  <2>1. HoldsLock(t) /\ UNCHANGED <<job, locks>> /\ \E label : Goto(t, label)
    BY <1>0, <1>4 DEF SaveQueued, ToPreparing, DriveThrows, WaitsPersisted, SaveState, CancelWaits,
                      ReleaseClaim, FailWaits, FailClaim
  <2> QED BY <1>1, <2>1
<1>5. CASE Prepare(t) \/ Fetch(t)
  <2>1. HoldsLock(t) /\ (Done(t) \/ (UNCHANGED <<job, locks>> /\ \E label : Goto(t, label)))
    BY <1>0, <1>5 DEF Prepare, Fetch
  <2> QED BY <1>1, <2>1
<1>6. CASE Suspend(t) \/ Finish(t) \/ FailRun(t)
  <2>1. HoldsLock(t) /\ (Done(t) \/ (UNCHANGED <<job, locks>> /\ \E label : Goto(t, label)))
    BY <1>0, <1>6 DEF Suspend, Finish, FailRun, LeaveDrive
  <2> QED BY <1>1, <2>1
<1>7. CASE ToRunning(t)
  <2> DEFINE J == [job[t] EXCEPT !.state = "RUNNING", !.graph = initialRunGraphState]
  <2>1. J.run = job[t].run /\ job' = [job EXCEPT ![t] = J]
    BY <1>0, <1>7 DEF ToRunning, Job
  <2>2. HoldsLock(t) /\ UNCHANGED locks /\ Goto(t, "tick")
    BY <1>0, <1>7 DEF ToRunning
  <2> QED BY <1>2, <2>1, <2>2
<1>8. CASE ReadRun(t)
  <2> DEFINE J == [job[t] EXCEPT !.state = runs[job[t].run], !.graph = graphs[job[t].run]]
  <2>1. J.run = job[t].run
    BY <1>0 DEF Job
  <2>2. HoldsLock(t) /\ (Done(t) \/ (job' = [job EXCEPT ![t] = J] /\ UNCHANGED locks /\ Goto(t, "fetch")))
    BY <1>0, <1>8 DEF ReadRun
  <2> HIDE DEF J
  <2> QED BY <1>2, <2>1, <2>2
<1>9. CASE BackToRunning(t)
  <2> DEFINE back == IF job[t].state \in Parked THEN "RUNNING" ELSE job[t].state
             J == [job[t] EXCEPT !.state = back, !.graph = graphs[job[t].run]]
  <2>1. J.run = job[t].run
    BY <1>0 DEF Job
  <2>2. HoldsLock(t) /\ job' = [job EXCEPT ![t] = J] /\ UNCHANGED locks /\ Goto(t, "tick")
    BY <1>0, <1>9 DEF BackToRunning
  <2> HIDE DEF J
  <2> QED BY <1>2, <2>1, <2>2
<1>10. CASE Tick(t)
  <2>1. PICK verdict, graph, asks, took : TickTo(t, verdict, graph, asks, took)
    BY <1>10, TickTakes
  <2> DEFINE J == [job[t] EXCEPT !.graph = graph, !.verdict = verdict,
                                 !.todo = {n \in asks : NeedsRow(job[t].run, n)}]
  <2>2. J.run = job[t].run
    BY <1>0 DEF Job
  <2>3. HoldsLock(t) /\ UNCHANGED locks
    BY <1>0, <1>10 DEF Tick
  <2>4. job' = [job EXCEPT ![t] = J] /\ \E label : Goto(t, label)
    BY <2>1 DEF TickTo
  <2> HIDE DEF J
  <2> QED BY <1>2, <2>2, <2>3, <2>4
<1>11. CASE PersistWait(t)
  <2>1. PICK n \in job[t].todo : job' = [job EXCEPT ![t] = [job[t] EXCEPT !.todo = @ \ {n}]]
    BY <1>11 DEF PersistWait
  <2>2. HoldsLock(t) /\ UNCHANGED <<locks, pc>>
    BY <1>0, <1>11 DEF PersistWait
  <2>3. [job[t] EXCEPT !.todo = @ \ {n}].run = job[t].run
    BY <1>0 DEF Job
  <2> QED BY <1>2, <2>1, <2>2, <2>3
<1> QED BY <1>3, <1>4, <1>5, <1>6, <1>7, <1>8, <1>9, <1>10, <1>11 DEF Continue

LEMMA LockHoldersNext == Typing /\ LockHolders /\ [Next]_vars => LockHolders'
<1> SUFFICES ASSUME Typing, LockHolders, [Next]_vars,
                    NEW u \in Tasks, pc'[u] \in Locked
             PROVE  HoldsLock(u)'
  BY DEF LockHolders
<1>0. /\ pc \in [Tasks -> Outside \cup Locked] /\ job \in [Tasks -> Job]
      /\ locks \in [Runs -> Seq(Tasks)]
      /\ pc[u] \in Locked => HoldsLock(u) /\ job[u].run \in Runs
  BY DEF Typing, TypeOK, LockHolders
\* A longer chain has the head it had.
<1>1. ASSUME NEW t \in Tasks, NEW r \in Runs, Enqueue(t, r), HoldsLock(u), job[u].run \in Runs,
             job'[u] = job[u]
      PROVE  HoldsLock(u)'
  <2> DEFINE q == job[u].run
  <2>1. locks[q] \in Seq(Tasks) /\ locks[q] # <<>> /\ Head(locks[q]) = u
    BY <1>0, <1>1 DEF HoldsLock
  <2>2. locks'[q] = locks[q] \/ locks'[q] = Append(locks[q], t)
    BY <1>0, <1>1 DEF Enqueue
  <2>3. Append(locks[q], t) # <<>> /\ Head(Append(locks[q], t)) = u
    BY <2>1
  <2> QED BY <1>1, <2>1, <2>2, <2>3 DEF HoldsLock
<1>2. CASE \E t \in Tasks : Continue(t)
  <2>1. PICK t \in Tasks : Continue(t)
    BY <1>2
  <2>2. CASE /\ HoldsLock(t) /\ UNCHANGED locks
             /\ \A v \in Tasks : job'[v].run = job[v].run
             /\ \A v \in Tasks \ {t} : pc'[v] = pc[v]
    BY <1>0, <2>2 DEF HoldsLock
  <2>3. CASE HoldsLock(t) /\ Done(t)
    <3>1. u # t /\ pc'[u] = pc[u] /\ job'[u] = job[u]
      BY <1>0, <2>3 DEF Done, Goto
    <3>2. job[u].run # job[t].run
      BY <1>0, <2>3, <3>1 DEF HoldsLock
    <3> QED BY <1>0, <2>3, <3>1, <3>2 DEF Done, HoldsLock
  <2>4. CASE /\ pc'[t] \notin Locked
             /\ \A v \in Tasks \ {t} : pc'[v] = pc[v] /\ job'[v] = job[v]
             /\ UNCHANGED locks \/ Enqueue(t, job[t].run)
    <3>1. u # t /\ pc'[u] = pc[u] /\ job'[u] = job[u] /\ HoldsLock(u)
      BY <1>0, <2>4
    <3>2. CASE UNCHANGED locks
      BY <3>1, <3>2 DEF HoldsLock
    <3>3. CASE Enqueue(t, job[t].run)
      <4>1. CASE job[t].run \in Runs
        BY <1>0, <1>1, <3>1, <3>3, <4>1
      <4>2. CASE job[t].run \notin Runs
        <5>1. locks' = locks
          BY <1>0, <3>3, <4>2 DEF Enqueue
        <5> QED BY <3>1, <5>1 DEF HoldsLock
      <4> QED BY <4>1, <4>2
    <3> QED BY <2>4, <3>2, <3>3
  <2> QED BY <2>1, <2>2, <2>3, <2>4, ContinueShape
<1>3. CASE \E t \in Tasks : Request(t)
  <2>1. PICK t \in Tasks : Request(t)
    BY <1>3
  <2>2. ASSUME NEW r \in Runs, Claim(t, r)
        PROVE  HoldsLock(u)'
    BY <1>0, <2>2 DEF Claim, Goto, HoldsLock
  <2>3. ASSUME NEW w \in WaitIds, Satisfy(t, w) \/ FireDueTimer(t, w)
        PROVE  HoldsLock(u)'
    <3>1. CASE Accept(t, w)
      <4>1. ResumeWith(t, waits[w].run, {w}) /\ waits[w].run \in Runs
        BY <3>1, AcceptType
      <4>2. u # t /\ pc'[u] = pc[u] /\ job'[u] = job[u] /\ Enqueue(t, waits[w].run)
        BY <1>0, <4>1 DEF ResumeWith, Goto
      <4> QED BY <1>0, <1>1, <4>1, <4>2
    <3>2. CASE UNCHANGED <<pc, job, locks>>
      BY <1>0, <3>2 DEF HoldsLock
    <3> QED BY <2>3, <3>1, <3>2 DEF Satisfy, FireDueTimer
  <2> QED BY <2>1, <2>2, <2>3 DEF Request
<1>4. CASE UNCHANGED <<pc, job, locks>>
  BY <1>0, <1>4 DEF HoldsLock
<1>5. CASE \E r \in Runs : RecoverRun(r)
  <2>1. PICK r \in Runs : RecoverRun(r)
    BY <1>5
  <2>2. CASE \E sat : ResumeWith(Recovery, r, sat)
    <3>1. Recovery \in Tasks
      BY CoordinatorAssumption
    <3>2. u # Recovery /\ pc'[u] = pc[u] /\ job'[u] = job[u] /\ Enqueue(Recovery, r)
      BY <1>0, <2>2, <3>1 DEF ResumeWith, Goto
    <3> QED BY <1>0, <1>1, <3>1, <3>2
  <2> QED BY <1>4, <2>1, <2>2 DEF RecoverRun
<1>6. CASE Crash
  BY <1>6 DEF Crash
<1>7. CASE \/ \E r \in Runs : Cancel(r) \/ ContinueCancel(r)
           \/ V1Recover \/ RecoverList \/ ReleaseOrphanedClaims \/ Restart
  BY <1>4, <1>7 DEF Cancel, ContinueCancel, CancelRows, CancelClaim, CancelState, V1Recover,
                    RecoverList, ReleaseOrphanedClaims, Restart
<1> QED BY <1>2, <1>3, <1>4, <1>5, <1>6, <1>7 DEF Next, Recover, vars, volatile

LEMMA LockHoldersInit == Init => LockHolders
  BY DEF Init, LockHolders

\* Type correctness: whatever interleaving of tasks, cancellations, crashes
\* and recoveries happens, every table row and every local keeps its shape,
\* and a satisfaction in a task's hands names a row of the wait table.
THEOREM TypeCorrect == Spec => []TypeOK
<1>1. Init => Typing /\ LockHolders
  BY TypingInit, LockHoldersInit
<1>2. Typing /\ LockHolders /\ [Next]_vars => (Typing /\ LockHolders)'
  BY TypingNext, LockHoldersNext
<1>3. Typing => TypeOK
  BY DEF Typing
<1> QED BY <1>1, <1>2, <1>3, PTL DEF Spec

\* withRunLock is mutual exclusion: at no time do two of start, satisfy,
\* fireDueTimers and recover drive the same run.
THEOREM MutualExclusion == Spec => []OneDriverPerRun
<1>1. Init => Typing /\ LockHolders
  BY TypingInit, LockHoldersInit
<1>2. Typing /\ LockHolders /\ [Next]_vars => (Typing /\ LockHolders)'
  BY TypingNext, LockHoldersNext
<1>3. LockHolders => OneDriverPerRun
  BY DEF LockHolders, HoldsLock, OneDriverPerRun
<1> QED BY <1>1, <1>2, <1>3, PTL DEF Spec

-----------------------------------------------------------------------------
(* The wait table *)

\* A row is settled in place.
Settled(old, new) ==
    /\ old.status = "open" /\ new.status \in {"satisfied", "cancelled"}
    /\ new.run = old.run /\ new.node = old.node

SettlesOnly == \A w \in WaitIds : waits'[w] = waits[w] \/ Settled(waits[w], waits'[w])

\* What a step may do to the wait table: insert one open row in a free place,
\* or settle rows that are open.
LEMMA WaitsStep ==
    ASSUME Typing, [Next]_vars
    PROVE  SettlesOnly \/ \E t \in Tasks : PersistWait(t)
<1>1. CASE UNCHANGED waits
  BY <1>1 DEF SettlesOnly
<1>2. ASSUME NEW r \in Runs, cancelForRun(r)
      PROVE  SettlesOnly
  <2>1. ASSUME NEW w \in WaitIds
        PROVE  waits'[w] = waits[w] \/ Settled(waits[w], waits'[w])
    <3>1. CASE w \in OpenRows(r)
      <4>1. /\ [waits[w] EXCEPT !.status = "cancelled"].run = waits[w].run
            /\ [waits[w] EXCEPT !.status = "cancelled"].node = waits[w].node
            /\ [waits[w] EXCEPT !.status = "cancelled"].status = "cancelled"
        BY <3>1 DEF Typing, TypeOK, OpenRows, WaitRow, NoRow
      <4>2. waits'[w] = [waits[w] EXCEPT !.status = "cancelled"] /\ waits[w].status = "open"
        BY <1>2, <3>1 DEF cancelForRun, OpenRows
      <4> QED BY <4>1, <4>2 DEF Settled
    <3>2. CASE w \notin OpenRows(r)
      BY <1>2, <3>2 DEF cancelForRun
    <3> QED BY <3>1, <3>2
  <2> QED BY <2>1 DEF SettlesOnly
<1>3. ASSUME NEW t \in Tasks, NEW w \in WaitIds, Accept(t, w)
      PROVE  SettlesOnly
  <2>1. waits[w].status = "open" /\ waits' = [waits EXCEPT ![w].status = "satisfied"]
    BY <1>3 DEF Accept, trySatisfyWins
  <2>2. /\ waits'[w].status = "satisfied" /\ waits'[w].run = waits[w].run
        /\ waits'[w].node = waits[w].node
        /\ \A v \in WaitIds \ {w} : waits'[v] = waits[v]
    BY <2>1 DEF Typing, TypeOK, WaitRow, NoRow
  <2> QED BY <2>1, <2>2 DEF SettlesOnly, Settled
<1>4. CASE \E t \in Tasks : Continue(t)
  <2>1. PICK t \in Tasks : Continue(t)
    BY <1>4
  <2>2. CASE CancelWaits(t) \/ FailWaits(t)
    <3>1. job[t].run \in Runs /\ cancelForRun(job[t].run)
      BY <2>2 DEF CancelWaits, FailWaits, Typing, TypeOK
    <3> QED BY <1>2, <3>1
  <2>3. CASE ResolveSnapshot(t) \/ SaveQueued(t) \/ ToPreparing(t) \/ Prepare(t)
             \/ ToRunning(t) \/ ReadRun(t) \/ Fetch(t) \/ BackToRunning(t)
    BY <1>1, <2>3 DEF ResolveSnapshot, SaveQueued, ToPreparing, Prepare, ToRunning, ReadRun,
                      Fetch, BackToRunning, durable
  <2>4. CASE Tick(t) \/ DriveThrows(t) \/ WaitsPersisted(t) \/ SaveState(t) \/ Suspend(t)
             \/ ReleaseClaim(t) \/ Finish(t) \/ FailClaim(t) \/ FailRun(t)
    BY <1>1, <2>4 DEF Tick, DriveThrows, WaitsPersisted, SaveState, Suspend, ReleaseClaim, Finish,
                      FailClaim, FailRun, durable
  <2> QED BY <2>1, <2>2, <2>3, <2>4 DEF Continue
<1>5. CASE \E t \in Tasks : Request(t)
  BY <1>1, <1>3, <1>5 DEF Request, Claim, Satisfy, FireDueTimer
<1>6. CASE \E r \in Runs : Cancel(r) \/ ContinueCancel(r)
  BY <1>1, <1>2, <1>6 DEF Cancel, ContinueCancel, CancelRows, CancelClaim, CancelState, durable
<1>7. CASE Recover \/ Crash \/ Restart
  BY <1>1, <1>7 DEF Recover, V1Recover, RecoverList, RecoverRun, ReleaseOrphanedClaims,
                    Crash, Restart, durable
<1> QED BY <1>1, <1>4, <1>5, <1>6, <1>7 DEF Next, vars, durable

\* Once a condition is satisfied or cancelled nothing changes it again: no
\* late response, due timer, cancellation, finalization or recovery.
THEOREM FirstResponse == Spec => FirstResponseWins
<1> DEFINE Keeps == \A w \in WaitIds :
                      waits[w].status \in {"satisfied", "cancelled"} => waits'[w] = waits[w]
<1>1. Init => Typing /\ LockHolders
  BY TypingInit, LockHoldersInit
<1>2. Typing /\ LockHolders /\ [Next]_vars => (Typing /\ LockHolders)'
  BY TypingNext, LockHoldersNext
<1>3. Typing /\ [Next]_vars => [Keeps]_waits
  <2> SUFFICES ASSUME Typing, [Next]_vars
               PROVE  Keeps
    OBVIOUS
  <2>1. CASE SettlesOnly
    BY <2>1 DEF SettlesOnly, Settled
  <2>2. CASE \E t \in Tasks : PersistWait(t)
    BY <2>2 DEF PersistWait, FreeIds, Typing, TypeOK
  <2> QED BY <2>1, <2>2, WaitsStep
<1> QED BY <1>1, <1>2, <1>3, PTL DEF Spec, FirstResponseWins

-----------------------------------------------------------------------------
(* Wait rows land before the state that needs them *)

\* A waiting node in a task's copy of the graph has a row, or the task is
\* about to insert it.
RowsInHand ==
    \A t \in Tasks : pc[t] # "idle" =>
        \A n \in job[t].graph.waiting :
            \/ RowsOf(job[t].run, n) # {}
            \/ pc[t] = "persistWaits" /\ n \in job[t].todo

\* A node waiting in the database has a row, whatever the state of its run.
RowsStored ==
    \A r \in Runs : \A n \in graphs[r].waiting : RowsOf(r, n) # {}

\* Rows are never deleted and never change hands.
LEMMA RowsKept ==
    ASSUME Typing, [Next]_vars, NEW r \in Runs, NEW n \in Nodes
    PROVE  RowsOf(r, n) \subseteq RowsOf(r, n)'
<1>1. CASE SettlesOnly
  BY <1>1 DEF SettlesOnly, Settled, RowsOf
<1>2. ASSUME NEW t \in Tasks, PersistWait(t)
      PROVE  RowsOf(r, n) \subseteq RowsOf(r, n)'
  <2>1. PICK v \in FreeIds : \E row : waits' = [waits EXCEPT ![v] = row]
    BY <1>2 DEF PersistWait
  <2>2. v \in WaitIds /\ waits[v] = NoRow
    <3>1. waits \in [WaitIds -> WaitRow \cup {NoRow}]
      BY DEF Typing, TypeOK
    <3>2. v \in WaitIds /\ waits[v].status = "none"
      BY <2>1 DEF FreeIds
    <3>3. waits[v] \notin WaitRow
      BY <3>2 DEF WaitRow
    <3> QED BY <3>1, <3>2, <3>3
  <2>3. NoRow.run # r
    BY CoordinatorAssumption DEF NoRow
  <2> QED BY <2>1, <2>2, <2>3 DEF RowsOf, Typing, TypeOK
<1> QED BY <1>1, <1>2, WaitsStep

LEMMA PersistWaitInserts ==
    ASSUME Typing, NEW t \in Tasks, PersistWait(t)
    PROVE  \E n \in job[t].todo, w \in FreeIds :
             /\ waits' = [waits EXCEPT ![w] = [run |-> job[t].run, node |-> n, status |-> "open"]]
             /\ job'[t].todo = job[t].todo \ {n}
             /\ job'[t].run = job[t].run /\ job'[t].graph = job[t].graph
             /\ \A u \in Tasks \ {t} : job'[u] = job[u]
<1>1. PICK n \in job[t].todo, w \in FreeIds :
          /\ waits' = [waits EXCEPT ![w] = [run |-> job[t].run, node |-> n, status |-> "open"]]
          /\ job' = [job EXCEPT ![t] = [job[t] EXCEPT !.todo = @ \ {n}]]
  BY DEF PersistWait
<1>2. job[t] \in Job /\ job \in [Tasks -> Job]
  BY DEF Typing, TypeOK
<1>3. /\ [job[t] EXCEPT !.todo = @ \ {n}].todo = job[t].todo \ {n}
      /\ [job[t] EXCEPT !.todo = @ \ {n}].run = job[t].run
      /\ [job[t] EXCEPT !.todo = @ \ {n}].graph = job[t].graph
  BY <1>2 DEF Job
<1> QED BY <1>1, <1>2, <1>3

LEMMA RowsInHandNext ==
    ASSUME Typing, LockHolders, RowsInHand, RowsStored, [Next]_vars, "raceToEnd" \notin Env
    PROVE  RowsInHand'
<1> DEFINE Held(t, n) == RowsOf(job[t].run, n) # {} \/ (pc[t] = "persistWaits" /\ n \in job[t].todo)
<1> SUFFICES ASSUME NEW u \in Tasks, pc'[u] # "idle", NEW n \in job'[u].graph.waiting
             PROVE  Held(u, n)'
  BY DEF RowsInHand
<1>0. /\ pc \in [Tasks -> Outside \cup Locked] /\ job \in [Tasks -> Job]
      /\ \A t \in Tasks : /\ job[t] \in Job /\ job[t].graph.waiting \subseteq Nodes
                          /\ pc[t] # "idle" => job[t].run \in Runs
      /\ \A r \in Runs : graphs[r] \in GraphState /\ graphs[r].waiting \subseteq Nodes
  BY DEF Typing, TypeOK, Job, GraphState
<1>1. ASSUME NEW r \in Runs, NEW m \in Nodes, RowsOf(r, m) # {}
      PROVE  RowsOf(r, m)' # {}
  BY <1>1, RowsKept
\* A task whose locals stay as they are, in or out of persistWaits.
<1>2. ASSUME job'[u] = job[u], pc[u] # "idle", pc'[u] = pc[u] \/ pc[u] # "persistWaits" \/ job[u].todo = {}
      PROVE  Held(u, n)'
  <2>1. n \in Nodes /\ job[u].run \in Runs /\ Held(u, n)
    BY <1>0, <1>2 DEF RowsInHand
  <2>2. CASE RowsOf(job[u].run, n) # {}
    BY <1>1, <1>2, <2>1, <2>2
  <2>3. CASE pc[u] = "persistWaits" /\ n \in job[u].todo
    BY <1>2, <2>3
  <2> QED BY <2>1, <2>2, <2>3
\* A task that takes the stored graph, or one nobody waits in.
<1>3. ASSUME NEW r \in Runs, pc[u] # "idle", job'[u].run = r, n \in graphs[r].waiting
      PROVE  Held(u, n)'
  <2>1. n \in Nodes /\ RowsOf(r, n) # {}
    BY <1>0, <1>3 DEF RowsStored
  <2> QED BY <1>1, <1>3, <2>1
<1>4. CASE pc'[u] = pc[u] /\ job'[u] = job[u]
  BY <1>2, <1>4
<1>5. CASE Continue(u)
  <2>1. pc[u] # "idle" /\ job[u].run \in Runs
    BY <1>0, <1>5 DEF Continue, ResolveSnapshot, SaveQueued, ToPreparing, Prepare, ToRunning,
                      ReadRun, Fetch, BackToRunning, Tick, DriveThrows, PersistWait, WaitsPersisted, SaveState,
                      Suspend, CancelWaits, ReleaseClaim, Finish, FailWaits, FailClaim, FailRun
  <2>2. CASE Done(u)
    BY <1>0, <2>2 DEF Done, Goto
  <2>3. CASE ResolveSnapshot(u)
    <3>1. job'[u] = job[u]
      BY <1>0, <2>3 DEF ResolveSnapshot, Goto
    <3> QED BY <1>2, <2>1, <2>3, <3>1 DEF ResolveSnapshot
  <2>4. CASE SaveQueued(u) \/ ToPreparing(u) \/ DriveThrows(u) \/ SaveState(u) \/ CancelWaits(u) \/ ReleaseClaim(u)
             \/ FailWaits(u) \/ FailClaim(u)
    BY <1>2, <2>1, <2>4 DEF SaveQueued, ToPreparing, DriveThrows, SaveState, CancelWaits, ReleaseClaim,
                            FailWaits, FailClaim
  <2>5. CASE Prepare(u) \/ Fetch(u)
    BY <1>2, <2>1, <2>2, <2>5 DEF Prepare, Fetch
  <2>6. CASE Suspend(u) \/ Finish(u) \/ FailRun(u)
    BY <1>2, <2>1, <2>2, <2>6 DEF Suspend, Finish, FailRun, LeaveDrive
  <2>7. CASE WaitsPersisted(u)
    BY <1>2, <2>1, <2>7 DEF WaitsPersisted
  <2>8. CASE ToRunning(u)
    <3>1. job'[u].graph = initialRunGraphState
      <4>1. job'[u] = [job[u] EXCEPT !.state = "RUNNING", !.graph = initialRunGraphState]
        BY <1>0, <2>8 DEF ToRunning
      <4> QED BY <1>0, <4>1 DEF Job
    <3> QED BY <3>1 DEF initialRunGraphState, NoGraph
  <2>9. CASE ReadRun(u)
    <3>1. CASE Done(u)
      BY <2>2, <3>1
    <3>2. CASE job' = [job EXCEPT ![u] = [@ EXCEPT !.state = runs[job[u].run], !.graph = graphs[job[u].run]]]
      <4>1. job'[u] = [job[u] EXCEPT !.state = runs[job[u].run], !.graph = graphs[job[u].run]]
        BY <1>0, <3>2
      <4>2. job'[u].run = job[u].run /\ job'[u].graph = graphs[job[u].run]
        BY <1>0, <4>1 DEF Job
      <4> QED BY <1>3, <2>1, <4>2
    <3> QED BY <2>9, <3>1, <3>2 DEF ReadRun
  <2>10. CASE BackToRunning(u)
    <3> DEFINE back == IF job[u].state \in Parked THEN "RUNNING" ELSE job[u].state
    <3>1. job'[u] = [job[u] EXCEPT !.state = back, !.graph = graphs[job[u].run]]
      BY <1>0, <2>10 DEF BackToRunning
    <3> HIDE DEF back
    <3>2. job'[u].run = job[u].run /\ job'[u].graph = graphs[job[u].run]
      BY <1>0, <3>1 DEF Job
    <3> QED BY <1>3, <2>1, <3>2
  <2>11. CASE Tick(u)
    <3>1. PICK verdict \in RunState, graph \in GraphState, asks \in SUBSET Nodes :
            /\ \E took : TickTo(u, verdict, graph, asks, took)
            /\ "raceToEnd" \notin Env => graph.waiting \subseteq job[u].graph.waiting \cup asks
            /\ asks # {} => verdict = "WAITING"
      BY <2>11, TickTakes
    <3> DEFINE missing == {m \in asks : NeedsRow(job[u].run, m)}
    <3>2. /\ job'[u] = [job[u] EXCEPT !.graph = graph, !.verdict = verdict, !.todo = missing]
          /\ pc'[u] = IF verdict = "WAITING" THEN "persistWaits" ELSE "saveState"
      BY <1>0, <3>1 DEF TickTo, Goto
    <3>3. job'[u].run = job[u].run /\ job'[u].graph = graph /\ job'[u].todo = missing
      <4> HIDE DEF missing
      <4> QED BY <1>0, <3>2 DEF Job
    <3>4. n \in Nodes
      BY <1>0, <3>1, <3>3
    <3>5. CASE n \in job[u].graph.waiting
      <4>1. RowsOf(job[u].run, n) # {}
        BY <2>1, <2>11, <3>5 DEF RowsInHand, Tick
      <4> QED BY <1>1, <2>1, <3>3, <3>4, <4>1
    <3>6. CASE n \in asks /\ NeedsRow(job[u].run, n)
      BY <3>1, <3>2, <3>3, <3>6
    <3>7. CASE n \in asks /\ ~NeedsRow(job[u].run, n)
      <4>1. RowsOf(job[u].run, n) # {}
        BY <3>7 DEF NeedsRow, OpenRows, RowsOf
      <4> QED BY <1>1, <2>1, <3>3, <3>4, <4>1
    <3> QED BY <3>1, <3>3, <3>5, <3>6, <3>7
  <2>12. CASE PersistWait(u)
    <3>1. PICK m \in job[u].todo, w \in FreeIds :
             /\ waits' = [waits EXCEPT ![w] = [run |-> job[u].run, node |-> m, status |-> "open"]]
             /\ job'[u].todo = job[u].todo \ {m}
             /\ job'[u].run = job[u].run /\ job'[u].graph = job[u].graph
      BY <2>12, PersistWaitInserts
    <3>2. n \in Nodes /\ Held(u, n) /\ pc'[u] = "persistWaits"
      BY <1>0, <2>1, <2>12, <3>1 DEF RowsInHand, PersistWait
    <3>3. CASE n = m
      <4>1. w \in WaitIds /\ waits'[w].run = job'[u].run /\ waits'[w].node = n
        BY <3>1, <3>3 DEF FreeIds, Typing, TypeOK
      <4> QED BY <4>1 DEF RowsOf
    <3>4. CASE n # m
      BY <1>1, <2>1, <3>1, <3>2, <3>4
    <3> QED BY <3>3, <3>4
  <2> QED BY <1>5, <2>3, <2>4, <2>5, <2>6, <2>7, <2>8, <2>9, <2>10, <2>11, <2>12 DEF Continue
<1>6. CASE \E t \in Tasks \ {u} : Continue(t)
  <2>1. PICK t \in Tasks \ {u} : Continue(t)
    BY <1>6
  <2>2. pc'[u] = pc[u]
    BY <1>0, <2>1, ContinueShape DEF Done, Goto
  <2>3. job'[u] = job[u]
    BY <1>0, <2>1 DEF Continue, ResolveSnapshot, SaveQueued, ToPreparing, Prepare, ToRunning,
                      ReadRun, Fetch, BackToRunning, Tick, TickTo, DriveThrows, PersistWait, WaitsPersisted,
                      SaveState, Suspend, CancelWaits, ReleaseClaim, Finish, FailWaits, FailClaim,
                      FailRun, LeaveDrive, Done
  <2> QED BY <1>4, <2>2, <2>3
\* A task that has just been given a run has no graph yet.
<1>7. ASSUME job'[u].graph = NoGraph
      PROVE  Held(u, n)'
  BY <1>7 DEF NoGraph
<1>8. CASE \E t \in Tasks : Request(t)
  <2>1. PICK t \in Tasks : Request(t)
    BY <1>8
  <2>2. \/ \E r : job' = [job EXCEPT ![t] = [NoJob EXCEPT !.run = r]]
        \/ \E r, sat : job' = [job EXCEPT ![t] = [NoJob EXCEPT !.run = r, !.sat = sat]]
        \/ UNCHANGED <<job, pc>>
    BY <2>1 DEF Request, Claim, Satisfy, FireDueTimer, Accept, ResumeWith
  <2>3. \A v \in Tasks \ {t} : pc'[v] = pc[v]
    BY <1>0, <2>1 DEF Request, Claim, Satisfy, FireDueTimer, Accept, ResumeWith, Goto
  <2>4. CASE UNCHANGED <<job, pc>>
    BY <1>4, <2>4
  <2>5. CASE t = u
    <3>1. job'[u].graph = NoGraph \/ UNCHANGED <<job, pc>>
      BY <1>0, <2>2, <2>5 DEF NoJob
    <3> QED BY <1>7, <2>4, <3>1
  <2>6. CASE t # u
    BY <1>0, <1>4, <2>2, <2>3, <2>6
  <2> QED BY <2>5, <2>6
<1>9. CASE \E r \in Runs : RecoverRun(r)
  <2>1. \/ \E r, sat : job' = [job EXCEPT ![Recovery] = [NoJob EXCEPT !.run = r, !.sat = sat]]
                      /\ pc' = [pc EXCEPT ![Recovery] = "resumeQueue"]
        \/ UNCHANGED <<job, pc>>
    <3>1. PICK r \in Runs : RecoverRun(r)
      BY <1>9
    <3>2. CASE \E sat : ResumeWith(Recovery, r, sat)
      BY <3>2, Zenon DEF ResumeWith, Goto
    <3>3. (\E sat : ResumeWith(Recovery, r, sat)) \/ UNCHANGED <<job, pc>>
      BY <3>1 DEF RecoverRun
    <3> QED BY <3>2, <3>3
  <2>2. job'[u].graph = NoGraph \/ (job'[u] = job[u] /\ pc'[u] = pc[u])
    BY <1>0, <2>1, ZenonT(40) DEF NoJob
  <2> QED BY <1>4, <1>7, <2>2
<1>10. CASE Crash
  BY <1>10 DEF Crash
<1>11. CASE \/ \E r \in Runs : Cancel(r) \/ ContinueCancel(r)
            \/ V1Recover \/ RecoverList \/ ReleaseOrphanedClaims \/ Restart \/ UNCHANGED vars
  BY <1>4, <1>11 DEF Cancel, ContinueCancel, CancelRows, CancelClaim, CancelState, V1Recover,
                     RecoverList, ReleaseOrphanedClaims, Restart, vars, volatile
<1> QED BY <1>5, <1>6, <1>8, <1>9, <1>10, <1>11 DEF Next, Recover

LEMMA RowsStoredNext ==
    ASSUME Typing, LockHolders, RowsInHand, RowsStored, [Next]_vars
    PROVE  RowsStored'
<1> SUFFICES ASSUME NEW r \in Runs, NEW n \in graphs'[r].waiting
             PROVE  RowsOf(r, n)' # {}
  BY DEF RowsStored
<1>0. /\ graphs \in [Runs -> GraphState] /\ graphs[r].waiting \subseteq Nodes
      /\ \A t \in Tasks : /\ job[t] \in Job /\ job[t].graph.waiting \subseteq Nodes
                          /\ pc[t] # "idle" => job[t].run \in Runs
  BY DEF Typing, TypeOK, Job, GraphState
\* It is enough that the node had a row before the step.
<1>1. ASSUME n \in Nodes, RowsOf(r, n) # {}
      PROVE  RowsOf(r, n)' # {}
  BY <1>1, RowsKept
<1>2. CASE graphs'[r] = graphs[r]
  <2>1. n \in Nodes /\ RowsOf(r, n) # {}
    BY <1>0, <1>2 DEF RowsStored
  <2> QED BY <1>1, <2>1
\* A task stores the copy in its hands, with no row left to insert.
<1>3. ASSUME NEW t \in Tasks, pc[t] \in {"fetch", "saveState"},
             graphs' = [graphs EXCEPT ![job[t].run] = job[t].graph]
      PROVE  RowsOf(r, n)' # {}
  <2>1. CASE r # job[t].run
    BY <1>0, <1>2, <1>3, <2>1
  <2>2. CASE r = job[t].run
    <3>1. n \in job[t].graph.waiting /\ n \in Nodes
      BY <1>0, <1>3, <2>2
    <3>2. RowsOf(r, n) # {}
      BY <1>3, <2>2, <3>1 DEF RowsInHand
    <3> QED BY <1>1, <3>1, <3>2
  <2> QED BY <2>1, <2>2
<1>4. CASE \E t \in Tasks : Continue(t)
  <2>1. PICK t \in Tasks : Continue(t)
    BY <1>4
  <2>2. CASE Prepare(t)
    <3>1. graphs' = graphs \/ graphs' = [graphs EXCEPT ![job[t].run] = initialRunGraphState]
      BY <2>2 DEF Prepare
    <3>2. graphs'[r] = graphs[r] \/ graphs'[r] = initialRunGraphState
      BY <1>0, <3>1
    <3> QED BY <1>2, <3>2 DEF initialRunGraphState, NoGraph
  <2>3. CASE Fetch(t)
    <3>1. pc[t] = "fetch" /\ (graphs' = graphs \/ graphs' = [graphs EXCEPT ![job[t].run] = job[t].graph])
      BY <2>3 DEF Fetch
    <3> QED BY <1>2, <1>3, <3>1
  <2>4. CASE SaveState(t)
    BY <1>3, <2>4 DEF SaveState
  <2>5. CASE ResolveSnapshot(t) \/ SaveQueued(t) \/ ToPreparing(t) \/ ToRunning(t) \/ ReadRun(t)
             \/ BackToRunning(t) \/ Tick(t) \/ DriveThrows(t) \/ PersistWait(t) \/ WaitsPersisted(t)
    <3>1. graphs' = graphs
      BY <2>5, TickTakes DEF ResolveSnapshot, SaveQueued, ToPreparing, ToRunning, ReadRun,
              BackToRunning, TickTo, DriveThrows, PersistWait, WaitsPersisted, durable
    <3> QED BY <1>2, <3>1
  <2>6. CASE Suspend(t) \/ CancelWaits(t) \/ ReleaseClaim(t) \/ Finish(t) \/ FailWaits(t)
             \/ FailClaim(t) \/ FailRun(t)
    BY <1>2, <2>6 DEF Suspend, CancelWaits, ReleaseClaim, Finish, FailWaits, FailClaim, FailRun
  <2> QED BY <2>1, <2>2, <2>3, <2>4, <2>5, <2>6 DEF Continue
<1>5. CASE \E q \in Runs : RecoverRun(q)
  <2>1. PICK q \in Runs : RecoverRun(q)
    BY <1>5
  <2>2. graphs' = graphs
        \/ graphs' = [graphs EXCEPT ![q] = [graphs[q] EXCEPT !.waiting = @ \ Missing(q)]]
    BY <2>1 DEF RecoverRun
  <2>3. graphs'[r].waiting \subseteq graphs[r].waiting
    BY <1>0, <2>2 DEF GraphState
  <2> QED BY <1>0, <1>1, <2>3 DEF RowsStored
<1>6. CASE \E t \in Tasks : Request(t)
  BY <1>2, <1>6 DEF Request, Claim, Satisfy, FireDueTimer
<1>7. CASE \/ \E q \in Runs : Cancel(q) \/ ContinueCancel(q)
           \/ V1Recover \/ RecoverList \/ ReleaseOrphanedClaims \/ Crash \/ Restart
           \/ UNCHANGED vars
  BY <1>2, <1>7 DEF Cancel, ContinueCancel, CancelRows, CancelClaim, CancelState, V1Recover,
                    RecoverList, ReleaseOrphanedClaims, Crash, Restart, vars, durable
<1> QED BY <1>4, <1>5, <1>6, <1>7 DEF Next, Recover

\* A crash at any point leaves no run parked at a node nobody was ever asked
\* about: persistWaits inserts every row before drive() saves the graph state,
\* and nothing deletes rows.  It takes graphs in which no branch can end the run
\* in the tick in which a parallel one yields its wait.
THEOREM RowsBeforeState ==
    ASSUME "raceToEnd" \notin Env
    PROVE  Spec => []WaitsBeforeState
<1> DEFINE IInv == Typing /\ LockHolders /\ RowsInHand /\ RowsStored
<1>1. Init => IInv
  <2>1. Init => RowsInHand /\ RowsStored
    BY DEF Init, RowsInHand, RowsStored, NoGraph
  <2> QED BY <2>1, TypingInit, LockHoldersInit
<1>2. IInv /\ [Next]_vars => IInv'
  BY TypingNext, LockHoldersNext, RowsInHandNext, RowsStoredNext
<1>3. IInv => WaitsBeforeState
  BY DEF RowsStored, WaitsBeforeState
<1> QED BY <1>1, <1>2, <1>3, PTL DEF Spec

-----------------------------------------------------------------------------
(* One open wait per node *)

\* A row a task is about to insert is still needed.
TodoNeeded ==
    \A t \in Tasks : pc[t] = "persistWaits" =>
        \A n \in job[t].todo : NeedsRow(job[t].run, n)

\* Settling rows opens none.
LEMMA SettlingOpensNothing ==
    ASSUME SettlesOnly, NEW r \in Runs
    PROVE  /\ OpenRows(r)' \subseteq OpenRows(r)
           /\ \A w \in OpenRows(r)' : waits'[w] = waits[w]
  BY DEF SettlesOnly, Settled, OpenRows

\* One insertion opens one row, of the run the task holds.
LEMMA InsertingOpensOne ==
    ASSUME Typing, NEW t \in Tasks, PersistWait(t)
    PROVE  \E n \in job[t].todo, w \in FreeIds :
             /\ \A r \in Runs : OpenRows(r)' = IF r = job[t].run THEN OpenRows(r) \cup {w}
                                               ELSE OpenRows(r)
             /\ waits'[w].run = job[t].run /\ waits'[w].node = n
             /\ \A v \in WaitIds \ {w} : waits'[v] = waits[v]
             /\ job'[t].todo = job[t].todo \ {n} /\ job'[t].run = job[t].run
             /\ \A u \in Tasks \ {t} : job'[u] = job[u]
<1>1. PICK n \in job[t].todo, w \in FreeIds :
             /\ waits' = [waits EXCEPT ![w] = [run |-> job[t].run, node |-> n, status |-> "open"]]
             /\ job'[t].todo = job[t].todo \ {n}
             /\ job'[t].run = job[t].run /\ job'[t].graph = job[t].graph
             /\ \A u \in Tasks \ {t} : job'[u] = job[u]
  BY PersistWaitInserts
<1>2. /\ w \in WaitIds /\ waits[w].status = "none"
      /\ waits'[w] = [run |-> job[t].run, node |-> n, status |-> "open"]
      /\ \A v \in WaitIds \ {w} : waits'[v] = waits[v]
  BY <1>1 DEF FreeIds, Typing, TypeOK
<1>3. ASSUME NEW r \in Runs
      PROVE  OpenRows(r)' = IF r = job[t].run THEN OpenRows(r) \cup {w} ELSE OpenRows(r)
  BY <1>2 DEF OpenRows
<1> QED BY <1>1, <1>2, <1>3

LEMMA OneOpenWaitNext ==
    ASSUME Typing, LockHolders, TodoNeeded, OneOpenWait, [Next]_vars
    PROVE  OneOpenWait'
<1>1. CASE SettlesOnly
  <2> SUFFICES ASSUME NEW r \in Runs, NEW n \in Nodes,
                      NEW v \in (OpenRows(r) \cap RowsOf(r, n))',
                      NEW w \in (OpenRows(r) \cap RowsOf(r, n))'
               PROVE  v = w
    BY DEF OneOpenWait
  <2>1. /\ v \in OpenRows(r) /\ w \in OpenRows(r)
        /\ waits'[v] = waits[v] /\ waits'[w] = waits[w]
    BY <1>1, SettlingOpensNothing
  <2> QED BY <2>1 DEF OneOpenWait, RowsOf
<1>2. ASSUME NEW t \in Tasks, PersistWait(t)
      PROVE  OneOpenWait'
  <2> SUFFICES ASSUME NEW r \in Runs, NEW n \in Nodes,
                      NEW v \in (OpenRows(r) \cap RowsOf(r, n))',
                      NEW w \in (OpenRows(r) \cap RowsOf(r, n))'
               PROVE  v = w
    BY DEF OneOpenWait
  <2>1. PICK m \in job[t].todo, x \in FreeIds :
             /\ OpenRows(r)' = IF r = job[t].run THEN OpenRows(r) \cup {x} ELSE OpenRows(r)
             /\ waits'[x].run = job[t].run /\ waits'[x].node = m
             /\ \A y \in WaitIds \ {x} : waits'[y] = waits[y]
    BY <1>2, InsertingOpensOne
  <2>2. NeedsRow(job[t].run, m)
    BY <1>2 DEF PersistWait, TodoNeeded
  <2>3. x \notin OpenRows(r)
    BY DEF FreeIds, OpenRows
  <2>4. ASSUME NEW y \in (OpenRows(r) \cap RowsOf(r, n))', y # x
        PROVE  y \in OpenRows(r) \cap RowsOf(r, n)
    BY <2>1, <2>4 DEF RowsOf, OpenRows
  <2>5. CASE v # x /\ w # x
    BY <2>4, <2>5 DEF OneOpenWait
  <2>6. ASSUME NEW y \in (OpenRows(r) \cap RowsOf(r, n))', y # x,
               x \in (OpenRows(r) \cap RowsOf(r, n))'
        PROVE  FALSE
    <3>1. r = job[t].run /\ n = m
      BY <2>1, <2>3, <2>6 DEF RowsOf, OpenRows
    <3>2. y \in OpenRows(r) /\ waits[y].node = n
      BY <2>4, <2>6 DEF RowsOf
    <3> QED BY <2>2, <3>1, <3>2 DEF NeedsRow
  <2> QED BY <2>5, <2>6
<1> QED BY <1>1, <1>2, WaitsStep

LEMMA TodoNeededNext ==
    ASSUME Typing, LockHolders, TodoNeeded, [Next]_vars
    PROVE  TodoNeeded'
<1> SUFFICES ASSUME NEW u \in Tasks, pc'[u] = "persistWaits", NEW n \in job'[u].todo
             PROVE  NeedsRow(job[u].run, n)'
  BY DEF TodoNeeded
<1>0. /\ pc \in [Tasks -> Outside \cup Locked] /\ job \in [Tasks -> Job]
      /\ job[u] \in Job /\ pc[u] # "idle" => job[u].run \in Runs
  BY DEF Typing, TypeOK
\* What one task still has to insert no settling takes away.
<1>1. ASSUME SettlesOnly, NEW r \in Runs, NeedsRow(r, n), job'[u].run = r
      PROVE  NeedsRow(job[u].run, n)'
  BY <1>1, SettlingOpensNothing DEF NeedsRow
<1>2. ASSUME pc[u] = "persistWaits", job'[u] = job[u], SettlesOnly
      PROVE  NeedsRow(job[u].run, n)'
  BY <1>0, <1>1, <1>2 DEF TodoNeeded
\* An insertion: by the task itself, or by another task on another run.
<1>3. ASSUME NEW t \in Tasks, PersistWait(t)
      PROVE  NeedsRow(job[u].run, n)'
  <2>1. PICK m \in job[t].todo, x \in FreeIds :
             /\ \A r \in Runs : OpenRows(r)' = IF r = job[t].run THEN OpenRows(r) \cup {x}
                                               ELSE OpenRows(r)
             /\ waits'[x].run = job[t].run /\ waits'[x].node = m
             /\ \A v \in WaitIds \ {x} : waits'[v] = waits[v]
             /\ job'[t].todo = job[t].todo \ {m} /\ job'[t].run = job[t].run
             /\ \A v \in Tasks \ {t} : job'[v] = job[v]
    BY <1>3, InsertingOpensOne
  <2>2. /\ pc[u] = "persistWaits" /\ pc[t] = "persistWaits"
        /\ n \in job[u].todo /\ job'[u].run = job[u].run /\ job[u].run \in Runs
    BY <1>0, <1>3, <2>1 DEF PersistWait
  <2>3. NeedsRow(job[u].run, n)
    BY <2>2 DEF TodoNeeded
  <2>4. \A v \in OpenRows(job[u].run) : waits'[v] = waits[v]
    BY <2>1 DEF OpenRows, FreeIds
  <2>5. CASE t = u
    <3>1. n # m /\ OpenRows(job[u].run)' = OpenRows(job[u].run) \cup {x} /\ waits'[x].node = m
      BY <2>1, <2>2, <2>5
    <3> QED BY <2>2, <2>3, <2>4, <3>1 DEF NeedsRow
  <2>6. CASE t # u
    <3>1. job[u].run # job[t].run
      BY <2>2, <2>6 DEF LockHolders, HoldsLock
    <3>2. OpenRows(job[u].run)' = OpenRows(job[u].run)
      BY <2>1, <2>2, <3>1
    <3> QED BY <2>2, <2>3, <2>4, <3>2 DEF NeedsRow
  <2> QED BY <2>5, <2>6
<1>4. CASE SettlesOnly /\ Tick(u)
  <2>1. PICK verdict \in RunState, graph \in GraphState, asks \in SUBSET Nodes :
          \E took : TickTo(u, verdict, graph, asks, took)
    BY <1>4, TickTakes
  <2> DEFINE missing == {m \in asks : NeedsRow(job[u].run, m)}
  <2>2. job'[u] = [job[u] EXCEPT !.graph = graph, !.verdict = verdict, !.todo = missing]
    BY <1>0, <2>1 DEF TickTo
  <2>3. job'[u].run = job[u].run /\ job'[u].todo = missing
    <3> HIDE DEF missing
    <3> QED BY <1>0, <2>2 DEF Job
  <2>4. NeedsRow(job[u].run, n) /\ job[u].run \in Runs
    BY <1>0, <1>4, <2>3 DEF Tick
  <2> QED BY <1>1, <1>4, <2>3, <2>4
<1>5. ASSUME SettlesOnly, ~Tick(u), ~\E t \in Tasks : PersistWait(t)
      PROVE  pc[u] = "persistWaits" /\ job'[u] = job[u]
  <2>1. CASE \E t \in Tasks : Continue(t)
    <3>1. PICK t \in Tasks : Continue(t)
      BY <2>1
    <3>2. CASE ResolveSnapshot(t) \/ SaveQueued(t) \/ ToPreparing(t) \/ Prepare(t)
               \/ ToRunning(t) \/ ReadRun(t) \/ Fetch(t) \/ BackToRunning(t)
      BY <1>0, <3>2 DEF ResolveSnapshot, SaveQueued, ToPreparing, Prepare, ToRunning, ReadRun,
                        Fetch, BackToRunning, Goto, Done
    <3>3. CASE DriveThrows(t) \/ WaitsPersisted(t) \/ SaveState(t) \/ Suspend(t) \/ CancelWaits(t) \/ ReleaseClaim(t)
               \/ Finish(t) \/ FailWaits(t) \/ FailClaim(t) \/ FailRun(t)
      BY <1>0, <3>3 DEF DriveThrows, WaitsPersisted, SaveState, Suspend, CancelWaits, ReleaseClaim, Finish,
                        FailWaits, FailClaim, FailRun, LeaveDrive, Goto, Done
    <3>4. CASE Tick(t)
      <4>1. PICK verdict, graph, asks, took : TickTo(t, verdict, graph, asks, took)
        BY <3>4, TickTakes
      <4>2. t # u /\ pc'[u] = pc[u] /\ job'[u] = job[u]
        BY <1>0, <1>5, <3>4, <4>1 DEF TickTo, Goto
      <4> QED BY <4>2
    <3> QED BY <1>5, <3>1, <3>2, <3>3, <3>4 DEF Continue
  <2>2. CASE \E t \in Tasks : Request(t)
    <3>1. PICK t \in Tasks : Request(t)
      BY <2>2
    <3>2. pc'[t] \in {"idle", "claimed", "resumeQueue"}
      <4>1. CASE \E r \in Runs : Claim(t, r)
        BY <1>0, <4>1 DEF Claim, Goto
      <4>2. CASE \E w \in WaitIds : Satisfy(t, w)
        BY <1>0, <4>2 DEF Satisfy, Accept, ResumeWith, Goto
      <4>3. CASE \E w \in WaitIds : FireDueTimer(t, w)
        BY <1>0, <4>3 DEF FireDueTimer, Accept, ResumeWith, Goto
      <4> QED BY <3>1, <4>1, <4>2, <4>3 DEF Request
    <3>3. t # u
      BY <3>2
    <3>4. CASE \E r \in Runs : Claim(t, r)
      BY <1>0, <3>3, <3>4 DEF Claim, Goto
    <3>5. CASE \E w \in WaitIds : Satisfy(t, w)
      BY <1>0, <3>3, <3>5 DEF Satisfy, Accept, ResumeWith, Goto
    <3>6. CASE \E w \in WaitIds : FireDueTimer(t, w)
      BY <1>0, <3>3, <3>6 DEF FireDueTimer, Accept, ResumeWith, Goto
    <3> QED BY <3>1, <3>4, <3>5, <3>6 DEF Request
  <2>3. CASE Recover
    BY <1>0, <2>3 DEF Recover, V1Recover, RecoverList, RecoverRun, ReleaseOrphanedClaims,
                      ResumeWith, Goto
  <2>4. CASE Crash
    BY <2>4 DEF Crash
  <2>5. CASE Restart \/ (\E r \in Runs : Cancel(r) \/ ContinueCancel(r)) \/ UNCHANGED vars
    BY <2>5 DEF Restart, Cancel, ContinueCancel, CancelRows, CancelClaim, CancelState, vars,
                volatile
  <2> QED BY <2>1, <2>2, <2>3, <2>4, <2>5 DEF Next
<1> QED BY <1>2, <1>3, <1>4, <1>5, WaitsStep

\* A node never has two open conditions, however often the tick that asks is
\* replayed: the dedupe of persistWaits reads the rows under the run's lock,
\* so they are still missing when it inserts them.
THEOREM OneQuestionAtATime == Spec => []OneOpenWait
<1> DEFINE IInv == Typing /\ LockHolders /\ TodoNeeded /\ OneOpenWait
<1>1. Init => IInv
  <2>1. Init => TodoNeeded /\ OneOpenWait
    BY DEF Init, TodoNeeded, OneOpenWait, OpenRows, NoRow
  <2> QED BY <2>1, TypingInit, LockHoldersInit
<1>2. IInv /\ [Next]_vars => IInv'
  BY TypingNext, LockHoldersNext, TodoNeededNext, OneOpenWaitNext
<1>3. IInv => OneOpenWait
  OBVIOUS
<1> QED BY <1>1, <1>2, <1>3, PTL DEF Spec

=============================================================================
