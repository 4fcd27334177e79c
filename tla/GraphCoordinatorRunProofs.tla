---------------------- MODULE GraphCoordinatorRunProofs ----------------------
(***************************************************************************)
(* The stored states of runs, the claims of their items, and what the wait *)
(* rows promise to people and parked runs, for every set of runs, items,   *)
(* nodes, tasks and wait rows.                                             *)
(***************************************************************************)
EXTENDS GraphCoordinatorProofs

-----------------------------------------------------------------------------
(* The copy of a run in a task's hands *)

\* Nobody else is busy with the run of t.
Alone(t) == \A u \in Tasks \ {t} : pc[u] # "idle" => job[t].run # job[u].run

\* The row of r is in the state a lock holder believes it to be in, unless an operator
\* has cancelled it, which takes no lock.
Stored(r, state) == runs[r] = state \/ ("cancel" \in Env /\ runs[r] = "CANCELLED")

\* A start works on a run whose row is what its last step has made of it; a resumption
\* holds a copy of the stored state, which nobody else changes under its lock.  Whoever
\* drives a run has taken it out of its parked state.
CopyOf(t) ==
    LET r == job[t].run IN
    /\ pc[t] \in {"claimed", "startQueue"} => runs[r] = "none" /\ Alone(t)
    /\ pc[t] = "queued" => Stored(r, "QUEUED")
    /\ pc[t] \in {"prepare", "running"} => Stored(r, "PREPARING")
    /\ pc[t] \in {"fetch", "resumed"} \cup Driving =>
          Stored(r, job[t].state) /\ job[t].state # "none"
    /\ pc[t] \in Driving => job[t].state \notin Parked

CopyCurrent == \A t \in Tasks : CopyOf(t)

\* Only runs that were started have rows, are listed for recovery or are cancelled.
OnlyStarted ==
    /\ \A w \in WaitIds : waits[w] \in WaitRow => runs[waits[w].run] # "none"
    /\ \A r \in Runs : recovery.todo[r] # "none" => runs[r] # "none"
    /\ \A r \in Runs : cancels[r].pc # "no" => runs[r] # "none" /\ "cancel" \in Env

\* While the daemon is down, or its version 1 scheduler recovers the runs it finds, nobody
\* is at work on any.
QuietBoot == ~up \/ recovery.phase = "v1" => \A t \in Tasks : pc[t] = "idle"

StatesInv == CopyCurrent /\ OnlyStarted /\ QuietBoot

-----------------------------------------------------------------------------
(* What a step leaves alone *)

USE DEF Outside, Locked, Driving

\* A tick leaves the task with the outcome to store, and its run and its answer.
LEMMA TickMoves ==
    ASSUME Typing, NEW t \in Tasks, Tick(t)
    PROVE  /\ pc'[t] \in {"persistWaits", "saveState"}
           /\ job'[t].run = job[t].run /\ job'[t].sat = job[t].sat
<1>1. pc \in [Tasks -> Outside \cup Locked] /\ job \in [Tasks -> Job]
  BY DEF Typing, TypeOK
<1>2. PICK verdict, graph, asks, took : TickTo(t, verdict, graph, asks, took)
  BY DEF Tick
<1>3. PICK label \in {"persistWaits", "saveState"} : pc' = [pc EXCEPT ![t] = label]
  BY <1>2 DEF TickTo, Goto
<1>4. PICK todo : job' = [job EXCEPT ![t] = [@ EXCEPT !.graph = graph, !.verdict = verdict, !.todo = todo]]
  BY <1>2 DEF TickTo
<1>5. pc'[t] = label
  BY <1>1, <1>3
<1>6. job'[t].run = job[t].run /\ job'[t].sat = job[t].sat
  BY <1>1, <1>4 DEF Job
<1> QED BY <1>3, <1>5, <1>6

\* A task under way keeps to its own locals and its own run.
LEMMA ContinueFrame ==
    ASSUME Typing, LockHolders, NEW t \in Tasks, Continue(t)
    PROVE  /\ pc[t] # "idle" /\ job[t].run \in Runs
           /\ HoldsLock(t) \/ (pc[t] = "claimed" /\ UNCHANGED runs)
           /\ \A u \in Tasks \ {t} : pc'[u] = pc[u] /\ job'[u] = job[u]
           /\ pc'[t] # "idle" => job'[t].run = job[t].run
           /\ \A r \in Runs \ {job[t].run} : runs'[r] = runs[r] /\ graphs'[r] = graphs[r]
           /\ UNCHANGED <<recovery, up, crashes, cancels, supplemental>>
<1>0. /\ pc \in [Tasks -> Outside \cup Locked] /\ job \in [Tasks -> Job]
      /\ runs \in [Runs -> RunState \cup {"none"}] /\ graphs \in [Runs -> GraphState]
      /\ pc[t] \in Locked => HoldsLock(t)
      /\ pc[t] # "idle" => job[t].run \in Runs
  BY DEF Typing, TypeOK, LockHolders
<1> DEFINE Own == /\ HoldsLock(t) \/ (pc[t] = "claimed" /\ UNCHANGED runs)
                  /\ pc[t] # "idle"
                  /\ \A u \in Tasks \ {t} : pc'[u] = pc[u] /\ job'[u] = job[u]
                  /\ \A r \in Runs \ {job[t].run} : runs'[r] = runs[r] /\ graphs'[r] = graphs[r]
                  /\ UNCHANGED <<recovery, up, crashes, cancels, supplemental>>
<1>1. ASSUME ResolveSnapshot(t) \/ SaveQueued(t) \/ ToPreparing(t) \/ Prepare(t) \/ ToRunning(t)
             \/ ReadRun(t) \/ Fetch(t) \/ BackToRunning(t)
      PROVE  Own
  BY <1>0, <1>1 DEF ResolveSnapshot, SaveQueued, ToPreparing, Prepare, ToRunning, ReadRun, Fetch,
                    BackToRunning, SaveRun, Goto, Done, durable
<1>2. ASSUME Tick(t)
      PROVE  Own
  <2>1. PICK verdict, graph, asks, took : TickTo(t, verdict, graph, asks, took)
    BY <1>2, TickTakes
  <2> QED BY <1>0, <1>2, <2>1 DEF Tick, TickTo, Goto
<1>3. ASSUME DriveThrows(t) \/ PersistWait(t) \/ WaitsPersisted(t) \/ SaveState(t) \/ Suspend(t)
             \/ CancelWaits(t) \/ ReleaseClaim(t) \/ Finish(t) \/ FailWaits(t) \/ FailClaim(t)
             \/ FailRun(t)
      PROVE  Own
  BY <1>0, <1>3 DEF DriveThrows, PersistWait, WaitsPersisted, SaveState, Suspend, CancelWaits,
                    ReleaseClaim, Finish, FailWaits, FailClaim, FailRun, LeaveDrive, SaveRun, Goto,
                    Done, durable
<1>4. Own
  BY <1>1, <1>2, <1>3 DEF Continue
<1>5. pc'[t] # "idle" => job'[t].run = job[t].run
  <2>1. CASE ResolveSnapshot(t)
    BY <1>0, <2>1 DEF ResolveSnapshot, Goto
  <2>2. CASE ~ResolveSnapshot(t)
    <3>1. CASE Tick(t)
      BY <3>1, TickMoves
    <3>2. CASE ~Tick(t)
      <4>1. pc'[t] \in Locked \cup {"idle"}
        BY <1>0, <2>2, <3>2 DEF Continue, SaveQueued, ToPreparing, Prepare, ToRunning, ReadRun, Fetch,
              BackToRunning, DriveThrows, PersistWait, WaitsPersisted, SaveState, Suspend, CancelWaits,
              ReleaseClaim, Finish, FailWaits, FailClaim, FailRun, LeaveDrive, Goto, Done
      <4> QED BY <1>0, <4>1, ContinueShape DEF Done, Goto
    <3> QED BY <3>1, <3>2
  <2> QED BY <2>1, <2>2
<1> HIDE DEF Own
<1> QED BY <1>0, <1>4, <1>5 DEF Own

-----------------------------------------------------------------------------
(* The stored state of a run *)

\* The state a task stores is that of its place in start(), resume or drive().
Target(t, state) ==
    \/ pc[t] = "startQueue" /\ state = "QUEUED"
    \/ pc[t] = "queued" /\ state = "PREPARING"
    \/ pc[t] \in {"running", "resumed"} /\ state = "RUNNING"
    \/ pc[t] = "suspend" /\ state \in Parked
    \/ pc[t] = "finish" /\ state = job[t].verdict
    \/ pc[t] = "failRun" /\ state = "FAILED"

\* A lock holder takes the run from the state it believes it in along the table, and
\* out of a parked state only back to RUNNING.
Writes(t, state) ==
    LET r == job[t].run IN
    /\ r \in Runs /\ HoldsLock(t) /\ state \in RunState
    /\ SaveRun(r, state) /\ Target(t, state)
    /\ \/ pc[t] = "startQueue" /\ runs[r] = "none" /\ state = "QUEUED"
       \/ \E believed \in RunState :
             /\ Stored(r, believed) /\ canTransition(believed, state)
             /\ believed \in Parked => state = "RUNNING"

LEMMA Table ==
    /\ canTransition("QUEUED", "PREPARING")
    /\ canTransition("PREPARING", "RUNNING")
    /\ \A s \in Parked : canTransition(s, "RUNNING")
    /\ \A from \in RunState : \A to : canTransition(from, to) => to \in RunState
  BY DEF canTransition, RUN_TRANSITIONS, RunState, Parked

\* The version 1 scheduler fails what it finds in progress, with nobody at work.
V1Fails ==
    /\ V1Recover
    /\ \A t \in Tasks : pc[t] = "idle"
    /\ \A r \in Runs : runs'[r] = runs[r] \/ (runs[r] # "none" /\ runs'[r] = "FAILED")

\* What a step may do to the state column: lock holders, cancel() and the version 1
\* scheduler write it.
LEMMA RunsStep ==
    ASSUME Typing, LockHolders, StatesInv, [Next]_vars
    PROVE  \/ UNCHANGED runs
           \/ \E t \in Tasks, state \in RunState : Continue(t) /\ Writes(t, state)
           \/ \E r \in Runs : CancelState(r)
           \/ V1Fails
<1>0. /\ \A t \in Tasks : /\ job[t] \in Job /\ (pc[t] # "idle" => job[t].run \in Runs)
                          /\ (pc[t] \in Locked => HoldsLock(t))
                          /\ CopyOf(t)
      /\ runs \in [Runs -> RunState \cup {"none"}]
      /\ RunState \cap {"none"} = {}
  BY DEF Typing, TypeOK, LockHolders, StatesInv, CopyCurrent, RunState
<1>1. ASSUME NEW t \in Tasks, Continue(t)
      PROVE  UNCHANGED runs \/ \E state \in RunState : Writes(t, state)
  <2> DEFINE r == job[t].run
  <2>1. CASE SaveQueued(t)
    <3>1. Writes(t, "QUEUED")
      BY <1>0, <2>1 DEF SaveQueued, Writes, Target, CopyOf, RunState
    <3> QED BY <3>1 DEF RunState
  <2>2. CASE ToPreparing(t)
    <3>1. Writes(t, "PREPARING")
      BY <1>0, <2>2, Table DEF ToPreparing, Writes, Target, CopyOf, RunState, Parked
    <3> QED BY <3>1 DEF RunState
  <2>3. CASE ToRunning(t)
    <3>1. Writes(t, "RUNNING")
      BY <1>0, <2>3, Table DEF ToRunning, Writes, Target, CopyOf, RunState, Parked
    <3> QED BY <3>1 DEF RunState
  <2>4. CASE BackToRunning(t)
    <3>1. CASE job[t].state \in Parked
      <4>1. Writes(t, "RUNNING")
        BY <1>0, <2>4, <3>1, Table DEF BackToRunning, Writes, Target, CopyOf, RunState, Parked
      <4> QED BY <4>1 DEF RunState
    <3>2. CASE job[t].state \notin Parked
      BY <2>4, <3>2 DEF BackToRunning
    <3> QED BY <3>1, <3>2
  <2>5. ASSUME NEW state \in RunState, pc[t] \in Driving, SaveRun(r, state), Target(t, state),
               canTransition(job[t].state, state)
        PROVE  Writes(t, state)
    <3>1. Stored(r, job[t].state) /\ job[t].state \notin Parked /\ job[t].state \in RunState
      BY <1>0, <2>5 DEF CopyOf, Job
    <3>2. r \in Runs /\ HoldsLock(t)
      BY <1>0, <2>5
    <3> QED BY <2>5, <3>1, <3>2 DEF Writes
  <2>6. CASE Suspend(t)
    <3>1. ParkedState(r) \in RunState /\ ParkedState(r) \in Parked
      BY DEF ParkedState, RunState, Parked
    <3>2. UNCHANGED runs \/ (SaveRun(r, ParkedState(r)) /\ canTransition(job[t].state, ParkedState(r)))
      BY <2>6 DEF Suspend
    <3>3. pc[t] \in Driving /\ Target(t, ParkedState(r))
      BY <2>6, <3>1 DEF Suspend, Target
    <3> HIDE DEF r
    <3> QED BY <2>5, <3>1, <3>2, <3>3
  <2>7. CASE Finish(t)
    <3>1. CASE canTransition(job[t].state, job[t].verdict)
      <4>1. job[t].verdict \in RunState
        BY <1>0, <2>7, <3>1, Table DEF Finish, CopyOf, Job
      <4>2. Writes(t, job[t].verdict)
        BY <2>5, <2>7, <3>1, <4>1 DEF Finish, Target
      <4> QED BY <4>1, <4>2
    <3> QED BY <2>7, <3>1 DEF Finish
  <2>8. CASE FailRun(t)
    <3>1. CASE canTransition(runs[r], "FAILED")
      <4>1. runs[r] \in RunState /\ runs[r] \notin Parked /\ "FAILED" \in RunState
        BY <1>0, <2>8 DEF FailRun, CopyOf, Stored, RunState, Parked
      <4>2. Writes(t, "FAILED")
        BY <1>0, <2>8, <3>1, <4>1 DEF FailRun, Writes, Target, Stored
      <4> QED BY <4>1, <4>2
    <3> QED BY <2>8, <3>1 DEF FailRun
  <2>9. CASE Tick(t)
    BY <2>9 DEF Tick
  <2>10. CASE ResolveSnapshot(t) \/ Prepare(t) \/ ReadRun(t) \/ Fetch(t) \/ DriveThrows(t)
              \/ PersistWait(t) \/ WaitsPersisted(t) \/ SaveState(t) \/ CancelWaits(t)
              \/ ReleaseClaim(t) \/ FailWaits(t) \/ FailClaim(t)
    BY <2>10 DEF ResolveSnapshot, Prepare, ReadRun, Fetch, DriveThrows, PersistWait, WaitsPersisted,
                 SaveState, CancelWaits, ReleaseClaim, FailWaits, FailClaim, durable
  <2> QED BY <1>1, <2>1, <2>2, <2>3, <2>4, <2>6, <2>7, <2>8, <2>9, <2>10 DEF Continue
<1>2. CASE \E t \in Tasks : Request(t)
  BY <1>2 DEF Request, Claim, Satisfy, FireDueTimer
<1>3. CASE \E r \in Runs : Cancel(r) \/ ContinueCancel(r)
  BY <1>3 DEF Cancel, ContinueCancel, CancelRows, CancelClaim, durable
<1>4. CASE V1Recover
  <2>1. \A t \in Tasks : pc[t] = "idle"
    BY <1>4 DEF V1Recover, StatesInv, QuietBoot
  <2>2. \A r \in Runs : runs'[r] = runs[r] \/ (runs[r] # "none" /\ runs'[r] = "FAILED")
    BY <1>0, <1>4 DEF V1Recover
  <2> QED BY <1>4, <2>1, <2>2 DEF V1Fails
<1>5. CASE RecoverList \/ ReleaseOrphanedClaims \/ \E r \in Runs : RecoverRun(r)
  BY <1>5 DEF RecoverList, RecoverRun, ReleaseOrphanedClaims, durable
<1>6. CASE Crash \/ Restart \/ UNCHANGED vars
  BY <1>6 DEF Crash, Restart, vars, durable
<1> QED BY <1>1, <1>2, <1>3, <1>4, <1>5, <1>6 DEF Next, Recover

\* A run that was started never loses its row.
LEMMA StartedStays ==
    ASSUME Typing, LockHolders, StatesInv, [Next]_vars, NEW r \in Runs, runs[r] # "none"
    PROVE  runs'[r] # "none"
<1>1. runs \in [Runs -> RunState \cup {"none"}] /\ "none" \notin RunState
  BY DEF Typing, TypeOK, RunState
<1>2. ASSUME NEW t \in Tasks, NEW state \in RunState, Writes(t, state)
      PROVE  runs'[r] # "none"
  BY <1>1, <1>2 DEF Writes, SaveRun
<1>3. ASSUME NEW q \in Runs, CancelState(q)
      PROVE  runs'[r] # "none"
  BY <1>1, <1>3 DEF CancelState, SaveRun
<1> QED BY <1>2, <1>3, RunsStep DEF V1Fails

\* Whoever works on a run, or is about to start it, does so while nobody else takes a
\* step on it.
LEMMA Apart ==
    ASSUME Typing, LockHolders, StatesInv, NEW t \in Tasks, NEW u \in Tasks \ {t}, Continue(t),
           pc[u] \notin {"idle", "resumeQueue"}
    PROVE  job[u].run # job[t].run
<1>0. /\ CopyOf(u) /\ CopyOf(t)
      /\ pc[u] \in Locked => HoldsLock(u)
      /\ pc[u] \in Outside \cup Locked
      /\ pc[t] # "idle" /\ (HoldsLock(t) \/ pc[t] = "claimed")
  BY ContinueFrame DEF Typing, TypeOK, StatesInv, CopyCurrent, LockHolders
<1>1. CASE pc[u] \in {"claimed", "startQueue"}
  BY <1>0, <1>1 DEF CopyOf, Alone
<1>2. CASE pc[u] \in Locked /\ HoldsLock(t)
  BY <1>0, <1>2 DEF HoldsLock
<1>3. CASE pc[u] \in Locked /\ pc[t] = "claimed"
  BY <1>0, <1>3 DEF CopyOf, Alone
<1> QED BY <1>0, <1>1, <1>2, <1>3

\* The step of a task keeps its own copy current.
LEMMA OwnCopy ==
    ASSUME Typing, LockHolders, StatesInv, NEW t \in Tasks, Continue(t)
    PROVE  CopyOf(t)'
<1> DEFINE r == job[t].run
<1>0. /\ job[t] \in Job /\ r \in Runs /\ CopyOf(t)
      /\ runs \in [Runs -> RunState \cup {"none"}] /\ job \in [Tasks -> Job]
      /\ pc \in [Tasks -> Outside \cup Locked]
  BY ContinueFrame DEF Typing, TypeOK, StatesInv, CopyCurrent
<1>1. CASE ResolveSnapshot(t)
  <2>1. CASE pc'[t] = "idle"
    BY <2>1 DEF CopyOf
  <2>2. CASE pc'[t] # "idle"
    <3>1. pc'[t] = "startQueue" /\ pc[t] = "claimed" /\ UNCHANGED <<job, runs>>
      BY <1>0, <1>1, <2>2 DEF ResolveSnapshot, Goto, durable
    <3>2. \A u \in Tasks \ {t} : pc'[u] = pc[u]
      BY ContinueFrame
    <3> QED BY <1>0, <3>1, <3>2 DEF CopyOf, Alone
  <2> QED BY <2>1, <2>2
<1>2. CASE SaveQueued(t) \/ ToPreparing(t)
  BY <1>0, <1>2 DEF SaveQueued, ToPreparing, SaveRun, Goto, CopyOf, Stored
<1>3. CASE Prepare(t)
  BY <1>0, <1>3 DEF Prepare, Goto, Done, CopyOf, Stored
<1>4. CASE ToRunning(t)
  <2>1. job'[t].state = "RUNNING" /\ job'[t].run = r
    BY <1>0, <1>4 DEF ToRunning, Job
  <2>2. pc'[t] = "tick" /\ runs'[r] = "RUNNING"
    BY <1>0, <1>4 DEF ToRunning, SaveRun, Goto
  <2> QED BY <2>1, <2>2 DEF CopyOf, Stored, Parked
<1>5. CASE ReadRun(t)
  <2>1. CASE Done(t)
    BY <1>0, <2>1 DEF Done, Goto, CopyOf
  <2>2. CASE ~Done(t)
    <3>1. /\ job' = [job EXCEPT ![t] = [job[t] EXCEPT !.state = runs[r], !.graph = graphs[r]]]
          /\ pc'[t] = "fetch" /\ runs[r] # "none" /\ UNCHANGED runs
      BY <1>0, <1>5, <2>2 DEF ReadRun, Goto, durable
    <3>2. job'[t].state = runs[r] /\ job'[t].run = r
      BY <1>0, <3>1 DEF Job
    <3> QED BY <3>1, <3>2 DEF CopyOf, Stored
  <2> QED BY <2>1, <2>2
<1>6. CASE Fetch(t)
  BY <1>0, <1>6 DEF Fetch, Goto, Done, CopyOf, Stored
<1>7. CASE BackToRunning(t)
  <2> DEFINE back == IF job[t].state \in Parked THEN "RUNNING" ELSE job[t].state
  <2>1. job'[t].state = back /\ job'[t].run = r
    BY <1>0, <1>7 DEF BackToRunning, Job
  <2>2. /\ pc'[t] = "tick" /\ pc[t] = "resumed"
        /\ runs'[r] = IF job[t].state \in Parked THEN "RUNNING" ELSE runs[r]
    BY <1>0, <1>7 DEF BackToRunning, SaveRun, Goto
  <2> QED BY <1>0, <2>1, <2>2 DEF CopyOf, Stored, Parked
<1>8. CASE Tick(t)
  <2>1. PICK verdict, graph, asks, took : TickTo(t, verdict, graph, asks, took)
    BY <1>8, TickTakes
  <2> DEFINE missing == {n \in asks : NeedsRow(job[t].run, n)}
  <2>2. job' = [job EXCEPT ![t] = [job[t] EXCEPT !.graph = graph, !.verdict = verdict, !.todo = missing]]
    BY <2>1 DEF TickTo
  <2> HIDE DEF missing
  <2>3. job'[t].run = r /\ job'[t].state = job[t].state
    BY <1>0, <2>2 DEF Job
  <2>4. UNCHANGED runs /\ pc[t] = "tick" /\ pc'[t] \in Driving
    BY <1>0, <1>8, <2>1 DEF Tick, TickTo, Goto
  <2> QED BY <1>0, <2>3, <2>4 DEF CopyOf, Stored
<1>9. CASE PersistWait(t)
  <2>1. PICK n \in job[t].todo : job' = [job EXCEPT ![t] = [job[t] EXCEPT !.todo = @ \ {n}]]
    BY <1>9 DEF PersistWait
  <2>2. job'[t].run = r /\ job'[t].state = job[t].state
    BY <1>0, <2>1 DEF Job
  <2> QED BY <1>0, <1>9, <2>2 DEF PersistWait, CopyOf, Stored
<1>10. CASE DriveThrows(t) \/ WaitsPersisted(t) \/ SaveState(t) \/ CancelWaits(t)
            \/ ReleaseClaim(t) \/ FailWaits(t) \/ FailClaim(t)
  <2>1. /\ UNCHANGED <<runs, job>> /\ pc[t] \in Driving /\ pc'[t] \in Driving
    BY <1>0, <1>10 DEF DriveThrows, WaitsPersisted, SaveState, CancelWaits, ReleaseClaim, FailWaits,
                       FailClaim, Goto, durable
  <2> QED BY <1>0, <2>1 DEF CopyOf, Stored
<1>11. CASE Suspend(t) \/ Finish(t) \/ FailRun(t)
  <2>1. CASE Done(t)
    BY <1>0, <2>1 DEF Done, Goto, CopyOf
  <2>2. CASE ~Done(t)
    <3>1. /\ UNCHANGED <<runs, job>> /\ pc[t] \in Driving /\ pc'[t] \in Driving
      BY <1>0, <1>11, <2>2 DEF Suspend, Finish, FailRun, LeaveDrive, Goto
    <3> QED BY <1>0, <3>1 DEF CopyOf, Stored
  <2> QED BY <2>1, <2>2
<1> QED BY <1>1, <1>2, <1>3, <1>4, <1>5, <1>6, <1>7, <1>8, <1>9, <1>10, <1>11 DEF Continue

\* Nobody else's step makes a copy stale, and a start stays alone with its run.
LEMMA CopyCurrentNext ==
    ASSUME Typing, LockHolders, StatesInv, [Next]_vars
    PROVE  CopyCurrent'
<1> SUFFICES ASSUME NEW u \in Tasks
             PROVE  CopyOf(u)'
  BY DEF CopyCurrent
<1>0. /\ CopyOf(u) /\ job[u] \in Job
      /\ pc[u] # "idle" => job[u].run \in Runs
      /\ pc[u] \in Locked => HoldsLock(u)
      /\ pc \in [Tasks -> Outside \cup Locked] /\ job \in [Tasks -> Job]
      /\ runs \in [Runs -> RunState \cup {"none"}]
  BY DEF Typing, TypeOK, StatesInv, CopyCurrent, LockHolders
<1>1. ASSUME NEW t \in Tasks \ {u}, Continue(t)
      PROVE  CopyOf(u)'
  <2>1. /\ pc'[u] = pc[u] /\ job'[u] = job[u] /\ pc[t] # "idle" /\ job[t].run \in Runs
        /\ HoldsLock(t) \/ (pc[t] = "claimed" /\ UNCHANGED runs)
        /\ \A v \in Tasks \ {t} : pc'[v] = pc[v] /\ job'[v] = job[v]
        /\ pc'[t] # "idle" => job'[t].run = job[t].run
        /\ \A r \in Runs \ {job[t].run} : runs'[r] = runs[r]
    BY <1>1, ContinueFrame
  <2>2. CASE pc[u] \in {"idle", "resumeQueue"}
    BY <2>1, <2>2 DEF CopyOf
  <2>3. CASE pc[u] \notin {"idle", "resumeQueue"}
    <3>1. job[u].run # job[t].run
      BY <1>1, <2>3, Apart
    <3>2. runs'[job[u].run] = runs[job[u].run] /\ (Alone(u) => Alone(u)')
      BY <1>0, <2>1, <2>3, <3>1 DEF Alone
    <3> QED BY <1>0, <2>1, <3>2 DEF CopyOf, Stored
  <2> QED BY <2>2, <2>3
\* A request starts a task: on a run nobody knows of yet, or on one that has a row.
<1>2. ASSUME NEW t \in Tasks, NEW r \in Runs, pc[t] = "idle", UNCHANGED runs,
             \A v \in Tasks \ {t} : pc'[v] = pc[v] /\ job'[v] = job[v],
             job'[t].run = r,
             \/ pc'[t] = "claimed" /\ runs[r] = "none" /\ \A v \in Tasks : job[v].run # r
             \/ pc'[t] = "resumeQueue" /\ runs[r] # "none"
      PROVE  CopyOf(u)'
  <2>1. CASE u = t
    BY <1>2, <2>1 DEF CopyOf, Alone
  <2>2. CASE u # t
    <3>1. CASE pc[u] \in {"claimed", "startQueue"}
      <4>1. runs[job[u].run] = "none" /\ Alone(u)
        BY <1>0, <3>1 DEF CopyOf
      <4>2. Alone(u)'
        BY <1>2, <2>2, <4>1 DEF Alone
      <4> QED BY <1>0, <1>2, <2>2, <4>1, <4>2 DEF CopyOf, Stored
    <3>2. CASE pc[u] \notin {"claimed", "startQueue"}
      BY <1>0, <1>2, <2>2, <3>2 DEF CopyOf, Stored
    <3> QED BY <3>1, <3>2
  <2> QED BY <2>1, <2>2
<1>3. ASSUME UNCHANGED <<runs, pc, job>>
      PROVE  CopyOf(u)'
  BY <1>0, <1>3 DEF CopyOf, Stored, Alone
<1>4. ASSUME NEW t \in Tasks, NEW w \in WaitIds, Accept(t, w), pc[t] = "idle", UNCHANGED runs
      PROVE  CopyOf(u)'
  <2>1. ResumeWith(t, waits[w].run, {w}) /\ waits[w].run \in Runs /\ waits[w] \in WaitRow
    <3>1. waits[w] \in WaitRow
      BY <1>4, RowType DEF Typing, TypeOK, Accept, trySatisfyWins
    <3> QED BY <1>4, <3>1, AcceptType
  <2>2. runs[waits[w].run] # "none"
    BY <2>1 DEF StatesInv, OnlyStarted
  <2>3. /\ pc'[t] = "resumeQueue" /\ job'[t].run = waits[w].run
        /\ \A v \in Tasks \ {t} : pc'[v] = pc[v] /\ job'[v] = job[v]
    BY <1>0, <2>1 DEF ResumeWith, Goto, NoJob
  <2> QED BY <1>2, <1>4, <2>1, <2>2, <2>3
<1>5. CASE \E t \in Tasks : Request(t)
  <2>1. PICK t \in Tasks : Request(t)
    BY <1>5
  <2>2. ASSUME NEW r \in Runs, Claim(t, r)
        PROVE  CopyOf(u)'
    <3>1. /\ pc[t] = "idle" /\ UNCHANGED runs /\ runs[r] = "none"
          /\ \A v \in Tasks : job[v].run # r
          /\ pc'[t] = "claimed" /\ job'[t].run = r
          /\ \A v \in Tasks \ {t} : pc'[v] = pc[v] /\ job'[v] = job[v]
      BY <1>0, <2>2 DEF Claim, Goto, NoJob
    <3> QED BY <1>2, <3>1
  <2>3. ASSUME NEW w \in WaitIds, Satisfy(t, w) \/ FireDueTimer(t, w)
        PROVE  CopyOf(u)'
    <3>1. /\ pc[t] = "idle" /\ UNCHANGED runs
          /\ Accept(t, w) \/ UNCHANGED <<pc, job>>
      BY <2>3 DEF Satisfy, FireDueTimer
    <3> QED BY <1>3, <1>4, <3>1
  <2> QED BY <2>1, <2>2, <2>3 DEF Request
<1>6. CASE \E r \in Runs : RecoverRun(r)
  <2>1. PICK r \in Runs : RecoverRun(r)
    BY <1>6
  <2>2. pc[Recovery] = "idle" /\ UNCHANGED runs /\ runs[r] # "none" /\ Recovery \in Tasks
    BY <2>1, CoordinatorAssumption DEF RecoverRun, StatesInv, OnlyStarted
  <2>3. CASE \E sat : ResumeWith(Recovery, r, sat)
    <3>1. /\ pc'[Recovery] = "resumeQueue" /\ job'[Recovery].run = r
          /\ \A v \in Tasks \ {Recovery} : pc'[v] = pc[v] /\ job'[v] = job[v]
      BY <1>0, <2>2, <2>3 DEF ResumeWith, Goto, NoJob
    <3> QED BY <1>2, <2>2, <3>1
  <2>4. CASE UNCHANGED <<pc, job>>
    BY <1>3, <2>2, <2>4
  <2> QED BY <2>1, <2>3, <2>4 DEF RecoverRun
<1>7. CASE \E r \in Runs : CancelState(r)
  <2>1. PICK r \in Runs : CancelState(r)
    BY <1>7
  <2>2. "cancel" \in Env /\ runs[r] # "none"
    BY <2>1 DEF CancelState, StatesInv, OnlyStarted
  <2>3. \A q \in Runs : runs'[q] = IF q = r THEN "CANCELLED" ELSE runs[q]
    BY <1>0, <2>1 DEF CancelState, SaveRun
  <2> QED BY <1>0, <2>1, <2>2, <2>3 DEF CancelState, CopyOf, Stored, Alone
<1>8. CASE \/ \E r \in Runs : Cancel(r) \/ CancelRows(r) \/ CancelClaim(r)
           \/ RecoverList \/ ReleaseOrphanedClaims \/ Restart \/ UNCHANGED vars
  BY <1>3, <1>8 DEF Cancel, CancelRows, CancelClaim, RecoverList, ReleaseOrphanedClaims, Restart,
                    vars, durable, volatile
<1>9. CASE Crash
  BY <1>9 DEF Crash, CopyOf
<1>10. CASE V1Recover
  BY <1>10 DEF V1Recover, StatesInv, QuietBoot, CopyOf
<1> QED BY <1>1, <1>5, <1>6, <1>7, <1>8, <1>9, <1>10, OwnCopy DEF Next, Recover, ContinueCancel

LEMMA OnlyStartedNext ==
    ASSUME Typing, LockHolders, StatesInv, [Next]_vars
    PROVE  OnlyStarted'
<1>0. /\ waits \in [WaitIds -> WaitRow \cup {NoRow}]
      /\ cancels \in [Runs -> [pc : {"no", "waits", "claim", "state"}, state : RunState \cup {"none"}]]
      /\ recovery.todo \in [Runs -> RunState \cup {"none"}]
      /\ OnlyStarted
  BY DEF Typing, TypeOK, StatesInv
<1>1. ASSUME NEW w \in WaitIds, waits'[w] \in WaitRow
      PROVE  runs'[waits'[w].run] # "none"
  <2>1. CASE SettlesOnly
    <3>1. waits[w] \in WaitRow /\ waits'[w].run = waits[w].run
      BY <1>0, <1>1, <2>1 DEF SettlesOnly, Settled, NoRow
    <3> QED BY <1>0, <3>1, StartedStays DEF OnlyStarted, WaitRow
  <2>2. CASE \E t \in Tasks : PersistWait(t)
    <3>1. PICK t \in Tasks : PersistWait(t)
      BY <2>2
    <3>2. PICK n \in job[t].todo, v \in FreeIds :
             waits' = [waits EXCEPT ![v] = [run |-> job[t].run, node |-> n, status |-> "open"]]
      BY <3>1, PersistWaitInserts
    <3>3. job[t].run \in Runs /\ runs[job[t].run] # "none"
      <4>1. pc[t] = "persistWaits" /\ job[t].run \in Runs
        BY <3>1 DEF PersistWait, Typing, TypeOK
      <4>2. Stored(job[t].run, job[t].state) /\ job[t].state # "none"
        BY <4>1 DEF StatesInv, CopyCurrent, CopyOf
      <4> QED BY <4>1, <4>2 DEF Stored
    <3>4. waits'[w] = waits[w] \/ waits'[w].run = job[t].run
      BY <1>0, <3>2 DEF FreeIds
    <3> QED BY <1>0, <1>1, <3>3, <3>4, StartedStays DEF OnlyStarted, WaitRow
  <2> QED BY <2>1, <2>2, WaitsStep
<1>2. ASSUME NEW r \in Runs, recovery'.todo[r] # "none"
      PROVE  runs'[r] # "none"
  <2>1. CASE UNCHANGED recovery
    BY <1>0, <1>2, <2>1, StartedStays DEF OnlyStarted
  <2>2. CASE RecoverList
    BY <1>2, <2>2, StartedStays DEF RecoverList
  <2>3. CASE \E q \in Runs : RecoverRun(q)
    <3>1. recovery.todo[r] # "none"
      BY <1>0, <1>2, <2>3 DEF RecoverRun, Typing, TypeOK
    <3> QED BY <1>0, <3>1, StartedStays DEF OnlyStarted
  <2>4. CASE Restart
    <3>1. recovery'.todo = recovery.todo
      BY <2>4 DEF Restart, Typing, TypeOK
    <3> QED BY <1>0, <1>2, <3>1, StartedStays DEF OnlyStarted
  <2>5. CASE ReleaseOrphanedClaims \/ Crash
    BY <1>2, <2>5 DEF ReleaseOrphanedClaims, Crash, NoRecovery
  <2>6. CASE \E t \in Tasks : Continue(t)
    BY <2>1, <2>6, ContinueFrame
  <2>7. CASE (\E t \in Tasks : Request(t)) \/ (\E q \in Runs : Cancel(q) \/ ContinueCancel(q))
             \/ UNCHANGED vars
    BY <2>1, <2>7 DEF Request, Claim, Satisfy, FireDueTimer, Cancel, ContinueCancel, CancelRows,
                      CancelClaim, CancelState, vars, volatile
  <2>8. CASE V1Recover
    <3>1. recovery'.todo = recovery.todo
      BY <2>8 DEF V1Recover, Typing, TypeOK
    <3> QED BY <1>0, <1>2, <3>1, StartedStays DEF OnlyStarted
  <2> QED BY <2>2, <2>3, <2>4, <2>5, <2>6, <2>7, <2>8 DEF Next, Recover
<1>3. ASSUME NEW r \in Runs, cancels'[r].pc # "no"
      PROVE  runs'[r] # "none" /\ "cancel" \in Env
  <2>1. cancels[r].pc # "no" \/ (\E q \in Runs : Cancel(q) /\ runs[r] \in Parked)
    <3>1. CASE UNCHANGED cancels
      BY <1>3, <3>1
    <3>2. CASE \E q \in Runs : Cancel(q)
      BY <1>0, <1>3, <3>2 DEF Cancel, NoCancel
    <3>3. CASE \E q \in Runs : ContinueCancel(q)
      BY <1>0, <1>3, <3>3 DEF ContinueCancel, CancelRows, CancelClaim, CancelState, NoCancel
    <3>4. CASE Crash
      BY <1>3, <3>4 DEF Crash, NoCancel
    <3>5. CASE \E t \in Tasks : Continue(t)
      BY <3>1, <3>5, ContinueFrame
    <3>6. CASE (\E t \in Tasks : Request(t)) \/ Recover \/ Restart \/ UNCHANGED vars
      BY <3>1, <3>6 DEF Request, Claim, Satisfy, FireDueTimer, Recover, V1Recover, RecoverList,
                        RecoverRun, ReleaseOrphanedClaims, Restart, vars, volatile
    <3> QED BY <3>2, <3>3, <3>4, <3>5, <3>6 DEF Next
  <2>2. runs[r] # "none" /\ "cancel" \in Env
    BY <1>0, <2>1 DEF OnlyStarted, Cancel, Parked
  <2> QED BY <2>2, StartedStays
<1> QED BY <1>1, <1>2, <1>3 DEF OnlyStarted

LEMMA QuietBootNext ==
    ASSUME Typing, LockHolders, StatesInv, [Next]_vars
    PROVE  QuietBoot'
<1>0. QuietBoot
  BY DEF StatesInv
<1>1. CASE \E t \in Tasks : Continue(t)
  <2>1. PICK t \in Tasks : Continue(t)
    BY <1>1
  <2>2. pc[t] # "idle" /\ UNCHANGED <<up, recovery>>
    BY <2>1, ContinueFrame
  <2> QED BY <1>0, <2>2 DEF QuietBoot
<1>2. CASE \E t \in Tasks : Request(t)
  BY <1>2 DEF Request, Claim, Satisfy, FireDueTimer, Serving, QuietBoot
<1>3. CASE \E r \in Runs : Cancel(r) \/ ContinueCancel(r)
  BY <1>0, <1>3 DEF Cancel, ContinueCancel, CancelRows, CancelClaim, CancelState, QuietBoot
<1>4. CASE \E r \in Runs : RecoverRun(r)
  BY <1>4 DEF RecoverRun, QuietBoot, Typing, TypeOK
<1>5. CASE V1Recover \/ RecoverList \/ ReleaseOrphanedClaims
  BY <1>5 DEF V1Recover, RecoverList, ReleaseOrphanedClaims, NoRecovery, QuietBoot, Typing, TypeOK
<1>6. CASE Crash
  BY <1>6 DEF Crash, QuietBoot
<1>7. CASE Restart \/ UNCHANGED vars
  BY <1>0, <1>7 DEF Restart, vars, volatile, QuietBoot
<1> QED BY <1>1, <1>2, <1>3, <1>4, <1>5, <1>6, <1>7 DEF Next, Recover

LEMMA StatesInit == Init => StatesInv
<1> SUFFICES ASSUME Init PROVE StatesInv
  OBVIOUS
<1>1. CopyCurrent
  BY DEF Init, CopyCurrent, CopyOf
<1>2. OnlyStarted
  BY DEF Init, OnlyStarted, NoRow, WaitRow, NoRecovery, NoCancel
<1>3. QuietBoot
  BY DEF Init, QuietBoot
<1> QED BY <1>1, <1>2, <1>3 DEF StatesInv

LEMMA StatesInvariant == Spec => [](Typing /\ LockHolders /\ StatesInv)
<1>1. Init => Typing /\ LockHolders /\ StatesInv
  BY TypingInit, LockHoldersInit, StatesInit
<1>2. Typing /\ LockHolders /\ StatesInv /\ [Next]_vars => (Typing /\ LockHolders /\ StatesInv)'
  BY TypingNext, LockHoldersNext, CopyCurrentNext, OnlyStartedNext, QuietBootNext DEF StatesInv
<1> QED BY <1>1, <1>2, PTL DEF Spec

\* A boot that leaves these tables to the coordinator never enters the phase of the
\* version 1 scheduler.
LEMMA NeverV1 ==
    ASSUME "v1" \notin Boot
    PROVE  Spec => [](Typing /\ LockHolders /\ recovery.phase # "v1")
<1> DEFINE Own == recovery.phase # "v1"
<1>1. Init => Typing /\ LockHolders /\ Own
  BY TypingInit, LockHoldersInit DEF Init, NoRecovery
<1>2. ASSUME Typing, LockHolders, Own, [Next]_vars
      PROVE  Own'
  <2>1. CASE UNCHANGED recovery
    BY <1>2, <2>1
  <2>2. CASE Restart
    BY <2>2 DEF Restart, Typing, TypeOK
  <2>3. CASE Recover \/ Crash
    BY <1>2, <2>3 DEF Recover, V1Recover, RecoverList, RecoverRun, ReleaseOrphanedClaims, Crash,
                      NoRecovery, Typing, TypeOK
  <2>4. CASE \E t \in Tasks : Continue(t)
    BY <1>2, <2>1, <2>4, ContinueFrame
  <2>5. CASE (\E t \in Tasks : Request(t)) \/ (\E q \in Runs : Cancel(q) \/ ContinueCancel(q))
             \/ UNCHANGED vars
    BY <2>1, <2>5 DEF Request, Claim, Satisfy, FireDueTimer, Cancel, ContinueCancel, CancelRows,
                      CancelClaim, CancelState, vars, volatile
  <2> QED BY <1>2, <2>2, <2>3, <2>4, <2>5 DEF Next
<1>3. Typing /\ LockHolders /\ Own /\ [Next]_vars => (Typing /\ LockHolders /\ Own)'
  BY <1>2, TypingNext, LockHoldersNext
<1> QED BY <1>1, <1>3, PTL DEF Spec

\* Every change of a run's stored state is in the transition table, at whatever points the
\* daemon dies and restarts: starts, resumptions, drives, their catch blocks and recovery
\* judge a transition by a copy of the state that nobody changes under the run's lock.
\* In the daemon's own boot the recovery of the version 1 scheduler is the one exception;
\* where the coordinator boots by itself there is none.  cancel() of a parked run is the
\* other call that writes without the lock.
THEOREM LegalStates ==
    ASSUME "cancel" \notin Env
    PROVE  /\ Spec => [][V1Recover \/ LegalChange]_runs
           /\ "v1" \notin Boot => (Spec => LegalTransitions)
<1>1. Typing /\ LockHolders /\ StatesInv /\ [Next]_vars => [V1Recover \/ LegalChange]_runs
  <2> SUFFICES ASSUME Typing, LockHolders, StatesInv, [Next]_vars
               PROVE  UNCHANGED runs \/ V1Recover \/ LegalChange
    OBVIOUS
  <2>1. ASSUME NEW t \in Tasks, NEW state \in RunState, Writes(t, state)
        PROVE  LegalChange
    <3>1. \A r \in Runs : runs'[r] = IF r = job[t].run THEN state ELSE runs[r]
      BY <2>1 DEF Writes, SaveRun, Typing, TypeOK
    <3>2. \/ runs[job[t].run] = "none" /\ state = "QUEUED"
          \/ runs[job[t].run] \in RunState /\ canTransition(runs[job[t].run], state)
      BY <2>1 DEF Writes, Stored
    <3> QED BY <3>1, <3>2 DEF RunState, LegalChange
  <2>2. \A r \in Runs : ~CancelState(r)
    BY DEF CancelState, StatesInv, OnlyStarted
  <2> QED BY <2>1, <2>2, RunsStep DEF V1Fails
<1>2. recovery.phase # "v1" /\ [V1Recover \/ LegalChange]_runs => [LegalChange]_runs
  BY DEF V1Recover
<1>3. Spec => [][V1Recover \/ LegalChange]_runs
  BY <1>1, StatesInvariant, PTL DEF Spec
<1>4. ASSUME "v1" \notin Boot
      PROVE  Spec => LegalTransitions
  BY <1>2, <1>3, <1>4, NeverV1, PTL DEF LegalTransitions
<1> QED BY <1>3, <1>4

-----------------------------------------------------------------------------
(* Parked runs *)

\* Whoever goes back to a parked run, but for recovery, brings an answer to it.
BringsAnswer ==
    \A t \in Tasks \ {Recovery} : pc[t] \in {"resumeQueue", "fetch", "resumed"} =>
        \E w \in job[t].sat : /\ w \in WaitIds /\ waits[w] \in WaitRow
                              /\ waits[w].run = job[t].run /\ waits[w].status = "satisfied"

\* An answered row stays as it is.
LEMMA AnsweredStays ==
    ASSUME Typing, [Next]_vars, NEW w \in WaitIds, waits[w] \in WaitRow, waits[w].status = "satisfied"
    PROVE  waits'[w] = waits[w]
<1>1. CASE SettlesOnly
  BY <1>1 DEF SettlesOnly, Settled
<1>2. CASE \E t \in Tasks : PersistWait(t)
  <2>1. PICK t \in Tasks : PersistWait(t)
    BY <1>2
  <2>2. PICK n \in job[t].todo, v \in FreeIds :
           waits' = [waits EXCEPT ![v] = [run |-> job[t].run, node |-> n, status |-> "open"]]
    BY <2>1, PersistWaitInserts
  <2> QED BY <2>2 DEF FreeIds, NoRow, WaitRow, Typing, TypeOK
<1> QED BY <1>1, <1>2, WaitsStep

LEMMA BringsAnswerNext ==
    ASSUME Typing, LockHolders, BringsAnswer, [Next]_vars
    PROVE  BringsAnswer'
<1> SUFFICES ASSUME NEW u \in Tasks \ {Recovery}, pc'[u] \in {"resumeQueue", "fetch", "resumed"}
             PROVE  \E w \in job'[u].sat :
                       /\ w \in WaitIds /\ waits'[w] \in WaitRow
                       /\ waits'[w].run = job'[u].run /\ waits'[w].status = "satisfied"
  BY DEF BringsAnswer
<1>0. pc \in [Tasks -> Outside \cup Locked] /\ job \in [Tasks -> Job]
  BY DEF Typing, TypeOK
<1>1. ASSUME pc[u] \in {"resumeQueue", "fetch", "resumed"}, job'[u].run = job[u].run,
             job'[u].sat = job[u].sat
      PROVE  \E w \in job'[u].sat :
                /\ w \in WaitIds /\ waits'[w] \in WaitRow
                /\ waits'[w].run = job'[u].run /\ waits'[w].status = "satisfied"
  BY <1>1, AnsweredStays DEF BringsAnswer
<1>2. CASE UNCHANGED <<pc, job>>
  BY <1>1, <1>2
<1>3. CASE \E t \in Tasks \ {u} : Continue(t)
  BY <1>1, <1>3, ContinueFrame
<1>4. CASE Continue(u)
  <2>1. /\ pc[u] \in {"resumeQueue", "fetch", "resumed"}
        /\ job'[u].run = job[u].run /\ job'[u].sat = job[u].sat
    <3>1. CASE ReadRun(u) \/ Fetch(u)
      <4>1. pc[u] \in {"resumeQueue", "fetch"} /\ ~Done(u)
        BY <1>0, <3>1 DEF ReadRun, Fetch, Goto, Done
      <4>2. job' = job \/ job' = [job EXCEPT ![u] = [@ EXCEPT !.state = runs[job[u].run], !.graph = graphs[job[u].run]]]
        BY <3>1, <4>1 DEF ReadRun, Fetch
      <4>3. CASE job' = job
        BY <4>1, <4>3
      <4>4. CASE job' = [job EXCEPT ![u] = [@ EXCEPT !.state = runs[job[u].run], !.graph = graphs[job[u].run]]]
        BY <1>0, <4>1, <4>4 DEF Job
      <4> QED BY <4>2, <4>3, <4>4
    <3>2. CASE Tick(u)
      BY <1>0, <3>2, TickMoves
    <3>3. CASE ~(ReadRun(u) \/ Fetch(u) \/ Tick(u))
      <4>1. pc'[u] \notin {"resumeQueue", "fetch", "resumed"}
        BY <1>0, <1>4, <3>3 DEF Continue, ResolveSnapshot, SaveQueued, ToPreparing, Prepare, ToRunning,
              BackToRunning, DriveThrows, PersistWait, WaitsPersisted, SaveState, Suspend, CancelWaits,
              ReleaseClaim, Finish, FailWaits, FailClaim, FailRun, LeaveDrive, Goto, Done
      <4> QED BY <4>1
    <3> QED BY <3>1, <3>2, <3>3
  <2> QED BY <1>1, <2>1
<1>5. ASSUME NEW w \in WaitIds, Accept(u, w)
      PROVE  \E v \in job'[u].sat :
                /\ v \in WaitIds /\ waits'[v] \in WaitRow
                /\ waits'[v].run = job'[u].run /\ waits'[v].status = "satisfied"
  <2>1. /\ waits[w] \in WaitRow /\ waits' = [waits EXCEPT ![w].status = "satisfied"]
        /\ waits'[w] \in WaitRow
    BY <1>5, AcceptType, RowType DEF Typing, TypeOK, Accept, trySatisfyWins
  <2>2. waits'[w].status = "satisfied" /\ waits'[w].run = waits[w].run
    BY <2>1 DEF WaitRow, Typing, TypeOK
  <2>3. job' = [job EXCEPT ![u] = [NoJob EXCEPT !.run = waits[w].run, !.sat = {w}]]
    BY <1>5 DEF Accept, ResumeWith
  <2>4. job'[u].run = waits[w].run /\ job'[u].sat = {w}
    BY <1>0, <2>3 DEF NoJob
  <2> QED BY <2>1, <2>2, <2>4
<1>6. CASE \E t \in Tasks : Request(t)
  <2>1. PICK t \in Tasks : Request(t)
    BY <1>6
  <2>2. CASE \E r \in Runs : Claim(t, r)
    BY <1>0, <1>1, <2>2 DEF Claim, Goto, NoJob
  <2>3. ASSUME NEW w \in WaitIds, Accept(t, w), t # u
        PROVE  pc'[u] = pc[u] /\ job'[u] = job[u]
    BY <1>0, <2>3, AcceptType DEF ResumeWith, Goto, NoJob
  <2>4. CASE \E w \in WaitIds : Satisfy(t, w) \/ FireDueTimer(t, w)
    BY <1>1, <1>2, <1>5, <2>3, <2>4 DEF Satisfy, FireDueTimer
  <2> QED BY <2>1, <2>2, <2>4 DEF Request
<1>7. CASE \E r \in Runs : RecoverRun(r)
  <2>1. UNCHANGED <<pc, job>> \/ \E r \in Runs : \E sat : ResumeWith(Recovery, r, sat)
    BY <1>7 DEF RecoverRun
  <2>2. pc'[u] = pc[u] /\ job'[u] = job[u]
    BY <1>0, <2>1 DEF ResumeWith, Goto
  <2> QED BY <1>1, <2>2
<1>8. CASE Crash
  BY <1>8 DEF Crash
<1>9. CASE \/ \E r \in Runs : Cancel(r) \/ ContinueCancel(r)
           \/ V1Recover \/ RecoverList \/ ReleaseOrphanedClaims \/ Restart \/ UNCHANGED vars
  BY <1>2, <1>9 DEF Cancel, ContinueCancel, CancelRows, CancelClaim, CancelState, V1Recover,
                    RecoverList, ReleaseOrphanedClaims, Restart, vars, volatile
<1> QED BY <1>3, <1>4, <1>6, <1>7, <1>8, <1>9 DEF Next, Recover

\* A parked run goes back to work only in the hands of a task that holds its lock and brings
\* an answer to it, or of recovery; an operator may cancel it, and the version 1 scheduler
\* of a booting daemon fails it, with nobody at work.  This is every boot the daemon has,
\* and every point at which it dies.
THEOREM ParkedRunsWait == Spec => ParkedUntilAnswered
<1> DEFINE Waits == \A r \in Runs : runs[r] \in Parked /\ runs'[r] # runs[r] =>
          \/ /\ runs'[r] = "RUNNING"
             /\ \E t \in Tasks :
                   /\ pc[t] = "resumed" /\ job[t].run = r /\ HoldsLock(t)
                   /\ \/ t = Recovery
                      \/ \E w \in job[t].sat : waits[w].run = r /\ waits[w].status = "satisfied"
          \/ runs'[r] = "CANCELLED" /\ cancels[r].pc = "state"
          \/ /\ runs'[r] = "FAILED" /\ recovery.phase = "v1"
             /\ \A t \in Tasks : pc[t] = "idle"
<1>1. Init => BringsAnswer
  BY DEF Init, BringsAnswer
<1>2. Typing /\ LockHolders /\ StatesInv /\ BringsAnswer /\ [Next]_vars => BringsAnswer' /\ [Waits]_runs
  <2> SUFFICES ASSUME Typing, LockHolders, StatesInv, BringsAnswer, [Next]_vars
               PROVE  BringsAnswer' /\ (UNCHANGED runs \/ Waits)
    OBVIOUS
  <2>1. ASSUME NEW t \in Tasks, NEW state \in RunState, Writes(t, state)
        PROVE  Waits
    <3> SUFFICES ASSUME NEW r \in Runs, runs[r] \in Parked, runs'[r] # runs[r]
                 PROVE  /\ runs'[r] = "RUNNING"
                        /\ pc[t] = "resumed" /\ job[t].run = r /\ HoldsLock(t)
                        /\ \/ t = Recovery
                           \/ \E w \in job[t].sat : waits[w].run = r /\ waits[w].status = "satisfied"
      OBVIOUS
    <3>1. r = job[t].run /\ runs'[r] = state /\ HoldsLock(t) /\ Target(t, state)
      BY <2>1 DEF Writes, SaveRun, Typing, TypeOK
    <3>2. state = "RUNNING"
      BY <2>1, <3>1 DEF Writes, Stored, Parked
    <3>3. pc[t] \in {"running", "resumed"} \/ (pc[t] = "finish" /\ job[t].verdict = "RUNNING")
      BY <3>1, <3>2 DEF Target, Parked
    <3>4. pc[t] = "resumed"
      BY <3>1, <3>3 DEF StatesInv, CopyCurrent, CopyOf, Stored, Parked
    <3> QED BY <3>1, <3>2, <3>4 DEF BringsAnswer
  <2>2. ASSUME NEW q \in Runs, CancelState(q)
        PROVE  Waits
    BY <2>2 DEF CancelState, SaveRun, Typing, TypeOK
  <2>3. ASSUME V1Fails
        PROVE  Waits
    <3>1. recovery.phase = "v1"
      BY <2>3 DEF V1Fails, V1Recover
    <3> QED BY <2>3, <3>1 DEF V1Fails
  <2>4. BringsAnswer'
    BY BringsAnswerNext
  <2> QED BY <2>1, <2>2, <2>3, <2>4, RunsStep
<1>3. Spec => [][Waits]_runs
  BY <1>1, <1>2, StatesInvariant, PTL DEF Spec
<1> QED BY <1>3 DEF ParkedUntilAnswered

-----------------------------------------------------------------------------
(* A daemon that lives, and an operator who does not cancel *)

Uninterrupted == up /\ recovery = NoRecovery /\ cancels = [r \in Runs |-> NoCancel]

LEMMA NoV1 ==
    ASSUME Uninterrupted
    PROVE  ~V1Fails
BY DEF V1Fails, V1Recover, Uninterrupted, NoRecovery

LEMMA LiveStep ==
    ASSUME Uninterrupted, MaxCrashes = 0, "cancel" \notin Env, Typing, [Next]_vars
    PROVE  (\E t \in Tasks : Continue(t) \/ Request(t)) \/ UNCHANGED vars
<1>1. ~Crash /\ ~Restart /\ ~Recover
  BY DEF Crash, Restart, Recover, V1Recover, RecoverList, RecoverRun, ReleaseOrphanedClaims,
         Uninterrupted, NoRecovery, Typing, TypeOK
<1>2. \A r \in Runs : ~Cancel(r) /\ ~ContinueCancel(r)
  BY DEF Cancel, ContinueCancel, CancelRows, CancelClaim, CancelState, Uninterrupted, NoCancel
<1> QED BY <1>1, <1>2 DEF Next

LEMMA UninterruptedNext ==
    ASSUME Uninterrupted, MaxCrashes = 0, "cancel" \notin Env, Typing, LockHolders, [Next]_vars
    PROVE  Uninterrupted'
<1>1. CASE \E t \in Tasks : Continue(t)
  BY <1>1, ContinueFrame DEF Uninterrupted, NoRecovery, NoCancel
<1>2. CASE (\E t \in Tasks : Request(t)) \/ UNCHANGED vars
  BY <1>2 DEF Request, Claim, Satisfy, FireDueTimer, Uninterrupted, NoRecovery, NoCancel, vars, volatile
<1> QED BY <1>1, <1>2, LiveStep

\* Two requests put an idle task to work: on a run no task and no table knows of, whose
\* item it claims, or on the run of an open row, which it settles.
Starting(t, r) ==
    /\ runs[r] = "none" /\ \A u \in Tasks : job[u].run # r
    /\ claims[ItemOf[r]] = "none" /\ claims' = [claims EXCEPT ![ItemOf[r]] = r]
    /\ pc'[t] = "claimed" /\ job'[t].run = r /\ job'[t].sat = {}
    /\ UNCHANGED waits

Answering(t, w) ==
    /\ waits[w] \in WaitRow /\ waits[w].status = "open"
    /\ waits' = [waits EXCEPT ![w].status = "satisfied"]
    /\ pc'[t] = "resumeQueue" /\ job'[t].run = waits[w].run /\ job'[t].sat = {w}
    /\ UNCHANGED claims

LEMMA RequestFrame ==
    ASSUME Typing, NEW t \in Tasks, Request(t)
    PROVE  /\ UNCHANGED <<runs, graphs, active, recovery, up, crashes, cancels, delivered>>
           /\ pc[t] = "idle"
           /\ \A u \in Tasks \ {t} : pc'[u] = pc[u] /\ job'[u] = job[u]
           /\ \/ \E r \in Runs : Starting(t, r)
              \/ \E w \in WaitIds : Answering(t, w)
              \/ UNCHANGED <<claims, job, pc, waits>>
<1>0. pc \in [Tasks -> Outside \cup Locked] /\ job \in [Tasks -> Job]
  BY DEF Typing, TypeOK
<1>1. ASSUME NEW r \in Runs, Claim(t, r)
      PROVE  /\ UNCHANGED <<runs, graphs, active, recovery, up, crashes, cancels, delivered>>
             /\ pc[t] = "idle"
             /\ \A u \in Tasks \ {t} : pc'[u] = pc[u] /\ job'[u] = job[u]
             /\ Starting(t, r)
  BY <1>0, <1>1 DEF Claim, Goto, Starting, NoJob
<1>2. ASSUME NEW w \in WaitIds, Accept(t, w)
      PROVE  /\ \A u \in Tasks \ {t} : pc'[u] = pc[u] /\ job'[u] = job[u]
             /\ UNCHANGED claims => Answering(t, w)
  <2>1. waits[w] \in WaitRow
    BY <1>2, RowType DEF Typing, TypeOK, Accept, trySatisfyWins
  <2> QED BY <1>0, <1>2, <2>1 DEF Accept, trySatisfyWins, ResumeWith, Goto, Answering, NoJob
<1>3. ASSUME NEW w \in WaitIds, Satisfy(t, w) \/ FireDueTimer(t, w)
      PROVE  /\ UNCHANGED <<runs, graphs, active, recovery, up, crashes, cancels, delivered>>
             /\ pc[t] = "idle"
             /\ \A u \in Tasks \ {t} : pc'[u] = pc[u] /\ job'[u] = job[u]
             /\ Answering(t, w) \/ UNCHANGED <<claims, job, pc, waits>>
  BY <1>2, <1>3 DEF Satisfy, FireDueTimer
<1>4. CASE \E r \in Runs : Claim(t, r)
  BY <1>1, <1>4
<1>5. CASE \E w \in WaitIds : Satisfy(t, w) \/ FireDueTimer(t, w)
  BY <1>3, <1>5
<1> QED BY <1>4, <1>5 DEF Request

-----------------------------------------------------------------------------
(* What drives end in *)

\* A tick ends with a suspension or a terminal verdict.
LEMMA OutcomeVerdict ==
    ASSUME NEW g, NEW asked, NEW aborted \in BOOLEAN, NEW o \in Outcomes(g, asked, aborted, Env)
    PROVE  o.verdict = "WAITING" \/ isTerminal(o.verdict)
<1>1. ASSUME NEW ended \in BOOLEAN, o \in Stopped(g, asked, ended, Env)
      PROVE  isTerminal(o.verdict)
  <2>1. PICK verdict \in Verdicts(ended) : \E graph, took : o = Outcome(verdict, graph, {}, took)
    BY <1>1 DEF Stopped
  <2> QED BY <2>1 DEF Outcome, Verdicts, isTerminal, TERMINAL_RUN_STATES
<1>2. ASSUME o \in Quiescent(g, asked, Env)
      PROVE  o.verdict = "WAITING"
  <2>1. PICK graph, asks, took : o = Outcome("WAITING", graph, asks, took)
    BY <1>2 DEF Quiescent
  <2> QED BY <2>1 DEF Outcome
<1>3. ASSUME o = Idle(g)
      PROVE  o.verdict = "WAITING" \/ isTerminal(o.verdict)
  BY <1>3 DEF Idle, Outcome, isTerminal, TERMINAL_RUN_STATES
<1> QED BY <1>1, <1>2, <1>3 DEF Outcomes

\* Whoever ends a run has a terminal verdict.
VerdictInHand ==
    \A t \in Tasks :
        /\ pc[t] \in {"cancelWaits", "releaseClaim", "finish"} => isTerminal(job[t].verdict)
        /\ pc[t] = "saveState" => job[t].verdict = "WAITING" \/ isTerminal(job[t].verdict)
        /\ pc[t] \in {"persistWaits", "suspend"} => job[t].verdict = "WAITING"

LEMMA VerdictInHandNext ==
    ASSUME Uninterrupted, MaxCrashes = 0, "cancel" \notin Env, Typing, LockHolders, VerdictInHand,
           [Next]_vars
    PROVE  VerdictInHand'
<1> SUFFICES ASSUME NEW u \in Tasks
             PROVE  /\ pc'[u] \in {"cancelWaits", "releaseClaim", "finish"} => isTerminal(job'[u].verdict)
                    /\ pc'[u] = "saveState" => job'[u].verdict = "WAITING" \/ isTerminal(job'[u].verdict)
                    /\ pc'[u] \in {"persistWaits", "suspend"} => job'[u].verdict = "WAITING"
  BY DEF VerdictInHand
<1>0. /\ pc \in [Tasks -> Outside \cup Locked] /\ job \in [Tasks -> Job] /\ job[u] \in Job
      /\ pc[u] \in {"cancelWaits", "releaseClaim", "finish"} => isTerminal(job[u].verdict)
      /\ pc[u] = "saveState" => job[u].verdict = "WAITING" \/ isTerminal(job[u].verdict)
      /\ pc[u] \in {"persistWaits", "suspend"} => job[u].verdict = "WAITING"
      /\ "WAITING" \notin TERMINAL_RUN_STATES
  BY DEF Typing, TypeOK, VerdictInHand, TERMINAL_RUN_STATES
<1>1. CASE \E t \in Tasks \ {u} : Continue(t)
  <2>1. pc'[u] = pc[u] /\ job'[u] = job[u]
    BY <1>1, ContinueFrame
  <2> QED BY <1>0, <2>1
<1>2. CASE Continue(u)
  <2>1. CASE ResolveSnapshot(u) \/ SaveQueued(u) \/ ToPreparing(u) \/ Prepare(u) \/ ToRunning(u)
             \/ ReadRun(u) \/ Fetch(u) \/ BackToRunning(u) \/ DriveThrows(u)
    BY <1>0, <2>1 DEF ResolveSnapshot, SaveQueued, ToPreparing, Prepare, ToRunning, ReadRun, Fetch,
                      BackToRunning, DriveThrows, Goto, Done
  <2>2. CASE Tick(u)
    <3> DEFINE asked == {waits[w].node : w \in job[u].sat}
               aborted == active[job[u].run] = "aborted"
    <3>1. PICK o \in Outcomes(job[u].graph, asked, aborted, Env) :
             TickTo(u, o.verdict, o.graph, o.asks, o.took)
      BY <2>2 DEF Tick
    <3>2. o.verdict = "WAITING" \/ isTerminal(o.verdict)
      <4>1. aborted \in BOOLEAN
        OBVIOUS
      <4> HIDE DEF asked, aborted
      <4> QED BY <4>1, OutcomeVerdict
    <3> DEFINE missing == {n \in o.asks : NeedsRow(job[u].run, n)}
    <3>3. job' = [job EXCEPT ![u] = [job[u] EXCEPT !.graph = o.graph, !.verdict = o.verdict,
                                                   !.todo = missing]]
      BY <3>1 DEF TickTo
    <3>4. pc'[u] = IF o.verdict = "WAITING" THEN "persistWaits" ELSE "saveState"
      BY <1>0, <3>1 DEF TickTo, Goto
    <3> HIDE DEF missing
    <3>5. job'[u].verdict = o.verdict
      BY <1>0, <3>3 DEF Job
    <3> QED BY <3>2, <3>4, <3>5
  <2>3. CASE PersistWait(u)
    <3>1. PICK n \in job[u].todo : job' = [job EXCEPT ![u] = [job[u] EXCEPT !.todo = @ \ {n}]]
      BY <2>3 DEF PersistWait
    <3>2. job'[u].verdict = job[u].verdict
      BY <1>0, <3>1 DEF Job
    <3> QED BY <1>0, <2>3, <3>2 DEF PersistWait
  <2>4. CASE WaitsPersisted(u) \/ SaveState(u) \/ CancelWaits(u) \/ ReleaseClaim(u) \/ FailWaits(u)
             \/ FailClaim(u)
    BY <1>0, <2>4 DEF WaitsPersisted, SaveState, CancelWaits, ReleaseClaim, FailWaits, FailClaim, Goto
  <2>5. CASE Suspend(u) \/ Finish(u) \/ FailRun(u)
    BY <1>0, <2>5 DEF Suspend, Finish, FailRun, LeaveDrive, Goto, Done
  <2> QED BY <1>2, <2>1, <2>2, <2>3, <2>4, <2>5 DEF Continue
<1>3. CASE \E t \in Tasks : Request(t)
  <2>1. PICK t \in Tasks : Request(t)
    BY <1>3
  <2> QED BY <1>0, <2>1, RequestFrame DEF Starting, Answering
<1>4. CASE UNCHANGED vars
  BY <1>0, <1>4 DEF vars, volatile
<1> QED BY <1>1, <1>2, <1>3, <1>4, LiveStep

-----------------------------------------------------------------------------
(* The states of runs that have rows or are resumed *)

Fresh == {"none", "QUEUED", "PREPARING"}

\* Only runs that have begun have rows and are resumed, and the states of the version 1
\* runtime are never stored.
Begun ==
    /\ \A w \in WaitIds : waits[w] \in WaitRow => runs[waits[w].run] \notin Fresh
    /\ \A t \in Tasks : pc[t] \in {"resumeQueue", "fetch", "resumed"} \cup Driving =>
          runs[job[t].run] \notin Fresh
    /\ runs \in [Runs -> Fresh \cup {"RUNNING"} \cup Parked \cup TERMINAL_RUN_STATES]

LEMMA BegunStays ==
    ASSUME Uninterrupted, Typing, LockHolders, StatesInv, VerdictInHand, "cancel" \notin Env, [Next]_vars,
           NEW r \in Runs, runs[r] \notin Fresh
    PROVE  runs'[r] \notin Fresh
<1>1. ASSUME NEW t \in Tasks, NEW state \in RunState, Writes(t, state)
      PROVE  runs'[r] \notin Fresh
  <2>1. CASE r = job[t].run
    <3>1. runs'[r] = state /\ Target(t, state)
      BY <1>1, <2>1 DEF Writes, SaveRun, Typing, TypeOK
    <3>2. pc[t] \notin {"startQueue", "queued"}
      BY <2>1 DEF StatesInv, CopyCurrent, CopyOf, Stored, Fresh
    <3>3. pc[t] = "finish" => isTerminal(job[t].verdict)
      BY DEF VerdictInHand
    <3> QED BY <3>1, <3>2, <3>3 DEF Target, Fresh, Parked, isTerminal, TERMINAL_RUN_STATES
  <2>2. CASE r # job[t].run
    BY <1>1, <2>2 DEF Writes, SaveRun, Typing, TypeOK
  <2> QED BY <2>1, <2>2
<1>2. \A q \in Runs : ~CancelState(q)
  BY DEF CancelState, StatesInv, OnlyStarted
<1> QED BY <1>1, <1>2, NoV1, RunsStep

LEMMA BegunNext ==
    ASSUME Uninterrupted, MaxCrashes = 0, "cancel" \notin Env, Typing, LockHolders, StatesInv,
           VerdictInHand, Begun, [Next]_vars
    PROVE  Begun'
<1>0. /\ waits \in [WaitIds -> WaitRow \cup {NoRow}]
      /\ pc \in [Tasks -> Outside \cup Locked] /\ job \in [Tasks -> Job]
      /\ \A t \in Tasks : pc[t] # "idle" => job[t].run \in Runs
      /\ \A row \in WaitRow : row.run \in Runs
  BY DEF Typing, TypeOK, WaitRow
<1>1. ASSUME NEW w \in WaitIds, waits'[w] \in WaitRow
      PROVE  runs'[waits'[w].run] \notin Fresh
  <2>1. CASE SettlesOnly
    <3>1. waits[w] \in WaitRow /\ waits'[w].run = waits[w].run
      BY <1>0, <1>1, <2>1 DEF SettlesOnly, Settled, NoRow
    <3> QED BY <1>0, <3>1, BegunStays DEF Begun
  <2>2. CASE \E t \in Tasks : PersistWait(t)
    <3>1. PICK t \in Tasks : PersistWait(t)
      BY <2>2
    <3>2. PICK n \in job[t].todo, v \in FreeIds :
             waits' = [waits EXCEPT ![v] = [run |-> job[t].run, node |-> n, status |-> "open"]]
      BY <3>1, PersistWaitInserts
    <3>3. job[t].run \in Runs /\ runs[job[t].run] \notin Fresh
      BY <1>0, <3>1 DEF PersistWait, Begun
    <3>4. waits'[w] = waits[w] \/ waits'[w].run = job[t].run
      BY <1>0, <3>2 DEF FreeIds
    <3> QED BY <1>0, <1>1, <3>3, <3>4, BegunStays DEF Begun
  <2> QED BY <2>1, <2>2, WaitsStep
<1>2. ASSUME NEW u \in Tasks, pc'[u] \in {"resumeQueue", "fetch", "resumed"} \cup Driving
      PROVE  runs'[job'[u].run] \notin Fresh
  <2>1. ASSUME pc[u] \in {"resumeQueue", "fetch", "resumed"} \cup Driving, job'[u].run = job[u].run
        PROVE  runs'[job'[u].run] \notin Fresh
    BY <1>0, <2>1, BegunStays DEF Begun
  <2>2. CASE \E t \in Tasks \ {u} : Continue(t)
    <3>1. pc'[u] = pc[u] /\ job'[u] = job[u]
      BY <2>2, ContinueFrame
    <3> QED BY <1>2, <2>1, <3>1
  <2>3. CASE Continue(u)
    <3>1. job'[u].run = job[u].run
      BY <1>2, <2>3, ContinueFrame
    <3>2. CASE ToRunning(u)
      BY <1>0, <3>1, <3>2 DEF ToRunning, SaveRun, Typing, TypeOK, Fresh
    <3>3. CASE ResolveSnapshot(u) \/ SaveQueued(u) \/ ToPreparing(u) \/ Prepare(u)
      BY <1>0, <1>2, <3>3 DEF ResolveSnapshot, SaveQueued, ToPreparing, Prepare, Goto, Done
    <3>4. CASE ~(ToRunning(u) \/ ResolveSnapshot(u) \/ SaveQueued(u) \/ ToPreparing(u) \/ Prepare(u))
      <4>1. pc[u] \in {"resumeQueue", "fetch", "resumed"} \cup Driving
        BY <2>3, <3>4 DEF Continue, ReadRun, Fetch, BackToRunning, Tick, DriveThrows, PersistWait,
              WaitsPersisted, SaveState, Suspend, CancelWaits, ReleaseClaim, Finish, FailWaits,
              FailClaim, FailRun
      <4> QED BY <2>1, <3>1, <4>1
    <3> QED BY <3>2, <3>3, <3>4
  <2>4. CASE \E t \in Tasks : Request(t)
    <3>1. PICK t \in Tasks : Request(t)
      BY <2>4
    <3>2. CASE u # t
      BY <1>0, <1>2, <2>1, <3>1, <3>2, RequestFrame
    <3>3. CASE u = t /\ UNCHANGED <<job, pc>>
      BY <1>2, <2>1, <3>3
    <3>4. CASE u = t /\ ~UNCHANGED <<job, pc>>
      <4>1. PICK w \in WaitIds : Answering(u, w)
        BY <1>2, <3>1, <3>4, RequestFrame DEF Starting
      <4>2. UNCHANGED runs
        BY <3>1, RequestFrame
      <4> QED BY <4>1, <4>2 DEF Answering, Begun
    <3> QED BY <3>2, <3>3, <3>4
  <2>5. CASE UNCHANGED vars
    BY <1>2, <2>1, <2>5 DEF vars, volatile
  <2> QED BY <2>2, <2>3, <2>4, <2>5, LiveStep
<1>3. runs' \in [Runs -> Fresh \cup {"RUNNING"} \cup Parked \cup TERMINAL_RUN_STATES]
  <2> DEFINE Kinds == Fresh \cup {"RUNNING"} \cup Parked \cup TERMINAL_RUN_STATES
  <2>1. runs \in [Runs -> Kinds]
    BY DEF Begun
  <2>2. ASSUME NEW t \in Tasks, NEW state \in RunState, Writes(t, state)
        PROVE  runs' \in [Runs -> Kinds]
    <3>1. pc[t] = "finish" => isTerminal(job[t].verdict)
      BY DEF VerdictInHand
    <3>2. state \in Kinds
      BY <2>2, <3>1 DEF Writes, Target, Fresh, Parked, isTerminal, TERMINAL_RUN_STATES
    <3> HIDE DEF Kinds
    <3> QED BY <2>1, <2>2, <3>2 DEF Writes, SaveRun
  <2>3. \A q \in Runs : ~CancelState(q)
    BY DEF CancelState, StatesInv, OnlyStarted
  <2> QED BY <2>1, <2>2, <2>3, NoV1, RunsStep
<1> QED BY <1>1, <1>2, <1>3 DEF Begun

-----------------------------------------------------------------------------
(* Claims *)

Releasing == {"finish", "failRun"}
Closed == {"releaseClaim", "finish", "failClaim", "failRun"}

\* A run in progress holds its item until the task that ends it gives it back.
ClaimsHeld ==
    /\ \A t \in Tasks : pc[t] \in {"claimed", "startQueue"} =>
          claims[ItemOf[job[t].run]] = job[t].run
    /\ \A r \in Runs : runs[r] # "none" /\ ~isTerminal(runs[r]) =>
          \/ claims[ItemOf[r]] = r
          \/ \E t \in Tasks : job[t].run = r /\ pc[t] \in Releasing

\* A run that ended, or is about to, holds none.
ClaimsReleased ==
    /\ \A t \in Tasks : pc[t] \in Releasing => claims[ItemOf[job[t].run]] # job[t].run
    /\ \A r \in Runs : isTerminal(runs[r]) => claims[ItemOf[r]] # r

\* Open rows of a run that ended are in the hands of a task that withdraws them.
RowsWithdrawn ==
    /\ \A r \in Runs : \A t \in Tasks : job[t].run = r /\ pc[t] \in Closed => OpenRows(r) = {}
    /\ \A r \in Runs : isTerminal(runs[r]) /\ OpenRows(r) # {} =>
          \E t \in Tasks : /\ job[t].run = r
                           /\ pc[t] \in {"persistWaits", "saveState", "suspend", "failWaits", "cancelWaits"}

\* What a task's step does to the claims and rows: only its own run's are touched.
LEMMA ContinueClaims ==
    ASSUME Typing, LockHolders, NEW t \in Tasks, Continue(t)
    PROVE  /\ pc[t] \in {"releaseClaim", "failClaim"} =>
                 releaseClaim(job[t].run) /\ pc'[t] \in Releasing /\ UNCHANGED <<runs, job>>
           /\ pc[t] \notin {"releaseClaim", "failClaim"} =>
                 UNCHANGED claims /\ pc'[t] \notin Releasing
<1>0. pc \in [Tasks -> Outside \cup Locked]
  BY DEF Typing, TypeOK
<1>1. CASE ResolveSnapshot(t) \/ SaveQueued(t) \/ ToPreparing(t) \/ Prepare(t) \/ ToRunning(t)
           \/ ReadRun(t) \/ Fetch(t) \/ BackToRunning(t)
  BY <1>0, <1>1 DEF ResolveSnapshot, SaveQueued, ToPreparing, Prepare, ToRunning, ReadRun, Fetch,
                    BackToRunning, Goto, Done, durable, Releasing
<1>2. CASE Tick(t)
  BY <1>0, <1>2, TickTakes DEF Tick, TickTo, Goto, Releasing
<1>3. CASE DriveThrows(t) \/ PersistWait(t) \/ WaitsPersisted(t) \/ SaveState(t) \/ Suspend(t)
           \/ CancelWaits(t) \/ Finish(t) \/ FailWaits(t) \/ FailRun(t)
  BY <1>0, <1>3 DEF DriveThrows, PersistWait, WaitsPersisted, SaveState, Suspend, CancelWaits,
                    Finish, FailWaits, FailRun, LeaveDrive, Goto, Done, durable, Releasing
<1>4. CASE ReleaseClaim(t) \/ FailClaim(t)
  BY <1>0, <1>4 DEF ReleaseClaim, FailClaim, Goto, Releasing
<1> QED BY <1>1, <1>2, <1>3, <1>4 DEF Continue

LEMMA ContinueRows ==
    ASSUME Typing, LockHolders, NEW t \in Tasks, Continue(t), NEW r \in Runs
    PROVE  /\ r # job[t].run => OpenRows(r)' = OpenRows(r)
           /\ ~PersistWait(t) => OpenRows(r)' \subseteq OpenRows(r)
           /\ r = job[t].run /\ pc[t] \in {"cancelWaits", "failWaits"} => OpenRows(r)' = {}
<1>0. waits \in [WaitIds -> WaitRow \cup {NoRow}]
  BY DEF Typing, TypeOK
<1>1. CASE CancelWaits(t) \/ FailWaits(t)
  <2>1. cancelForRun(job[t].run)
    BY <1>1 DEF CancelWaits, FailWaits
  <2>2. ASSUME NEW w \in WaitIds
        PROVE  IF w \in OpenRows(job[t].run) THEN waits'[w].status = "cancelled"
               ELSE waits'[w] = waits[w]
    BY <1>0, <2>1 DEF cancelForRun, OpenRows, WaitRow, NoRow
  <2>3. ASSUME NEW w \in WaitIds
        PROVE  w \in OpenRows(r)' <=> w \in OpenRows(r) /\ r # job[t].run
    BY <2>2 DEF OpenRows
  <2> QED BY <2>3 DEF OpenRows
<1>2. CASE PersistWait(t)
  <2>1. r # job[t].run => OpenRows(r)' = OpenRows(r)
    BY <1>2, InsertingOpensOne
  <2>2. pc[t] = "persistWaits"
    BY <1>2 DEF PersistWait
  <2> QED BY <1>2, <2>1, <2>2
<1>3. CASE ~(CancelWaits(t) \/ FailWaits(t) \/ PersistWait(t))
  <2>1. UNCHANGED waits /\ pc[t] \notin {"cancelWaits", "failWaits"}
    <3>1. CASE Tick(t)
      BY <3>1 DEF Tick
    <3>2. CASE ~Tick(t)
      BY <1>3, <3>2 DEF Continue, ResolveSnapshot, SaveQueued, ToPreparing, Prepare, ToRunning, ReadRun,
                        Fetch, BackToRunning, DriveThrows, WaitsPersisted, SaveState, Suspend,
                        ReleaseClaim, Finish, FailClaim, FailRun, durable
    <3> QED BY <3>1, <3>2
  <2>2. OpenRows(r)' = OpenRows(r)
    BY <2>1 DEF OpenRows
  <2> QED BY <2>1, <2>2
<1> QED BY <1>1, <1>2, <1>3

LEMMA RequestRows ==
    ASSUME Typing, NEW t \in Tasks, Request(t), NEW r \in Runs
    PROVE  OpenRows(r)' \subseteq OpenRows(r)
<1>1. CASE UNCHANGED waits
  BY <1>1 DEF OpenRows
<1>2. ASSUME NEW w \in WaitIds, Answering(t, w)
      PROVE  OpenRows(r)' \subseteq OpenRows(r)
  BY <1>2 DEF Answering, OpenRows, Typing, TypeOK
<1> QED BY <1>1, <1>2, RequestFrame DEF Starting

\* While the daemon lives: a run that ended stays so, a run begins with the first save of
\* its start, and ends with the last one of a drive.
LEMMA RunsProgress ==
    ASSUME Uninterrupted, Typing, LockHolders, StatesInv, VerdictInHand, "cancel" \notin Env, [Next]_vars,
           NEW r \in Runs
    PROVE  /\ isTerminal(runs[r]) => isTerminal(runs'[r])
           /\ runs[r] = "none" /\ runs'[r] # "none" =>
                 \E t \in Tasks : pc[t] = "startQueue" /\ job[t].run = r
           /\ ~isTerminal(runs[r]) /\ isTerminal(runs'[r]) =>
                 \E t \in Tasks : pc[t] \in Releasing /\ job[t].run = r
<1>1. CASE UNCHANGED runs
  BY <1>1 DEF isTerminal
<1>2. ASSUME NEW t \in Tasks, NEW state \in RunState, Writes(t, state)
      PROVE  /\ isTerminal(runs[r]) => isTerminal(runs'[r])
             /\ runs[r] = "none" /\ runs'[r] # "none" => pc[t] = "startQueue" /\ job[t].run = r
             /\ ~isTerminal(runs[r]) /\ isTerminal(runs'[r]) => pc[t] \in Releasing /\ job[t].run = r
  <2>1. CASE r # job[t].run
    BY <1>2, <2>1 DEF Writes, SaveRun, Typing, TypeOK
  <2>2. CASE r = job[t].run
    <3>1. /\ runs'[r] = state /\ Target(t, state)
          /\ \/ pc[t] = "startQueue" /\ runs[r] = "none" /\ state = "QUEUED"
             \/ runs[r] \in RunState /\ canTransition(runs[r], state)
      BY <1>2, <2>2 DEF Writes, SaveRun, Stored, Typing, TypeOK
    <3>2. /\ pc[t] = "startQueue" => runs[r] = "none"
          /\ pc[t] = "queued" => runs[r] = "QUEUED"
          /\ pc[t] = "finish" => isTerminal(job[t].verdict)
      BY <2>2 DEF StatesInv, CopyCurrent, CopyOf, Stored, VerdictInHand
    <3>3. isTerminal(runs[r]) /\ canTransition(runs[r], state) => state \in {"QUEUED", "CANCELLED"}
      BY DEF isTerminal, TERMINAL_RUN_STATES, canTransition, RUN_TRANSITIONS, RunState
    <3>4. "none" \notin RunState
      BY DEF RunState
    <3> QED BY <2>2, <3>1, <3>2, <3>3, <3>4 DEF Target, Releasing, isTerminal, TERMINAL_RUN_STATES, Parked
  <2> QED BY <2>1, <2>2
<1>3. \A q \in Runs : ~CancelState(q)
  BY DEF CancelState, StatesInv, OnlyStarted
<1> QED BY <1>1, <1>2, <1>3, NoV1, RunsStep

\* The claim of an item changes hands only by its release, for the run a task is on, and by
\* the start of a run nobody has heard of.
LEMMA ClaimsStep ==
    ASSUME Uninterrupted, MaxCrashes = 0, "cancel" \notin Env, Typing, LockHolders, [Next]_vars,
           NEW i \in Items
    PROVE  \/ claims'[i] = claims[i]
           \/ /\ claims'[i] = "none"
              /\ \E t \in Tasks : /\ Continue(t) /\ claims[i] = job[t].run
                                  /\ pc[t] \in {"releaseClaim", "failClaim"}
           \/ /\ claims[i] = "none" /\ claims'[i] \in Runs /\ runs[claims'[i]] = "none"
              /\ \A t \in Tasks : job[t].run # claims'[i]
<1>0. claims \in [Items -> Runs \cup {"none"}] /\ ItemOf \in [Runs -> Items]
  BY CoordinatorAssumption DEF Typing, TypeOK
<1>1. ASSUME NEW t \in Tasks, Continue(t)
      PROVE  \/ claims'[i] = claims[i]
             \/ /\ claims'[i] = "none" /\ claims[i] = job[t].run
                /\ pc[t] \in {"releaseClaim", "failClaim"}
  BY <1>0, <1>1, ContinueClaims DEF releaseClaim
<1>2. ASSUME NEW t \in Tasks, Request(t)
      PROVE  \/ claims'[i] = claims[i]
             \/ /\ claims[i] = "none" /\ claims'[i] \in Runs /\ runs[claims'[i]] = "none"
                /\ \A u \in Tasks : job[u].run # claims'[i]
  BY <1>0, <1>2, RequestFrame DEF Starting, Answering
<1>3. CASE UNCHANGED vars
  BY <1>3 DEF vars, durable
<1> QED BY <1>1, <1>2, <1>3, LiveStep

\* Both ends of a claim's life.
LEMMA ClaimsHeldNext ==
    ASSUME Uninterrupted, MaxCrashes = 0, "cancel" \notin Env, Typing, LockHolders, StatesInv,
           VerdictInHand, Begun, ClaimsHeld, [Next]_vars
    PROVE  ClaimsHeld'
<1>0. /\ claims \in [Items -> Runs \cup {"none"}] /\ ItemOf \in [Runs -> Items] /\ "none" \notin Runs
      /\ pc \in [Tasks -> Outside \cup Locked] /\ job \in [Tasks -> Job]
      /\ \A t \in Tasks : pc[t] # "idle" => job[t].run \in Runs
      /\ runs \in [Runs -> RunState \cup {"none"}]
  BY CoordinatorAssumption DEF Typing, TypeOK
<1>1. ASSUME NEW u \in Tasks, pc'[u] \in {"claimed", "startQueue"}
      PROVE  claims'[ItemOf[job'[u].run]] = job'[u].run
  \* A start that has begun keeps its claim.
  <2>1. ASSUME pc[u] \in {"claimed", "startQueue"}, job'[u] = job[u]
        PROVE  claims'[ItemOf[job'[u].run]] = job'[u].run
    <3> DEFINE r == job[u].run
               i == ItemOf[r]
    <3>1. r \in Runs /\ i \in Items /\ claims[i] = r
      BY <1>0, <2>1 DEF ClaimsHeld
    <3>2. ASSUME NEW t \in Tasks, Continue(t), pc[t] \in {"releaseClaim", "failClaim"}
          PROVE  job[t].run # r
      BY <2>1, <3>2, Apart
    <3> HIDE DEF i, r
    <3>3. claims'[i] = r
      BY <1>0, <3>1, <3>2, ClaimsStep
    <3> QED BY <2>1, <3>3 DEF i, r
  <2>2. CASE \E t \in Tasks \ {u} : Continue(t)
    BY <1>1, <2>1, <2>2, ContinueFrame
  <2>3. CASE Continue(u)
    <3>1. CASE ResolveSnapshot(u)
      BY <1>0, <1>1, <2>1, <3>1 DEF ResolveSnapshot, Goto
    <3>2. CASE Tick(u)
      BY <1>1, <3>2, TickMoves
    <3>3. CASE ~ResolveSnapshot(u) /\ ~Tick(u)
      BY <1>0, <1>1, <2>3, <3>3 DEF Continue, SaveQueued, ToPreparing, Prepare, ToRunning, ReadRun, Fetch,
              BackToRunning, DriveThrows, PersistWait, WaitsPersisted, SaveState, Suspend, CancelWaits,
              ReleaseClaim, Finish, FailWaits, FailClaim, FailRun, LeaveDrive, Goto, Done
    <3> QED BY <3>1, <3>2, <3>3
  <2>4. CASE \E t \in Tasks : Request(t)
    <3>1. PICK t \in Tasks : Request(t)
      BY <2>4
    <3>2. CASE pc'[u] = pc[u] /\ job'[u] = job[u]
      BY <1>1, <2>1, <3>2
    <3>3. CASE ~(pc'[u] = pc[u] /\ job'[u] = job[u])
      <4>1. u = t
        BY <1>0, <3>1, <3>3, RequestFrame
      <4>2. PICK r \in Runs : Starting(u, r)
        BY <1>1, <3>1, <3>3, <4>1, RequestFrame DEF Answering
      <4> QED BY <1>0, <4>2 DEF Starting
    <3> QED BY <3>2, <3>3
  <2>5. CASE UNCHANGED vars
    BY <1>1, <2>1, <2>5 DEF vars, volatile
  <2> QED BY <2>2, <2>3, <2>4, <2>5, LiveStep
<1>2. ASSUME NEW r \in Runs, runs'[r] # "none", ~isTerminal(runs'[r])
      PROVE  claims'[ItemOf[r]] = r \/ \E t \in Tasks : job'[t].run = r /\ pc'[t] \in Releasing
  <2> DEFINE i == ItemOf[r]
  <2>0. i \in Items /\ ~isTerminal(runs[r])
    BY <1>0, <1>2, RunsProgress
  <2>1. CASE runs[r] = "none"
    <3>1. PICK u \in Tasks : pc[u] = "startQueue" /\ job[u].run = r
      BY <1>2, <2>1, RunsProgress
    <3>2. claims[i] = r
      BY <3>1 DEF ClaimsHeld
    <3>3. ASSUME NEW t \in Tasks, Continue(t), pc[t] \in {"releaseClaim", "failClaim"}
          PROVE  job[t].run # r
      BY <3>1, <3>3, Apart
    <3> HIDE DEF i
    <3>4. claims'[i] = r
      BY <1>0, <2>0, <3>2, <3>3, ClaimsStep
    <3> QED BY <3>4 DEF i
  <2>2. CASE claims[i] = r
    <3>1. CASE \E t \in Tasks : Continue(t) /\ job[t].run = r /\ pc[t] \in {"releaseClaim", "failClaim"}
      <4>1. PICK t \in Tasks : Continue(t) /\ job[t].run = r /\ pc[t] \in {"releaseClaim", "failClaim"}
        BY <3>1
      <4>2. pc'[t] \in Releasing /\ job'[t].run = r
        BY <4>1, ContinueClaims
      <4> QED BY <4>2
    <3>2. CASE ~\E t \in Tasks : Continue(t) /\ job[t].run = r /\ pc[t] \in {"releaseClaim", "failClaim"}
      <4> HIDE DEF i
      <4>1. claims'[i] = r
        BY <1>0, <2>0, <2>2, <3>2, ClaimsStep
      <4> QED BY <4>1 DEF i
    <3> QED BY <3>1, <3>2
  \* The task that released the claim ends the run in its next step.
  <2>3. ASSUME NEW u \in Tasks, job[u].run = r, pc[u] \in Releasing, runs[r] # "none"
        PROVE  job'[u].run = r /\ pc'[u] \in Releasing
    <3>1. /\ Stored(r, job[u].state) /\ job[u].state \notin Parked
          /\ pc[u] = "finish" => isTerminal(job[u].verdict)
      BY <2>3 DEF StatesInv, CopyCurrent, CopyOf, VerdictInHand, Releasing
    <3>2. runs[r] = "RUNNING" /\ job[u].state = "RUNNING"
      BY <2>0, <2>3, <3>1 DEF Begun, Releasing, isTerminal, Stored
    <3>3. CASE Continue(u)
      <4>1. CASE Finish(u)
        <5>1. canTransition("RUNNING", job[u].verdict)
          BY <3>1, <4>1 DEF Finish, canTransition, RUN_TRANSITIONS, RunState, isTerminal, TERMINAL_RUN_STATES
        <5>2. runs'[r] = job[u].verdict
          BY <1>0, <2>3, <3>2, <4>1, <5>1 DEF Finish, SaveRun
        <5> QED BY <1>2, <3>1, <4>1, <5>2 DEF Finish
      <4>2. CASE FailRun(u)
        <5>1. canTransition("RUNNING", "FAILED")
          BY DEF canTransition, RUN_TRANSITIONS, RunState
        <5>2. runs'[r] = "FAILED"
          BY <1>0, <2>3, <3>2, <4>2, <5>1 DEF FailRun, SaveRun
        <5> QED BY <1>2, <5>2 DEF isTerminal, TERMINAL_RUN_STATES
      <4>3. CASE ~Finish(u) /\ ~FailRun(u)
        BY <2>3, <3>3, <4>3 DEF Releasing, Continue, ResolveSnapshot, SaveQueued, ToPreparing, Prepare,
              ToRunning, ReadRun, Fetch, BackToRunning, Tick, DriveThrows, PersistWait, WaitsPersisted,
              SaveState, Suspend, CancelWaits, ReleaseClaim, FailWaits, FailClaim
      <4> QED BY <4>1, <4>2, <4>3
    <3>4. CASE \E t \in Tasks \ {u} : Continue(t)
      BY <2>3, <3>4, ContinueFrame
    <3>5. CASE \E t \in Tasks : Request(t)
      BY <1>0, <2>3, <3>5, RequestFrame DEF Releasing
    <3>6. CASE UNCHANGED vars
      BY <2>3, <3>6 DEF vars, volatile
    <3> QED BY <3>3, <3>4, <3>5, <3>6, LiveStep
  <2> QED BY <2>0, <2>1, <2>2, <2>3 DEF ClaimsHeld
<1> QED BY <1>1, <1>2 DEF ClaimsHeld

LEMMA ClaimsReleasedNext ==
    ASSUME Uninterrupted, MaxCrashes = 0, "cancel" \notin Env, Typing, LockHolders, StatesInv,
           VerdictInHand, ClaimsReleased, [Next]_vars
    PROVE  ClaimsReleased'
<1>0. /\ claims \in [Items -> Runs \cup {"none"}] /\ ItemOf \in [Runs -> Items] /\ "none" \notin Runs
      /\ pc \in [Tasks -> Outside \cup Locked] /\ job \in [Tasks -> Job]
      /\ \A t \in Tasks : pc[t] # "idle" => job[t].run \in Runs
  BY CoordinatorAssumption DEF Typing, TypeOK
\* Nobody but its start claims an item for a run.
<1>1. ASSUME NEW r \in Runs, claims[ItemOf[r]] # r,
             runs[r] # "none" \/ \E t \in Tasks : job[t].run = r
      PROVE  claims'[ItemOf[r]] # r
  <2> DEFINE i == ItemOf[r]
  <2>1. i \in Items /\ claims[i] # r
    BY <1>0, <1>1
  <2> HIDE DEF i
  <2>2. claims'[i] # r
    BY <1>0, <1>1, <2>1, ClaimsStep
  <2> QED BY <2>2 DEF i
<1>2. ASSUME NEW u \in Tasks, pc'[u] \in Releasing
      PROVE  claims'[ItemOf[job'[u].run]] # job'[u].run
  <2>1. CASE pc[u] \in Releasing /\ job'[u] = job[u]
    <3>1. job[u].run \in Runs /\ claims[ItemOf[job[u].run]] # job[u].run
      BY <1>0, <2>1 DEF ClaimsReleased, Releasing
    <3> QED BY <1>1, <2>1, <3>1
  <2>2. CASE Continue(u)
    <3>1. releaseClaim(job[u].run) /\ UNCHANGED job /\ job[u].run \in Runs
      BY <1>2, <2>2, ContinueClaims, ContinueFrame
    <3> QED BY <1>0, <3>1 DEF releaseClaim
  <2>3. CASE \E t \in Tasks \ {u} : Continue(t)
    BY <1>2, <2>1, <2>3, ContinueFrame
  <2>4. CASE \E t \in Tasks : Request(t)
    <3>1. pc'[u] = pc[u] /\ job'[u] = job[u]
      BY <1>0, <1>2, <2>4, RequestFrame DEF Releasing, Starting, Answering
    <3> QED BY <1>2, <2>1, <3>1
  <2>5. CASE UNCHANGED vars
    BY <1>2, <2>1, <2>5 DEF vars, volatile
  <2> QED BY <2>2, <2>3, <2>4, <2>5, LiveStep
<1>3. ASSUME NEW r \in Runs, isTerminal(runs'[r])
      PROVE  claims'[ItemOf[r]] # r
  <2>1. CASE isTerminal(runs[r])
    BY <1>1, <2>1 DEF ClaimsReleased, isTerminal, TERMINAL_RUN_STATES
  <2>2. CASE ~isTerminal(runs[r])
    <3>1. PICK t \in Tasks : pc[t] \in Releasing /\ job[t].run = r
      BY <1>3, <2>2, RunsProgress
    <3> QED BY <1>1, <3>1 DEF ClaimsReleased
  <2> QED BY <2>1, <2>2
<1> QED BY <1>2, <1>3 DEF ClaimsReleased

LEMMA RowsWithdrawnNext ==
    ASSUME Uninterrupted, MaxCrashes = 0, "cancel" \notin Env, Typing, LockHolders, StatesInv,
           VerdictInHand, RowsWithdrawn, [Next]_vars
    PROVE  RowsWithdrawn'
<1> DEFINE Withdrawing == {"persistWaits", "saveState", "suspend", "failWaits", "cancelWaits"}
<1>0. /\ pc \in [Tasks -> Outside \cup Locked] /\ job \in [Tasks -> Job]
      /\ \A t \in Tasks : pc[t] # "idle" => job[t].run \in Runs
      /\ runs \in [Runs -> RunState \cup {"none"}]
  BY DEF Typing, TypeOK
<1>1. ASSUME NEW u \in Tasks, pc'[u] \in Closed, NEW r \in Runs, job'[u].run = r
      PROVE  OpenRows(r)' = {}
  <2>1. CASE Continue(u)
    <3>1. job[u].run = r
      BY <1>1, <2>1, ContinueFrame DEF Closed
    <3>2. pc[u] \in Closed \cup {"cancelWaits", "failWaits"}
      <4>1. CASE Tick(u)
        BY <1>0, <1>1, <4>1, TickTakes DEF TickTo, Goto, Closed
      <4>2. CASE ~Tick(u)
        BY <1>0, <1>1, <2>1, <4>2 DEF Continue, ResolveSnapshot, SaveQueued, ToPreparing, Prepare, ToRunning,
              ReadRun, Fetch, BackToRunning, DriveThrows, PersistWait, WaitsPersisted, SaveState,
              Suspend, CancelWaits, ReleaseClaim, Finish, FailWaits, FailClaim, FailRun, LeaveDrive,
              Goto, Done, Closed
      <4> QED BY <4>1, <4>2
    <3>3. ~PersistWait(u)
      BY <3>2 DEF PersistWait, Closed
    <3>4. pc[u] \in Closed => OpenRows(r) = {}
      BY <3>1 DEF RowsWithdrawn
    <3> QED BY <2>1, <3>1, <3>2, <3>3, <3>4, ContinueRows
  <2>2. ASSUME pc'[u] = pc[u], job'[u] = job[u], OpenRows(r)' \subseteq OpenRows(r)
        PROVE  OpenRows(r)' = {}
    BY <1>1, <2>2 DEF RowsWithdrawn
  <2>3. ASSUME NEW t \in Tasks \ {u}, Continue(t)
        PROVE  OpenRows(r)' = {}
    <3>1. pc'[u] = pc[u] /\ job'[u] = job[u]
      BY <2>3, ContinueFrame
    <3>2. r # job[t].run
      BY <1>1, <2>3, <3>1, Apart DEF Closed
    <3> QED BY <2>2, <2>3, <3>1, <3>2, ContinueRows
  <2>4. ASSUME NEW t \in Tasks, Request(t)
        PROVE  OpenRows(r)' = {}
    <3>1. pc'[u] = pc[u] /\ job'[u] = job[u]
      BY <1>0, <1>1, <2>4, RequestFrame DEF Closed, Starting, Answering
    <3> QED BY <2>2, <2>4, <3>1, RequestRows
  <2>5. CASE UNCHANGED vars
    <3>1. pc'[u] = pc[u] /\ job'[u] = job[u] /\ UNCHANGED waits
      BY <2>5 DEF vars, volatile, durable
    <3>2. OpenRows(r)' \subseteq OpenRows(r)
      BY <3>1 DEF OpenRows
    <3> QED BY <2>2, <3>1, <3>2
  <2> QED BY <2>1, <2>3, <2>4, <2>5, LiveStep
<1>2. ASSUME NEW r \in Runs, isTerminal(runs'[r]), OpenRows(r)' # {}
      PROVE  \E t \in Tasks : job'[t].run = r /\ pc'[t] \in Withdrawing
  <2>1. ASSUME OpenRows(r) # {}
        PROVE  \E v \in Tasks : job[v].run = r /\ pc[v] \in Withdrawing
    <3>1. isTerminal(runs[r])
      BY <1>2, <2>1, RunsProgress DEF RowsWithdrawn, Releasing, Closed
    <3> QED BY <2>1, <3>1 DEF RowsWithdrawn
  <2>2. ASSUME NEW t \in Tasks, Continue(t), r # job[t].run
        PROVE  \E v \in Tasks : job'[v].run = r /\ pc'[v] \in Withdrawing
    <3>1. OpenRows(r) # {}
      BY <1>2, <2>2, ContinueRows
    <3>2. PICK v \in Tasks : job[v].run = r /\ pc[v] \in Withdrawing
      BY <2>1, <3>1
    <3>3. pc'[v] = pc[v] /\ job'[v] = job[v]
      BY <2>2, <3>2, ContinueFrame
    <3> QED BY <3>2, <3>3
  <2>3. ASSUME NEW t \in Tasks, Continue(t), r = job[t].run
        PROVE  job'[t].run = r /\ pc'[t] \in Withdrawing
    <3>1. CASE PersistWait(t)
      <4>1. pc'[t] = "persistWaits"
        BY <3>1 DEF PersistWait
      <4> QED BY <2>3, <4>1, ContinueFrame
    <3>2. CASE ~PersistWait(t)
      <4>1. OpenRows(r) # {} /\ pc[t] \notin {"cancelWaits", "failWaits"}
        BY <1>2, <2>3, <3>2, ContinueRows
      <4>2. PICK v \in Tasks : job[v].run = r /\ pc[v] \in Withdrawing
        BY <2>1, <4>1
      <4>3. v = t
        BY <2>3, <4>2, Apart
      <4>4. pc[t] \in {"persistWaits", "saveState", "suspend"}
        BY <4>1, <4>2, <4>3
      <4>5. CASE pc[t] = "suspend"
        <5>1. Suspend(t)
          BY <2>3, <4>5 DEF Continue, ResolveSnapshot, SaveQueued, ToPreparing, Prepare, ToRunning, ReadRun,
                Fetch, BackToRunning, Tick, DriveThrows, PersistWait, WaitsPersisted, SaveState,
                CancelWaits, ReleaseClaim, Finish, FailWaits, FailClaim, FailRun
        <5>2. isTerminal(runs[r]) /\ job[t].state = runs[r]
          <6>1. Stored(r, job[t].state)
            BY <2>3, <4>5 DEF StatesInv, CopyCurrent, CopyOf
          <6>2. isTerminal(runs[r])
            BY <1>2, <2>3, <4>1, RunsProgress DEF RowsWithdrawn, Releasing, Closed
          <6> QED BY <6>1, <6>2 DEF Stored
        <5>3. ~canTransition(job[t].state, ParkedState(r))
          BY <5>2 DEF isTerminal, TERMINAL_RUN_STATES, canTransition, RUN_TRANSITIONS, RunState, ParkedState
        <5>4. pc'[t] = "failWaits"
          BY <1>0, <2>3, <5>1, <5>3 DEF Suspend, Goto
        <5> QED BY <2>3, <5>4, ContinueFrame
      <4>6. CASE pc[t] \in {"persistWaits", "saveState"}
        <5>1. WaitsPersisted(t) \/ SaveState(t)
          BY <2>3, <3>2, <4>6 DEF Continue, ResolveSnapshot, SaveQueued, ToPreparing, Prepare, ToRunning,
                ReadRun, Fetch, BackToRunning, Tick, DriveThrows, Suspend, CancelWaits, ReleaseClaim,
                Finish, FailWaits, FailClaim, FailRun
        <5>2. pc'[t] \in Withdrawing
          BY <1>0, <5>1 DEF WaitsPersisted, SaveState, Goto
        <5> QED BY <2>3, <5>2, ContinueFrame
      <4> QED BY <4>4, <4>5, <4>6
    <3> QED BY <3>1, <3>2
  <2>4. ASSUME OpenRows(r) # {}, \A v \in Tasks : pc[v] # "idle" => pc'[v] = pc[v] /\ job'[v] = job[v]
        PROVE  \E v \in Tasks : job'[v].run = r /\ pc'[v] \in Withdrawing
    BY <2>1, <2>4
  <2>5. CASE \E t \in Tasks : Request(t)
    <3>1. OpenRows(r) # {}
      BY <1>2, <2>5, RequestRows
    <3>2. \A v \in Tasks : pc[v] # "idle" => pc'[v] = pc[v] /\ job'[v] = job[v]
      BY <1>0, <2>5, RequestFrame
    <3> QED BY <2>4, <3>1, <3>2
  <2>6. CASE UNCHANGED vars
    <3>1. OpenRows(r) # {}
      BY <1>2, <2>6 DEF vars, durable, OpenRows
    <3> QED BY <2>4, <2>6, <3>1 DEF vars, volatile
  <2> QED BY <2>2, <2>3, <2>5, <2>6, LiveStep
<1> QED BY <1>1, <1>2 DEF RowsWithdrawn

ClaimsInv == VerdictInHand /\ Begun /\ ClaimsHeld /\ ClaimsReleased /\ RowsWithdrawn

LEMMA ClaimsInit ==
    ASSUME Init
    PROVE  Uninterrupted /\ ClaimsInv
<1>1. Uninterrupted
  BY DEF Init, Uninterrupted
<1>2. VerdictInHand /\ Begun
  BY DEF Init, VerdictInHand, Begun, Fresh, NoRow, WaitRow
<1>3. ClaimsHeld /\ ClaimsReleased
  BY DEF Init, ClaimsHeld, ClaimsReleased, Releasing, isTerminal, TERMINAL_RUN_STATES
<1>4. RowsWithdrawn
  BY DEF Init, RowsWithdrawn, Closed, isTerminal, TERMINAL_RUN_STATES
<1> QED BY <1>1, <1>2, <1>3, <1>4 DEF ClaimsInv

LEMMA ClaimsInvariant ==
    ASSUME "cancel" \notin Env, MaxCrashes = 0
    PROVE  Spec => [](Typing /\ LockHolders /\ StatesInv /\ Uninterrupted /\ ClaimsInv)
<1> DEFINE IInv == Typing /\ LockHolders /\ StatesInv /\ Uninterrupted /\ ClaimsInv
<1>1. Init => IInv
  BY TypingInit, LockHoldersInit, StatesInit, ClaimsInit
<1>2. IInv /\ [Next]_vars => IInv'
  <2> SUFFICES ASSUME IInv, [Next]_vars
               PROVE  IInv'
    OBVIOUS
  <2>1. Typing' /\ LockHolders'
    BY TypingNext, LockHoldersNext
  <2>2. Uninterrupted'
    BY UninterruptedNext
  <2>3. StatesInv'
    BY CopyCurrentNext, OnlyStartedNext, QuietBootNext DEF StatesInv
  <2>4. ClaimsInv'
    BY VerdictInHandNext, BegunNext, ClaimsHeldNext, ClaimsReleasedNext, RowsWithdrawnNext DEF ClaimsInv
  <2> QED BY <2>1, <2>2, <2>3, <2>4
<1> QED BY <1>1, <1>2, PTL DEF Spec

\* Two runs of one work item are never executed at the same time: a driven run that has
\* not ended holds the claim of its item, which nobody else can hold.  A death between
\* the release of a claim and the last save of its run breaks this, and so does a
\* cancel(), which releases the claim of a run it takes no lock of.
THEOREM OneLiveRun ==
    ASSUME "cancel" \notin Env, MaxCrashes = 0
    PROVE  Spec => []OneLiveRunPerItem
<1>1. ASSUME LockHolders, StatesInv, ClaimsInv, NEW t \in Tasks, job[t].run \in Runs,
             pc[t] = "tick", ~isTerminal(job[t].state)
      PROVE  claims[ItemOf[job[t].run]] = job[t].run
  <2> DEFINE r == job[t].run
  <2>1. runs[r] # "none" /\ ~isTerminal(runs[r])
    BY <1>1 DEF StatesInv, CopyCurrent, CopyOf, Stored
  <2>2. \A v \in Tasks : job[v].run = r /\ pc[v] \in Releasing => FALSE
    BY <1>1 DEF LockHolders, HoldsLock, Releasing
  <2> QED BY <1>1, <2>1, <2>2 DEF ClaimsInv, ClaimsHeld
<1>2. Typing /\ LockHolders /\ StatesInv /\ ClaimsInv => OneLiveRunPerItem
  <2> SUFFICES ASSUME Typing, LockHolders, StatesInv, ClaimsInv,
                      NEW t \in Tasks, pc[t] = "tick", ~isTerminal(job[t].state),
                      NEW u \in Tasks, pc[u] = "tick", ~isTerminal(job[u].state),
                      ItemOf[job[t].run] = ItemOf[job[u].run]
               PROVE  job[t].run = job[u].run
    BY DEF OneLiveRunPerItem
  <2>1. job[t].run \in Runs /\ job[u].run \in Runs
    BY DEF Typing, TypeOK
  <2> QED BY <1>1, <2>1
<1> QED BY <1>2, ClaimsInvariant, PTL

\* A run that ended and that nobody is working on holds no claim and has no open row: the
\* drive that ends it, or the catch block of a drive that failed, withdraws its rows and
\* gives its claim back before the state is stored.
THEOREM NothingLeft ==
    ASSUME "cancel" \notin Env, MaxCrashes = 0
    PROVE  Spec => []TerminalLeavesNothing
<1>1. ClaimsInv => TerminalLeavesNothing
  BY DEF ClaimsInv, ClaimsReleased, RowsWithdrawn, TerminalLeavesNothing, Unattended
<1> QED BY <1>1, ClaimsInvariant, PTL

-----------------------------------------------------------------------------
(***************************************************************************)
(* What the wait rows promise, while the daemon lives: the questions of    *)
(* DurableQuestions, and that a parked run is parked on rows that somebody *)
(* can answer.                                                             *)
(***************************************************************************)

-----------------------------------------------------------------------------
(* A daemon that lives *)

Alive == up /\ recovery = NoRecovery

LEMMA AliveStep ==
    ASSUME Alive, MaxCrashes = 0, Typing, [Next]_vars
    PROVE  \/ \E t \in Tasks : Continue(t) \/ Request(t)
           \/ \E r \in Runs : Cancel(r) \/ ContinueCancel(r)
           \/ UNCHANGED vars
  BY DEF Next, Crash, Restart, Recover, V1Recover, RecoverList, RecoverRun, ReleaseOrphanedClaims,
         Alive, NoRecovery, Typing, TypeOK

LEMMA AliveNext ==
    ASSUME Alive, MaxCrashes = 0, Typing, LockHolders, [Next]_vars
    PROVE  Alive'
<1>1. CASE \E t \in Tasks : Continue(t)
  BY <1>1, ContinueFrame DEF Alive, NoRecovery
<1>2. CASE (\E t \in Tasks : Request(t)) \/ UNCHANGED vars
  BY <1>2 DEF Request, Claim, Satisfy, FireDueTimer, Alive, NoRecovery, vars, volatile
<1>3. CASE \E r \in Runs : Cancel(r) \/ ContinueCancel(r)
  BY <1>3 DEF Cancel, ContinueCancel, CancelRows, CancelClaim, CancelState, Alive, NoRecovery
<1> QED BY <1>1, <1>2, <1>3, AliveStep

-----------------------------------------------------------------------------
(* Answers in the hands of tasks *)

\* Until the first tick of its drive; a start has no answer to bring.
Bearing == {"claimed", "startQueue", "queued", "prepare", "running",
            "resumeQueue", "fetch", "resumed", "tick"}
HeldBy(t) == IF pc[t] \in Bearing THEN job[t].sat ELSE {}

\* A task holds at most one answer, to a question of its run, that nobody else holds and
\* no node has been given.
AnswersHeld ==
    /\ \A t \in Tasks : \A w \in HeldBy(t) :
          /\ HeldBy(t) = {w}
          /\ waits[w].status = "satisfied" /\ waits[w].run = job[t].run
          /\ delivered[w] = 0
          /\ \A u \in Tasks \ {t} : w \notin HeldBy(u)
    /\ \A w \in WaitIds : waits[w].status \in {"none", "open"} => delivered[w] = 0

\* A task keeps its answer up to its tick, and then has none.
LEMMA ContinueAnswers ==
    ASSUME Typing, LockHolders, NEW t \in Tasks, Continue(t)
    PROVE  /\ \A u \in Tasks \ {t} : HeldBy(u)' = HeldBy(u) /\ job'[u] = job[u]
           /\ \/ HeldBy(t)' = {}
              \/ HeldBy(t)' = HeldBy(t) /\ job'[t].run = job[t].run
           /\ Tick(t) => HeldBy(t)' = {}
           /\ ~Tick(t) => UNCHANGED delivered
<1>0. /\ pc \in [Tasks -> Outside \cup Locked] /\ job \in [Tasks -> Job]
      /\ \A u \in Tasks \ {t} : pc'[u] = pc[u] /\ job'[u] = job[u]
      /\ pc'[t] # "idle" => job'[t].run = job[t].run
  BY ContinueFrame DEF Typing, TypeOK
<1>1. \A u \in Tasks \ {t} : HeldBy(u)' = HeldBy(u) /\ job'[u] = job[u]
  BY <1>0 DEF HeldBy
<1>2. ASSUME pc'[t] \notin Bearing
      PROVE  HeldBy(t)' = {}
  BY <1>2 DEF HeldBy
<1>3. ASSUME pc[t] \in Bearing, pc'[t] \in Bearing, job'[t].sat = job[t].sat
      PROVE  HeldBy(t)' = HeldBy(t) /\ job'[t].run = job[t].run
  BY <1>0, <1>3 DEF HeldBy, Bearing
<1>4. CASE Tick(t)
  <2>1. pc'[t] \notin Bearing
    BY <1>4, TickMoves DEF Bearing
  <2> QED BY <1>1, <1>2, <1>4, <2>1
<1>5. CASE ResolveSnapshot(t) \/ SaveQueued(t) \/ ToPreparing(t) \/ Prepare(t) \/ ReadRun(t) \/ Fetch(t)
  <2>1. pc'[t] \notin Bearing \/ (pc[t] \in Bearing /\ pc'[t] \in Bearing /\ job'[t].sat = job[t].sat)
    <3>1. CASE ResolveSnapshot(t) \/ SaveQueued(t) \/ ToPreparing(t) \/ Prepare(t)
      BY <1>0, <3>1 DEF ResolveSnapshot, SaveQueued, ToPreparing, Prepare, Goto, Done, Bearing
    <3>2. CASE ReadRun(t)
      <4>1. pc'[t] = "idle" \/ job' = [job EXCEPT ![t] = [@ EXCEPT !.state = runs[job[t].run],
                                                               !.graph = graphs[job[t].run]]]
        BY <1>0, <3>2 DEF ReadRun, Done, Goto
      <4>2. pc'[t] = "idle" \/ job'[t].sat = job[t].sat
        BY <1>0, <4>1 DEF Job
      <4>3. pc[t] = "resumeQueue" /\ pc'[t] \in {"idle", "fetch"}
        BY <1>0, <3>2 DEF ReadRun, Done, Goto
      <4> QED BY <4>2, <4>3 DEF Bearing
    <3>3. CASE Fetch(t)
      BY <1>0, <3>3 DEF Fetch, Goto, Done, Bearing
    <3> QED BY <1>5, <3>1, <3>2, <3>3
  <2>2. UNCHANGED delivered /\ ~Tick(t)
    BY <1>5 DEF ResolveSnapshot, SaveQueued, ToPreparing, Prepare, ReadRun, Fetch, Tick
  <2> QED BY <1>1, <1>2, <1>3, <2>1, <2>2
<1>6. CASE ToRunning(t) \/ BackToRunning(t)
  <2>1. pc[t] \in Bearing /\ pc'[t] \in Bearing
    BY <1>0, <1>6 DEF ToRunning, BackToRunning, Goto, Bearing
  <2>2. job'[t].sat = job[t].sat
    <3>1. PICK state, graph : job' = [job EXCEPT ![t] = [@ EXCEPT !.state = state, !.graph = graph]]
      BY <1>6 DEF ToRunning, BackToRunning
    <3> QED BY <1>0, <3>1 DEF Job
  <2>3. UNCHANGED delivered /\ ~Tick(t)
    BY <1>6 DEF ToRunning, BackToRunning, Tick
  <2> QED BY <1>1, <1>3, <2>1, <2>2, <2>3
<1>7. CASE DriveThrows(t) \/ PersistWait(t) \/ WaitsPersisted(t) \/ SaveState(t) \/ Suspend(t)
           \/ CancelWaits(t) \/ ReleaseClaim(t) \/ Finish(t) \/ FailWaits(t) \/ FailClaim(t) \/ FailRun(t)
  <2>1. pc'[t] \notin Bearing
    BY <1>0, <1>7 DEF DriveThrows, PersistWait, WaitsPersisted, SaveState, Suspend, CancelWaits,
          ReleaseClaim, Finish, FailWaits, FailClaim, FailRun, LeaveDrive, Goto, Done, Bearing
  <2>2. UNCHANGED delivered
    BY <1>7 DEF DriveThrows, PersistWait, WaitsPersisted, SaveState, Suspend, CancelWaits,
          ReleaseClaim, Finish, FailWaits, FailClaim, FailRun
  <2>3. Tick(t) => HeldBy(t)' = {}
    BY <1>2, <2>1
  <2> QED BY <1>1, <1>2, <2>1, <2>2, <2>3
<1> QED BY <1>4, <1>5, <1>6, <1>7 DEF Continue

\* A tick delivers answers its task holds.
LEMMA TickDelivers ==
    ASSUME Typing, NEW t \in Tasks, Tick(t)
    PROVE  \E took : /\ UNCHANGED waits
                     /\ pc[t] = "tick"
                     /\ \A w \in WaitIds :
                          delivered'[w] = IF w \in HeldBy(t) /\ waits[w].node \in took /\ delivered[w] < 2
                                          THEN delivered[w] + 1 ELSE delivered[w]
<1>1. PICK verdict \in RunState, graph \in GraphState, asks \in SUBSET Nodes :
         \E took : TickTo(t, verdict, graph, asks, took)
  BY TickTakes
<1>2. PICK took : TickTo(t, verdict, graph, asks, took)
  BY <1>1
<1>3. pc[t] = "tick" /\ UNCHANGED waits
  BY DEF Tick
<1> QED BY <1>2, <1>3 DEF TickTo, HeldBy, Bearing

\* The answers of tasks in a step of a live daemon.
LEMMA AnswersStep ==
    ASSUME Alive, MaxCrashes = 0, Typing, LockHolders, [Next]_vars
    PROVE  \/ /\ \E t \in Tasks : Tick(t) /\ HeldBy(t)' = {}
                                  /\ \A u \in Tasks \ {t} : HeldBy(u)' = HeldBy(u) /\ job'[u] = job[u]
           \/ /\ UNCHANGED delivered
              /\ \A u \in Tasks : \/ HeldBy(u)' = {}
                                  \/ HeldBy(u)' = HeldBy(u) /\ job'[u].run = job[u].run
           \/ /\ UNCHANGED delivered
              /\ \E t \in Tasks, w \in WaitIds :
                    /\ Answering(t, w) /\ HeldBy(t) = {} /\ HeldBy(t)' = {w}
                    /\ \A u \in Tasks \ {t} : HeldBy(u)' = HeldBy(u) /\ job'[u] = job[u]
<1>1. ASSUME NEW t \in Tasks, Continue(t)
      PROVE  \/ /\ Tick(t) /\ HeldBy(t)' = {}
                /\ \A u \in Tasks \ {t} : HeldBy(u)' = HeldBy(u) /\ job'[u] = job[u]
             \/ /\ UNCHANGED delivered
                /\ \A u \in Tasks : \/ HeldBy(u)' = {}
                                    \/ HeldBy(u)' = HeldBy(u) /\ job'[u].run = job[u].run
  BY <1>1, ContinueAnswers
<1>2. ASSUME NEW t \in Tasks, Request(t)
      PROVE  /\ UNCHANGED delivered
             /\ \/ \A u \in Tasks : \/ HeldBy(u)' = {}
                                    \/ HeldBy(u)' = HeldBy(u) /\ job'[u].run = job[u].run
                \/ \E w \in WaitIds :
                     /\ Answering(t, w) /\ HeldBy(t) = {} /\ HeldBy(t)' = {w}
                     /\ \A u \in Tasks \ {t} : HeldBy(u)' = HeldBy(u) /\ job'[u] = job[u]
  <2>1. /\ UNCHANGED delivered /\ pc[t] = "idle"
        /\ \A u \in Tasks \ {t} : pc'[u] = pc[u] /\ job'[u] = job[u]
    BY <1>2, RequestFrame
  <2>2. \A u \in Tasks \ {t} : HeldBy(u)' = HeldBy(u) /\ job'[u] = job[u]
    BY <2>1 DEF HeldBy
  <2>3. HeldBy(t) = {}
    BY <2>1 DEF HeldBy, Bearing
  <2>4. CASE \E r \in Runs : Starting(t, r)
    <3>1. HeldBy(t)' = {}
      BY <2>4 DEF Starting, HeldBy
    <3> QED BY <2>1, <2>2, <3>1
  <2>5. ASSUME NEW w \in WaitIds, Answering(t, w)
        PROVE  HeldBy(t)' = {w}
    BY <2>5 DEF Answering, HeldBy, Bearing
  <2>6. CASE UNCHANGED <<claims, job, pc, waits>>
    BY <2>1, <2>6 DEF HeldBy
  <2> QED BY <1>2, <2>1, <2>2, <2>3, <2>4, <2>5, <2>6, RequestFrame
<1>3. CASE (\E r \in Runs : Cancel(r) \/ ContinueCancel(r)) \/ UNCHANGED vars
  <2>1. UNCHANGED <<pc, job, delivered>>
    BY <1>3 DEF Cancel, ContinueCancel, CancelRows, CancelClaim, CancelState, vars, volatile
  <2> QED BY <2>1 DEF HeldBy
<1> QED BY <1>1, <1>2, <1>3, AliveStep

LEMMA AnswersHeldNext ==
    ASSUME Alive, MaxCrashes = 0, Typing, LockHolders, AnswersHeld, [Next]_vars
    PROVE  AnswersHeld'
<1>0. /\ waits \in [WaitIds -> WaitRow \cup {NoRow}] /\ delivered \in [WaitIds -> 0..2]
      /\ \A u \in Tasks : HeldBy(u) \subseteq WaitIds
  BY DEF Typing, TypeOK, Job, HeldBy
\* A satisfied row stays as it is, and no row becomes unsettled again.
<1>1. ASSUME NEW w \in WaitIds
      PROVE  /\ waits[w].status = "satisfied" => waits'[w] = waits[w]
             /\ waits'[w].status \in {"none", "open"} => waits[w].status \in {"none", "open"}
  <2>1. CASE SettlesOnly
    BY <2>1 DEF SettlesOnly, Settled
  <2>2. ASSUME NEW t \in Tasks, PersistWait(t)
        PROVE  /\ waits[w].status = "satisfied" => waits'[w] = waits[w]
               /\ waits'[w].status \in {"none", "open"} => waits[w].status \in {"none", "open"}
    <3>1. PICK n \in job[t].todo, v \in FreeIds :
             waits' = [waits EXCEPT ![v] = [run |-> job[t].run, node |-> n, status |-> "open"]]
      BY <2>2, PersistWaitInserts
    <3> QED BY <1>0, <3>1 DEF FreeIds
  <2> QED BY <2>1, <2>2, WaitsStep
<1>2. ASSUME NEW t \in Tasks, Tick(t), HeldBy(t)' = {},
             \A u \in Tasks \ {t} : HeldBy(u)' = HeldBy(u) /\ job'[u] = job[u]
      PROVE  AnswersHeld'
  <2>1. UNCHANGED waits /\ \A w \in WaitIds : w \notin HeldBy(t) => delivered'[w] = delivered[w]
    BY <1>2, TickDelivers
  <2>2. ASSUME NEW u \in Tasks, NEW w \in HeldBy(u)'
        PROVE  /\ u # t /\ w \in HeldBy(u) /\ w \notin HeldBy(t)
               /\ HeldBy(u)' = HeldBy(u) /\ job'[u] = job[u]
    BY <1>2, <2>2 DEF AnswersHeld
  <2>3. \A u \in Tasks : \A w \in HeldBy(u)' :
          /\ HeldBy(u)' = {w} /\ waits'[w].status = "satisfied" /\ waits'[w].run = job'[u].run
          /\ delivered'[w] = 0
    BY <1>0, <2>1, <2>2 DEF AnswersHeld
  <2>4. \A u \in Tasks : \A w \in HeldBy(u)' : \A v \in Tasks \ {u} : w \notin HeldBy(v)'
    BY <1>2, <2>2 DEF AnswersHeld
  <2>5. \A w \in WaitIds : waits'[w].status \in {"none", "open"} => delivered'[w] = 0
    BY <2>1 DEF AnswersHeld
  <2> QED BY <2>3, <2>4, <2>5 DEF AnswersHeld
<1>3. ASSUME UNCHANGED delivered,
             \A u \in Tasks : HeldBy(u)' = {} \/ (HeldBy(u)' = HeldBy(u) /\ job'[u].run = job[u].run)
      PROVE  AnswersHeld'
  <2>1. ASSUME NEW u \in Tasks, NEW w \in HeldBy(u)'
        PROVE  w \in WaitIds /\ w \in HeldBy(u) /\ HeldBy(u)' = HeldBy(u) /\ job'[u].run = job[u].run
    BY <1>0, <1>3, <2>1
  <2>2. \A u \in Tasks : \A w \in HeldBy(u)' :
          /\ HeldBy(u)' = {w} /\ waits'[w].status = "satisfied" /\ waits'[w].run = job'[u].run
          /\ delivered'[w] = 0
    BY <1>1, <1>3, <2>1 DEF AnswersHeld
  <2>3. \A u \in Tasks : \A w \in HeldBy(u)' : \A v \in Tasks \ {u} : w \notin HeldBy(v)'
    BY <1>3, <2>1 DEF AnswersHeld
  <2>4. \A w \in WaitIds : waits'[w].status \in {"none", "open"} => delivered'[w] = 0
    BY <1>1, <1>3 DEF AnswersHeld
  <2> QED BY <2>2, <2>3, <2>4 DEF AnswersHeld
<1>4. ASSUME UNCHANGED delivered, NEW t \in Tasks, NEW a \in WaitIds, Answering(t, a),
             HeldBy(t) = {}, HeldBy(t)' = {a},
             \A u \in Tasks \ {t} : HeldBy(u)' = HeldBy(u) /\ job'[u] = job[u]
      PROVE  AnswersHeld'
  <2>1. /\ waits[a].status = "open" /\ waits'[a].status = "satisfied" /\ waits'[a].run = job'[t].run
        /\ delivered'[a] = 0
    BY <1>0, <1>4 DEF Answering, AnswersHeld, WaitRow
  <2>2. \A u \in Tasks : a \notin HeldBy(u)
    BY <2>1 DEF AnswersHeld
  <2>3. ASSUME NEW u \in Tasks \ {t}, NEW w \in HeldBy(u)'
        PROVE  /\ w \in WaitIds /\ w \in HeldBy(u) /\ w # a
               /\ HeldBy(u)' = {w} /\ waits'[w].status = "satisfied" /\ waits'[w].run = job'[u].run
               /\ delivered'[w] = 0
    <3>1. w \in HeldBy(u) /\ w \in WaitIds /\ w # a
      BY <1>0, <1>4, <2>2
    <3>2. /\ HeldBy(u) = {w} /\ waits[w].status = "satisfied" /\ waits[w].run = job[u].run
          /\ delivered[w] = 0
      BY <3>1 DEF AnswersHeld
    <3> QED BY <1>1, <1>4, <3>1, <3>2
  <2>4. \A u \in Tasks : \A w \in HeldBy(u)' :
          /\ HeldBy(u)' = {w} /\ waits'[w].status = "satisfied" /\ waits'[w].run = job'[u].run
          /\ delivered'[w] = 0
    BY <1>4, <2>1, <2>3
  <2>5. \A u \in Tasks : \A w \in HeldBy(u)' : \A v \in Tasks \ {u} : w \notin HeldBy(v)'
    BY <1>4, <2>2, <2>3 DEF AnswersHeld
  <2>6. \A w \in WaitIds : waits'[w].status \in {"none", "open"} => delivered'[w] = 0
    BY <1>1, <1>4 DEF AnswersHeld
  <2> QED BY <2>4, <2>5, <2>6 DEF AnswersHeld
<1> QED BY <1>2, <1>3, <1>4, AnswersStep

-----------------------------------------------------------------------------
(* The questions of a live daemon *)

\* What a step does to rows and deliveries together.
LEMMA RowsStep ==
    ASSUME Alive, MaxCrashes = 0, Typing, LockHolders, [Next]_vars
    PROVE  \/ UNCHANGED <<waits, delivered>>
           \/ \E t \in Tasks : Tick(t)
           \/ UNCHANGED delivered /\ \E t \in Tasks : PersistWait(t)
           \/ UNCHANGED delivered /\ \E r \in Runs : cancelForRun(r)
           \/ UNCHANGED delivered /\ \E t \in Tasks, w \in WaitIds : Answering(t, w)
<1>1. ASSUME NEW t \in Tasks, Continue(t)
      PROVE  \/ UNCHANGED <<waits, delivered>> \/ Tick(t)
             \/ UNCHANGED delivered /\ PersistWait(t)
             \/ UNCHANGED delivered /\ cancelForRun(job[t].run) /\ job[t].run \in Runs
  <2>1. job[t].run \in Runs
    BY <1>1, ContinueFrame
  <2>2. CASE CancelWaits(t) \/ FailWaits(t)
    BY <2>1, <2>2 DEF CancelWaits, FailWaits
  <2>3. CASE PersistWait(t)
    BY <2>3 DEF PersistWait
  <2>4. CASE ~(CancelWaits(t) \/ FailWaits(t) \/ PersistWait(t) \/ Tick(t))
    BY <1>1, <2>4 DEF Continue, ResolveSnapshot, SaveQueued, ToPreparing, Prepare, ToRunning, ReadRun,
          Fetch, BackToRunning, DriveThrows, WaitsPersisted, SaveState, Suspend, ReleaseClaim, Finish,
          FailClaim, FailRun, durable
  <2> QED BY <2>2, <2>3, <2>4
<1>2. ASSUME NEW t \in Tasks, Request(t)
      PROVE  UNCHANGED delivered /\ (UNCHANGED waits \/ \E w \in WaitIds : Answering(t, w))
  BY <1>2, RequestFrame DEF Starting
<1>3. ASSUME NEW r \in Runs, Cancel(r) \/ ContinueCancel(r)
      PROVE  UNCHANGED delivered /\ (UNCHANGED waits \/ cancelForRun(r))
  BY <1>3 DEF Cancel, ContinueCancel, CancelRows, CancelClaim, CancelState, durable
<1>4. CASE UNCHANGED vars
  BY <1>4 DEF vars, durable
<1> QED BY <1>1, <1>2, <1>3, <1>4, AliveStep

\* What becomes of a question: the status of its row, and the fate of its answer.
Fate(status, count) ==
    CASE status = "satisfied" /\ count = 0 -> "answered"
      [] status = "satisfied" /\ count = 1 -> "delivered"
      [] status = "satisfied" /\ count > 1 -> "delivered twice"
      [] status = "cancelled" -> "withdrawn"
      [] OTHER -> status

AskedOf(row, count) == [run |-> row.run, node |-> row.node, status |-> Fate(row.status, count)]

LEMMA Fates ==
    ASSUME NEW count \in Nat
    PROVE  /\ Fate("none", count) = "none" /\ Fate("open", count) = "open"
           /\ Fate("cancelled", count) = "withdrawn"
           /\ Fate("satisfied", 0) = "answered" /\ Fate("satisfied", 1) = "delivered"
           /\ Fate("satisfied", count) # "open"
<1>1. Fate("none", count) = "none" /\ Fate("open", count) = "open" /\ Fate("cancelled", count) = "withdrawn"
  BY DEF Fate
<1>2. Fate("satisfied", 0) = "answered" /\ Fate("satisfied", 1) = "delivered"
  <2>1. 1 # 0
    OBVIOUS
  <2>2. Fate("satisfied", 0) = "answered"
    BY DEF Fate
  <2>3. Fate("satisfied", 1) = "delivered"
    BY <2>1 DEF Fate
  <2> QED BY <2>2, <2>3
<1>3. Fate("satisfied", count) # "open"
  BY DEF Fate
<1> QED BY <1>1, <1>2, <1>3

LEMMA AskedRow ==
    ASSUME NEW w \in WaitIds
    PROVE  /\ Asked(w) = AskedOf(waits[w], delivered[w])
           /\ Asked(w)' = AskedOf(waits'[w], delivered'[w])
  BY DEF Asked, AskedOf, Fate

\* The questions of the rows a state can hold.
LEMMA QuestionOf ==
    ASSUME NEW row \in WaitRow \cup {NoRow}, NEW count \in Nat
    PROVE  /\ AskedOf(row, count).run = row.run /\ AskedOf(row, count).node = row.node
           /\ AskedOf(row, count).status = "open" <=> row.status = "open"
           /\ row.status \in {"none", "open"} => AskedOf(row, count) = row
           /\ row.status = "satisfied" =>
                 /\ AskedOf(row, 0) = [row EXCEPT !.status = "answered"]
                 /\ AskedOf(row, 1) = [row EXCEPT !.status = "delivered"]
           /\ row.status = "cancelled" => AskedOf(row, count) = [row EXCEPT !.status = "withdrawn"]
<1>1. row = [run |-> row.run, node |-> row.node, status |-> row.status]
      /\ row.status \in {"none", "open", "satisfied", "cancelled"}
  BY DEF WaitRow, NoRow
<1>2. /\ AskedOf(row, count).run = row.run /\ AskedOf(row, count).node = row.node
      /\ AskedOf(row, count).status = Fate(row.status, count)
  BY DEF AskedOf
<1>3. AskedOf(row, count).status = "open" <=> row.status = "open"
  BY <1>1, <1>2, Fates
<1>4. row.status \in {"none", "open"} => AskedOf(row, count) = row
  BY <1>1, Fates DEF AskedOf
<1>5. \A s : [row EXCEPT !.status = s] = [run |-> row.run, node |-> row.node, status |-> s]
  BY <1>1
<1>6. row.status = "satisfied" =>
        /\ AskedOf(row, 0) = [row EXCEPT !.status = "answered"]
        /\ AskedOf(row, 1) = [row EXCEPT !.status = "delivered"]
  BY <1>5, Fates DEF AskedOf
<1>7. row.status = "cancelled" => AskedOf(row, count) = [row EXCEPT !.status = "withdrawn"]
  BY <1>5, Fates DEF AskedOf
<1> QED BY <1>2, <1>3, <1>4, <1>6, <1>7

LEMMA Refines ==
    ASSUME Alive, MaxCrashes = 0, Typing, LockHolders, TodoNeeded, AnswersHeld, [Next]_vars
    PROVE  [Promise!Next]_[w \in WaitIds |-> Asked(w)]
<1> DEFINE Q == [w \in WaitIds |-> Asked(w)]
<1>0. /\ waits \in [WaitIds -> WaitRow \cup {NoRow}] /\ delivered \in [WaitIds -> 0..2]
      /\ \A t \in Tasks : HeldBy(t) \subseteq WaitIds /\ (pc[t] # "idle" => job[t].run \in Runs)
      /\ \A t \in Tasks : job[t].todo \subseteq Nodes
  BY DEF Typing, TypeOK, Job, HeldBy
<1>c. \A w \in WaitIds : delivered[w] \in Nat /\ delivered'[w] \in Nat
  <2>1. delivered' \in [WaitIds -> 0..2]
    BY TypingNext DEF Typing, TypeOK
  <2> QED BY <1>0, <2>1
\* A question changes with its row or its deliveries alone.
<1>a. ASSUME NEW w \in WaitIds, waits'[w] = waits[w], delivered'[w] = delivered[w]
      PROVE  Asked(w)' = Asked(w)
  BY <1>a, AskedRow
<1>b. ASSUME NEW w \in WaitIds
      PROVE  /\ Q[w].run = waits[w].run /\ Q[w].node = waits[w].node
             /\ Q[w].status = "open" <=> waits[w].status = "open"
  BY <1>0, <1>c, AskedRow, QuestionOf
<1>1. CASE UNCHANGED <<waits, delivered>>
  BY <1>1, <1>a
<1>2. ASSUME NEW t \in Tasks, Tick(t)
      PROVE  \E r \in Runs : \E answers \in SUBSET WaitIds : Promise!Deliver(r, answers)
  <2>1. PICK took : /\ UNCHANGED waits
                    /\ pc[t] = "tick"
                    /\ \A w \in WaitIds :
                         delivered'[w] = IF w \in HeldBy(t) /\ waits[w].node \in took /\ delivered[w] < 2
                                         THEN delivered[w] + 1 ELSE delivered[w]
    BY <1>2, TickDelivers
  <2> DEFINE answers == {w \in HeldBy(t) : waits[w].node \in took}
  <2>2. job[t].run \in Runs /\ answers \in SUBSET WaitIds
    BY <1>0, <2>1
  <2>3. \A w \in answers : /\ waits[w].status = "satisfied" /\ waits[w].run = job[t].run
                           /\ delivered[w] = 0 /\ delivered'[w] = 1
    BY <1>0, <2>1 DEF AnswersHeld
  <2>4. \A v, w \in answers : v = w
    BY DEF AnswersHeld
  <2>5. \A w \in answers : Q[w].run = job[t].run /\ Q[w].status = "answered"
    BY <1>0, <1>b, <2>3, AskedRow, <1>c, Fates DEF AskedOf
  <2>6. \A w \in WaitIds : w \notin answers => Asked(w)' = Asked(w)
    BY <1>a, <2>1
  <2>7. \A w \in answers : Asked(w)' = [Asked(w) EXCEPT !.status = "delivered"]
    <3> SUFFICES ASSUME NEW w \in answers
                 PROVE  Asked(w)' = [Asked(w) EXCEPT !.status = "delivered"]
      OBVIOUS
    <3>1. waits'[w] = waits[w] /\ delivered[w] = 0 /\ delivered'[w] = 1 /\ waits[w].status = "satisfied"
      BY <1>0, <2>1, <2>3
    <3>2. Asked(w) = [run |-> waits[w].run, node |-> waits[w].node, status |-> "answered"]
      BY <1>0, <1>c, <3>1, AskedRow, Fates DEF AskedOf
    <3>3. Asked(w)' = [run |-> waits[w].run, node |-> waits[w].node, status |-> "delivered"]
      BY <1>0, <1>c, <3>1, AskedRow, Fates DEF AskedOf
    <3> QED BY <3>2, <3>3
  <2>8. Promise!Deliver(job[t].run, answers)
    BY <2>2, <2>4, <2>5, <2>6, <2>7 DEF Promise!Deliver
  <2> QED BY <2>2, <2>8
<1>3. ASSUME UNCHANGED delivered, NEW t \in Tasks, PersistWait(t)
      PROVE  \E q \in WaitIds, r \in Runs, n \in Nodes : Promise!Ask(q, r, n)
  <2>1. PICK n \in job[t].todo, w \in FreeIds :
           waits' = [waits EXCEPT ![w] = [run |-> job[t].run, node |-> n, status |-> "open"]]
    BY <1>3, PersistWaitInserts
  <2>2. /\ pc[t] = "persistWaits" /\ job[t].run \in Runs /\ n \in Nodes
        /\ w \in WaitIds /\ waits[w].status = "none"
    BY <1>0, <1>3, <2>1 DEF PersistWait, FreeIds
  <2>3. waits[w] = NoRow
    BY <1>0, <2>2 DEF WaitRow
  <2>4. Q[w] = Promise!Unasked
    BY <2>2, <2>3, <1>c, AskedRow, QuestionOf DEF NoRow, Promise!Unasked
  <2>5. \A v \in WaitIds : Q[v].run = job[t].run /\ Q[v].status = "open" => Q[v].node # n
    <3>1. NeedsRow(job[t].run, n)
      BY <2>1, <2>2 DEF TodoNeeded
    <3>2. ASSUME NEW v \in WaitIds, Q[v].run = job[t].run, Q[v].status = "open"
          PROVE  waits[v].run = job[t].run /\ waits[v].status = "open" /\ Q[v].node = waits[v].node
      BY <1>b, <3>2
    <3> QED BY <3>1, <3>2 DEF NeedsRow, OpenRows
  <2>6. Asked(w)' = [run |-> job[t].run, node |-> n, status |-> "open"]
    <3>1. waits'[w] = [run |-> job[t].run, node |-> n, status |-> "open"]
      BY <1>0, <2>1, <2>2
    <3> QED BY <2>2, <3>1, AskedRow, <1>c, Fates DEF AskedOf
  <2>7. \A v \in WaitIds \ {w} : Asked(v)' = Asked(v)
    BY <1>0, <1>3, <1>a, <2>1
  <2>8. Promise!Ask(w, job[t].run, n)
    BY <2>2, <2>4, <2>5, <2>6, <2>7 DEF Promise!Ask, Promise!open
  <2> QED BY <2>2, <2>8
<1>4. ASSUME UNCHANGED delivered, NEW r \in Runs, cancelForRun(r)
      PROVE  Promise!Withdraw(r)
  <2>1. ASSUME NEW w \in WaitIds
        PROVE  Q[w].run = r /\ Q[w].status = "open" <=> w \in OpenRows(r)
    BY <1>b DEF OpenRows
  <2>2. ASSUME NEW w \in OpenRows(r)
        PROVE  Asked(w)' = [Asked(w) EXCEPT !.status = "withdrawn"]
    <3>1. w \in WaitIds /\ waits[w] \in WaitRow /\ waits[w].status = "open"
      BY <1>0 DEF OpenRows, NoRow
    <3>2. waits'[w] = [waits[w] EXCEPT !.status = "cancelled"]
      BY <1>4, <3>1 DEF cancelForRun
    <3>3. AskedOf(waits'[w], delivered'[w]) =
            [run |-> waits[w].run, node |-> waits[w].node, status |-> "withdrawn"]
      BY <3>1, <3>2, <1>c, Fates DEF AskedOf, WaitRow
    <3>4. Asked(w) = [run |-> waits[w].run, node |-> waits[w].node, status |-> "open"]
      BY <3>1, AskedRow, <1>c, Fates DEF AskedOf
    <3> QED BY <3>1, <3>3, <3>4, AskedRow
  <2>3. ASSUME NEW w \in WaitIds \ OpenRows(r)
        PROVE  Asked(w)' = Asked(w)
    BY <1>4, <1>a DEF cancelForRun
  <2> QED BY <2>1, <2>2, <2>3 DEF Promise!Withdraw, Promise!open, OpenRows
<1>5. ASSUME UNCHANGED delivered, NEW t \in Tasks, NEW w \in WaitIds, Answering(t, w)
      PROVE  Promise!Answer(w)
  <2>1. /\ waits[w].status = "open" /\ delivered[w] = 0
        /\ waits' = [waits EXCEPT ![w].status = "satisfied"]
    BY <1>5 DEF Answering, AnswersHeld
  <2>2. Asked(w)' = [Asked(w) EXCEPT !.status = "answered"]
    <3>1. waits[w] \in WaitRow /\ waits'[w] = [waits[w] EXCEPT !.status = "satisfied"]
      BY <1>0, <1>5, <2>1 DEF NoRow
    <3>2. AskedOf(waits'[w], delivered'[w]) =
            [run |-> waits[w].run, node |-> waits[w].node, status |-> "answered"]
      BY <1>5, <2>1, <3>1, <1>c, Fates DEF AskedOf, WaitRow
    <3>3. Asked(w) = [run |-> waits[w].run, node |-> waits[w].node, status |-> "open"]
      BY <2>1, AskedRow, <1>c, Fates DEF AskedOf
    <3> QED BY <3>2, <3>3, AskedRow
  <2>3. \A v \in WaitIds \ {w} : Asked(v)' = Asked(v)
    BY <1>0, <1>5, <1>a, <2>1
  <2>4. Q[w].status = "open"
    BY <1>b, <2>1
  <2> QED BY <2>2, <2>3, <2>4 DEF Promise!Answer
<1> QED BY <1>1, <1>2, <1>3, <1>4, <1>5, RowsStep DEF Promise!Next

\* While the daemon lives, whatever tasks, timers, cancellations and failures do in whatever
\* order: the coordinator keeps the promise of durable waits.  Rows are inserted for nodes
\* without an open one, the first answer settles a row and is handed to one task, the tick
\* of that task gives it to the node, and nobody gives it again.  A death of the daemon
\* between the tick and the save of its state lets recovery give the answer twice.
THEOREM QuestionsAreKept ==
    ASSUME MaxCrashes = 0
    PROVE  Spec => QuestionsKept
<1> DEFINE IInv == Typing /\ LockHolders /\ TodoNeeded /\ Alive /\ AnswersHeld
<1>1. Init => IInv
  <2>1. Init => TodoNeeded /\ Alive /\ AnswersHeld
    BY DEF Init, TodoNeeded, Alive, AnswersHeld, HeldBy, NoJob
  <2> QED BY <2>1, TypingInit, LockHoldersInit
<1>2. IInv /\ [Next]_vars => IInv'
  BY TypingNext, LockHoldersNext, TodoNeededNext, AliveNext, AnswersHeldNext
<1>3. Init => Promise!Init
  BY DEF Init, Promise!Init, Promise!Unasked, Asked, NoRow
<1>4. IInv /\ [Next]_vars => [Promise!Next]_[w \in WaitIds |-> Asked(w)]
  BY Refines
<1> QED BY <1>1, <1>2, <1>3, <1>4, PTL DEF Spec, QuestionsKept, Promise!Spec

-----------------------------------------------------------------------------
(* Runs that wait *)

\* A running run has a driver.
Driven ==
    \A r \in Runs : runs[r] = "RUNNING" => \E t \in Tasks : job[t].run = r /\ pc[t] \in Driving

\* The live rows of a run: what can still be answered, or has been and is on its way.
Held(r) == {w \in WaitIds : \E t \in Tasks : job[t].run = r /\ w \in HeldBy(t)}
Live(r) == OpenRows(r) \cup Held(r)
Asks(r, n) == \E w \in Live(r) : waits[w].node = n

\* They are one for each waiting node of g, but for the nodes in todo.
Coherent(r, g, todo) ==
    /\ todo \subseteq g.waiting
    /\ \A n \in g.waiting \ todo : Asks(r, n)
    /\ \A n \in todo : ~Asks(r, n)
    /\ \A w \in Live(r) : waits[w].node \in g.waiting
    /\ \A v, w \in Live(r) : waits[v].node = waits[w].node => v = w

\* A run that waits has only waiting nodes left.
AtRest(g) == g.saved /\ g.started /\ g.active = g.waiting /\ g.waiting # {}

ParkedCoherent ==
    \A r \in Runs : runs[r] \in Parked =>
        /\ AtRest(graphs[r])
        /\ \A g \in GraphState : g = graphs[r] => Coherent(r, g, {})
        /\ Held(r) = {} =>
              (runs[r] = "WAITING_FOR_HUMAN" <=> \E w \in OpenRows(r) : waits[w].node \in HumanNodes)

\* From the copy of the graph at the resumption to the suspension.
DrivenAs(t, r, g, todo) ==
    /\ pc[t] \in {"fetch", "suspend"} => g = graphs[r]
    /\ job[t].state = "RUNNING" =>
          /\ pc[t] = "tick" => Coherent(r, g, {}) /\ (g = initialRunGraphState \/ AtRest(g))
          /\ pc[t] = "persistWaits" => Coherent(r, g, todo) /\ AtRest(g)
          /\ pc[t] \in {"saveState", "suspend"} /\ job[t].verdict = "WAITING" =>
                Coherent(r, g, {}) /\ AtRest(g)

DrivenCoherent ==
    \A t \in Tasks, r \in Runs, g \in GraphState, todo \in SUBSET Nodes :
        job[t].run = r /\ job[t].graph = g /\ job[t].todo = todo => DrivenAs(t, r, g, todo)

WaitsInv == AnswersHeld /\ Driven /\ ParkedCoherent /\ DrivenCoherent

-----------------------------------------------------------------------------
(* What a step does to the live rows *)

\* The live rows stay what they are, and a run with no answer in hand has the same open ones.
SameLive(r) ==
    /\ Live(r)' = Live(r)
    /\ \A w \in Live(r) : waits'[w].node = waits[w].node
    /\ Held(r)' = {} => Held(r) = {} /\ OpenRows(r)' = OpenRows(r)

LEMMA CoherentStays ==
    ASSUME NEW r, SameLive(r), NEW g, NEW todo, Coherent(r, g, todo)
    PROVE  Coherent(r, g, todo)'
  BY DEF SameLive, Coherent, Asks

\* A step on another run, or one of a task that keeps its answer and writes no row.
LEMMA SameRows ==
    ASSUME NEW r \in Runs, NEW t \in Tasks,
           OpenRows(r)' = OpenRows(r),
           \A w \in WaitIds : waits[w].run = r => waits'[w].node = waits[w].node,
           \A u \in Tasks \ {t} : HeldBy(u)' = HeldBy(u) /\ job'[u] = job[u],
           AnswersHeld, \A u \in Tasks : HeldBy(u) \subseteq WaitIds,
           \/ HeldBy(t) = {} /\ HeldBy(t)' = {}
           \/ HeldBy(t)' = {} /\ job[t].run # r
           \/ HeldBy(t)' = HeldBy(t) /\ job'[t].run = job[t].run
    PROVE  SameLive(r)
<1>1. ASSUME NEW w \in WaitIds, NEW u \in Tasks
      PROVE  job'[u].run = r /\ w \in HeldBy(u)' <=> job[u].run = r /\ w \in HeldBy(u)
  OBVIOUS
<1>2. Held(r)' = Held(r)
  BY <1>1 DEF Held
<1>3. Live(r)' = Live(r)
  BY <1>2 DEF Live
<1>4. \A w \in Live(r) : w \in WaitIds /\ waits[w].run = r
  BY DEF Live, OpenRows, Held, AnswersHeld
<1> QED BY <1>2, <1>3, <1>4 DEF SameLive

\* Rows keep their nodes.
LEMMA SameNodes ==
    ASSUME Typing, [Next]_vars, NEW w \in WaitIds, waits[w].status # "none"
    PROVE  waits'[w].node = waits[w].node
<1>1. CASE SettlesOnly
  BY <1>1 DEF SettlesOnly, Settled
<1>2. ASSUME NEW t \in Tasks, PersistWait(t)
      PROVE  waits'[w].node = waits[w].node
  <2>1. PICK n \in job[t].todo, v \in FreeIds :
           waits' = [waits EXCEPT ![v] = [run |-> job[t].run, node |-> n, status |-> "open"]]
    BY <1>2, PersistWaitInserts
  <2> QED BY <2>1 DEF FreeIds, Typing, TypeOK
<1> QED BY <1>1, <1>2, WaitsStep

LEMMA OthersLive ==
    ASSUME Typing, LockHolders, AnswersHeld, [Next]_vars,
           NEW t \in Tasks, Continue(t), NEW r \in Runs, r # job[t].run
    PROVE  SameLive(r)
<1>1. OpenRows(r)' = OpenRows(r)
  BY ContinueRows
<1>2. \A w \in WaitIds : waits[w].run = r => waits'[w].node = waits[w].node
  <2>1. waits \in [WaitIds -> WaitRow \cup {NoRow}] /\ "none" \notin Runs
    BY CoordinatorAssumption DEF Typing, TypeOK
  <2>2. \A w \in WaitIds : waits[w].run = r => waits[w].status # "none"
    BY <2>1 DEF WaitRow, NoRow
  <2> QED BY <2>2, SameNodes
<1>3. \A u \in Tasks : HeldBy(u) \subseteq WaitIds
  BY DEF Typing, TypeOK, Job, HeldBy
<1>4. /\ \A u \in Tasks \ {t} : HeldBy(u)' = HeldBy(u) /\ job'[u] = job[u]
      /\ HeldBy(t)' = {} \/ (HeldBy(t)' = HeldBy(t) /\ job'[t].run = job[t].run)
  BY ContinueAnswers
<1> QED BY <1>1, <1>2, <1>3, <1>4, SameRows

LEMMA OwnLive ==
    ASSUME Typing, LockHolders, AnswersHeld, [Next]_vars,
           NEW t \in Tasks, Continue(t), UNCHANGED waits, HeldBy(t)' = HeldBy(t), NEW r \in Runs,
           HeldBy(t) = {} \/ pc'[t] # "idle"
    PROVE  SameLive(r)
<1>1. OpenRows(r)' = OpenRows(r)
  BY DEF OpenRows
<1>2. \A u \in Tasks : HeldBy(u) \subseteq WaitIds
  BY DEF Typing, TypeOK, Job, HeldBy
<1>3. /\ \A u \in Tasks \ {t} : HeldBy(u)' = HeldBy(u) /\ job'[u] = job[u]
      /\ pc'[t] # "idle" => job'[t].run = job[t].run
  BY ContinueAnswers, ContinueFrame
<1> QED BY <1>1, <1>2, <1>3, SameRows

LEMMA RequestLive ==
    ASSUME Typing, LockHolders, AnswersHeld, [Next]_vars, NEW t \in Tasks, Request(t), NEW r \in Runs
    PROVE  SameLive(r)
<1>0. /\ pc[t] = "idle" /\ HeldBy(t) = {} /\ \A u \in Tasks : HeldBy(u) \subseteq WaitIds
      /\ \A u \in Tasks \ {t} : HeldBy(u)' = HeldBy(u) /\ job'[u] = job[u]
  BY RequestFrame DEF HeldBy, Bearing, Typing, TypeOK, Job
<1>1. CASE UNCHANGED waits /\ HeldBy(t)' = {}
  <2>1. OpenRows(r)' = OpenRows(r)
    BY <1>1 DEF OpenRows
  <2> QED BY <1>0, <1>1, <2>1, SameRows
<1>2. ASSUME NEW a \in WaitIds, Answering(t, a)
      PROVE  SameLive(r)
  <2>1. /\ waits[a].status = "open" /\ waits'[a].status = "satisfied"
        /\ waits'[a].run = waits[a].run /\ waits'[a].node = waits[a].node
        /\ \A w \in WaitIds \ {a} : waits'[w] = waits[w]
        /\ HeldBy(t)' = {a} /\ job'[t].run = waits[a].run
    BY <1>2 DEF Answering, HeldBy, Bearing, Typing, TypeOK, WaitRow
  <2>2. OpenRows(r)' = OpenRows(r) \ {a}
    BY <2>1 DEF OpenRows
  <2>3. Held(r)' = Held(r) \cup {w \in {a} : waits[a].run = r}
    <3>1. ASSUME NEW w \in WaitIds
          PROVE  (\E u \in Tasks : job'[u].run = r /\ w \in HeldBy(u)')
                   <=> (\E u \in Tasks : job[u].run = r /\ w \in HeldBy(u)) \/ (w = a /\ waits[a].run = r)
      BY <1>0, <2>1
    <3> QED BY <3>1 DEF Held
  <2>4. a \in OpenRows(r) <=> waits[a].run = r
    BY <2>1 DEF OpenRows
  <2>5. Live(r)' = Live(r)
    BY <2>2, <2>3, <2>4 DEF Live
  <2>6. Held(r)' = {} => Held(r) = {} /\ OpenRows(r)' = OpenRows(r)
    BY <2>2, <2>3, <2>4
  <2>7. \A w \in Live(r) : waits'[w].node = waits[w].node
    BY <2>1 DEF Live, OpenRows, Held
  <2> QED BY <2>5, <2>6, <2>7 DEF SameLive
<1>3. CASE \E q \in Runs : Starting(t, q)
  <2>1. UNCHANGED waits /\ HeldBy(t)' = {}
    BY <1>3 DEF Starting, HeldBy
  <2> QED BY <1>1, <2>1
<1>4. CASE UNCHANGED <<claims, job, pc, waits>>
  <2>1. UNCHANGED waits /\ HeldBy(t)' = {}
    BY <1>0, <1>4 DEF HeldBy
  <2> QED BY <1>1, <2>1
<1> QED BY <1>2, <1>3, <1>4, RequestFrame

-----------------------------------------------------------------------------
(* Running runs have drivers *)

LEMMA DrivenNext ==
    ASSUME Uninterrupted, MaxCrashes = 0, "cancel" \notin Env, Typing, LockHolders, StatesInv,
           VerdictInHand, Driven, [Next]_vars
    PROVE  Driven'
<1> SUFFICES ASSUME NEW r \in Runs, runs'[r] = "RUNNING"
             PROVE  \E t \in Tasks : job'[t].run = r /\ pc'[t] \in Driving
  BY DEF Driven
<1>0. /\ pc \in [Tasks -> Outside \cup Locked] /\ job \in [Tasks -> Job]
      /\ runs \in [Runs -> RunState \cup {"none"}]
  BY DEF Typing, TypeOK
<1>1. ASSUME NEW t \in Tasks, Continue(t), r = job[t].run
      PROVE  pc'[t] \in Driving /\ job'[t].run = r
  <2>1. CASE pc'[t] \in Driving
    BY <1>1, <2>1, ContinueFrame
  <2>2. CASE pc[t] \in Driving
    <3>1. CASE Tick(t)
      <4>1. pc'[t] \in Driving
        BY <1>0, <3>1, TickTakes DEF TickTo, Goto
      <4> QED BY <1>1, <4>1, ContinueFrame
    <3>2. CASE DriveThrows(t) \/ PersistWait(t) \/ WaitsPersisted(t) \/ SaveState(t)
               \/ CancelWaits(t) \/ ReleaseClaim(t) \/ FailWaits(t) \/ FailClaim(t)
      BY <1>0, <1>1, <3>2, ContinueFrame DEF DriveThrows, PersistWait, WaitsPersisted, SaveState,
            CancelWaits, ReleaseClaim, FailWaits, FailClaim, Goto
    <3>3. CASE Suspend(t)
      <4>1. pc'[t] = "failWaits" \/ runs'[r] \in Parked
        BY <1>0, <1>1, <3>3 DEF Suspend, SaveRun, Goto, ParkedState, Parked
      <4> QED BY <1>1, <4>1, ContinueFrame DEF Parked
    <3>4. CASE Finish(t)
      <4>1. isTerminal(job[t].verdict)
        BY <3>4 DEF Finish, VerdictInHand
      <4>2. pc'[t] = "failWaits" \/ runs'[r] = job[t].verdict
        BY <1>0, <1>1, <3>4 DEF Finish, SaveRun, Goto
      <4> QED BY <1>1, <4>1, <4>2, ContinueFrame DEF isTerminal, TERMINAL_RUN_STATES
    <3>5. CASE FailRun(t)
      <4>1. canTransition("RUNNING", "FAILED")
        BY DEF canTransition, RUN_TRANSITIONS, RunState
      <4>2. runs'[r] # "RUNNING"
        BY <1>0, <1>1, <3>5, <4>1 DEF FailRun, SaveRun
      <4> QED BY <4>2
    <3> QED BY <1>1, <2>2, <3>1, <3>2, <3>3, <3>4, <3>5 DEF Continue, ResolveSnapshot, SaveQueued,
          ToPreparing, Prepare, ToRunning, ReadRun, Fetch, BackToRunning
  <2>3. CASE pc[t] \notin Driving /\ pc'[t] \notin Driving
    <3>1. runs'[r] \in {"QUEUED", "PREPARING"} \/ runs'[r] = runs[r]
      BY <1>0, <1>1, <2>3 DEF Continue, ResolveSnapshot, SaveQueued, ToPreparing, Prepare, ToRunning,
            ReadRun, Fetch, BackToRunning, Tick, DriveThrows, PersistWait, WaitsPersisted, SaveState,
            Suspend, CancelWaits, ReleaseClaim, Finish, FailWaits, FailClaim, FailRun, SaveRun, Goto, durable
    <3>2. PICK u \in Tasks : job[u].run = r /\ pc[u] \in Driving
      BY <3>1 DEF Driven
    <3>3. u = t
      BY <1>1, <3>2, Apart
    <3> QED BY <2>3, <3>2, <3>3
  <2> QED BY <2>1, <2>2, <2>3
<1>2. ASSUME NEW t \in Tasks, Continue(t), r # job[t].run
      PROVE  \E u \in Tasks : job'[u].run = r /\ pc'[u] \in Driving
  <2>1. runs[r] = "RUNNING"
    BY <1>2, ContinueFrame
  <2>2. PICK u \in Tasks : job[u].run = r /\ pc[u] \in Driving
    BY <2>1 DEF Driven
  <2> QED BY <1>2, <2>2, ContinueFrame
<1>3. ASSUME NEW t \in Tasks, Request(t)
      PROVE  \E u \in Tasks : job'[u].run = r /\ pc'[u] \in Driving
  <2>1. runs[r] = "RUNNING" /\ pc[t] = "idle"
    BY <1>3, RequestFrame
  <2>2. PICK u \in Tasks : job[u].run = r /\ pc[u] \in Driving
    BY <2>1 DEF Driven
  <2> QED BY <1>3, <2>1, <2>2, RequestFrame
<1>4. CASE UNCHANGED vars
  BY <1>4 DEF vars, durable, volatile, Driven
<1> QED BY <1>1, <1>2, <1>3, <1>4, LiveStep

-----------------------------------------------------------------------------
(* A tick and the rows *)

\* A tick that ends in a suspension has left waiting the nodes nobody answered, and asks for
\* those it has added to them.
LEMMA Suspension ==
    ASSUME NEW g \in GraphState, g = initialRunGraphState \/ AtRest(g), "rearrive" \notin Env,
           NEW asked \in SUBSET g.waiting, NEW aborted \in BOOLEAN,
           NEW o \in Outcomes(g, asked, aborted, Env), o.verdict = "WAITING"
    PROVE  /\ AtRest(o.graph)
           /\ o.asks \subseteq Nodes \ (g.waiting \ asked)
           /\ o.graph.waiting = (g.waiting \ asked) \cup o.asks
<1>1. o \notin Stopped(g, asked, aborted, Env)
  <2>1. SUFFICES ASSUME o \in Stopped(g, asked, aborted, Env)
                 PROVE  FALSE
    OBVIOUS
  <2>2. PICK verdict \in Verdicts(aborted) : \E graph, took : o = Outcome(verdict, graph, {}, took)
    BY <2>1 DEF Stopped
  <2> QED BY <2>2 DEF Outcome, Verdicts
<1>2. CASE o = Idle(g) /\ g.started /\ g.active \subseteq Kept(g, asked)
  <2>1. AtRest(g)
    BY <1>2 DEF initialRunGraphState, NoGraph
  <2>2. asked = {}
    BY <1>2, <2>1 DEF AtRest, Kept
  <2>3. o.graph = g /\ o.asks = {}
    BY <1>2 DEF Idle, Outcome
  <2> QED BY <2>1, <2>2, <2>3
<1>3. CASE o \in Quiescent(g, asked, Env) /\ o.graph.waiting # {}
  <2> DEFINE X == [stay : Stay(g, asked, Env), new : New(g, asked, Env),
                   echo : Echo(g, asked), gone : Gone(Env)]
  <2>1. PICK x \in X :
           o = Outcome("WAITING", Ticked(x.stay \cup x.new, x.stay \cup x.new),
                       ReportedWaits(x.new \cup x.echo \cup x.gone, Met(g, asked)),
                       Met(g, asked) \cup x.echo)
    BY <1>3, Zenon DEF Quiescent
  <2>2. /\ x.stay = g.waiting \ asked /\ x.new \subseteq Nodes \ (g.waiting \ asked)
        /\ x.echo = {} /\ x.gone = {}
    BY DEF Stay, New, Echo, Gone, Kept
  <2>3. /\ o.graph = Ticked(x.stay \cup x.new, x.stay \cup x.new)
        /\ o.asks = x.new
    BY <2>1, <2>2 DEF Outcome, ReportedWaits
  <2>4. AtRest(o.graph)
    BY <1>3, <2>3 DEF AtRest, Ticked
  <2>5. o.graph.waiting = x.stay \cup x.new
    BY <2>3 DEF Ticked
  <2> QED BY <2>2, <2>3, <2>4, <2>5
<1> QED BY <1>1, <1>2, <1>3 DEF Outcomes

\* After its tick a task has no answer; the others keep theirs, and no row changes.
LEMMA TickLive ==
    ASSUME Typing, LockHolders, AnswersHeld, NEW t \in Tasks, Tick(t), NEW r \in Runs, r = job[t].run
    PROVE  /\ Live(r)' = Live(r) \ HeldBy(t) /\ HeldBy(t) \subseteq Live(r) /\ HeldBy(t) = job[t].sat
           /\ \A w \in HeldBy(t) : w \notin OpenRows(r)
           /\ \A w \in WaitIds : waits'[w] = waits[w]
<1>0. \A u \in Tasks : HeldBy(u) \subseteq WaitIds
  BY DEF Typing, TypeOK, Job, HeldBy
<1>1. /\ \A u \in Tasks \ {t} : HeldBy(u)' = HeldBy(u) /\ job'[u] = job[u]
      /\ HeldBy(t)' = {} /\ pc[t] = "tick" /\ UNCHANGED waits
  <2>1. Continue(t)
    BY DEF Continue
  <2> QED BY <2>1, ContinueAnswers DEF Tick
<1>2. OpenRows(r)' = OpenRows(r)
  BY <1>1 DEF OpenRows
<1>3. \A w \in HeldBy(t) : w \notin OpenRows(r)
  BY DEF AnswersHeld, OpenRows
<1>4. Held(r)' = Held(r) \ HeldBy(t)
  <2>1. ASSUME NEW w \in WaitIds
        PROVE  (\E u \in Tasks : job'[u].run = r /\ w \in HeldBy(u)')
                 <=> (\E u \in Tasks : job[u].run = r /\ w \in HeldBy(u)) /\ w \notin HeldBy(t)
    BY <1>1 DEF AnswersHeld
  <2> QED BY <2>1 DEF Held
<1>5. HeldBy(t) \subseteq Live(r)
  BY <1>0 DEF Live, Held
<1>6. Live(r)' = Live(r) \ HeldBy(t)
  BY <1>2, <1>3, <1>4 DEF Live
<1> QED BY <1>1, <1>3, <1>5, <1>6 DEF HeldBy, Bearing

\* What a tick leaves waiting is what the rows will say once those it asks for are inserted.
LEMMA TickCoherent ==
    ASSUME Typing, LockHolders, AnswersHeld, "rearrive" \notin Env,
           NEW t \in Tasks, Tick(t), NEW r \in Runs, r = job[t].run,
           NEW g \in GraphState, g = job[t].graph, Coherent(r, g, {}),
           g = initialRunGraphState \/ AtRest(g), job'[t].verdict = "WAITING",
           NEW h \in GraphState, h = job'[t].graph, NEW todo \in SUBSET Nodes, todo = job'[t].todo
    PROVE  Coherent(r, h, todo)' /\ AtRest(h) /\ pc'[t] = "persistWaits"
<1> DEFINE asked == {waits[w].node : w \in job[t].sat}
           aborted == active[job[t].run] = "aborted"
<1>1. PICK o \in Outcomes(g, asked, aborted, Env) : TickTo(t, o.verdict, o.graph, o.asks, o.took)
  BY DEF Tick
<1>2. /\ job'[t].verdict = o.verdict /\ job'[t].graph = o.graph
      /\ job'[t].todo = {n \in o.asks : NeedsRow(r, n)}
      /\ pc'[t] = IF o.verdict = "WAITING" THEN "persistWaits" ELSE "saveState"
  BY <1>1 DEF TickTo, Goto, Typing, TypeOK, Job
<1>3. /\ Live(r)' = Live(r) \ HeldBy(t) /\ HeldBy(t) \subseteq Live(r) /\ HeldBy(t) = job[t].sat
      /\ \A w \in HeldBy(t) : w \notin OpenRows(r)
      /\ \A w \in WaitIds : waits'[w] = waits[w]
  BY TickLive
<1>4. asked \in SUBSET g.waiting
  BY <1>3 DEF Coherent
<1>5. aborted \in BOOLEAN
  OBVIOUS
<1> HIDE DEF asked, aborted
<1>6. /\ AtRest(h)
      /\ o.asks \subseteq Nodes \ (g.waiting \ asked)
      /\ h.waiting = (g.waiting \ asked) \cup o.asks
  <2>1. h = o.graph /\ o.verdict = "WAITING"
    BY <1>2
  <2>2. "rearrive" \notin Env
    OBVIOUS
  <2>3. /\ AtRest(o.graph) /\ o.asks \subseteq Nodes \ (g.waiting \ asked)
        /\ o.graph.waiting = (g.waiting \ asked) \cup o.asks
    <3>1. o \in Outcomes(g, asked, aborted, Env)
      BY <1>1
    <3>2. PICK as, ab, og : as = asked /\ ab = aborted /\ og = g
      OBVIOUS
    <3>3. /\ og \in GraphState /\ (og = initialRunGraphState \/ AtRest(og))
          /\ as \in SUBSET og.waiting /\ ab \in BOOLEAN /\ o \in Outcomes(og, as, ab, Env)
      BY <1>4, <1>5, <3>1, <3>2
    <3>4. /\ AtRest(o.graph) /\ o.asks \subseteq Nodes \ (og.waiting \ as)
          /\ o.graph.waiting = (og.waiting \ as) \cup o.asks
      BY <2>1, <2>2, <3>3, Suspension
    <3> QED BY <3>2, <3>4
  <2> QED BY <2>1, <2>3
<1>7. Live(r) \subseteq WaitIds /\ OpenRows(r) \subseteq Live(r)
  BY DEF Live, OpenRows, Held
\* The live rows that remain are those of the nodes that had no answer.
<1>8. ASSUME NEW w \in Live(r)
      PROVE  w \in HeldBy(t) <=> waits[w].node \in asked
  <2>1. CASE w \in HeldBy(t)
    BY <1>3, <2>1 DEF asked
  <2>2. ASSUME waits[w].node \in asked
        PROVE  w \in HeldBy(t)
    <3>1. PICK v \in HeldBy(t) : waits[v].node = waits[w].node
      BY <1>3, <2>2 DEF asked
    <3>2. v = w
      BY <1>3, <3>1 DEF Coherent
    <3> QED BY <3>1, <3>2
  <2> QED BY <2>1, <2>2
<1>9. \A w \in Live(r) : waits[w].node \in g.waiting
  BY DEF Coherent
<1>10. \A n \in o.asks : NeedsRow(r, n)
  BY <1>3, <1>6, <1>7, <1>8, <1>9 DEF NeedsRow
<1>11. todo = o.asks
  BY <1>2, <1>10
<1>12. \A n \in h.waiting \ todo : Asks(r, n)'
  <2> SUFFICES ASSUME NEW n \in g.waiting \ asked
               PROVE  \E w \in Live(r)' : waits'[w].node = n
    BY <1>6, <1>11 DEF Asks
  <2>1. PICK w \in Live(r) : waits[w].node = n
    BY DEF Coherent, Asks
  <2> QED BY <1>3, <1>7, <1>8, <2>1
<1>13. \A n \in todo : ~Asks(r, n)'
  BY <1>3, <1>6, <1>7, <1>8, <1>9, <1>11 DEF Asks
<1>14. \A w \in Live(r)' : waits'[w].node \in h.waiting
  BY <1>3, <1>6, <1>7, <1>8, <1>9
<1>15. \A v, w \in Live(r)' : waits'[v].node = waits'[w].node => v = w
  BY <1>3, <1>7 DEF Coherent
<1>16. Coherent(r, h, todo)'
  BY <1>6, <1>11, <1>12, <1>13, <1>14, <1>15 DEF Coherent
<1> QED BY <1>2, <1>6, <1>16

\* The insertion of a row takes its node out of those to ask.
LEMMA PersistCoherent ==
    ASSUME Typing, LockHolders, AnswersHeld, NEW t \in Tasks, PersistWait(t), NEW r \in Runs, r = job[t].run,
           NEW g, NEW todo, todo = job[t].todo, Coherent(r, g, todo), NEW left, left = job'[t].todo
    PROVE  Coherent(r, g, left)'
<1>1. PICK n \in todo, w \in FreeIds :
        /\ waits' = [waits EXCEPT ![w] = [run |-> r, node |-> n, status |-> "open"]]
        /\ left = todo \ {n}
  BY PersistWaitInserts
<1>2. w \in WaitIds /\ waits[w].status = "none"
  BY <1>1 DEF FreeIds
<1>3. waits'[w] = [run |-> r, node |-> n, status |-> "open"] /\ \A v \in WaitIds \ {w} : waits'[v] = waits[v]
  BY <1>1, <1>2 DEF Typing, TypeOK
<1>4. OpenRows(r)' = OpenRows(r) \cup {w}
  BY <1>2, <1>3 DEF OpenRows
<1>5. Held(r)' = Held(r)
  <2>1. Continue(t) /\ pc'[t] = pc[t] /\ pc[t] = "persistWaits"
    BY DEF Continue, PersistWait
  <2>2. \A u \in Tasks \ {t} : HeldBy(u)' = HeldBy(u) /\ job'[u] = job[u]
    BY <2>1, ContinueAnswers
  <2>3. HeldBy(t)' = {} /\ HeldBy(t) = {}
    BY <2>1 DEF HeldBy, Bearing
  <2>4. ASSUME NEW v \in WaitIds
        PROVE  (\E u \in Tasks : job'[u].run = r /\ v \in HeldBy(u)')
                 <=> (\E u \in Tasks : job[u].run = r /\ v \in HeldBy(u))
    BY <2>2, <2>3
  <2> QED BY <2>4 DEF Held
<1>6. Live(r)' = Live(r) \cup {w}
  BY <1>4, <1>5 DEF Live
<1>7. \A v \in Live(r) : v \in WaitIds /\ v # w
  BY <1>2 DEF Live, OpenRows, Held, AnswersHeld
<1>8. n \in g.waiting /\ \A v \in Live(r) : waits[v].node # n
  BY <1>1 DEF Coherent, Asks
<1>9. ASSUME NEW m
      PROVE  Asks(r, m)' <=> Asks(r, m) \/ m = n
  BY <1>3, <1>6, <1>7 DEF Asks
<1>10. /\ left \subseteq g.waiting
       /\ \A m \in g.waiting \ left : Asks(r, m)'
       /\ \A m \in left : ~Asks(r, m)'
  BY <1>1, <1>9 DEF Coherent
<1>11. /\ \A v \in Live(r)' : waits'[v].node \in g.waiting
       /\ \A u, v \in Live(r)' : waits'[u].node = waits'[v].node => u = v
  BY <1>3, <1>6, <1>7, <1>8 DEF Coherent
<1> QED BY <1>10, <1>11 DEF Coherent

-----------------------------------------------------------------------------
(* Runs that wait, from step to step *)

\* The environment in which no answer is lost: a join never re-activates a waiting node, and
\* the reads of a resumption succeed.
NoAnswerLost == "rearrive" \notin Env /\ "fetchFails" \notin Env

LEMMA ParkedStays ==
    ASSUME ParkedCoherent, NEW r \in Runs, runs'[r] = runs[r], graphs'[r] = graphs[r], SameLive(r),
           runs[r] \in Parked
    PROVE  /\ AtRest(graphs'[r])
           /\ \A g \in GraphState : g = graphs'[r] => Coherent(r, g, {})'
           /\ Held(r)' = {} =>
                 (runs'[r] = "WAITING_FOR_HUMAN" <=> \E w \in OpenRows(r)' : waits'[w].node \in HumanNodes)
<1>1. \A g \in GraphState : g = graphs'[r] => Coherent(r, g, {})'
  BY CoherentStays DEF ParkedCoherent
<1>2. ASSUME Held(r)' = {}
      PROVE  runs'[r] = "WAITING_FOR_HUMAN" <=> \E w \in OpenRows(r)' : waits'[w].node \in HumanNodes
  <2>1. Held(r) = {} /\ OpenRows(r)' = OpenRows(r)
    BY <1>2 DEF SameLive
  <2>2. \A w \in OpenRows(r) : waits'[w].node = waits[w].node
    BY DEF SameLive, Live
  <2> QED BY <2>1, <2>2 DEF ParkedCoherent
<1> QED BY <1>1, <1>2 DEF ParkedCoherent

\* What the driver of a run believes of it.
LEMMA Belief ==
    ASSUME Typing, StatesInv, "cancel" \notin Env, Begun, NEW t \in Tasks,
           pc[t] \in {"fetch", "resumed"} \cup Driving
    PROVE  /\ runs[job[t].run] = job[t].state /\ job[t].run \in Runs
           /\ job[t].state \in {"RUNNING"} \cup Parked \cup TERMINAL_RUN_STATES
           /\ pc[t] \in Driving => job[t].state \notin Parked
<1>1. job[t].run \in Runs
  BY DEF Typing, TypeOK
<1>2. runs[job[t].run] = job[t].state
  BY DEF StatesInv, CopyCurrent, CopyOf, Stored
<1> QED BY <1>1, <1>2 DEF StatesInv, CopyCurrent, CopyOf, Begun

LEMMA ParkedCoherentNext ==
    ASSUME Uninterrupted, MaxCrashes = 0, "cancel" \notin Env, NoAnswerLost, Typing, LockHolders, StatesInv,
           ClaimsInv, WaitsInv, [Next]_vars
    PROVE  ParkedCoherent'
<1> SUFFICES ASSUME NEW r \in Runs, runs'[r] \in Parked
             PROVE  /\ AtRest(graphs'[r])
                    /\ \A g \in GraphState : g = graphs'[r] => Coherent(r, g, {})'
                    /\ Held(r)' = {} =>
                          (runs'[r] = "WAITING_FOR_HUMAN"
                             <=> \E w \in OpenRows(r)' : waits'[w].node \in HumanNodes)
  BY DEF ParkedCoherent
<1>0. /\ pc \in [Tasks -> Outside \cup Locked] /\ job \in [Tasks -> Job]
      /\ runs \in [Runs -> RunState \cup {"none"}] /\ graphs \in [Runs -> GraphState]
  BY DEF Typing, TypeOK
<1>1. ASSUME NEW t \in Tasks, Continue(t), r # job[t].run
      PROVE  runs'[r] = runs[r] /\ graphs'[r] = graphs[r] /\ SameLive(r)
  BY <1>1, ContinueFrame, OthersLive DEF WaitsInv
<1>2. ASSUME NEW t \in Tasks, Request(t)
      PROVE  runs'[r] = runs[r] /\ graphs'[r] = graphs[r] /\ SameLive(r)
  BY <1>2, RequestFrame, RequestLive DEF WaitsInv
<1>3. ASSUME UNCHANGED vars
      PROVE  runs'[r] = runs[r] /\ graphs'[r] = graphs[r] /\ SameLive(r)
  <2>1. UNCHANGED <<runs, graphs, waits, pc, job>>
    BY <1>3 DEF vars, durable, volatile
  <2> QED BY <2>1 DEF SameLive, Live, Held, HeldBy, OpenRows
\* On a parked run, a resumption reads the run and its work item and writes neither.
<1>4. ASSUME NEW t \in Tasks, Continue(t), r = job[t].run, pc[t] \notin Driving
      PROVE  runs'[r] = runs[r] /\ graphs'[r] = graphs[r] /\ SameLive(r)
  <2>1. ASSUME pc[t] \notin {"resumeQueue", "fetch"}
        PROVE  FALSE
    <3>1. CASE BackToRunning(t)
      <4>1. runs[r] = job[t].state
        BY <1>4, <3>1, Belief DEF BackToRunning, ClaimsInv
      <4>2. runs'[r] = IF job[t].state \in Parked THEN "RUNNING" ELSE runs[r]
        BY <1>0, <1>4, <3>1 DEF BackToRunning, SaveRun
      <4> QED BY <4>1, <4>2 DEF Parked
    <3>2. CASE ResolveSnapshot(t) \/ Prepare(t)
      <4>1. runs[r] \in {"none", "PREPARING"} /\ runs'[r] = runs[r]
        BY <1>4, <3>2 DEF ResolveSnapshot, Prepare, durable, StatesInv, CopyCurrent, CopyOf, Stored
      <4> QED BY <4>1 DEF Parked
    <3>3. CASE SaveQueued(t) \/ ToPreparing(t) \/ ToRunning(t)
      <4>1. runs'[r] \in {"QUEUED", "PREPARING", "RUNNING"}
        BY <1>0, <1>4, <3>3 DEF SaveQueued, ToPreparing, ToRunning, SaveRun
      <4> QED BY <4>1 DEF Parked
    <3> QED BY <1>4, <2>1, <3>1, <3>2, <3>3 DEF Continue, ReadRun, Fetch, Tick, DriveThrows, PersistWait,
          WaitsPersisted, SaveState, Suspend, CancelWaits, ReleaseClaim, Finish, FailWaits, FailClaim, FailRun
  <2>2. CASE pc[t] = "resumeQueue"
    <3>1. ReadRun(t)
      BY <1>4, <2>2 DEF Continue, ResolveSnapshot, SaveQueued, ToPreparing, Prepare, ToRunning, Fetch,
            BackToRunning, Tick, DriveThrows, PersistWait, WaitsPersisted, SaveState, Suspend, CancelWaits,
            ReleaseClaim, Finish, FailWaits, FailClaim, FailRun
    <3>2. UNCHANGED <<runs, graphs, waits>>
      BY <3>1 DEF ReadRun, durable
    <3>3. runs[r] # "none" /\ graphs[r].saved
      BY <3>2 DEF WaitsInv, ParkedCoherent, AtRest, Parked
    <3>4. job' = [job EXCEPT ![t] = [@ EXCEPT !.state = runs[r], !.graph = graphs[r]]] /\ pc'[t] = "fetch"
      BY <1>0, <1>4, <3>1, <3>3 DEF ReadRun, Goto
    <3>5. job'[t].sat = job[t].sat
      BY <1>0, <3>4 DEF Job
    <3>6. HeldBy(t)' = HeldBy(t)
      BY <2>2, <3>4, <3>5 DEF HeldBy, Bearing
    <3> QED BY <1>4, <3>2, <3>4, <3>6, OwnLive DEF WaitsInv
  <2>3. CASE pc[t] = "fetch"
    <3>1. Fetch(t)
      BY <1>4, <2>3 DEF Continue, ResolveSnapshot, SaveQueued, ToPreparing, Prepare, ToRunning, ReadRun,
            BackToRunning, Tick, DriveThrows, PersistWait, WaitsPersisted, SaveState, Suspend, CancelWaits,
            ReleaseClaim, Finish, FailWaits, FailClaim, FailRun
    <3>2. UNCHANGED <<runs, waits, job>> /\ pc'[t] = "resumed"
      BY <1>0, <3>1 DEF Fetch, Goto, NoAnswerLost
    <3>3. job[t].graph = graphs[r]
      <4>1. job[t].graph \in GraphState /\ job[t].todo \in SUBSET Nodes
        BY <1>0 DEF Job
      <4> QED BY <1>4, <2>3, <4>1 DEF WaitsInv, DrivenCoherent, DrivenAs
    <3>4. graphs'[r] = graphs[r]
      BY <1>0, <1>4, <3>1, <3>3 DEF Fetch
    <3>5. HeldBy(t)' = HeldBy(t)
      BY <2>3, <3>2 DEF HeldBy, Bearing
    <3> QED BY <1>4, <3>2, <3>4, <3>5, OwnLive DEF WaitsInv
  <2> QED BY <2>1, <2>2, <2>3
\* A drive parks its run with its last step, on the rows it has asked for.
<1>5. ASSUME NEW t \in Tasks, Continue(t), r = job[t].run, pc[t] \in Driving
      PROVE  /\ Suspend(t) /\ SaveRun(r, ParkedState(r)) /\ job[t].state = "RUNNING"
             /\ UNCHANGED <<waits, graphs>> /\ pc'[t] = "idle"
  <2>1. runs[r] = job[t].state /\ job[t].state \in {"RUNNING"} \cup TERMINAL_RUN_STATES
    BY <1>5, Belief DEF ClaimsInv
  <2>2. runs[r] \notin Parked
    BY <2>1 DEF Parked, TERMINAL_RUN_STATES
  <2>3. CASE Finish(t)
    <3>1. isTerminal(job[t].verdict)
      BY <2>3 DEF Finish, ClaimsInv, VerdictInHand
    <3>2. runs'[r] = runs[r] \/ runs'[r] = job[t].verdict
      BY <1>0, <1>5, <2>3 DEF Finish, SaveRun
    <3> QED BY <2>2, <3>1, <3>2 DEF isTerminal, TERMINAL_RUN_STATES, Parked
  <2>4. CASE FailRun(t)
    <3>1. runs'[r] = runs[r] \/ runs'[r] = "FAILED"
      BY <1>0, <1>5, <2>4 DEF FailRun, SaveRun
    <3> QED BY <2>2, <3>1 DEF Parked
  <2>5. CASE Suspend(t)
    <3>1. canTransition(job[t].state, ParkedState(r)) /\ SaveRun(r, ParkedState(r)) /\ LeaveDrive(t)
      BY <1>5, <2>2, <2>5 DEF Suspend
    <3>2. job[t].state = "RUNNING"
      BY <2>1, <3>1 DEF canTransition, RUN_TRANSITIONS, RunState, TERMINAL_RUN_STATES, ParkedState
    <3>3. pc'[t] = "idle"
      BY <1>0, <3>1 DEF LeaveDrive, Done, Goto
    <3> QED BY <2>5, <3>1, <3>2, <3>3 DEF Suspend
  <2>6. ASSUME UNCHANGED runs
        PROVE  FALSE
    BY <2>2, <2>6
  <2> QED BY <1>5, <2>3, <2>4, <2>5, <2>6 DEF Continue, ResolveSnapshot, SaveQueued, ToPreparing, Prepare,
        ToRunning, ReadRun, Fetch, BackToRunning, Tick, DriveThrows, PersistWait, WaitsPersisted, SaveState,
        CancelWaits, ReleaseClaim, FailWaits, FailClaim, durable
<1>6. ASSUME NEW t \in Tasks, Continue(t), r = job[t].run, pc[t] \in Driving
      PROVE  /\ AtRest(graphs'[r])
             /\ \A g \in GraphState : g = graphs'[r] => Coherent(r, g, {})'
             /\ runs'[r] = "WAITING_FOR_HUMAN" <=> \E w \in OpenRows(r)' : waits'[w].node \in HumanNodes
  <2>1. /\ pc[t] = "suspend" /\ runs'[r] = ParkedState(r) /\ job[t].state = "RUNNING"
        /\ UNCHANGED <<waits, graphs>> /\ pc'[t] = "idle"
    BY <1>0, <1>5, <1>6 DEF Suspend, SaveRun
  <2>2. job[t].verdict = "WAITING" /\ job[t].graph \in GraphState /\ job[t].todo \in SUBSET Nodes
    BY <1>0, <2>1 DEF ClaimsInv, VerdictInHand, Job
  <2>3. \A g \in GraphState : g = job[t].graph => g = graphs[r] /\ Coherent(r, g, {}) /\ AtRest(g)
    BY <1>6, <2>1, <2>2 DEF WaitsInv, DrivenCoherent, DrivenAs
  <2>4. SameLive(r)
    <3>1. HeldBy(t)' = {} /\ HeldBy(t) = {}
      BY <2>1 DEF HeldBy, Bearing
    <3> QED BY <1>6, <2>1, <3>1, OwnLive DEF WaitsInv
  <2>5. AtRest(graphs'[r]) /\ \A g \in GraphState : g = graphs'[r] => Coherent(r, g, {})'
    BY <2>1, <2>2, <2>3, <2>4, CoherentStays
  <2>6. runs'[r] = "WAITING_FOR_HUMAN" <=> \E w \in OpenRows(r) : waits[w].node \in HumanNodes
    BY <2>1 DEF ParkedState
  <2>7. OpenRows(r)' = OpenRows(r)
    BY <2>1 DEF OpenRows
  <2> QED BY <2>1, <2>5, <2>6, <2>7
<1>7. ASSUME runs'[r] = runs[r], graphs'[r] = graphs[r], SameLive(r)
      PROVE  /\ AtRest(graphs'[r])
             /\ \A g \in GraphState : g = graphs'[r] => Coherent(r, g, {})'
             /\ Held(r)' = {} =>
                   (runs'[r] = "WAITING_FOR_HUMAN"
                      <=> \E w \in OpenRows(r)' : waits'[w].node \in HumanNodes)
  BY <1>7, ParkedStays DEF WaitsInv
<1> QED BY <1>1, <1>2, <1>3, <1>4, <1>6, <1>7, LiveStep

\* The step of a task keeps its own hands in order.
LEMMA OwnDrive ==
    ASSUME Uninterrupted, MaxCrashes = 0, "cancel" \notin Env, NoAnswerLost, Typing, LockHolders, StatesInv,
           ClaimsInv, WaitsInv, [Next]_vars, NEW t \in Tasks, Continue(t),
           NEW r \in Runs, NEW h \in GraphState, NEW left \in SUBSET Nodes,
           job'[t].run = r, job'[t].graph = h, job'[t].todo = left
    PROVE  DrivenAs(t, r, h, left)'
<1>0. /\ pc \in [Tasks -> Outside \cup Locked] /\ job \in [Tasks -> Job]
      /\ runs \in [Runs -> RunState \cup {"none"}] /\ graphs \in [Runs -> GraphState]
  BY DEF Typing, TypeOK
<1>1. ASSUME pc'[t] \notin {"fetch", "tick", "persistWaits", "saveState", "suspend"}
      PROVE  DrivenAs(t, r, h, left)'
  BY <1>1 DEF DrivenAs
<1>2. pc'[t] # "idle" => job[t].run = r
  BY ContinueFrame
\* What the task believed before its step.
<1>3. /\ job[t].graph \in GraphState /\ job[t].todo \in SUBSET Nodes
      /\ pc'[t] # "idle" =>
            \A g \in GraphState, todo \in SUBSET Nodes :
               job[t].graph = g /\ job[t].todo = todo => DrivenAs(t, r, g, todo)
  <2>1. job[t].graph \in GraphState /\ job[t].todo \in SUBSET Nodes
    BY <1>0 DEF Job
  <2> QED BY <1>2, <2>1 DEF WaitsInv, DrivenCoherent
<1>4. CASE ReadRun(t)
  <2>1. CASE Done(t)
    <3>1. pc'[t] = "idle"
      BY <1>0, <2>1 DEF Done, Goto
    <3> QED BY <1>1, <3>1
  <2>2. CASE ~Done(t)
    <3>1. /\ job' = [job EXCEPT ![t] = [@ EXCEPT !.state = runs[job[t].run], !.graph = graphs[job[t].run]]]
          /\ pc'[t] = "fetch" /\ UNCHANGED graphs
      BY <1>0, <1>4, <2>2 DEF ReadRun, Goto, durable
    <3>2. h = graphs'[r]
      BY <1>0, <1>2, <3>1 DEF Job
    <3> QED BY <3>1, <3>2 DEF DrivenAs
  <2> QED BY <2>1, <2>2
<1>5. CASE ToRunning(t)
  <2>1. /\ pc[t] = "running" /\ pc'[t] = "tick" /\ UNCHANGED waits /\ job[t].run = r
    BY <1>0, <1>2, <1>5 DEF ToRunning, Goto
  <2>2. h = initialRunGraphState /\ job'[t].sat = job[t].sat
    BY <1>0, <1>5 DEF ToRunning, Job
  <2>3. runs[r] = "PREPARING"
    BY <2>1 DEF StatesInv, CopyCurrent, CopyOf, Stored
  <2>4. Live(r) = {}
    <3>1. \A w \in Live(r) : w \in WaitIds /\ waits[w].run = r /\ waits[w].status \in {"open", "satisfied"}
      BY DEF Live, OpenRows, Held, WaitsInv, AnswersHeld
    <3>2. \A w \in WaitIds : waits[w].status \in {"open", "satisfied"} => waits[w] \in WaitRow
      BY DEF Typing, TypeOK, NoRow
    <3>3. \A w \in WaitIds : waits[w] \in WaitRow => runs[waits[w].run] \notin Fresh
      BY DEF ClaimsInv, Begun
    <3> QED BY <2>3, <3>1, <3>2, <3>3 DEF Fresh
  <2>5. SameLive(r)
    <3>1. HeldBy(t)' = HeldBy(t)
      BY <2>1, <2>2 DEF HeldBy, Bearing
    <3> QED BY <2>1, <3>1, OwnLive DEF WaitsInv
  <2>6. Coherent(r, h, {})'
    <3>1. h.waiting = {}
      BY <2>2 DEF initialRunGraphState, NoGraph
    <3>2. Coherent(r, h, {})
      BY <2>4, <3>1 DEF Coherent
    <3> QED BY <2>5, <3>2, CoherentStays
  <2> QED BY <2>1, <2>2, <2>6 DEF DrivenAs
<1>6. CASE BackToRunning(t)
  <2>1. /\ pc[t] = "resumed" /\ pc'[t] = "tick" /\ UNCHANGED waits /\ job[t].run = r
    BY <1>0, <1>2, <1>6 DEF BackToRunning, Goto
  <2>2. /\ h = graphs[r] /\ job'[t].sat = job[t].sat
        /\ job'[t].state = IF job[t].state \in Parked THEN "RUNNING" ELSE job[t].state
    BY <1>0, <1>6, <2>1 DEF BackToRunning, Job
  <2>3. runs[r] = job[t].state
    BY <2>1, Belief DEF ClaimsInv
  <2>4. job[t].state # "RUNNING"
    <3>1. SUFFICES ASSUME job[t].state = "RUNNING"
                   PROVE  FALSE
      OBVIOUS
    <3>2. PICK u \in Tasks : job[u].run = r /\ pc[u] \in Driving
      BY <2>3, <3>1 DEF WaitsInv, Driven
    <3>3. u = t
      BY <2>1, <3>2, Apart
    <3> QED BY <2>1, <3>2, <3>3
  <2>5. SameLive(r)
    <3>1. HeldBy(t)' = HeldBy(t)
      BY <2>1, <2>2 DEF HeldBy, Bearing
    <3> QED BY <2>1, <3>1, OwnLive DEF WaitsInv
  <2>6. ASSUME job'[t].state = "RUNNING"
        PROVE  Coherent(r, h, {})' /\ AtRest(h)
    <3>1. runs[r] \in Parked
      BY <2>2, <2>3, <2>4, <2>6
    <3>2. Coherent(r, h, {}) /\ AtRest(h)
      BY <2>2, <3>1 DEF WaitsInv, ParkedCoherent
    <3> QED BY <2>5, <3>2, CoherentStays
  <2> QED BY <2>1, <2>6 DEF DrivenAs
<1>7. CASE Tick(t)
  <2>1. /\ pc[t] = "tick" /\ pc'[t] \in {"persistWaits", "saveState"}
        /\ pc'[t] = "saveState" => job'[t].verdict # "WAITING"
        /\ job'[t].state = job[t].state
    <3>1. PICK verdict \in RunState, graph \in GraphState, asks \in SUBSET Nodes :
             \E took : TickTo(t, verdict, graph, asks, took)
      BY <1>7, TickTakes
    <3>2. pc'[t] = (IF verdict = "WAITING" THEN "persistWaits" ELSE "saveState")
          /\ job'[t].verdict = verdict /\ job'[t].state = job[t].state
      BY <1>0, <3>1 DEF TickTo, Goto, Job
    <3> QED BY <1>7, <3>2 DEF Tick
  <2>2. ASSUME pc'[t] = "persistWaits", job'[t].state = "RUNNING"
        PROVE  Coherent(r, h, left)' /\ AtRest(h)
    <3>1. job[t].run = r /\ job[t].state = "RUNNING"
      BY <1>2, <2>1, <2>2
    <3>2. \A g \in GraphState : g = job[t].graph => Coherent(r, g, {}) /\ (g = initialRunGraphState \/ AtRest(g))
      BY <1>3, <2>1, <2>2, <3>1 DEF DrivenAs
    <3>3. job'[t].verdict = "WAITING"
      <4>1. VerdictInHand'
        BY VerdictInHandNext DEF ClaimsInv
      <4> QED BY <2>2, <4>1 DEF VerdictInHand
    <3> QED BY <1>3, <1>7, <3>1, <3>2, <3>3, TickCoherent DEF WaitsInv, NoAnswerLost
  <2> QED BY <2>1, <2>2 DEF DrivenAs
<1>8. CASE PersistWait(t)
  <2>1. /\ pc[t] = "persistWaits" /\ pc'[t] = "persistWaits" /\ job[t].run = r
        /\ job'[t].graph = job[t].graph /\ job'[t].state = job[t].state
    BY <1>0, <1>2, <1>8 DEF PersistWait, Job
  <2>2. ASSUME job'[t].state = "RUNNING"
        PROVE  Coherent(r, h, left)' /\ AtRest(h)
    <3>1. \A todo \in SUBSET Nodes : todo = job[t].todo => Coherent(r, h, todo) /\ AtRest(h)
      BY <1>3, <2>1, <2>2 DEF DrivenAs
    <3> QED BY <1>3, <1>8, <2>1, <3>1, PersistCoherent DEF WaitsInv
  <2> QED BY <2>1, <2>2 DEF DrivenAs
<1>9. CASE WaitsPersisted(t) \/ SaveState(t)
  <2>1. /\ UNCHANGED <<job, waits>> /\ pc[t] \in {"persistWaits", "saveState"}
        /\ pc[t] = "persistWaits" => pc'[t] = "saveState" /\ left = {}
        /\ pc[t] = "saveState" =>
              /\ pc'[t] \in {"suspend", "cancelWaits"}
              /\ pc'[t] = "suspend" => job[t].verdict = "WAITING"
              /\ graphs' = [graphs EXCEPT ![job[t].run] = job[t].graph]
        /\ job[t].run = r
    BY <1>0, <1>2, <1>9 DEF WaitsPersisted, SaveState, Goto, durable
  <2>2. SameLive(r)
    <3>1. HeldBy(t)' = HeldBy(t) /\ pc'[t] # "idle"
      BY <2>1 DEF HeldBy, Bearing
    <3> QED BY <2>1, <3>1, OwnLive DEF WaitsInv
  <2>3. ASSUME job[t].state = "RUNNING", job[t].verdict = "WAITING"
        PROVE  Coherent(r, h, {})' /\ AtRest(h)
    <3>1. Coherent(r, h, {}) /\ AtRest(h)
      BY <1>3, <2>1, <2>3 DEF DrivenAs
    <3> QED BY <2>2, <3>1, CoherentStays
  <2>4. pc'[t] = "suspend" => h = graphs'[r]
    BY <1>0, <2>1
  <2> QED BY <2>1, <2>3, <2>4 DEF DrivenAs
<1>10. CASE ~(ReadRun(t) \/ ToRunning(t) \/ BackToRunning(t) \/ Tick(t) \/ PersistWait(t)
              \/ WaitsPersisted(t) \/ SaveState(t))
  <2>1. pc'[t] \notin {"fetch", "tick", "persistWaits", "saveState", "suspend"}
    BY <1>0, <1>10 DEF Continue, ResolveSnapshot, SaveQueued, ToPreparing, Prepare, Fetch, DriveThrows,
          Suspend, CancelWaits, ReleaseClaim, Finish, FailWaits, FailClaim, FailRun, LeaveDrive, Goto, Done
  <2> QED BY <1>1, <2>1
<1> QED BY <1>4, <1>5, <1>6, <1>7, <1>8, <1>9, <1>10

LEMMA DrivenCoherentNext ==
    ASSUME Uninterrupted, MaxCrashes = 0, "cancel" \notin Env, NoAnswerLost, Typing, LockHolders, StatesInv,
           ClaimsInv, WaitsInv, [Next]_vars
    PROVE  DrivenCoherent'
<1> SUFFICES ASSUME NEW t \in Tasks, NEW r \in Runs, NEW h \in GraphState, NEW left \in SUBSET Nodes,
                    job'[t].run = r, job'[t].graph = h, job'[t].todo = left
             PROVE  DrivenAs(t, r, h, left)'
  BY DEF DrivenCoherent
<1>0. pc \in [Tasks -> Outside \cup Locked]
  BY DEF Typing, TypeOK
\* What the task believed holds as long as the rows and the graph of its run are the same.
<1>1. ASSUME pc'[t] = pc[t], job'[t] = job[t],
             pc[t] \in {"fetch", "tick", "persistWaits", "saveState", "suspend"} =>
                SameLive(r) /\ graphs'[r] = graphs[r]
      PROVE  DrivenAs(t, r, h, left)'
  <2>1. DrivenAs(t, r, h, left)
    BY <1>1 DEF WaitsInv, DrivenCoherent
  <2>2. ASSUME SameLive(r)
        PROVE  \A todo : Coherent(r, h, todo) => Coherent(r, h, todo)'
    BY <2>2, CoherentStays
  <2>3. CASE pc[t] \notin {"fetch", "tick", "persistWaits", "saveState", "suspend"}
    BY <1>1, <2>3 DEF DrivenAs
  <2>4. CASE pc[t] \in {"fetch", "tick", "persistWaits", "saveState", "suspend"}
    BY <1>1, <2>1, <2>2, <2>4 DEF DrivenAs
  <2> QED BY <2>3, <2>4
<1>2. CASE Continue(t)
  BY <1>2, OwnDrive
<1>3. ASSUME NEW u \in Tasks \ {t}, Continue(u)
      PROVE  DrivenAs(t, r, h, left)'
  <2>1. pc'[t] = pc[t] /\ job'[t] = job[t]
    BY <1>3, ContinueFrame
  <2>2. ASSUME pc[t] \in {"fetch", "tick", "persistWaits", "saveState", "suspend"}
        PROVE  SameLive(r) /\ graphs'[r] = graphs[r]
    <3>1. r # job[u].run
      BY <1>3, <2>1, <2>2, Apart
    <3> QED BY <1>3, <3>1, OthersLive, ContinueFrame DEF WaitsInv
  <2> QED BY <1>1, <2>1, <2>2
<1>4. ASSUME NEW u \in Tasks, Request(u)
      PROVE  DrivenAs(t, r, h, left)'
  <2>1. CASE u # t
    <3>1. pc'[t] = pc[t] /\ job'[t] = job[t] /\ graphs'[r] = graphs[r] /\ SameLive(r)
      BY <1>4, <2>1, RequestFrame, RequestLive DEF WaitsInv
    <3> QED BY <1>1, <3>1
  <2>2. CASE u = t
    <3>1. pc'[t] \in {"idle", "claimed", "resumeQueue"}
      BY <1>4, <2>2, RequestFrame DEF Starting, Answering
    <3> QED BY <3>1 DEF DrivenAs
  <2> QED BY <2>1, <2>2
<1>5. CASE UNCHANGED vars
  <2>1. UNCHANGED <<runs, graphs, waits, pc, job>>
    BY <1>5 DEF vars, durable, volatile
  <2>2. SameLive(r)
    BY <2>1 DEF SameLive, Live, Held, HeldBy, OpenRows
  <2> QED BY <1>1, <2>1, <2>2
<1> QED BY <1>2, <1>3, <1>4, <1>5, LiveStep

-----------------------------------------------------------------------------
(* Nobody is stuck *)

LEMMA WaitsInvariant ==
    ASSUME "cancel" \notin Env, NoAnswerLost, MaxCrashes = 0
    PROVE  Spec => [](Typing /\ ClaimsInv /\ WaitsInv)
<1> DEFINE IInv == Typing /\ LockHolders /\ StatesInv /\ Uninterrupted /\ ClaimsInv
<1>1. Init => WaitsInv
  <2> SUFFICES ASSUME Init
               PROVE  WaitsInv
    OBVIOUS
  <2>1. AnswersHeld
    BY DEF Init, AnswersHeld, HeldBy, NoJob
  <2>2. Driven /\ ParkedCoherent
    BY DEF Init, Driven, ParkedCoherent, Parked
  <2>3. DrivenCoherent
    BY DEF Init, DrivenCoherent, DrivenAs, NoJob
  <2> QED BY <2>1, <2>2, <2>3 DEF WaitsInv
<1>2. IInv /\ WaitsInv /\ [Next]_vars => WaitsInv'
  <2> SUFFICES ASSUME IInv, WaitsInv, [Next]_vars
               PROVE  WaitsInv'
    OBVIOUS
  <2>1. AnswersHeld'
    BY AnswersHeldNext DEF WaitsInv, Uninterrupted, Alive
  <2>2. Driven'
    BY DrivenNext DEF WaitsInv, ClaimsInv
  <2>3. ParkedCoherent' /\ DrivenCoherent'
    BY ParkedCoherentNext, DrivenCoherentNext
  <2> QED BY <2>1, <2>2, <2>3 DEF WaitsInv
<1>3. Spec => []IInv
  BY ClaimsInvariant
<1>4. IInv /\ WaitsInv => Typing /\ ClaimsInv /\ WaitsInv
  OBVIOUS
<1> QED BY <1>1, <1>2, <1>3, <1>4, PTL DEF Spec

\* The live rows of a run nobody is working on are its open ones.
LEMMA NoneInHand ==
    ASSUME NEW r \in Runs, Unattended(r)
    PROVE  Held(r) = {} /\ Live(r) = OpenRows(r)
  BY DEF Unattended, Held, Live

\* A parked run nobody is working on waits for something, and each of its waiting nodes has
\* an open row that can still be answered, however answers, timers and drives interleave
\* and whatever of them fails other than the reads of a resumption.
THEOREM NobodyStranded ==
    ASSUME "cancel" \notin Env, "rearrive" \notin Env, "fetchFails" \notin Env, MaxCrashes = 0
    PROVE  Spec => []NoRunStranded
<1>1. Typing /\ WaitsInv => NoRunStranded
  <2> SUFFICES ASSUME Typing, WaitsInv, NEW r \in Runs, Unattended(r), runs[r] \in Parked
               PROVE  /\ graphs[r].waiting # {}
                      /\ \A n \in graphs[r].waiting : OpenRows(r) \cap RowsOf(r, n) # {}
    BY DEF NoRunStranded
  <2>1. AtRest(graphs[r]) /\ Coherent(r, graphs[r], {})
    <3>1. graphs[r] \in GraphState
      BY DEF Typing, TypeOK
    <3> QED BY <3>1 DEF WaitsInv, ParkedCoherent
  <2>2. ASSUME NEW n \in graphs[r].waiting
        PROVE  OpenRows(r) \cap RowsOf(r, n) # {}
    <3>1. PICK w \in OpenRows(r) : waits[w].node = n
      BY <2>1, NoneInHand DEF Coherent, Asks
    <3> QED BY <3>1 DEF OpenRows, RowsOf
  <2> QED BY <2>1, <2>2 DEF AtRest
<1> QED BY <1>1, WaitsInvariant, PTL DEF NoAnswerLost

\* An open row of a run nobody is working on is of a node that still waits for it: no
\* question is shown whose answer nothing would take up.
THEOREM NoOrphans ==
    ASSUME "cancel" \notin Env, "rearrive" \notin Env, "fetchFails" \notin Env, MaxCrashes = 0
    PROVE  Spec => []NoOrphanQuestion
<1>1. Typing /\ ClaimsInv /\ WaitsInv => NoOrphanQuestion
  <2> SUFFICES ASSUME Typing, ClaimsInv, WaitsInv, NEW r \in Runs, Unattended(r), NEW w \in OpenRows(r)
               PROVE  waits[w].node \in graphs[r].waiting
    BY DEF NoOrphanQuestion
  <2>1. runs[r] \in {"RUNNING"} \cup Parked \cup TERMINAL_RUN_STATES
    <3>1. waits[w] \in WaitRow /\ waits[w].run = r
      BY DEF OpenRows, NoRow, Typing, TypeOK
    <3> QED BY <3>1 DEF ClaimsInv, Begun, OpenRows
  <2>2. runs[r] # "RUNNING"
    BY DEF WaitsInv, Driven, Unattended
  <2>3. runs[r] \notin TERMINAL_RUN_STATES
    BY DEF ClaimsInv, RowsWithdrawn, isTerminal, Unattended
  <2>4. Coherent(r, graphs[r], {})
    <3>1. graphs[r] \in GraphState
      BY DEF Typing, TypeOK
    <3> QED BY <2>1, <2>2, <2>3, <3>1 DEF WaitsInv, ParkedCoherent
  <2> QED BY <2>4, NoneInHand DEF Coherent
<1> QED BY <1>1, WaitsInvariant, PTL DEF NoAnswerLost

\* A parked run nobody is working on is shown as waiting for a human exactly when one of its
\* open rows asks for one.
THEOREM ParkedForHuman ==
    ASSUME "cancel" \notin Env, "rearrive" \notin Env, "fetchFails" \notin Env, MaxCrashes = 0
    PROVE  Spec => []ParkedStateMatchesRows
<1>1. WaitsInv => ParkedStateMatchesRows
  BY NoneInHand DEF WaitsInv, ParkedCoherent, ParkedStateMatchesRows
<1> QED BY <1>1, WaitsInvariant, PTL DEF NoAnswerLost
=============================================================================
