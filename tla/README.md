# Verification of the orchestrator

TLA+ models of the orchestrator in this repository, model-checked with TLC and,
for the core, proved with TLAPS. Source paths below are relative to the
repository; `coordinator.ts` alone is `packages/orchestrator/src/graph/coordinator.ts`
and `engine.ts` is `packages/workflow/src/graph-engine/engine.ts` unless said
otherwise. `PROJECT.json` says which lines each definition translates.

## 1. The system

A daemon (one Node.js process, one SQLite database) claims work items from
trackers, runs workflows over them with agents, commands and human gates, and
serves a control plane to a CLI and a desktop application. There are two
workflow generations side by side, on the same tables: version 1 (a DAG of steps
executed in one go) and durable graphs (cyclic graphs of nodes that may wait
days for a human and survive restarts).

| Component | State it keeps | Operations | Talks to | What makes it correct |
|---|---|---|---|---|
| Run state machine (`core/src/run.ts`) | `Run.state` | `canTransition`, `assertTransition` | every coordinator | each stored change is in the table |
| Graph run coordinator (`coordinator.ts`) | `runLocks`, `active` in memory; runs, run graphs, waits, claims, supplemental inputs in SQLite | `start`, `satisfy`, `fireDueTimers`, `resume`, `cancel`, `recover` | engine (awaits `tick`), repositories, trackers, workspaces, checkpoints | one driver per run; the wait table agrees with the graph state across crashes; the first answer wins and reaches its node; a parked run can be answered; a run that ended leaks nothing |
| Graph engine (`engine.ts`) | `RunGraphState` during a tick | `tick` | node executors (concurrently), abort signal | joins activate as declared; a satisfaction is consumed once; a tick ends |
| Validation, compiler, dry run (`core/src/graph-validate.ts`, `workflow/src/graph-engine/compile.ts`, `graph/evaluate.ts`) | none | `validateGraph`, `compileWorkflow`, `walkGraph` | engine, definition store, designer | what validation accepts the engine can run; a compiled workflow and a prediction mean what the engines do |
| v1 workflow engine (`workflow/src/engine.ts`) | results, taint, steps pending and in flight | `execute`, `runStep` | step executors, abort signal | the verdict follows from the steps' results; nothing runs on when it returns; cancellation is quiet |
| v1 scheduler and run coordinator (`orchestrator/src/scheduler.ts`, `run-coordinator.ts`) | running set, timer; runs and claims | `start`, `dispatch`, `recover`, `execute`, `cancel` | v1 engine, work providers | concurrency limit; no item twice; claims released |
| Graph scheduler (`orchestrator/src/scheduling`) | active lane runs, firings, routing waits and rules | `tick`, `dispatchLane`, `fireDueSchedules`, `routeItem`, `claimAndStart` | graph coordinator, config rows | lane capacity; a firing at most once; rules learned from people's agreement |
| Node executors, gates, children (`graph/node-executors.ts`, `coordinator.ts`) | approvals and children in wait rows | one executor per node kind, `evaluateGateNode`, `createChildRunner` | agents, checks, coordinator | a gate set passes only when every required gate has; a parent wakes when its join is decided |
| Experiments (`graph/experiment-stepper.ts`, `packages/experiments`) | persisted record, judgments | `step`, `drive` | agents, humans | what is advanced was asked about, chosen and scored |
| Agent loop (`packages/runtime`) | history, turn, budget | `run`, `cancel` | models, tools, policy, sub-agents | a well-formed history; one outcome; it ends |
| Agent and model providers (`packages/providers/agent-*`, `model-*`) | a child process or a stream | `start`, `cancel`, `invoke` | external programs and services | one result, after all that was printed; a message put together as it was sent |
| Work providers (`packages/providers/work-*`) | the tracker's issue | `claim`, `release`, `transition` | GitHub, Jira, Linear | a repeated claim is held; a reported transition has happened |
| Workspaces and checkpoints (`packages/workspaces`, `scm-git`, `checkpoints`) | clones, worktrees, branches | create, commit, push, restore, cleanup | git | no work is lost between a suspension and the answer |
| Definition store, snapshots (`persistence`, `graph/snapshot.ts`) | versions, lifecycles | `save`, `setLifecycle`, `resolve` | coordinator, designer | a run has the closure of what its workflow refers to, one version of each |
| Repositories (`packages/persistence`) | tables, or Maps and arrays | one per kind of row; `migrate` | everything | both adapters answer alike; a schema is completed after a death |
| Control plane (`packages/server`) | approval broker, event bus, SSE clients | HTTP routes | everything above | an answer is accepted once and told truthfully; no event lost, doubled or reordered |
| Desktop (`apps/desktop`) | views, forms, editors, the daemon it supervises | pages, designer, shell | control plane | never older than it was; stores what was validated; leaves no daemon behind |
| MCP servers (`packages/extensions/src/mcp.ts`) | one client per server | `listTools`, `invoke`, `close` | external processes | no request over a failed connection; every request ends |
| Conditions (`workflow/src/expressions.ts`, `scope-expr.ts`) | none | parse, evaluate, translate | both engines, the compiler | each source means what the documented grammar says; a translated condition has the same verdict |
| Text: documents, prompts, policy, secrets, configuration | none | pure functions, file reads | their callers | see section 8 |

What is hard here: the process may die between any two awaits and everything is
re-driven from tables written one at a time; callbacks of one run arrive from
HTTP, timers and recovery at once and are serialized only by a promise chain in
memory; `cancel` bypasses that chain; two generations of recovery look at one
table; answers arrive while the question is still being stored; joins, loops and
retries are accounted in shared counters; trackers, agents and models fail
before or after they did what they were asked; pages see all of this through
polls and streams that overtake each other. `PROJECT.json` lists the hazards at
their lines, with the properties that watch them.

## 2. Modules

Coordination of runs:

| Module | Models | Correspondence |
|---|---|---|
| `RunLifecycle` | `core/src/run.ts` | states and table, literally |
| `DurableQuestions` | what durable waits promise | a question per run and node: none, open, answered, delivered or withdrawn. The abstract specification `GraphCoordinator` implements |
| `GraphTick` | the outcomes a tick may have, seen by the coordinator | `Outcomes(g, asked, aborted, shapes)` is the set of (status, new graph state, new waits, nodes handed their satisfaction): the contract the coordinator relies on and the detailed engine is checked against |
| `GraphCoordinator` | the coordinator over its repositories, with the daemon's boot | each asynchronous call is a task with a program counter and its local copy of the run (`job`); an action is the code between two awaits. Tables are `runs`, `claims`, `graphs`, `waits`, `supplemental`; `locks` and `active` are the maps in memory. `Crash` erases the latter and every task |
| `GraphValidation`, `GraphEngine` | `validateGraph`; one run's ticks in detail | rounds (`Execute`), yields taken up in node order (`TakeWait`, `TakeResult`), transitions one by one (`Fire`, `Settled`), `EndTick`; `Abort` at any time. Nodes and transitions are numbers in the order of the document, so a list the code goes through is a set taken by its minimum |
| `DryRun` | `walkGraph` | the walk's queue, step by step, then the engine on the same graph in the predicted world |
| `WorkflowEngine` | the v1 engine | a pass of the loop (`Launch`), `Promise.race` (`race`, `Resume`), a `runStep` per step in flight with attempts, pauses and executors that may outlive a timeout |
| `Compiled` | `compileWorkflow` | the graph of a definition (gates, decisions, relays, skip channels); run by the rules of the graph engine in the world the v1 engine has met |
| `ScheduleSpec`, `Routing` | cron and interval arithmetic; eligibility, routing rules and their suggestion | pure operators, the calendar a parameter |
| `RunTable`, `GraphScheduler`, `Daemon` | the tables both schedulers share; the graph scheduler; boot, tick, v1 scheduler, manual starts, shutdown and crash | each layer EXTENDS the one before; the runs' own life is reduced to starting, parking, resuming and ending |

The work of a node (parts of `MCRuntime`):

| Module | Part | Models |
|---|---|---|
| `AgentSession` | agent | the fallback chain and the native loop: turns, tools, denials, budgets, retries, compaction, a sub-agent, cancellation |
| `GraphNodes` | nodes | the executor of each node kind, activation by activation; gates with remediation and people |
| `ChildRuns` | children | fan-out and sub-workflow nodes, children that end while others read the rows, restarts |
| `Experiment` | experiment | every phase of the runner, judgments saved before they are applied, deaths of the process at every moment until the coordinator has stored what the node yielded, so that an old judgment is replayed to a new question |
| `AgentBackend` | backend | Codex, Copilot and Claude Code: process, pipe, line parser, events, result |
| `ModelStream` | model | Anthropic and OpenAI: blocks in pieces, retries, cuts, aborts |
| `McpServers` | mcp | connections on demand, shared while they are made, dropped on failure |
| `Expressions` | expression | the parsers and evaluators of both languages of conditions, word by word, and the translation between them |

What a run needs from outside (parts of `MCServices`):

| Module | Part | Models |
|---|---|---|
| `WorkTracker` | tracker | four adapters as series of requests, with people and other orchestrators between them |
| `CodingRun` | coding | base clone, worktrees and the remote branch of an item, shared by its runs |
| `ManagedSection` | section | the description of an item: the delimited section written by checkpoints and actions, around it what people write |
| `ControlPlane` | answers, approvals | waits, the approval broker, the views, forms and health of windows, and callers of the API |
| `Definitions` | definitions | versions and lifecycles, and the reads of `SnapshotResolver` |
| `Designer` | designer | canvas and text over one document, saves that outlive their editor |
| `EventFeed` | feed | the log, the SSE stream, the two fetches and the timeline of a run's page |
| `Stores` | store | each repository in SQL and in memory, call by call; migrations with deaths |
| `DesktopShell` | shell | the supervisor in the application, daemons with `daemon.json`, the page's stored entry |

`MC*` give these modules their small instances; a behaviour of `MCRuntime` or
`MCServices` is about one of its parts and the others stand still, so that one
run asks the same question of each of them. The modules named `*Proofs` hold the
theorems (section 6) and are part of no run: `GraphCoordinatorProofs` (types, locks,
rows) and, on top of it, `GraphCoordinatorRunProofs` (states, claims, questions and
answers); `GraphEngineProofs` (and `Stores`); `DaemonProofs`; `WorkflowEngineProofs` (and `Compiled`);
`RuntimeProofs` (parts of `MCRuntime`); `ControlPlaneProofs` (parts of `MCServices`, `ModelStream`) and
`CodingRunProofs` (further parts of it, and external agents).

Abstractions. A wait row is (run, node, status), its id the order of creation;
of the graph state the coordinator's model keeps what decides a tick; the verdict
of a condition is arbitrary to the engines (`Expressions` has what it is), an
executor an arbitrary yield, a document a name with references, a commit the set of works it contains, an event its place
in what the run publishes. `GraphCoordinator.Env` names what the environment may
do (cancel, fail a fetch, answer late, ...), so that each run says which
disturbances its claims survive.

## 3. Runs

Passing:

| Run | Question | Bounds |
|---|---|---|
| `coordinator_answers` | Do answers, timers and failing steps in any order leave a run either parked on questions that can be answered, or over; does every accepted answer reach its node; is this an implementation of `DurableQuestions` (`QuestionsKept`)? | 1 run, 2 nodes (one human, one timer), 2 tasks beside recovery, 3 wait rows, no crash |
| `coordinator_crash` | Does the wait table stay consistent with the graph state when the daemon dies at any point, with both kinds of boot, cancellations and re-arrivals at a waiting node? Does nothing but an answer, recovery, an operator or the v1 recovery, before anybody is at work, move a parked run? | 1 run, 2 nodes, 1 task beside recovery, 2 wait rows, 1 crash |
| `coordinator_claims` | Do two runs of one item never execute together, does nothing leak when they end, is every stored state change legal, when nobody cancels? | 2 runs, 1 item, 2 nodes, 2 tasks, 2 wait rows |
| `engine_ticks` | Is every tick within `GraphTick.Outcomes`; do activations follow the joins; does it end; does a run do what its dry run said? | every validated graph of 2 working nodes and a terminal one with at most 3 transitions, loop bounds 0 and 1, joins none/any/all, with and without retries; the diamond with each join, and one whose branches are declared in another order than the names of their nodes; 4 settlements |
| `workflow_steps` | Does the v1 verdict follow from the failures that reach a terminal step; is success only reported, and cancellation only completed, with nothing in flight; does the engine come back; does the compiled graph come to the same end? | every dependency shape of 3 steps, with conditions, forgiven failures, one step with 2 attempts and a timeout; chains, diamonds and forks of 4; a cycle; 2 steps at a time |
| `daemon` | Do two schedulers and an operator on one table ever run an item twice, exceed a lane or the limit of concurrent runs, fire a slot twice, learn a rule nobody agreed on; are missed schedules caught up with? | 2 items, 2 runs, 2 lanes of one run, 4 schedules (one of them with a cron that never matches), 5 instants, 1 crash, a calendar of 2-hour days with leap days; and a lane of two over 3 items and 3 runs of its own |
| `runtime` | Is what agents and models are sent and report what happened; are verdicts of gates, joins and experiments earned; does the work of a node end? | see `MCRuntime`: 4 turns and a sub-agent, 2 gate sets of up to 4 gates, 3 children at 2 a time, 2 candidates in 2 iterations, scripts of up to 3 lines per agent, 2 messages of 4 blocks, 3 requests to a server; 1 crash or restart each; 3500 conditions of up to 8 words over 2 steps and a variable |
| `services` | Does work survive; do stores agree; is everyone told the truth; are snapshots and saves sound; are transitions what they are said to be; does no page go back; are questions shown and decided? | see `MCServices`: 2 orchestrators and 2 calls, 2 runs of an item with 2 works, 2 writes of a description with 2 edits by people, 1 window and 2 callers, a library of 10 definitions with 2 saves, 5 events with 2 faults, 3 calls per repository, 3 daemons and 2 launches |

Why these bounds. Every property of the coordinator speaks of one run, one node
or one row, except the claims, which need two runs of an item; a race needs
two callers, and recovery is a third. Three rows let a node ask, be answered, ask
again and another node ask in between; two rows and a crash let a question be
asked, lost and asked again. Two lanes and two items meet in every order; a
lane of two over three items fills, frees a place and fills again; a year
of two days meets a leap day and a scan that gives up. Tracker races need an
interleaving of two claimants; comments a page and one more. Two stores that
differ do so after one write of a row, one that replaces it and one of a
neighbour. Three daemons let one quit while the next is there and a third is
started. Deadlock is not checked: when every run has ended or waits for a user
the daemon is idle, and an engine returns once.

Properties that are composed of several: `SessionsSound` (the history an agent
is sent, a cancel that was heard, the one report of an external agent and its
lines, the message of a model, the connections of an MCP server), `VerdictsEarned`
(gates, joins, experiments, conditions), `NodesSettle` (each kind of node's work ends),
`WorkHeld` (a coding run's work, a repeated claim, a description with what people
wrote in it, the daemon of an application that quits), `ToldTheTruth` (answers, a run's page, `daemon.json` and the page's
entry), `DefinitionsSound` (snapshots and editions; the designer's saves and
projections), `QuestionsSettle` (waits are shown, approvals decided),
`CapacityKept` (lanes; concurrent runs), `RecordsKept` (`FiredOncePerSlot` of schedules,
`RulesLearnedFromAgreement` of routing rules). Each names the parts it is made of where
it is defined.

Violations. Each states what a document or comment of the repository says, and
TLC finds a counterexample; `PROJECT.json` "findings" quotes the texts.

- `coordinator_v1_restart`: the v1 scheduler's recovery at boot fails every
  parked graph run (`scheduler.ts:78`).
- `workflow_parallel_end`: the v1 loop is left when nothing is left to launch;
  with two last steps in flight the workflow is reported failed when the first
  has succeeded, and the second runs on while claim and workspace are released
  (`packages/workflow/src/engine.ts:331`). The tests of the engine do not meet it
  because their parallel last steps settle in the same turn of the event loop.
- `gates_composed`: a snapshot lacks the base of a gate set that extends one, and
  the gate node passes without the base's gates (`graph/snapshot.ts:105`).
- `child_lost_wakeup`: a child that is cancelled while parked never wakes its
  parent (`coordinator.ts:167`).

## 4. Where the properties stop

The limits of the passing runs are the code's, not the models'. Each of these
was met while modelling; the models contain the behaviour, and the property says
what holds beside it.

Coordinator:

- Lost answer. Answered, then killed before the parked state is stored: the
  answer is not replayed and the run waits for a question that is closed
  (`coordinator.ts:389`). With a crash `NoRunStranded`, `NoOrphanQuestion`,
  `ParkedStateMatchesRows`, `TerminalLeavesNothing` and `QuestionsKept` do not
  hold for this and the other crash hazards of `PROJECT.json`.
- Ended run driven. An answer accepted before its run failed still waits for the
  lock and then drives the graph of the ended run, whose claim the next run of the
  item may hold. `OneLiveRunPerItem` speaks of runs in progress; that the ended run
  is stored as ended, keeps no row and leaves the other's claim alone is
  `LegalTransitions` and `TerminalLeavesNothing` (`coordinator_claims` gets there).
- Lost question. A branch asks in the tick another ends the run; killed there,
  the run parks on a question never stored (`coordinator.ts:607`). So
  `WaitsBeforeState` is checked and proved without `raceToEnd`.
- Cancel race. `cancel()` of a parked run races a resume; the cancelled run is
  RUNNING again (`coordinator.ts:155`). With `cancel`, `OneLiveRunPerItem`,
  `TerminalLeavesNothing` and `LegalTransitions` do not hold.
- With `rearrive` (a join re-activates a waiting node) `NoOrphanQuestion` does not
  hold: the open row of the earlier question stays.
- Children: a child that ends before its parent's wait is stored, or that fails
  to start, wakes nobody; `ParentWoken` speaks of a last child that is finalized
  while the wait is open, and of no restart.

Engines:

- Two branches that settle in one round count as two activations of their target,
  which is executed once (`engine.ts:165`). `JoinAccounting` counts activations;
  `PredictionKept` leaves out worlds in which the walk had two nodes to choose from,
  be it when it settled one of them or when it stopped at one: the walk takes nodes in the
  order their transitions are declared, a round in the order of their ids, so that the
  walk may stop at a node it cannot tell (`evaluate.ts:1013`) before one the run executes.
- The dry run takes a join that declares no mode for `any`, the engine for what
  its incoming transitions imply: `PredictionKept` asks for declared joins
  (`JoinsDeclared`).
- Compiled workflows: `Recovered` is the divergence the header of `compile.ts`
  describes. `SkipSpeaksForFailure` is one it does not: a step behind a failed (or
  taint-skipped) dependency and one skipped by its `when` is skipped with the
  latter's skip channel, and the graph completes where version 1 fails; the comment
  at `compile.ts:259` expects it to starve. `CompiledKeepsVerdict` excludes both.
- A v1 workflow that consists of a cycle only has no terminal step, so `execute`
  reports success for steps it skipped; the parser refuses such a workflow, and
  the cyclic instance of `workflow_steps` has a step behind the cycle.

Nodes, agents, models:

- Two human gates in one set ask in turn without end, because an approval counts
  for the gate it was given to only (`HumanGates`).
- A run cancelled while an agent's start is awaited does not reach the agent
  (`Started`); `CancelHeard` speaks of cancels an agent has heard.
- A process an agent leaves behind keeps its pipe open, and the provider waits
  beyond the kill; `StepSettles` excepts it (`child.heir`).
- An OpenAI stream that breaks off is reported as a response; `DeltasAddUp` says
  that what was received is not made up, not that it was all.
- A step that was skipped has no result in a graph: `steps.x.status == 'skipped'` and
  `steps.x.failed == false` hold in a version 1 workflow and not in the graph it
  compiles to, although `expressions.ts` calls `.skipped` sugar for the first.
  `TranslationKeepsVerdict` excepts conditions that read it so (`ReadsSkipped`), and
  worlds in which the version 1 evaluator throws; of numbers it knows only that they
  are read as written. A step whose id has a dash cannot be named in a version 1
  condition, although the schema accepts the id.
- A client of an MCP server that is dropped is not closed, a late failure of an
  older client drops the newer one, and `close()` during a connection leaves what
  it makes; `ConnectionsAccounted` says that nothing else is lost sight of.

Daemon and trackers:

- A start that throws ends the pass before the lane's record is saved, so that a
  lane of two or more then exceeds its capacity: `CapacityKept` is checked with
  such starts for a lane of one run, and without them for a lane of two.
- Linear reads the last comment, Jira a stale item: `ClaimRetryHeld` is about the
  GitHub adapters. Labels are read, changed and written back. Two GitHub transitions
  that overlap leave two state labels; `TransitionReached` is about those no other
  transition overlaps with, whatever claims, releases and people do meanwhile. Linear
  writes the whole set (`work-linear/src/provider.ts:194`): a label people put on
  between the read and the write of a claim or a release is lost, and
  `ForeignLabelsKept` says that this is the only way to lose one.
- A description is read and written back whole: what people or another run put into
  it in between is undone (`docs/adrs/adr-0020.md:83` speaks of a refresh before every
  update), and `HumanTextKept` excuses those texts. A document that quotes a delimiter
  has every later update refused.
- Checkpoints and `work.update_section` share one section. The shipped discovery
  workflow writes its PRD there (`templates/src/discovery.ts:140`) and parks at the
  approval without a workspace, so that `suspend` puts a status block in its place:
  `Start` with `Status` after a document. `docs/DELIVERY-PHASE2.md:50` says it survives.

Control plane, stores and desktop:

- A page whose stream was lost has a gap: it reopens without a cursor.
  `TimelineComplete` speaks of what was told while it had a stream.
- Two edits in the designer within the delay of its parser (0.3 s) are one edit to
  `ProjectionsAgree`.
- Stores differ outside the calls the daemon makes, and the model makes only
  those: an empty `states` or `types` filter means "none" in memory and "all" in
  SQL, a second insert of an id throws in SQL only, `createdAt` of a re-saved run
  is kept by one of them, a cursor of another run is accepted by one of them, ties
  are unspecified in SQL and by insertion in memory, ids are ordered by locale in
  memory and by bytes in SQL, and dates nested in a payload become strings in SQL.
- The shell: an exit between the look at `stopping` and the store of
  `owns_process` leaves a daemon behind (`OrphansOnlyWhileSpawning`); a daemon that
  takes longer than the health attempts to answer gets no window; restarts are
  counted over the life of the application although the message says "in a row";
  nobody reads what `refresh_window` evaluates in the page. A daemon that was
  waiting for its runs removes the `daemon.json` of the one that came after it
  (`DaemonFound` excepts it). A stored entry with the same address shadows the new
  token (`StaleOnlyOfEnded`), and tokens are made per start, where
  `docs/getting-started.md:132` and `docs/security.md:51` call them per-install.

## 5. Fairness

Safety properties are checked and proved without fairness. Liveness takes:

- `GraphCoordinator.FairSpec` (`AnswerReachesNode`): a pending task, a `cancel` call
  and `recover` take their next step (promise reactions run, database calls are
  synchronous, executors have timeouts), and a supervisor restarts the daemon. No
  user has to answer and no scheduler has to find work.
- `MCGraphEngine.MCSpec` (`TicksEnd`): the engine takes its next step; executors
  return.
- `Compiled.FairCompiledSpec` (`EngineReturns`): the loop and the timers run; a step
  without a timeout has an executor that returns, the executor of a step with a
  timeout may hang forever. Nothing obliges the signal to fire.
- `MCDaemon.MCSpec`, as `Daemon.FairSpec` (`CatchesUp`), for the behaviours without the
  lane of two: the daemon is started again, its interval ticks, and
  a run that is in progress goes on; nobody has to answer a run that is parked.
- `MCRuntime.Fairness` (`NodesSettle`): runners, loops, executors and steppers take
  their next step; a node's wait is answered at last; what a child of a node does
  is not prevented for ever (strong fairness of its end, which other children may
  disable by holding the rows for the length of a read); a process that was killed
  closes its pipe unless a descendant holds it; a server answers or fails (the
  protocol's requests have timeouts). Agents without a timeout need not end, and
  models owe nothing.
- `MCServices.Fairness` (`QuestionsSettle`): polls and health checks recur while the
  window is open, requests are served and answered; the approval's timer fires. No
  person has to answer.

## 6. Proofs

The theorems hold for every value of the constants that satisfies the assumptions
of the modules, which TLC evaluates in every run; hypotheses beyond them stand in
the theorem, and each is one the runs show to be needed. `PROJECT.json` "theorems"
lists the results.

### The graph coordinator

For every set of runs, items, nodes and tasks, any number of wait rows, from
`CoordinatorAssumption` (the shape of the constants). Every safety property and
action property of the coordinator's passing runs is a theorem.

`GraphCoordinatorProofs`, with any number of crashes and every `Env`:

- `TypeCorrect` (`TypeOK`). The invariant is `Typing /\ LockHolders`: `TypeOK` is
  not inductive because a task handles rows by number, so `HeldRowsExist` says
  that the rows in a task's hands exist, and because leaving the lock pops a
  queue, so `LockHolders` says that whoever is inside is at its head.
- `MutualExclusion` (`OneDriverPerRun`) follows from `LockHolders`: two tasks
  inside are both the head of one queue.
- `FirstResponse` (`FirstResponseWins`), an action property: `SettlesOnly` holds
  of every step, by cases on the actions that touch the table.
- `OneQuestionAtATime` (`OneOpenWait`). A node in a task's `todo` had no open row
  when the tick ended; only the task that holds the run's lock inserts rows of
  the run, so it has none when its row is inserted.
- `RowsBeforeState` (`WaitsBeforeState`). `RowsStored` drops the condition that
  the run is parked, and `RowsInHand` says the same of the graph states tasks
  have read or are about to save; rows are never deleted (`RowsKept`). It assumes
  `"raceToEnd" \notin Env`: the lost question of section 4 shows that it must.

`GraphCoordinatorRunProofs`, about the life of a run. The invariant adds to
`Typing /\ LockHolders`: `StatesInv` (the run in a task's hands is in the stored
state, but for a cancellation; while the daemon is down, or its v1 recovery runs,
no task is at work), `Uninterrupted` (nothing crashes, recovers or
cancels) and `ClaimsInv` (a run in progress holds its item until the task that ends
it gives it back, and a run that ended holds neither item nor open row, but for what
that task is about to withdraw).

- `LegalStates` (`LegalTransitions`), with any number of crashes, when nobody
  cancels: every stored change is one of `core/run.ts`, but for the step of the v1
  scheduler's recovery in the daemon's own boot; without exception where the
  coordinator boots by itself.
- `ParkedRunsWait` (`ParkedUntilAnswered`), for every boot, the daemon's own
  included (`cli/src/daemon.ts:758` starts the v1 scheduler, `:763` the graph recovery), and
  for any crashes and cancellations. A parked run is resumed by the holder of its
  lock, who is recovery or brings an answer to a row of this run that was accepted;
  or it is cancelled; or the v1 recovery fails it, and then no task is under way that
  would drive a run that has failed. That last case is what `coordinator_v1_restart`
  shows; the order of the boot, v1 recovery before the coordinator serves, is what
  keeps it from racing an answer. The invariant `BringsAnswer` carries it: a task that
  waits for the lock or is past it has a satisfied row of the run in its hands, and
  rows stay satisfied.
- `OneLiveRun` (`OneLiveRunPerItem`) and `NothingLeft` (`TerminalLeavesNothing`),
  without cancellations and crashes.

`GraphCoordinatorRunProofs` goes on with questions and answers, without crashes. The
invariant adds `WaitsInv`: `AnswersHeld` (an accepted answer that has not reached
its node is in the hands of one task, which holds no other), `Driven` (a running run has
a driver), `ParkedCoherent` (a parked run has only waiting nodes left, and each has
exactly one row that is open or whose answer is in hand) and `DrivenCoherent` (the
same of the graph state a driver carries, but for the nodes whose rows it has still to
write).

- `QuestionsAreKept` (`QuestionsKept`): the coordinator implements
  `DurableQuestions`. `RefInit` and one lemma per group of actions show that each
  step is a step of the abstract specification or a stutter.
- `NobodyStranded` (`NoRunStranded`), `NoOrphans` (`NoOrphanQuestion`) and
  `ParkedForHuman` (`ParkedStateMatchesRows`), when nobody cancels, no fetch fails
  and no join re-activates a waiting node.

Why these hypotheses: TLC, with one disturbance at a time on the instance of
`coordinator_answers`, violates with a crash all of these except
`ParkedStateMatchesRows`; with `cancel` `NoRunStranded`, `OneLiveRunPerItem`,
`TerminalLeavesNothing` and `LegalTransitions`; with `fetchFails` `NoRunStranded` and
`ParkedStateMatchesRows`; with `rearrive` `NoOrphanQuestion`. The three theorems on
parked runs share one invariant, and with it the hypotheses of all three;
`coordinator_crash` checks what is left with crashes.

### The graph engine

`GraphEngineProofs`, for every validated graph over any finite set of nodes, from
`EngineAssumption`: every workflow has the shape of `WorkflowGraph`
(`isWorkflowGraph`), is accepted by `validateGraph`, and the backstop is positive
(1000 in the code).

- `TypeCorrect` (`TypeOK`). `TickInv` adds `Unstarted` (before its first tick a run
  has the initial graph state) and `RoundKept`: what a round may find in its lists.
  `TypeOK` alone is not inductive because it bounds the settlements of a tick, which
  pass the backstop by at most the executions of one round.
- `JoinsAccounted` (`JoinAccounting`). The activations of a node and the firings its join
  counts change in one step, so the work is in the lemmas on what a firing does to
  `totalFirings`, `maxSingleFirings` and `firedCount`; `Bounded` (the counters never
  pass some bound) makes the firings finite in number.
- `ContractHolds` (`TickWithinContract`): whatever a tick returns is in
  `GraphTick.Outcomes`, the contract `GraphCoordinator` is built on. `HandedOver`
  relates the state in the midst of a tick to the state it began with; the proof
  asked for one fact no run had named, that a node which goes on waiting is never
  among the new waits of the tick unless it was re-activated.

- `PredictionIsKept` (`PredictionKept`), for every validated graph and every world a dry run
  may be about (`WorldsAssumption`). `DryInv` keeps the walk's stages, from its start to
  what it has become, each with its step to the next (`NodeStep`), and says where
  the run is: at one of them (`Ready`), within the transitions of the node between
  two of them (`Firing`), or at its end (`Over`). `StageKept`: a step of the run leads from
  a stage to the same or the next. `JoinsAgree`: a declared join is satisfied by the walk's
  counters when it is by the engine's. The walk over the transitions is recursive;
  `FiresAll` gives a solution of the recursion, `Steady` and `CountersGrow` follow it along.
  An earlier form of `wide` looked for a choice only where a node settles; the proof of
  `Stage` failed for a walk that stops at one, and TLC found the graph (`Crossed`).

The module goes on with the store the graph's state is kept in, for any number of
writes, rows and values, and any number of migrations (`Versions \in Nat`) and kills:

- `AdaptersHoldTheSame`, the half of `StoresAgree` that is about writes: a write has
  returned the same of both adapters and they hold the same rows in the same order.
  `StoreInv` adds that the waits and claims of the database are distinct, so that what the
  Map finds first is what the WHERE clause finds; `DefinitionsInv` that the versions of a
  name are numbered in the order they came in, so that the last of the array is the
  MAX(version), and that the lifecycles differ by the default at most. With it `ListsAgree`:
  all of `StoresAgree` for the repositories without queries (config, claims, definitions).
  What is left to TLC is the order in which queries return rows.
- `SchemaIsCompleted` (`SchemaCompletes`). `SchemaInv`: tables and records agree outside
  of a transaction, and what is recorded beyond the migrations this process has read
  lies behind it.

### The daemon

`DaemonProofs`, for every set of items, runs, lanes, schedules and workflows, any
number of crashes, from the assumptions on tables, scans, lanes, routing and limits
in the modules it extends.

- `NoItemTwice` (`OneRunPerItem`). `CoreInv`: a run that is at work or parked holds the
  claim of its item (the start of a schedule, which claims nothing, is of an item no
  tracker has); a row without a run is empty, nothing is at work while the daemon is
  down, and the scheduler counts the runs it has at work.
- `SlotsFiredOnce` (`FiredOncePerSlot`). `SlotsInv`: a slot that was started for had
  been recorded before, and the one a tick is about to start for is later than these.
- `LimitsKept` (`CapacityKept`). `LaneInv`: the runs a lane has at work are in
  its record or, while its dispatch is under way, among those the tick holds.
  Hypothesis `OneByOne`: a lane in which a start may throw takes one run at a time.
  Without it, TLC fills a lane of two with three runs (section 4).
- `RulesFromAgreement` (`RulesLearnedFromAgreement`): a rule that is proposed or
  installed was agreed on at some point of the history of decisions, which `RoutingInv`
  keeps.

### The version 1 engine

`WorkflowEngineProofs`, for every set of steps, dependency graph, concurrency
limit and `Env`, from `WorkflowAssumption` (the shape of the definitions). What is said of the
compiler takes `CompilableAssumption`: what is compiled has a step, its steps are numbered,
and it is `Acyclic`, as the parser and `compileWorkflow` ask for.

- `TypeCorrect` (`TypeOK`), inductive as it stands: the steps in flight are a
  part of it, as those whose phase says that `runStep` is busy with them.
- `Quiescence` (`NoWorkAfterAbort`), an action property. `AbortSeen` says that
  the flag the loop tests has caught up with the signal whenever the loop runs:
  the signal fires only while the loop awaits, and the loop reads it on resuming.
- `CancellationQuiet` (`CancelledMeansQuiet`). `Accounted`: a step is pending,
  or has been launched, or has been skipped; the one whose condition threw is
  none of these, and the engine then throws. `AtRest` carries the fact past the
  return, when only executors that outlived their timeout still move.
- `SuccessIsEarned` (`SuccessMeansSettled`), for every acyclic workflow whatever its
  expressions throw (`Acyclic` is what the schema asks for, `findCycle`), and for any
  other shape when none throws. `InOrder`: a launched step was launched after its
  dependencies had settled. A terminal step has a result because `computeStatus` looks at
  it, any other because a step that depends on it was launched. A step whose expression
  threw is launched and never settles; then everything that depends on it is given up
  together (`GivenUp`, closed under dependence), and in an acyclic workflow that reaches
  a terminal step, so that no success is reported.
- `VerdictIsOfFailures` (`VerdictMatchesFailures`), for every workflow and `Env`. `taint`
  is the least set that has the failures and what they reach: `TaintIsEarned` says that
  what is in it is a failure or has a dependency in it, and a finite set of taints without
  a failure among them would be closed under the step to such a dependency.
  `LostForGood`: a step that a failure kept from being launched has its verdict, or sits
  in a knot of dependencies that nothing leaves (`LeftIsAKnot`).
- `CompilationKeepsVerdict` (`CompiledKeepsVerdict`), for every acyclic workflow and any order
  and number of tries in the graph; its exceptions are those of the property (section 4).
  - What the compiler emits for each step: `CompiledTransitions`, `EdgesInto`, `Joins`. The
    recursion of `isSkipCapable` has a solution because of any steps of an acyclic
    workflow one depends on none of the others (`NoKnot`), that of `FlattenSeq` because
    the sequence it follows gets shorter (`FlattenExists`).
  - What the version 1 engine leaves behind, in terms of a step's dependencies alone: `Why`
    (from `Judged`, `Tainted` and `Emptied`, inductive with `TypeOK`, and kept once the
    engine is over).
  - The run of the graph: `Run`, inductive. A node is activated by as many firings as its join
    asks for (`JoinsKept`), a transition fires only when its source settled and its
    condition holds (`FiringsMeant`), a step settles as it did before (`SettlingMeant`),
    and the run ends for one of the reasons it may (`EndMeant`).
  - The graph executes only steps that ran (`StepsRan`) and completes only after a success
    (`CompletionIsSuccess`). After a success every step has spoken, on one of the channels
    its successors wait for (`EverySpoke`): of the steps that have not, one would have
    only dependencies that have.

### The work of a node

`RuntimeProofs`, a section for each of five components of `MCRuntime`, for every value
of their bounds (turns, attempts, retries, crashes, children, iterations).

- `McpServers`: `FailedClientsAreDropped` (`FailedClientDropped`) and
  `ConnectionsAreAccounted` (`ConnectionsAccounted`), for a finite set of requests.
  `OneConnects`: a client that is connecting is the newest, nothing was sent with it and
  the provider holds none meanwhile. The connections lost sight of (`strays`) are counted
  against the failed requests: a step that adds a stray adds a failure.
- `ChildRuns`: `JoinIsDecided` (`JoinDecided`) and `NodeSettlesByItsJoin`, for any number
  of items and joins. A child's end reads the rows first and satisfies the wait
  later; `VerdictsKept` says that what it has read decides the join still, because rows only
  ever confirm a verdict (`RowsConfirm`: those that succeeded remain, those that may
  still are fewer), and `WaitLast` that no child is started meanwhile.
- `Experiment`: `AdvancesAreEarned` (`AdvanceIsEarned`), from a positive
  `maxIterations`. `SurvivorsPassed`: a ranked survivor has reached the threshold or was
  scored anew by its evidence pass; `JudgmentAsked`: an advance the node was resumed with
  is about what was asked last, also when a restart replays it. Before the record is
  concluded no node resumed with an advance can have gone on to ask anew, so that only an
  old `iterate`, `kill` or `need-more-evidence` can meet a new question; `NotYet`: nothing
  is advanced before the record is concluded.
- `AgentSession`: `HistoriesAreWellFormed` (`HistoryWellFormed`) and `CancelsAreHeard`
  (`CancelHeard`), for any responses. The history is not well formed all the time:
  `Coherent` says that within a turn the last message has its calls answered or still to
  do, and that it is complete between turns unless the session is told to stop. The
  session of a sub-agent stands while its parent's is in `sub`.
- `GraphNodes`: `GatePassesAreEarned` (`GatePassIsEarned`), for every gate set.
  `Underway`: the gates before the one under evaluation have passed in this activation,
  and the verdict at hand is of the attempt at hand. An approval is tied to the gate it
  was asked for.

### The control plane, definitions and the desktop application

`ControlPlaneProofs`. The control plane, for any number of windows, callers, questions
and failures, without assumptions. `Seen`: nothing a window has of a question, be it shown,
cached or on its way, is of an edition still to come, and the fetch that is not
cancelled brings nothing older than what was shown as fresh. `SentOfAsked`: an answer is
on its way only to a question that was asked.

- `AnswersAreHonest` (`AnswersHonest`): a conflict is only told of a settled question
  because a page offers a form only for what it has seen (`Seen`), so that a question an
  answer finds not open has been open before.
- `ViewsNeverOlder` (`NeverOlder`), an action property. A fetch is served with the
  edition of that moment, which `Seen` bounds from below by what was shown; the response
  of a cancelled fetch only reaches the cache.

The desktop application, for any number of daemons, launches and restarts, without
assumptions: `NoDaemonIsOrphaned` (`OrphansOnlyWhileSpawning`), `DaemonIsFound`
(`DaemonFound`), `OldTokensAreOfTheEnded` (`StaleOnlyOfEnded`). `OneListens`: one daemon
has the port. `Supervised`: of the daemons an application has started all are over but the
one it waits for, which it owns from its first look at it. `StopsItsOwn`: whoever is
stopping has told all of its daemons, unless the exit fell between the look at the flag and
the ownership (`late`), which is the exception the property names too.

Definitions, for every library (`DefinitionsAssumption`: its shape, a root, rubrics that
refer to nothing): `SnapshotsAreClosed` (`SnapshotSelfContained`) and
`EditionsAreDistinct` (`EditionsDiffer`). The closure is computed by a worklist while
others save and disable; its invariant `Closure` has three parts: what is collected exists,
once for a name (`Collection`); whatever is collected or to do was named by something
collected (`Origins`); whatever something collected names is collected or to do
(`Followed`), and so with the rubric of an experiment that some node leaves to the
document, be the experiment collected before or after (`RubricsFollowed`). When nothing is
to do, the last two are closure. Two things are not in a snapshot: the rubric of an
experiment whose every node brings one of its own, which nothing looks up
(`node-executors.ts:579`), and the bases of gate sets, which a gate node does look up
(`gates_composed`).

The designer, for any number of pages and saves (`DesignerAssumption`: documents are
texts that parse, redaction keeps them documents): `SavesAreValidated`
(`SavedWasValidated`), `SavesAreAwaited` (`OneSaveAtATime`),
`ProjectionsAreOfOneDocument` (`ProjectionsAgree`). `Shown` relates text, canvas and
the timer of the parse; `Waiting` the editor's flag and the one save it awaits, since an
editor that is reloaded leaves its save behind.

The page of a run, for every script of events (`FeedAssumption`: its shape):
`RunIsShownAsItIs` (`RunShownAsIs`). `ReadAt`: what was read when n events had been
published is no older than the last state told by then; `HeardOf`: a change of
state is on the wire, has been read, is to be read, or could not be told of.
`EventsAreInOrder` (`EventsInOrder`), from `OrderInv`: what was heard was published before
what is on its way, and each list is in order. `TimelineIsComplete` (`TimelineComplete`), if
a tool call is told of first when it starts (`ToolsStart`; the timeline drops the rest of a
call that was not, `timeline.ts:117`), from `ReachInv`: what was published passed the page
by, is on its way, was heard, was or will be read with the history, or found the page full.
`Merged` and `Timeline` say what the loops over the events make of them: `Recursion` gives
the recursive function they are, `UpTo` is the induction along it.

The stream of a model, whose pieces are named by their place (`PiecesAssumption`), for any
messages, number of attempts, breaks and aborts: `DeltasAreToldOnce` (`ToldOnce`) and
`AbortsAreNoFailures` (`AbortIsNoFailure`). `ToldInv`: nothing is told before a request has
succeeded, which is when it is not repeated any more; within the stream, what was told is
of blocks begun and pieces sent, so that what comes next was not told before.

### What a run needs from outside

`CodingRunProofs`. The workspace of a run, for any number of runs of an item, pieces of
work, restarts (on the same machine or on one without a clone), worktrees and rewrites of
the branch. `CodingAssumption`: `NoBranch` is no set of works, and `MaxRestores` is a
number.

- `WorkIsSafe` (`WorkSurvives`). None of its four parts is inductive: what is in
  the checkpoint has come there through the worktree, the local and the remote branch.
  `RunHeld` says for each stage of the way where a run's work is (before the commit it is
  what the branch and the dirty files hold, after it the branch, after the push the remote
  branch); `TrackingHeld` says that `hasUnpushedCommits`, which asks origin/<branch>, is
  right not to push; `OneAtATime` is the claim of the item, without which another run
  could move the branch between the commit and the push.

The trackers, for every set of claimants, page size and configured state labels, of
which none is the people's or the claim's (`TrackerAssumption`): `RetriesAreGranted` (`ClaimRetryHeld`)
from `GrantHeld` (the claim answered last is the latest marker, while the comments fit a
page) and `AloneMeansAlone`; `ForeignLabelsAreKept` (`ForeignLabelsKept`), an action
property, for Linear by what its write had read (`LostByWriteBack`);
`TransitionsAreReached` (`TransitionReached`) from `SeenIsThere` (what a transition has
read of the state labels is still so while no other one overlaps with it; claims and
releases spare them, `StatesSpared`).

The managed section, for every set of texts people write and documents runs write
(`SectionAssumption`: people quote no delimiter; documents may): `HumanTextIsKept`
(`HumanTextKept`), `WhatIsWrittenIsRead` (`WrittenIsRead`), `RefusalsAreFlagged`
(`RefusalFlagged`). `CallsHeld`: a write is of a description that was read whole and
could be applied to; the lemmas say where the delimiters of a description are after the
section is replaced.

External agents, for every script of any of the three providers, whose turns fail only
with codex (`BackendAssumption`), any cut of the output and any order of exit, timer, abort
and failed start: `AgentsEndOnce` (`OneResult`), `LinesAreReported` (`LinesReported`),
`OutcomesAreTruthful` (`OutcomeTruthful`), `StepsAreTold` (`StepTold`). `Phases` says what a
process may still do; `OneEnd` that the last event, and no other, is the end; `Reports`
that the events are, in order, what is told of the lines handled so far (`Reported`),
whose number `handled` is the thirds of lines read, divided by three. `Flattened` is about
`FlattenSeq`: its recursion has a solution, and that keeps what each part has and the
order within and between parts.

### Only model-checked

- Liveness under fairness (`AnswerReachesNode`, `TicksEnd`, `EngineReturns`,
  `CatchesUp`, `NodesSettle`, `QuestionsSettle`) and ENABLED are out of the prover's
  reach.
- Induction over data: the queries of `StoresAgree` (they sort their rows), `DeltasAddUp` and
  `MessageRestored` of `ModelStream`, the calendar of `ScheduleSpec`. What a proof needs of a least element (the first delimiter
  of a description, the latest marker of an issue, a step that waits for none of some others)
  it has from `WFMin`.
- `Expressions`, which is written with RECURSIVE operators.
- The conjunctions `MCRuntime` and `MCServices` check are about their instances; the
  theorems are about the components, one for each conjunct that is proved.

## 7. Plan

Modelled: the coordination of runs, the work of nodes and what runs need from
outside, as listed in section 2. What could still be proved is what
takes induction over data in another prover: the order of queries and the sums of a
model's deltas.

## 8. Not modelled

Listed with reasons in `PROJECT.json` "components":

- text formats, the interpolation of `${{ }}`, prompts and context (pure functions
  over strings);
- policy rules and secrets: a rule match is an arbitrary verdict where the agent
  loop asks for one, redaction an abstract function in the designer;
- templates, configuration layers, the discovery of extensions and of installed
  agents, CLI commands: data and I/O without a protocol of their own;
- the serialisation of rows, and SQL beyond what a statement selects, orders and
  updates;
- the resumption of a stored agent session (`NativeAgentRuntime.resume`,
  `runtime/src/agent-loop.ts:130`): nothing in the program calls it, an agent's node
  that runs again starts a session anew;
- the clone workspace provider and pull requests;
- the display of the desktop application.

What an unhandled promise rejection does to the process is up to the runtime:
`WorkflowEngine` models that `execute` rejects, not that the process may end.
