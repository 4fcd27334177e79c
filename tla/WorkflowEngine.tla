--------------------------- MODULE WorkflowEngine ----------------------------
(***************************************************************************)
(* WorkflowEngine.execute (packages/workflow/src/engine.ts): the steps of  *)
(* a version 1 workflow run as soon as what they depend on has settled, up *)
(* to a number at a time, with retries, timeouts and cancellation.         *)
(*                                                                         *)
(* The loop of execute runs synchronously between two awaits of            *)
(* Promise.race; meanwhile the executors return, time out or fail in any   *)
(* order, also several of them before the loop goes on.  Verdicts of       *)
(* conditions and outcomes of executors are arbitrary.                     *)
(***************************************************************************)
EXTENDS Naturals, FiniteSets

CONSTANTS
    Definitions,       \* the workflows considered, see DefinitionAssumption
    concurrencyLimit,  \* steps in flight at a time
    Env                \* what the environment may do: "abort", "timeout", "throw"

\* A workflow: its steps, numbered in the order of their definition; the steps
\* each depends on; those with a `when`; those that continueOnFailure; the
\* attempts of each, and those that have a timeout.
DefinitionAssumption(d) ==
    /\ d.steps \subseteq Nat /\ IsFiniteSet(d.steps)
    /\ d.dependsOn \in [d.steps -> SUBSET d.steps]
    /\ {d.when, d.continueOnFailure, d.timeoutMs} \subseteq SUBSET d.steps
    /\ d.maxAttempts \in [d.steps -> Nat \ {0}]

ASSUME WorkflowAssumption ==
    /\ \A d \in Definitions : DefinitionAssumption(d)
    /\ concurrencyLimit \in Nat \ {0}
    /\ Env \subseteq {"abort", "timeout", "throw"}

VARIABLES
    definition,
    results,    \* step -> its result, "none" before
    tainted,    \* steps whose outcome reflects a real failure
    pending,    \* pendingIds: steps not launched yet
    inFlight,   \* launched steps that have not settled
    pc,         \* "loop", "race", "drain", "returned", "thrown"
    race,       \* the awaited Promise.race: "pending", "resolved", "rejected"
    cancelled,  \* the flag of the loop
    aborted,    \* the signal of the context
    status,     \* the status returned
    phase,      \* step -> what its runStep does: "idle", "executing", "backoff",
                \* "rejecting", "over"
    attempt,    \* step -> the attempt of runStep
    executors   \* <<step, attempt>> whose executor has not returned

task == <<phase, attempt, executors>>
outcome == <<results, tainted, inFlight>>
vars == <<definition, outcome, pending, pc, race, cancelled, aborted, status, task>>

steps == definition.steps

-----------------------------------------------------------------------------
(* Eligibility *)

settledSteps == {s \in steps : results[s] # "none"}
depsSettled(s) == definition.dependsOn[s] \subseteq settledSteps

\* A step that fails without continueOnFailure stops its dependents.
failedHard(s) == results[s] = "failed" /\ s \notin definition.continueOnFailure
dependencyOk(d) == results[d] = "succeeded" \/ (results[d] = "failed" /\ ~failedHard(d))

\* The rule for a step without `when`.
dependenciesOk(s) == \A d \in definition.dependsOn[s] : dependencyOk(d)

\* Mutant: only a failed dependency taints, not a tainted one.
causesTaint_OneLevel(s) == \E d \in definition.dependsOn[s] : failedHard(d)

causesTaint(s) == \E d \in definition.dependsOn[s] : failedHard(d) \/ d \in tainted

-----------------------------------------------------------------------------
(* The loop *)

capacity == IF concurrencyLimit > Cardinality(inFlight)
            THEN concurrencyLimit - Cardinality(inFlight) ELSE 0

ready == {s \in pending : depsSettled(s)}

\* The first steps of the ready ones, in the order of the definition.
toLaunch == {s \in ready : Cardinality({r \in ready : r < s}) < capacity}

looping == pc = "loop" /\ pending # {} /\ ~cancelled

\* Only in a workflow the validation would have refused: the remaining steps
\* can never become ready.
Unresolved ==
    /\ looping /\ toLaunch = {} /\ inFlight = {}
    /\ results' = [s \in steps |-> IF s \in pending THEN "skipped" ELSE results[s]]
    /\ tainted' = tainted \cup pending
    /\ pending' = {}
    /\ UNCHANGED <<definition, inFlight, pc, race, cancelled, aborted, status, task>>

\* The placeholders of a step are resolved for every attempt, outside its try: one
\* that refers to a step without a result, or to an unknown variable, throws
\* before the executor is called.
MayThrow(S) == IF "throw" \in Env THEN SUBSET S ELSE {{}}

\* The steps of batch are judged: the ones in `holds` have a `when` that evaluates
\* to true.  Eligible ones start their first attempt, the others are skipped.
launch(batch, holds) ==
    LET eligible == {s \in batch : IF s \in definition.when THEN s \in holds
                                   ELSE dependenciesOk(s)}
        skip == batch \ eligible
    IN
    /\ inFlight' = inFlight \cup eligible
    /\ results' = [s \in steps |-> IF s \in skip THEN "skipped" ELSE results[s]]
    /\ tainted' = tainted \cup {s \in skip \ definition.when : causesTaint(s)}
    /\ attempt' = [s \in steps |-> IF s \in eligible THEN 1 ELSE attempt[s]]
    /\ \E bad \in MayThrow(eligible) :
         /\ phase' = [s \in steps |-> IF s \in bad THEN "rejecting"
                                     ELSE IF s \in eligible THEN "executing" ELSE phase[s]]
         /\ executors' = executors \cup {<<s, 1>> : s \in eligible \ bad}

\* A pass of the loop; with nothing in flight it goes on at once.
Launch(holds) ==
    /\ looping /\ (toLaunch # {} \/ inFlight # {})
    /\ holds \subseteq toLaunch \cap definition.when
    /\ launch(toLaunch, holds)
    /\ pending' = pending \ toLaunch
    /\ IF inFlight' = {} THEN UNCHANGED <<pc, race>>
       ELSE pc' = "race" /\ race' = "pending"
    /\ UNCHANGED <<definition, cancelled, aborted, status>>

\* The condition of s throws, on a step that has no result yet: execute is left
\* with the steps before s launched.
LaunchThrows(s, holds) ==
    /\ "throw" \in Env
    /\ looping /\ s \in toLaunch \cap definition.when
    /\ LET before == {r \in toLaunch : r < s} IN
         /\ holds \subseteq before \cap definition.when
         /\ launch(before, holds)
         /\ pending' = pending \ (before \cup {s})
    /\ pc' = "thrown"
    /\ UNCHANGED <<definition, race, cancelled, aborted, status>>

\* Back from the race: the signal is looked at, then the condition of the loop.
Resume ==
    /\ pc = "race" /\ race = "resolved"
    /\ pc' = "loop"
    /\ cancelled' = aborted
    /\ UNCHANGED <<definition, outcome, pending, race, aborted, status, task>>

\* A step that was rejected rejects the race, and execute with it.
Rethrow ==
    /\ pc = "race" /\ race = "rejected"
    /\ pc' = "thrown"
    /\ UNCHANGED <<definition, outcome, pending, race, cancelled, aborted, status, task>>

terminalSteps == {s \in steps : \A t \in steps : s \notin definition.dependsOn[t]}

\* Mutant: a terminal step without a result is passed over.
computeStatus_SkipsMissing ==
    IF \E s \in terminalSteps : failedHard(s) \/ (results[s] = "skipped" /\ s \in tainted)
    THEN "failed" ELSE "succeeded"

computeStatus ==
    IF \E s \in terminalSteps :
         results[s] = "none" \/ failedHard(s) \/ (results[s] = "skipped" /\ s \in tainted)
    THEN "failed" ELSE "succeeded"

\* Nothing is left to launch: the status is computed.
Return ==
    /\ pc = "loop" /\ pending = {} /\ ~cancelled
    /\ pc' = "returned"
    /\ status' = computeStatus
    /\ UNCHANGED <<definition, outcome, pending, race, cancelled, aborted, task>>

Cancelled ==
    /\ pc = "loop" /\ cancelled
    /\ pc' = "drain"
    /\ UNCHANGED <<definition, outcome, pending, race, cancelled, aborted, status, task>>

\* Mutant: the steps in flight are not awaited.
Drained_AtOnce ==
    /\ pc = "drain"
    /\ results' = [s \in steps |-> IF s \in pending THEN "skipped" ELSE results[s]]
    /\ status' = "cancelled"
    /\ pc' = "returned"
    /\ UNCHANGED <<definition, tainted, inFlight, pending, race, cancelled, aborted, task>>

\* After an abort the steps in flight are awaited, the others never start.
Drained ==
    /\ pc = "drain" /\ inFlight = {}
    /\ results' = [s \in steps |-> IF s \in pending THEN "skipped" ELSE results[s]]
    /\ status' = "cancelled"
    /\ pc' = "returned"
    /\ UNCHANGED <<definition, tainted, inFlight, pending, race, cancelled, aborted, task>>

-----------------------------------------------------------------------------
(* runStep, one per step in flight *)

others == <<definition, pending, pc, cancelled, aborted, status>>

\* The first promise of the race to settle decides it.
wake(how) == race' = IF pc = "race" /\ race = "pending" THEN how ELSE race

\* Mutant: a settled step stays in inFlight.
settle_StaysInFlight(s, result) ==
    /\ results' = [results EXCEPT ![s] = result]
    /\ tainted' = IF result = "failed" /\ s \notin definition.continueOnFailure
                  THEN tainted \cup {s} ELSE tainted
    /\ phase' = [phase EXCEPT ![s] = "over"]
    /\ wake("resolved")
    /\ UNCHANGED inFlight

settle(s, result) ==
    /\ results' = [results EXCEPT ![s] = result]
    /\ tainted' = IF result = "failed" /\ s \notin definition.continueOnFailure
                  THEN tainted \cup {s} ELSE tainted
    /\ inFlight' = inFlight \ {s}
    /\ phase' = [phase EXCEPT ![s] = "over"]
    /\ wake("resolved")

Succeeds(s) ==
    /\ phase[s] = "executing"
    /\ executors' = executors \ {<<s, attempt[s]>>}
    /\ settle(s, "succeeded")
    /\ UNCHANGED <<others, attempt>>

\* After a failed attempt: retry after a pause, unless the signal has fired.
attemptFailed(s) ==
    IF aborted \/ attempt[s] >= definition.maxAttempts[s] THEN settle(s, "failed")
    ELSE /\ phase' = [phase EXCEPT ![s] = "backoff"]
         /\ UNCHANGED <<outcome, race>>

Fails(s) ==
    /\ phase[s] = "executing"
    /\ executors' = executors \ {<<s, attempt[s]>>}
    /\ attemptFailed(s)
    /\ UNCHANGED <<others, attempt>>

\* Mutant: the timeout only signals the executor, the engine does not race it.
TimesOut_Cooperative(s) ==
    /\ "timeout" \in Env
    /\ phase[s] = "executing" /\ s \in definition.timeoutMs
    /\ <<s, attempt[s]>> \notin executors
    /\ attemptFailed(s)
    /\ UNCHANGED <<others, attempt, executors>>

\* The attempt is given up; its executor may be running still.
TimesOut(s) ==
    /\ "timeout" \in Env
    /\ phase[s] = "executing" /\ s \in definition.timeoutMs
    /\ attemptFailed(s)
    /\ UNCHANGED <<others, attempt, executors>>

\* What the executor of an attempt that was given up returns is dropped.
LateReturn(s) ==
    /\ \E e \in executors : /\ e[1] = s
                            /\ phase[s] # "executing" \/ e[2] # attempt[s]
                            /\ executors' = executors \ {e}
    /\ UNCHANGED <<others, outcome, race, phase, attempt>>

\* Mutant: the signal is not looked at after the pause.
Retry_Unchecked(s) ==
    /\ phase[s] = "backoff"
    /\ attempt' = [attempt EXCEPT ![s] = @ + 1]
    /\ executors' = executors \cup {<<s, attempt[s] + 1>>}
    /\ phase' = [phase EXCEPT ![s] = "executing"]
    /\ UNCHANGED <<others, outcome, race>>

\* The pause is over, or cut short by the signal: the next attempt.
Retry(s) ==
    /\ phase[s] = "backoff"
    /\ IF aborted
       THEN settle(s, "failed") /\ UNCHANGED <<attempt, executors>>
       ELSE /\ attempt' = [attempt EXCEPT ![s] = @ + 1]
            /\ \E bad \in MayThrow({s}) :
                 /\ phase' = [phase EXCEPT ![s] = IF s \in bad THEN "rejecting" ELSE "executing"]
                 /\ executors' = executors \cup {<<r, attempt[r] + 1>> : r \in {s} \ bad}
            /\ UNCHANGED <<outcome, race>>
    /\ UNCHANGED others

\* A step whose placeholders threw rejects its task: it never has a result.
Rejects(s) ==
    /\ phase[s] = "rejecting"
    /\ phase' = [phase EXCEPT ![s] = "over"]
    /\ inFlight' = inFlight \ {s}
    /\ wake("rejected")
    /\ UNCHANGED <<others, results, tainted, attempt, executors>>

\* The signal of the context, which resolves the race too; it cannot fire while
\* the loop runs.
Abort ==
    /\ "abort" \in Env
    /\ pc # "loop" /\ ~aborted
    /\ aborted' = TRUE
    /\ wake("resolved")
    /\ UNCHANGED <<definition, outcome, pending, pc, cancelled, status, task>>

-----------------------------------------------------------------------------

\* The signal may have fired before the engine is called.
Init ==
    /\ definition \in Definitions
    /\ results = [s \in steps |-> "none"]
    /\ tainted = {} /\ pending = steps /\ inFlight = {}
    /\ pc = "loop" /\ race = "pending" /\ status = "none"
    /\ aborted \in IF "abort" \in Env THEN BOOLEAN ELSE {FALSE}
    /\ cancelled = aborted
    /\ phase = [s \in steps |-> "idle"]
    /\ attempt = [s \in steps |-> 0]
    /\ executors = {}

Loop ==
    \/ Unresolved
    \/ \E holds \in SUBSET definition.when :
         Launch(holds) \/ \E s \in definition.when : LaunchThrows(s, holds)
    \/ Resume \/ Rethrow \/ Return \/ Cancelled \/ Drained

\* runStep comes to a result by itself: a step that has a timeout does not
\* depend on its executor.
Progress(s) ==
    \/ Retry(s) \/ Rejects(s) \/ TimesOut(s)
    \/ s \notin definition.timeoutMs /\ (Succeeds(s) \/ Fails(s))

Next ==
    \/ Loop \/ Abort
    \/ \E s \in steps : \/ Succeeds(s) \/ Fails(s) \/ TimesOut(s) \/ Retry(s)
                        \/ Rejects(s) \/ LateReturn(s)

Spec == Init /\ [][Next]_vars

\* Promise reactions and timers run; an executor whose step has no timeout
\* returns (commands and agents are killed on abort), any other may hang.
AllSteps == UNION {d.steps : d \in Definitions}
FairSpec == Spec /\ WF_vars(Loop)
                 /\ \A s \in AllSteps : WF_vars(s \in steps /\ Progress(s))

-----------------------------------------------------------------------------
(* Properties *)

TypeOK ==
    /\ definition \in Definitions
    /\ results \in [steps -> {"none", "succeeded", "failed", "skipped"}]
    /\ {tainted, pending, inFlight} \subseteq SUBSET steps
    /\ pc \in {"loop", "race", "drain", "returned", "thrown"}
    /\ race \in {"pending", "resolved", "rejected"}
    /\ {cancelled, aborted} \subseteq BOOLEAN
    /\ status \in {"none", "succeeded", "failed", "cancelled"}
    /\ phase \in [steps -> {"idle", "executing", "backoff", "rejecting", "over"}]
    /\ attempt \in [steps -> Nat]
    /\ executors \subseteq steps \X Nat
    /\ inFlight = {s \in steps : phase[s] \in {"executing", "backoff", "rejecting"}}

\* The steps a failure reaches: those that failed for good, or could never
\* start, and from them along dependencies over steps that have no `when`.
reached ==
    LET closed(S) == \A s \in steps : \A d \in definition.dependsOn[s] :
                         d \in S /\ s \notin definition.when => s \in S
        cyclic == UNION {S \in SUBSET steps :
                           \A s \in S : definition.dependsOn[s] \cap S # {}}
        cause == {s \in steps : failedHard(s)} \cup (cyclic \cap tainted)
    IN  {s \in steps : \A S \in SUBSET steps : cause \subseteq S /\ closed(S) => s \in S}

\* No failure is masked and none is invented: a workflow whose steps have all
\* settled when it returns fails exactly when a failure reaches a terminal step
\* over dependents without a `when` of their own (docs/workflows.md, Overall status).
VerdictMatchesFailures ==
    [][pc # "returned" /\ pc' = "returned" /\ ~cancelled /\ settledSteps = steps
         => (status' = "failed" <=> terminalSteps \cap reached # {})]_vars

\* Success is never reported with a step of the workflow still running or never
\* started, in whatever order the last steps settle.
SuccessMeansSettled ==
    status = "succeeded" => inFlight = {} /\ settledSteps = steps

\* A cancelled workflow has awaited the steps it had started, and recorded every
\* step that never started as skipped (docs/workflows.md, Cancellation).
CancelledMeansQuiet ==
    status = "cancelled" =>
        \A s \in steps : phase[s] = "over" \/ (phase[s] = "idle" /\ results[s] = "skipped")

\* Once the signal has fired no executor is called any more, neither for a step
\* that becomes ready nor for a retry (engine.ts, Cancellation).
NoWorkAfterAbort == [][aborted => executors' \subseteq executors]_vars

\* The engine comes back, whatever hangs behind a timeout.
EngineReturns == <>(pc \in {"returned", "thrown"})

\* What the header of engine.ts and docs/workflows.md promise: the workflow
\* fails because some step failed.
FailureHasACause == status = "failed" => tainted # {}
=============================================================================
