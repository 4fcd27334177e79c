------------------------ MODULE WorkflowEngineProofs -------------------------
(***************************************************************************)
(* Safety of WorkflowEngine for every workflow, limit and environment, and *)
(* of Compiled: the graph of a workflow comes to the workflow's verdict.   *)
(***************************************************************************)
EXTENDS Compiled, FiniteSetTheorems, WellFoundedInduction, TLAPS

-----------------------------------------------------------------------------
(* Typing *)

LEMMA SettleType ==
    ASSUME TypeOK, NEW s \in steps, NEW result \in {"succeeded", "failed"},
           settle(s, result), UNCHANGED others
    PROVE  /\ results' \in [steps -> {"none", "succeeded", "failed", "skipped"}]
           /\ tainted' \subseteq steps
           /\ race' \in {"pending", "resolved", "rejected"}
           /\ phase' = [phase EXCEPT ![s] = "over"]
           /\ inFlight' = inFlight \ {s}
  BY DEF TypeOK, settle, wake, steps, others

\* What a step in flight does, seen from its phase.
LEMMA PhaseType ==
    ASSUME TypeOK, NEW s \in steps,
           NEW p \in {"idle", "executing", "backoff", "rejecting", "over"},
           phase' = [phase EXCEPT ![s] = p], UNCHANGED definition,
           inFlight' = IF p \in {"executing", "backoff", "rejecting"} THEN inFlight \cup {s}
                                                         ELSE inFlight \ {s}
    PROVE  /\ phase' \in [steps -> {"idle", "executing", "backoff", "rejecting", "over"}]
           /\ inFlight' = {r \in steps : phase'[r] \in {"executing", "backoff", "rejecting"}}
           /\ inFlight' \subseteq steps
  BY DEF TypeOK, steps

LEMMA LaunchType ==
    ASSUME TypeOK, NEW batch \in SUBSET pending, NEW holds, launch(batch, holds),
           UNCHANGED definition
    PROVE  /\ results' \in [steps -> {"none", "succeeded", "failed", "skipped"}]
           /\ tainted' \subseteq steps
           /\ phase' \in [steps -> {"idle", "executing", "backoff", "rejecting", "over"}]
           /\ attempt' \in [steps -> Nat]
           /\ executors' \subseteq steps \X Nat
           /\ inFlight' = {r \in steps : phase'[r] \in {"executing", "backoff", "rejecting"}}
<1> DEFINE eligible == {s \in batch : IF s \in definition.when THEN s \in holds
                                      ELSE dependenciesOk(s)}
           skip == batch \ eligible
<1>1. batch \subseteq steps /\ eligible \subseteq steps /\ skip \subseteq steps
  BY DEF TypeOK, steps
<1>2. PICK bad \in MayThrow(eligible) :
        /\ phase' = [s \in steps |-> IF s \in bad THEN "rejecting"
                                     ELSE IF s \in eligible THEN "executing" ELSE phase[s]]
        /\ executors' = executors \cup {<<s, 1>> : s \in eligible \ bad}
  BY DEF launch
<1>3. bad \subseteq eligible
  BY DEF MayThrow
<1>4. /\ inFlight' = inFlight \cup eligible
      /\ results' = [s \in steps |-> IF s \in skip THEN "skipped" ELSE results[s]]
      /\ tainted' = tainted \cup {s \in skip \ definition.when : causesTaint(s)}
      /\ attempt' = [s \in steps |-> IF s \in eligible THEN 1 ELSE attempt[s]]
  BY DEF launch
<1> HIDE DEF eligible, skip
<1>5. /\ results' \in [steps -> {"none", "succeeded", "failed", "skipped"}]
      /\ tainted' \subseteq steps
      /\ attempt' \in [steps -> Nat]
  BY <1>1, <1>4 DEF TypeOK
<1>6. phase' \in [steps -> {"idle", "executing", "backoff", "rejecting", "over"}]
  BY <1>1, <1>2, <1>3 DEF TypeOK
<1>7. executors' \subseteq steps \X Nat
  BY <1>1, <1>2, <1>3 DEF TypeOK
<1>8. inFlight' = {r \in steps : phase'[r] \in {"executing", "backoff", "rejecting"}}
  BY <1>1, <1>2, <1>3, <1>4 DEF TypeOK
<1> QED BY <1>5, <1>6, <1>7, <1>8

LEMMA LoopType ==
    ASSUME TypeOK, Loop
    PROVE  TypeOK'
<1>1. CASE Unresolved
  BY <1>1 DEF Unresolved, TypeOK, steps, task
<1>2. ASSUME NEW holds \in SUBSET definition.when, Launch(holds)
      PROVE  TypeOK'
  <2>1. toLaunch \subseteq pending
    BY DEF toLaunch, ready
  <2>2. launch(toLaunch, holds) /\ UNCHANGED definition
    BY <1>2 DEF Launch
  <2>3. pending' \subseteq steps /\ pc' \in {"loop", "race"} /\ race' \in {"pending", race}
    BY <1>2 DEF Launch, looping, TypeOK
  <2>4. UNCHANGED <<definition, cancelled, aborted, status>>
    BY <1>2 DEF Launch
  <2> QED BY <2>1, <2>2, <2>3, <2>4, LaunchType DEF TypeOK, steps
<1>3. ASSUME NEW holds \in SUBSET definition.when, NEW s \in definition.when,
             LaunchThrows(s, holds)
      PROVE  TypeOK'
  <2> DEFINE before == {r \in toLaunch : r < s}
  <2>1. before \subseteq pending
    BY DEF toLaunch, ready
  <2>2. launch(before, holds) /\ UNCHANGED definition
    BY <1>3 DEF LaunchThrows
  <2>3. pending' \subseteq steps /\ pc' = "thrown"
    BY <1>3 DEF LaunchThrows, TypeOK
  <2>4. UNCHANGED <<definition, race, cancelled, aborted, status>>
    BY <1>3 DEF LaunchThrows
  <2> HIDE DEF before
  <2> QED BY <2>1, <2>2, <2>3, <2>4, LaunchType DEF TypeOK, steps
<1>4. CASE Resume \/ Rethrow \/ Return \/ Cancelled
  BY <1>4 DEF Resume, Rethrow, Return, Cancelled, computeStatus, TypeOK, steps, task, outcome
<1>5. CASE Drained
  BY <1>5 DEF Drained, TypeOK, steps, task
<1> QED BY <1>1, <1>2, <1>3, <1>4, <1>5 DEF Loop

LEMMA AttemptFailedType ==
    ASSUME TypeOK, NEW s \in steps, phase[s] = "executing", attemptFailed(s), UNCHANGED others
    PROVE  /\ results' \in [steps -> {"none", "succeeded", "failed", "skipped"}]
           /\ tainted' \subseteq steps
           /\ race' \in {"pending", "resolved", "rejected"}
           /\ phase' \in [steps -> {"idle", "executing", "backoff", "rejecting", "over"}]
           /\ inFlight' = {r \in steps : phase'[r] \in {"executing", "backoff", "rejecting"}}
           /\ inFlight' \subseteq steps
<1>1. UNCHANGED definition
  BY DEF others
<1>2. CASE settle(s, "failed")
  BY <1>1, <1>2, SettleType, PhaseType
<1>3. CASE phase' = [phase EXCEPT ![s] = "backoff"] /\ UNCHANGED <<outcome, race>>
  <2>1. inFlight' = inFlight \cup {s}
    BY <1>3 DEF outcome, TypeOK
  <2>2. UNCHANGED <<results, tainted, race>>
    BY <1>3 DEF outcome
  <2> QED BY <1>1, <1>3, <2>1, <2>2, PhaseType DEF TypeOK
<1> QED BY <1>2, <1>3 DEF attemptFailed

LEMMA StepType ==
    ASSUME TypeOK, NEW s \in steps,
           Succeeds(s) \/ Fails(s) \/ TimesOut(s) \/ Retry(s) \/ Rejects(s) \/ LateReturn(s)
    PROVE  TypeOK'
<1>1. CASE Succeeds(s)
  <2>1. settle(s, "succeeded") /\ UNCHANGED others
    BY <1>1 DEF Succeeds
  <2> QED BY <1>1, <2>1, SettleType, PhaseType DEF Succeeds, others, TypeOK, steps
<1>2. CASE Fails(s)
  BY <1>2, AttemptFailedType DEF Fails, others, TypeOK, steps
<1>3. CASE TimesOut(s)
  BY <1>3, AttemptFailedType DEF TimesOut, others, TypeOK, steps
<1>4. CASE Retry(s)
  <2>1. CASE aborted
    BY <1>4, <2>1, SettleType, PhaseType DEF Retry, others, TypeOK, steps
  <2>2. CASE ~aborted
    <3>1. PICK bad \in MayThrow({s}) :
            /\ phase' = [phase EXCEPT ![s] = IF s \in bad THEN "rejecting" ELSE "executing"]
            /\ executors' = executors \cup {<<r, attempt[r] + 1>> : r \in {s} \ bad}
      BY <1>4, <2>2 DEF Retry
    <3>2. /\ attempt' = [attempt EXCEPT ![s] = @ + 1] /\ inFlight' = inFlight
          /\ UNCHANGED <<results, tainted, race>> /\ UNCHANGED others
      BY <1>4, <2>2 DEF Retry, outcome
    <3>3. inFlight' = inFlight \cup {s}
      BY <1>4, <3>2 DEF Retry, TypeOK
    <3>4. /\ phase' \in [steps -> {"idle", "executing", "backoff", "rejecting", "over"}]
          /\ inFlight' = {r \in steps : phase'[r] \in {"executing", "backoff", "rejecting"}}
      BY <3>1, <3>2, <3>3, PhaseType DEF others
    <3>5. attempt' \in [steps -> Nat] /\ executors' \subseteq steps \X Nat
      BY <3>1, <3>2 DEF TypeOK
    <3> QED BY <3>2, <3>4, <3>5 DEF others, TypeOK, steps
  <2> QED BY <2>1, <2>2
<1>5. CASE Rejects(s)
  <2>1. race' \in {"pending", "resolved", "rejected"}
    BY <1>5 DEF Rejects, wake, TypeOK
  <2> QED BY <1>5, <2>1, PhaseType DEF Rejects, others, TypeOK, steps
<1>6. CASE LateReturn(s)
  BY <1>6 DEF LateReturn, others, outcome, TypeOK, steps
<1> QED BY <1>1, <1>2, <1>3, <1>4, <1>5, <1>6

LEMMA TypingNext == TypeOK /\ [Next]_vars => TypeOK'
<1> SUFFICES ASSUME TypeOK, [Next]_vars PROVE TypeOK'
  OBVIOUS
<1>1. CASE Abort
  BY <1>1 DEF Abort, wake, outcome, task, TypeOK, steps
<1>2. CASE UNCHANGED vars
  BY <1>2 DEF vars, outcome, task, TypeOK, steps
<1> QED BY <1>1, <1>2, LoopType, StepType DEF Next

LEMMA TypingInit == Init => TypeOK
<1> SUFFICES ASSUME Init PROVE TypeOK
  OBVIOUS
<1>1. inFlight = {s \in steps : phase[s] \in {"executing", "backoff", "rejecting"}}
  BY DEF Init
<1>2. aborted \in BOOLEAN /\ cancelled \in BOOLEAN
  <2>1. CASE "abort" \in Env
    BY <2>1 DEF Init
  <2>2. CASE "abort" \notin Env
    BY <2>2 DEF Init
  <2> QED BY <2>1, <2>2
<1>3. /\ results \in [steps -> {"none", "succeeded", "failed", "skipped"}]
      /\ phase \in [steps -> {"idle", "executing", "backoff", "rejecting", "over"}]
      /\ attempt \in [steps -> Nat]
  BY DEF Init
<1> QED BY <1>1, <1>2, <1>3 DEF Init, TypeOK

\* Whatever the workflow and the order in which its steps settle, the engine's
\* tables keep their shape, and the steps in flight are those runStep is busy with.
THEOREM TypeCorrect == Spec => []TypeOK
  BY TypingInit, TypingNext, PTL DEF Spec

-----------------------------------------------------------------------------
(* Cancellation *)

\* The flag of the loop has caught up with the signal whenever the loop runs.
AbortSeen == pc = "loop" /\ aborted => cancelled

LEMMA AbortSeenNext == TypeOK /\ AbortSeen /\ [Next]_vars => AbortSeen'
<1> SUFFICES ASSUME TypeOK, AbortSeen, [Next]_vars PROVE AbortSeen'
  OBVIOUS
<1>1. CASE Loop
  <2>1. CASE Resume
    BY <2>1 DEF Resume, AbortSeen
  <2>2. CASE pc' # "loop"
    BY <2>2 DEF AbortSeen
  <2>3. CASE pc = "loop" /\ UNCHANGED <<aborted, cancelled>>
    BY <2>3 DEF AbortSeen
  <2> QED
    BY <1>1, <2>1, <2>2, <2>3 DEF Loop, Unresolved, Launch, LaunchThrows, Rethrow, Return,
                                  Cancelled, Drained, looping
<1>2. CASE Abort
  BY <1>2 DEF Abort, AbortSeen
<1>3. ASSUME NEW s \in steps,
             \/ Succeeds(s) \/ Fails(s) \/ TimesOut(s) \/ Retry(s) \/ Rejects(s) \/ LateReturn(s)
      PROVE  AbortSeen'
  BY <1>3 DEF Succeeds, Fails, TimesOut, Retry, Rejects, LateReturn, others, AbortSeen
<1>4. CASE UNCHANGED vars
  BY <1>4 DEF vars, AbortSeen
<1> QED BY <1>1, <1>2, <1>3, <1>4 DEF Next

\* No executor is called once the signal has fired: the loop has seen it before
\* it launches anything, and a step looks at it before every further attempt.
THEOREM Quiescence == Spec => NoWorkAfterAbort
<1>1. Init => AbortSeen
  BY DEF Init, AbortSeen
<1>2. TypeOK /\ AbortSeen /\ [Next]_vars => [aborted => executors' \subseteq executors]_vars
  <2> SUFFICES ASSUME AbortSeen, Next, aborted PROVE executors' \subseteq executors
    BY DEF vars
  <2>1. CASE Loop
    <3>1. ~looping
      BY DEF looping, AbortSeen
    <3> QED BY <2>1, <3>1 DEF Loop, Unresolved, Launch, LaunchThrows, Resume, Rethrow, Return,
                              Cancelled, Drained, task
  <2>2. CASE Abort
    BY <2>2 DEF Abort
  <2>3. ASSUME NEW s \in steps,
               \/ Succeeds(s) \/ Fails(s) \/ TimesOut(s) \/ Retry(s) \/ Rejects(s) \/ LateReturn(s)
        PROVE  executors' \subseteq executors
    BY <2>3 DEF Succeeds, Fails, TimesOut, Retry, Rejects, LateReturn
  <2> QED BY <2>1, <2>2, <2>3 DEF Next
<1> QED BY <1>1, <1>2, TypeCorrect, AbortSeenNext, PTL DEF Spec, NoWorkAfterAbort

\* A step waits to be launched, or runs, or has been judged; only the step whose
\* condition threw has none of these.
Accounted ==
    \A s \in steps :
        /\ s \in pending => phase[s] = "idle"
        /\ s \notin pending /\ phase[s] = "idle" => results[s] = "skipped" \/ pc = "thrown"

\* A cancelled engine is at rest.
AtRest ==
    status = "cancelled" =>
        pc = "returned" /\ inFlight = {} /\ \A s \in pending : results[s] = "skipped"

LEMMA AccountedLaunch ==
    ASSUME TypeOK, Accounted, NEW batch \in SUBSET pending, NEW holds, launch(batch, holds),
           NEW s \in steps
    PROVE  /\ s \notin batch => phase'[s] = phase[s] /\ results'[s] = results[s]
           /\ s \in batch => phase'[s] # "idle" \/ results'[s] = "skipped"
<1> DEFINE eligible == {r \in batch : IF r \in definition.when THEN r \in holds
                                      ELSE dependenciesOk(r)}
           skip == batch \ eligible
<1>1. PICK bad \in MayThrow(eligible) :
        phase' = [r \in steps |-> IF r \in bad THEN "rejecting"
                                  ELSE IF r \in eligible THEN "executing" ELSE phase[r]]
  BY DEF launch
<1>2. bad \subseteq eligible
  BY DEF MayThrow
<1>3. results' = [r \in steps |-> IF r \in skip THEN "skipped" ELSE results[r]]
  BY DEF launch
<1> QED BY <1>1, <1>2, <1>3

\* A step in flight keeps the accounts: it has left pending for good.
LEMMA AccountedStep ==
    ASSUME TypeOK, Accounted, NEW s \in steps,
           Succeeds(s) \/ Fails(s) \/ TimesOut(s) \/ Retry(s) \/ Rejects(s) \/ LateReturn(s)
    PROVE  Accounted'
<1>1. UNCHANGED <<definition, pending, pc>>
  BY DEF Succeeds, Fails, TimesOut, Retry, Rejects, LateReturn, others
<1>2. \/ UNCHANGED <<phase, results>>
      \/ /\ phase[s] # "idle" /\ phase'[s] # "idle"
         /\ \A r \in steps \ {s} : phase'[r] = phase[r] /\ results'[r] = results[r]
  BY DEF Succeeds, Fails, TimesOut, Retry, Rejects, LateReturn, attemptFailed, settle, outcome,
         TypeOK
<1> QED BY <1>1, <1>2 DEF Accounted, steps

LEMMA AccountedNext == TypeOK /\ Accounted /\ [Next]_vars => Accounted'
<1> SUFFICES ASSUME TypeOK, Accounted, [Next]_vars PROVE Accounted'
  OBVIOUS
<1>1. CASE Loop
  <2>1. CASE Unresolved
    BY <2>1 DEF Unresolved, looping, Accounted, TypeOK, steps, task
  <2>2. ASSUME NEW holds, Launch(holds)
        PROVE  Accounted'
    <3>1. toLaunch \in SUBSET pending /\ launch(toLaunch, holds)
      BY <2>2 DEF toLaunch, ready, Launch
    <3>2. pending' = pending \ toLaunch /\ pc' # "thrown" /\ pc # "thrown" /\ UNCHANGED definition
      BY <2>2 DEF Launch, looping
    <3> QED BY <3>1, <3>2, AccountedLaunch DEF Accounted, steps
  <2>3. ASSUME NEW holds, NEW s \in definition.when, LaunchThrows(s, holds)
        PROVE  Accounted'
    <3> DEFINE before == {r \in toLaunch : r < s}
    <3>1. before \in SUBSET pending /\ launch(before, holds)
      BY <2>3 DEF toLaunch, ready, LaunchThrows
    <3>2. pending' = pending \ (before \cup {s}) /\ pc' = "thrown" /\ UNCHANGED definition
      BY <2>3 DEF LaunchThrows
    <3> HIDE DEF before
    <3> QED BY <3>1, <3>2, AccountedLaunch DEF Accounted, steps
  <2>4. CASE Resume \/ Rethrow \/ Return \/ Cancelled
    BY <2>4 DEF Resume, Rethrow, Return, Cancelled, Accounted, steps, task, outcome
  <2>5. CASE Drained
    BY <2>5 DEF Drained, Accounted, steps, task
  <2> QED BY <1>1, <2>1, <2>2, <2>3, <2>4, <2>5 DEF Loop
<1>2. CASE Abort
  BY <1>2 DEF Abort, Accounted, steps, task, outcome
<1>3. CASE UNCHANGED vars
  BY <1>3 DEF vars, Accounted, steps, task, outcome
<1> QED BY <1>1, <1>2, <1>3, AccountedStep DEF Next

LEMMA AtRestNext == TypeOK /\ AtRest /\ [Next]_vars => AtRest'
<1> SUFFICES ASSUME TypeOK, AtRest, [Next]_vars PROVE AtRest'
  OBVIOUS
<1>1. CASE Drained
  BY <1>1 DEF Drained, AtRest, TypeOK
<1>2. CASE Loop /\ ~Drained
  <2>1. status # "cancelled"
    BY <1>2 DEF Loop, Unresolved, Launch, LaunchThrows, Resume, Rethrow, Return, Cancelled,
                looping, AtRest
  <2>2. computeStatus # "cancelled"
    BY DEF computeStatus
  <2> QED BY <1>2, <2>1, <2>2 DEF Loop, Unresolved, Launch, LaunchThrows, Resume, Rethrow,
                                  Return, Cancelled, AtRest
<1>3. CASE Abort
  BY <1>3 DEF Abort, AtRest, outcome
<1>4. ASSUME NEW s \in steps,
             \/ Succeeds(s) \/ Fails(s) \/ TimesOut(s) \/ Retry(s) \/ Rejects(s) \/ LateReturn(s)
      PROVE  AtRest'
  <2>1. CASE LateReturn(s)
    BY <2>1 DEF LateReturn, others, outcome, AtRest
  <2>2. CASE ~LateReturn(s)
    <3>1. s \in inFlight
      BY <1>4, <2>2 DEF Succeeds, Fails, TimesOut, Retry, Rejects, TypeOK
    <3>2. status' = status
      BY <1>4 DEF Succeeds, Fails, TimesOut, Retry, Rejects, LateReturn, others
    <3> QED BY <3>1, <3>2 DEF AtRest
  <2> QED BY <2>1, <2>2
<1>5. CASE UNCHANGED vars
  BY <1>5 DEF vars, AtRest, outcome
<1> QED BY <1>1, <1>2, <1>3, <1>4, <1>5 DEF Next

\* A cancelled workflow leaves nothing behind: every step it started is over, and
\* every other one is recorded as skipped.
THEOREM CancellationQuiet == Spec => []CancelledMeansQuiet
<1>1. Init => Accounted /\ AtRest
  BY DEF Init, Accounted, AtRest, steps
<1>2. TypeOK /\ Accounted /\ AtRest => CancelledMeansQuiet
  BY DEF TypeOK, Accounted, AtRest, CancelledMeansQuiet
<1> QED BY <1>1, <1>2, TypeCorrect, AccountedNext, AtRestNext, PTL DEF Spec

-----------------------------------------------------------------------------
(* Success *)

NoneRejected == \A s \in steps : phase[s] # "rejecting"

\* Without a throwing expression a launched step has a result or is in flight.
NothingLost == \A s \in steps : s \notin pending => results[s] # "none" \/ s \in inFlight

\* What depends on steps whose results were lost: given up, all of it, as skipped for a
\* failure.
GivenUp(C) ==
    /\ \A s \in steps : definition.dependsOn[s] \cap C # {} => s \in C
    /\ \A s \in steps : results[s] = "none" => s \in C
    /\ \A s \in C : results[s] = "none" \/ (results[s] = "skipped" /\ s \in tainted)

\* A step is launched after everything it depends on had settled, or nothing is left to
\* launch but what was given up.
InOrder ==
    /\ \A s \in steps :
         /\ s \in pending /\ pc # "returned" => results[s] = "none"
         /\ s \in inFlight => results[s] = "none" /\ s \notin pending
    /\ \/ \A s \in steps : s \notin pending => depsSettled(s)
       \/ pending = {} /\ inFlight = {} /\ \E C \in SUBSET steps : GivenUp(C)

\* Success was computed from the results of all steps.
Earned ==
    status = "succeeded" => pc = "returned" /\ inFlight = {} /\ settledSteps = steps

\* Results are never taken back.
LEMMA ResultsKept ==
    ASSUME TypeOK, [Next]_vars, NEW s \in steps, results[s] # "none"
    PROVE  results'[s] # "none"
<1>1. CASE Loop
  <2>1. ASSUME NEW batch, NEW holds, launch(batch, holds)
        PROVE  results'[s] # "none"
    BY <2>1 DEF launch
  <2> QED BY <1>1, <2>1 DEF Loop, Unresolved, Launch, LaunchThrows, Resume, Rethrow, Return,
                            Cancelled, Drained, outcome
<1>2. CASE Abort
  BY <1>2 DEF Abort, outcome
<1>3. ASSUME NEW r \in steps,
             \/ Succeeds(r) \/ Fails(r) \/ TimesOut(r) \/ Retry(r) \/ Rejects(r) \/ LateReturn(r)
      PROVE  results'[s] # "none"
  BY <1>3 DEF Succeeds, Fails, TimesOut, Retry, Rejects, LateReturn, attemptFailed, settle,
              outcome, TypeOK
<1>4. CASE UNCHANGED vars
  BY <1>4 DEF vars, outcome
<1> QED BY <1>1, <1>2, <1>3, <1>4 DEF Next

LEMMA Dependencies == TypeOK => \A s \in steps : definition.dependsOn[s] \subseteq steps
  BY WorkflowAssumption DEF TypeOK, steps, DefinitionAssumption

LEMMA SettledKept ==
    ASSUME TypeOK, [Next]_vars, UNCHANGED definition
    PROVE  /\ settledSteps \subseteq settledSteps'
           /\ \A s \in steps : depsSettled(s) => depsSettled(s)'
  BY ResultsKept DEF settledSteps, depsSettled, steps

LEMMA NoneRejectedNext ==
    ASSUME "throw" \notin Env, TypeOK, NoneRejected, [Next]_vars
    PROVE  NoneRejected'
<1>1. \A S : MayThrow(S) = {{}}
  BY DEF MayThrow
<1>2. ASSUME NEW batch \in SUBSET steps, NEW holds, launch(batch, holds), UNCHANGED definition
      PROVE  NoneRejected'
  <2>1. PICK bad \in {{}} : \E eligible :
          phase' = [s \in steps |-> IF s \in bad THEN "rejecting"
                                    ELSE IF s \in eligible THEN "executing" ELSE phase[s]]
    BY <1>1, <1>2 DEF launch
  <2> QED BY <1>2, <2>1 DEF NoneRejected, steps
<1>3. toLaunch \subseteq steps
  BY DEF toLaunch, ready, TypeOK
<1>4. CASE Loop
  BY <1>2, <1>3, <1>4 DEF Loop, Unresolved, Launch, LaunchThrows, Resume, Rethrow, Return,
                          Cancelled, Drained, NoneRejected, steps, task
<1>5. CASE Abort \/ UNCHANGED vars
  BY <1>5 DEF Abort, vars, task, NoneRejected, steps
<1>6. ASSUME NEW s \in steps,
             \/ Succeeds(s) \/ Fails(s) \/ TimesOut(s) \/ Retry(s) \/ Rejects(s) \/ LateReturn(s)
      PROVE  NoneRejected'
  <2>1. UNCHANGED definition
    BY <1>6 DEF Succeeds, Fails, TimesOut, Retry, Rejects, LateReturn, others
  <2>2. \/ UNCHANGED phase
        \/ \E p \in {"executing", "backoff", "over"} : phase' = [phase EXCEPT ![s] = p]
    BY <1>1, <1>6 DEF Succeeds, Fails, TimesOut, Retry, Rejects, LateReturn, attemptFailed, settle
  <2> QED BY <2>1, <2>2 DEF NoneRejected, TypeOK, steps
<1> QED BY <1>4, <1>5, <1>6 DEF Next

LEMMA NothingLostNext ==
    ASSUME "throw" \notin Env, TypeOK, NoneRejected, InOrder, NothingLost, [Next]_vars
    PROVE  NothingLost'
<1>1. UNCHANGED definition
  BY DEF Next, Loop, Unresolved, Launch, LaunchThrows, Resume, Rethrow, Return, Cancelled, Drained,
         Abort, Succeeds, Fails, TimesOut, Retry, Rejects, LateReturn, others, vars
<1>2. CASE Unresolved
  BY <1>1, <1>2 DEF Unresolved, NothingLost, steps
<1>3. ASSUME NEW holds, Launch(holds)
      PROVE  NothingLost'
  <2>1. /\ toLaunch \subseteq pending /\ launch(toLaunch, holds)
        /\ pending' = pending \ toLaunch
    BY <1>3 DEF toLaunch, ready, Launch
  <2>2. PICK eligible \in SUBSET toLaunch :
          /\ inFlight' = inFlight \cup eligible
          /\ results' = [s \in steps |-> IF s \in toLaunch \ eligible THEN "skipped" ELSE results[s]]
    BY <2>1 DEF launch
  <2> QED BY <1>1, <2>1, <2>2 DEF NothingLost, steps
<1>4. CASE Resume \/ Rethrow \/ Return \/ Cancelled
  BY <1>1, <1>4 DEF Resume, Rethrow, Return, Cancelled, outcome, NothingLost, steps
<1>5. CASE Drained
  BY <1>1, <1>5 DEF Drained, NothingLost, steps
<1>6. CASE Abort \/ UNCHANGED vars
  BY <1>1, <1>6 DEF Abort, vars, outcome, NothingLost, steps
<1>7. ASSUME NEW s \in steps,
             Succeeds(s) \/ Fails(s) \/ TimesOut(s) \/ Retry(s) \/ LateReturn(s)
      PROVE  NothingLost'
  <2>1. UNCHANGED pending
    BY <1>7 DEF Succeeds, Fails, TimesOut, Retry, LateReturn, others
  <2>2. \/ UNCHANGED <<results, inFlight>>
        \/ /\ inFlight' = inFlight \ {s}
           /\ \E r \in {"succeeded", "failed"} : results' = [results EXCEPT ![s] = r]
    BY <1>7 DEF Succeeds, Fails, TimesOut, Retry, LateReturn, attemptFailed, settle, outcome
  <2> QED BY <1>1, <2>1, <2>2 DEF NothingLost, TypeOK, steps
<1>8. \A s \in steps : ~Rejects(s)
  BY DEF NoneRejected, Rejects
<1>9. \A s, holds : ~LaunchThrows(s, holds)
  BY DEF LaunchThrows
<1> QED
  BY <1>2, <1>3, <1>4, <1>5, <1>6, <1>7, <1>8, <1>9 DEF Next, Loop

\* The loop launches ready steps, also the one that throws in its midst.
LEMMA InOrderLaunch ==
    ASSUME TypeOK, InOrder, [Next]_vars, UNCHANGED definition,
           NEW batch \in SUBSET toLaunch, NEW holds, NEW gone \in SUBSET toLaunch, looping,
           launch(batch, holds), batch \subseteq gone, pending' = pending \ gone,
           pc' # "returned"
    PROVE  InOrder'
<1>1. /\ toLaunch \subseteq pending /\ \A s \in toLaunch : depsSettled(s)
      /\ pc # "returned" /\ pending # {}
  BY DEF toLaunch, ready, looping
<1>2. PICK eligible \in SUBSET batch :
        /\ inFlight' = inFlight \cup eligible
        /\ results' = [s \in steps |-> IF s \in batch \ eligible THEN "skipped" ELSE results[s]]
  BY DEF launch
<1>3. \A s \in steps : depsSettled(s) => depsSettled(s)'
  BY SettledKept
<1>4. \A s \in steps : s \notin pending => depsSettled(s)
  BY <1>1 DEF InOrder
<1>5. (\A s \in steps : s \notin pending => depsSettled(s))'
  BY <1>1, <1>3, <1>4 DEF steps
<1>6. (\A s \in steps :
         /\ s \in pending /\ pc # "returned" => results[s] = "none"
         /\ s \in inFlight => results[s] = "none" /\ s \notin pending)'
  BY <1>1, <1>2 DEF InOrder, steps
<1> QED BY <1>5, <1>6 DEF InOrder

\* What is given up was neither settled nor can anything depend on it that is not.
LEMMA UnresolvedGivesUp ==
    ASSUME TypeOK, InOrder, [Next]_vars, UNCHANGED definition, Unresolved
    PROVE  InOrder'
<1>0. PICK C : C = {s \in steps : results[s] = "none"}
  OBVIOUS
<1>1. \A s \in steps : s \notin pending => depsSettled(s)
  BY DEF InOrder, Unresolved, looping
<1>2. \A s \in pending : results[s] = "none"
  BY DEF InOrder, Unresolved, looping, TypeOK
<1>3. \A s \in steps : definition.dependsOn[s] \cap C # {} => s \in C
  BY <1>0, <1>1, <1>2 DEF depsSettled, settledSteps
<1>4. GivenUp(C)'
  BY <1>0, <1>2, <1>3 DEF GivenUp, Unresolved, TypeOK, steps
<1>5. pending' = {} /\ inFlight' = {} /\ C \in SUBSET steps'
  BY <1>0 DEF Unresolved, steps
<1> QED BY <1>4, <1>5 DEF InOrder

LEMMA InOrderNext ==
    ASSUME TypeOK, InOrder, [Next]_vars
    PROVE  InOrder'
<1>1. UNCHANGED definition
  BY DEF Next, Loop, Unresolved, Launch, LaunchThrows, Resume, Rethrow, Return, Cancelled, Drained,
         Abort, Succeeds, Fails, TimesOut, Retry, Rejects, LateReturn, others, vars
<1>2. \A s \in steps : depsSettled(s) => depsSettled(s)'
  BY <1>1, SettledKept
<1>3. ASSUME UNCHANGED <<results, tainted>>, pending' = pending, inFlight' \subseteq inFlight,
             pc = "returned" => pc' = "returned"
      PROVE  InOrder'
  <2>1. \A C \in SUBSET steps : GivenUp(C) => GivenUp(C)'
    BY <1>1, <1>3 DEF GivenUp, steps
  <2> QED BY <1>1, <1>2, <1>3, <2>1 DEF InOrder, steps
<1>4. ASSUME NEW holds, Launch(holds)
      PROVE  InOrder'
  BY <1>1, <1>4, InOrderLaunch DEF Launch, looping
<1>5. ASSUME NEW holds, NEW s \in definition.when, LaunchThrows(s, holds)
      PROVE  InOrder'
  <2> DEFINE before == {r \in toLaunch : r < s}
  <2>1. /\ before \in SUBSET toLaunch /\ before \cup {s} \in SUBSET toLaunch /\ looping
        /\ launch(before, holds) /\ pending' = pending \ (before \cup {s}) /\ pc' # "returned"
    BY <1>5 DEF LaunchThrows
  <2> HIDE DEF before
  <2> QED BY <1>1, <2>1, InOrderLaunch
<1>6. CASE Resume \/ Rethrow \/ Return \/ Cancelled
  BY <1>3, <1>6 DEF Resume, Rethrow, Return, Cancelled, outcome
<1>7. CASE Drained
  <2>1. CASE \A s \in steps : s \notin pending => depsSettled(s)
    BY <1>1, <1>2, <1>7, <2>1 DEF Drained, InOrder, steps
  <2>2. CASE pending = {}
    BY <1>3, <1>7, <2>2 DEF Drained, TypeOK
  <2> QED BY <2>1, <2>2 DEF InOrder
<1>8. CASE Abort \/ UNCHANGED vars
  BY <1>3, <1>8 DEF Abort, vars, outcome
<1>9. ASSUME NEW s \in steps,
             \/ Succeeds(s) \/ Fails(s) \/ TimesOut(s) \/ Retry(s) \/ Rejects(s) \/ LateReturn(s)
      PROVE  InOrder'
  <2>1. UNCHANGED <<pending, pc>>
    BY <1>9 DEF Succeeds, Fails, TimesOut, Retry, Rejects, LateReturn, others
  <2>2. CASE UNCHANGED results
    <3>1. UNCHANGED tainted /\ inFlight' \subseteq inFlight
      BY <1>9, <2>2 DEF Succeeds, Fails, TimesOut, Retry, Rejects, LateReturn, attemptFailed,
                        settle, outcome, TypeOK, InOrder
    <3> QED BY <1>3, <2>1, <2>2, <3>1
  <2>3. CASE ~UNCHANGED results
    <3>1. /\ inFlight' = inFlight \ {s} /\ s \in inFlight
          /\ \E r \in {"succeeded", "failed"} : results' = [results EXCEPT ![s] = r]
      BY <1>9, <2>3 DEF Succeeds, Fails, TimesOut, Retry, Rejects, LateReturn, attemptFailed,
                        settle, outcome, TypeOK
    <3>2. \A r \in steps : r \notin pending => depsSettled(r)
      BY <3>1 DEF InOrder
    <3> QED BY <1>1, <1>2, <2>1, <3>1, <3>2 DEF InOrder, TypeOK, steps
  <2> QED BY <2>2, <2>3
<1> QED
  BY <1>4, <1>5, <1>6, <1>7, <1>8, <1>9, UnresolvedGivesUp, <1>1 DEF Next, Loop

\* The workflow at hand is one whose steps can all become ready, or no step was lost.
Recovers == NothingLost \/ Acyclic(definition)

\* Computing success needs a result of every step: of a terminal one by the
\* computation itself, of any other because a dependent was launched; and what was given
\* up has a terminal step.
LEMMA SuccessSettled ==
    ASSUME TypeOK, InOrder, Recovers, pending = {}, computeStatus = "succeeded"
    PROVE  inFlight = {} /\ settledSteps = steps
<1>1. \A s \in terminalSteps : results[s] # "none" /\ ~(results[s] = "skipped" /\ s \in tainted)
  BY DEF computeStatus
<1>2. CASE \A s \in steps : s \notin pending => depsSettled(s)
  <2>1. \A s \in steps \ terminalSteps : results[s] # "none"
    BY <1>2 DEF terminalSteps, depsSettled, settledSteps
  <2>2. \A s \in steps : results[s] # "none"
    BY <1>1, <2>1
  <2> QED BY <2>2 DEF InOrder, settledSteps, TypeOK
<1>3. CASE inFlight = {} /\ \E C \in SUBSET steps : GivenUp(C)
  <2>1. PICK C \in SUBSET steps : GivenUp(C)
    BY <1>3
  <2>2. ASSUME Acyclic(definition), C # {}
        PROVE  FALSE
    <3>1. PICK s \in C : \A t \in C : s \notin definition.dependsOn[t]
      BY <2>2 DEF Acyclic, steps
    <3>2. \A t \in steps : s \notin definition.dependsOn[t]
      BY <2>1, <3>1 DEF GivenUp
    <3>3. s \in terminalSteps
      BY <2>1, <3>2 DEF terminalSteps
    <3> QED BY <1>1, <2>1, <3>3 DEF GivenUp
  <2>3. \A s \in steps : results[s] # "none"
    BY <1>3, <2>1, <2>2 DEF GivenUp, Recovers, NothingLost
  <2> QED BY <1>3, <2>3 DEF settledSteps
<1> QED BY <1>2, <1>3 DEF InOrder

LEMMA EarnedNext ==
    ASSUME TypeOK, InOrder, Recovers, Earned, [Next]_vars
    PROVE  Earned'
<1>1. UNCHANGED definition
  BY DEF Next, Loop, Unresolved, Launch, LaunchThrows, Resume, Rethrow, Return, Cancelled, Drained,
         Abort, Succeeds, Fails, TimesOut, Retry, Rejects, LateReturn, others, vars
<1>2. settledSteps \subseteq settledSteps'
  BY <1>1, SettledKept
<1>3. settledSteps' \subseteq steps /\ steps' = steps
  BY <1>1 DEF settledSteps, steps
<1>4. CASE Return
  BY <1>2, <1>3, <1>4, SuccessSettled DEF Return, outcome, Earned
<1>5. CASE Loop /\ ~Return
  <2>1. status # "succeeded"
    BY <1>5 DEF Loop, Unresolved, Launch, LaunchThrows, Resume, Rethrow, Cancelled, Drained,
                looping, Earned
  <2> QED BY <1>5, <2>1 DEF Loop, Unresolved, Launch, LaunchThrows, Resume, Rethrow, Cancelled,
                            Drained, Earned
<1>6. CASE Abort \/ UNCHANGED vars
  BY <1>2, <1>3, <1>6 DEF Abort, vars, outcome, Earned
<1>7. ASSUME NEW s \in steps,
             \/ Succeeds(s) \/ Fails(s) \/ TimesOut(s) \/ Retry(s) \/ Rejects(s) \/ LateReturn(s)
      PROVE  Earned'
  <2>1. UNCHANGED <<status, pc>>
    BY <1>7 DEF Succeeds, Fails, TimesOut, Retry, Rejects, LateReturn, others
  <2>2. UNCHANGED inFlight \/ s \in inFlight
    BY <1>7 DEF Succeeds, Fails, TimesOut, Retry, Rejects, LateReturn, outcome, TypeOK
  <2> QED BY <1>2, <1>3, <2>1, <2>2 DEF Earned
<1> QED BY <1>4, <1>5, <1>6, <1>7 DEF Next

\* SuccessMeansSettled: a workflow never reports success while a step still runs or was
\* never judged: one whose steps can be ordered whatever its expressions throw and whichever
\* results are lost thereby, and any other as long as none throws.
THEOREM SuccessIsEarned ==
    ASSUME "throw" \notin Env \/ \A d \in Definitions : Acyclic(d)
    PROVE  Spec => []SuccessMeansSettled
<1> DEFINE Whole == "throw" \notin Env => NoneRejected /\ NothingLost
<1>1. Init => Whole /\ InOrder /\ Earned
  BY DEF Init, NoneRejected, NothingLost, InOrder, Earned
<1>2. TypeOK /\ Whole => Recovers
  BY DEF Recovers, TypeOK
<1>3. TypeOK /\ Whole /\ InOrder /\ Earned /\ [Next]_vars => (Whole /\ InOrder /\ Earned)'
  BY <1>2, NoneRejectedNext, NothingLostNext, InOrderNext, EarnedNext
<1>4. Earned => SuccessMeansSettled
  BY DEF Earned, SuccessMeansSettled
<1> QED BY <1>1, <1>3, <1>4, TypeCorrect, PTL DEF Spec

-----------------------------------------------------------------------------
(* Failure *)

\* A failure is passed on to whatever depends on one of S without a `when` of its own.
PassedOn(S) ==
    \A s \in steps : \A d \in definition.dependsOn[s] : d \in S /\ s \notin definition.when => s \in S

\* Steps of which each waits for another one.
Knot(S) == \A s \in S : definition.dependsOn[s] \cap S # {}

\* S holds all that failed by itself or could never start.
HoldsCauses(S) ==
    /\ \A s \in steps : failedHard(s) => s \in S
    /\ \A K \in SUBSET steps : Knot(K) => K \cap tainted \subseteq S

\* The taint is the failures and what they have reached of the steps judged so far.
TaintIsEarned ==
    /\ \A s \in steps : failedHard(s) => s \in tainted
    /\ \A s \in tainted : failedHard(s) \/ results[s] = "skipped"
    /\ \A s \in steps \ pending : \A d \in definition.dependsOn[s] :
         d \in tainted /\ s \notin definition.when => s \in tainted
    /\ \A S \in SUBSET steps : HoldsCauses(S) /\ PassedOn(S) => tainted \subseteq S

\* As long as the workflow is neither cancelled in the end nor left by an exception, and
\* every step is accounted for.
AsPlanned == pc # "thrown" /\ (pc = "returned" => ~cancelled) /\ NothingLost
Tainted == AsPlanned => TaintIsEarned

LEMMA ReachedIs ==
    ASSUME NEW s \in steps
    PROVE  s \in reached <=> \A S \in SUBSET steps : HoldsCauses(S) /\ PassedOn(S) => s \in S
<1> DEFINE cyclic == UNION {S \in SUBSET steps : Knot(S)}
           cause == {r \in steps : failedHard(r)} \cup (cyclic \cap tainted)
<1>1. reached = {r \in steps : \A S \in SUBSET steps : cause \subseteq S /\ PassedOn(S) => r \in S}
  BY DEF reached, Knot, PassedOn
<1>2. ASSUME NEW S \in SUBSET steps
      PROVE  cause \subseteq S <=> HoldsCauses(S)
  BY DEF HoldsCauses
<1> HIDE DEF cause
<1> QED BY <1>1, <1>2

\* The first of some steps, in the order of the definition.
LEMMA FirstStep ==
    ASSUME NEW T \in SUBSET Nat, T # {}
    PROVE  \E s \in T : \A r \in T : ~(r < s)
<1>1. \A m, n \in Nat : <<m, n>> \in OpToRel(<, Nat) <=> m < n
  BY DEF OpToRel
<1>2. PICK s \in T : \A r \in T : <<r, s>> \notin OpToRel(<, Nat)
  BY NatLessThanWellFounded, WFMin, Zenon
<1> QED BY <1>1, <1>2

\* A step whose result was lost never has one.
LEMMA LostForGood ==
    ASSUME TypeOK, [Next]_vars, UNCHANGED definition, NothingLost'
    PROVE  NothingLost
<1> SUFFICES ASSUME NEW s \in steps, s \notin pending, results[s] = "none", s \notin inFlight
             PROVE  s \notin pending' /\ results'[s] = "none" /\ s \notin inFlight'
  BY DEF NothingLost, steps
<1>1. ASSUME NEW batch \in SUBSET pending, NEW holds, launch(batch, holds)
      PROVE  results'[s] = "none" /\ s \notin inFlight'
  BY <1>1 DEF launch
<1>2. toLaunch \subseteq pending
  BY DEF toLaunch, ready
<1>3. CASE Loop
  BY <1>1, <1>2, <1>3 DEF Loop, Unresolved, Launch, LaunchThrows, Resume, Rethrow, Return,
                          Cancelled, Drained, outcome
<1>4. CASE Abort \/ UNCHANGED vars
  BY <1>4 DEF Abort, vars, outcome
<1>5. ASSUME NEW r \in steps,
             \/ Succeeds(r) \/ Fails(r) \/ TimesOut(r) \/ Retry(r) \/ Rejects(r) \/ LateReturn(r)
      PROVE  s \notin pending' /\ results'[s] = "none" /\ s \notin inFlight'
  <2>1. UNCHANGED pending
    BY <1>5 DEF Succeeds, Fails, TimesOut, Retry, Rejects, LateReturn, others
  <2>2. r = s => UNCHANGED <<results, inFlight>>
    BY <1>5 DEF Succeeds, Fails, TimesOut, Retry, Rejects, LateReturn, outcome, TypeOK
  <2>3. r # s => results'[s] = results[s] /\ inFlight' \subseteq inFlight
    BY <1>5 DEF Succeeds, Fails, TimesOut, Retry, Rejects, LateReturn, attemptFailed, settle,
                outcome, TypeOK
  <2> QED BY <2>1, <2>2, <2>3
<1> QED BY <1>3, <1>4, <1>5 DEF Next

\* Causes are never taken back: what holds those of the next state holds those of this one.
LEMMA CausesKept ==
    ASSUME UNCHANGED definition, tainted \subseteq tainted',
           \A s \in steps : results[s] # "none" => results'[s] = results[s],
           NEW S \in SUBSET steps, HoldsCauses(S)'
    PROVE  HoldsCauses(S)
<1>1. \A s \in steps : failedHard(s) => failedHard(s)'
  BY DEF failedHard
<1>2. \A K : Knot(K) <=> Knot(K)'
  BY DEF Knot
<1> QED BY <1>1, <1>2 DEF HoldsCauses, steps

\* Steps are judged by results that are there to stay.
LEMMA TaintedLaunch ==
    ASSUME TypeOK, InOrder, TaintIsEarned, NEW holds, Launch(holds)
    PROVE  TaintIsEarned'
<1>1. /\ toLaunch \subseteq pending /\ \A s \in toLaunch : depsSettled(s)
      /\ pc # "returned" /\ pending # {} /\ UNCHANGED definition
      /\ launch(toLaunch, holds) /\ pending' = pending \ toLaunch
  BY DEF Launch, toLaunch, ready, looping
<1> DEFINE eligible == {s \in toLaunch : IF s \in definition.when THEN s \in holds
                                         ELSE dependenciesOk(s)}
           skip == toLaunch \ eligible
           new == {s \in skip \ definition.when : causesTaint(s)}
<1>2. /\ results' = [s \in steps |-> IF s \in skip THEN "skipped" ELSE results[s]]
      /\ tainted' = tainted \cup new
  BY <1>1 DEF launch
<1>3. \A s \in skip : results[s] = "none"
  BY <1>1 DEF InOrder, TypeOK
<1>4. \A s \in steps \ pending : depsSettled(s)
  BY <1>1 DEF InOrder
<1>5. \A s \in steps \ pending' : \A d \in definition.dependsOn[s] : d \notin skip
  BY <1>1, <1>3, <1>4 DEF depsSettled, settledSteps
<1>6. /\ skip \subseteq steps /\ new \subseteq skip /\ tainted \subseteq steps
      /\ \A s \in toLaunch \ definition.when : ~dependenciesOk(s) => s \in skip
      /\ \A s \in skip \ definition.when : causesTaint(s) => s \in new
      /\ \A s \in new : s \notin definition.when /\ causesTaint(s)
  BY <1>1 DEF TypeOK, steps
<1> HIDE DEF eligible, skip, new
<1>7. \A s \in steps : failedHard(s)' <=> failedHard(s)
  BY <1>1, <1>2, <1>3, <1>6 DEF failedHard, TypeOK, steps
<1>8. (\A s \in steps : failedHard(s) => s \in tainted)'
  BY <1>1, <1>2, <1>7 DEF TaintIsEarned, steps
<1>9. (\A s \in tainted : failedHard(s) \/ results[s] = "skipped")'
  BY <1>2, <1>3, <1>6, <1>7 DEF TaintIsEarned, TypeOK, steps
<1>10. ASSUME NEW s \in steps \ pending', NEW d \in definition.dependsOn[s],
              d \in tainted', s \notin definition.when
       PROVE  s \in tainted'
  <2>1. d \in tainted
    BY <1>2, <1>5, <1>6, <1>10
  <2>2. CASE s \notin pending
    BY <1>2, <1>10, <2>1, <2>2 DEF TaintIsEarned
  <2>3. CASE s \in toLaunch
    <3>1. ~dependencyOk(d) /\ causesTaint(s)
      BY <1>10, <2>1 DEF TaintIsEarned, dependencyOk, causesTaint, failedHard
    <3> QED BY <1>2, <1>6, <1>10, <2>3, <3>1 DEF dependenciesOk
  <2> QED BY <1>1, <1>10, <2>2, <2>3
<1>11. ASSUME NEW S \in SUBSET steps, HoldsCauses(S)', PassedOn(S)'
       PROVE  tainted' \subseteq S
  <2>1. PassedOn(S)
    BY <1>1, <1>11 DEF PassedOn, steps
  <2>2. HoldsCauses(S)
    BY <1>1, <1>2, <1>3, <1>11, CausesKept DEF TypeOK
  <2>3. tainted \subseteq S
    BY <2>1, <2>2 DEF TaintIsEarned
  <2>4. ASSUME NEW s \in new
        PROVE  s \in S
    <3>1. PICK d \in definition.dependsOn[s] : failedHard(d) \/ d \in tainted
      BY <1>6, <2>4 DEF causesTaint
    <3>2. s \in steps /\ d \in steps /\ s \notin definition.when
      BY <1>6, <2>4, Dependencies
    <3> QED BY <2>1, <2>2, <2>3, <3>1, <3>2 DEF HoldsCauses, PassedOn
  <2> QED BY <1>2, <2>3, <2>4
<1> QED BY <1>1, <1>8, <1>9, <1>10, <1>11 DEF TaintIsEarned, steps

\* What is left when nothing is ready and nothing runs is a knot.
LEMMA LeftIsAKnot ==
    ASSUME TypeOK, NothingLost, Unresolved
    PROVE  Knot(pending)
<1>1. inFlight = {} /\ toLaunch = {} /\ pending \subseteq steps
  BY DEF Unresolved, TypeOK
<1>2. steps \subseteq Nat
  BY WorkflowAssumption DEF TypeOK, steps, DefinitionAssumption
<1>3. capacity = concurrencyLimit /\ concurrencyLimit \in Nat \ {0}
  BY <1>1, FS_EmptySet, WorkflowAssumption DEF capacity
<1>4. ready = {}
  <2> SUFFICES ASSUME ready # {} PROVE FALSE
    OBVIOUS
  <2>1. PICK s \in ready : \A r \in ready : ~(r < s)
    BY <1>1, <1>2, FirstStep DEF ready
  <2>2. {r \in ready : r < s} = {}
    BY <2>1
  <2>3. s \in toLaunch
    BY <1>3, <2>2, FS_EmptySet DEF toLaunch
  <2> QED BY <1>1, <2>3
<1> SUFFICES ASSUME NEW s \in pending PROVE definition.dependsOn[s] \cap pending # {}
  BY DEF Knot
<1>5. PICK d \in definition.dependsOn[s] : d \notin settledSteps
  BY <1>4 DEF ready, depsSettled
<1>6. d \in steps /\ results[d] = "none"
  BY <1>1, <1>5, Dependencies DEF settledSteps
<1> QED BY <1>1, <1>5, <1>6 DEF NothingLost

LEMMA TaintedUnresolved ==
    ASSUME TypeOK, InOrder, NothingLost, TaintIsEarned, Unresolved
    PROVE  TaintIsEarned'
<1>1. /\ pending # {} /\ pending \subseteq steps /\ pending' = {} /\ UNCHANGED definition
      /\ tainted' = tainted \cup pending
      /\ results' = [s \in steps |-> IF s \in pending THEN "skipped" ELSE results[s]]
      /\ \A s \in pending : results[s] = "none"
  BY DEF Unresolved, looping, TypeOK, InOrder
<1>2. \A s \in steps \ pending : depsSettled(s)
  BY <1>1 DEF InOrder
<1>3. \A s \in steps \ pending : \A d \in definition.dependsOn[s] : d \notin pending
  BY <1>1, <1>2 DEF depsSettled, settledSteps
<1>4. \A s \in steps : failedHard(s)' <=> failedHard(s)
  BY <1>1 DEF failedHard
<1>5. (\A s \in steps : failedHard(s) => s \in tainted)'
  BY <1>1, <1>4 DEF TaintIsEarned, steps
<1>6. (\A s \in tainted : failedHard(s) \/ results[s] = "skipped")'
  BY <1>1, <1>4 DEF TaintIsEarned, TypeOK, steps
<1>7. ASSUME NEW s \in steps, NEW d \in definition.dependsOn[s],
             d \in tainted', s \notin definition.when
      PROVE  s \in tainted'
  BY <1>1, <1>3, <1>7 DEF TaintIsEarned
<1>8. ASSUME NEW S \in SUBSET steps, HoldsCauses(S)', PassedOn(S)'
      PROVE  tainted' \subseteq S
  <2>1. PassedOn(S)
    BY <1>1, <1>8 DEF PassedOn, steps
  <2>2. HoldsCauses(S)
    BY <1>1, <1>8, CausesKept
  <2>3. pending \subseteq S
    BY <1>1, <1>8, LeftIsAKnot DEF HoldsCauses, Knot, steps
  <2> QED BY <1>1, <2>1, <2>2, <2>3 DEF TaintIsEarned
<1> QED BY <1>1, <1>5, <1>6, <1>7, <1>8 DEF TaintIsEarned, steps

LEMMA TaintedSettle ==
    ASSUME TypeOK, InOrder, TaintIsEarned, UNCHANGED <<definition, pending>>,
           NEW s \in inFlight, NEW result \in {"succeeded", "failed"},
           results' = [results EXCEPT ![s] = result],
           tainted' = IF result = "failed" /\ s \notin definition.continueOnFailure
                      THEN tainted \cup {s} ELSE tainted
    PROVE  TaintIsEarned'
<1>1. s \in steps /\ s \notin pending /\ results[s] = "none" /\ tainted \subseteq steps
  BY DEF TypeOK, InOrder
<1>2. \A r \in steps \ pending : s \notin definition.dependsOn[r]
  BY <1>1 DEF InOrder, depsSettled, settledSteps
<1>3. \A r \in steps : failedHard(r)' <=> failedHard(r) \/ (r = s /\ s \in tainted')
  BY <1>1 DEF failedHard, TaintIsEarned, TypeOK
<1>4. (\A r \in steps : failedHard(r) => r \in tainted)'
  BY <1>3 DEF TaintIsEarned, steps
<1>5. (\A r \in tainted : failedHard(r) \/ results[r] = "skipped")'
  BY <1>1, <1>3 DEF TaintIsEarned, TypeOK
<1>6. (\A r \in steps \ pending : \A d \in definition.dependsOn[r] :
         d \in tainted /\ r \notin definition.when => r \in tainted)'
  BY <1>2 DEF TaintIsEarned, steps
<1>7. ASSUME NEW S \in SUBSET steps, HoldsCauses(S)', PassedOn(S)'
      PROVE  tainted' \subseteq S
  <2>1. PassedOn(S)
    BY <1>7 DEF PassedOn, steps
  <2>2. HoldsCauses(S)
    BY <1>1, <1>7, CausesKept DEF TypeOK
  <2>3. s \in tainted' => s \in S
    BY <1>1, <1>3, <1>7 DEF HoldsCauses, steps
  <2> QED BY <2>1, <2>2, <2>3 DEF TaintIsEarned
<1> QED BY <1>4, <1>5, <1>6, <1>7 DEF TaintIsEarned, steps

DrainIsOfCancelled == pc = "drain" => cancelled

LEMMA DrainIsOfCancelledNext == DrainIsOfCancelled /\ [Next]_vars => DrainIsOfCancelled'
  BY DEF DrainIsOfCancelled, Next, Loop, Unresolved, Launch, LaunchThrows, Resume, Rethrow, Return,
         Cancelled, Drained, Abort, Succeeds, Fails, TimesOut, Retry, Rejects, LateReturn, others,
         vars, looping

LEMMA AsPlannedBefore ==
    ASSUME TypeOK, DrainIsOfCancelled, [Next]_vars, AsPlanned'
    PROVE  AsPlanned /\ ~Drained /\ UNCHANGED definition
<1>1. UNCHANGED definition
  BY DEF Next, Loop, Unresolved, Launch, LaunchThrows, Resume, Rethrow, Return, Cancelled, Drained,
         Abort, Succeeds, Fails, TimesOut, Retry, Rejects, LateReturn, others, vars
<1>2. pc # "thrown" /\ (pc = "returned" => ~cancelled)
  <2>1. pc \in {"thrown", "returned"} => UNCHANGED <<pc, cancelled>>
    BY DEF Next, Loop, Unresolved, Launch, LaunchThrows, Resume, Rethrow, Return, Cancelled, Drained,
           Abort, Succeeds, Fails, TimesOut, Retry, Rejects, LateReturn, others, vars, looping
  <2> QED BY <2>1 DEF AsPlanned
<1>3. NothingLost
  BY <1>1, LostForGood DEF AsPlanned
<1>4. ~Drained
  BY DEF AsPlanned, Drained, DrainIsOfCancelled
<1> QED BY <1>1, <1>2, <1>3, <1>4 DEF AsPlanned

LEMMA TaintedNext ==
    ASSUME TypeOK, InOrder, DrainIsOfCancelled, Tainted, [Next]_vars
    PROVE  Tainted'
<1> SUFFICES ASSUME AsPlanned'
             PROVE  TaintIsEarned'
  BY DEF Tainted
<1>1. UNCHANGED definition /\ ~Drained
  BY AsPlannedBefore
<1>3. NothingLost /\ TaintIsEarned
  BY AsPlannedBefore DEF Tainted, AsPlanned
<1>4. ASSUME UNCHANGED <<results, tainted, pending>>
      PROVE  TaintIsEarned'
  BY <1>1, <1>3, <1>4 DEF TaintIsEarned, HoldsCauses, PassedOn, Knot, failedHard, steps
<1>5. CASE Loop
  BY <1>1, <1>3, <1>4, <1>5, TaintedLaunch, TaintedUnresolved
     DEF AsPlanned, Loop, LaunchThrows, Resume, Rethrow, Return, Cancelled, Drained, outcome
<1>6. CASE Abort \/ UNCHANGED vars
  BY <1>4, <1>6 DEF Abort, vars, outcome
<1>7. ASSUME NEW s \in steps,
             \/ Succeeds(s) \/ Fails(s) \/ TimesOut(s) \/ Retry(s) \/ Rejects(s) \/ LateReturn(s)
      PROVE  TaintIsEarned'
  <2>1. UNCHANGED pending
    BY <1>7 DEF Succeeds, Fails, TimesOut, Retry, Rejects, LateReturn, others
  <2>2. \/ UNCHANGED <<results, tainted>>
        \/ /\ s \in inFlight
           /\ \E result \in {"succeeded", "failed"} : settle(s, result)
    BY <1>7 DEF Succeeds, Fails, TimesOut, Retry, Rejects, LateReturn, attemptFailed, outcome, TypeOK
  <2>3. ASSUME NEW result \in {"succeeded", "failed"}, settle(s, result), s \in inFlight
        PROVE  TaintIsEarned'
    BY <1>1, <1>3, <2>1, <2>3, TaintedSettle DEF settle
  <2> QED BY <1>4, <2>1, <2>2, <2>3
<1> QED BY <1>5, <1>6, <1>7 DEF Next

\* With nothing left to judge, what failures reach is the taint.
LEMMA TaintIsReached ==
    ASSUME TypeOK, TaintIsEarned, pending = {}
    PROVE  reached = tainted
<1>1. tainted \in SUBSET steps /\ HoldsCauses(tainted) /\ PassedOn(tainted)
  BY DEF TypeOK, TaintIsEarned, HoldsCauses, PassedOn
<1>2. reached \subseteq steps
  BY DEF reached
<1> QED BY <1>1, <1>2, ReachedIs DEF TaintIsEarned

LEMMA VerdictStep ==
    ASSUME TypeOK, Tainted, DrainIsOfCancelled, [Next]_vars,
           pc # "returned", pc' = "returned", ~cancelled, settledSteps = steps
    PROVE  status' = "failed" <=> terminalSteps \cap reached # {}
<1>1. Return
  BY DEF DrainIsOfCancelled, Next, Loop, Unresolved, Launch, LaunchThrows, Resume, Rethrow, Cancelled,
         Drained, Abort, Succeeds, Fails, TimesOut, Retry, Rejects, LateReturn, others, vars, looping
<1>2. pending = {} /\ pc = "loop" /\ status' = computeStatus
  BY <1>1 DEF Return
<1>3. \A s \in steps : results[s] # "none"
  BY DEF settledSteps
<1>4. TaintIsEarned
  BY <1>2, <1>3 DEF Tainted, AsPlanned, NothingLost
<1>5. reached = tainted
  BY <1>2, <1>4, TaintIsReached
<1>6. \A s \in steps : s \in tainted <=> failedHard(s) \/ (results[s] = "skipped" /\ s \in tainted)
  BY <1>4 DEF TaintIsEarned
<1> QED BY <1>2, <1>3, <1>5, <1>6 DEF computeStatus, terminalSteps

\* VerdictMatchesFailures: computed from the terminal steps alone, the verdict is still
\* that of all steps, in whatever order parallel branches settle, also for workflows with
\* a cycle and for expressions that throw.
THEOREM VerdictIsOfFailures == Spec => VerdictMatchesFailures
<1>1. Init => InOrder /\ Tainted /\ DrainIsOfCancelled
  BY DEF Init, InOrder, Tainted, TaintIsEarned, DrainIsOfCancelled, failedHard
<1>2. TypeOK /\ InOrder /\ Tainted /\ DrainIsOfCancelled /\ [Next]_vars
        => (InOrder /\ Tainted /\ DrainIsOfCancelled)'
  BY InOrderNext, TaintedNext, DrainIsOfCancelledNext
<1>3. TypeOK /\ Tainted /\ DrainIsOfCancelled /\ [Next]_vars
        => [pc # "returned" /\ pc' = "returned" /\ ~cancelled /\ settledSteps = steps
              => (status' = "failed" <=> terminalSteps \cap reached # {})]_vars
  BY VerdictStep
<1> QED BY <1>1, <1>2, <1>3, TypeCorrect, PTL DEF Spec, VerdictMatchesFailures

-----------------------------------------------------------------------------
(* Compiled workflows: the compiler *)

\* What a compilable workflow is: its steps are 1..n for some n >= 1.
LEMMA CompilableFacts ==
    ASSUME NEW d \in Compilable
    PROVE  /\ last(d) \in Nat \ {0} /\ d.steps = 1..last(d) /\ IsFiniteSet(d.steps)
           /\ d.dependsOn \in [d.steps -> SUBSET d.steps]
           /\ d.when \subseteq d.steps /\ d.continueOnFailure \subseteq d.steps
           /\ Acyclic(d)
<1>1. /\ d \in Definitions /\ d.steps = 1..last(d) /\ d.steps # {} /\ Acyclic(d)
  BY CompilableAssumption DEF last
<1>2. DefinitionAssumption(d)
  BY <1>1, WorkflowAssumption
<1>3. last(d) \in Nat /\ (last(d) = 0 <=> d.steps = {})
  BY <1>2, FS_CardinalityType, FS_EmptySet DEF last, DefinitionAssumption
<1> QED BY <1>1, <1>2, <1>3 DEF DefinitionAssumption

\* The recursion of isSkipCapable is over acyclic dependencies, but has a solution anyway:
\* the least set that holds the steps with `when` and whatever depends on it.
LEMMA SkipCapable ==
    ASSUME NEW d \in Compilable
    PROVE  \A s \in d.steps :
             /\ isSkipCapable(d)[s] \in BOOLEAN
             /\ isSkipCapable(d)[s] <=> s \in d.when \/ \E dep \in d.dependsOn[s] : isSkipCapable(d)[dep]
<1> DEFINE Solves(c) == c = [s \in d.steps |-> s \in d.when \/ \E dep \in d.dependsOn[s] : c[dep]]
           Closed(S) == \A s \in d.steps :
                          s \in d.when \/ (\E dep \in d.dependsOn[s] : dep \in S) => s \in S
           least == {s \in d.steps : \A S \in SUBSET d.steps : Closed(S) => s \in S}
           first == [s \in d.steps |-> s \in least]
<1>1. d.dependsOn \in [d.steps -> SUBSET d.steps]
  BY CompilableFacts
<1>2. Closed(least)
  BY <1>1
<1>3. \A s \in least : s \in d.when \/ \E dep \in d.dependsOn[s] : dep \in least
  <2> DEFINE next == {s \in d.steps : s \in d.when \/ \E dep \in d.dependsOn[s] : dep \in least}
  <2>1. next \subseteq least
    BY <1>2
  <2>2. Closed(next)
    BY <1>1, <2>1
  <2> QED BY <2>2
<1>4. \A s \in d.steps : (s \in least) <=> s \in d.when \/ \E dep \in d.dependsOn[s] : dep \in least
  BY <1>2, <1>3
<1>5. Solves(first)
  <2> HIDE DEF least
  <2>1. \A s \in d.steps : \A dep \in d.dependsOn[s] : first[dep] = (dep \in least)
    BY <1>1
  <2>2. ASSUME NEW s \in d.steps
        PROVE  first[s] = (s \in d.when \/ \E dep \in d.dependsOn[s] : first[dep])
    <3>1. first[s] = (s \in least)
      OBVIOUS
    <3>2. (\E dep \in d.dependsOn[s] : first[dep]) <=> \E dep \in d.dependsOn[s] : dep \in least
      BY <2>1
    <3>3. (s \in least) <=> s \in d.when \/ \E dep \in d.dependsOn[s] : first[dep]
      BY <1>4, <3>2, Zenon
    <3> HIDE DEF first
    <3> QED BY <3>1, <3>3
  <2> QED BY <2>2
<1>6. Solves(isSkipCapable(d))
  <2>1. isSkipCapable(d) = CHOOSE c : Solves(c)
    BY DEF isSkipCapable
  <2> HIDE DEF Solves, first
  <2> QED BY <1>5, <2>1
<1>7. PICK c : c = isSkipCapable(d)
  OBVIOUS
<1>8. \A s \in d.steps : c[s] = (s \in d.when \/ \E dep \in d.dependsOn[s] : c[dep])
  BY <1>6, <1>7
<1> QED BY <1>7, <1>8

\* Of any steps of an acyclic workflow, one depends on none of the others.
LEMMA NoKnot ==
    ASSUME NEW d, IsFiniteSet(d.steps), Acyclic(d), NEW K \in SUBSET d.steps, K # {}
    PROVE  \E s \in K : d.dependsOn[s] \cap K = {}
<1> DEFINE Tied(S) == S \in SUBSET d.steps /\ S # {} /\ \A s \in S : d.dependsOn[s] \cap S # {}
           sizes == {n \in Nat : \E S : Tied(S) /\ Cardinality(S) = n}
<1> SUFFICES ASSUME Tied(K) PROVE FALSE
  OBVIOUS
<1>1. \A S : Tied(S) => IsFiniteSet(S) /\ Cardinality(S) \in Nat
  BY FS_Subset, FS_CardinalityType
<1>2. sizes \in SUBSET Nat /\ sizes # {}
  BY <1>1
<1>3. PICK n \in sizes : \A m \in sizes : ~(m < n)
  <2> HIDE DEF sizes
  <2> QED BY <1>2, FirstStep
<1>4. PICK S : Tied(S) /\ Cardinality(S) = n
  BY <1>3
<1>5. PICK s \in S : \A t \in S : s \notin d.dependsOn[t]
  BY <1>4 DEF Acyclic
<1>6. Tied(S \ {s})
  BY <1>4, <1>5
<1>7. Cardinality(S \ {s}) = n - 1
  BY <1>1, <1>4, <1>5, FS_RemoveElement
<1>8. n - 1 \in sizes /\ n - 1 < n
  <2>1. n \in Nat /\ Cardinality(S \ {s}) \in Nat
    BY <1>1, <1>2, <1>6
  <2>2. n - 1 \in Nat /\ n - 1 < n
    BY <1>7, <2>1
  <2> HIDE DEF Tied
  <2> QED BY <1>6, <1>7, <2>2
<1> QED BY <1>3, <1>8

\* What a concatenation holds.
LEMMA RangeConcat ==
    ASSUME NEW T, NEW r \in Seq(T), NEW t \in Seq(T)
    PROVE  r \o t \in Seq(T) /\ Range(r \o t) = Range(r) \cup Range(t)
<1>1. /\ DOMAIN r = 1..Len(r) /\ Len(r) \in Nat /\ DOMAIN t = 1..Len(t) /\ Len(t) \in Nat
      /\ DOMAIN (r \o t) = 1..(Len(r) + Len(t))
      /\ \A k \in 1..Len(r) : (r \o t)[k] = r[k]
      /\ \A k \in (Len(r) + 1)..(Len(r) + Len(t)) : (r \o t)[k] = t[k - Len(r)]
  OBVIOUS
<1>2. ASSUME NEW x \in Range(r \o t) PROVE x \in Range(r) \cup Range(t)
  <2>1. PICK k \in 1..(Len(r) + Len(t)) : x = (r \o t)[k]
    BY <1>1 DEF Range
  <2>2. CASE k <= Len(r)
    BY <1>1, <2>1, <2>2 DEF Range
  <2>3. CASE ~(k <= Len(r))
    <3>1. k - Len(r) \in DOMAIN t /\ x = t[k - Len(r)]
      BY <1>1, <2>1, <2>3
    <3> QED BY <3>1 DEF Range
  <2> QED BY <2>2, <2>3
<1>3. ASSUME NEW x \in Range(r) PROVE x \in Range(r \o t)
  BY <1>1 DEF Range
<1>4. ASSUME NEW x \in Range(t) PROVE x \in Range(r \o t)
  <2>1. PICK l \in DOMAIN t : x = t[l]
    BY DEF Range
  <2>2. Len(r) + l \in DOMAIN (r \o t) /\ (r \o t)[Len(r) + l] = t[l]
    BY <1>1
  <2> QED BY <2>1, <2>2 DEF Range
<1>5. r \o t \in Seq(T)
  OBVIOUS
<1> QED BY <1>2, <1>3, <1>4, <1>5

\* The recursion of FlattenSeq has a solution, for it is over the length of the sequence.
LEMMA FlattenExists ==
    ASSUME NEW s, NEW n \in Nat \ {0}
    PROVE  \E f : f = [i \in 1..n |-> IF i = 1 THEN s[i] ELSE f[i - 1] \o s[i]]
<1> DEFINE Solves(f, m) == f = [i \in 1..m |-> IF i = 1 THEN s[i] ELSE f[i - 1] \o s[i]]
           Bad == {m \in Nat : m # 0 /\ \A f : ~Solves(f, m)}
<1>1. SUFFICES ASSUME \A f : ~Solves(f, n) PROVE FALSE
  <2> HIDE DEF Solves
  <2>1. \E f : Solves(f, n)
    BY <1>1
  <2> QED BY <2>1 DEF Solves
<1>2. n \in Bad /\ Bad \in SUBSET Nat /\ Bad # {}
  BY <1>1
<1>3. PICK m \in Bad : \A k \in Bad : ~(k < m)
  <2> HIDE DEF Bad
  <2> QED BY <1>2, FirstStep
<1>4. m \in Nat /\ m # 0 /\ \A f : ~Solves(f, m)
  <2> HIDE DEF Solves
  <2> QED BY <1>3
<1>5. m # 1
  <2>1. Solves([i \in 1..1 |-> s[i]], 1)
    OBVIOUS
  <2> HIDE DEF Solves
  <2> QED BY <1>4, <2>1
<1>6. m - 1 \in Nat /\ m - 1 # 0 /\ m - 1 < m
  BY <1>4, <1>5
<1>7. m - 1 \notin Bad
  <2> HIDE DEF Bad
  <2> QED BY <1>3, <1>6
<1>8. PICK f : Solves(f, m - 1)
  <2> HIDE DEF Solves
  <2> QED BY <1>6, <1>7
<1>9. \A i \in 1..(m - 1) : f[i] = IF i = 1 THEN s[i] ELSE f[i - 1] \o s[i]
  BY <1>8
<1>10. Solves([i \in 1..m |-> IF i = m THEN f[m - 1] \o s[m] ELSE f[i]], m)
  <2> DEFINE g == [i \in 1..m |-> IF i = m THEN f[m - 1] \o s[m] ELSE f[i]]
  <2>1. ASSUME NEW i \in 1..m
        PROVE  g[i] = IF i = 1 THEN s[i] ELSE g[i - 1] \o s[i]
    <3>1. CASE i = m
      <4>0. m - 1 \in 1..m /\ m - 1 # m
        BY <1>4, <1>6
      <4>1. g[i] = f[m - 1] \o s[m]
        BY <3>1
      <4>2. g[m - 1] = f[m - 1]
        BY <4>0
      <4> QED BY <1>5, <3>1, <4>1, <4>2
    <3>2. CASE i # m
      <4>1. i \in 1..(m - 1)
        BY <1>4, <3>2
      <4>2. g[i] = f[i] /\ (i # 1 => i - 1 \in 1..m /\ i - 1 # m)
        BY <1>4, <3>2, <4>1
      <4>3. i # 1 => g[i - 1] = f[i - 1]
        BY <4>2
      <4> QED BY <1>9, <4>1, <4>2, <4>3
    <3> QED BY <3>1, <3>2
  <2> QED BY <2>1
<1> HIDE DEF Solves
<1> QED BY <1>4, <1>10

\* What a flattened sequence holds.
LEMMA RangeFlatten ==
    ASSUME NEW T, NEW s \in Seq(Seq(T))
    PROVE  /\ FlattenSeq(s) \in Seq(T)
           /\ Range(FlattenSeq(s)) = UNION {Range(s[i]) : i \in DOMAIN s}
<1>1. DOMAIN s = 1..Len(s) /\ Len(s) \in Nat /\ \A i \in 1..Len(s) : s[i] \in Seq(T)
  OBVIOUS
<1>2. CASE Len(s) = 0
  <2>1. s = <<>> /\ FlattenSeq(s) = s
    BY <1>1, <1>2 DEF FlattenSeq
  <2>2. <<>> \in Seq(T) /\ Range(<<>>) = {} /\ DOMAIN s = {}
    BY <2>1 DEF Range
  <2> QED BY <2>1, <2>2
<1>3. CASE Len(s) # 0
  <2> DEFINE Solves(g) == g = [i \in 1..Len(s) |-> IF i = 1 THEN s[i] ELSE g[i - 1] \o s[i]]
  <2>0. \E g : Solves(g)
    <3>1. Len(s) \in Nat \ {0}
      BY <1>1, <1>3
    <3> QED BY <3>1, FlattenExists
  <2>1. PICK f : Solves(f) /\ FlattenSeq(s) = f[Len(s)]
    <3>1. FlattenSeq(s) = (CHOOSE g : Solves(g))[Len(s)]
      BY <1>3 DEF FlattenSeq
    <3>2. Solves(CHOOSE g : Solves(g))
      <4> HIDE DEF Solves
      <4> QED BY <2>0
    <3> HIDE DEF Solves
    <3> QED BY <3>1, <3>2
  <2> DEFINE Good(m) == /\ f[m] \in Seq(T)
                        /\ Range(f[m]) = UNION {Range(s[i]) : i \in 1..m}
             Bad == {m \in 1..Len(s) : ~Good(m)}
  <2>2. SUFFICES Bad = {}
    <3>0. Len(s) \in 1..Len(s)
      BY <1>1, <1>3
    <3>1. Good(Len(s))
      <4> HIDE DEF Good
      <4> QED BY <2>2, <3>0
    <3> QED BY <1>1, <2>1, <3>1
  <2>3. SUFFICES ASSUME Bad # {} PROVE FALSE
    OBVIOUS
  <2>4. PICK m \in Bad : \A k \in Bad : ~(k < m)
    <3>1. Bad \in SUBSET Nat
      BY <1>1
    <3> HIDE DEF Bad
    <3> QED BY <2>3, <3>1, FirstStep
  <2>6. m \in 1..Len(s)
    BY <2>4
  <2>7. CASE m = 1
    <3>1. f[1] = s[1] /\ 1..1 = {1}
      BY <2>1, <2>6, <2>7
    <3>2. Good(1)
      BY <1>1, <2>6, <2>7, <3>1
    <3> QED BY <2>4, <2>7, <3>2
  <2>8. CASE m # 1
    <3>0. m \in Nat /\ m - 1 \in 1..Len(s) /\ m - 1 < m
      BY <1>1, <2>6, <2>8
    <3>1. f[m] = f[m - 1] \o s[m]
      BY <2>1, <2>6, <2>8, <3>0
    <3>2. m - 1 \notin Bad
      <4> HIDE DEF Bad
      <4> QED BY <2>4, <3>0
    <3>3. Good(m - 1)
      BY <3>0, <3>2
    <3>4. s[m] \in Seq(T)
      BY <1>1, <2>6
    <3>7. f[m] \in Seq(T) /\ Range(f[m]) = Range(f[m - 1]) \cup Range(s[m])
      <4>1. PICK r : r = f[m - 1]
        OBVIOUS
      <4>2. PICK t : t = s[m]
        OBVIOUS
      <4>3. r \in Seq(T) /\ t \in Seq(T) /\ f[m] = r \o t
        BY <3>1, <3>3, <3>4, <4>1, <4>2
      <4> QED BY <4>1, <4>2, <4>3, RangeConcat
    <3>8. 1..m = (1..(m - 1)) \cup {m}
      BY <3>0
    <3>9. Good(m)
      BY <3>3, <3>7, <3>8
    <3> QED BY <2>4, <3>9
  <2> QED BY <2>7, <2>8
<1> QED BY <1>2, <1>3

LEMMA TupleIsSeq ==
    ASSUME NEW n \in Nat, NEW X, NEW f \in [1..n -> X]
    PROVE  f \in Seq(X) /\ DOMAIN f = 1..n
  OBVIOUS

\* fromDeps takes the transitions of the dependencies, and only theirs.
LEMMA FromDeps ==
    ASSUME NEW d \in Compilable, NEW s \in d.steps, NEW T, NEW edges \in [d.steps -> Seq(T)]
    PROVE  /\ fromDeps(d, s, edges) \in Seq(T)
           /\ Range(fromDeps(d, s, edges)) = UNION {Range(edges[dep]) : dep \in d.dependsOn[s]}
<1> DEFINE seqs == [dep \in 1..last(d) |-> unless(dep \notin d.dependsOn[s], edges[dep])]
<1>1. last(d) \in Nat /\ d.steps = 1..last(d) /\ d.dependsOn[s] \in SUBSET (1..last(d))
  BY CompilableFacts
<1>2. \A dep \in 1..last(d) : seqs[dep] = IF dep \in d.dependsOn[s] THEN edges[dep] ELSE <<>>
  BY DEF unless
<1>3. seqs \in Seq(Seq(T)) /\ DOMAIN seqs = 1..last(d)
  <2>1. ASSUME NEW dep \in 1..last(d) PROVE seqs[dep] \in Seq(T)
    <3>1. <<>> \in Seq(T)
      OBVIOUS
    <3>2. CASE dep \in d.dependsOn[s]
      <4>1. dep \in d.steps /\ edges[dep] \in Seq(T)
        BY <1>1
      <4> HIDE DEF seqs
      <4> QED BY <1>2, <3>2, <4>1
    <3>3. CASE dep \notin d.dependsOn[s]
      <4> HIDE DEF seqs
      <4> QED BY <1>2, <3>1, <3>3
    <3> QED BY <3>2, <3>3
  <2>2. seqs = [dep \in 1..last(d) |-> seqs[dep]]
    OBVIOUS
  <2>3. seqs \in [1..last(d) -> Seq(T)]
    <3> HIDE DEF seqs
    <3> QED BY <2>1, <2>2
  <2> HIDE DEF seqs
  <2> QED BY <1>1, <2>3, TupleIsSeq
<1>4. fromDeps(d, s, edges) = FlattenSeq(seqs)
  BY DEF fromDeps
<1> HIDE DEF seqs
<1>5. /\ FlattenSeq(seqs) \in Seq(T)
      /\ Range(FlattenSeq(seqs)) = UNION {Range(seqs[dep]) : dep \in 1..last(d)}
  BY <1>3, RangeFlatten
<1>6. Range(<<>>) = {}
  BY DEF Range
<1> QED BY <1>1, <1>2, <1>4, <1>5, <1>6

\* How a transition out of a step carries on: also after its failure, if it is forgiven.
passing(d, dep) == IF dep \in d.continueOnFailure THEN "always" ELSE "succeeded"

\* The transitions of a compiled workflow.
WhenEdge(d, s, t) ==
    \/ d.dependsOn[s] = {} /\ t = transition(startNode(d), whenNode(d, s), "always", 0)
    \/ \E dep \in d.dependsOn[s] :
         \/ t = transition(stepNode(d, dep), whenNode(d, s), "always", 0)
         \/ isSkipCapable(d)[dep] /\ t = transition(skipNode(d, dep), whenNode(d, s), "always", 0)
    \/ t = transition(whenNode(d, s), stepNode(d, s), "true", s)
    \/ t = transition(whenNode(d, s), skipNode(d, s), "false", s)
StepEdge(d, s, t) ==
    \/ d.dependsOn[s] = {} /\ t = transition(startNode(d), stepNode(d, s), "always", 0)
    \/ \E dep \in d.dependsOn[s] :
         \/ t = transition(stepNode(d, dep), stepNode(d, s), passing(d, dep), 0)
         \/ isSkipCapable(d)[dep] /\ t = transition(skipNode(d, dep), skipNode(d, s), "always", 0)
DoneEdge(d, s, t) ==
    \/ t = transition(stepNode(d, s), doneNode(d, s), passing(d, s), 0)
    \/ isSkipCapable(d)[s] /\ t = transition(skipNode(d, s), doneNode(d, s), "always", 0)
    \/ t = transition(doneNode(d, s), successNode(d), "always", 0)
ends(d) == d.steps \ dependedOn(d)
Edge(d, t) ==
    \/ \E s \in d.when : WhenEdge(d, s, t)
    \/ \E s \in d.steps \ d.when : StepEdge(d, s, t)
    \/ \E s \in ends(d) : DoneEdge(d, s, t)

Transition == [from : Nat, to : Nat, loopBound : {0},
               condition : {"always", "succeeded", "true", "false"}, step : Nat]

LEMMA NodesTyped ==
    ASSUME NEW d \in Compilable
    PROVE  /\ startNode(d) \in Nat /\ successNode(d) \in Nat
           /\ \A s \in d.steps : /\ s \in Nat \ {0} /\ doneNode(d, s) \in Nat /\ skipNode(d, s) \in Nat
                                 /\ whenNode(d, s) \in Nat /\ stepNode(d, s) \in Nat
  BY CompilableFacts DEF startNode, successNode, doneNode, skipNode, whenNode, stepNode

LEMMA Single ==
    ASSUME NEW T, NEW t \in T
    PROVE  <<t>> \in Seq(T) /\ Range(<<t>>) = {t}
  BY DEF Range

LEMMA OneTransition ==
    ASSUME NEW from \in Nat, NEW to \in Nat, NEW step \in Nat,
           NEW condition \in {"always", "succeeded", "true", "false"}
    PROVE  /\ <<transition(from, to, condition, step)>> \in Seq(Transition)
           /\ Range(<<transition(from, to, condition, step)>>) = {transition(from, to, condition, step)}
<1>1. transition(from, to, condition, step) \in Transition
  BY DEF transition, Transition
<1>2. PICK t \in Transition : t = transition(from, to, condition, step)
  BY <1>1
<1>3. <<t>> \in Seq(Transition) /\ Range(<<t>>) = {t}
  BY Single
<1> QED BY <1>2, <1>3

LEMMA Unless ==
    ASSUME NEW T, NEW test \in BOOLEAN, NEW seq, ~test => seq \in Seq(T)
    PROVE  /\ unless(test, seq) \in Seq(T)
           /\ Range(unless(test, seq)) = IF test THEN {} ELSE Range(seq)
<1>1. <<>> \in Seq(T) /\ Range(<<>>) = {}
  BY DEF Range
<1> QED BY <1>1 DEF unless

\* A transition on success carries on a forgiven failure too.
LEMMA OnSuccess ==
    ASSUME NEW d, NEW dep, stepNode(d, dep) \in Nat, NEW to \in Nat
    PROVE  /\ onSuccess(d, dep, to) \in Seq(Transition)
           /\ Range(onSuccess(d, dep, to)) = {transition(stepNode(d, dep), to, passing(d, dep), 0)}
<1>1. passing(d, dep) \in {"always", "succeeded"}
  BY DEF passing
<1>2. onSuccess(d, dep, to) = <<transition(stepNode(d, dep), to, passing(d, dep), 0)>>
  BY DEF onSuccess, passing
<1>3. transition(stepNode(d, dep), to, passing(d, dep), 0) \in Transition
  BY <1>1 DEF transition, Transition
<1>4. PICK t \in Transition : t = transition(stepNode(d, dep), to, passing(d, dep), 0)
  BY <1>3
<1>5. <<t>> \in Seq(Transition) /\ Range(<<t>>) = {t}
  BY Single
<1> QED BY <1>2, <1>4, <1>5

LEMMA Always ==
    ASSUME NEW from \in Nat, NEW to \in Nat
    PROVE  /\ always(from, to) \in Seq(Transition)
           /\ Range(always(from, to)) = {transition(from, to, "always", 0)}
<1>1. PICK t \in Transition : t = transition(from, to, "always", 0)
  BY DEF transition, Transition
<1>2. always(from, to) = <<t>>
  BY <1>1 DEF always
<1> QED BY <1>1, <1>2, Single

\* What the compiler emits for a step with `when`.
LEMMA WhenTransitions ==
    ASSUME NEW d \in Compilable, NEW s \in d.when
    PROVE  /\ whenTransitions(d, s) \in Seq(Transition)
           /\ \A t : t \in Range(whenTransitions(d, s)) <=> WhenEdge(d, s, t)
<1> DEFINE node == whenNode(d, s)
           through(dep) == always(stepNode(d, dep), node)
           around(dep) == unless(~isSkipCapable(d)[dep], always(skipNode(d, dep), node))
           settles == [dep \in d.steps |-> through(dep) \o around(dep)]
           first == unless(d.dependsOn[s] # {}, always(startNode(d), node))
           second == fromDeps(d, s, settles)
           yes == transition(node, stepNode(d, s), "true", s)
           no == transition(node, skipNode(d, s), "false", s)
<1>1. /\ s \in d.steps /\ d.dependsOn[s] \in SUBSET d.steps /\ s \in Nat
      /\ \A dep \in d.steps : stepNode(d, dep) \in Nat /\ skipNode(d, dep) \in Nat
                              /\ isSkipCapable(d)[dep] \in BOOLEAN
      /\ node \in Nat /\ startNode(d) \in Nat
  BY CompilableFacts, NodesTyped, SkipCapable
<1>2. ASSUME NEW dep \in d.steps
      PROVE  /\ settles[dep] \in Seq(Transition)
             /\ Range(settles[dep]) = {transition(stepNode(d, dep), node, "always", 0)}
                  \cup IF isSkipCapable(d)[dep]
                       THEN {transition(skipNode(d, dep), node, "always", 0)} ELSE {}
  <2>0. settles[dep] = through(dep) \o around(dep)
    OBVIOUS
  <2>1. /\ through(dep) \in Seq(Transition)
        /\ Range(through(dep)) = {transition(stepNode(d, dep), node, "always", 0)}
    BY <1>1, Always
  <2>2. /\ always(skipNode(d, dep), node) \in Seq(Transition)
        /\ Range(always(skipNode(d, dep), node)) = {transition(skipNode(d, dep), node, "always", 0)}
    BY <1>1, Always
  <2>3. (~isSkipCapable(d)[dep]) \in BOOLEAN
    BY <1>1
  <2>4. /\ around(dep) \in Seq(Transition)
        /\ Range(around(dep)) = IF ~isSkipCapable(d)[dep] THEN {}
                                ELSE {transition(skipNode(d, dep), node, "always", 0)}
    BY <2>2, <2>3, Unless
  <2> HIDE DEF node, through, around, settles
  <2>5. /\ through(dep) \o around(dep) \in Seq(Transition)
        /\ Range(through(dep) \o around(dep)) = Range(through(dep)) \cup Range(around(dep))
    BY <2>1, <2>4, RangeConcat
  <2> QED BY <2>0, <2>1, <2>4, <2>5
<1>3. settles \in [d.steps -> Seq(Transition)]
  <2>1. settles = [dep \in d.steps |-> settles[dep]]
    OBVIOUS
  <2> HIDE DEF settles
  <2> QED BY <1>2, <2>1
<1>4. /\ second \in Seq(Transition)
      /\ Range(second) = UNION {Range(settles[dep]) : dep \in d.dependsOn[s]}
  <2> HIDE DEF settles
  <2> QED BY <1>1, <1>3, FromDeps
<1>5. /\ first \in Seq(Transition)
      /\ Range(first) = IF d.dependsOn[s] # {} THEN {}
                        ELSE {transition(startNode(d), node, "always", 0)}
  <2>1. /\ always(startNode(d), node) \in Seq(Transition)
        /\ Range(always(startNode(d), node)) = {transition(startNode(d), node, "always", 0)}
    BY <1>1, Always
  <2>2. (d.dependsOn[s] # {}) \in BOOLEAN
    OBVIOUS
  <2> QED BY <2>1, <2>2, Unless
<1>6. <<yes, no>> \in Seq(Transition) /\ Range(<<yes, no>>) = {yes, no}
  <2>1. yes \in Transition /\ no \in Transition
    BY <1>1 DEF transition, Transition
  <2>2. PICK a, b \in Transition : a = yes /\ b = no
    BY <2>1
  <2>3. <<a, b>> \in Seq(Transition) /\ Range(<<a, b>>) = {a, b}
    BY DEF Range
  <2> QED BY <2>2, <2>3
<1>7. whenTransitions(d, s) = (first \o second) \o <<yes, no>>
  BY DEF whenTransitions
<1> HIDE DEF first, second, yes, no, settles
<1>8. first \o second \in Seq(Transition) /\ Range(first \o second) = Range(first) \cup Range(second)
  BY <1>4, <1>5, RangeConcat
<1>9. /\ whenTransitions(d, s) \in Seq(Transition)
      /\ Range(whenTransitions(d, s)) = Range(first) \cup Range(second) \cup {yes, no}
  <2>1. PICK r, q \in Seq(Transition) : r = first \o second /\ q = <<yes, no>>
    BY <1>6, <1>8
  <2>2. r \o q \in Seq(Transition) /\ Range(r \o q) = Range(r) \cup Range(q)
    BY RangeConcat
  <2> QED BY <1>6, <1>7, <1>8, <2>1, <2>2
<1> HIDE DEF node, through, around
<1>10. ASSUME NEW t
       PROVE  t \in Range(second) <=>
                \E dep \in d.dependsOn[s] :
                   \/ t = transition(stepNode(d, dep), node, "always", 0)
                   \/ isSkipCapable(d)[dep] /\ t = transition(skipNode(d, dep), node, "always", 0)
  <2>1. t \in Range(second) <=> \E dep \in d.dependsOn[s] : t \in Range(settles[dep])
    BY <1>4
  <2>2. ASSUME NEW dep \in d.dependsOn[s]
        PROVE  t \in Range(settles[dep]) <=>
                 \/ t = transition(stepNode(d, dep), node, "always", 0)
                 \/ isSkipCapable(d)[dep] /\ t = transition(skipNode(d, dep), node, "always", 0)
    BY <1>1, <1>2
  <2> QED BY <2>1, <2>2
<1>11. ASSUME NEW t
       PROVE  t \in Range(first) <=>
                d.dependsOn[s] = {} /\ t = transition(startNode(d), node, "always", 0)
  BY <1>5
<1> QED BY <1>9, <1>10, <1>11 DEF WhenEdge, yes, no, node

\* What the compiler emits for any other step.
LEMMA StepTransitions ==
    ASSUME NEW d \in Compilable, NEW s \in d.steps \ d.when
    PROVE  /\ stepTransitions(d, s) \in Seq(Transition)
           /\ \A t : t \in Range(stepTransitions(d, s)) <=> StepEdge(d, s, t)
<1> DEFINE succeeds == [dep \in d.steps |-> onSuccess(d, dep, stepNode(d, s))]
           skips == [dep \in d.steps |->
                       unless(~isSkipCapable(d)[dep], always(skipNode(d, dep), skipNode(d, s)))]
           first == unless(d.dependsOn[s] # {}, always(startNode(d), stepNode(d, s)))
           second == fromDeps(d, s, succeeds)
           inner == fromDeps(d, s, skips)
           third == unless(~isSkipCapable(d)[s], inner)
<1>1. /\ s \in d.steps /\ d.dependsOn[s] \in SUBSET d.steps
      /\ \A dep \in d.steps : stepNode(d, dep) \in Nat /\ skipNode(d, dep) \in Nat
                              /\ isSkipCapable(d)[dep] \in BOOLEAN
      /\ startNode(d) \in Nat
      /\ \A dep \in d.dependsOn[s] : isSkipCapable(d)[dep] => isSkipCapable(d)[s]
  BY CompilableFacts, NodesTyped, SkipCapable
<1>2. ASSUME NEW dep \in d.steps
      PROVE  /\ succeeds[dep] \in Seq(Transition)
             /\ Range(succeeds[dep]) = {transition(stepNode(d, dep), stepNode(d, s), passing(d, dep), 0)}
  <2>0. succeeds[dep] = onSuccess(d, dep, stepNode(d, s))
    OBVIOUS
  <2>1. stepNode(d, dep) \in Nat /\ stepNode(d, s) \in Nat
    BY <1>1
  <2>2. PICK to \in Nat : to = stepNode(d, s)
    BY <2>1
  <2>3. /\ onSuccess(d, dep, to) \in Seq(Transition)
        /\ Range(onSuccess(d, dep, to)) = {transition(stepNode(d, dep), to, passing(d, dep), 0)}
    BY <2>1, OnSuccess
  <2> HIDE DEF succeeds
  <2> QED BY <2>0, <2>2, <2>3
<1>3. ASSUME NEW dep \in d.steps
      PROVE  /\ skips[dep] \in Seq(Transition)
             /\ Range(skips[dep]) = IF ~isSkipCapable(d)[dep] THEN {}
                                    ELSE {transition(skipNode(d, dep), skipNode(d, s), "always", 0)}
  <2>0. skips[dep] = unless(~isSkipCapable(d)[dep], always(skipNode(d, dep), skipNode(d, s)))
    OBVIOUS
  <2> HIDE DEF skips
  <2>1. /\ always(skipNode(d, dep), skipNode(d, s)) \in Seq(Transition)
        /\ Range(always(skipNode(d, dep), skipNode(d, s)))
             = {transition(skipNode(d, dep), skipNode(d, s), "always", 0)}
    BY <1>1, Always
  <2>2. (~isSkipCapable(d)[dep]) \in BOOLEAN
    BY <1>1
  <2>3. PICK test, seq : /\ test = (~isSkipCapable(d)[dep]) /\ test \in BOOLEAN
                         /\ seq = always(skipNode(d, dep), skipNode(d, s)) /\ seq \in Seq(Transition)
    BY <2>1, <2>2
  <2>4. /\ unless(test, seq) \in Seq(Transition)
        /\ Range(unless(test, seq)) = IF test THEN {} ELSE Range(seq)
    BY <2>3, Unless
  <2> QED BY <2>0, <2>1, <2>3, <2>4
<1>4. succeeds \in [d.steps -> Seq(Transition)] /\ skips \in [d.steps -> Seq(Transition)]
  <2>1. /\ succeeds = [dep \in d.steps |-> succeeds[dep]]
        /\ skips = [dep \in d.steps |-> skips[dep]]
    OBVIOUS
  <2> HIDE DEF succeeds, skips
  <2> QED BY <1>2, <1>3, <2>1
<1> HIDE DEF succeeds, skips
<1>5. /\ second \in Seq(Transition)
      /\ Range(second) = UNION {Range(succeeds[dep]) : dep \in d.dependsOn[s]}
      /\ inner \in Seq(Transition)
      /\ Range(inner) = UNION {Range(skips[dep]) : dep \in d.dependsOn[s]}
  BY <1>1, <1>4, FromDeps
<1>6. /\ first \in Seq(Transition)
      /\ Range(first) = IF d.dependsOn[s] # {} THEN {}
                        ELSE {transition(startNode(d), stepNode(d, s), "always", 0)}
  <2>1. /\ always(startNode(d), stepNode(d, s)) \in Seq(Transition)
        /\ Range(always(startNode(d), stepNode(d, s)))
             = {transition(startNode(d), stepNode(d, s), "always", 0)}
    BY <1>1, Always
  <2>2. (d.dependsOn[s] # {}) \in BOOLEAN
    OBVIOUS
  <2> QED BY <2>1, <2>2, Unless
<1>7. third \in Seq(Transition) /\ Range(third) = IF ~isSkipCapable(d)[s] THEN {} ELSE Range(inner)
  <2>1. (~isSkipCapable(d)[s]) \in BOOLEAN
    BY <1>1
  <2> HIDE DEF inner
  <2> QED BY <1>5, <2>1, Unless
<1>8. stepTransitions(d, s) = (first \o second) \o third
  BY DEF stepTransitions, succeeds, skips
<1> HIDE DEF first, second, third, inner
<1>9. first \o second \in Seq(Transition) /\ Range(first \o second) = Range(first) \cup Range(second)
  BY <1>5, <1>6, RangeConcat
<1>10. /\ stepTransitions(d, s) \in Seq(Transition)
       /\ Range(stepTransitions(d, s)) = Range(first) \cup Range(second) \cup Range(third)
  <2>1. PICK r, q \in Seq(Transition) : r = first \o second /\ q = third
    BY <1>7, <1>9
  <2>2. r \o q \in Seq(Transition) /\ Range(r \o q) = Range(r) \cup Range(q)
    BY RangeConcat
  <2> QED BY <1>8, <1>9, <2>1, <2>2
<1>11. ASSUME NEW t
       PROVE  /\ t \in Range(first) <=>
                   d.dependsOn[s] = {} /\ t = transition(startNode(d), stepNode(d, s), "always", 0)
              /\ t \in Range(second) <=>
                   \E dep \in d.dependsOn[s] :
                      t = transition(stepNode(d, dep), stepNode(d, s), passing(d, dep), 0)
              /\ t \in Range(third) <=>
                   \E dep \in d.dependsOn[s] :
                      isSkipCapable(d)[dep]
                      /\ t = transition(skipNode(d, dep), skipNode(d, s), "always", 0)
  <2>1. ASSUME NEW dep \in d.dependsOn[s]
        PROVE  /\ t \in Range(succeeds[dep])
                    <=> t = transition(stepNode(d, dep), stepNode(d, s), passing(d, dep), 0)
               /\ t \in Range(skips[dep])
                    <=> isSkipCapable(d)[dep]
                        /\ t = transition(skipNode(d, dep), skipNode(d, s), "always", 0)
    <3>1. dep \in d.steps /\ isSkipCapable(d)[dep] \in BOOLEAN
      BY <1>1
    <3> QED BY <1>2, <1>3, <3>1
  <2>2. /\ t \in Range(second) <=> \E dep \in d.dependsOn[s] : t \in Range(succeeds[dep])
        /\ t \in Range(inner) <=> \E dep \in d.dependsOn[s] : t \in Range(skips[dep])
    BY <1>5
  <2>3. t \in Range(third) <=> isSkipCapable(d)[s] /\ t \in Range(inner)
    BY <1>7
  <2>4. t \in Range(first) <=>
          d.dependsOn[s] = {} /\ t = transition(startNode(d), stepNode(d, s), "always", 0)
    BY <1>6
  <2>5. t \in Range(inner) => isSkipCapable(d)[s]
    BY <1>1, <2>1, <2>2
  <2> QED BY <2>1, <2>2, <2>3, <2>4, <2>5
<1>12. ASSUME NEW t
       PROVE  t \in Range(stepTransitions(d, s)) <=> StepEdge(d, s, t)
  <2>1. t \in Range(stepTransitions(d, s)) <=>
          t \in Range(first) \/ t \in Range(second) \/ t \in Range(third)
    BY <1>10
  <2> QED BY <1>11, <2>1 DEF StepEdge
<1> QED BY <1>10, <1>12

\* What the compiler emits for a step nothing depends on.
LEMMA DoneTransitions ==
    ASSUME NEW d \in Compilable, NEW s \in ends(d)
    PROVE  /\ doneTransitions(d, s) \in Seq(Transition)
           /\ \A t : t \in Range(doneTransitions(d, s)) <=> DoneEdge(d, s, t)
<1> DEFINE first == onSuccess(d, s, doneNode(d, s))
           second == unless(~isSkipCapable(d)[s], always(skipNode(d, s), doneNode(d, s)))
           third == always(doneNode(d, s), successNode(d))
<1>1. /\ s \in d.steps /\ stepNode(d, s) \in Nat /\ doneNode(d, s) \in Nat /\ skipNode(d, s) \in Nat
      /\ successNode(d) \in Nat /\ isSkipCapable(d)[s] \in BOOLEAN
  BY NodesTyped, SkipCapable DEF ends
<1>2. /\ first \in Seq(Transition)
      /\ Range(first) = {transition(stepNode(d, s), doneNode(d, s), passing(d, s), 0)}
  BY <1>1, OnSuccess
<1>3. /\ second \in Seq(Transition)
      /\ Range(second) = IF ~isSkipCapable(d)[s] THEN {}
                         ELSE {transition(skipNode(d, s), doneNode(d, s), "always", 0)}
  <2>1. /\ always(skipNode(d, s), doneNode(d, s)) \in Seq(Transition)
        /\ Range(always(skipNode(d, s), doneNode(d, s)))
             = {transition(skipNode(d, s), doneNode(d, s), "always", 0)}
    BY <1>1, Always
  <2>2. (~isSkipCapable(d)[s]) \in BOOLEAN
    BY <1>1
  <2> QED BY <2>1, <2>2, Unless
<1>4. /\ third \in Seq(Transition)
      /\ Range(third) = {transition(doneNode(d, s), successNode(d), "always", 0)}
  BY <1>1, Always
<1>5. doneTransitions(d, s) = (first \o second) \o third
  BY DEF doneTransitions
<1> HIDE DEF first, second, third
<1>6. first \o second \in Seq(Transition) /\ Range(first \o second) = Range(first) \cup Range(second)
  BY <1>2, <1>3, RangeConcat
<1>7. /\ doneTransitions(d, s) \in Seq(Transition)
      /\ Range(doneTransitions(d, s)) = Range(first) \cup Range(second) \cup Range(third)
  <2>1. PICK r, q \in Seq(Transition) : r = first \o second /\ q = third
    BY <1>4, <1>6
  <2>2. r \o q \in Seq(Transition) /\ Range(r \o q) = Range(r) \cup Range(q)
    BY RangeConcat
  <2> QED BY <1>5, <1>6, <2>1, <2>2
<1>8. ASSUME NEW t
      PROVE  t \in Range(doneTransitions(d, s)) <=> DoneEdge(d, s, t)
  BY <1>1, <1>2, <1>3, <1>4, <1>7 DEF DoneEdge
<1> QED BY <1>7, <1>8

\* The compiler emits the transitions of all steps, and nothing else.
LEMMA CompiledTransitions ==
    ASSUME NEW d \in Compilable
    PROVE  /\ compileWorkflow(d).transitions \in Seq(Transition)
           /\ \A t : t \in Range(compileWorkflow(d).transitions) <=> Edge(d, t)
<1> DEFINE body(s) == IF s \in d.when THEN whenTransitions(d, s) ELSE stepTransitions(d, s)
           relay(s) == unless(s \notin ends(d), doneTransitions(d, s))
           bodies == [s \in 1..last(d) |-> body(s)]
           relays == [s \in 1..last(d) |-> relay(s)]
<1>1. /\ last(d) \in Nat /\ d.steps = 1..last(d) /\ d.when \subseteq d.steps
      /\ ends(d) \subseteq d.steps
  BY CompilableFacts DEF ends
<1>2. ASSUME NEW s \in d.steps
      PROVE  /\ body(s) \in Seq(Transition)
             /\ \A t : t \in Range(body(s)) <=>
                         IF s \in d.when THEN WhenEdge(d, s, t) ELSE StepEdge(d, s, t)
  BY WhenTransitions, StepTransitions
<1>3. ASSUME NEW s \in d.steps
      PROVE  /\ relay(s) \in Seq(Transition)
             /\ \A t : t \in Range(relay(s)) <=> s \in ends(d) /\ DoneEdge(d, s, t)
  <2>1. (s \notin ends(d)) \in BOOLEAN
    OBVIOUS
  <2>2. s \in ends(d) => doneTransitions(d, s) \in Seq(Transition)
    BY DoneTransitions
  <2>3. /\ relay(s) \in Seq(Transition)
        /\ Range(relay(s)) = IF s \notin ends(d) THEN {} ELSE Range(doneTransitions(d, s))
    BY <2>1, <2>2, Unless
  <2> HIDE DEF relay
  <2> QED BY <2>3, DoneTransitions
<1>4. /\ bodies \in Seq(Seq(Transition)) /\ DOMAIN bodies = 1..last(d)
      /\ relays \in Seq(Seq(Transition)) /\ DOMAIN relays = 1..last(d)
      /\ \A s \in 1..last(d) : bodies[s] = body(s) /\ relays[s] = relay(s)
  <2>1. \A s \in 1..last(d) : body(s) \in Seq(Transition) /\ relay(s) \in Seq(Transition)
    BY <1>1, <1>2, <1>3
  <2> HIDE DEF body, relay
  <2>2. bodies \in [1..last(d) -> Seq(Transition)] /\ relays \in [1..last(d) -> Seq(Transition)]
    BY <2>1
  <2>3. \A s \in 1..last(d) : bodies[s] = body(s) /\ relays[s] = relay(s)
    OBVIOUS
  <2> HIDE DEF bodies, relays
  <2> QED BY <1>1, <2>2, <2>3, TupleIsSeq
<1>5. compileWorkflow(d).transitions = FlattenSeq(bodies \o relays)
  BY DEF compileWorkflow, ends
<1> HIDE DEF body, relay, bodies, relays
<1>6. /\ bodies \o relays \in Seq(Seq(Transition))
      /\ Range(bodies \o relays) = Range(bodies) \cup Range(relays)
  BY <1>4, RangeConcat
<1>7. PICK all \in Seq(Seq(Transition)) : all = bodies \o relays
  BY <1>6
<1>8. /\ FlattenSeq(all) \in Seq(Transition)
      /\ Range(FlattenSeq(all)) = UNION {Range(all[i]) : i \in DOMAIN all}
  BY RangeFlatten
<1>9. UNION {Range(all[i]) : i \in DOMAIN all} = UNION {Range(r) : r \in Range(all)}
  <2>1. Range(all) = {all[i] : i \in DOMAIN all}
    BY DEF Range
  <2>2. UNION {Range(all[i]) : i \in DOMAIN all} = UNION {Range(r) : r \in {all[i] : i \in DOMAIN all}}
    BY Zenon
  <2> QED BY <2>1, <2>2
<1>10. Range(all) = {body(s) : s \in d.steps} \cup {relay(s) : s \in d.steps}
  <2>1. Range(bodies) = {bodies[s] : s \in 1..last(d)} /\ Range(relays) = {relays[s] : s \in 1..last(d)}
    BY <1>4 DEF Range
  <2>2. Range(bodies) = {body(s) : s \in d.steps} /\ Range(relays) = {relay(s) : s \in d.steps}
    BY <1>1, <1>4, <2>1
  <2> QED BY <1>6, <1>7, <2>2
<1>11. ASSUME NEW t
       PROVE  t \in Range(FlattenSeq(all)) <=>
                \E s \in d.steps : t \in Range(body(s)) \/ t \in Range(relay(s))
  <2>1. t \in Range(FlattenSeq(all)) <=> \E r \in Range(all) : t \in Range(r)
    BY <1>8, <1>9
  <2>2. (\E r \in Range(all) : t \in Range(r)) <=>
          \E s \in d.steps : t \in Range(body(s)) \/ t \in Range(relay(s))
    BY <1>10
  <2> QED BY <2>1, <2>2
<1>12. ASSUME NEW t
       PROVE  (\E s \in d.steps : t \in Range(body(s)) \/ t \in Range(relay(s))) <=> Edge(d, t)
  BY <1>1, <1>2, <1>3 DEF Edge
<1> QED BY <1>5, <1>7, <1>8, <1>11, <1>12

\* What the compiler makes of a workflow: its nodes, joins and transitions.
LEMMA CompiledGraph ==
    ASSUME NEW d \in Compilable, NEW g, g = compileWorkflow(d)
    PROVE  /\ g.entry = startNode(d)
           /\ g.nodes = {startNode(d), successNode(d)} \cup {stepNode(d, s) : s \in d.steps}
                        \cup {whenNode(d, s) : s \in d.when}
                        \cup {skipNode(d, s) : s \in {s \in d.steps : isSkipCapable(d)[s]}}
                        \cup {doneNode(d, s) : s \in ends(d)}
           /\ g.nodes \subseteq Nat
           /\ \A n \in g.nodes :
                /\ g.kind[n] = IF n = successNode(d) THEN "completed" ELSE "work"
                /\ g.join[n] = joinOf(d, n)
           /\ g.transitions \in Seq(Transition)
           /\ IsFiniteSet(DOMAIN g.transitions) /\ DOMAIN g.transitions \subseteq Nat
           /\ \A i \in DOMAIN g.transitions : Edge(d, g.transitions[i])
           /\ \A t : Edge(d, t) => \E i \in DOMAIN g.transitions : g.transitions[i] = t
<1>1. PICK tr : tr = g.transitions
  OBVIOUS
<1>2. tr \in Seq(Transition) /\ \A t : t \in Range(tr) <=> Edge(d, t)
  BY <1>1, CompiledTransitions
<1>3. DOMAIN tr = 1..Len(tr) /\ Len(tr) \in Nat
  BY <1>2
<1>4. IsFiniteSet(DOMAIN tr) /\ DOMAIN tr \subseteq Nat
  BY <1>3, FS_Interval
<1>5. /\ \A i \in DOMAIN tr : Edge(d, tr[i])
      /\ \A t : Edge(d, t) => \E i \in DOMAIN tr : tr[i] = t
  BY <1>2 DEF Range
<1>6. /\ g.entry = startNode(d)
      /\ g.nodes = {startNode(d), successNode(d)} \cup {stepNode(d, s) : s \in d.steps}
                   \cup {whenNode(d, s) : s \in d.when}
                   \cup {skipNode(d, s) : s \in {s \in d.steps : isSkipCapable(d)[s]}}
                   \cup {doneNode(d, s) : s \in ends(d)}
      /\ g.kind = [n \in g.nodes |-> IF n = successNode(d) THEN "completed" ELSE "work"]
      /\ g.join = [n \in g.nodes |-> joinOf(d, n)]
  BY DEF compileWorkflow, ends
<1>7. g.nodes \subseteq Nat
  BY <1>6, NodesTyped, CompilableFacts DEF ends
<1>8. \A n \in g.nodes :
        /\ g.kind[n] = IF n = successNode(d) THEN "completed" ELSE "work"
        /\ g.join[n] = joinOf(d, n)
  BY <1>6
<1> QED BY <1>1, <1>2, <1>4, <1>5, <1>6, <1>7, <1>8

\* The nodes of a compiled workflow are told apart by their numbers.
LEMMA NodesApart ==
    ASSUME NEW d \in Compilable
    PROVE  /\ startNode(d) # successNode(d)
           /\ \A s \in d.steps :
                /\ doneNode(d, s) # startNode(d) /\ doneNode(d, s) # successNode(d)
                /\ skipNode(d, s) # startNode(d) /\ skipNode(d, s) # successNode(d)
                /\ whenNode(d, s) # startNode(d) /\ whenNode(d, s) # successNode(d)
                /\ stepNode(d, s) # startNode(d) /\ stepNode(d, s) # successNode(d)
                /\ stepNode(d, s) - 3 * last(d) - 2 = s
                /\ doneNode(d, s) - 3 * last(d) - 2 <= 0
                /\ skipNode(d, s) - 3 * last(d) - 2 <= 0
                /\ whenNode(d, s) - 3 * last(d) - 2 <= 0
           /\ startNode(d) - 3 * last(d) - 2 <= 0
           /\ \A r, s \in d.steps :
                /\ doneNode(d, r) # skipNode(d, s) /\ doneNode(d, r) # whenNode(d, s)
                /\ doneNode(d, r) # stepNode(d, s) /\ skipNode(d, r) # whenNode(d, s)
                /\ skipNode(d, r) # stepNode(d, s) /\ whenNode(d, r) # stepNode(d, s)
                /\ doneNode(d, r) = doneNode(d, s) => r = s
                /\ skipNode(d, r) = skipNode(d, s) => r = s
                /\ whenNode(d, r) = whenNode(d, s) => r = s
                /\ stepNode(d, r) = stepNode(d, s) => r = s
<1> DEFINE N == last(d)
<1>1. N \in Nat /\ d.steps = 1..N /\ \A s \in d.steps : s \in Nat /\ 1 <= s /\ s <= N
  BY CompilableFacts
<1> HIDE DEF N
<1>2. /\ startNode(d) = 2 * N + 1 /\ successNode(d) = 2 * N + 2
      /\ \A s : /\ doneNode(d, s) = s /\ skipNode(d, s) = N + s /\ whenNode(d, s) = 2 * N + 2 + s
                /\ stepNode(d, s) = 3 * N + 2 + s
  BY DEF startNode, successNode, doneNode, skipNode, whenNode, stepNode, N
<1>3. ASSUME NEW r \in d.steps, NEW s \in d.steps
      PROVE  /\ doneNode(d, r) # skipNode(d, s) /\ doneNode(d, r) # whenNode(d, s)
             /\ doneNode(d, r) # stepNode(d, s) /\ skipNode(d, r) # whenNode(d, s)
             /\ skipNode(d, r) # stepNode(d, s) /\ whenNode(d, r) # stepNode(d, s)
             /\ doneNode(d, r) = doneNode(d, s) => r = s
             /\ skipNode(d, r) = skipNode(d, s) => r = s
             /\ whenNode(d, r) = whenNode(d, s) => r = s
             /\ stepNode(d, r) = stepNode(d, s) => r = s
  BY <1>1, <1>2
<1>4. ASSUME NEW s \in d.steps
      PROVE  /\ doneNode(d, s) # startNode(d) /\ doneNode(d, s) # successNode(d)
             /\ skipNode(d, s) # startNode(d) /\ skipNode(d, s) # successNode(d)
             /\ whenNode(d, s) # startNode(d) /\ whenNode(d, s) # successNode(d)
             /\ stepNode(d, s) # startNode(d) /\ stepNode(d, s) # successNode(d)
  BY <1>1, <1>2
<1>5. ASSUME NEW s \in d.steps
      PROVE  /\ stepNode(d, s) - 3 * N - 2 = s /\ doneNode(d, s) - 3 * N - 2 <= 0
             /\ skipNode(d, s) - 3 * N - 2 <= 0 /\ whenNode(d, s) - 3 * N - 2 <= 0
  BY <1>1, <1>2
<1>6. startNode(d) # successNode(d) /\ startNode(d) - 3 * N - 2 <= 0
  BY <1>1, <1>2
<1> QED BY <1>3, <1>4, <1>5, <1>6 DEF N

\* Which transitions lead into a node.
LEMMA EdgesInto ==
    ASSUME NEW d \in Compilable, NEW t, Edge(d, t), NEW s \in d.steps
    PROVE  /\ t.to = stepNode(d, s) =>
                IF s \in d.when THEN t.from = whenNode(d, s) /\ t.condition = "true" /\ t.step = s
                ELSE \/ d.dependsOn[s] = {} /\ t.from = startNode(d)
                     \/ \E dep \in d.dependsOn[s] :
                          t.from = stepNode(d, dep) /\ t.condition = passing(d, dep)
           /\ t.to = skipNode(d, s) =>
                IF s \in d.when THEN t.from = whenNode(d, s) /\ t.condition = "false" /\ t.step = s
                ELSE \E dep \in d.dependsOn[s] : t.from = skipNode(d, dep)
           /\ t.to = whenNode(d, s) =>
                /\ t.condition = "always"
                /\ \/ d.dependsOn[s] = {}
                   \/ \E dep \in d.dependsOn[s] :
                        \/ t.from = stepNode(d, dep)
                        \/ isSkipCapable(d)[dep] /\ t.from = skipNode(d, dep)
           /\ t.to = doneNode(d, s) =>
                \/ t.from = stepNode(d, s) /\ t.condition = passing(d, s)
                \/ t.from = skipNode(d, s)
<1>1. d.when \subseteq d.steps /\ ends(d) \subseteq d.steps
  BY CompilableFacts DEF ends
<1>2. ASSUME NEW r \in d.when, WhenEdge(d, r, t)
      PROVE  \/ t.to = whenNode(d, r) /\ t.condition = "always" /\ d.dependsOn[r] = {}
             \/ /\ t.to = whenNode(d, r) /\ t.condition = "always"
                /\ \E dep \in d.dependsOn[r] :
                        \/ t.from = stepNode(d, dep)
                        \/ isSkipCapable(d)[dep] /\ t.from = skipNode(d, dep)
             \/ /\ t.to = stepNode(d, r) /\ t.from = whenNode(d, r) /\ t.condition = "true"
                /\ t.step = r
             \/ /\ t.to = skipNode(d, r) /\ t.from = whenNode(d, r) /\ t.condition = "false"
                /\ t.step = r
  BY <1>2 DEF WhenEdge, transition
<1>3. ASSUME NEW r \in d.steps \ d.when, StepEdge(d, r, t)
      PROVE  \/ t.to = stepNode(d, r) /\ d.dependsOn[r] = {} /\ t.from = startNode(d)
             \/ /\ t.to = stepNode(d, r)
                /\ \E dep \in d.dependsOn[r] :
                     t.from = stepNode(d, dep) /\ t.condition = passing(d, dep)
             \/ t.to = skipNode(d, r) /\ \E dep \in d.dependsOn[r] : t.from = skipNode(d, dep)
  BY <1>3 DEF StepEdge, transition
<1>4. ASSUME NEW r \in ends(d), DoneEdge(d, r, t)
      PROVE  \/ t.to = doneNode(d, r) /\ t.from = stepNode(d, r) /\ t.condition = passing(d, r)
             \/ t.to = doneNode(d, r) /\ t.from = skipNode(d, r)
             \/ t.to = successNode(d)
  BY <1>4 DEF DoneEdge, transition
<1>5. CASE \E r \in d.when : WhenEdge(d, r, t)
  BY <1>1, <1>2, <1>5, NodesApart
<1>6. CASE \E r \in d.steps \ d.when : StepEdge(d, r, t)
  BY <1>3, <1>6, NodesApart
<1>7. CASE \E r \in ends(d) : DoneEdge(d, r, t)
  BY <1>1, <1>4, <1>7, NodesApart
<1> QED BY <1>5, <1>6, <1>7 DEF Edge

\* What ends the run, and what no transition leads to or leaves.
LEMMA EdgesAround ==
    ASSUME NEW d \in Compilable, NEW t, Edge(d, t)
    PROVE  /\ t.to # startNode(d) /\ t.from # successNode(d) /\ t.loopBound = 0
           /\ t.to = successNode(d) =>
                t.condition = "always" /\ \E s \in ends(d) : t.from = doneNode(d, s)
           /\ t.condition \in {"always", "succeeded", "true", "false"}
           /\ t.condition = "succeeded" =>
                \E s \in d.steps : t.from = stepNode(d, s) /\ passing(d, s) = "succeeded"
           /\ t.condition \in {"true", "false"} =>
                t.step \in d.when /\ t.from = whenNode(d, t.step)
<1>1. d.when \subseteq d.steps /\ ends(d) \subseteq d.steps
      /\ \A s \in d.steps : d.dependsOn[s] \subseteq d.steps
  BY CompilableFacts DEF ends
<1>2. \A s : passing(d, s) \in {"always", "succeeded"}
  BY DEF passing
<1>5. CASE \E r \in d.when : WhenEdge(d, r, t)
  <2>1. PICK r \in d.when : WhenEdge(d, r, t)
    BY <1>5
  <2>2. r \in d.steps
    BY <1>1
  <2>3. /\ t.to = whenNode(d, r) \/ t.to = stepNode(d, r) \/ t.to = skipNode(d, r)
        /\ t.loopBound = 0
        /\ \/ /\ t.condition = "always"
              /\ \/ t.from = startNode(d)
                 \/ \E dep \in d.steps : t.from = stepNode(d, dep) \/ t.from = skipNode(d, dep)
           \/ t.condition \in {"true", "false"} /\ t.step = r /\ t.from = whenNode(d, r)
    BY <1>1, <2>1, <2>2 DEF WhenEdge, transition
  <2> QED BY <2>2, <2>3, NodesApart
<1>6. CASE \E r \in d.steps \ d.when : StepEdge(d, r, t)
  <2>1. PICK r \in d.steps \ d.when : StepEdge(d, r, t)
    BY <1>6
  <2>2. r \in d.steps
    BY <1>1
  <2>3. /\ t.to = stepNode(d, r) \/ t.to = skipNode(d, r)
        /\ t.loopBound = 0
        /\ \/ t.condition = "always" /\ t.from = startNode(d)
           \/ \E dep \in d.steps : t.from = stepNode(d, dep) /\ t.condition = passing(d, dep)
           \/ t.condition = "always" /\ \E dep \in d.steps : t.from = skipNode(d, dep)
    BY <1>1, <2>1, <2>2 DEF StepEdge, transition
  <2> QED BY <1>2, <2>2, <2>3, NodesApart
<1>7. CASE \E r \in ends(d) : DoneEdge(d, r, t)
  <2>1. PICK r \in ends(d) : DoneEdge(d, r, t)
    BY <1>7
  <2>2. r \in d.steps
    BY <1>1
  <2>3. /\ t.loopBound = 0
        /\ \/ /\ t.to = doneNode(d, r) /\ t.from = stepNode(d, r) /\ t.condition = passing(d, r)
           \/ t.to = doneNode(d, r) /\ t.from = skipNode(d, r) /\ t.condition = "always"
           \/ t.to = successNode(d) /\ t.from = doneNode(d, r) /\ t.condition = "always"
    BY <2>1 DEF DoneEdge, transition
  <2> QED BY <1>2, <2>1, <2>2, <2>3, NodesApart
<1> QED BY <1>5, <1>6, <1>7 DEF Edge

\* The joins of a compiled workflow.
LEMMA Joins ==
    ASSUME NEW d \in Compilable
    PROVE  /\ joinOf(d, successNode(d)).mode = "all"
           /\ \A s \in d.steps :
                /\ joinOf(d, doneNode(d, s)).mode = "implicit"
                /\ joinOf(d, skipNode(d, s)).mode = "implicit"
                /\ joinOf(d, stepNode(d, s)).mode =
                     IF s \notin d.when /\ Cardinality(d.dependsOn[s]) >= 2 THEN "all" ELSE "implicit"
           /\ \A s \in d.when :
                IF d.dependsOn[s] = {} THEN joinOf(d, whenNode(d, s)).mode = "implicit"
                ELSE IF \E dep \in d.dependsOn[s] : isSkipCapable(d)[dep]
                     THEN joinOf(d, whenNode(d, s)) = [mode |-> "min", n |-> Cardinality(d.dependsOn[s])]
                     ELSE joinOf(d, whenNode(d, s)).mode = "all"
<1> DEFINE N == last(d)
<1>1. N \in Nat /\ d.steps = 1..N /\ d.when \subseteq d.steps
  BY CompilableFacts
<1> HIDE DEF N
<1>2. /\ startNode(d) = 2 * N + 1 /\ successNode(d) = 2 * N + 2
      /\ \A s : /\ doneNode(d, s) = s /\ skipNode(d, s) = N + s /\ whenNode(d, s) = 2 * N + 2 + s
                /\ stepNode(d, s) = 3 * N + 2 + s
  BY DEF startNode, successNode, doneNode, skipNode, whenNode, stepNode, N
<1>3. \A s \in d.steps : /\ ~(doneNode(d, s) > 3 * N + 2) /\ ~(skipNode(d, s) > 3 * N + 2)
                         /\ ~(whenNode(d, s) > 3 * N + 2) /\ stepNode(d, s) > 3 * N + 2
                         /\ stepNode(d, s) - (3 * N + 2) = s /\ whenNode(d, s) - (2 * N + 2) = s
  BY <1>1, <1>2
<1>4. joinOf(d, successNode(d)).mode = "all"
  <2>1. successNode(d) \notin {whenNode(d, r) : r \in d.when} /\ ~(successNode(d) > 3 * last(d) + 2)
    BY <1>1, <1>2, NodesApart DEF N
  <2> QED BY <2>1 DEF joinOf
<1>5. ASSUME NEW s \in d.steps, NEW n \in {doneNode(d, s), skipNode(d, s)}
      PROVE  joinOf(d, n).mode = "implicit"
  <2>1. n # successNode(d) /\ n \notin {whenNode(d, r) : r \in d.when} /\ ~(n > 3 * last(d) + 2)
    BY <1>1, <1>3, NodesApart DEF N
  <2> QED BY <2>1 DEF joinOf
<1>6. ASSUME NEW s \in d.steps
      PROVE  joinOf(d, stepNode(d, s)).mode =
               IF s \notin d.when /\ Cardinality(d.dependsOn[s]) >= 2 THEN "all" ELSE "implicit"
  <2>1. /\ stepNode(d, s) # successNode(d) /\ stepNode(d, s) \notin {whenNode(d, r) : r \in d.when}
        /\ stepNode(d, s) > 3 * last(d) + 2 /\ stepNode(d, s) - (3 * last(d) + 2) = s
    BY <1>1, <1>3, NodesApart DEF N
  <2> QED BY <2>1 DEF joinOf
<1>7. ASSUME NEW s \in d.when
      PROVE  IF d.dependsOn[s] = {} THEN joinOf(d, whenNode(d, s)).mode = "implicit"
             ELSE IF \E dep \in d.dependsOn[s] : isSkipCapable(d)[dep]
                  THEN joinOf(d, whenNode(d, s)) = [mode |-> "min", n |-> Cardinality(d.dependsOn[s])]
                  ELSE joinOf(d, whenNode(d, s)).mode = "all"
  <2>1. /\ whenNode(d, s) # successNode(d) /\ whenNode(d, s) \in {whenNode(d, r) : r \in d.when}
        /\ ~(whenNode(d, s) > 3 * last(d) + 2) /\ whenNode(d, s) - (2 * last(d) + 2) = s
    BY <1>1, <1>3, NodesApart DEF N
  <2> QED BY <2>1 DEF joinOf
<1> QED BY <1>4, <1>5, <1>6, <1>7

-----------------------------------------------------------------------------
(* Compiled workflows: what the version 1 engine leaves behind *)

\* A step without a `when` was passed over because of a step it depends on.
JudgedByDeps ==
    \A s \in steps \ pending : s \notin definition.when => (results[s] = "skipped" <=> ~dependenciesOk(s))
Judged == AsPlanned /\ Acyclic(definition) => JudgedByDeps

\* The loop is over when nothing is left to launch.
Emptied == pc = "returned" /\ ~cancelled => pending = {}

\* A pass of the loop judges steps whose dependencies will not change any more.
LEMMA JudgedLaunch ==
    ASSUME TypeOK, InOrder, JudgedByDeps, NEW holds, Launch(holds)
    PROVE  JudgedByDeps'
<1>1. /\ toLaunch \subseteq pending /\ \A s \in toLaunch : depsSettled(s)
      /\ pc # "returned" /\ pending # {} /\ UNCHANGED definition
      /\ launch(toLaunch, holds) /\ pending' = pending \ toLaunch /\ pending \subseteq steps
  BY DEF Launch, toLaunch, ready, looping, TypeOK
<1> DEFINE eligible == {s \in toLaunch : IF s \in definition.when THEN s \in holds
                                         ELSE dependenciesOk(s)}
           skip == toLaunch \ eligible
<1>2. results' = [s \in steps |-> IF s \in skip THEN "skipped" ELSE results[s]]
  BY <1>1 DEF launch
<1>3. \A s \in toLaunch : results[s] = "none"
  BY <1>1 DEF InOrder
<1>4. \A s \in steps \ pending : depsSettled(s)
  BY <1>1 DEF InOrder
<1>5. \A s \in skip \ definition.when : ~dependenciesOk(s)
  OBVIOUS
<1>6. \A s \in toLaunch \ definition.when : s \notin skip => dependenciesOk(s)
  OBVIOUS
<1>7. skip \subseteq toLaunch
  OBVIOUS
<1> HIDE DEF eligible, skip
<1>8. ASSUME NEW s \in steps, depsSettled(s)
      PROVE  dependenciesOk(s)' <=> dependenciesOk(s)
  <2>1. \A d \in definition.dependsOn[s] : d \in steps /\ d \notin skip
    BY <1>3, <1>7, <1>8 DEF depsSettled, settledSteps
  <2>2. \A d \in definition.dependsOn[s] : results'[d] = results[d]
    BY <1>2, <2>1
  <2> QED BY <1>1, <2>2 DEF dependenciesOk, dependencyOk, failedHard
<1> SUFFICES ASSUME NEW s \in steps, s \notin pending', s \notin definition.when
             PROVE  results'[s] = "skipped" <=> ~dependenciesOk(s)'
  BY <1>1 DEF JudgedByDeps, steps
<1>9. CASE s \in toLaunch
  <2>1. dependenciesOk(s)' <=> dependenciesOk(s)
    BY <1>1, <1>8, <1>9
  <2>2. results'[s] = IF s \in skip THEN "skipped" ELSE "none"
    BY <1>2, <1>3, <1>9
  <2> QED BY <1>5, <1>6, <1>9, <2>1, <2>2
<1>10. CASE s \notin toLaunch
  <2>1. s \notin pending /\ depsSettled(s)
    BY <1>1, <1>4, <1>10
  <2>2. results'[s] = results[s]
    BY <1>2, <1>7, <1>10
  <2> QED BY <1>8, <2>1, <2>2 DEF JudgedByDeps
<1> QED BY <1>9, <1>10

LEMMA JudgedNext ==
    ASSUME TypeOK, InOrder, DrainIsOfCancelled, Judged, [Next]_vars
    PROVE  Judged'
<1> SUFFICES ASSUME AsPlanned', Acyclic(definition)'
             PROVE  JudgedByDeps'
  BY DEF Judged
<1>1. UNCHANGED definition /\ ~Drained /\ AsPlanned
  BY AsPlannedBefore
<1>2. NothingLost /\ JudgedByDeps /\ Acyclic(definition)
  BY <1>1 DEF Judged, AsPlanned, Acyclic
<1>3. ASSUME UNCHANGED <<results, pending>>
      PROVE  JudgedByDeps'
  BY <1>1, <1>2, <1>3 DEF JudgedByDeps, dependenciesOk, dependencyOk, failedHard, steps
<1>4. CASE Loop
  <2>1. ~Unresolved
    <3> SUFFICES ASSUME Unresolved PROVE FALSE
      OBVIOUS
    <3>1. Knot(pending) /\ pending # {} /\ pending \in SUBSET definition.steps
      BY <1>2, LeftIsAKnot DEF Unresolved, looping, TypeOK, steps
    <3>2. IsFiniteSet(definition.steps)
      BY WorkflowAssumption DEF TypeOK, DefinitionAssumption
    <3> QED BY <1>2, <3>1, <3>2, NoKnot DEF Knot
  <2> QED BY <1>1, <1>2, <1>3, <1>4, <2>1, JudgedLaunch
          DEF AsPlanned, Loop, LaunchThrows, Resume, Rethrow, Return, Cancelled, outcome
<1>5. CASE Abort \/ UNCHANGED vars
  BY <1>3, <1>5 DEF Abort, vars, outcome
<1>6. ASSUME NEW s \in steps,
             \/ Succeeds(s) \/ Fails(s) \/ TimesOut(s) \/ Retry(s) \/ Rejects(s) \/ LateReturn(s)
      PROVE  JudgedByDeps'
  <2>1. UNCHANGED pending
    BY <1>6 DEF Succeeds, Fails, TimesOut, Retry, Rejects, LateReturn, others
  <2>2. \/ UNCHANGED results
        \/ /\ s \in inFlight
           /\ \E result \in {"succeeded", "failed"} : results' = [results EXCEPT ![s] = result]
    BY <1>6 DEF Succeeds, Fails, TimesOut, Retry, Rejects, LateReturn, attemptFailed, settle, outcome,
                TypeOK
  <2>3. ASSUME NEW result \in {"succeeded", "failed"}, s \in inFlight,
               results' = [results EXCEPT ![s] = result]
        PROVE  JudgedByDeps'
    <3>1. results[s] = "none" /\ s \notin pending /\ results'[s] # "skipped"
          /\ \A r \in steps \ {s} : results'[r] = results[r]
      BY <2>3 DEF InOrder, TypeOK
    <3>2. \A r \in steps \ pending : s \notin definition.dependsOn[r]
      BY <2>3, <3>1 DEF InOrder, depsSettled, settledSteps
    <3>3. \A r \in steps \ pending : dependenciesOk(r)' <=> dependenciesOk(r)
      <4>1. \A r \in steps \ pending : \A d \in definition.dependsOn[r] : results'[d] = results[d]
        BY <3>1, <3>2, Dependencies
      <4> QED BY <1>1, <4>1 DEF dependenciesOk, dependencyOk, failedHard
    <3> QED BY <1>1, <1>2, <2>1, <3>1, <3>3 DEF JudgedByDeps, steps
  <2> QED BY <1>3, <2>1, <2>2, <2>3
<1> QED BY <1>4, <1>5, <1>6 DEF Next

LEMMA EmptiedNext == TypeOK /\ DrainIsOfCancelled /\ Emptied /\ [Next]_vars => Emptied'
<1> SUFFICES ASSUME TypeOK, DrainIsOfCancelled, Emptied, [Next]_vars, pc' = "returned", ~cancelled'
             PROVE  pending' = {}
  BY DEF Emptied
<1>1. CASE Loop
  BY <1>1 DEF Loop, Unresolved, Launch, LaunchThrows, Resume, Rethrow, Return, Cancelled, Drained,
              looping, DrainIsOfCancelled, Emptied
<1>2. CASE ~Loop
  BY <1>2 DEF Next, Abort, Succeeds, Fails, TimesOut, Retry, Rejects, LateReturn, others, vars, Emptied
<1> QED BY <1>1, <1>2

\* Every step has come to its end, and why it did not run or is tainted can be told from the
\* steps it depends on.
Over == pc = "returned" /\ ~cancelled /\ settledSteps = steps /\ definition \in Compilable
Why ==
    /\ \A s \in steps : results[s] \in {"succeeded", "failed", "skipped"}
    /\ \A s \in steps \ definition.when :
         results[s] = "skipped" <=>
           \E dep \in definition.dependsOn[s] : results[dep] = "skipped" \/ failedHard(dep)
    /\ \A s \in steps : failedHard(s) => s \in tainted
    /\ \A s \in steps \ definition.when :
         (\E dep \in definition.dependsOn[s] : dep \in tainted) => s \in tainted
    /\ \A s \in steps : results[s] = "skipped" /\ s \in tainted =>
         s \notin definition.when /\ \E dep \in definition.dependsOn[s] : dep \in tainted
    /\ \A s \in tainted : failedHard(s) \/ results[s] = "skipped"

\* Once every step has come to its end, the engine's tables say what Why says.
LEMMA OverIsWhy ==
    ASSUME TypeOK, InOrder, Tainted, Judged, Emptied, Over
    PROVE  Why
<1>1. pending = {} /\ \A s \in steps : results[s] # "none"
  BY DEF Over, Emptied, settledSteps
<1>2. AsPlanned /\ Acyclic(definition) /\ IsFiniteSet(definition.steps)
  BY <1>1, CompilableFacts DEF Over, AsPlanned, NothingLost
<1>3. TaintIsEarned /\ JudgedByDeps
  BY <1>2 DEF Tainted, Judged
<1>4. \A s \in steps : results[s] \in {"succeeded", "failed", "skipped"}
  BY <1>1 DEF TypeOK
<1>5. \A s \in steps : definition.dependsOn[s] \subseteq steps
  BY Dependencies
<1>6. ASSUME NEW s \in steps \ definition.when
      PROVE  results[s] = "skipped" <=>
               \E dep \in definition.dependsOn[s] : results[dep] = "skipped" \/ failedHard(dep)
  <2>1. results[s] = "skipped" <=> ~dependenciesOk(s)
    BY <1>1, <1>3, <1>6 DEF JudgedByDeps
  <2>2. \A dep \in definition.dependsOn[s] :
          ~dependencyOk(dep) <=> results[dep] = "skipped" \/ failedHard(dep)
    BY <1>4, <1>5, <1>6 DEF dependencyOk, failedHard
  <2> QED BY <2>1, <2>2 DEF dependenciesOk
<1>7. /\ \A s \in steps : failedHard(s) => s \in tainted
      /\ \A s \in steps \ definition.when :
           (\E dep \in definition.dependsOn[s] : dep \in tainted) => s \in tainted
      /\ \A s \in tainted : failedHard(s) \/ results[s] = "skipped"
  BY <1>1, <1>3 DEF TaintIsEarned
<1>8. ASSUME NEW s \in steps, results[s] = "skipped", s \in tainted
      PROVE  s \notin definition.when /\ \E dep \in definition.dependsOn[s] : dep \in tainted
  <2> DEFINE S == {r \in steps : failedHard(r) \/ (r \notin definition.when
                                     /\ \E dep \in definition.dependsOn[r] : dep \in tainted)}
  <2>1. S \in SUBSET steps /\ S \subseteq tainted
    BY <1>7
  <2>2. HoldsCauses(S)
    <3>1. ASSUME NEW K \in SUBSET steps, Knot(K) PROVE K = {}
      BY <1>2, <3>1, NoKnot DEF Knot, steps
    <3>2. \A r \in steps : failedHard(r) => r \in S
      OBVIOUS
    <3> QED BY <3>1, <3>2 DEF HoldsCauses
  <2>3. PassedOn(S)
    <3> SUFFICES ASSUME NEW r \in steps, NEW d \in definition.dependsOn[r], d \in S,
                        r \notin definition.when
                 PROVE  r \in S
      BY DEF PassedOn
    <3>1. d \in tainted
      BY <2>1
    <3> QED BY <3>1
  <2>4. s \in S
    <3> HIDE DEF S
    <3> QED BY <1>3, <1>8, <2>1, <2>2, <2>3 DEF TaintIsEarned
  <2> QED BY <1>8, <2>4 DEF failedHard
<1> QED BY <1>4, <1>6, <1>7, <1>8 DEF Why

\* What is over stays as it is.
LEMMA OverStays ==
    ASSUME TypeOK, InOrder, Over, [Next]_vars
    PROVE  UNCHANGED <<definition, results, tainted, pc, cancelled>>
<1>1. \A s \in steps : s \notin inFlight
  BY DEF Over, settledSteps, InOrder
<1>2. CASE Loop
  BY <1>2 DEF Loop, Unresolved, Launch, LaunchThrows, Resume, Rethrow, Return, Cancelled, Drained,
              looping, Over
<1>3. CASE Abort \/ UNCHANGED vars
  BY <1>3 DEF Abort, outcome, vars
<1>4. ASSUME NEW s \in steps,
             \/ Succeeds(s) \/ Fails(s) \/ TimesOut(s) \/ Retry(s) \/ Rejects(s) \/ LateReturn(s)
      PROVE  UNCHANGED <<definition, results, tainted, pc, cancelled>>
  <2>1. LateReturn(s)
    BY <1>1, <1>4 DEF Succeeds, Fails, TimesOut, Retry, Rejects, TypeOK
  <2> QED BY <2>1 DEF LateReturn, others, outcome
<1> QED BY <1>2, <1>3, <1>4 DEF Next

-----------------------------------------------------------------------------
(* Compiled workflows: the run of the graph *)

\* Whether the condition of a transition holds once its source has settled.
met(t) ==
    \/ t.condition = "always"
    \/ t.condition = "succeeded" /\ results[stepOf(t.from)] = "succeeded"
    \/ t.condition = "true" /\ results[t.step] # "skipped"
    \/ t.condition = "false" /\ results[t.step] = "skipped"

Into(n) == {i \in DOMAIN graph.transitions : graph.transitions[i].to = n}
OutOf(n) == {i \in DOMAIN graph.transitions : graph.transitions[i].from = n}
Fired(i) == loopCounters[i] > 0
Activated(n) == activations[n] > 0
Success == successNode(definition)

\* The shape of the run: nothing waits, nothing is aborted.
RunTyped ==
    /\ graph = compileWorkflow(definition)
    /\ activations \in [graph.nodes -> Nat] /\ nodeResults \in [graph.nodes -> Nat]
    /\ loopCounters \in [DOMAIN graph.transitions -> Nat]
    /\ active \subseteq graph.nodes /\ executions \subseteq graph.nodes
    /\ waiting = {} /\ stopped = FALSE
    /\ tick \in {"loop", "batch", "fire", "ended"}
    /\ terminal \in {"none", "completed"} /\ fatalError \in BOOLEAN
    /\ tick \in {"loop", "ended"} => executions = {}

\* A node was activated by firings its join accepts, and is, once it accepts them.
JoinsKept ==
    \A n \in graph.nodes \ {graph.entry} :
        LET join == graph.join[n] IN
        /\ Activated(n) => IF join.mode = "all" THEN \A i \in Into(n) : Fired(i)
                                                ELSE \E i \in Into(n) : Fired(i)
        /\ join.mode = "implicit" /\ (\E i \in Into(n) : Fired(i)) => Activated(n)
        /\ join.mode = "all" /\ Into(n) # {} /\ (\A i \in Into(n) : Fired(i)) => Activated(n)
        /\ join.mode = "min" /\ Cardinality({i \in Into(n) : Fired(i)}) >= join.n => Activated(n)

\* A transition fired if its source settled and its condition held, and only then.
FiringsMeant ==
    /\ \A i \in DOMAIN graph.transitions :
         Fired(i) => Activated(graph.transitions[i].from) /\ met(graph.transitions[i])
    /\ \A n \in graph.nodes \ {Success} :
         \/ ~Activated(n) \/ n \in active \/ (tick = "fire" /\ settling.node = n)
         \/ \A i \in OutOf(n) : met(graph.transitions[i]) => Fired(i)

\* The node at hand settled as its step did; so far its transitions were taken as meant.
SettlingMeant ==
    tick = "fire" =>
        LET n == settling.node IN
        /\ settling \in [node : graph.nodes \ {Success}, failed : BOOLEAN,
                         rest : SUBSET OutOf(settling.node), fired : Nat]
        /\ Activated(n)
        /\ settling.failed <=> stepOf(n) > 0 /\ results[stepOf(n)] = "failed"
        /\ \A i \in OutOf(n) \ settling.rest : met(graph.transitions[i]) => Fired(i)
        /\ settling.fired = 0 =>
             \A i \in OutOf(n) \ settling.rest : ~met(graph.transitions[i])

\* What was activated and how the run ends.
EndMeant ==
    /\ Activated(graph.entry)
    /\ \A n \in active \cup executions : Activated(n)
    /\ \A n \in graph.nodes : nodeResults[n] > 0 => Activated(n)
    /\ Activated(Success) <=> Success \in active \/ terminal = "completed"
    /\ fatalError => \E s \in steps :
                       /\ results[s] = "failed"
                       /\ \A i \in OutOf(stepNode(definition, s)) : ~met(graph.transitions[i])
    /\ tick = "ended" => terminal = "completed" \/ fatalError \/ active = {}

Run == RunTyped /\ JoinsKept /\ FiringsMeant /\ SettlingMeant /\ EndMeant

\* The compiled graph is run once the version 1 engine is done.
Compared ==
    IF tick = "idle"
    THEN definition \in Compilable => Graph!Fresh(compileWorkflow(definition))
    ELSE Over /\ Run

\* The graph at hand, by the lemmas about the compiler.
LEMMA RunGraph ==
    ASSUME Over, RunTyped
    PROVE  /\ graph.entry = startNode(definition)
           /\ Success \in graph.nodes /\ graph.entry \in graph.nodes /\ Success # graph.entry
           /\ \A n \in graph.nodes :
                /\ Graph!isTerminalNode(graph, n) <=> n = Success
                /\ graph.kind[n] = IF n = Success THEN "completed" ELSE "work"
                /\ graph.join[n] = joinOf(definition, n)
           /\ graph.nodes \subseteq Nat
           /\ IsFiniteSet(DOMAIN graph.transitions) /\ DOMAIN graph.transitions \subseteq Nat
           /\ \A i \in DOMAIN graph.transitions :
                /\ Edge(definition, graph.transitions[i])
                /\ graph.transitions[i].to # graph.entry /\ graph.transitions[i].loopBound = 0
           /\ \A t : Edge(definition, t) => \E i \in DOMAIN graph.transitions : graph.transitions[i] = t
           /\ \A n \in graph.nodes :
                \/ n \in {graph.entry, Success}
                \/ \E s \in steps : n \in {stepNode(definition, s), skipNode(definition, s),
                                           doneNode(definition, s)}
                \/ \E s \in definition.when : n = whenNode(definition, s)
<1> PICK d \in Compilable : d = definition
  BY DEF Over
<1>1. graph = compileWorkflow(d)
  BY DEF RunTyped
<1>2. startNode(d) # successNode(d)
  BY NodesApart
<1>3. /\ graph.entry = startNode(d)
      /\ graph.nodes = {startNode(d), successNode(d)} \cup {stepNode(d, s) : s \in d.steps}
                       \cup {whenNode(d, s) : s \in d.when}
                       \cup {skipNode(d, s) : s \in {s \in d.steps : isSkipCapable(d)[s]}}
                       \cup {doneNode(d, s) : s \in ends(d)}
      /\ graph.nodes \subseteq Nat
      /\ \A n \in graph.nodes :
           /\ graph.kind[n] = IF n = successNode(d) THEN "completed" ELSE "work"
           /\ graph.join[n] = joinOf(d, n)
      /\ IsFiniteSet(DOMAIN graph.transitions) /\ DOMAIN graph.transitions \subseteq Nat
      /\ \A i \in DOMAIN graph.transitions : Edge(d, graph.transitions[i])
      /\ \A t : Edge(d, t) => \E i \in DOMAIN graph.transitions : graph.transitions[i] = t
  <2> PICK g : g = graph
    OBVIOUS
  <2>1. g = compileWorkflow(d)
    BY <1>1
  <2> QED BY <2>1, CompiledGraph
<1>4. \A i \in DOMAIN graph.transitions :
        graph.transitions[i].to # startNode(d) /\ graph.transitions[i].loopBound = 0
  BY <1>3, EdgesAround
<1>5. \A n \in graph.nodes :
        \/ n \in {startNode(d), successNode(d)}
        \/ \E s \in steps : n \in {stepNode(d, s), skipNode(d, s), doneNode(d, s)}
        \/ \E s \in d.when : n = whenNode(d, s)
  BY <1>3 DEF steps, ends
<1>6. \A n \in graph.nodes : Graph!isTerminalNode(graph, n) <=> n = successNode(d)
  BY <1>3 DEF Graph!isTerminalNode
<1> QED BY <1>2, <1>3, <1>4, <1>5, <1>6 DEF Success

\* A step whose node was activated was not passed over.
LEMMA StepsRan ==
    ASSUME Over, Why, RunTyped, JoinsKept, FiringsMeant, NEW s0 \in steps,
           Activated(stepNode(definition, s0)), stepNode(definition, s0) \in graph.nodes
    PROVE  results[s0] # "skipped"
<1> DEFINE B == {s \in steps : /\ stepNode(definition, s) \in graph.nodes
                               /\ Activated(stepNode(definition, s)) /\ results[s] = "skipped"}
<1> SUFFICES ASSUME B # {} PROVE FALSE
  OBVIOUS
<1> PICK d \in Compilable : d = definition
  BY DEF Over
<1>1. /\ IsFiniteSet(d.steps) /\ Acyclic(d) /\ d.when \subseteq d.steps /\ d.steps = steps
      /\ \A s \in steps : d.dependsOn[s] \subseteq steps
  BY CompilableFacts DEF steps
<1>2. PICK s \in B : d.dependsOn[s] \cap B = {}
  <2>1. B \in SUBSET d.steps
    BY <1>1
  <2> HIDE DEF B
  <2> QED BY <1>1, <2>1, NoKnot
<1>3. s \in steps /\ stepNode(d, s) \in graph.nodes \ {graph.entry} /\ results[s] = "skipped"
      /\ Activated(stepNode(d, s))
  <2>1. stepNode(d, s) # graph.entry
    BY <1>1, RunGraph, NodesApart
  <2> QED BY <2>1
<1>4. /\ graph.join[stepNode(d, s)].mode =
           IF s \notin d.when /\ Cardinality(d.dependsOn[s]) >= 2 THEN "all" ELSE "implicit"
  BY <1>1, <1>3, RunGraph, Joins
<1>5. IF s \notin d.when /\ Cardinality(d.dependsOn[s]) >= 2
      THEN \A i \in Into(stepNode(d, s)) : Fired(i) ELSE \E i \in Into(stepNode(d, s)) : Fired(i)
  BY <1>3, <1>4 DEF JoinsKept
<1>6. ASSUME NEW i \in Into(stepNode(d, s))
      PROVE  LET t == graph.transitions[i] IN
             /\ i \in DOMAIN graph.transitions
             /\ Fired(i) => Activated(t.from) /\ met(t)
             /\ IF s \in d.when THEN t.from = whenNode(d, s) /\ t.condition = "true" /\ t.step = s
                ELSE \/ d.dependsOn[s] = {} /\ t.from = startNode(d)
                     \/ \E dep \in d.dependsOn[s] :
                          t.from = stepNode(d, dep) /\ t.condition = passing(d, dep)
  <2>1. PICK t : t = graph.transitions[i]
    OBVIOUS
  <2>2. i \in DOMAIN graph.transitions /\ t.to = stepNode(d, s) /\ Edge(d, t)
    BY <2>1, RunGraph DEF Into
  <2>3. IF s \in d.when THEN t.from = whenNode(d, s) /\ t.condition = "true" /\ t.step = s
                ELSE \/ d.dependsOn[s] = {} /\ t.from = startNode(d)
                     \/ \E dep \in d.dependsOn[s] :
                          t.from = stepNode(d, dep) /\ t.condition = passing(d, dep)
    BY <1>1, <1>3, <2>2, EdgesInto
  <2>4. Fired(i) => Activated(t.from) /\ met(t)
    BY <2>1, <2>2 DEF FiringsMeant
  <2> QED BY <2>1, <2>2, <2>3, <2>4
<1>7. CASE s \in d.when
  <2>1. PICK i \in Into(stepNode(d, s)) : Fired(i)
    BY <1>5, <1>7
  <2>2. met(graph.transitions[i]) /\ graph.transitions[i].condition = "true"
        /\ graph.transitions[i].step = s
    BY <1>6, <1>7, <2>1
  <2> QED BY <1>3, <2>2 DEF met
<1>8. CASE s \notin d.when
  <2>1. PICK dep \in d.dependsOn[s] : results[dep] = "skipped" \/ failedHard(dep)
    BY <1>3, <1>8 DEF Why
  <2>2. dep \in steps
    BY <1>1, <1>3
  \* The transition from dep to s fired.
  <2>3. \E i \in Into(stepNode(d, s)) :
          /\ Fired(i) /\ graph.transitions[i].from = stepNode(d, dep)
          /\ graph.transitions[i].condition = passing(d, dep)
    <3>1. CASE Cardinality(d.dependsOn[s]) >= 2
      <4>1. Edge(d, transition(stepNode(d, dep), stepNode(d, s), passing(d, dep), 0))
        BY <1>1, <1>3, <1>8, <2>1 DEF Edge, StepEdge
      <4>2. PICK i \in DOMAIN graph.transitions :
              graph.transitions[i] = transition(stepNode(d, dep), stepNode(d, s), passing(d, dep), 0)
        BY <4>1, RunGraph
      <4> QED BY <1>5, <1>8, <3>1, <4>2 DEF Into, transition
    <3>2. CASE ~(Cardinality(d.dependsOn[s]) >= 2)
      <4>1. PICK i \in Into(stepNode(d, s)) : Fired(i)
        BY <1>5, <3>2
      <4>2. PICK other \in d.dependsOn[s] :
              /\ graph.transitions[i].from = stepNode(d, other)
              /\ graph.transitions[i].condition = passing(d, other)
        BY <1>6, <1>8, <2>1, <4>1
      <4>3. other = dep
        <5>1. IsFiniteSet(d.dependsOn[s])
          BY <1>1, <1>3, FS_Subset
        <5>2. Cardinality(d.dependsOn[s]) \in Nat
          BY <5>1, FS_CardinalityType
        <5>3. Cardinality(d.dependsOn[s]) = 1
          BY <2>1, <3>2, <5>1, <5>2, FS_EmptySet
        <5>4. PICK x : d.dependsOn[s] = {x}
          BY <5>1, <5>3, FS_Singleton
        <5> QED BY <2>1, <5>4
      <4> QED BY <4>1, <4>2, <4>3
    <3> QED BY <3>1, <3>2
  <2>4. PICK i \in Into(stepNode(d, s)) :
          /\ Fired(i) /\ graph.transitions[i].from = stepNode(d, dep)
          /\ graph.transitions[i].condition = passing(d, dep)
    BY <2>3
  <2>5. Activated(stepNode(d, dep)) /\ met(graph.transitions[i])
    BY <1>6, <2>4
  <2>6. stepNode(d, dep) \in graph.nodes
    <3> PICK g : g = graph
      OBVIOUS
    <3>1. g = compileWorkflow(d)
      BY DEF RunTyped
    <3> QED BY <1>1, <2>2, <3>1, CompiledGraph
  <2>7. results[dep] # "skipped"
    BY <1>2, <2>1, <2>2, <2>5, <2>6
  <2>8. dep \notin d.continueOnFailure /\ results[dep] = "failed"
    BY <2>1, <2>7 DEF failedHard
  <2>9. stepOf(stepNode(d, dep)) = dep
    BY <1>1, <2>2, NodesApart DEF stepOf
  <2> QED BY <2>4, <2>5, <2>8, <2>9 DEF met, passing
<1> QED BY <1>7, <1>8

\* What a step of the run leaves alone as long as the version 1 engine stands still.
LEMMA WorldKept ==
    ASSUME UNCHANGED <<vars, graph>>
    PROVE  /\ \A n : Into(n)' = Into(n) /\ OutOf(n)' = OutOf(n)
           /\ Success' = Success /\ steps' = steps /\ results' = results /\ definition' = definition
           /\ \A t : met(t)' <=> met(t)
           /\ \A n : stepOf(n)' = stepOf(n)
<1>1. definition' = definition /\ results' = results /\ graph' = graph
  BY DEF vars, outcome
<1> QED BY <1>1 DEF Into, OutOf, Success, steps, met, stepOf

\* A step of the run that leaves firings and activations alone.
LEMMA JoinsAlone ==
    ASSUME JoinsKept, UNCHANGED <<vars, graph, loopCounters, activations>>
    PROVE  JoinsKept'
<1>1. \A n : Into(n)' = Into(n)
  BY WorldKept
<1>2. /\ \A i : Fired(i)' <=> Fired(i)
      /\ \A n : Activated(n)' <=> Activated(n)
      /\ graph' = graph
  BY DEF Fired, Activated
<1> QED BY <1>1, <1>2 DEF JoinsKept

\* A round executes nodes that were activated.
LEMMA RunExecute ==
    ASSUME Over, Run, Graph!Execute, UNCHANGED vars
    PROVE  Run'
<1>1. /\ tick = "loop" /\ tick' = "batch" /\ executions' \subseteq active
      /\ waiting' = waiting \ pendingSatisfactions
      /\ UNCHANGED <<graph, active, loopCounters, activations, nodeResults, terminal, fatalError,
                     stopped, settling>>
  BY DEF Graph!Execute, Graph!runnable
<1>2. /\ \A n : Into(n)' = Into(n) /\ OutOf(n)' = OutOf(n)
      /\ Success' = Success /\ steps' = steps /\ results' = results /\ definition' = definition
      /\ \A t : met(t)' <=> met(t)
  BY <1>1, WorldKept
<1>3. /\ \A i : Fired(i)' <=> Fired(i)
      /\ \A n : Activated(n)' <=> Activated(n)
  BY <1>1 DEF Fired, Activated
<1>4. RunTyped'
  BY <1>1, <1>2 DEF Run, RunTyped
<1>5. JoinsKept'
  BY <1>1, JoinsAlone DEF Run
<1>6. FiringsMeant'
  BY <1>1, <1>2, <1>3 DEF Run, FiringsMeant
<1>7. SettlingMeant'
  BY <1>1 DEF SettlingMeant
<1>8. EndMeant'
  BY <1>1, <1>2, <1>3 DEF Run, EndMeant
<1> QED BY <1>4, <1>5, <1>6, <1>7, <1>8 DEF Run

\* After a round the loop looks at what is active.
LEMMA RunRoundOver ==
    ASSUME Over, Run, Graph!RoundOver, UNCHANGED vars
    PROVE  Run'
<1>1. /\ tick = "batch" /\ tick' = "loop" /\ executions = {} /\ executions' = executions
      /\ UNCHANGED <<graph, active, waiting, loopCounters, activations, nodeResults, terminal,
                     fatalError, stopped, settling>>
  BY DEF Graph!RoundOver, Graph!state, Graph!locals
<1>2. /\ \A n : Into(n)' = Into(n) /\ OutOf(n)' = OutOf(n)
      /\ Success' = Success /\ steps' = steps /\ results' = results /\ definition' = definition
      /\ \A t : met(t)' <=> met(t)
  BY <1>1, WorldKept
<1>3. /\ \A i : Fired(i)' <=> Fired(i)
      /\ \A n : Activated(n)' <=> Activated(n)
  BY <1>1 DEF Fired, Activated
<1>4. RunTyped'
  BY <1>1, <1>2 DEF Run, RunTyped
<1>5. JoinsKept'
  BY <1>1, JoinsAlone DEF Run
<1>6. FiringsMeant'
  BY <1>1, <1>2, <1>3 DEF Run, FiringsMeant
<1>7. SettlingMeant'
  BY <1>1 DEF SettlingMeant
<1>8. EndMeant'
  BY <1>1, <1>2, <1>3 DEF Run, EndMeant
<1> QED BY <1>4, <1>5, <1>6, <1>7, <1>8 DEF Run

\* The tick ends with the run completed, failed or with nothing active: nothing waits.
LEMMA RunEndTick ==
    ASSUME Over, Run, Graph!EndTick, UNCHANGED vars
    PROVE  Run'
<1>1. Graph!Status # "WAITING"
  BY DEF Run, RunTyped, Graph!Status
<1>2. /\ tick = "loop" /\ tick' = "ended" /\ executions' = executions
      /\ UNCHANGED <<graph, active, waiting, loopCounters, activations, nodeResults, terminal,
                     fatalError, stopped, settling>>
  BY <1>1 DEF Graph!EndTick, Graph!Finished, Graph!state, Graph!locals
<1>3. terminal = "completed" \/ fatalError \/ active = {}
  <2>1. Graph!LoopOver \/ Graph!runnable = {}
    BY DEF Graph!EndTick, Graph!Finished
  <2>2. waiting = {} /\ stopped = FALSE /\ terminal \in {"none", "completed"}
    BY DEF Run, RunTyped
  <2> QED BY <2>1, <2>2 DEF Graph!LoopOver, Graph!runnable
<1>4. /\ \A n : Into(n)' = Into(n) /\ OutOf(n)' = OutOf(n)
      /\ Success' = Success /\ steps' = steps /\ results' = results /\ definition' = definition
      /\ \A t : met(t)' <=> met(t)
  BY <1>2, WorldKept
<1>5. /\ \A i : Fired(i)' <=> Fired(i)
      /\ \A n : Activated(n)' <=> Activated(n)
  BY <1>2 DEF Fired, Activated
<1>6. RunTyped'
  BY <1>2, <1>4 DEF Run, RunTyped
<1>7. JoinsKept'
  BY <1>2, JoinsAlone DEF Run
<1>8. FiringsMeant'
  BY <1>2, <1>4, <1>5 DEF Run, FiringsMeant
<1>9. SettlingMeant'
  BY <1>2 DEF SettlingMeant
<1>10. EndMeant'
  BY <1>2, <1>3, <1>4, <1>5 DEF Run, EndMeant
<1> QED BY <1>6, <1>7, <1>8, <1>9, <1>10 DEF Run

\* What fails the run is a failed step none of whose transitions was meant to be taken.
LEMMA RunSettled ==
    ASSUME Over, Run, Graph!Settled, UNCHANGED vars
    PROVE  Run'
<1> DEFINE over == settling.failed /\ settling.fired = 0
<1>1. /\ tick = "fire" /\ settling.rest = {}
      /\ IF over THEN tick' = "loop" /\ executions' = {} /\ fatalError' = TRUE
                 ELSE tick' = "batch" /\ executions' = executions /\ fatalError' = fatalError
      /\ UNCHANGED <<graph, active, waiting, loopCounters, activations, nodeResults, terminal,
                     stopped, settling>>
  BY DEF Graph!Settled, Graph!Fatal, Graph!state
<1>2. /\ \A n : Into(n)' = Into(n) /\ OutOf(n)' = OutOf(n)
      /\ Success' = Success /\ steps' = steps /\ results' = results /\ definition' = definition
      /\ \A t : met(t)' <=> met(t)
  BY <1>1, WorldKept
<1>3. /\ \A i : Fired(i)' <=> Fired(i)
      /\ \A n : Activated(n)' <=> Activated(n)
  BY <1>1 DEF Fired, Activated
<1>4. PICK n : n = settling.node
  OBVIOUS
<1>5. /\ n \in graph.nodes \ {Success} /\ Activated(n)
      /\ settling.failed <=> stepOf(n) > 0 /\ results[stepOf(n)] = "failed"
      /\ \A i \in OutOf(n) : met(graph.transitions[i]) => Fired(i)
      /\ settling.fired = 0 => \A i \in OutOf(n) : ~met(graph.transitions[i])
  BY <1>1, <1>4 DEF Run, SettlingMeant
<1>6. RunTyped'
  BY <1>1, <1>2 DEF Run, RunTyped
<1>7. JoinsKept'
  BY <1>1, JoinsAlone DEF Run
<1>8. FiringsMeant'
  BY <1>1, <1>2, <1>3, <1>4, <1>5 DEF Run, FiringsMeant
<1>9. SettlingMeant'
  BY <1>1 DEF SettlingMeant
<1>10. over => \E s \in steps : /\ results[s] = "failed"
                                /\ \A i \in OutOf(stepNode(definition, s)) : ~met(graph.transitions[i])
  <2> SUFFICES ASSUME over PROVE \E s \in steps :
                 /\ results[s] = "failed"
                 /\ \A i \in OutOf(stepNode(definition, s)) : ~met(graph.transitions[i])
    OBVIOUS
  <2>1. /\ stepOf(n) > 0 /\ results[stepOf(n)] = "failed"
        /\ \A i \in OutOf(n) : ~met(graph.transitions[i])
    BY <1>5
  <2>2. \E s \in steps : n = stepNode(definition, s)
    BY <1>5, <2>1, RunGraph, NodesApart, CompilableFacts DEF Run, Over, stepOf, steps, Success
  <2>3. PICK s \in steps : n = stepNode(definition, s)
    BY <2>2
  <2>4. stepOf(n) = s
    BY <2>3, NodesApart DEF Over, stepOf, steps
  <2> QED BY <2>1, <2>3, <2>4
<1>11. EndMeant'
  BY <1>1, <1>2, <1>3, <1>10 DEF Run, EndMeant, RunTyped
<1> QED BY <1>6, <1>7, <1>8, <1>9, <1>11 DEF Run

\* The least of some nodes or transitions, by their numbers.
LEMMA Least ==
    ASSUME NEW S \in SUBSET Nat, S # {}
    PROVE  Min(S) \in S /\ Graph!Min(S) = Min(S)
<1>1. PICK s \in S : \A r \in S : ~(r < s)
  BY FirstStep
<1>2. \A r \in S : s <= r
  BY <1>1
<1>3. Min(S) \in S
  BY <1>2 DEF Min
<1> QED BY <1>3 DEF Min, Graph!Min

\* How a step's node settles is what the step came to.
LEMMA SettlesAsItDid ==
    ASSUME Over, Why, Run, NEW n \in graph.nodes, Activated(n), NEW failed \in BOOLEAN,
           asItDid(n, failed), ~(failed /\ Graph!attempt(n) < graph.maxAttempts[n])
    PROVE  failed <=> stepOf(n) > 0 /\ results[stepOf(n)] = "failed"
<1>1. stepOf(n) \in Int
  BY RunGraph, CompilableFacts DEF Run, Over, stepOf
<1>2. CASE stepOf(n) > 0
  <2>1. PICK s \in steps : n = stepNode(definition, s)
    <3>1. \/ n \in {graph.entry, Success}
          \/ \E s \in steps : n \in {stepNode(definition, s), skipNode(definition, s),
                                     doneNode(definition, s)}
          \/ \E s \in definition.when : n = whenNode(definition, s)
      BY RunGraph DEF Run
    <3>2. n \notin {graph.entry, Success}
      <4>1. graph.entry = startNode(definition) /\ definition \in Compilable /\ last(definition) \in Nat
        BY RunGraph, CompilableFacts DEF Run, Over
      <4> QED BY <1>2, <4>1 DEF stepOf, startNode, successNode, Success
    <3>3. definition.when \subseteq steps /\ definition \in Compilable
      BY CompilableFacts DEF Over, steps
    <3>4. \A s \in steps : /\ ~(stepOf(skipNode(definition, s)) > 0)
                           /\ ~(stepOf(doneNode(definition, s)) > 0)
                           /\ ~(stepOf(whenNode(definition, s)) > 0)
      <4>1. last(definition) \in Nat /\ \A s \in steps : s \in Nat
        BY <3>3, CompilableFacts DEF steps
      <4> QED BY <3>3, <4>1, NodesApart DEF stepOf, steps, skipNode, doneNode, whenNode
    <3> QED BY <1>2, <3>1, <3>2, <3>3, <3>4
  <2>2. stepOf(n) = s
    BY <2>1, NodesApart DEF Over, stepOf, steps
  <2>3. results[s] # "skipped"
    BY <2>1, StepsRan DEF Run
  <2> QED BY <1>1, <1>2, <2>2, <2>3 DEF asItDid
<1>3. CASE ~(stepOf(n) > 0)
  BY <1>1, <1>3 DEF asItDid
<1> QED BY <1>2, <1>3

\* A node settles as its step did, after its retries.
LEMMA RunTakeResult ==
    ASSUME Over, Why, Run, executions # {}, NEW failed \in BOOLEAN,
           asItDid(Graph!current, failed), Graph!TakeResult(failed), UNCHANGED vars
    PROVE  Run'
<1> PICK n : n = Graph!current
  OBVIOUS
<1>1. n \in executions /\ n \in graph.nodes /\ Activated(n) /\ tick = "batch"
  <2>1. executions \in SUBSET Nat
    BY RunGraph DEF Run, RunTyped
  <2>2. n \in executions
    BY <2>1, Least DEF Graph!current
  <2> QED BY <2>2 DEF Run, RunTyped, EndMeant, Graph!TakeResult
<1> DEFINE retry == failed /\ Graph!attempt(n) < graph.maxAttempts[n]
<1>2. /\ UNCHANGED <<graph, loopCounters, activations, fatalError, stopped>>
      /\ nodeResults' = [nodeResults EXCEPT ![n] = @ + 1]
      /\ waiting' = waiting \ {n}
  BY DEF Graph!TakeResult
<1>3. /\ \A i : Fired(i)' <=> Fired(i)
      /\ \A m : Activated(m)' <=> Activated(m)
  BY <1>2 DEF Fired, Activated
<1>4. /\ \A m : Into(m)' = Into(m) /\ OutOf(m)' = OutOf(m)
      /\ Success' = Success /\ steps' = steps /\ results' = results /\ definition' = definition
      /\ \A t : met(t)' <=> met(t)
      /\ \A m : stepOf(m)' = stepOf(m)
  BY <1>2, WorldKept
<1>5. Graph!isTerminalNode(graph, n) <=> n = Success
  BY <1>1, RunGraph DEF Run
<1>6. JoinsKept'
  BY <1>2, JoinsAlone DEF Run
<1>7. CASE n = Success
  <2>1. /\ terminal' = graph.kind[n] /\ active' = active \ {n} /\ executions' = {} /\ tick' = "loop"
    BY <1>5, <1>7 DEF Graph!TakeResult
  <2>2. terminal' = "completed"
    BY <1>1, <1>7, <2>1, RunGraph DEF Run
  <2>3. RunTyped'
    BY <1>1, <1>2, <1>4, <2>1, <2>2 DEF Run, RunTyped
  <2>4. FiringsMeant'
    BY <1>1, <1>2, <1>3, <1>4, <1>7, <2>1 DEF Run, FiringsMeant
  <2>5. SettlingMeant'
    BY <2>1 DEF SettlingMeant
  <2>6. EndMeant'
    BY <1>1, <1>2, <1>3, <1>4, <1>7, <2>1, <2>2 DEF Run, EndMeant, RunTyped
  <2> QED BY <1>6, <2>3, <2>4, <2>5, <2>6 DEF Run
<1>8. CASE n # Success /\ retry
  <2>1. /\ active' = active \cup {n} /\ executions' = executions \ {n}
        /\ UNCHANGED <<terminal, tick, settling>>
    BY <1>5, <1>8 DEF Graph!TakeResult
  <2>2. RunTyped'
    BY <1>1, <1>2, <1>4, <2>1 DEF Run, RunTyped
  <2>3. FiringsMeant'
    BY <1>1, <1>2, <1>3, <1>4, <2>1 DEF Run, FiringsMeant
  <2>4. SettlingMeant'
    BY <1>1, <2>1 DEF SettlingMeant
  <2>5. EndMeant'
    BY <1>1, <1>2, <1>3, <1>4, <1>8, <2>1 DEF Run, EndMeant, RunTyped
  <2> QED BY <1>6, <2>2, <2>3, <2>4, <2>5 DEF Run
<1>9. CASE n # Success /\ ~retry
  <2>1. /\ active' = active \ {n} /\ executions' = executions \ {n}
        /\ settling' = [node |-> n, failed |-> failed, rest |-> Graph!outgoingOf(n), fired |-> 0]
        /\ tick' = "fire" /\ UNCHANGED terminal
    BY <1>5, <1>9 DEF Graph!TakeResult
  <2>2. Graph!outgoingOf(n) = OutOf(n)
    BY DEF Graph!outgoingOf, Graph!transitions, OutOf
  <2>3. failed <=> stepOf(n) > 0 /\ results[stepOf(n)] = "failed"
    BY <1>1, <1>9, SettlesAsItDid
  <2>4. RunTyped'
    BY <1>1, <1>2, <1>4, <2>1 DEF Run, RunTyped
  <2>5. FiringsMeant'
    BY <1>1, <1>2, <1>3, <1>4, <2>1 DEF Run, FiringsMeant
  <2>6. SettlingMeant'
    BY <1>1, <1>2, <1>3, <1>4, <1>9, <2>1, <2>2, <2>3 DEF SettlingMeant
  <2>7. EndMeant'
    BY <1>1, <1>2, <1>3, <1>4, <1>9, <2>1 DEF Run, EndMeant, RunTyped
  <2> QED BY <1>6, <2>4, <2>5, <2>6, <2>7 DEF Run
<1> QED BY <1>7, <1>8, <1>9

\* Transitions lead from nodes to nodes.
LEMMA EdgesWithin ==
    ASSUME NEW d \in Compilable, NEW t, Edge(d, t)
    PROVE  t.from \in compileWorkflow(d).nodes /\ t.to \in compileWorkflow(d).nodes
<1> PICK g : g = compileWorkflow(d)
  OBVIOUS
<1>1. g.nodes = {startNode(d), successNode(d)} \cup {stepNode(d, s) : s \in d.steps}
                \cup {whenNode(d, s) : s \in d.when}
                \cup {skipNode(d, s) : s \in {s \in d.steps : isSkipCapable(d)[s]}}
                \cup {doneNode(d, s) : s \in ends(d)}
  BY CompiledGraph
<1>2. /\ d.when \subseteq d.steps /\ ends(d) \subseteq d.steps
      /\ \A s \in d.steps : d.dependsOn[s] \subseteq d.steps
  BY CompilableFacts DEF ends
<1>3. /\ startNode(d) \in g.nodes /\ successNode(d) \in g.nodes
      /\ \A s \in d.steps : stepNode(d, s) \in g.nodes
      /\ \A s \in d.when : whenNode(d, s) \in g.nodes
      /\ \A s \in d.steps : isSkipCapable(d)[s] => skipNode(d, s) \in g.nodes
      /\ \A s \in ends(d) : doneNode(d, s) \in g.nodes
  BY <1>1
<1>4. \A s \in d.when : isSkipCapable(d)[s]
  BY <1>2, SkipCapable
<1>5. ASSUME NEW s \in d.when, WhenEdge(d, s, t) PROVE t.from \in g.nodes /\ t.to \in g.nodes
  BY <1>2, <1>3, <1>4, <1>5 DEF WhenEdge, transition
<1>6. ASSUME NEW s \in d.steps \ d.when, StepEdge(d, s, t) PROVE t.from \in g.nodes /\ t.to \in g.nodes
  <2>1. \A dep \in d.dependsOn[s] : isSkipCapable(d)[dep] => isSkipCapable(d)[s]
    BY SkipCapable
  <2> QED BY <1>2, <1>3, <1>6, <2>1 DEF StepEdge, transition
<1>7. ASSUME NEW s \in ends(d), DoneEdge(d, s, t) PROVE t.from \in g.nodes /\ t.to \in g.nodes
  BY <1>2, <1>3, <1>7 DEF DoneEdge, transition
<1> QED BY <1>5, <1>6, <1>7 DEF Edge

\* The condition of a transition that is looked at holds as it does in the end.
LEMMA ConditionsMeant ==
    ASSUME Over, Why, Run, tick = "fire", NEW i \in OutOf(settling.node)
    PROVE  conditionHolds(graph.transitions[i]) <=> met(graph.transitions[i])
<1> PICK t : t = graph.transitions[i]
  OBVIOUS
<1>1. /\ i \in DOMAIN graph.transitions /\ t.from = settling.node /\ Edge(definition, t)
      /\ t.from \in graph.nodes /\ Activated(t.from)
      /\ settling.failed \in BOOLEAN
      /\ settling.failed <=> stepOf(t.from) > 0 /\ results[stepOf(t.from)] = "failed"
  BY RunGraph DEF OutOf, Run, SettlingMeant
<1>2. /\ t.condition \in {"always", "succeeded", "true", "false"}
      /\ t.condition = "succeeded" => \E s \in steps : t.from = stepNode(definition, s)
  BY <1>1, EdgesAround DEF Over, steps
<1>3. CASE t.condition = "succeeded"
  <2>1. PICK s \in steps : t.from = stepNode(definition, s)
    BY <1>2, <1>3
  <2>2. stepOf(t.from) = s /\ s > 0
    BY <2>1, NodesApart, NodesTyped DEF Over, stepOf, steps
  <2>3. results[s] \in {"succeeded", "failed"}
    BY <1>1, <2>1, StepsRan DEF Run, Why
  <2> QED BY <1>1, <1>3, <2>2, <2>3 DEF met, conditionHolds
<1>4. CASE t.condition # "succeeded"
  BY <1>2, <1>4 DEF met, conditionHolds
<1> QED BY <1>3, <1>4

LEMMA SameCardinality ==
    ASSUME NEW S
    PROVE  Graph!Cardinality(S) = Cardinality(S)
  BY DEF Graph!Cardinality, Cardinality

\* A transition that fired counts as a firing for the join it leads to.
LEMMA FiringsCount ==
    ASSUME NEW m, NEW counters \in [DOMAIN graph.transitions -> Nat],
           IsFiniteSet(DOMAIN graph.transitions),
           NEW i \in Into(m), counters[i] > 0
    PROVE  Graph!totalFirings(m, counters) \in Nat \ {0}
<1> DEFINE all == UNION {Graph!firingsOf(j, counters) : j \in Graph!incoming(m)}
<1>1. Graph!incoming(m) = Into(m) /\ Into(m) \subseteq DOMAIN graph.transitions
  BY DEF Graph!incoming, Graph!transitions, Into
<1>2. IsFiniteSet(Into(m))
  BY <1>1, FS_Subset
<1>3. ASSUME NEW j \in Into(m)
      PROVE  IsFiniteSet(Graph!firingsOf(j, counters))
  <2>1. counters[j] \in Nat
    BY <1>1
  <2>2. PICK k \in Int : k = counters[j]
    BY <2>1
  <2>3. IsFiniteSet(1..k)
    BY FS_Interval
  <2>4. IsFiniteSet({j})
    BY FS_Singleton
  <2>5. PICK A, B : A = {j} /\ B = 1..k
    OBVIOUS
  <2>6. IsFiniteSet(A \X B)
    BY <2>3, <2>4, <2>5, FS_Product
  <2> QED BY <2>2, <2>5, <2>6 DEF Graph!firingsOf
<1>4. IsFiniteSet({Graph!firingsOf(j, counters) : j \in Into(m)})
  <2> DEFINE T == {Graph!firingsOf(j, counters) : j \in Into(m)}
             f == [j \in Into(m) |-> Graph!firingsOf(j, counters)]
  <2>1. f \in Surjection(Into(m), T)
    BY DEF Surjection
  <2> HIDE DEF T, f
  <2>2. IsFiniteSet(T)
    BY <1>2, <2>1, FS_Surjection
  <2> QED BY <2>2 DEF T
<1>5. IsFiniteSet(all)
  BY <1>1, <1>3, <1>4, FS_UNION
<1>6. <<i, 1>> \in all
  <2>1. counters[i] \in Nat /\ 1 \in 1..counters[i]
    BY <1>1
  <2>2. <<i, 1>> \in Graph!firingsOf(i, counters)
    BY <2>1 DEF Graph!firingsOf
  <2> QED BY <1>1, <2>2
<1>7. Graph!totalFirings(m, counters) = Cardinality(all)
  <2>1. Graph!Cardinality(all) = Cardinality(all)
    BY SameCardinality
  <2> QED BY <2>1 DEF Graph!totalFirings
<1> HIDE DEF all
<1>8. Cardinality(all) \in Nat /\ Cardinality(all) # 0
  BY <1>5, <1>6, FS_CardinalityType, FS_EmptySet
<1> QED BY <1>7, <1>8

\* The joins the compiler uses.
LEMMA JoinModes ==
    ASSUME Over, RunTyped, NEW n \in graph.nodes \ {graph.entry}
    PROVE  graph.join[n].mode \in {"implicit", "all", "min"}
<1>1. graph.join[n] = joinOf(definition, n)
  BY RunGraph
<1>2. definition \in Compilable /\ definition.when \subseteq steps /\ steps = definition.steps
  BY CompilableFacts DEF Over, steps
<1>3. CASE n = Success
  BY <1>1, <1>2, <1>3, Joins DEF Success
<1>4. CASE \E s \in steps : n \in {stepNode(definition, s), skipNode(definition, s),
                                   doneNode(definition, s)}
  BY <1>1, <1>2, <1>4, Joins
<1>5. CASE \E s \in definition.when : n = whenNode(definition, s)
  <2>1. PICK s \in definition.when : n = whenNode(definition, s)
    BY <1>5
  <2>2. \/ joinOf(definition, n).mode \in {"implicit", "all"}
        \/ joinOf(definition, n) = [mode |-> "min", n |-> Cardinality(definition.dependsOn[s])]
    BY <1>2, <2>1, Joins
  <2> QED BY <1>1, <2>2
<1> QED BY <1>3, <1>4, <1>5, RunGraph

\* A firing that satisfies the join of a node activates it, and only such a firing does.
LEMMA JoinsPassed ==
    ASSUME Over, Run, NEW i \in DOMAIN graph.transitions, NEW m, m = graph.transitions[i].to,
           NEW counters, counters = [loopCounters EXCEPT ![i] = @ + 1], loopCounters' = counters,
           NEW satisfied \in BOOLEAN, satisfied <=> Graph!joinSatisfied(m, counters),
           activations' = IF satisfied THEN [activations EXCEPT ![m] = @ + 1] ELSE activations,
           UNCHANGED <<vars, graph>>
    PROVE  JoinsKept'
<1>1. /\ m \in graph.nodes \ {graph.entry} /\ i \in Into(m)
      /\ Into(m) \subseteq DOMAIN graph.transitions /\ IsFiniteSet(DOMAIN graph.transitions)
      /\ graph.join[m] = joinOf(definition, m)
  <2>1. /\ Edge(definition, graph.transitions[i]) /\ m # graph.entry
        /\ IsFiniteSet(DOMAIN graph.transitions)
    BY RunGraph DEF Run
  <2>2. m \in graph.nodes
    <3> PICK t : t = graph.transitions[i]
      OBVIOUS
    <3> QED BY <2>1, EdgesWithin DEF Run, RunTyped, Over
  <2> QED BY <2>1, <2>2, RunGraph DEF Into, Run
<1>2. /\ activations \in [graph.nodes -> Nat] /\ loopCounters \in [DOMAIN graph.transitions -> Nat]
      /\ JoinsKept
  BY DEF Run, RunTyped
<1>3. /\ counters \in [DOMAIN graph.transitions -> Nat] /\ counters[i] > 0
      /\ \A j \in DOMAIN graph.transitions : /\ counters[j] > 0 <=> Fired(j) \/ j = i
                                             /\ Fired(j)' <=> Fired(j) \/ j = i
  BY <1>2 DEF Fired
<1>4. \A n \in graph.nodes : Activated(n)' <=> Activated(n) \/ (n = m /\ satisfied)
  BY <1>1, <1>2 DEF Activated
<1>5. \A n : Into(n)' = Into(n) /\ Into(n) \subseteq DOMAIN graph.transitions
  BY WorldKept DEF Into
<1> SUFFICES ASSUME NEW n \in graph.nodes \ {graph.entry}
    PROVE
        LET join == graph.join[n] IN
        /\ Activated(n)' => IF join.mode = "all" THEN \A j \in Into(n) : Fired(j)'
                                                 ELSE \E j \in Into(n) : Fired(j)'
        /\ join.mode = "implicit" /\ (\E j \in Into(n) : Fired(j)') => Activated(n)'
        /\ join.mode = "all" /\ Into(n) # {} /\ (\A j \in Into(n) : Fired(j)') => Activated(n)'
        /\ join.mode = "min" /\ Cardinality({j \in Into(n) : Fired(j)'}) >= join.n => Activated(n)'
  BY <1>5 DEF JoinsKept
<1> DEFINE join == graph.join[n]
<1>6. /\ Activated(n) => IF join.mode = "all" THEN \A j \in Into(n) : Fired(j)
                                              ELSE \E j \in Into(n) : Fired(j)
      /\ join.mode = "implicit" /\ (\E j \in Into(n) : Fired(j)) => Activated(n)
      /\ join.mode = "all" /\ Into(n) # {} /\ (\A j \in Into(n) : Fired(j)) => Activated(n)
      /\ join.mode = "min" /\ Cardinality({j \in Into(n) : Fired(j)}) >= join.n => Activated(n)
  BY <1>2 DEF JoinsKept
<1>7. CASE n # m
  <2>1. i \notin Into(n)
    BY <1>7 DEF Into
  <2>2. \A j \in Into(n) : Fired(j)' <=> Fired(j)
    BY <1>3, <1>5, <2>1
  <2>3. {j \in Into(n) : Fired(j)'} = {j \in Into(n) : Fired(j)}
    BY <2>2
  <2> HIDE DEF join
  <2>4. Activated(n)' <=> Activated(n)
    BY <1>4, <1>7
  <2> QED BY <1>6, <2>2, <2>3, <2>4 DEF join
<1>8. CASE n = m
  <2> DEFINE firedInto == {j \in Into(n) : counters[j] > 0}
  <2>1. firedInto = {j \in Into(n) : Fired(j)'} /\ Graph!incoming(m) = Into(n)
    BY <1>3, <1>5, <1>8 DEF Graph!incoming, Graph!transitions, Into
  <2>2. Graph!entryOffset(m) = 0
    BY <1>1 DEF Graph!entryOffset
  <2>3. /\ Graph!firedCount(m, counters) = Cardinality(firedInto)
        /\ Cardinality(Graph!incoming(m)) = Cardinality(Into(n))
    BY <2>1, SameCardinality DEF Graph!firedCount
  <2>4. Graph!totalFirings(m, counters) \in Nat \ {0}
    BY <1>1, <1>3, FiringsCount
  <2>5. activations[m] \in Nat /\ (Activated(n) <=> activations[m] # 0)
    <3>1. m \in graph.nodes /\ activations[m] \in Nat
      BY <1>1, <1>2
    <3> QED BY <1>8, <3>1 DEF Activated
  <2>6. join.mode \in {"implicit", "all", "min"}
    BY <1>8, JoinModes DEF Run
  <2>7. IsFiniteSet(Into(n)) /\ firedInto \subseteq Into(n) /\ i \in firedInto /\ Into(n) # {}
    BY <1>1, <1>3, <1>8, FS_Subset
  <2>8. Graph!firedCount(m, counters) = Cardinality(Graph!incoming(m)) <=> firedInto = Into(n)
    BY <2>3, <2>7, FS_Subset
  <2>9. satisfied <=>
          \/ join.mode = "implicit" /\ Graph!totalFirings(m, counters) > activations[m]
          \/ join.mode = "all" /\ firedInto = Into(n) /\ activations[m] = 0
          \/ join.mode = "min" /\ Cardinality(firedInto) >= join.n /\ activations[m] = 0
    <3>1. activations[m] - Graph!entryOffset(m) = activations[m]
      BY <2>2, <2>5
    <3>2. satisfied <=>
            \/ join.mode = "implicit" /\ Graph!totalFirings(m, counters) > activations[m]
            \/ join.mode = "any" /\ Graph!maxSingleFirings(m, counters) > activations[m]
            \/ /\ join.mode = "all" /\ activations[m] = 0
               /\ Graph!firedCount(m, counters) = Cardinality(Graph!incoming(m))
            \/ join.mode = "min" /\ Graph!firedCount(m, counters) >= join.n /\ activations[m] = 0
      BY <1>8, <3>1, SameCardinality DEF Graph!joinSatisfied
    <3> QED BY <2>3, <2>6, <2>8, <3>2
  <2>10. CASE satisfied
    <3>1. Activated(n)'
      BY <1>4, <1>8, <2>10
    <3>2. i \in Into(n) /\ Fired(i)'
      BY <1>3, <2>1, <2>7
    <3>3. join.mode = "all" => \A j \in Into(n) : Fired(j)'
      BY <1>3, <1>5, <2>9, <2>10
    <3> QED BY <3>1, <3>2, <3>3
  <2>11. CASE ~satisfied
    <3>1. Activated(n)' <=> Activated(n)
      BY <1>4, <2>11
    <3>2. Activated(n) => IF join.mode = "all" THEN \A j \in Into(n) : Fired(j)'
                                               ELSE \E j \in Into(n) : Fired(j)'
      BY <1>3, <1>5, <1>6
    <3>3. join.mode = "implicit" => Activated(n)
      BY <2>4, <2>5, <2>9, <2>11
    <3>4. join.mode = "all" /\ (\A j \in Into(n) : Fired(j)') => Activated(n)
      <4>1. (\A j \in Into(n) : Fired(j)') => firedInto = Into(n)
        BY <2>1
      <4> QED BY <2>5, <2>9, <2>11, <4>1
    <3>5. join.mode = "min" /\ Cardinality({j \in Into(n) : Fired(j)'}) >= join.n => Activated(n)
      BY <2>1, <2>5, <2>9, <2>11
    <3> QED BY <3>1, <3>2, <3>3, <3>4, <3>5
  <2> QED BY <2>10, <2>11
<1> QED BY <1>7, <1>8

\* The next transition is passed if its condition holds, which is as it will have been.
LEMMA FireMeans ==
    ASSUME Over, Why, Run, Graph!Fire,
           loopCounters' # loopCounters <=> conditionHolds(graph.transitions[Min(settling.rest)])
    PROVE  \E i \in OutOf(settling.node) :
             LET t == graph.transitions[i]
                 counters == [loopCounters EXCEPT ![i] = @ + 1]
             IN
             /\ tick = "fire" /\ i \in settling.rest /\ settling.rest \subseteq OutOf(settling.node)
             /\ UNCHANGED <<graph, nodeResults, tick, fatalError, executions, terminal, stopped>>
             /\ \/ /\ met(t) /\ loopCounters' = counters
                   /\ settling' = [settling EXCEPT !.rest = @ \ {i}, !.fired = @ + 1]
                   /\ IF Graph!joinSatisfied(t.to, counters) THEN Graph!activate(t.to)
                      ELSE UNCHANGED <<activations, active, waiting>>
                \/ /\ ~met(t)
                   /\ settling' = [settling EXCEPT !.rest = @ \ {i}]
                   /\ UNCHANGED <<loopCounters, activations, active, waiting>>
<1>1. tick = "fire" /\ settling.rest # {}
  BY DEF Graph!Fire
<1>2. settling.rest \subseteq OutOf(settling.node) /\ settling.rest \in SUBSET Nat
  BY <1>1, RunGraph DEF Run, SettlingMeant, OutOf
<1>3. PICK i : i = Min(settling.rest) /\ i = Graph!Min(settling.rest) /\ i \in settling.rest
  BY <1>1, <1>2, Least
<1>4. i \in DOMAIN graph.transitions /\ i \in OutOf(settling.node)
  BY <1>2, <1>3 DEF OutOf
<1> PICK t : t = graph.transitions[i]
  OBVIOUS
<1>5. conditionHolds(t) <=> met(t)
  BY <1>1, <1>4, ConditionsMeant
<1>6. ~Graph!BoundReached(i)
  BY <1>4, RunGraph DEF Run, Graph!BoundReached, Graph!transitions
<1>7. /\ \/ Graph!Pass(i)
         \/ /\ settling' = [settling EXCEPT !.rest = @ \ {i}]
            /\ UNCHANGED <<loopCounters, activations, active, waiting, nodeResults, tick, fatalError, executions>>
      /\ UNCHANGED <<graph, terminal, stopped>>
  BY <1>3, <1>6 DEF Graph!Fire, Graph!state
<1>8. Graph!Pass(i) =>
        LET counters == [loopCounters EXCEPT ![i] = @ + 1] IN
        /\ loopCounters' = counters
        /\ settling' = [settling EXCEPT !.rest = @ \ {i}, !.fired = @ + 1]
        /\ IF Graph!joinSatisfied(t.to, counters) THEN Graph!activate(t.to)
           ELSE UNCHANGED <<activations, active, waiting>>
        /\ UNCHANGED <<nodeResults, tick, fatalError, executions>>
  BY DEF Graph!Pass, Graph!transitions
<1>9. [loopCounters EXCEPT ![i] = @ + 1] # loopCounters
  <2>1. loopCounters[i] \in Nat /\ i \in DOMAIN loopCounters
    BY <1>4 DEF Run, RunTyped
  <2>2. [loopCounters EXCEPT ![i] = @ + 1][i] = loopCounters[i] + 1
    BY <2>1
  <2> QED BY <2>1, <2>2
<1>10. CASE Graph!Pass(i)
  BY <1>1, <1>2, <1>3, <1>4, <1>5, <1>7, <1>8, <1>9, <1>10
<1>11. CASE ~Graph!Pass(i)
  BY <1>1, <1>2, <1>3, <1>4, <1>5, <1>7, <1>11
<1> QED BY <1>10, <1>11

\* A transition fires if its condition holds, and activates its target if the join is satisfied.
LEMMA RunFire ==
    ASSUME Over, Why, Run, Graph!Fire, UNCHANGED vars,
           loopCounters' # loopCounters <=> conditionHolds(graph.transitions[Min(settling.rest)])
    PROVE  Run'
<1>1. PICK i \in OutOf(settling.node) :
             LET t == graph.transitions[i]
                 counters == [loopCounters EXCEPT ![i] = @ + 1]
             IN
             /\ tick = "fire" /\ i \in settling.rest /\ settling.rest \subseteq OutOf(settling.node)
             /\ UNCHANGED <<graph, nodeResults, tick, fatalError, executions, terminal, stopped>>
             /\ \/ /\ met(t) /\ loopCounters' = counters
                   /\ settling' = [settling EXCEPT !.rest = @ \ {i}, !.fired = @ + 1]
                   /\ IF Graph!joinSatisfied(t.to, counters) THEN Graph!activate(t.to)
                      ELSE UNCHANGED <<activations, active, waiting>>
                \/ /\ ~met(t)
                   /\ settling' = [settling EXCEPT !.rest = @ \ {i}]
                   /\ UNCHANGED <<loopCounters, activations, active, waiting>>
  BY FireMeans
<1> PICK t, n, m : t = graph.transitions[i] /\ n = settling.node /\ m = t.to
  OBVIOUS
<1> DEFINE counters == [loopCounters EXCEPT ![i] = @ + 1]
           satisfied == Graph!joinSatisfied(m, counters)
<1>2. /\ i \in DOMAIN graph.transitions /\ t.from = n /\ Edge(definition, t)
      /\ tick = "fire" /\ i \in settling.rest /\ settling.rest \subseteq OutOf(n)
      /\ UNCHANGED <<graph, nodeResults, tick, fatalError, executions, terminal, stopped>>
  BY <1>1, RunGraph DEF Run, OutOf
<1>3. m \in graph.nodes
  BY <1>2, EdgesWithin DEF Run, RunTyped, Over
<1>4. /\ \A k : Into(k)' = Into(k) /\ OutOf(k)' = OutOf(k)
      /\ Success' = Success /\ steps' = steps /\ results' = results /\ definition' = definition
      /\ \A u : met(u)' <=> met(u)
      /\ \A k : stepOf(k)' = stepOf(k)
  BY <1>2, WorldKept
<1>5. /\ settling \in [node : graph.nodes \ {Success}, failed : BOOLEAN,
                       rest : SUBSET OutOf(n), fired : Nat]
      /\ Activated(n)
      /\ settling.failed <=> stepOf(n) > 0 /\ results[stepOf(n)] = "failed"
      /\ \A j \in OutOf(n) \ settling.rest : met(graph.transitions[j]) => Fired(j)
      /\ settling.fired = 0 => \A j \in OutOf(n) \ settling.rest : ~met(graph.transitions[j])
  BY <1>2 DEF Run, SettlingMeant
<1>6. /\ activations \in [graph.nodes -> Nat] /\ loopCounters \in [DOMAIN graph.transitions -> Nat]
      /\ waiting = {} /\ active \subseteq graph.nodes
  BY DEF Run, RunTyped
<1>7. CASE ~met(t)
  <2>1. /\ settling' = [settling EXCEPT !.rest = @ \ {i}]
        /\ UNCHANGED <<loopCounters, activations, active, waiting>>
    BY <1>1, <1>7
  <2>2. /\ \A j : Fired(j)' <=> Fired(j)
        /\ \A k : Activated(k)' <=> Activated(k)
    BY <2>1 DEF Fired, Activated
  <2>3. /\ settling'.node = n /\ settling'.fired = settling.fired /\ settling'.failed = settling.failed
        /\ settling'.rest = settling.rest \ {i}
        /\ settling' \in [node : graph.nodes \ {Success}, failed : BOOLEAN,
                          rest : SUBSET OutOf(n), fired : Nat]
    BY <1>5, <2>1
  <2>4. RunTyped'
    BY <1>2, <1>4, <2>1 DEF Run, RunTyped
  <2>5. JoinsKept'
    BY <1>2, <2>1, JoinsAlone DEF Run
  <2>6. FiringsMeant'
    BY <1>2, <1>4, <2>1, <2>2, <2>3 DEF Run, FiringsMeant
  <2>7. SettlingMeant'
    BY <1>2, <1>4, <1>5, <1>7, <2>1, <2>2, <2>3 DEF SettlingMeant
  <2>8. EndMeant'
    BY <1>2, <1>4, <2>1, <2>2 DEF Run, EndMeant
  <2> QED BY <2>4, <2>5, <2>6, <2>7, <2>8 DEF Run
<1>8. CASE met(t)
  <2>1. /\ loopCounters' = counters
        /\ settling' = [settling EXCEPT !.rest = @ \ {i}, !.fired = @ + 1]
        /\ IF satisfied THEN Graph!activate(m) ELSE UNCHANGED <<activations, active, waiting>>
    BY <1>1, <1>8
  <2>2. /\ activations' = IF satisfied THEN [activations EXCEPT ![m] = @ + 1] ELSE activations
        /\ active' = IF satisfied THEN active \cup {m} ELSE active
        /\ waiting' = {}
    <3> HIDE DEF satisfied
    <3> QED BY <1>6, <2>1 DEF Graph!activate
  <2>3. \A j \in DOMAIN graph.transitions : Fired(j)' <=> Fired(j) \/ j = i
    BY <1>2, <1>6, <2>1 DEF Fired
  <2> PICK sat \in BOOLEAN : sat <=> satisfied
    OBVIOUS
  <2>4. /\ activations' = IF sat THEN [activations EXCEPT ![m] = @ + 1] ELSE activations
        /\ active' = IF sat THEN active \cup {m} ELSE active
    <3> HIDE DEF satisfied
    <3> QED BY <2>2
  <2>5. \A k \in graph.nodes : Activated(k)' <=> Activated(k) \/ (k = m /\ sat)
    BY <1>3, <1>6, <2>4 DEF Activated
  <2>6. /\ settling'.node = n /\ settling'.fired = settling.fired + 1
        /\ settling'.failed = settling.failed /\ settling'.rest = settling.rest \ {i}
        /\ settling' \in [node : graph.nodes \ {Success}, failed : BOOLEAN,
                          rest : SUBSET OutOf(n), fired : Nat]
        /\ settling'.fired # 0
    <3>1. settling' = [node |-> settling.node, failed |-> settling.failed,
                       rest |-> settling.rest \ {i}, fired |-> settling.fired + 1]
      BY <1>5, <2>1
    <3>2. /\ settling.node = n /\ n \in graph.nodes \ {Success} /\ settling.failed \in BOOLEAN
          /\ settling.rest \in SUBSET OutOf(n) /\ settling.fired \in Nat
      BY <1>5
    <3>3. settling.fired + 1 \in Nat /\ settling.fired + 1 # 0
      BY <3>2
    <3> QED BY <3>1, <3>2, <3>3
  <2>7. JoinsKept'
    <3>1. \E c, a : c = counters /\ (sat <=> Graph!joinSatisfied(m, c)) /\ loopCounters' = c
      BY <2>1
    <3> HIDE DEF counters, satisfied
    <3>2. PICK c : c = counters /\ (sat <=> Graph!joinSatisfied(m, c)) /\ loopCounters' = c
      BY <3>1
    <3>3. c = [loopCounters EXCEPT ![i] = @ + 1]
      BY <3>2 DEF counters
    <3> QED BY <1>2, <2>4, <3>2, <3>3, JoinsPassed
  <2> HIDE DEF satisfied, counters
  <2>8. RunTyped'
    <3>1. counters \in [DOMAIN graph.transitions -> Nat]
      BY <1>2, <1>6 DEF counters
    <3>2. activations' \in [graph.nodes -> Nat] /\ active' \subseteq graph.nodes
      BY <1>3, <1>6, <2>4
    <3> QED BY <1>2, <1>4, <2>1, <2>2, <3>1, <3>2 DEF Run, RunTyped
  <2>9. FiringsMeant'
    <3>1. \A j \in DOMAIN graph.transitions :
            Fired(j) \/ j = i => Activated(graph.transitions[j].from) /\ met(graph.transitions[j])
                                 /\ graph.transitions[j].from \in graph.nodes
      <4>1. \A j \in DOMAIN graph.transitions : graph.transitions[j].from \in graph.nodes
        <5> SUFFICES ASSUME NEW j \in DOMAIN graph.transitions
                     PROVE  graph.transitions[j].from \in graph.nodes
          OBVIOUS
        <5> PICK u : u = graph.transitions[j]
          OBVIOUS
        <5>1. Edge(definition, u)
          BY RunGraph DEF Run
        <5> QED BY <5>1, EdgesWithin DEF Run, RunTyped, Over
      <4> QED BY <1>2, <1>5, <1>8, <4>1 DEF Run, FiringsMeant
    <3>2. \A k \in graph.nodes \ {Success} :
            \/ ~Activated(k)' \/ k \in active' \/ settling'.node = k
            \/ \A j \in OutOf(k) : met(graph.transitions[j]) => Fired(j)'
      <4> SUFFICES ASSUME NEW k \in graph.nodes \ {Success}, Activated(k)', k \notin active', k # n
                   PROVE  \A j \in OutOf(k) : met(graph.transitions[j]) => Fired(j)'
        BY <2>6
      <4>1. Activated(k) /\ k \notin active
        BY <2>4, <2>5
      <4>2. \A j \in OutOf(k) : met(graph.transitions[j]) => Fired(j)
        BY <4>1 DEF Run, FiringsMeant
      <4> QED BY <2>3, <4>2 DEF OutOf
    <3>3. \A j \in DOMAIN graph.transitions :
            Fired(j)' => activations'[graph.transitions[j].from] > 0 /\ met(graph.transitions[j])
      BY <2>3, <2>5, <3>1 DEF Activated
    <3>4. \A j \in DOMAIN graph.transitions :
            Fired(j)' => Activated(graph.transitions[j].from)' /\ met(graph.transitions[j])
      BY <1>2, <3>3 DEF Activated
    <3> QED BY <1>2, <1>4, <3>2, <3>4 DEF FiringsMeant
  <2>10. SettlingMeant'
    <3>1. Activated(n)'
      BY <1>5, <2>5
    <3>2. \A j \in OutOf(n) \ settling'.rest : met(graph.transitions[j]) => Fired(j)'
      BY <1>5, <2>3, <2>6 DEF OutOf
    <3> QED BY <1>2, <1>4, <1>5, <2>6, <3>1, <3>2 DEF SettlingMeant
  <2>11. EndMeant'
    <3>1. /\ Activated(graph.entry) /\ graph.entry \in graph.nodes /\ Success \in graph.nodes
          /\ \A k \in active \cup executions : Activated(k) /\ k \in graph.nodes
          /\ \A k \in graph.nodes : nodeResults[k] > 0 => Activated(k)
          /\ Activated(Success) <=> Success \in active \/ terminal = "completed"
      BY RunGraph DEF Run, EndMeant, RunTyped
    <3>2. /\ Activated(graph.entry)'
          /\ \A k \in active' \cup executions' : Activated(k)'
          /\ \A k \in graph.nodes : nodeResults'[k] > 0 => Activated(k)'
      BY <1>2, <1>3, <2>4, <2>5, <3>1
    <3>3. Activated(Success)' <=> Success \in active' \/ terminal' = "completed"
      <4> PICK k : k = Success
        OBVIOUS
      <4>1. Activated(k)' <=> k \in active' \/ terminal' = "completed"
        BY <1>2, <2>4, <2>5, <3>1
      <4> QED BY <1>4, <4>1 DEF Activated
    <3>4. tick' # "ended"
      BY <1>2
    <3>5. fatalError => \E s \in steps :
                       /\ results[s] = "failed"
                       /\ \A j \in OutOf(stepNode(definition, s)) : ~met(graph.transitions[j])
      BY DEF Run, EndMeant
    <3> QED BY <1>2, <1>4, <3>2, <3>3, <3>4, <3>5 DEF EndMeant
  <2> QED BY <2>7, <2>8, <2>9, <2>10, <2>11 DEF Run
<1> QED BY <1>7, <1>8

\* A tick starts at the entry of the compiled graph.
LEMMA RunStart ==
    ASSUME Over, Graph!Fresh(compileWorkflow(definition)), Graph!StartTick({}), UNCHANGED vars
    PROVE  Run'
<1> PICK d \in Compilable : d = definition
  BY DEF Over
<1> PICK g : g = compileWorkflow(d)
  OBVIOUS
<1>1. /\ graph = g /\ active = {} /\ waiting = {}
      /\ loopCounters = [i \in DOMAIN g.transitions |-> 0]
      /\ activations = [n \in g.nodes |-> 0]
      /\ nodeResults = [n \in g.nodes |-> 0]
  BY DEF Graph!Fresh
<1>2. ~Graph!started
  BY <1>1 DEF Graph!started
<1>3. /\ graph' = g /\ active' = {g.entry} /\ waiting' = {}
      /\ loopCounters' = [i \in DOMAIN g.transitions |-> 0]
      /\ activations' = [activations EXCEPT ![g.entry] = @ + 1]
      /\ nodeResults' = [n \in g.nodes |-> 0]
      /\ tick' = "loop" /\ executions' = {} /\ terminal' = "none" /\ fatalError' = FALSE
      /\ stopped' = FALSE
  BY <1>1, <1>2 DEF Graph!StartTick
<1>4. /\ g.entry = startNode(d) /\ g.entry \in g.nodes
      /\ \A n \in g.nodes : g.join[n] = joinOf(d, n)
      /\ successNode(d) # g.entry /\ successNode(d) \in g.nodes
  BY CompiledGraph, NodesApart
<1>5. definition' = d /\ steps' = steps /\ Success' = successNode(d)
  BY DEF vars, outcome, steps, Success
<1>6. \A n \in g.nodes : activations'[n] = IF n = g.entry THEN 1 ELSE 0
  BY <1>1, <1>3, <1>4
<1>7. activations' \in [g.nodes -> Nat]
  BY <1>1, <1>3, <1>4
<1>8. /\ \A i \in DOMAIN g.transitions : ~Fired(i)'
      /\ \A n \in g.nodes : Activated(n)' <=> n = g.entry
  BY <1>3, <1>6 DEF Fired, Activated
<1>9. RunTyped'
  BY <1>3, <1>4, <1>5, <1>7 DEF RunTyped
<1>10. JoinsKept'
  <2> SUFFICES ASSUME NEW n \in g.nodes \ {g.entry}, g.join[n].mode = "min"
               PROVE  ~(Cardinality({}) >= g.join[n].n)
    <3>1. \A n : Into(n)' \subseteq DOMAIN g.transitions
      BY <1>3 DEF Into
    <3>2. \A n : {i \in Into(n)' : Fired(i)'} = {}
      BY <1>8, <3>1
    <3>3. \A n \in g.nodes \ {g.entry} : ~Activated(n)'
      BY <1>8
    <3> QED BY <1>3, <1>8, <3>1, <3>2, <3>3 DEF JoinsKept
  <2>1. n \in {whenNode(d, s) : s \in d.when}
    <3>1. joinOf(d, n).mode = "min"
      BY <1>4
    <3>2. g.nodes = {startNode(d), successNode(d)} \cup {stepNode(d, s) : s \in d.steps}
                    \cup {whenNode(d, s) : s \in d.when}
                    \cup {skipNode(d, s) : s \in {s \in d.steps : isSkipCapable(d)[s]}}
                    \cup {doneNode(d, s) : s \in ends(d)}
      BY CompiledGraph
    <3>3. ends(d) \subseteq d.steps
      BY DEF ends
    <3>4. n # successNode(d) /\ \A s \in d.steps : n \notin {stepNode(d, s), skipNode(d, s), doneNode(d, s)}
      BY <3>1, Joins
    <3> QED BY <1>4, <3>2, <3>3, <3>4
  <2>2. PICK s \in d.when : n = whenNode(d, s)
    BY <2>1
  <2>3. /\ d.dependsOn[s] # {} /\ g.join[n] = [mode |-> "min", n |-> Cardinality(d.dependsOn[s])]
    BY <1>4, <2>2, Joins
  <2>4. IsFiniteSet(d.dependsOn[s])
    BY CompilableFacts, FS_Subset
  <2>5. Cardinality(d.dependsOn[s]) \in Nat \ {0} /\ Cardinality({}) = 0
    BY <2>3, <2>4, FS_CardinalityType, FS_EmptySet
  <2> QED BY <2>3, <2>5
<1>11. FiringsMeant'
  BY <1>3, <1>8 DEF FiringsMeant
<1>12. SettlingMeant'
  BY <1>3 DEF SettlingMeant
<1>13. EndMeant'
  <2>1. ~Activated(Success)'
    BY <1>4, <1>5, <1>6 DEF Activated
  <2>2. Activated(graph.entry)'
    BY <1>3, <1>4, <1>6 DEF Activated
  <2> QED BY <1>3, <1>4, <1>5, <1>8, <2>1, <2>2 DEF EndMeant
<1> QED BY <1>9, <1>10, <1>11, <1>12, <1>13 DEF Run

-----------------------------------------------------------------------------
(* Compiled workflows: the two engines side by side *)

LEMMA ComparedRun ==
    ASSUME Compared, Over => Why, RunCompiled
    PROVE  Compared'
<1>1. Over /\ Why /\ UNCHANGED vars
  BY DEF RunCompiled, Over
<1>2. Over'
  BY <1>1 DEF vars, outcome, Over, settledSteps, steps
<1>3. CASE Graph!StartTick({})
  <2>1. tick = "idle" /\ tick' # "idle"
    BY <1>3 DEF Graph!StartTick
  <2> QED BY <1>1, <1>2, <1>3, <2>1, RunStart DEF Compared, Over
<1>4. ASSUME tick # "idle", Run' PROVE Compared'
  BY <1>2, <1>4 DEF Compared, Run, RunTyped
<1>5. CASE Graph!Execute
  BY <1>1, <1>4, <1>5, RunExecute DEF Compared, Graph!Execute
<1>6. CASE Graph!RoundOver
  BY <1>1, <1>4, <1>6, RunRoundOver DEF Compared, Graph!RoundOver
<1>7. CASE Graph!Settled
  BY <1>1, <1>4, <1>7, RunSettled DEF Compared, Graph!Settled
<1>8. CASE Graph!EndTick
  BY <1>1, <1>4, <1>8, RunEndTick DEF Compared, Graph!EndTick, Graph!Finished
<1>9. ASSUME NEW failed \in BOOLEAN, executions # {}, asItDid(Graph!current, failed),
             Graph!TakeResult(failed)
      PROVE  Compared'
  BY <1>1, <1>4, <1>9, RunTakeResult DEF Compared, Graph!TakeResult
<1>10. ASSUME Graph!Fire,
              loopCounters' # loopCounters <=> conditionHolds(graph.transitions[Min(settling.rest)])
       PROVE  Compared'
  BY <1>1, <1>4, <1>10, RunFire DEF Compared, Graph!Fire
<1> QED BY <1>3, <1>5, <1>6, <1>7, <1>8, <1>9, <1>10 DEF RunCompiled

\* What the version 1 engine does once it is done is of no concern to the run.
LEMMA ComparedStep ==
    ASSUME Compared, TypeOK, InOrder, [Next]_vars, UNCHANGED graphVars
    PROVE  Compared'
<1>1. CASE tick = "idle"
  <2>1. definition' = definition
    BY DEF Next, Loop, Unresolved, Launch, LaunchThrows, Resume, Rethrow, Return, Cancelled, Drained,
           Abort, Succeeds, Fails, TimesOut, Retry, Rejects, LateReturn, others, vars
  <2>2. ASSUME NEW g, Graph!Fresh(g) PROVE Graph!Fresh(g)'
    BY <2>2 DEF Graph!Fresh, graphVars
  <2>3. PICK g : g = compileWorkflow(definition)
    OBVIOUS
  <2>4. g = compileWorkflow(definition')
    BY <2>1, <2>3
  <2>5. tick' = "idle"
    BY <1>1 DEF graphVars
  <2>6. definition' \in Compilable => Graph!Fresh(g)
    BY <1>1, <2>1, <2>3 DEF Compared
  <2>7. definition' \in Compilable => Graph!Fresh(g)'
    BY <2>2, <2>6
  <2> QED BY <2>4, <2>5, <2>7 DEF Compared
<1>2. CASE tick # "idle"
  <2>1. Over /\ Run
    BY <1>2 DEF Compared
  <2>2. UNCHANGED <<definition, results, tainted, pc, cancelled>>
    BY <2>1, OverStays
  <2>3. Over'
    BY <2>1, <2>2 DEF Over, settledSteps, steps
  <2>4. /\ UNCHANGED <<graph, active, waiting, loopCounters, activations, nodeResults, tick,
                       terminal, fatalError, stopped, executions, settling>>
    BY DEF graphVars
  <2>5. RunTyped'
    BY <2>1, <2>2, <2>4 DEF Run, RunTyped
  <2>6. /\ \A n : Into(n)' = Into(n) /\ OutOf(n)' = OutOf(n)
        /\ Success' = Success /\ steps' = steps
        /\ \A t : met(t)' <=> met(t)
        /\ \A n : stepOf(n)' = stepOf(n)
        /\ \A i : Fired(i)' <=> Fired(i)
        /\ \A n : Activated(n)' <=> Activated(n)
    BY <2>2, <2>4 DEF Into, OutOf, Success, steps, met, stepOf, Fired, Activated
  <2>7. JoinsKept'
    BY <2>1, <2>4, <2>6 DEF Run, JoinsKept
  <2>8. FiringsMeant'
    BY <2>1, <2>4, <2>6 DEF Run, FiringsMeant
  <2>9. SettlingMeant'
    BY <2>1, <2>2, <2>4, <2>6 DEF Run, SettlingMeant
  <2>10. EndMeant'
    BY <2>1, <2>2, <2>4, <2>6 DEF Run, EndMeant
  <2> QED BY <1>2, <2>3, <2>4, <2>5, <2>7, <2>8, <2>9, <2>10 DEF Compared, Run
<1> QED BY <1>1, <1>2

\* The nodes that are neither the entry nor the end.
LEMMA NodesOfRun ==
    ASSUME Over, RunTyped
    PROVE  /\ \A s \in steps : stepNode(definition, s) \in graph.nodes \ {graph.entry, Success}
           /\ \A s \in definition.when : whenNode(definition, s) \in graph.nodes \ {graph.entry, Success}
           /\ \A s \in steps : isSkipCapable(definition)[s] =>
                skipNode(definition, s) \in graph.nodes \ {graph.entry, Success}
           /\ \A s \in ends(definition) : doneNode(definition, s) \in graph.nodes \ {graph.entry, Success}
<1> PICK d \in Compilable : d = definition
  BY DEF Over
<1> PICK g : g = graph
  OBVIOUS
<1>1. g = compileWorkflow(d)
  BY DEF RunTyped
<1>2. /\ g.entry = startNode(d)
      /\ g.nodes = {startNode(d), successNode(d)} \cup {stepNode(d, s) : s \in d.steps}
                   \cup {whenNode(d, s) : s \in d.when}
                   \cup {skipNode(d, s) : s \in {s \in d.steps : isSkipCapable(d)[s]}}
                   \cup {doneNode(d, s) : s \in ends(d)}
  BY <1>1, CompiledGraph
<1>3. d.when \subseteq d.steps /\ ends(d) \subseteq d.steps
  BY CompilableFacts DEF ends
<1> QED BY <1>2, <1>3, NodesApart DEF Success, steps

\* Which transitions a firing came by, and where it came from.
LEMMA FiredFrom ==
    ASSUME Over, Run, NEW n, NEW i \in Into(n), Fired(i)
    PROVE  LET t == graph.transitions[i] IN
           /\ Edge(definition, t) /\ t.to = n /\ met(t)
           /\ t.from \in graph.nodes /\ Activated(t.from)
<1> PICK t : t = graph.transitions[i]
  OBVIOUS
<1>1. i \in DOMAIN graph.transitions /\ t.to = n
  BY DEF Into
<1>2. Edge(definition, t)
  BY <1>1, RunGraph DEF Run
<1>3. t.from \in graph.nodes
  BY <1>2, EdgesWithin DEF Run, RunTyped, Over
<1>4. met(t) /\ Activated(t.from)
  BY <1>1 DEF Run, FiringsMeant
<1> QED BY <1>1, <1>2, <1>3, <1>4

\* A skip channel speaks for steps that were skipped, and not because of a failure.
LEMMA SkipsMeant ==
    ASSUME Over, Why, Run, ~SkipSpeaksForFailure, NEW s0 \in steps,
           skipNode(definition, s0) \in graph.nodes, Activated(skipNode(definition, s0))
    PROVE  results[s0] = "skipped" /\ s0 \notin tainted
<1> DEFINE B == {s \in steps : /\ skipNode(definition, s) \in graph.nodes
                               /\ Activated(skipNode(definition, s))
                               /\ ~(results[s] = "skipped" /\ s \notin tainted)}
<1> SUFFICES ASSUME B # {} PROVE FALSE
  OBVIOUS
<1> PICK d \in Compilable : d = definition
  BY DEF Over
<1>1. /\ IsFiniteSet(d.steps) /\ Acyclic(d) /\ d.when \subseteq d.steps /\ d.steps = steps
      /\ \A s \in steps : d.dependsOn[s] \subseteq steps
  BY CompilableFacts DEF steps
<1>2. PICK s \in B : d.dependsOn[s] \cap B = {}
  <2>1. B \in SUBSET d.steps
    BY <1>1
  <2> HIDE DEF B
  <2> QED BY <1>1, <2>1, NoKnot
<1>3. s \in steps /\ skipNode(d, s) \in graph.nodes \ {graph.entry}
      /\ Activated(skipNode(d, s)) /\ ~(results[s] = "skipped" /\ s \notin tainted)
  <2>1. skipNode(d, s) # graph.entry
    BY <1>1, RunGraph, NodesApart DEF Run
  <2> QED BY <2>1
<1>4. graph.join[skipNode(d, s)].mode = "implicit"
  BY <1>1, <1>3, RunGraph, Joins DEF Run
<1>5. PICK i \in Into(skipNode(d, s)) : Fired(i)
  BY <1>3, <1>4 DEF Run, JoinsKept
<1>6. PICK t : /\ t = graph.transitions[i] /\ Edge(d, t) /\ t.to = skipNode(d, s) /\ met(t)
               /\ t.from \in graph.nodes /\ Activated(t.from)
  BY <1>5, FiredFrom
<1>7. IF s \in d.when THEN t.from = whenNode(d, s) /\ t.condition = "false" /\ t.step = s
      ELSE \E dep \in d.dependsOn[s] : t.from = skipNode(d, dep)
  BY <1>1, <1>3, <1>6, EdgesInto
<1>8. CASE s \in d.when
  <2>1. results[s] = "skipped"
    BY <1>6, <1>7, <1>8 DEF met
  <2> QED BY <1>3, <1>8, <2>1 DEF Why
<1>9. CASE s \notin d.when
  <2>1. PICK dep \in d.dependsOn[s] : t.from = skipNode(d, dep)
    BY <1>7, <1>9
  <2>2. results[dep] = "skipped" /\ dep \notin tainted
    BY <1>1, <1>2, <1>3, <1>6, <2>1
  <2>3. results[s] = "skipped" /\ s \in tainted
    BY <1>3, <1>9, <2>1, <2>2 DEF Why
  <2>4. PICK other \in d.dependsOn[s] : other \in tainted
    BY <1>3, <2>3 DEF Why
  <2> QED BY <1>3, <1>9, <2>1, <2>2, <2>4 DEF SkipSpeaksForFailure
<1> QED BY <1>8, <1>9

\* Where the graph completes, every terminal step ended well.
LEMMA CompletionIsSuccess ==
    ASSUME Over, Why, Run, ~SkipSpeaksForFailure, terminal = "completed"
    PROVE  computeStatus = "succeeded"
<1> PICK d \in Compilable : d = definition
  BY DEF Over
<1> PICK top : top = successNode(d)
  OBVIOUS
<1>1. Activated(top) /\ top \in graph.nodes \ {graph.entry} /\ graph.join[top].mode = "all"
  BY RunGraph, Joins DEF Run, EndMeant, Success
<1>2. \A i \in Into(top) : Fired(i)
  BY <1>1 DEF Run, JoinsKept
<1>3. terminalSteps = ends(d) /\ ends(d) \subseteq d.steps /\ d.steps = steps
      /\ \A s \in ends(d) : doneNode(d, s) \in graph.nodes \ {graph.entry}
  BY NodesOfRun DEF terminalSteps, ends, dependedOn, steps, Run
<1>4. ASSUME NEW s \in ends(d)
      PROVE  results[s] # "none" /\ ~failedHard(s) /\ ~(results[s] = "skipped" /\ s \in tainted)
  <2>1. Edge(d, transition(doneNode(d, s), top, "always", 0))
    BY <1>4 DEF Edge, DoneEdge
  <2>2. PICK j \in DOMAIN graph.transitions :
          graph.transitions[j] = transition(doneNode(d, s), top, "always", 0)
    BY <2>1, RunGraph DEF Run
  <2>3. j \in Into(top) /\ graph.transitions[j].from = doneNode(d, s)
    BY <2>2 DEF Into, transition
  <2>4. Activated(doneNode(d, s))
    BY <1>2, <2>3, FiredFrom
  <2>5. graph.join[doneNode(d, s)].mode = "implicit"
    BY <1>3, RunGraph, Joins DEF Run
  <2>6. PICK i \in Into(doneNode(d, s)) : Fired(i)
    BY <1>3, <2>4, <2>5 DEF Run, JoinsKept
  <2>7. PICK t : /\ t = graph.transitions[i] /\ Edge(d, t) /\ t.to = doneNode(d, s) /\ met(t)
                 /\ t.from \in graph.nodes /\ Activated(t.from)
    BY <2>6, FiredFrom
  <2>8. \/ t.from = stepNode(d, s) /\ t.condition = passing(d, s)
        \/ t.from = skipNode(d, s)
    BY <1>3, <2>7, EdgesInto
  <2>9. s \in steps /\ results[s] \in {"succeeded", "failed", "skipped"}
    BY <1>3 DEF Why
  <2>10. CASE t.from = skipNode(d, s)
    BY <2>7, <2>9, <2>10, SkipsMeant DEF failedHard
  <2>11. CASE t.from = stepNode(d, s) /\ t.condition = passing(d, s)
    <3>1. results[s] # "skipped"
      BY <2>7, <2>9, <2>11, StepsRan DEF Run
    <3>2. stepOf(t.from) = s
      BY <1>3, <2>11, NodesApart DEF stepOf
    <3> QED BY <2>7, <2>9, <2>11, <3>1, <3>2 DEF met, passing, failedHard
  <2> QED BY <2>8, <2>10, <2>11
<1> QED BY <1>3, <1>4 DEF computeStatus

\* Where the workflow succeeded and nothing recovered, no step was passed over because of a
\* failure: a last one would have let its workflow fail.
LEMMA NothingFailed ==
    ASSUME Over, Why, ~Recovered, computeStatus = "succeeded"
    PROVE  /\ \A s \in ends(definition) : ~failedHard(s)
           /\ \A s \in steps : ~(results[s] = "skipped" /\ s \in tainted)
           /\ \A s \in steps : \A t \in steps \ definition.when :
                s \in definition.dependsOn[t] => ~failedHard(s)
<1> PICK d \in Compilable : d = definition
  BY DEF Over
<1> DEFINE T == {s \in steps : results[s] = "skipped" /\ s \in tainted}
<1>1. terminalSteps = ends(d) /\ d.steps = steps /\ Acyclic(d)
      /\ \A s \in steps : d.dependsOn[s] \subseteq steps
  BY CompilableFacts DEF terminalSteps, ends, dependedOn, steps
<1>2. \A s \in ends(d) : ~failedHard(s) /\ s \notin T
  BY <1>1 DEF computeStatus
<1>3. T = {}
  <2> SUFFICES ASSUME T # {} PROVE FALSE
    OBVIOUS
  <2>1. PICK s \in T : \A t \in T : s \notin d.dependsOn[t]
    BY <1>1 DEF Acyclic
  <2>2. PICK t \in steps : s \in d.dependsOn[t]
    BY <1>1, <1>2, <2>1 DEF ends, dependedOn
  <2>3. t \notin d.when
    BY <2>1, <2>2 DEF Recovered
  <2>4. results[t] = "skipped" /\ t \in tainted
    BY <2>1, <2>2, <2>3 DEF Why
  <2> QED BY <2>1, <2>2, <2>4
<1>4. ASSUME NEW s \in steps, NEW t \in steps \ d.when, s \in d.dependsOn[t]
      PROVE  ~failedHard(s)
  <2> SUFFICES ASSUME failedHard(s) PROVE FALSE
    OBVIOUS
  <2>1. s \in tainted
    BY DEF Why
  <2>2. results[t] = "skipped" /\ t \in tainted
    BY <1>4, <2>1 DEF Why
  <2> QED BY <1>3, <2>2
<1> QED BY <1>2, <1>3, <1>4

\* A failure that nothing takes up would have let the workflow fail.
LEMMA NothingFatal ==
    ASSUME Over, Why, Run, ~Recovered, computeStatus = "succeeded"
    PROVE  ~fatalError
<1> SUFFICES ASSUME fatalError PROVE FALSE
  OBVIOUS
<1> PICK d \in Compilable : d = definition
  BY DEF Over
<1>1. PICK s \in steps : /\ results[s] = "failed"
                         /\ \A i \in OutOf(stepNode(d, s)) : ~met(graph.transitions[i])
  BY DEF Run, EndMeant
<1>2. d.steps = steps /\ d.when \subseteq steps /\ stepOf(stepNode(d, s)) = s
  BY NodesApart, CompilableFacts DEF steps, stepOf
<1>3. ASSUME NEW to, NEW condition, Edge(d, transition(stepNode(d, s), to, condition, 0))
      PROVE  condition # "always"
  <2>1. PICK i \in DOMAIN graph.transitions :
          graph.transitions[i] = transition(stepNode(d, s), to, condition, 0)
    BY <1>3, RunGraph DEF Run
  <2>2. i \in OutOf(stepNode(d, s)) /\ graph.transitions[i].condition = condition
    BY <2>1 DEF OutOf, transition
  <2> QED BY <1>1, <2>2 DEF met
<1>4. CASE s \in ends(d)
  <2>1. Edge(d, transition(stepNode(d, s), doneNode(d, s), passing(d, s), 0))
    BY <1>4 DEF Edge, DoneEdge
  <2>2. s \notin d.continueOnFailure
    BY <1>3, <2>1 DEF passing
  <2> QED BY <1>1, <1>4, <2>2, NothingFailed DEF failedHard
<1>5. CASE s \notin ends(d)
  <2>1. PICK t \in steps : s \in d.dependsOn[t]
    BY <1>2, <1>5 DEF ends, dependedOn
  <2>2. CASE t \in d.when
    <3>1. Edge(d, transition(stepNode(d, s), whenNode(d, t), "always", 0))
      BY <2>1, <2>2 DEF Edge, WhenEdge
    <3> QED BY <1>3, <3>1
  <2>3. CASE t \notin d.when
    <3>1. Edge(d, transition(stepNode(d, s), stepNode(d, t), passing(d, s), 0))
      BY <1>2, <2>1, <2>3 DEF Edge, StepEdge
    <3>2. s \notin d.continueOnFailure
      BY <1>3, <3>1 DEF passing
    <3> QED BY <1>1, <2>1, <2>3, <3>2, NothingFailed DEF failedHard
  <2> QED BY <2>2, <2>3
<1> QED BY <1>4, <1>5

-----------------------------------------------------------------------------
(* Compiled workflows: a run that came to rest *)

\* With nothing active, every transition out of what was activated was taken as meant.
LEMMA AllFired ==
    ASSUME Over, Run, tick = "ended", active = {}, NEW i \in DOMAIN graph.transitions,
           Activated(graph.transitions[i].from), met(graph.transitions[i])
    PROVE  Fired(i)
<1> PICK t : t = graph.transitions[i]
  OBVIOUS
<1>1. Edge(definition, t)
  BY RunGraph DEF Run
<1>2. t.from \in graph.nodes \ {Success}
  BY <1>1, EdgesWithin, EdgesAround DEF Run, RunTyped, Over, Success
<1> QED BY <1>2 DEF Run, FiringsMeant, OutOf

\* And so a node without a join was activated.
LEMMA ActivatedBy ==
    ASSUME Over, Run, tick = "ended", active = {}, NEW t, Edge(definition, t),
           Activated(t.from), met(t)
    PROVE  /\ \E i \in Into(t.to) : Fired(i) /\ graph.transitions[i] = t
           /\ t.to \in graph.nodes \ {graph.entry} /\ graph.join[t.to].mode = "implicit" => Activated(t.to)
<1>1. PICK i \in DOMAIN graph.transitions : graph.transitions[i] = t
  BY RunGraph DEF Run
<1>2. Fired(i) /\ i \in Into(t.to)
  BY <1>1, AllFired DEF Into
<1> QED BY <1>1, <1>2 DEF Run, JoinsKept

\* Where everything that leads to it was activated and passes, a node with an all-join was.
LEMMA ActivatedByAll ==
    ASSUME Over, Run, tick = "ended", active = {}, NEW n \in graph.nodes \ {graph.entry},
           graph.join[n].mode = "all", NEW t0, Edge(definition, t0), t0.to = n,
           \A t : Edge(definition, t) /\ t.to = n => Activated(t.from) /\ met(t)
    PROVE  Activated(n)
<1>1. \E i \in Into(n) : graph.transitions[i] = t0
  BY ActivatedBy
<1>2. \A i \in Into(n) : Fired(i)
  <2> SUFFICES ASSUME NEW i \in Into(n) PROVE Fired(i)
    OBVIOUS
  <2>1. i \in DOMAIN graph.transitions /\ Edge(definition, graph.transitions[i])
        /\ graph.transitions[i].to = n
    BY RunGraph DEF Run, Into
  <2> QED BY <2>1, AllFired
<1> QED BY <1>1, <1>2 DEF Run, JoinsKept

\* A step that ran was activated, one that was skipped speaks through its skip channel.
Spoke(s) ==
    IF results[s] = "skipped"
    THEN isSkipCapable(definition)[s] /\ Activated(skipNode(definition, s))
    ELSE Activated(stepNode(definition, s))

\* One transition for each step a `when` waits for has fired.
LEMMA WhenCounts ==
    ASSUME Over, Run, tick = "ended", active = {}, NEW s \in definition.when,
           \A dep \in definition.dependsOn[s] : Spoke(dep)
    PROVE  Cardinality({i \in Into(whenNode(definition, s)) : Fired(i)})
             >= Cardinality(definition.dependsOn[s])
<1> PICK d \in Compilable : d = definition
  BY DEF Over
<1> DEFINE deps == d.dependsOn[s]
           came == {i \in Into(whenNode(d, s)) : Fired(i)}
           from(i) == graph.transitions[i].from
           f == [dep \in deps |-> CHOOSE i \in came : from(i) \in {stepNode(d, dep), skipNode(d, dep)}]
<1>1. d.steps = steps /\ d.when \subseteq steps /\ deps \subseteq steps /\ IsFiniteSet(deps)
  BY CompilableFacts, FS_Subset DEF steps
<1>2. ASSUME NEW dep \in deps
      PROVE  \E i \in came : from(i) \in {stepNode(d, dep), skipNode(d, dep)}
  <2>1. CASE results[dep] = "skipped"
    <3> PICK t : t = transition(skipNode(d, dep), whenNode(d, s), "always", 0)
      OBVIOUS
    <3>1. Edge(d, t) /\ t.from = skipNode(d, dep) /\ t.to = whenNode(d, s) /\ t.condition = "always"
      BY <2>1 DEF Edge, WhenEdge, transition, Spoke
    <3>2. Activated(t.from) /\ met(t)
      BY <2>1, <3>1 DEF Spoke, met
    <3>3. \E i \in Into(t.to) : Fired(i) /\ graph.transitions[i] = t
      BY <3>1, <3>2, ActivatedBy
    <3> QED BY <3>1, <3>3
  <2>2. CASE results[dep] # "skipped"
    <3> PICK t : t = transition(stepNode(d, dep), whenNode(d, s), "always", 0)
      OBVIOUS
    <3>1. Edge(d, t) /\ t.from = stepNode(d, dep) /\ t.to = whenNode(d, s) /\ t.condition = "always"
      BY <2>2 DEF Edge, WhenEdge, transition
    <3>2. Activated(t.from) /\ met(t)
      BY <2>2, <3>1 DEF Spoke, met
    <3>3. \E i \in Into(t.to) : Fired(i) /\ graph.transitions[i] = t
      BY <3>1, <3>2, ActivatedBy
    <3> QED BY <3>1, <3>3
  <2> QED BY <2>1, <2>2
<1>3. \A dep \in deps : f[dep] \in came /\ from(f[dep]) \in {stepNode(d, dep), skipNode(d, dep)}
  <2> HIDE DEF came, from
  <2> QED BY <1>2
<1>4. \A p, q \in deps : f[p] = f[q] => p = q
  <2> HIDE DEF f, from, came
  <2> QED BY <1>1, <1>3, NodesApart
<1>5. f \in Injection(deps, came)
  <2>1. f \in [deps -> came]
    <3> HIDE DEF came, from
    <3> QED BY <1>2
  <2> HIDE DEF f, came
  <2> QED BY <1>4, <2>1 DEF Injection, IsInjective
<1>6. IsFiniteSet(came)
  <2>1. came \subseteq DOMAIN graph.transitions
    BY DEF Into
  <2> HIDE DEF came
  <2> QED BY <2>1, RunGraph, FS_Subset DEF Run
<1> HIDE DEF f, came
<1>7. Cardinality(deps) <= Cardinality(came)
  BY <1>5, <1>6, FS_Injection
<1>8. Cardinality(deps) \in Nat /\ Cardinality(came) \in Nat
  BY <1>1, <1>6, FS_CardinalityType
<1> QED BY <1>7, <1>8 DEF came

\* A `when` is evaluated once everything it waits for has spoken, by whichever join.
LEMMA WhenEvaluated ==
    ASSUME Over, Run, tick = "ended", active = {}, NEW s \in definition.when,
           \A dep \in definition.dependsOn[s] : Spoke(dep)
    PROVE  Activated(whenNode(definition, s))
<1> PICK d \in Compilable : d = definition
  BY DEF Over
<1> PICK n : n = whenNode(d, s)
  OBVIOUS
<1>1. d.steps = steps /\ d.when \subseteq steps /\ d.dependsOn[s] \subseteq steps
  BY CompilableFacts DEF steps
<1>2. n \in graph.nodes \ {graph.entry} /\ graph.join[n] = joinOf(d, n)
  BY NodesOfRun, RunGraph DEF Run
<1>3. CASE d.dependsOn[s] = {}
  <2> PICK t : t = transition(startNode(d), n, "always", 0)
    OBVIOUS
  <2>1. Edge(d, t) /\ t.to = n /\ t.from = graph.entry /\ t.condition = "always"
    BY <1>3, RunGraph DEF Edge, WhenEdge, transition, Run
  <2>2. Activated(t.from) /\ met(t)
    BY <2>1 DEF Run, EndMeant, met
  <2>3. graph.join[n].mode = "implicit"
    BY <1>2, <1>3, Joins
  <2> QED BY <1>2, <2>1, <2>2, <2>3, ActivatedBy
<1>4. CASE d.dependsOn[s] # {} /\ \E dep \in d.dependsOn[s] : isSkipCapable(d)[dep]
  <2>1. graph.join[n] = [mode |-> "min", n |-> Cardinality(d.dependsOn[s])]
    BY <1>2, <1>4, Joins
  <2>2. Cardinality({i \in Into(n) : Fired(i)}) >= Cardinality(d.dependsOn[s])
    BY WhenCounts
  <2>3. graph.join[n].mode = "min" /\ graph.join[n].n = Cardinality(d.dependsOn[s])
    BY <2>1
  <2> QED BY <1>2, <2>2, <2>3 DEF Run, JoinsKept
<1>5. CASE d.dependsOn[s] # {} /\ ~\E dep \in d.dependsOn[s] : isSkipCapable(d)[dep]
  <2>1. graph.join[n].mode = "all"
    BY <1>2, <1>5, Joins
  <2>2. PICK dep \in d.dependsOn[s] : TRUE
    BY <1>5
  <2>3. PICK t0 : t0 = transition(stepNode(d, dep), n, "always", 0)
    OBVIOUS
  <2>4. Edge(d, t0) /\ t0.to = n
    BY <2>3 DEF Edge, WhenEdge, transition
  <2>5. ASSUME NEW t, Edge(d, t), t.to = n
        PROVE  Activated(t.from) /\ met(t)
    <3>1. t.condition = "always" /\ \E r \in d.dependsOn[s] : t.from = stepNode(d, r)
      BY <1>1, <1>5, <2>5, EdgesInto
    <3> QED BY <1>5, <3>1 DEF Spoke, met
  <2> QED BY <1>2, <2>1, <2>4, <2>5, ActivatedByAll
<1> QED BY <1>3, <1>4, <1>5

\* A step that ran was reached.
LEMMA RanSpoke ==
    ASSUME Over, Why, Run, ~Recovered, computeStatus = "succeeded", tick = "ended", active = {},
           NEW s \in steps \ definition.when, results[s] # "skipped",
           \A dep \in definition.dependsOn[s] : Spoke(dep)
    PROVE  Activated(stepNode(definition, s))
<1> PICK d \in Compilable : d = definition
  BY DEF Over
<1> PICK n : n = stepNode(d, s)
  OBVIOUS
<1>1. d.steps = steps /\ d.dependsOn[s] \subseteq steps /\ IsFiniteSet(d.dependsOn[s])
  BY CompilableFacts, FS_Subset DEF steps
<1>2. n \in graph.nodes \ {graph.entry} /\ graph.join[n] = joinOf(d, n)
  BY NodesOfRun, RunGraph DEF Run
<1>3. graph.join[n].mode = IF Cardinality(d.dependsOn[s]) >= 2 THEN "all" ELSE "implicit"
  BY <1>1, <1>2, Joins
<1>4. ASSUME NEW t, Edge(d, t), NEW dep \in d.dependsOn[s],
             t.from = stepNode(d, dep), t.condition = passing(d, dep)
      PROVE  Activated(t.from) /\ met(t)
  <2>1. results[dep] # "skipped" /\ ~failedHard(dep) /\ dep \in steps
    BY <1>1 DEF Why
  <2>2. results[dep] \in {"succeeded", "failed"}
    BY <2>1 DEF Why
  <2>3. stepOf(t.from) = dep
    BY <1>1, <1>4, NodesApart DEF stepOf
  <2> QED BY <1>4, <2>1, <2>2, <2>3 DEF Spoke, met, passing, failedHard
<1>5. CASE d.dependsOn[s] = {}
  <2> PICK t : t = transition(startNode(d), n, "always", 0)
    OBVIOUS
  <2>1. Edge(d, t) /\ t.to = n /\ t.from = graph.entry /\ t.condition = "always"
    BY <1>1, <1>5, RunGraph DEF Edge, StepEdge, transition, Run
  <2>2. Activated(t.from) /\ met(t)
    BY <2>1 DEF Run, EndMeant, met
  <2>3. graph.join[n].mode = "implicit"
    BY <1>3, <1>5, FS_EmptySet
  <2> QED BY <1>2, <2>1, <2>2, <2>3, ActivatedBy
<1>6. CASE d.dependsOn[s] # {}
  <2>1. PICK dep \in d.dependsOn[s] : TRUE
    BY <1>6
  <2>2. PICK t0 : t0 = transition(stepNode(d, dep), n, passing(d, dep), 0)
    OBVIOUS
  <2>3. /\ Edge(d, t0) /\ t0.to = n /\ t0.from = stepNode(d, dep) /\ t0.condition = passing(d, dep)
    BY <1>1, <2>2 DEF Edge, StepEdge, transition
  <2>4. Activated(t0.from) /\ met(t0)
    BY <1>4, <2>3
  <2>5. ASSUME NEW t, Edge(d, t), t.to = n
        PROVE  Activated(t.from) /\ met(t)
    <3>1. \E r \in d.dependsOn[s] : t.from = stepNode(d, r) /\ t.condition = passing(d, r)
      BY <1>1, <1>6, <2>5, EdgesInto
    <3> QED BY <1>4, <2>5, <3>1
  <2>6. CASE graph.join[n].mode = "all"
    BY <1>2, <2>3, <2>5, <2>6, ActivatedByAll
  <2>7. CASE graph.join[n].mode = "implicit"
    BY <1>2, <2>3, <2>4, <2>7, ActivatedBy
  <2> QED BY <1>3, <2>6, <2>7
<1> QED BY <1>5, <1>6

\* In a run that came to rest nothing was forgotten: the first step that did not speak would have
\* been reached by the ones it depends on.
LEMMA EverySpoke ==
    ASSUME Over, Why, Run, ~Recovered, computeStatus = "succeeded", tick = "ended", active = {}
    PROVE  \A s \in steps : Spoke(s)
<1> DEFINE B == {s \in steps : ~Spoke(s)}
<1> SUFFICES ASSUME B # {} PROVE FALSE
  OBVIOUS
<1> PICK d \in Compilable : d = definition
  BY DEF Over
<1>1. /\ IsFiniteSet(d.steps) /\ Acyclic(d) /\ d.when \subseteq d.steps /\ d.steps = steps
      /\ \A s \in steps : d.dependsOn[s] \subseteq steps
  BY CompilableFacts DEF steps
<1>2. PICK s \in B : d.dependsOn[s] \cap B = {}
  <2>1. B \in SUBSET d.steps
    BY <1>1
  <2> HIDE DEF B
  <2> QED BY <1>1, <2>1, NoKnot
<1>3. s \in steps /\ ~Spoke(s) /\ \A dep \in d.dependsOn[s] : Spoke(dep)
  BY <1>1, <1>2
<1> HIDE DEF B
<1>4. CASE s \in d.when
  <2>1. Activated(whenNode(d, s))
    BY <1>3, <1>4, WhenEvaluated
  <2>2. CASE results[s] = "skipped"
    <3> PICK t : t = transition(whenNode(d, s), skipNode(d, s), "false", s)
      OBVIOUS
    <3>1. /\ Edge(d, t) /\ t.from = whenNode(d, s) /\ t.to = skipNode(d, s)
          /\ t.condition = "false" /\ t.step = s
      BY <1>4 DEF Edge, WhenEdge, transition
    <3>2. met(t) /\ Activated(t.from)
      BY <2>1, <2>2, <3>1 DEF met
    <3>3. isSkipCapable(d)[s]
      BY <1>3, <1>1, <1>4, SkipCapable
    <3>4. skipNode(d, s) \in graph.nodes \ {graph.entry} /\ graph.join[skipNode(d, s)].mode = "implicit"
      <4>1. skipNode(d, s) \in graph.nodes \ {graph.entry}
        BY <1>3, <3>3, NodesOfRun DEF Run
      <4>2. graph.join[skipNode(d, s)] = joinOf(d, skipNode(d, s))
        BY <4>1, RunGraph DEF Run
      <4>3. joinOf(d, skipNode(d, s)).mode = "implicit"
        BY <1>1, <1>3, Joins
      <4> QED BY <4>1, <4>2, <4>3
    <3>5. Activated(skipNode(d, s))
      BY <3>1, <3>2, <3>4, ActivatedBy
    <3> QED BY <1>3, <2>2, <3>3, <3>5 DEF Spoke
  <2>3. CASE results[s] # "skipped"
    <3> PICK t : t = transition(whenNode(d, s), stepNode(d, s), "true", s)
      OBVIOUS
    <3>1. /\ Edge(d, t) /\ t.from = whenNode(d, s) /\ t.to = stepNode(d, s)
          /\ t.condition = "true" /\ t.step = s
      BY <1>4 DEF Edge, WhenEdge, transition
    <3>2. met(t) /\ Activated(t.from)
      BY <2>1, <2>3, <3>1 DEF met
    <3>3. stepNode(d, s) \in graph.nodes \ {graph.entry} /\ graph.join[stepNode(d, s)].mode = "implicit"
      <4>1. stepNode(d, s) \in graph.nodes \ {graph.entry}
        BY <1>3, NodesOfRun DEF Run
      <4>2. graph.join[stepNode(d, s)] = joinOf(d, stepNode(d, s))
        BY <4>1, RunGraph DEF Run
      <4>3. joinOf(d, stepNode(d, s)).mode = "implicit"
        BY <1>1, <1>3, <1>4, Joins
      <4> QED BY <4>1, <4>2, <4>3
    <3>4. Activated(stepNode(d, s))
      BY <3>1, <3>2, <3>3, ActivatedBy
    <3> QED BY <1>3, <2>3, <3>4 DEF Spoke
  <2> QED BY <2>2, <2>3
<1>5. CASE s \notin d.when /\ results[s] # "skipped"
  BY <1>3, <1>5, RanSpoke DEF Spoke
<1>6. CASE s \notin d.when /\ results[s] = "skipped"
  <2>1. PICK dep \in d.dependsOn[s] : results[dep] = "skipped" \/ failedHard(dep)
    BY <1>3, <1>6 DEF Why
  <2>2. dep \in steps /\ results[dep] = "skipped"
    BY <1>1, <1>3, <1>6, <2>1, NothingFailed
  <2>3. isSkipCapable(d)[dep] /\ Activated(skipNode(d, dep))
    BY <1>3, <2>2 DEF Spoke
  <2> PICK t : t = transition(skipNode(d, dep), skipNode(d, s), "always", 0)
    OBVIOUS
  <2>4. /\ Edge(d, t) /\ t.from = skipNode(d, dep) /\ t.to = skipNode(d, s) /\ t.condition = "always"
    BY <1>1, <1>3, <1>6, <2>3 DEF Edge, StepEdge, transition
  <2>5. met(t) /\ Activated(t.from)
    BY <2>3, <2>4 DEF met
  <2>6. isSkipCapable(d)[s]
    BY <1>1, <1>3, <2>3, SkipCapable
  <2>7. skipNode(d, s) \in graph.nodes \ {graph.entry} /\ graph.join[skipNode(d, s)].mode = "implicit"
    <3>1. skipNode(d, s) \in graph.nodes \ {graph.entry}
      BY <1>3, <2>6, NodesOfRun DEF Run
    <3>2. graph.join[skipNode(d, s)] = joinOf(d, skipNode(d, s))
      BY <3>1, RunGraph DEF Run
    <3>3. joinOf(d, skipNode(d, s)).mode = "implicit"
      BY <1>1, <1>3, Joins
    <3> QED BY <3>1, <3>2, <3>3
  <2>8. Activated(skipNode(d, s))
    BY <2>4, <2>5, <2>7, ActivatedBy
  <2> QED BY <1>3, <1>6, <2>6, <2>8 DEF Spoke
<1> QED BY <1>4, <1>5, <1>6

\* Where every terminal step ended well, the graph completes.
LEMMA SuccessIsCompletion ==
    ASSUME Over, Why, Run, ~Recovered, computeStatus = "succeeded", tick = "ended"
    PROVE  terminal = "completed"
<1> SUFFICES ASSUME terminal # "completed" PROVE FALSE
  OBVIOUS
<1> PICK d \in Compilable : d = definition
  BY DEF Over
<1>1. active = {}
  BY NothingFatal DEF Run, EndMeant
<1>2. /\ d.steps = steps /\ d.steps # {} /\ Acyclic(d)
  BY CompilableAssumption, CompilableFacts DEF steps
<1>3. ASSUME NEW s \in ends(d)
      PROVE  Activated(doneNode(d, s))
  <2>1. s \in steps /\ Spoke(s)
    BY <1>1, <1>2, EverySpoke DEF ends
  <2>2. doneNode(d, s) \in graph.nodes \ {graph.entry} /\ graph.join[doneNode(d, s)].mode = "implicit"
    <3>1. doneNode(d, s) \in graph.nodes \ {graph.entry}
      BY <1>3, NodesOfRun DEF Run
    <3>2. graph.join[doneNode(d, s)] = joinOf(d, doneNode(d, s))
      BY <3>1, RunGraph DEF Run
    <3>3. joinOf(d, doneNode(d, s)).mode = "implicit"
      BY <1>2, <2>1, Joins
    <3> QED BY <3>1, <3>2, <3>3
  <2>3. CASE results[s] = "skipped"
    <3> PICK t : t = transition(skipNode(d, s), doneNode(d, s), "always", 0)
      OBVIOUS
    <3>1. /\ Edge(d, t) /\ t.from = skipNode(d, s) /\ t.to = doneNode(d, s) /\ t.condition = "always"
      BY <1>3, <2>1, <2>3 DEF Edge, DoneEdge, transition, Spoke
    <3>2. met(t) /\ Activated(t.from)
      BY <2>1, <2>3, <3>1 DEF met, Spoke
    <3> QED BY <1>1, <2>2, <3>1, <3>2, ActivatedBy
  <2>4. CASE results[s] # "skipped"
    <3> PICK t : t = transition(stepNode(d, s), doneNode(d, s), passing(d, s), 0)
      OBVIOUS
    <3>1. /\ Edge(d, t) /\ t.from = stepNode(d, s) /\ t.to = doneNode(d, s)
          /\ t.condition = passing(d, s)
      BY <1>3 DEF Edge, DoneEdge, transition
    <3>2. ~failedHard(s)
      BY <1>3, NothingFailed
    <3>3. stepOf(t.from) = s
      BY <1>2, <2>1, <3>1, NodesApart DEF stepOf
    <3>4. met(t)
      BY <2>1, <2>4, <3>1, <3>2, <3>3 DEF met, passing, failedHard, Why
    <3>5. Activated(t.from)
      BY <2>1, <2>4, <3>1 DEF Spoke
    <3> QED BY <1>1, <2>2, <3>1, <3>4, <3>5, ActivatedBy
  <2> QED BY <2>3, <2>4
<1>4. PICK s \in ends(d) : TRUE
  <2>1. PICK s \in d.steps : \A t \in d.steps : s \notin d.dependsOn[t]
    BY <1>2 DEF Acyclic
  <2> QED BY <2>1 DEF ends, dependedOn
<1>5. PICK t0 : t0 = transition(doneNode(d, s), successNode(d), "always", 0)
  OBVIOUS
<1>6. Edge(d, t0) /\ t0.to = Success
  BY <1>5 DEF Edge, DoneEdge, transition, Success
<1>7. ASSUME NEW t, Edge(d, t), t.to = Success
      PROVE  Activated(t.from) /\ met(t)
  BY <1>3, <1>7, EdgesAround DEF met, Success
<1>8. Success \in graph.nodes \ {graph.entry} /\ graph.join[Success].mode = "all"
  BY RunGraph, Joins DEF Run, Success
<1>9. Activated(Success)
  BY <1>1, <1>6, <1>7, <1>8, ActivatedByAll
<1> QED BY <1>1, <1>9 DEF Run, EndMeant

\* With the run as it is meant, its end agrees with the version 1 engine.
LEMMA VerdictKept ==
    ASSUME Compared, Over => Why
    PROVE  CompiledKeepsVerdict
<1> SUFFICES ASSUME tick = "ended", ~Recovered, ~SkipSpeaksForFailure
             PROVE  /\ terminal = "completed" <=> computeStatus = "succeeded"
                    /\ \A s \in steps : results[s] = "skipped" => nodeResults[stepNode(definition, s)] = 0
  BY DEF CompiledKeepsVerdict
<1>1. Over /\ Why /\ Run
  BY DEF Compared
<1>2. terminal = "completed" <=> computeStatus = "succeeded"
  BY <1>1, CompletionIsSuccess, SuccessIsCompletion
<1>3. ASSUME NEW s \in steps, results[s] = "skipped"
      PROVE  nodeResults[stepNode(definition, s)] = 0
  <2> PICK n : n = stepNode(definition, s)
    OBVIOUS
  <2>1. n \in graph.nodes /\ nodeResults[n] \in Nat
    BY <1>1, NodesOfRun DEF Run, RunTyped
  <2>2. ~Activated(n)
    BY <1>1, <1>3, <2>1, StepsRan DEF Run
  <2> QED BY <1>1, <2>1, <2>2 DEF Run, EndMeant
<1> QED BY <1>2, <1>3

\* CompiledKeepsVerdict: whatever acyclic workflow is compiled, in whatever order the nodes
\* of the graph settle and however often their steps are tried, the graph completes exactly
\* when the workflow succeeds and executes no step that was skipped; but for the divergences
\* Recovered and SkipSpeaksForFailure.
THEOREM CompilationKeepsVerdict == CompiledSpec => []CompiledKeepsVerdict
<1> DEFINE Inv == /\ TypeOK /\ InOrder /\ DrainIsOfCancelled /\ Tainted /\ Judged /\ Emptied
                  /\ Compared
<1>1. CompiledInit => Inv
  <2> SUFFICES ASSUME CompiledInit PROVE Inv
    OBVIOUS
  <2>1. Init
    BY DEF CompiledInit
  <2>2. TypeOK
    BY <2>1, TypingInit
  <2>3. InOrder /\ DrainIsOfCancelled /\ Tainted /\ Judged /\ Emptied
    BY <2>1 DEF Init, InOrder, Tainted, TaintIsEarned, DrainIsOfCancelled, failedHard, Judged,
                JudgedByDeps, Emptied
  <2>4. tick = "idle" /\ (definition \in Compilable => Graph!Fresh(compileWorkflow(definition)))
    <3>1. CASE definition \in Compilable
      BY <3>1 DEF CompiledInit, Graph!Fresh
    <3>2. CASE definition \notin Compilable
      <4>1. \E g : Graph!Fresh(g)
        BY <3>2 DEF CompiledInit
      <4> QED BY <3>2, <4>1 DEF Graph!Fresh
    <3> QED BY <3>1, <3>2
  <2> QED BY <2>2, <2>3, <2>4 DEF Compared
<1>2. Inv => (Over => Why)
  BY OverIsWhy
<1>3. Inv /\ [CompiledNext]_<<vars, graphVars>> => Inv'
  <2> SUFFICES ASSUME Inv, [CompiledNext]_<<vars, graphVars>> PROVE Inv'
    OBVIOUS
  <2>1. [Next]_vars
    BY DEF CompiledNext, WorkflowStep, RunCompiled
  <2>2. TypeOK' /\ InOrder' /\ DrainIsOfCancelled' /\ Tainted' /\ Judged' /\ Emptied'
    BY <2>1, TypingNext, InOrderNext, DrainIsOfCancelledNext, TaintedNext, JudgedNext, EmptiedNext
  <2>3. Compared'
    <3>1. CASE RunCompiled
      BY <1>2, <3>1, ComparedRun
    <3>2. CASE UNCHANGED graphVars
      BY <2>1, <3>2, ComparedStep
    <3> QED BY <3>1, <3>2 DEF CompiledNext, WorkflowStep
  <2> QED BY <2>2, <2>3
<1>4. Inv => CompiledKeepsVerdict
  BY <1>2, VerdictKept
<1> QED BY <1>1, <1>3, <1>4, PTL DEF CompiledSpec
=============================================================================
