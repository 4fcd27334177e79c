----------------------------- MODULE AgentSession -----------------------------
(***************************************************************************)
(* One agent node: the runner that starts sessions along a profile's       *)
(* fallback chain, and the native agent loop it starts.  Session 0 is the  *)
(* node's, session 1 the sub-agent it may wait for.  A message keeps its   *)
(* role and how many calls it makes or answers.                            *)
(***************************************************************************)
EXTENDS Naturals, Sequences, FiniteSets

CONSTANTS
    Chain,              \* the executors to try: "native", "unknown" or "external"
    Trigger,            \* "outage-only" or "any-failure"
    Responses,          \* the sequences of calls a model may answer with
    maxTurns, maxTextOnlyTurns, maxPolicyDenials, maxAttempts, maxPerRun, maxTokens,
    keepRecentMessages

VARIABLES
    runner,     \* where the runner is in the chain, and what it returned
    aborted,    \* the run was cancelled
    sessions    \* depth -> the loop of the session at that depth

agentVars == <<runner, aborted, sessions>>

Depths == {0, 1}
User == [role |-> "user", calls |-> 0]

Off == [pc |-> "off", turn |-> 0, attempt |-> 0, textOnly |-> 0, denials |-> 0, subs |-> 0,
        tokens |-> 0, calls |-> <<>>, asked |-> 0, results |-> 0, history |-> <<>>,
        cancelled |-> FALSE, timedOut |-> FALSE, override |-> "none", outcome |-> "none"]
Launched == [Off EXCEPT !.pc = "top", !.history = <<User>>]

AgentInit ==
    /\ runner = [pc |-> "choose", k |-> 1, result |-> "none", tried |-> {}]
    /\ aborted = FALSE
    /\ sessions = [d \in Depths |-> Off]

Session(d) == sessions[d]
running(d) == sessions[d].pc \notin {"off", "done"}

--------------------------------------------------------------------------------
(* Ends of a session. A cancel or a timeout overrides the outcome; the parent  *)
(* of a sub-agent takes the result as that of one call.                        *)

signalled(s) == s.cancelled \/ s.timedOut

finished(s, outcome) == [s EXCEPT !.pc = "done", !.outcome = outcome]
stopped(s) == finished(s, IF s.override = "none" THEN "CANCELLED" ELSE s.override)

answer(s) == [s EXCEPT !.pc = "calls", !.calls = Tail(s.calls), !.results = @ + 1]

Step(d, s) ==
    /\ sessions' = IF d = 1 /\ s.pc = "done"
                   THEN [sessions EXCEPT ![1] = Off, ![0] = answer(sessions[0])]
                   ELSE [sessions EXCEPT ![d] = s]
    /\ UNCHANGED <<runner, aborted>>

--------------------------------------------------------------------------------
(* A turn: the model is called, with retries                                   *)

BeginTurn(d) ==
    LET s == Session(d) IN
    /\ s.pc = "top"
    /\ Step(d, IF signalled(s) THEN stopped(s)
               ELSE IF s.turn >= maxTurns THEN finished(s, "BUDGET_EXHAUSTED")
               ELSE [s EXCEPT !.pc = "invoke", !.turn = @ + 1, !.attempt = 1])

\* Text alone is tolerated a few turns; it is answered with a reminder.
afterText(s) ==
    IF s.textOnly + 1 >= maxTextOnlyTurns THEN finished(s, "GOAL_BLOCKED")
    ELSE [s EXCEPT !.pc = "top", !.textOnly = @ + 1,
                   !.history = @ \o <<[role |-> "assistant", calls |-> 0], User>>]

afterCalls(s, calls) ==
    [s EXCEPT !.pc = "calls", !.textOnly = 0, !.calls = calls, !.asked = Len(calls),
              !.results = 0, !.history = Append(@, [role |-> "assistant", calls |-> Len(calls)])]

\* A response that arrives is processed even when the session was cancelled.
\* What a sub-agent uses is not recorded in the budget of its parent.
Respond(d) ==
    LET s == Session(d)
        used == [s EXCEPT !.tokens = @ + 1]
    IN  /\ s.pc = "invoke"
        /\ \E calls \in Responses :
            Step(d, IF used.tokens >= maxTokens THEN finished(used, "BUDGET_EXHAUSTED")
                    ELSE IF calls = <<>> THEN afterText(used) ELSE afterCalls(used, calls))

InvocationFails(d) ==
    LET s == Session(d) IN
    /\ s.pc = "invoke"
    /\ \E retryable \in BOOLEAN :
        Step(d, IF signalled(s) THEN stopped(s)
                ELSE IF ~retryable \/ s.attempt = maxAttempts THEN finished(s, "FATAL_FAILURE")
                ELSE [s EXCEPT !.pc = "sleep"])

Retry_Mutated(d) ==            \* the attempts are not counted
    LET s == Session(d) IN
    /\ s.pc = "sleep"
    /\ Step(d, IF signalled(s) THEN stopped(s) ELSE [s EXCEPT !.pc = "invoke"])

Retry(d) ==
    LET s == Session(d) IN
    /\ s.pc = "sleep"
    /\ Step(d, IF signalled(s) THEN stopped(s)
               ELSE [s EXCEPT !.pc = "invoke", !.attempt = @ + 1])

--------------------------------------------------------------------------------
(* The calls of a turn, one after the other                                    *)

Calling_Mutated(d, kind) ==    \* the signal is looked at between turns only
    /\ sessions[d].pc = "calls"
    /\ sessions[d].calls # <<>>
    /\ Head(sessions[d].calls) = kind

Calling(d, kind) ==
    /\ sessions[d].pc = "calls"
    /\ ~signalled(sessions[d])
    /\ sessions[d].calls # <<>>
    /\ Head(sessions[d].calls) = kind

CompleteGoal(d) ==
    /\ Calling(d, "complete_goal")
    /\ \E outcome \in {"GOAL_COMPLETED", "GOAL_BLOCKED"} : Step(d, finished(Session(d), outcome))

RequestHumanInput(d) ==
    /\ Calling(d, "request_human_input")
    /\ Step(d, finished(Session(d), "HUMAN_INPUT_REQUIRED"))

subagentAllowed(d) == d = 0 /\ sessions[0].subs < maxPerRun

RunSubagent(d) ==
    /\ Calling(d, "run_subagent")
    /\ IF subagentAllowed(d)
       THEN sessions' = [sessions EXCEPT ![0].pc = "sub", ![0].subs = @ + 1, ![1] = Launched]
            /\ UNCHANGED <<runner, aborted>>
       ELSE Step(d, answer(Session(d)))

UnknownTool_Mutated(d) ==      \* the call is skipped
    Calling(d, "unknown") /\ Step(d, [Session(d) EXCEPT !.calls = Tail(@)])
UnknownTool(d) == Calling(d, "unknown") /\ Step(d, answer(Session(d)))

\* A hook blocks, the policy denies, or a person is asked.
CheckTool(d) ==
    LET s == Session(d)
        denied == [answer(s) EXCEPT !.denials = @ + 1]
    IN  /\ Calling(d, "tool")
        /\ \/ Step(d, answer(s))
           \/ Step(d, IF denied.denials >= maxPolicyDenials THEN finished(denied, "POLICY_BLOCKED")
                      ELSE denied)
           \/ Step(d, [s EXCEPT !.pc = "ask"])
           \/ Step(d, [s EXCEPT !.pc = "tool"])

\* The approval is awaited whatever becomes of the session, and fails closed.
ResolveApproval(d) ==
    LET s == Session(d)
        denied == [answer(s) EXCEPT !.denials = @ + 1]
    IN  /\ s.pc = "ask"
        /\ \E approved \in BOOLEAN :
            Step(d, IF approved THEN [s EXCEPT !.pc = "tool"]
                    ELSE IF denied.denials >= maxPolicyDenials
                    THEN finished(denied, "POLICY_BLOCKED") ELSE denied)

\* A failed or timed out tool answers its call with an error.
executeTool(d) == sessions[d].pc = "tool" /\ Step(d, answer(Session(d)))

\* An abort leaves the remaining calls without results.
EndTurn(d) ==
    LET s == Session(d) IN
    /\ s.pc = "calls"
    /\ s.calls = <<>> \/ signalled(s)
    /\ Step(d, [s EXCEPT !.pc = "compact", !.calls = <<>>, !.asked = 0,
                         !.history = Append(@, [role |-> "tool", calls |-> s.results])])

--------------------------------------------------------------------------------
(* Compaction: a summary and the recent tail, in which results whose calls are *)
(* in the summary become text. It fails, or is not due, and changes nothing.   *)

sanitizeTail(tail) ==
    [i \in DOMAIN tail |->
        IF tail[i].role = "tool" /\ (i = 1 \/ tail[i-1].role # "assistant")
        THEN [tail[i] EXCEPT !.calls = 0] ELSE tail[i]]

keep == IF keepRecentMessages < 2 THEN 2 ELSE keepRecentMessages

compactMessages(history) ==
    IF Len(history) <= keep + 2 THEN history
    ELSE <<User>> \o sanitizeTail(SubSeq(history, Len(history) - keep + 1, Len(history)))

Compact(d) ==
    LET s == Session(d) IN
    /\ s.pc = "compact"
    /\ \E history \in {s.history, compactMessages(s.history)} :
        Step(d, [s EXCEPT !.pc = "top", !.history = history])

AgentLoop(d) ==
    \/ BeginTurn(d) \/ Respond(d) \/ InvocationFails(d) \/ Retry(d)
    \/ CompleteGoal(d) \/ RequestHumanInput(d) \/ RunSubagent(d) \/ UnknownTool(d)
    \/ CheckTool(d) \/ ResolveApproval(d) \/ executeTool(d) \/ EndTurn(d) \/ Compact(d)

\* The wall clock of a session; the later of a timeout and a cancel names the end.
Timeout(d) ==
    /\ running(d) /\ ~sessions[d].timedOut
    /\ sessions' = [sessions EXCEPT ![d].timedOut = TRUE, ![d].override = "BUDGET_EXHAUSTED"]
    /\ UNCHANGED <<runner, aborted>>

--------------------------------------------------------------------------------
(* The runner                                                                  *)

last == runner.k = Len(Chain)
next == [runner EXCEPT !.pc = "choose", !.k = @ + 1]
returned(result) == [runner EXCEPT !.pc = "returned", !.result = result]

Choose ==
    /\ runner.pc = "choose"
    /\ runner' = IF runner.k > Len(Chain) THEN returned("error")
                 ELSE IF Chain[runner.k] = "unknown" THEN next
                 ELSE [runner EXCEPT !.pc = "starting", !.tried = @ \cup {runner.k}]
    /\ UNCHANGED <<aborted, sessions>>

\* The listener is added once the session runs: a cancel that came before is lost.
Started ==
    /\ runner.pc = "starting"
    /\ runner' = [runner EXCEPT !.pc = "running"]
    /\ sessions' = [sessions EXCEPT ![0] = Launched]
    /\ UNCHANGED aborted

\* An outage or a rate limit falls back; other errors only if the profile says so.
StartFails ==
    /\ runner.pc = "starting"
    /\ \E outage \in BOOLEAN :
        runner' = IF ~last /\ (outage \/ Trigger = "any-failure") THEN next ELSE returned("error")
    /\ UNCHANGED <<aborted, sessions>>

Returns ==
    /\ runner.pc = "running"
    /\ sessions[0].pc = "done"
    /\ runner' = IF sessions[0].outcome = "FATAL_FAILURE" /\ ~last /\ Trigger = "any-failure"
                 THEN next ELSE returned(sessions[0].outcome)
    /\ sessions' = [sessions EXCEPT ![0] = IF runner'.pc = "choose" THEN Off ELSE @]
    /\ UNCHANGED aborted

Runner == Choose \/ Started \/ StartFails \/ Returns

\* The cancel reaches the session the runner waits for, not its sub-agent.
CancelRun ==
    /\ ~aborted
    /\ runner.pc # "returned"
    /\ aborted' = TRUE
    /\ sessions' = IF runner.pc = "running" /\ running(0)
                   THEN [sessions EXCEPT ![0].cancelled = TRUE, ![0].override = "CANCELLED"]
                   ELSE sessions
    /\ UNCHANGED runner

AgentNext ==
    \/ \E d \in Depths : AgentLoop(d) \/ Timeout(d)
    \/ Runner \/ CancelRun

AgentSpec == AgentInit /\ [][AgentNext]_agentVars

AgentFairness ==
    /\ WF_agentVars(Runner)
    /\ \A d \in Depths : WF_agentVars(AgentLoop(d))

--------------------------------------------------------------------------------
(* Properties                                                                  *)

\* What the model is sent is well formed: every message that makes calls is
\* followed by one that answers them all, and nothing else answers calls, also
\* after errors, denials, limits and compaction.
HistoryWellFormed ==
    \A d \in Depths : sessions[d].pc = "invoke" =>
        LET h == sessions[d].history IN
        \A i \in DOMAIN h :
            /\ h[i].role = "assistant" /\ h[i].calls > 0 =>
                i < Len(h) /\ h[i + 1] = [role |-> "tool", calls |-> h[i].calls]
            /\ h[i].role = "tool" /\ h[i].calls > 0 =>
                i > 1 /\ h[i - 1] = [role |-> "assistant", calls |-> h[i].calls]

\* A session whose cancel was heard neither completes its goal nor asks anybody
\* for input, and its runner does not go on to another executor.
CancelHeard ==
    /\ \A d \in Depths : sessions[d].cancelled =>
        sessions[d].outcome \notin {"GOAL_COMPLETED", "HUMAN_INPUT_REQUIRED", "FATAL_FAILURE"}
    /\ sessions[0].cancelled => runner.pc \in {"running", "returned"}

\* A node's agent returns, whatever the model, the tools, the hooks and the people
\* it asks do, once each of them does something (turns, attempts, text-only turns
\* and denials are all bounded).
AgentReturns == <>(runner.pc = "returned")
===============================================================================
