------------------------------ MODULE AgentBackend ------------------------------
(***************************************************************************)
(* A step that is run by an external agent (agent-codex, agent-copilot,    *)
(* agent-claude-code): the child process or the stream of the SDK, the     *)
(* provider that turns what it prints into events and one result, and the  *)
(* executor that publishes the events and waits for the result             *)
(* (executors.ts).                                                         *)
(***************************************************************************)
EXTENDS Naturals, Sequences, SequencesExt

CONSTANTS
    Providers,  \* "codex", "copilot" or "claude-code"
    Scripts,    \* of a provider: what its agent may print, a sequence of kinds of lines
    Keys        \* "session" without a key; or the key: "absent", "empty" or "set"

VARIABLES
    provider, script, key, timed,   \* what is run, and whether with a timeout
    child,      \* the process: [state, code, heir], "heir" being a process of its own
                \* that shares its output
    pipe,       \* what has been printed of the script and read of it, in thirds of lines
    known,      \* what the provider remembers: a failed turn, the last message
    cancelRequested, timedOut, aborted,
    queue,      \* the events: [events, closed, taken], "taken" of them published
    result, step

backendVars == <<provider, script, key, timed, child, pipe, known, cancelRequested, timedOut,
                 aborted, queue, result, step>>
request == <<provider, script, key, timed>>

isProcess == provider # "claude-code"
Unread == [printed |-> 0, read |-> 0]

BackendInit ==
    /\ provider \in Providers /\ script \in Scripts[provider]
    /\ key \in Keys /\ timed \in BOOLEAN
    /\ child = [state |-> "none", code |-> "none", heir |-> FALSE]
    /\ pipe = Unread
    /\ known = [failed |-> FALSE, message |-> 0]
    /\ cancelRequested = FALSE /\ timedOut = FALSE /\ aborted = FALSE
    /\ queue = [events |-> <<>>, closed |-> FALSE, taken |-> 0]
    /\ result = "pending" /\ step = "resolving"

--------------------------------------------------------------------------------
(* Events and results                                                           *)

event(type, line) == [type |-> type, line |-> line]

\* Nothing is added to a queue that is closed.
push(events) == IF queue.closed THEN queue ELSE [queue EXCEPT !.events = @ \o events]

\* What the core is told of a line.
typesOf(kind) ==
    CASE kind = "turn" -> <<"agent.turn.started">>
      [] kind \in {"message", "warning"} -> <<"agent.text">>
      [] kind = "item.started" -> <<"agent.tool.started">>
      [] kind \in {"item.completed", "user"} -> <<"agent.tool.completed">>
      [] kind = "assistant" -> <<"agent.turn.started", "agent.text", "agent.tool.started">>
      [] kind \in {"usage", "success", "error_max_turns", "error_during_execution"} ->
            <<"agent.usage">>
      [] OTHER -> <<>>
translated(i) ==
    LET types == typesOf(script[i]) IN [k \in DOMAIN types |-> event(types[k], i)]
eventsOf(lines) == FlattenSeq([k \in DOMAIN lines |-> translated(lines[k])])
interval(a, b) == [k \in 1..(b - a) |-> a + k]

\* The result of a run is settled once.
settle(outcome) == IF result = "pending" THEN outcome ELSE result
completed(events, outcome) ==
    /\ queue' = [push(Append(events, event("agent.completed", outcome))) EXCEPT !.closed = TRUE]
    /\ result' = settle(outcome)

--------------------------------------------------------------------------------
(* The process                                                                  *)

\* SIGKILL ends the process, but not one it has started.
kill == IF child.state = "runs" /\ isProcess
        THEN [child EXCEPT !.state = "exited", !.code = "signal"]
        ELSE IF child.state = "runs" THEN [child EXCEPT !.state = "closing"] ELSE child

Write ==
    /\ isProcess /\ (child.state = "runs" \/ child.heir)
    /\ pipe.printed < 3 * Len(script)
    /\ \E n \in {1, 3 - (pipe.printed % 3)} : pipe' = [pipe EXCEPT !.printed = @ + n]
    /\ UNCHANGED <<request, child, known, cancelRequested, timedOut, aborted, queue, result, step>>

\* The last line may be left without its end.
Exit(code) ==
    /\ isProcess /\ child.state = "runs"
    /\ code = "0" => ~child.heir /\ pipe.printed >= 3 * Len(script) - 1
    /\ child' = [child EXCEPT !.state = "exited", !.code = code]
    /\ UNCHANGED <<request, pipe, known, cancelRequested, timedOut, aborted, queue, result, step>>

HeirEnds ==
    /\ child.heir
    /\ child' = [child EXCEPT !.heir = FALSE]
    /\ UNCHANGED <<request, pipe, known, cancelRequested, timedOut, aborted, queue, result, step>>

--------------------------------------------------------------------------------
(* The providers                                                                *)

\* An agent is started with its key, if it needs one.
StartAgent ==
    /\ step = "resolving"
    /\ IF key \in {"absent", "empty"}
       THEN step' = "failed" /\ UNCHANGED <<child, queue>>
       ELSE /\ step' = "running"
            /\ child' \in [state : {"runs"} \cup (IF isProcess THEN {"unspawned"} ELSE {}),
                           code : {"none"}, heir : IF isProcess THEN BOOLEAN ELSE {FALSE}]
            /\ child'.heir => child'.state = "runs"
            /\ queue' = push(<<event("agent.started", 0)>>)
    /\ UNCHANGED <<request, pipe, known, cancelRequested, timedOut, aborted, result>>

\* A chunk ends anywhere: a line is handled when its end has been read. Copilot's
\* output has no lines.
Data ==
    /\ isProcess
    /\ \E to \in (pipe.read + 1)..pipe.printed :
         LET lines == interval(pipe.read \div 3, to \div 3) IN
         /\ pipe' = [pipe EXCEPT !.read = to]
         /\ queue' = push(IF provider = "copilot" THEN <<event("agent.text", to)>>
                          ELSE eventsOf(lines))
         /\ known' = [failed |-> known.failed \/ \E i \in Range(lines) : script[i] = "turn.failed",
                      message |-> Max({known.message} \cup
                                      {i \in Range(lines) : script[i] = "message"})]
    /\ UNCHANGED <<request, child, cancelRequested, timedOut, aborted, result, step>>

\* What is left in the splitter when the output ends: a line that only lacks its end.
flush == IF provider = "codex" /\ pipe.read % 3 = 2 THEN <<pipe.read \div 3 + 1>> ELSE <<>>

outcomeOf(lines) ==
    CASE cancelRequested -> "CANCELLED"
      [] ~cancelRequested /\ timedOut -> "BUDGET_EXHAUSTED"
      [] OTHER ->
           IF child.code = "0" /\ ~known.failed /\ \A i \in Range(lines) : script[i] # "turn.failed"
           THEN "GOAL_COMPLETED" ELSE "FATAL_FAILURE"

\* The process has exited and its output has ended.
finish ==
    /\ isProcess /\ child.state = "exited" /\ ~child.heir /\ pipe.read = pipe.printed
    /\ completed(eventsOf(flush), outcomeOf(flush))
    /\ known' = [known EXCEPT !.message = IF \E i \in Range(flush) : script[i] = "message"
                                          THEN flush[1] ELSE @]
    /\ child' = [child EXCEPT !.state = "closed"]
    /\ UNCHANGED <<request, pipe, cancelRequested, timedOut, aborted, step>>

\* A process that could not be started is reported, and then closed like any other.
SpawnError ==
    /\ child.state = "unspawned"
    /\ completed(<<>>, "FATAL_FAILURE")
    /\ child' = [child EXCEPT !.state = "exited", !.code = "error"]
    /\ UNCHANGED <<request, pipe, known, cancelRequested, timedOut, aborted, step>>

\* The timer is cleared with the result.
TimerFires ==
    /\ timed /\ child.state # "none" /\ ~timedOut /\ result = "pending"
    /\ timedOut' = TRUE /\ child' = kill
    /\ UNCHANGED <<request, pipe, known, cancelRequested, aborted, queue, result, step>>

abortedResult == IF timedOut THEN "BUDGET_EXHAUSTED" ELSE "CANCELLED"

outcomeOfResult(i) ==
    CASE script[i] = "success" -> "GOAL_COMPLETED"
      [] script[i] = "error_max_turns" -> "BUDGET_EXHAUSTED"
      [] OTHER -> "FATAL_FAILURE"
isResult(i) == script[i] \in {"success", "error_max_turns", "error_during_execution"}

\* A message of the SDK, which may have one ready when it is closed; the stream of a
\* result ends there.
Message ==
    /\ ~isProcess /\ child.state \in {"runs", "closing"} /\ pipe.read < Len(script)
    /\ pipe' = [printed |-> pipe.read + 1, read |-> pipe.read + 1]
    /\ LET i == pipe.read + 1 IN
       IF isResult(i)
       THEN completed(translated(i), outcomeOfResult(i)) /\ child' = [child EXCEPT !.state = "closed"]
       ELSE queue' = push(translated(i)) /\ UNCHANGED <<child, result>>
    /\ UNCHANGED <<request, known, cancelRequested, timedOut, aborted, step>>

\* The stream of the SDK ends without a result.
StreamEnds ==
    /\ ~isProcess /\ child.state \in {"runs", "closing"}
    /\ completed(<<>>, abortedResult)
    /\ child' = [child EXCEPT !.state = "closed"]
    /\ UNCHANGED <<request, pipe, known, cancelRequested, timedOut, aborted, step>>

StreamThrows ==
    /\ ~isProcess /\ child.state \in {"runs", "closing"}
    /\ IF cancelRequested \/ timedOut THEN completed(<<>>, abortedResult)
       ELSE queue' = [queue EXCEPT !.closed = TRUE] /\ result' = settle("rejected")
    /\ child' = [child EXCEPT !.state = "closed"]
    /\ UNCHANGED <<request, pipe, known, cancelRequested, timedOut, aborted, step>>

--------------------------------------------------------------------------------
(* The executor                                                                 *)

\* A run that is aborted while its agent starts is not cancelled: nothing listens yet.
Abort ==
    /\ ~aborted
    /\ aborted' = TRUE
    /\ IF step \in {"running", "draining"} THEN cancelRequested' = TRUE /\ child' = kill
       ELSE UNCHANGED <<cancelRequested, child>>
    /\ UNCHANGED <<request, pipe, known, timedOut, queue, result, step>>

Publish ==
    /\ queue.taken < Len(queue.events)
    /\ queue' = [queue EXCEPT !.taken = @ + 1]
    /\ UNCHANGED <<request, child, pipe, known, cancelRequested, timedOut, aborted, result, step>>

Result ==
    /\ step = "running" /\ result # "pending"
    /\ step' = IF result = "rejected" THEN "failed" ELSE "draining"
    /\ UNCHANGED <<request, child, pipe, known, cancelRequested, timedOut, aborted, queue, result>>

\* The result is given to the workflow when its events have been published.
Drained ==
    /\ step = "draining" /\ queue.closed /\ queue.taken = Len(queue.events)
    /\ step' = IF result = "GOAL_COMPLETED" THEN "succeeded" ELSE "failed"
    /\ UNCHANGED <<request, child, pipe, known, cancelRequested, timedOut, aborted, queue, result>>

Provider == StartAgent \/ Data \/ finish \/ SpawnError \/ Result \/ Drained \/ Publish
ClosedStream == child.state = "closing" /\ (StreamEnds \/ StreamThrows)

BackendNext ==
    \/ Provider \/ TimerFires \/ Message \/ StreamEnds \/ StreamThrows \/ Abort
    \/ Write \/ HeirEnds \/ \E code \in {"0", "1"} : Exit(code)

BackendSpec == BackendInit /\ [][BackendNext]_backendVars

--------------------------------------------------------------------------------
(* Properties                                                                   *)

over == result # "pending"
outputs == {i \in DOMAIN queue.events : queue.events[i].type # "agent.started"
                                          /\ queue.events[i].type # "agent.completed"}

\* An agent ends once: its stream is closed with the result, carries it as its last
\* event, and no second report of the process changes either ("Structured event stream;
\* ends after `agent.completed`", agent.ts; the stream of the SDK that throws ends
\* without).
OneResult ==
    /\ queue.closed <=> over
    /\ \A i \in DOMAIN queue.events :
         queue.events[i].type = "agent.completed" =>
            i = Len(queue.events) /\ queue.events[i].line = result
    /\ over /\ result # "rejected" => Last(queue.events).type = "agent.completed"

\* However its output is cut into chunks and wherever it breaks off, an agent is reported
\* line by line, in order and without a gap, and one that was successful in full.
LinesReported ==
    /\ \A i, j \in outputs : i < j => queue.events[i].line <= queue.events[j].line
    /\ provider # "copilot" =>
         \A i \in outputs : \A n \in 1..(queue.events[i].line - 1) :
            translated(n) # <<>> => \E j \in outputs : queue.events[j].line = n
    /\ result = "GOAL_COMPLETED" /\ provider = "codex" =>
         /\ Range(eventsOf(interval(0, Len(script)))) = {queue.events[i] : i \in outputs}
         /\ \A i \in DOMAIN script : script[i] = "message" => i <= known.message

\* An agent that was stopped before it ended is not taken to have reached its goal,
\* and one is said to have been stopped, or out of time, only if it was, or if the
\* stream of its SDK broke off.
OutcomeTruthful ==
    /\ isProcess /\ result = "GOAL_COMPLETED" => child.code = "0" /\ ~timedOut
    /\ result = "GOAL_COMPLETED" => "turn.failed" \notin Range(script)
    /\ isProcess /\ result = "CANCELLED" => aborted
    /\ isProcess /\ result = "BUDGET_EXHAUSTED" => timedOut

\* A step that has the result of an agent has told all of its events.
StepTold ==
    step = "succeeded" \/ (step = "failed" /\ over /\ result # "rejected") =>
        queue.taken = Len(queue.events)

\* An agent with a timeout comes to an end, unless a process it has left behind holds on
\* to its output.
StepSettles == timed => <>(step \in {"succeeded", "failed"} \/ child.heir)
================================================================================
