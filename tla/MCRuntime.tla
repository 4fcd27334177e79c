------------------------------- MODULE MCRuntime -------------------------------
(* What the nodes of a run are made of, each component by itself: the session   *)
(* of an agent with its sub-agents, the executors of the nodes, a node with its *)
(* child runs, an experiment, an external agent, an invocation of a model,      *)
(* the tools of an MCP server, the conditions of its workflow.  "part" names     *)
(* the component a behaviour is about; the others stay where they start.         *)
EXTENDS Naturals, Sequences

CONSTANTS
    Parts,      \* the components to check
    MaxRestarts \* bound: restarts of the process while children run

VARIABLES part, runner, aborted, sessions, node, gate,
          parent, run, looking, wait, crashes, record, stepper,
          provider, script, key, timed, child, pipe, known, cancelRequested, timedOut,
          stopping, queue, result, step,
          protocol, message, streaming, attempt, phase, sent, blocks, told, cut, hungUp, response,
          config, clients, client, connecting, requests, closed, source

\* Three executors to try, the second of them not registered.
Executors == <<"native", "unknown", "native">>
Answers ==
    {<<>>, <<"tool", "complete_goal">>, <<"run_subagent", "unknown">>, <<"unknown", "request_human_input">>}

Agent == INSTANCE AgentSession WITH
    Chain <- Executors, Trigger <- "any-failure", Responses <- Answers,
    maxTurns <- 4, maxTextOnlyTurns <- 2, maxPolicyDenials <- 2, maxAttempts <- 2,
    maxPerRun <- 1, maxTokens <- 5, keepRecentMessages <- 3

\* A check that may be remediated twice, a human gate and two agents; two human gates.
Gate(kind, required, remediation, attempts) ==
    [kind |-> kind, required |-> required, remediation |-> remediation, maxAttempts |-> attempts]
Gates ==
    {<<Gate("check", TRUE, TRUE, 2), Gate("human", TRUE, TRUE, 1),
       Gate("agent", FALSE, TRUE, 1), Gate("agent", TRUE, FALSE, 1)>>,
     <<Gate("human", TRUE, TRUE, 1), Gate("human", TRUE, TRUE, 1)>>}

Nodes == INSTANCE GraphNodes WITH
    GateSets <- Gates, maxRemediationAttempts <- 2, MaxQuestions <- 2, MaxKills <- 1,
    Kinds <- {"agent", "command", "action", "human-input", "wait", "terminal", "gate"}

\* Up to three children, two at a time.
Children == INSTANCE ChildRuns WITH
    MaxItems <- 3, maxConcurrency <- 2, MaxCrashes <- MaxRestarts,
    Joins <- {[mode |-> "any", n |-> 0], [mode |-> "min", n |-> 2], [mode |-> "all", n |-> 0]}

\* Two candidates, two iterations, a score that passes and one that does not.
Trial == INSTANCE Experiment WITH
    candidateCount <- 2, survivorCount <- 2, maxIterations <- 2, hasPrototype <- TRUE,
    hasWallClock <- TRUE, Scores <- 0..1, advanceThreshold <- 1, MaxEntries <- 4

\* A turn that fails, with noise and a message after it; two messages; a stream of the SDK.
Output(p) ==
    CASE p = "codex" ->
            {<<"turn", "message", "turn.failed">>, <<"item.started", "noise", "message">>,
             <<"message", "usage">>}
      [] p = "copilot" -> {<<"text">>}
      [] p = "claude-code" ->
            {<<"assistant", "user", "success">>, <<"assistant", "error_max_turns">>}
Backends == {"codex", "copilot", "claude-code"}
Backend == INSTANCE AgentBackend WITH
    Providers <- Backends, Scripts <- [p \in Backends |-> Output(p)],
    Keys <- {"session", "empty"}, aborted <- stopping

\* Thinking, a text and two tool calls, one of them without input; three calls at once.
block(type, pieces) == [type |-> type, pieces |-> pieces, signed |-> type = "thinking"]
Model == INSTANCE ModelStream WITH
    Protocols <- {"anthropic", "openai"}, maxAttempts <- 2, aborted <- hungUp,
    Messages <- [anthropic |->
                   {<<block("thinking", <<"a", "b">>), block("text", <<"a">>),
                      block("tool_use", <<"a", "b">>), block("tool_use", <<>>)>>,
                    <<block("redacted_thinking", <<>>), block("text", <<"a", "b">>)>>},
                 openai |->
                   {<<block("text", <<"a">>), block("tool_use", <<"a", "b">>),
                      block("tool_use", <<"a">>), block("tool_use", <<"a", "b">>)>>}]

\* Servers with and without what their transport needs; a list of the tools and two calls.
Server(transport, command, url) == [transport |-> transport, command |-> command, url |-> url]
Tools == INSTANCE McpServers WITH
    Configs <- <<Server("stdio", "node", ""), Server("stdio", "", "address"),
                 Server("http", "", ""), Server("http", "", "malformed")>>,
    Requests <- [list |-> "list", first |-> "call", second |-> "call"],
    maxConnectAttempts <- 2

\* Conditions of up to three words over a small vocabulary, and longer ones of three
\* operands, with parentheses and without; two steps and a variable.
Path(path) == [type |-> "ident", value |-> "reference", path |-> path]
Spelled(type, value) == [type |-> type, value |-> value, path |-> <<>>]
Operator(value) == Spelled("op", value)
Paren == <<Spelled("lparen", "("), Spelled("rparen", ")")>>
Asks == {Path(<<"steps", "a", "failed">>), Path(<<"steps", "b", "skipped">>), Path(<<"steps", "a", "status">>)}
Plain == {Path(<<"vars", "v">>), Path(<<"steps", "b", "outputs", "out">>), Spelled("string", "failed")}
Odd == {Path(<<"vars", "">>), Path(<<"vars", "v", "w">>), Path(<<"steps", "a", "other">>), Path(<<"results", "a">>),
        [Path(<<"steps", "a-b", "failed">>) EXCEPT !.type = "dashed"], Spelled("other", "&"),
        Spelled("number", "0"), Spelled("ident", "true")}
Two == {Operator("&&"), Operator("==")}
All == Two \cup {Operator("||"), Operator("!=")}
Vocabulary == Asks \cup Plain \cup Two \cup {Operator("!"), Paren[1], Paren[2]}
Written ==
    UNION {[1..n -> Vocabulary] : n \in 1..3} \cup [1..2 -> Vocabulary \cup Odd]
    \cup {<<x, o, y>> : x, y \in Plain \cup Odd, o \in All}
    \cup {<<x, o, y, p, z>> : x, y, z \in Asks, o, p \in All}
    \cup {<<Paren[1], x, o, y, Paren[2], p, z>> : x, y, z \in Asks, o, p \in All}
    \cup {<<x, o, Operator("!"), Paren[1], y, p, z, Paren[2]>> : x, y, z \in Asks, o, p \in All}
Condition == INSTANCE Expressions WITH
    Sources <- Written, Steps <- {"a", "b"}, Vars <- {"v"},
    Values <- {<<"undefined", "">>, <<"string", "failed">>, <<"string", "">>}

agentVars == <<runner, aborted, sessions>>
nodeVars == <<node, gate>>
childVars == <<parent, run, looking, wait, crashes>>
experimentVars == <<record, stepper>>
backendVars == <<provider, script, key, timed, child, pipe, known, cancelRequested, timedOut,
                 stopping, queue, result, step>>
modelVars == <<protocol, message, streaming, attempt, phase, sent, blocks, told, cut, hungUp, response>>
mcpVars == <<config, clients, client, connecting, requests, closed>>

Init ==
    /\ part \in Parts
    /\ Agent!AgentInit /\ Nodes!NodesInit /\ Children!ChildInit /\ Trial!ExperimentInit
    /\ Backend!BackendInit /\ Model!ModelInit /\ Tools!McpInit
    /\ part # "nodes" => node.kind = "wait" /\ Len(node.gates) = 2
    /\ part # "children" => parent.items = 0 /\ parent.join.mode = "any"
    /\ part # "backend" => provider = "copilot" /\ key = "empty" /\ ~timed
    /\ part # "mcp" => config.transport = "http"
    /\ part # "model" => protocol = "openai" /\ ~streaming
    /\ source \in IF part = "expression" THEN Written ELSE {<<>>}

Next ==
    \/ part = "agent" /\ Agent!AgentNext
       /\ UNCHANGED <<part, source, nodeVars, childVars, experimentVars, backendVars, modelVars, mcpVars>>
    \/ part = "nodes" /\ Nodes!NodesNext
       /\ UNCHANGED <<part, source, agentVars, childVars, experimentVars, backendVars, modelVars, mcpVars>>
    \/ part = "children" /\ Children!ChildNext
       /\ UNCHANGED <<part, source, agentVars, nodeVars, experimentVars, backendVars, modelVars, mcpVars>>
    \/ part = "experiment" /\ Trial!ExperimentNext
       /\ UNCHANGED <<part, source, agentVars, nodeVars, childVars, backendVars, modelVars, mcpVars>>
    \/ part = "backend" /\ Backend!BackendNext
       /\ UNCHANGED <<part, source, agentVars, nodeVars, childVars, experimentVars, modelVars, mcpVars>>
    \/ part = "model" /\ Model!ModelNext
       /\ UNCHANGED <<part, source, agentVars, nodeVars, childVars, experimentVars, backendVars, mcpVars>>
    \/ part = "mcp" /\ Tools!McpNext
       /\ UNCHANGED <<part, source, agentVars, nodeVars, childVars, experimentVars, backendVars, modelVars>>

\* The fairness of each component, for the behaviours that are about it.
Fairness ==
    /\ WF_agentVars(part = "agent" /\ Agent!Runner)
    /\ \A d \in Agent!Depths : WF_agentVars(part = "agent" /\ Agent!AgentLoop(d))
    /\ WF_nodeVars(part = "nodes" /\ Nodes!NodeStep)
    /\ WF_nodeVars(part = "nodes" /\ Nodes!Satisfied)
    /\ WF_childVars(part = "children" /\ Children!Node)
    /\ \A b \in Children!AllBranches :
        /\ WF_childVars(part = "children" /\ Children!Child(b))
        /\ SF_childVars(part = "children" /\ (Children!ChildFinalized(b) \/ Children!ChildEndsUnheard(b)))
    /\ WF_experimentVars(part = "experiment" /\ Trial!StepperNext)
    /\ WF_backendVars(part = "backend" /\ Backend!Provider)
    /\ WF_backendVars(part = "backend" /\ (Backend!TimerFires \/ Backend!ClosedStream))
    /\ WF_mcpVars(part = "mcp" /\ Tools!Connecting)
    /\ \A r \in {"list", "first", "second"} : WF_mcpVars(part = "mcp" /\ Tools!Ends(r))

Spec ==
    /\ Init
    /\ [][Next]_<<part, source, agentVars, nodeVars, childVars, experimentVars, backendVars, modelVars, mcpVars>>
    /\ Fairness

--------------------------------------------------------------------------------
(* Properties                                                                   *)

\* An agent is sent a well-formed history, and a cancel it has heard is final; an
\* external agent is reported in full, once, and as it ended; a message of a model is
\* put together as it was sent, whatever the stream and the retries do; the tools of a
\* server are called over a connection that has not failed.
SessionsSound ==
    /\ Agent!HistoryWellFormed /\ Agent!CancelHeard
    /\ part = "backend" => Backend!OneResult /\ Backend!LinesReported
                          /\ Backend!OutcomeTruthful /\ Backend!StepTold
    /\ part = "model" => Model!MessageRestored /\ Model!DeltasAddUp
                        /\ Model!ToldOnce /\ Model!AbortIsNoFailure
    /\ part = "mcp" => Tools!FailedClientDropped /\ Tools!ConnectionsAccounted

\* A gate node that passes, a join that is decided and a candidate that advances
\* have each earned it; a condition is read as its grammar says, by both engines alike.
VerdictsEarned ==
    /\ Nodes!GatePassIsEarned /\ Children!JoinDecided /\ Trial!AdvanceIsEarned
    /\ part = "expression" => Condition!ParsedAsDocumented /\ Condition!TranslationKeepsVerdict

\* Whatever agents, tools, gates, children, candidates and people do, the work of a
\* node comes to an end, or waits for an answer.
NodesSettle ==
    /\ part = "agent" => Agent!AgentReturns
    /\ part = "nodes" => Nodes!NodeSettles
    /\ part = "children" => Children!ParentWoken
    /\ part = "experiment" => Trial!StepperSettles
    /\ part = "backend" => Backend!StepSettles
    /\ part = "mcp" => Tools!RequestsEnd

\* "Children execute detached; completion satisfies the parent wait" (coordinator.ts).
CompletionWakesParent == part = "children" => Children!CompletionWakesParent
================================================================================
