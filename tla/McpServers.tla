------------------------------- MODULE McpServers -------------------------------
(* McpToolProvider (packages/extensions/src/mcp.ts): the tools of one configured *)
(* MCP server.  The provider connects on first use, shares a connection that is  *)
(* being made among the calls that wait for it, and drops its client whenever a  *)
(* request fails; the server, the transport and the aborts of runs come and go.  *)
EXTENDS Naturals, FiniteSets, Sequences, SequencesExt

CONSTANTS
    Configs,            \* the servers configured, in order
    Requests,           \* name -> "list" or "call"
    maxConnectAttempts

VARIABLES
    config,     \* the server of the provider
    clients,    \* the clients made so far, in order: "connecting", "open" or "gone"
    client,     \* the one the provider holds, 0 for none
    connecting, \* the connection under way: what it does, its attempt and its client
    requests,   \* what became of each request, and the client it was sent with
    closed      \* close() was called

mcpVars == <<config, clients, client, connecting, requests, closed>>
NotConnecting == [pc |-> "no", attempt |-> 0, client |-> 0]

\* The constructor throws for a server without the field its transport needs, and the
\* server is passed over.
usable(c) == c.command = "" => c.transport = "http" /\ c.url # ""
createMcpToolProviders == SelectSeq(Configs, usable)

\* A URL that does not parse throws when the transport is built.
builds == config.transport = "stdio" \/ config.url # "malformed"

McpInit ==
    /\ config \in ToSet(createMcpToolProviders)
    /\ clients = <<>> /\ client = 0
    /\ connecting = NotConnecting
    /\ requests = [r \in DOMAIN Requests |-> [state |-> "none", client |-> 0]]
    /\ closed = FALSE

waiting == {r \in DOMAIN Requests : requests[r].state = "waits"}
now(r, state, c) == requests' = [requests EXCEPT ![r] = [state |-> state, client |-> c]]

\* Without a connection a list is empty, a call throws.
unavailable(r) == IF Requests[r] = "list" THEN "empty" ELSE "throws"

\* The next attempt begins with a client of its own.
attempts(n) ==
    /\ clients' = Append(clients, "connecting")
    /\ connecting' = [pc |-> "connects", attempt |-> n, client |-> Len(clients) + 1]

\* ensureConnected: the client there is, the connection under way, or a new one. Building
\* the transport is outside the try of an attempt.
Ask(r) ==
    /\ requests[r].state = "none"
    /\ IF client # 0 THEN now(r, "sent", client) /\ UNCHANGED <<clients, connecting>>
       ELSE IF connecting.pc # "no" THEN now(r, "waits", 0) /\ UNCHANGED <<clients, connecting>>
       ELSE IF builds THEN now(r, "waits", 0) /\ attempts(1)
       ELSE now(r, unavailable(r), 0) /\ UNCHANGED <<clients, connecting>>
    /\ UNCHANGED <<config, client, closed>>

\* Those who waited go on in the same turn, and send.
Connected ==
    /\ connecting.pc = "connects"
    /\ clients' = [clients EXCEPT ![connecting.client] = "open"]
    /\ client' = connecting.client
    /\ connecting' = NotConnecting
    /\ requests' = [r \in DOMAIN Requests |->
                      IF r \in waiting THEN [state |-> "sent", client |-> connecting.client]
                      ELSE requests[r]]
    /\ UNCHANGED <<config, closed>>

\* The attempt fails; after the last one all who wait are refused.
ConnectFails ==
    /\ connecting.pc = "connects"
    /\ clients' = [clients EXCEPT ![connecting.client] = "gone"]
    /\ IF connecting.attempt < maxConnectAttempts
       THEN connecting' = [connecting EXCEPT !.pc = "sleeps"] /\ UNCHANGED requests
       ELSE /\ connecting' = NotConnecting
            /\ requests' = [r \in DOMAIN Requests |->
                              IF r \in waiting THEN [state |-> unavailable(r), client |-> 0]
                              ELSE requests[r]]
    /\ UNCHANGED <<config, client, closed>>

RetryConnect ==
    /\ connecting.pc = "sleeps"
    /\ attempts(connecting.attempt + 1)
    /\ UNCHANGED <<config, client, requests, closed>>

\* The server answers, also with an error of the tool.
Answered(r) ==
    /\ requests[r].state = "sent" /\ clients[requests[r].client] = "open"
    /\ now(r, "answered", requests[r].client)
    /\ UNCHANGED <<config, clients, client, connecting, closed>>

\* A request fails when its transport is gone, its run is aborted or the server is late.
\* The client the provider holds by then is dropped, and not closed.
RequestFails(r) ==
    /\ requests[r].state = "sent"
    /\ now(r, "failed", requests[r].client)
    /\ client' = 0
    /\ UNCHANGED <<config, clients, connecting, closed>>

\* A server exits, or the connection to it breaks.
ServerGone ==
    /\ \E c \in DOMAIN clients : clients[c] = "open" /\ clients' = [clients EXCEPT ![c] = "gone"]
    /\ UNCHANGED <<config, client, connecting, requests, closed>>

\* close(): of the client there is; a connection under way is not stopped.
Close ==
    /\ ~closed
    /\ closed' = TRUE
    /\ clients' = IF client = 0 THEN clients ELSE [clients EXCEPT ![client] = "gone"]
    /\ client' = 0
    /\ UNCHANGED <<config, connecting, requests>>

McpNext ==
    \/ \E r \in DOMAIN Requests : Ask(r) \/ Answered(r) \/ RequestFails(r)
    \/ Connected \/ ConnectFails \/ RetryConnect \/ ServerGone \/ Close

McpSpec == McpInit /\ [][McpNext]_mcpVars

\* What goes on by itself: attempts come to an end, so does the pause before the next, and
\* the client library times a request out.
Ends(r) == Answered(r) \/ RequestFails(r)
Connecting == Connected \/ ConnectFails \/ RetryConnect

--------------------------------------------------------------------------------
(* Properties                                                                   *)

failed == {r \in DOMAIN Requests : requests[r].state = "failed"}

\* "drops its client (reconnecting on the next call) whenever a request fails": no call
\* is sent with a client on which an earlier one has failed, however many were under way.
FailedClientDropped == client # 0 => \A r \in failed : requests[r].client # client

\* The clients are not closed when they are dropped, nor replaced without need: every
\* open one that the provider has lost sight of, with the process it may have started,
\* stands for a request that failed.
ConnectionsAccounted ==
    /\ Cardinality({c \in DOMAIN clients : clients[c] = "open"} \ {client}) <= Cardinality(failed)
    /\ Cardinality({c \in DOMAIN clients : clients[c] = "connecting"}) <= 1

\* Every request is answered or fails: nobody waits for a connection that nobody makes.
RequestsEnd == \A r \in DOMAIN Requests : requests[r].state \in {"waits", "sent"} ~>
                   requests[r].state \notin {"waits", "sent"}
================================================================================
