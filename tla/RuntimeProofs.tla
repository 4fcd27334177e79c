----------------------------- MODULE RuntimeProofs -----------------------------
(***************************************************************************)
(* What the nodes of a run are made of: theorems about the components of    *)
(* MCRuntime, one section for each, with the invariant it rests on.         *)
(***************************************************************************)
EXTENDS McpServers, ChildRuns, Experiment, AgentSession, GraphNodes, FiniteSetTheorems, TLAPS

--------------------------------------------------------------------------------
(***** The clients of MCP servers *********************************************)

\* A provider is asked finitely many things.
McpAssumption == IsFiniteSet(DOMAIN Requests)

Clients == 0..Len(clients)
RequestStates == {"none", "waits", "sent", "answered", "failed", "empty", "throws"}

McpTyped ==
    /\ clients \in Seq({"connecting", "open", "gone"})
    /\ client \in Clients
    /\ connecting \in [pc : {"no", "connects", "sleeps"}, attempt : Nat, client : Clients]
    /\ requests \in [DOMAIN Requests -> [state : RequestStates, client : Clients]]

\* A client that is connecting is the newest, and nothing was sent with it: what was
\* sent, was sent with one that was open before. The provider holds none meanwhile.
OneConnects ==
    /\ \A c \in DOMAIN clients :
         clients[c] = "connecting" => connecting.pc = "connects" /\ connecting.client = c
    /\ connecting.pc # "no" => client = 0
    /\ connecting.pc = "connects" =>
         /\ connecting.client # 0
         /\ \A r \in DOMAIN Requests : requests[r].client # connecting.client

strays == {c \in DOMAIN clients : clients[c] = "open"} \ {client}

McpInv ==
    /\ McpTyped
    /\ OneConnects
    /\ FailedClientDropped
    /\ Cardinality(strays) <= Cardinality(failed)

LEMMA McpSets ==
    ASSUME McpAssumption, McpTyped
    PROVE  /\ DOMAIN clients = 1..Len(clients)
           /\ Len(clients) \in Nat
           /\ IsFiniteSet(strays) /\ IsFiniteSet(failed)
           /\ Cardinality(strays) \in Nat /\ Cardinality(failed) \in Nat
<1>1. DOMAIN clients = 1..Len(clients) /\ Len(clients) \in Nat
  BY DEF McpTyped
<1>2. IsFiniteSet(DOMAIN clients)
  BY <1>1, FS_Interval
<1>3. IsFiniteSet(strays)
  <2>1. strays \subseteq DOMAIN clients
    BY DEF strays
  <2> QED BY <1>2, <2>1, FS_Subset
<1>4. IsFiniteSet(failed)
  <2>1. failed \subseteq DOMAIN Requests
    BY DEF failed
  <2> QED BY <2>1, FS_Subset DEF McpAssumption
<1> QED
  BY <1>1, <1>3, <1>4, FS_CardinalityType

\* The requests that failed are as many as before, or one more; the clients that stray
\* are among those that strayed, or there is one more for the request that failed.
LEMMA StraysCounted ==
    ASSUME McpAssumption, McpTyped, McpTyped',
           Cardinality(strays) <= Cardinality(failed),
           \/ strays' \subseteq strays /\ failed \subseteq failed'
           \/ \E c, r : strays' \subseteq strays \cup {c} /\ failed' = failed \cup {r} /\ r \notin failed
    PROVE  Cardinality(strays') <= Cardinality(failed')
<1>1. /\ IsFiniteSet(strays) /\ IsFiniteSet(failed) /\ IsFiniteSet(strays') /\ IsFiniteSet(failed')
      /\ Cardinality(strays) \in Nat /\ Cardinality(failed) \in Nat
      /\ Cardinality(strays') \in Nat /\ Cardinality(failed') \in Nat
  <2>1. IsFiniteSet(failed')
    BY FS_Subset DEF McpAssumption, failed
  <2>2. IsFiniteSet(strays')
    <3>1. (DOMAIN clients)' = 1..Len(clients') /\ Len(clients') \in Nat
      BY DEF McpTyped
    <3>2. IsFiniteSet(1..Len(clients'))
      BY <3>1, FS_Interval
    <3>3. strays' \subseteq 1..Len(clients')
      BY <3>1 DEF strays
    <3> QED BY <3>2, <3>3, FS_Subset
  <2> QED BY <2>1, <2>2, McpSets, FS_CardinalityType
<1>2. CASE strays' \subseteq strays /\ failed \subseteq failed'
  <2>1. Cardinality(strays') <= Cardinality(strays) /\ Cardinality(failed) <= Cardinality(failed')
    BY <1>1, <1>2, FS_Subset
  <2> QED BY <1>1, <2>1
<1>3. ASSUME NEW c, NEW r, strays' \subseteq strays \cup {c}, failed' = failed \cup {r}, r \notin failed
      PROVE  Cardinality(strays') <= Cardinality(failed')
  <2>1. Cardinality(failed') = Cardinality(failed) + 1
    BY <1>1, <1>3, FS_AddElement
  <2>2. IsFiniteSet(strays \cup {c}) /\ Cardinality(strays \cup {c}) <= Cardinality(strays) + 1
    BY <1>1, FS_AddElement
  <2>3. Cardinality(strays') <= Cardinality(strays \cup {c}) /\ Cardinality(strays \cup {c}) \in Nat
    BY <1>3, <2>2, FS_Subset, FS_CardinalityType
  <2> QED BY <1>1, <2>1, <2>2, <2>3
<1> QED
  BY <1>2, <1>3

--------------------------------------------------------------------------------
(* The steps *)

LEMMA McpAtFirst ==
    ASSUME McpAssumption, McpInit
    PROVE  McpInv
<1>1. McpTyped /\ OneConnects /\ FailedClientDropped
  BY DEF McpInit, McpTyped, OneConnects, FailedClientDropped, NotConnecting, Clients, RequestStates
<1>2. strays = {}
  BY DEF McpInit, strays
<1>3. Cardinality(strays) = 0
  BY <1>2, FS_EmptySet
<1> QED
  BY <1>1, <1>3, McpSets DEF McpInv

\* A new client is the last one, and no request was sent with it.
LEMMA AttemptStays ==
    ASSUME McpTyped, OneConnects, connecting.pc # "connects", NEW n \in Nat, attempts(n),
           client = 0, client' = 0
    PROVE  /\ clients' \in Seq({"connecting", "open", "gone"})
           /\ Clients \subseteq Clients'
           /\ connecting' \in [pc : {"no", "connects", "sleeps"}, attempt : Nat, client : Clients']
           /\ connecting'.pc = "connects" /\ connecting'.client = Len(clients) + 1
           /\ \A c \in DOMAIN clients' : clients'[c] = "connecting" => c = Len(clients) + 1
           /\ \A r \in DOMAIN Requests : requests[r].client # Len(clients) + 1
           /\ strays' \subseteq strays
<1>1. clients' = Append(clients, "connecting") /\ Len(clients) \in Nat
  BY DEF attempts, McpTyped
<1>2. Len(clients') = Len(clients) + 1 /\ clients' \in Seq({"connecting", "open", "gone"})
  BY <1>1 DEF McpTyped
<1>3. \A c \in DOMAIN clients' : c = Len(clients) + 1 \/ (c \in DOMAIN clients /\ clients'[c] = clients[c])
  BY <1>1, <1>2 DEF McpTyped
<1>4. clients'[Len(clients) + 1] = "connecting"
  BY <1>1 DEF McpTyped
<1>5. \A r \in DOMAIN Requests : requests[r].client # Len(clients) + 1
  BY <1>1 DEF McpTyped, Clients
<1>6. strays' \subseteq strays
  BY <1>3, <1>4 DEF strays
<1>7. Clients \subseteq Clients'
  BY <1>1, <1>2 DEF Clients
<1>8. connecting' \in [pc : {"no", "connects", "sleeps"}, attempt : Nat, client : Clients']
  BY <1>1, <1>2 DEF attempts, Clients
<1>9. \A c \in DOMAIN clients' : clients'[c] = "connecting" => c = Len(clients) + 1
  BY <1>3 DEF OneConnects
<1> QED
  BY <1>2, <1>5, <1>6, <1>7, <1>8, <1>9 DEF attempts

LEMMA AskStays ==
    ASSUME McpAssumption, McpInv, NEW r \in DOMAIN Requests, Ask(r)
    PROVE  McpInv'
<1> USE DEF RequestStates
<1>1. McpTyped /\ OneConnects /\ FailedClientDropped /\ Cardinality(strays) <= Cardinality(failed)
  BY DEF McpInv
<1>2. client' = client /\ requests[r].state = "none"
  BY DEF Ask
<1>3. CASE clients' = clients /\ connecting' = connecting
  <2>1. \E s \in {"sent", "waits", "empty", "throws"}, c \in {client, 0} :
          requests' = [requests EXCEPT ![r] = [state |-> s, client |-> c]]
    BY <1>2, <1>3, <1>1 DEF Ask, now, unavailable, attempts, McpTyped
  <2>2. McpTyped'
    BY <1>1, <1>2, <1>3, <2>1 DEF McpTyped, Clients
  <2>3. OneConnects'
    BY <1>1, <1>2, <1>3, <2>1 DEF McpTyped, OneConnects, Clients
  <2>4. failed' = failed /\ FailedClientDropped'
    BY <1>1, <1>2, <1>3, <2>1 DEF McpTyped, FailedClientDropped, failed
  <2>5. strays' = strays
    BY <1>2, <1>3 DEF strays
  <2> QED BY <1>1, <2>2, <2>3, <2>4, <2>5 DEF McpInv
<1>4. CASE client = 0 /\ connecting.pc = "no" /\ now(r, "waits", 0) /\ attempts(1)
  <2>1. requests' = [requests EXCEPT ![r] = [state |-> "waits", client |-> 0]]
    BY <1>4 DEF now
  <2>2. /\ clients' \in Seq({"connecting", "open", "gone"})
        /\ Clients \subseteq Clients'
        /\ connecting' \in [pc : {"no", "connects", "sleeps"}, attempt : Nat, client : Clients']
        /\ connecting'.pc = "connects" /\ connecting'.client = Len(clients) + 1
        /\ \A c \in DOMAIN clients' : clients'[c] = "connecting" => c = Len(clients) + 1
        /\ \A q \in DOMAIN Requests : requests[q].client # Len(clients) + 1
        /\ strays' \subseteq strays
    <3>1. 1 \in Nat /\ connecting.pc # "connects" /\ client = 0 /\ client' = 0 /\ attempts(1)
      BY <1>2, <1>4
    <3> QED BY <1>1, <3>1, AttemptStays
  <2>3. Len(clients) \in Nat
    BY <1>1 DEF McpTyped
  <2>4. 0 \in Clients /\ client \in Clients'
    BY <2>3, <2>2, <1>4 DEF Clients
  <2>5. requests' \in [DOMAIN Requests -> [state : RequestStates, client : Clients']]
    BY <1>1, <2>1, <2>2, <2>4 DEF McpTyped
  <2>6. McpTyped'
    BY <1>2, <2>2, <2>4, <2>5 DEF McpTyped
  <2>7. OneConnects'
    BY <1>1, <1>2, <1>4, <2>1, <2>2, <2>3 DEF OneConnects, McpTyped
  <2>8. failed' = failed /\ FailedClientDropped'
    BY <1>1, <1>2, <1>4, <2>1 DEF McpTyped, FailedClientDropped, failed
  <2>9. Cardinality(strays') <= Cardinality(failed')
    BY <1>1, <2>2, <2>6, <2>8, StraysCounted
  <2> QED BY <2>6, <2>7, <2>8, <2>9 DEF McpInv
<1> QED
  BY <1>3, <1>4 DEF Ask

LEMMA ConnectedStays ==
    ASSUME McpAssumption, McpInv, Connected
    PROVE  McpInv'
<1>1. McpTyped /\ OneConnects /\ FailedClientDropped /\ Cardinality(strays) <= Cardinality(failed)
  BY DEF McpInv
<1>2. /\ connecting.pc = "connects"
      /\ clients' = [clients EXCEPT ![connecting.client] = "open"]
      /\ client' = connecting.client
      /\ connecting' = NotConnecting
      /\ requests' = [r \in DOMAIN Requests |->
                        IF r \in waiting THEN [state |-> "sent", client |-> connecting.client]
                        ELSE requests[r]]
  BY DEF Connected
<1>3. connecting.client \in Clients /\ connecting.client # 0 /\ client = 0
  BY <1>1, <1>2 DEF McpTyped, OneConnects
<1>4. clients' \in Seq({"connecting", "open", "gone"}) /\ Len(clients') = Len(clients)
      /\ DOMAIN clients' = DOMAIN clients /\ Len(clients) \in Nat
  <2>1. connecting.client \in DOMAIN clients
    BY <1>1, <1>3 DEF McpTyped, Clients
  <2> QED BY <1>1, <1>2, <2>1 DEF McpTyped
<1>5. McpTyped'
  <2>1. Clients' = Clients
    BY <1>4 DEF Clients
  <2>2. connecting' \in [pc : {"no", "connects", "sleeps"}, attempt : Nat, client : Clients]
    BY <1>2, <1>4 DEF NotConnecting, Clients
  <2>3. requests' \in [DOMAIN Requests -> [state : RequestStates, client : Clients]]
    BY <1>1, <1>2, <1>3 DEF McpTyped, RequestStates
  <2> QED BY <1>2, <1>3, <1>4, <2>1, <2>2, <2>3 DEF McpTyped
<1>6. \A c \in DOMAIN clients : c # connecting.client => clients'[c] = clients[c]
  BY <1>1, <1>2 DEF McpTyped
<1>7. connecting.client \in DOMAIN clients /\ clients'[connecting.client] = "open"
  BY <1>1, <1>2, <1>3, <1>4 DEF McpTyped, Clients
<1>8. OneConnects'
  BY <1>1, <1>2, <1>4, <1>6, <1>7 DEF OneConnects, NotConnecting
<1>9. failed' = failed /\ \A r \in failed : requests'[r] = requests[r]
  BY <1>2 DEF failed, waiting
<1>10. FailedClientDropped'
  BY <1>1, <1>2, <1>9 DEF FailedClientDropped, OneConnects, failed
<1>11. strays' \subseteq strays
  BY <1>2, <1>3, <1>4, <1>6 DEF strays
<1>12. Cardinality(strays') <= Cardinality(failed')
  BY <1>1, <1>5, <1>9, <1>11, StraysCounted
<1> QED
  BY <1>5, <1>8, <1>10, <1>12 DEF McpInv

LEMMA ConnectFailsStays ==
    ASSUME McpAssumption, McpInv, ConnectFails
    PROVE  McpInv'
<1>1. McpTyped /\ OneConnects /\ FailedClientDropped /\ Cardinality(strays) <= Cardinality(failed)
  BY DEF McpInv
<1>2. /\ connecting.pc = "connects"
      /\ clients' = [clients EXCEPT ![connecting.client] = "gone"]
      /\ client' = client
  BY DEF ConnectFails
<1>3. \/ connecting' = [connecting EXCEPT !.pc = "sleeps"] /\ requests' = requests
      \/ /\ connecting' = NotConnecting
         /\ requests' = [r \in DOMAIN Requests |->
                           IF r \in waiting THEN [state |-> unavailable(r), client |-> 0] ELSE requests[r]]
  BY DEF ConnectFails
<1>4. connecting.client \in Clients /\ connecting.client # 0 /\ client = 0
  BY <1>1, <1>2 DEF McpTyped, OneConnects
<1>5. clients' \in Seq({"connecting", "open", "gone"}) /\ Len(clients') = Len(clients)
      /\ DOMAIN clients' = DOMAIN clients /\ Len(clients) \in Nat
  <2>1. connecting.client \in DOMAIN clients
    BY <1>1, <1>4 DEF McpTyped, Clients
  <2> QED BY <1>1, <1>2, <2>1 DEF McpTyped
<1>6. McpTyped'
  <2>1. Clients' = Clients /\ 0 \in Clients
    BY <1>5 DEF Clients
  <2>2. connecting' \in [pc : {"no", "connects", "sleeps"}, attempt : Nat, client : Clients]
    BY <1>1, <1>3, <2>1 DEF NotConnecting, McpTyped
  <2>3. requests' \in [DOMAIN Requests -> [state : RequestStates, client : Clients]]
    BY <1>1, <1>3, <2>1 DEF McpTyped, RequestStates, unavailable
  <2> QED BY <1>2, <1>4, <1>5, <2>1, <2>2, <2>3 DEF McpTyped
<1>7. \A c \in DOMAIN clients : clients'[c] = IF c = connecting.client THEN "gone" ELSE clients[c]
  BY <1>1, <1>2 DEF McpTyped
<1>8. connecting'.pc # "connects"
  BY <1>1, <1>3 DEF McpTyped, NotConnecting
<1>9. OneConnects'
  BY <1>1, <1>2, <1>4, <1>5, <1>7, <1>8 DEF OneConnects
<1>10. failed' = failed /\ \A r \in failed : requests'[r] = requests[r]
  BY <1>3 DEF failed, waiting, unavailable
<1>11. FailedClientDropped'
  BY <1>2, <1>4 DEF FailedClientDropped
<1>12. strays' \subseteq strays
  BY <1>2, <1>5, <1>7 DEF strays
<1>13. Cardinality(strays') <= Cardinality(failed')
  BY <1>1, <1>6, <1>10, <1>12, StraysCounted
<1> QED
  BY <1>6, <1>9, <1>11, <1>13 DEF McpInv

LEMMA RetryConnectStays ==
    ASSUME McpAssumption, McpInv, RetryConnect
    PROVE  McpInv'
<1>1. McpTyped /\ OneConnects /\ FailedClientDropped /\ Cardinality(strays) <= Cardinality(failed)
  BY DEF McpInv
<1>2. connecting.pc = "sleeps" /\ attempts(connecting.attempt + 1) /\ client' = client /\ requests' = requests
  BY DEF RetryConnect
<1>3. client = 0 /\ client' = 0 /\ connecting.pc # "connects" /\ connecting.attempt + 1 \in Nat
  BY <1>1, <1>2 DEF OneConnects, McpTyped
<1>4. /\ clients' \in Seq({"connecting", "open", "gone"})
      /\ Clients \subseteq Clients'
      /\ connecting' \in [pc : {"no", "connects", "sleeps"}, attempt : Nat, client : Clients']
      /\ connecting'.pc = "connects" /\ connecting'.client = Len(clients) + 1
      /\ \A c \in DOMAIN clients' : clients'[c] = "connecting" => c = Len(clients) + 1
      /\ \A q \in DOMAIN Requests : requests[q].client # Len(clients) + 1
      /\ strays' \subseteq strays
  BY <1>1, <1>2, <1>3, AttemptStays
<1>5. Len(clients) \in Nat
  BY <1>1 DEF McpTyped
<1>6. requests' \in [DOMAIN Requests -> [state : RequestStates, client : Clients']]
  BY <1>1, <1>2, <1>4 DEF McpTyped
<1>7. McpTyped'
  BY <1>1, <1>3, <1>4, <1>6 DEF McpTyped
<1>8. OneConnects'
  BY <1>2, <1>3, <1>4, <1>5 DEF OneConnects
<1>9. failed' = failed /\ FailedClientDropped'
  BY <1>2, <1>3 DEF FailedClientDropped, failed
<1>10. Cardinality(strays') <= Cardinality(failed')
  BY <1>1, <1>4, <1>7, <1>9, StraysCounted
<1> QED
  BY <1>7, <1>8, <1>9, <1>10 DEF McpInv

LEMMA EndsStays ==
    ASSUME McpAssumption, McpInv, NEW r \in DOMAIN Requests, Ends(r)
    PROVE  McpInv'
<1>1. McpTyped /\ OneConnects /\ FailedClientDropped /\ Cardinality(strays) <= Cardinality(failed)
  BY DEF McpInv
<1>2. requests[r].state = "sent" /\ clients' = clients /\ connecting' = connecting
  BY DEF Ends, Answered, RequestFails
<1>3. \E s \in {"answered", "failed"} :
        /\ requests' = [requests EXCEPT ![r] = [state |-> s, client |-> requests[r].client]]
        /\ client' = IF s = "failed" THEN 0 ELSE client
  BY DEF Ends, Answered, RequestFails, now
<1>4. McpTyped'
  BY <1>1, <1>2, <1>3 DEF McpTyped, Clients, RequestStates
<1>5. OneConnects'
  BY <1>1, <1>2, <1>3 DEF McpTyped, OneConnects
<1>6. FailedClientDropped'
  BY <1>1, <1>2, <1>3 DEF McpTyped, FailedClientDropped, failed
<1>7. CASE failed' = failed /\ client' = client
  <2>1. strays' = strays
    BY <1>2, <1>7 DEF strays
  <2> QED BY <1>1, <1>4, <1>5, <1>6, <1>7, <2>1 DEF McpInv
<1>8. CASE failed' = failed \cup {r} /\ client' = 0
  <2>1. strays' \subseteq strays \cup {client}
    BY <1>2, <1>8 DEF strays
  <2>2. r \notin failed
    BY <1>2 DEF failed
  <2>3. Cardinality(strays') <= Cardinality(failed')
    BY <1>1, <1>4, <1>8, <2>1, <2>2, StraysCounted
  <2> QED BY <1>4, <1>5, <1>6, <2>3 DEF McpInv
<1> QED
  BY <1>1, <1>2, <1>3, <1>7, <1>8 DEF failed, McpTyped

LEMMA ClientGoneStays ==
    ASSUME McpAssumption, McpInv, ServerGone \/ Close
    PROVE  McpInv'
<1>1. McpTyped /\ OneConnects /\ FailedClientDropped /\ Cardinality(strays) <= Cardinality(failed)
  BY DEF McpInv
<1>2. connecting' = connecting /\ requests' = requests
  BY DEF ServerGone, Close
<1>3. \/ /\ client' = client
         /\ \E c \in DOMAIN clients : clients[c] = "open" /\ clients' = [clients EXCEPT ![c] = "gone"]
      \/ client' = 0 /\ client = 0 /\ clients' = clients
      \/ client' = 0 /\ client # 0 /\ clients' = [clients EXCEPT ![client] = "gone"]
  BY DEF ServerGone, Close
<1>4. clients' \in Seq({"connecting", "open", "gone"}) /\ Len(clients') = Len(clients)
      /\ DOMAIN clients' = DOMAIN clients /\ Len(clients) \in Nat
  BY <1>1, <1>3 DEF McpTyped
<1>5. \A c \in DOMAIN clients : clients'[c] = clients[c] \/ clients'[c] = "gone"
  BY <1>1, <1>3 DEF McpTyped
<1>6. McpTyped'
  <2>1. Clients' = Clients /\ 0 \in Clients
    BY <1>4 DEF Clients
  <2> QED BY <1>1, <1>2, <1>3, <1>4, <2>1 DEF McpTyped
<1>7. OneConnects'
  BY <1>1, <1>2, <1>3, <1>4, <1>5 DEF OneConnects
<1>8. failed' = failed /\ FailedClientDropped'
  BY <1>1, <1>2, <1>3 DEF FailedClientDropped, failed
<1>9. strays' \subseteq strays
  <2>1. CASE client' = client
    BY <1>4, <1>5, <2>1 DEF strays
  <2>2. CASE client # 0 /\ clients' = [clients EXCEPT ![client] = "gone"]
    <3>1. \A c \in DOMAIN clients : c = client => clients'[c] = "gone"
      BY <1>1, <2>2 DEF McpTyped
    <3> QED BY <1>4, <1>5, <3>1 DEF strays
  <2> QED BY <1>3, <2>1, <2>2
<1>10. Cardinality(strays') <= Cardinality(failed')
  BY <1>1, <1>6, <1>8, <1>9, StraysCounted
<1> QED
  BY <1>6, <1>7, <1>8, <1>10 DEF McpInv

LEMMA McpStays ==
    ASSUME McpAssumption, McpInv, [McpNext]_mcpVars
    PROVE  McpInv'
<1>1. CASE UNCHANGED mcpVars
  BY <1>1 DEF mcpVars, McpInv, McpTyped, OneConnects, FailedClientDropped, strays, failed, Clients
<1>2. CASE McpNext
  BY <1>2, AskStays, ConnectedStays, ConnectFailsStays, RetryConnectStays, EndsStays, ClientGoneStays
     DEF McpNext, Ends
<1> QED
  BY <1>1, <1>2

LEMMA McpGives ==
    ASSUME McpAssumption, McpInv
    PROVE  FailedClientDropped /\ ConnectionsAccounted
<1>1. McpTyped /\ OneConnects
  BY DEF McpInv
<1> DEFINE made == {c \in DOMAIN clients : clients[c] = "connecting"}
<1>2. made \subseteq {connecting.client}
  BY <1>1 DEF OneConnects
<1>3. IsFiniteSet({connecting.client}) /\ Cardinality({connecting.client}) = 1
  BY FS_Singleton
<1>4. Cardinality(made) <= 1
  BY <1>2, <1>3, FS_Subset
<1> QED
  BY <1>4 DEF McpInv, ConnectionsAccounted, strays

\* No call is sent to an MCP server with a client on which an earlier one has failed,
\* however many calls were under way and however connections are made, lost and retried
\* (ensureConnected and withClient of mcp.ts).
THEOREM FailedClientsAreDropped ==
    ASSUME McpAssumption
    PROVE  McpSpec => []FailedClientDropped
<1>1. McpInit => McpInv
  BY McpAtFirst
<1>2. McpInv /\ [McpNext]_mcpVars => McpInv'
  BY McpStays
<1>3. McpInv => FailedClientDropped
  BY McpGives
<1> QED
  BY <1>1, <1>2, <1>3, PTL DEF McpSpec

\* A connection is lost sight of only for a request that failed, one for each at most,
\* and one at most is being made: the provider piles up no processes of servers.
THEOREM ConnectionsAreAccounted ==
    ASSUME McpAssumption
    PROVE  McpSpec => []ConnectionsAccounted
<1>1. McpInit => McpInv
  BY McpAtFirst
<1>2. McpInv /\ [McpNext]_mcpVars => McpInv'
  BY McpStays
<1>3. McpInv => ConnectionsAccounted
  BY McpGives
<1> QED
  BY <1>1, <1>2, <1>3, PTL DEF McpSpec

--------------------------------------------------------------------------------
(***** A node and its child runs **********************************************)

ChildAssumption ==
    /\ MaxItems \in Nat
    /\ \A join \in Joins : join.n \in Nat

RunStates == Terminal \cup
    {"none", "starting", "lost", "preparing", "stuck", "running", "parked"}

ChildTyped ==
    /\ parent \in [pc : {"items", "start", "yielded", "waiting", "settled"}, k : Nat,
                   items : 0..MaxItems, join : Joins, status : {"none", "succeeded", "failed"}]
    /\ run \in [AllBranches -> RunStates]
    /\ looking \in [AllBranches -> [pc : {"no", "look", "satisfy"}, succeeded : BOOLEAN]]
    /\ wait \in [status : {"none", "open", "satisfied"}, succeeded : BOOLEAN]

mayStill == {b \in Branches : mayComplete(b)}
\* What a verdict on the join says of the children.
Decides(succeeded) == IF succeeded THEN enough ELSE Cardinality(mayStill) < needed

\* Once there is a wait the node starts no child; who is about to satisfy it has read a
\* verdict of rows that can only confirm it since; what a node settled with is the verdict.
WaitLast == wait.status # "none" => parent.pc \in {"waiting", "settled"}
VerdictsKept ==
    \A b \in AllBranches : looking[b].pc = "satisfy" =>
        wait.status # "none" /\ Decides(looking[b].succeeded)
SettledByJoin ==
    parent.pc = "settled" =>
        \/ parent.status = "succeeded" /\ (parent.items = 0 \/ enough)
        \/ parent.status = "failed" /\ (parent.items > maxConcurrency \/ Cardinality(mayStill) < needed)

ChildInv == ChildTyped /\ WaitLast /\ VerdictsKept /\ JoinDecided /\ SettledByJoin

LEMMA ChildSets ==
    ASSUME ChildAssumption, ChildTyped
    PROVE  /\ IsFiniteSet(Branches) /\ Cardinality(Branches) = parent.items
           /\ IsFiniteSet(Succeeded) /\ Cardinality(Succeeded) \in Nat
           /\ IsFiniteSet(mayStill) /\ Cardinality(mayStill) \in Nat
           /\ needed \in Nat /\ parent.items \in Nat
<1>1. parent.items \in Nat /\ parent.join.n \in Nat
  BY DEF ChildTyped, ChildAssumption
<1>2. IsFiniteSet(Branches) /\ Cardinality(Branches) = parent.items
  <2>1. /\ IsFiniteSet(1..parent.items)
        /\ Cardinality(1..parent.items) = IF 1 > parent.items THEN 0 ELSE parent.items - 1 + 1
    <3>1. 1 \in Int /\ parent.items \in Int
      BY <1>1
    <3> QED BY <3>1, FS_Interval
  <2> QED BY <1>1, <2>1 DEF Branches
<1>3. Succeeded \subseteq Branches /\ mayStill \subseteq Branches
  BY DEF Succeeded, mayStill
<1>4. IsFiniteSet(Succeeded) /\ IsFiniteSet(mayStill)
  BY <1>2, <1>3, FS_Subset
<1>5. needed \in Nat
  BY <1>1 DEF needed
<1> QED
  BY <1>1, <1>2, <1>4, <1>5, FS_CardinalityType

\* While no child is started, children that completed stay so and no other can any more:
\* a verdict on the join stands, whichever it was.
RowsConfirm ==
    /\ parent'.items = parent.items /\ parent'.join = parent.join
    /\ Succeeded \subseteq Succeeded' /\ mayStill' \subseteq mayStill

LEMMA VerdictStands ==
    ASSUME ChildAssumption, ChildTyped, ChildTyped', RowsConfirm
    PROVE  /\ enough => enough'
           /\ Cardinality(mayStill) < needed => Cardinality(mayStill') < needed'
<1>1. needed' = needed /\ Branches' = Branches
  BY DEF RowsConfirm, needed, Branches
<1>2. /\ IsFiniteSet(mayStill) /\ Cardinality(mayStill) \in Nat /\ Cardinality(Succeeded) \in Nat /\ needed \in Nat
      /\ IsFiniteSet(Branches)
  BY ChildSets
<1>3. Succeeded' \subseteq Branches'
  BY DEF Succeeded
<1>4. IsFiniteSet(Succeeded') /\ IsFiniteSet(mayStill')
  BY <1>1, <1>2, <1>3, FS_Subset DEF RowsConfirm
<1>5. Cardinality(Succeeded') \in Nat /\ Cardinality(mayStill') \in Nat
  BY <1>4, FS_CardinalityType
<1>6. Cardinality(Succeeded) <= Cardinality(Succeeded') /\ Cardinality(mayStill') <= Cardinality(mayStill)
  BY <1>2, <1>4, FS_Subset DEF RowsConfirm
<1> QED
  BY <1>1, <1>2, <1>5, <1>6 DEF enough

\* What a child that ended decides: it was read when the join is met, or cannot be any more.
LEMMA LookDecides ==
    ASSUME ChildAssumption, ChildTyped, enough \/ hopeless
    PROVE  IF enough THEN enough ELSE Cardinality(mayStill) < needed
<1>1. SUFFICES ASSUME ~enough PROVE Cardinality(mayStill) < needed
  OBVIOUS
<1>2. hopeless /\ Cardinality(Succeeded) < needed
  BY <1>1, ChildSets DEF enough
<1>3. CASE Settled = Branches
  <2>1. \A b \in Branches : run[b] \in Terminal
    BY <1>3 DEF Settled
  <2>2. mayStill = Succeeded
    BY <2>1 DEF mayStill, mayComplete, Succeeded, Terminal
  <2> QED BY <1>2, <2>2
<1>4. CASE parent.join.mode = "all" /\ Settled # Succeeded
  <2>1. PICK b \in Branches : run[b] \in Terminal /\ run[b] # "Completed"
    BY <1>4 DEF Settled, Succeeded, Terminal
  <2>2. mayStill \subseteq Branches /\ b \notin mayStill
    BY <2>1 DEF mayStill, mayComplete, Terminal
  <2>3. Cardinality(mayStill) < parent.items
    BY <2>1, <2>2, ChildSets, FS_Subset
  <2> QED BY <1>4, <2>3 DEF needed
<1> QED
  BY <1>2, <1>3, <1>4 DEF hopeless

--------------------------------------------------------------------------------
(* The steps *)

LEMMA ChildAtFirst ==
    ASSUME ChildAssumption, ChildInit
    PROVE  ChildInv
<1>1. PICK items \in 0..MaxItems, join \in Joins :
        parent = [pc |-> "items", k |-> 1, items |-> items, join |-> join, status |-> "none"]
  BY DEF ChildInit
<1>2. ChildTyped
  BY <1>1 DEF ChildInit, ChildTyped, RunStates
<1> QED
  BY <1>1, <1>2 DEF ChildInit, ChildInv, WaitLast, VerdictsKept, JoinDecided, SettledByJoin, AllBranches

\* The node's own steps change no row, but for the child that is started.
LEMMA NodeTypes ==
    ASSUME ChildAssumption, ChildTyped, Node
    PROVE  /\ ChildTyped'
           /\ parent'.items = parent.items /\ parent'.join = parent.join
           /\ looking' = looking /\ parent.pc # "settled"
<1>1. CASE EvaluateItems
  <2>1. \/ parent' = [parent EXCEPT !.pc = "settled", !.status = "succeeded"]
        \/ parent' = [parent EXCEPT !.pc = "settled", !.status = "failed"]
        \/ parent' = [parent EXCEPT !.pc = "start", !.k = 1]
    BY <1>1 DEF EvaluateItems, Settle
  <2>2. run' = run /\ wait' = wait /\ looking' = looking /\ parent.pc # "settled"
    BY <1>1 DEF EvaluateItems
  <2>3. CASE parent' = [parent EXCEPT !.pc = "settled", !.status = "succeeded"]
    BY <2>2, <2>3 DEF ChildTyped
  <2>4. CASE parent' = [parent EXCEPT !.pc = "settled", !.status = "failed"]
    BY <2>2, <2>4 DEF ChildTyped
  <2>5. CASE parent' = [parent EXCEPT !.pc = "start", !.k = 1]
    BY <2>2, <2>5 DEF ChildTyped
  <2> QED BY <2>1, <2>3, <2>4, <2>5
<1>2. CASE StartChild
  <2>1. parent' = [parent EXCEPT !.pc = "yielded"] \/ parent' = [parent EXCEPT !.k = parent.k + 1]
    BY <1>2 DEF StartChild
  <2>2. run' \in [AllBranches -> RunStates]
    BY <1>2 DEF StartChild, ChildTyped, RunStates
  <2>3. wait' = wait /\ looking' = looking /\ parent.pc # "settled"
    BY <1>2 DEF StartChild
  <2> QED BY <2>1, <2>2, <2>3 DEF ChildTyped
<1>3. CASE persistWaits
  BY <1>3 DEF persistWaits, ChildTyped
<1>4. CASE childCompletionResult
  BY <1>4 DEF childCompletionResult, Settle, ChildTyped
<1> QED
  BY <1>1, <1>2, <1>3, <1>4 DEF Node

LEMMA NodeStays ==
    ASSUME ChildAssumption, ChildInv, Node
    PROVE  ChildInv'
<1>1. ChildTyped /\ WaitLast /\ VerdictsKept /\ JoinDecided /\ SettledByJoin
  BY DEF ChildInv
<1>2. /\ ChildTyped'
      /\ parent'.items = parent.items /\ parent'.join = parent.join
      /\ looking' = looking /\ parent.pc # "settled"
  BY <1>1, NodeTypes
<1>3. Branches' = Branches /\ needed' = needed
  BY <1>2 DEF Branches, needed
<1>4. run' = run => RowsConfirm
  BY <1>2, <1>3 DEF RowsConfirm, Succeeded, mayStill, mayComplete
<1>5. CASE EvaluateItems
  <2>1. wait' = wait /\ run' = run /\ parent.pc = "items"
    BY <1>5 DEF EvaluateItems
  <2>2. wait.status = "none"
    BY <1>1, <2>1 DEF WaitLast
  <2>3. SettledByJoin'
    BY <1>1, <1>5 DEF EvaluateItems, Settle, SettledByJoin, ChildTyped
  <2> QED BY <1>1, <1>2, <2>1, <2>2, <2>3 DEF ChildInv, WaitLast, VerdictsKept, JoinDecided
<1>6. CASE StartChild
  <2>1. wait' = wait /\ parent.pc = "start"
    BY <1>6 DEF StartChild
  <2>2. wait.status = "none"
    BY <1>1, <2>1 DEF WaitLast
  <2>3. parent'.pc # "settled"
    BY <1>1, <1>6 DEF StartChild, ChildTyped
  <2> QED BY <1>1, <1>2, <2>1, <2>2, <2>3
            DEF ChildInv, WaitLast, VerdictsKept, JoinDecided, SettledByJoin
<1>7. CASE persistWaits
  <2>1. /\ wait'.status = "open" /\ run' = run /\ parent.pc = "yielded" /\ parent'.pc = "waiting"
    BY <1>1, <1>7 DEF persistWaits, ChildTyped
  <2>2. wait.status = "none"
    BY <1>1, <2>1 DEF WaitLast
  <2> QED BY <1>1, <1>2, <2>1, <2>2
            DEF ChildInv, WaitLast, VerdictsKept, JoinDecided, SettledByJoin
<1>8. CASE childCompletionResult
  <2>1. /\ wait' = wait /\ run' = run /\ wait.status = "satisfied" /\ parent'.pc = "settled"
        /\ parent'.status = IF wait.succeeded THEN "succeeded" ELSE "failed"
    BY <1>1, <1>8 DEF childCompletionResult, Settle, ChildTyped
  <2>2. Succeeded' = Succeeded /\ mayStill' = mayStill /\ (enough' <=> enough)
    BY <1>3, <2>1 DEF Succeeded, mayStill, mayComplete, enough
  <2>3. IF wait.succeeded THEN enough ELSE Cardinality(mayStill) < needed
    BY <1>1, <2>1 DEF JoinDecided, mayStill
  <2>4. JoinDecided'
    BY <1>3, <2>1, <2>2, <2>3 DEF JoinDecided, mayStill
  <2>5. SettledByJoin'
    BY <1>3, <2>1, <2>2, <2>3 DEF SettledByJoin
  <2>6. VerdictsKept'
    BY <1>1, <1>2, <1>3, <2>1, <2>2 DEF VerdictsKept, Decides
  <2> QED BY <1>2, <2>1, <2>4, <2>5, <2>6 DEF ChildInv, WaitLast
<1> QED
  BY <1>5, <1>6, <1>7, <1>8 DEF Node

\* The states a child's row goes through on its own; none leads back to a child that may
\* still complete, or away from one that did.
RowMoves(from, to) ==
    \/ to = from
    \/ /\ from \in {"starting", "preparing", "running", "parked", "lost"}
       /\ to \in RunStates
       /\ from = "lost" => to = "none"
       /\ to # "starting"

LEMMA RowsMove ==
    ASSUME ChildAssumption, ChildTyped, run' \in [AllBranches -> RunStates],
           parent'.items = parent.items, parent'.join = parent.join,
           \A b \in AllBranches : RowMoves(run[b], run'[b])
    PROVE  RowsConfirm
<1>1. Branches' = Branches /\ Branches \subseteq AllBranches
  BY DEF Branches, AllBranches, ChildTyped, ChildAssumption
<1>2. \A b \in Branches : run[b] = "Completed" => run'[b] = "Completed"
  BY <1>1 DEF RowMoves
<1>3. \A b \in Branches : mayComplete(b)' => mayComplete(b)
  BY <1>1 DEF RowMoves, mayComplete
<1> QED
  BY <1>1, <1>2, <1>3 DEF RowsConfirm, Succeeded, mayStill

\* A step that moves rows as children do, and leaves the node and the wait alone.
LEMMA RowStep ==
    ASSUME ChildAssumption, ChildInv, ChildTyped', RowsConfirm, wait' = wait,
           parent' = parent \/ (wait.status = "none" /\ parent'.pc = "items" /\ parent.pc # "settled"),
           \A b \in AllBranches :
             looking'[b].pc = "satisfy" => looking[b] = looking'[b]
    PROVE  ChildInv'
<1>1. ChildTyped /\ WaitLast /\ VerdictsKept /\ JoinDecided /\ SettledByJoin
  BY DEF ChildInv
<1>2. /\ enough => enough'
      /\ Cardinality(mayStill) < needed => Cardinality(mayStill') < needed'
  BY <1>1, VerdictStands
<1>3. VerdictsKept'
  BY <1>1, <1>2 DEF VerdictsKept, Decides
<1>4. JoinDecided'
  BY <1>1, <1>2 DEF JoinDecided, mayStill
<1>5. SettledByJoin'
  BY <1>1, <1>2 DEF SettledByJoin
<1>6. WaitLast'
  BY <1>1 DEF WaitLast
<1> QED
  BY <1>3, <1>4, <1>5, <1>6 DEF ChildInv

LEMMA ChildStays ==
    ASSUME ChildAssumption, ChildInv, NEW b \in AllBranches, Child(b)
    PROVE  ChildInv'
<1>1. ChildTyped /\ WaitLast /\ VerdictsKept /\ JoinDecided /\ SettledByJoin
  BY DEF ChildInv
<1>2. CASE \/ ChildSaved(b) \/ ChildPrepared(b) \/ ChildParks(b) \/ ChildResumes(b)
           \/ ChildFinalized(b) \/ ChildEndsUnheard(b)
  <2>1. parent' = parent /\ wait' = wait
    BY <1>2 DEF ChildSaved, ChildPrepared, ChildParks, ChildResumes, ChildFinalized, ChildEndsUnheard
  <2>2. \E state \in RunStates \ {"starting"} :
          run' = [run EXCEPT ![b] = state] /\ run[b] \in {"starting", "preparing", "running", "parked"}
    BY <1>2 DEF ChildSaved, ChildPrepared, ChildParks, ChildResumes, ChildFinalized, ChildEndsUnheard,
                SetRun, RunStates, Terminal
  <2>3. looking' = looking \/ looking' = [looking EXCEPT ![b].pc = "look"]
    BY <1>2 DEF ChildSaved, ChildPrepared, ChildParks, ChildResumes, ChildFinalized, ChildEndsUnheard
  <2>4. ChildTyped'
    BY <1>1, <2>1, <2>2, <2>3 DEF ChildTyped
  <2>5. \A c \in AllBranches : RowMoves(run[c], run'[c])
    BY <1>1, <2>2 DEF ChildTyped, RowMoves
  <2>6. RowsConfirm
    BY <1>1, <2>1, <2>4, <2>5, RowsMove DEF ChildTyped
  <2>7. \A c \in AllBranches : looking'[c].pc = "satisfy" => looking[c] = looking'[c]
    BY <1>1, <2>3 DEF ChildTyped
  <2> QED BY <2>1, <2>4, <2>6, <2>7, RowStep
<1>3. CASE satisfyParentWaits(b)
  <2>1. parent' = parent /\ wait' = wait /\ run' = run
    BY <1>3 DEF satisfyParentWaits
  <2>2. \/ /\ wait.status = "open" /\ (enough \/ hopeless)
           /\ looking' = [looking EXCEPT ![b] = [pc |-> "satisfy", succeeded |-> enough]]
        \/ looking' = [looking EXCEPT ![b] = [looking[b] EXCEPT !.pc = "no"]]
    BY <1>3 DEF satisfyParentWaits
  <2>3. enough \in BOOLEAN
    BY DEF enough
  <2>4. ChildTyped'
    BY <1>1, <2>1, <2>2, <2>3 DEF ChildTyped
  <2>5. /\ enough' <=> enough
        /\ mayStill' = mayStill /\ needed' = needed
    BY <2>1 DEF enough, Succeeded, Branches, needed, mayStill, mayComplete
  <2>6. VerdictsKept'
    <3>1. CASE looking' = [looking EXCEPT ![b] = [looking[b] EXCEPT !.pc = "no"]]
      <4>1. \A c \in AllBranches : looking'[c].pc = "satisfy" => looking'[c] = looking[c]
        BY <1>1, <3>1 DEF ChildTyped
      <4> QED BY <1>1, <2>1, <2>5, <4>1 DEF VerdictsKept, Decides
    <3>2. CASE wait.status = "open" /\ (enough \/ hopeless)
               /\ looking' = [looking EXCEPT ![b] = [pc |-> "satisfy", succeeded |-> enough]]
      <4>1. IF enough THEN enough ELSE Cardinality(mayStill) < needed
        BY <1>1, <3>2, LookDecides
      <4>2. \A c \in AllBranches : c # b => looking'[c] = looking[c]
        BY <1>1, <3>2 DEF ChildTyped
      <4>3. looking'[b].succeeded = enough
        BY <1>1, <3>2 DEF ChildTyped
      <4> QED BY <1>1, <2>1, <2>5, <3>2, <4>1, <4>2, <4>3 DEF VerdictsKept, Decides
    <3> QED BY <2>2, <3>1, <3>2
  <2> QED BY <1>1, <2>1, <2>4, <2>5, <2>6
            DEF ChildInv, WaitLast, JoinDecided, SettledByJoin, mayStill
<1>4. CASE trySatisfy(b)
  <2>1. parent' = parent /\ run' = run /\ looking[b].pc = "satisfy"
        /\ looking' = [looking EXCEPT ![b].pc = "no"]
    BY <1>4 DEF trySatisfy
  <2>2. \/ wait.status = "open" /\ wait' = [status |-> "satisfied", succeeded |-> looking[b].succeeded]
        \/ wait' = wait
    BY <1>4 DEF trySatisfy
  <2>3. ChildTyped'
    BY <1>1, <2>1, <2>2 DEF ChildTyped
  <2>4. /\ enough' <=> enough
        /\ mayStill' = mayStill /\ needed' = needed
    BY <2>1 DEF enough, Succeeded, Branches, needed, mayStill, mayComplete
  <2>5. wait.status # "none" /\ Decides(looking[b].succeeded)
    BY <1>1, <2>1 DEF VerdictsKept
  <2>6. wait'.status # "none" /\ WaitLast'
    BY <1>1, <2>1, <2>2, <2>5 DEF WaitLast
  <2>7. JoinDecided'
    <3>1. CASE wait' = wait
      BY <1>1, <2>4, <3>1 DEF JoinDecided, mayStill
    <3>2. CASE wait' = [status |-> "satisfied", succeeded |-> looking[b].succeeded]
      BY <2>4, <2>5, <3>2 DEF JoinDecided, Decides, mayStill
    <3> QED BY <2>2, <3>1, <3>2
  <2>8. VerdictsKept'
    <3>1. \A c \in AllBranches : looking'[c].pc = "satisfy" => looking'[c] = looking[c]
      BY <1>1, <2>1 DEF ChildTyped
    <3> QED BY <1>1, <2>4, <2>6, <3>1 DEF VerdictsKept, Decides
  <2>9. SettledByJoin'
    BY <1>1, <2>1, <2>4 DEF SettledByJoin
  <2> QED BY <2>3, <2>6, <2>7, <2>8, <2>9 DEF ChildInv
<1> QED
  BY <1>2, <1>3, <1>4 DEF Child

LEMMA CrashStays ==
    ASSUME ChildAssumption, ChildInv, Crash
    PROVE  ChildInv'
<1>1. ChildTyped /\ WaitLast
  BY DEF ChildInv
<1>2. /\ run' = [b \in AllBranches |->
                   CASE run[b] \in {"starting", "lost"} -> "none"
                     [] run[b] = "preparing" -> "stuck"
                     [] OTHER -> run[b]]
      /\ looking' = [b \in AllBranches |-> [pc |-> "no", succeeded |-> FALSE]]
      /\ wait' = wait
  BY DEF Crash
<1>3. \/ parent' = parent
      \/ parent.pc \in {"start", "yielded"} /\ parent' = [parent EXCEPT !.pc = "items"]
  BY DEF Crash
<1>4. \A b \in AllBranches : run'[b] \in RunStates /\ RowMoves(run[b], run'[b])
  <2> SUFFICES ASSUME NEW b \in AllBranches PROVE run'[b] \in RunStates /\ RowMoves(run[b], run'[b])
    OBVIOUS
  <2>1. run[b] \in RunStates
    BY <1>1 DEF ChildTyped
  <2>2. CASE run[b] \in {"starting", "lost"}
    BY <1>2, <2>2 DEF RowMoves, RunStates
  <2>3. CASE run[b] = "preparing"
    BY <1>2, <2>3 DEF RowMoves, RunStates
  <2>4. CASE run[b] \notin {"starting", "lost", "preparing"}
    BY <1>2, <2>1, <2>4 DEF RowMoves
  <2> QED BY <2>2, <2>3, <2>4
<1>5. run' \in [AllBranches -> RunStates]
  BY <1>2, <1>4
<1>6. ChildTyped'
  BY <1>1, <1>2, <1>3, <1>5 DEF ChildTyped
<1>7. parent'.items = parent.items /\ parent'.join = parent.join
  BY <1>1, <1>3 DEF ChildTyped
<1>8. RowsConfirm
  BY <1>1, <1>4, <1>5, <1>7, RowsMove
<1>9. parent' = parent \/ (wait.status = "none" /\ parent'.pc = "items" /\ parent.pc # "settled")
  BY <1>1, <1>3 DEF WaitLast, ChildTyped
<1>10. \A b \in AllBranches : looking'[b].pc = "satisfy" => looking[b] = looking'[b]
  BY <1>2
<1> QED
  BY <1>2, <1>6, <1>8, <1>9, <1>10, RowStep

LEMMA ChildInvStays ==
    ASSUME ChildAssumption, ChildInv, [ChildNext]_childVars
    PROVE  ChildInv'
<1>1. CASE UNCHANGED childVars
  <2>1. ChildTyped' /\ RowsConfirm
    BY <1>1 DEF childVars, ChildInv, ChildTyped, RowsConfirm, Succeeded, Branches, mayStill, mayComplete
  <2> QED BY <1>1, <2>1, RowStep DEF childVars
<1>2. CASE ChildNext
  BY <1>2, NodeStays, ChildStays, CrashStays DEF ChildNext
<1> QED
  BY <1>1, <1>2

\* The verdict a fan-out or sub-workflow node resumes with is the one of its join, now and
\* for ever, for any number of children, any join and any number of restarts, although
\* children end while others read their rows (satisfyParentWaits).
THEOREM JoinIsDecided ==
    ASSUME ChildAssumption
    PROVE  ChildSpec => []JoinDecided
<1>1. ChildInit => ChildInv
  BY ChildAtFirst
<1>2. ChildInv /\ [ChildNext]_childVars => ChildInv'
  BY ChildInvStays
<1>3. ChildInv => JoinDecided
  BY DEF ChildInv
<1> QED
  BY <1>1, <1>2, <1>3, PTL DEF ChildSpec

\* And so is what the node settles with: a success when there was nothing to do or enough
\* children completed, a failure when there were too many items or enough no longer can.
THEOREM NodeSettlesByItsJoin ==
    ASSUME ChildAssumption
    PROVE  ChildSpec => []SettledByJoin
<1>1. ChildInit => ChildInv
  BY ChildAtFirst
<1>2. ChildInv /\ [ChildNext]_childVars => ChildInv'
  BY ChildInvStays
<1>3. ChildInv => SettledByJoin
  BY DEF ChildInv
<1> QED
  BY <1>1, <1>2, <1>3, PTL DEF ChildSpec

--------------------------------------------------------------------------------
(***** An experiment **********************************************************)

\* An experiment has at least one iteration.
ExperimentAssumption == maxIterations \in Nat \ {0}

CandidateStates == {"generated", "prototyped", "evaluated", "killed", "advanced"}
Candidate == [iteration : 1..maxIterations, status : CandidateStates, score : Scores \cup {0}]
Decisions == {"none", "advance", "kill", "iterate", "need-more-evidence"}
Judgments == [decision : Decisions, of : Nat]

Records == [status : {"none", "running", "awaiting-judgment", "concluded"},
            iteration : 1..maxIterations, candidates : Seq(Candidate),
            conclusion : {"none", "exhausted", "killed", "advanced"},
            passes : SUBSET Nat, judgments : Nat]
RecordTyped == record \in Records /\ \A c \in Ids : record.candidates[c].iteration <= record.iteration
StepperTyped ==
    stepper \in [pc : {"enter", "step", "waiting", "settled"}, satisfaction : Judgments,
                 judgment : Judgments, asked : SUBSET Nat, entries : Nat,
                 status : {"none", "succeeded", "failed"}]

\* Who survived an evaluation of this iteration has reached the threshold, or was scored
\* anew by its evidence pass.
SurvivorsPassed ==
    \A c \in rankedSurvivors :
        record.candidates[c].score < advanceThreshold => record.iteration \in record.passes

\* An advance the node was resumed with is about what was asked last, also when a restart
\* replays it: until the record is concluded it is the judgment of every step, so that the
\* node cannot have gone on to ask anew. It was saved before it is acted on.
JudgmentAsked ==
    /\ stepper.pc = "waiting" => record.status = "awaiting-judgment"
    /\ stepper.satisfaction.decision = "advance" =>
         /\ stepper.satisfaction.of \in stepper.asked
         /\ record.status \in {"awaiting-judgment", "concluded"}
         /\ record.status = "awaiting-judgment" =>
              /\ stepper.pc # "waiting"
              /\ stepper.pc = "step" => stepper.judgment = stepper.satisfaction
    /\ stepper.judgment.decision = "advance" =>
         stepper.judgment = stepper.satisfaction /\ record.judgments > 0

\* Nothing is advanced before the record is concluded.
Untouched == \A c \in Ids : record.candidates[c].status # "advanced"
NotYet == record.status # "concluded" => record.conclusion = "none" /\ Untouched

ExperimentInv ==
    RecordTyped /\ StepperTyped /\ SurvivorsPassed /\ JudgmentAsked /\ NotYet /\ AdvanceIsEarned

\* A step that rewrites the candidates one by one keeps their number.
LEMMA Rewritten ==
    ASSUME NEW n \in Nat, NEW S, NEW f \in [1..n -> S]
    PROVE  f \in Seq(S) /\ Len(f) = n
OBVIOUS

LEMMA CandidatesTyped ==
    ASSUME RecordTyped
    PROVE  /\ Len(record.candidates) \in Nat /\ Ids = 1..Len(record.candidates)
           /\ \A c \in Ids : /\ record.candidates[c] \in Candidate
                             /\ record.candidates[c].iteration <= record.iteration
           /\ rankedSurvivors \subseteq Ids /\ rankedSurvivors \subseteq Nat
           /\ \A status : candidatesOf(status) \subseteq Ids
           /\ record.iteration \in Nat
BY DEF RecordTyped, Records, Ids, rankedSurvivors, candidatesOf

\* Before the conclusion there is nothing to have been earned, and a conclusion without
\* an advance needs nothing more.
LEMMA NothingToEarn ==
    ASSUME RecordTyped, Untouched, record.conclusion # "advanced"
    PROVE  AdvanceIsEarned
BY CandidatesTyped DEF RecordTyped, Records, Untouched, AdvanceIsEarned, advanced

--------------------------------------------------------------------------------
(* The steps *)

LEMMA ExperimentAtFirst ==
    ASSUME ExperimentAssumption, ExperimentInit
    PROVE  ExperimentInv
<1>1. record = NoRecord
  BY DEF ExperimentInit
<1>2. Ids = {} /\ record.candidates \in Seq(Candidate)
  BY <1>1 DEF NoRecord, Ids
<1>3. RecordTyped
  BY <1>1, <1>2 DEF RecordTyped, Records, NoRecord, ExperimentAssumption
<1>4. StepperTyped /\ JudgmentAsked
  BY DEF ExperimentInit, StepperTyped, JudgmentAsked, NoJudgment, Judgments, Decisions
<1>5. SurvivorsPassed /\ Untouched /\ record.conclusion = "none"
  BY <1>1, <1>2 DEF SurvivorsPassed, rankedSurvivors, candidatesOf, Untouched, NoRecord
<1> QED
  BY <1>3, <1>4, <1>5, NothingToEarn DEF ExperimentInv, NotYet

\* The step of a record that has not been concluded: what has to be shown of its
\* candidates, and of the node.
LEMMA StepOfOpenRecord ==
    ASSUME ExperimentInv, RecordTyped', StepperTyped', SurvivorsPassed', JudgmentAsked',
           Untouched', record'.conclusion \in {"none", "exhausted", "killed"},
           record'.status # "concluded" => record'.conclusion = "none"
    PROVE  ExperimentInv'
<1>1. record'.iteration <= maxIterations
  BY DEF RecordTyped, Records
<1>2. advanced' = {}
  BY DEF Untouched, advanced
<1>3. AdvanceIsEarned'
  BY <1>1, <1>2 DEF AdvanceIsEarned
<1> QED
  BY <1>3 DEF ExperimentInv, NotYet

\* A node that generates, evaluates or selects, or acts on another judgment, was not
\* resumed with an advance.
LEMMA NoAdvanceStands ==
    ASSUME JudgmentAsked, Stepping,
           \/ record.status \in {"none", "running"}
           \/ record.status = "awaiting-judgment" /\ stepper.judgment.decision # "advance"
    PROVE  stepper.satisfaction.decision # "advance"
BY DEF JudgmentAsked, Stepping

\* What the node does next leaves the judgments it has in order: it goes on to another
\* iteration or to another question only when it was not resumed with an advance.
LEMMA StepperMoves ==
    ASSUME StepperTyped, JudgmentAsked, record'.judgments = record.judgments, Stepping,
           \/ Continues /\ stepper.satisfaction.decision # "advance"
           \/ /\ \E survivors \in SUBSET Nat : AwaitsJudgment(survivors)
              /\ stepper.satisfaction.decision # "advance"
              /\ record'.status = "awaiting-judgment"
           \/ /\ \E status \in {"succeeded", "failed"} : Settles(status)
              /\ record'.status \in {record.status, "concluded"}
    PROVE  StepperTyped' /\ JudgmentAsked'
<1> USE DEF NoJudgment, Judgments, Decisions
<1>1. CASE Continues /\ stepper.satisfaction.decision # "advance"
  BY <1>1 DEF Continues, StepperTyped, JudgmentAsked, Stepping
<1>2. ASSUME NEW survivors \in SUBSET Nat, AwaitsJudgment(survivors),
             stepper.satisfaction.decision # "advance", record'.status = "awaiting-judgment"
      PROVE  StepperTyped' /\ JudgmentAsked'
  <2>1. stepper' = [stepper EXCEPT !.pc = "waiting", !.judgment = NoJudgment, !.asked = survivors]
    BY <1>2 DEF AwaitsJudgment
  <2> QED BY <1>2, <2>1 DEF StepperTyped, JudgmentAsked
<1>3. ASSUME NEW status \in {"succeeded", "failed"}, Settles(status),
             record'.status \in {record.status, "concluded"}
      PROVE  StepperTyped' /\ JudgmentAsked'
  <2>1. stepper' = [stepper EXCEPT !.pc = "settled", !.status = status]
    BY <1>3 DEF Settles
  <2> QED BY <1>3, <2>1 DEF StepperTyped, JudgmentAsked
<1> QED
  BY <1>1, <1>2, <1>3

\* A step that throws, or only waits, changes the node alone.
LEMMA RecordKept ==
    ASSUME ExperimentInv, record' = record, StepperTyped', JudgmentAsked',
           stepper'.asked = stepper.asked \/ record.status # "concluded"
    PROVE  ExperimentInv'
<1>1. RecordTyped' /\ SurvivorsPassed' /\ NotYet'
  BY DEF ExperimentInv, RecordTyped, Ids, SurvivorsPassed, rankedSurvivors, candidatesOf, NotYet, Untouched
<1>2. CASE record.status # "concluded"
  BY <1>1, <1>2, StepOfOpenRecord DEF ExperimentInv, NotYet
<1>3. CASE stepper'.asked = stepper.asked
  <2>1. AdvanceIsEarned'
    BY <1>3 DEF ExperimentInv, AdvanceIsEarned, advanced, Ids, rankedSurvivors, candidatesOf
  <2> QED BY <1>1, <2>1 DEF ExperimentInv
<1> QED
  BY <1>2, <1>3

LEMMA GenerateStays ==
    ASSUME ExperimentAssumption, ExperimentInv, Generate
    PROVE  ExperimentInv'
<1>1. RecordTyped /\ StepperTyped /\ JudgmentAsked /\ NotYet
  BY DEF ExperimentInv
<1>2. record.status # "concluded" /\ Stepping /\ \A c \in Ids : record.candidates[c].iteration # record.iteration
  BY DEF Generate, Running, atRest
<1>3. record.conclusion = "none" /\ Untouched
  BY <1>1, <1>2 DEF NotYet
<1>4. CASE Throws
  <2>1. record' = record /\ Settles("failed")
    BY <1>4 DEF Throws
  <2>2. StepperTyped' /\ JudgmentAsked'
    BY <1>1, <1>2, <2>1, StepperMoves
  <2> QED BY <1>2, <2>1, <2>2, RecordKept
<1>5. ASSUME NEW n \in 1..candidateCount, Continues,
             record' = [record EXCEPT !.status = "running",
                                      !.candidates = record.candidates \o generated(n)]
      PROVE  ExperimentInv'
  <2>1. n \in Nat
    OBVIOUS
  <2>2. generated(n) \in [1..n -> Candidate]
    BY <1>1 DEF generated, Candidate, CandidateStates, RecordTyped, Records
  <2>3. generated(n) \in Seq(Candidate) /\ Len(generated(n)) = n
    BY <2>1, <2>2, Rewritten
  <2> DEFINE new == record.candidates \o generated(n)
  <2>4. /\ new \in Seq(Candidate) /\ Len(new) = Len(record.candidates) + n
        /\ \A c \in Ids : new[c] = record.candidates[c]
        /\ \A c \in 1..Len(new) : c \notin Ids =>
             new[c] = [iteration |-> record.iteration, status |-> "generated", score |-> 0]
    <3>1. record.candidates \in Seq(Candidate) /\ Ids = 1..Len(record.candidates)
      BY <1>1 DEF RecordTyped, Records, Ids
    <3>2. \A i \in 1..n : generated(n)[i] = [iteration |-> record.iteration, status |-> "generated", score |-> 0]
      BY DEF generated
    <3> QED BY <2>1, <2>3, <3>1, <3>2
  <2>5. record'.candidates = new /\ record'.iteration = record.iteration /\ record'.status = "running"
        /\ record'.conclusion = "none" /\ record'.judgments = record.judgments
    BY <1>1, <1>3, <1>5 DEF RecordTyped, Records
  <2> HIDE DEF new
  <2>6. record' = [record EXCEPT !.status = "running", !.candidates = new]
    BY <1>5 DEF new
  <2>7. \A c \in Ids' : (c \in Ids /\ new[c] = record.candidates[c])
                        \/ new[c] = [iteration |-> record.iteration, status |-> "generated", score |-> 0]
    BY <2>4, <2>5 DEF Ids
  <2>8. RecordTyped'
    <3>1. record' \in Records
      BY <1>1, <2>4, <2>6 DEF RecordTyped, Records
    <3>2. \A c \in Ids' : record'.candidates[c].iteration <= record'.iteration
      BY <1>1, <2>5, <2>7, CandidatesTyped
    <3> QED BY <3>1, <3>2 DEF RecordTyped, Records
  <2>9. Untouched' /\ SurvivorsPassed'
    BY <1>2, <1>3, <2>5, <2>7 DEF Untouched, SurvivorsPassed, rankedSurvivors, candidatesOf
  <2>10. StepperTyped' /\ JudgmentAsked'
    <3>1. stepper.satisfaction.decision # "advance"
      BY <1>1, <1>2, NoAdvanceStands DEF Generate, Running, atRest
    <3> QED BY <1>1, <1>2, <1>5, <2>5, <3>1, StepperMoves
  <2> QED BY <2>5, <2>8, <2>9, <2>10, StepOfOpenRecord
<1> QED
  BY <1>4, <1>5 DEF Generate

\* A step that goes over the candidates: each keeps its iteration, and none is advanced;
\* those that are survivors after it have passed.
LEMMA CandidatesRewritten ==
    ASSUME ExperimentInv, record.status # "concluded", record' \in Records,
           NEW cs, cs \in [Ids -> Candidate], record'.candidates = cs,
           record.iteration <= record'.iteration,
           record'.conclusion \in {"none", "exhausted", "killed"},
           record'.status # "concluded" => record'.conclusion = "none",
           \A c \in Ids : /\ cs[c].iteration = record.candidates[c].iteration
                          /\ cs[c].status # "advanced"
                          /\ cs[c].status = "evaluated" /\ cs[c].iteration = record'.iteration =>
                               ~(cs[c].score < advanceThreshold) \/ record'.iteration \in record'.passes,
           StepperTyped', JudgmentAsked'
    PROVE  ExperimentInv'
<1>1. RecordTyped
  BY DEF ExperimentInv
<1>2. Len(cs) = Len(record.candidates) /\ Ids' = Ids
  BY <1>1, CandidatesTyped, Rewritten DEF Ids
<1>3. RecordTyped'
  <2> SUFFICES ASSUME NEW c \in Ids PROVE cs[c].iteration <= record'.iteration
    BY <1>2 DEF RecordTyped
  <2>1. record.candidates[c].iteration \in Nat /\ record.candidates[c].iteration <= record.iteration
        /\ record.iteration \in Nat /\ record'.iteration \in Nat
    BY <1>1, CandidatesTyped DEF Candidate, Records
  <2> QED BY <2>1
<1>4. Untouched' /\ SurvivorsPassed'
  BY <1>2 DEF Untouched, SurvivorsPassed, rankedSurvivors, candidatesOf
<1> QED
  BY <1>3, <1>4, StepOfOpenRecord

\* The same, for a step that rewrites nothing else.
LEMMA RewrittenInPlace ==
    ASSUME ExperimentInv, record.status \in {"none", "running"},
           NEW cs, cs \in [Ids -> Candidate],
           record' = [record EXCEPT !.candidates = cs],
           \A c \in Ids : /\ cs[c].iteration = record.candidates[c].iteration
                          /\ \/ cs[c].status \notin {"evaluated", "advanced"}
                             \/ cs[c].status = "evaluated" /\ ~(cs[c].score < advanceThreshold)
                             \/ cs[c] = record.candidates[c],
           Stepping, Continues
    PROVE  ExperimentInv'
<1>1. RecordTyped /\ StepperTyped /\ JudgmentAsked /\ SurvivorsPassed /\ record.conclusion = "none" /\ Untouched
  BY DEF ExperimentInv, NotYet
<1>2. cs \in Seq(Candidate) /\ Len(cs) = Len(record.candidates)
  BY <1>1, CandidatesTyped, Rewritten
<1>3. /\ record'.candidates = cs /\ Ids' = Ids /\ record'.iteration = record.iteration
      /\ record'.status = record.status /\ record'.conclusion = "none" /\ record'.passes = record.passes
      /\ record'.judgments = record.judgments
  BY <1>1, <1>2 DEF RecordTyped, Records, Ids
<1>4. RecordTyped'
  <2>1. record' \in Records
    BY <1>1, <1>2 DEF RecordTyped, Records
  <2>2. \A c \in Ids' : record'.candidates[c].iteration <= record'.iteration
    BY <1>1, <1>3 DEF RecordTyped, Records
  <2> QED BY <2>1, <2>2 DEF RecordTyped, Records
<1>5. Untouched'
  BY <1>1, <1>3 DEF Untouched
<1>6. SurvivorsPassed'
  BY <1>1, <1>3 DEF SurvivorsPassed, rankedSurvivors, candidatesOf
<1>7. StepperTyped' /\ JudgmentAsked'
  BY <1>1, <1>3, NoAdvanceStands, StepperMoves
<1> QED
  BY <1>3, <1>4, <1>5, <1>6, <1>7, StepOfOpenRecord

LEMMA PrototypeStays ==
    ASSUME ExperimentAssumption, ExperimentInv, Prototype
    PROVE  ExperimentInv'
<1>1. RecordTyped /\ StepperTyped /\ JudgmentAsked /\ NotYet /\ SurvivorsPassed
  BY DEF ExperimentInv
<1>2. record.status \in {"none", "running"} /\ Stepping /\ Continues
  BY DEF Prototype, Running, atRest
<1>3. record.conclusion = "none" /\ Untouched
  BY <1>1, <1>2 DEF NotYet
<1>4. PICK dropped \in SUBSET candidatesOf("generated") :
        record' = [record EXCEPT !.candidates =
            [c \in Ids |-> IF c \in dropped THEN [record.candidates[c] EXCEPT !.status = "killed"]
                           ELSE IF c \in candidatesOf("generated")
                                THEN [record.candidates[c] EXCEPT !.status = "prototyped"]
                                ELSE record.candidates[c]]]
  BY DEF Prototype
<1> DEFINE cs == [c \in Ids |-> IF c \in dropped THEN [record.candidates[c] EXCEPT !.status = "killed"]
                           ELSE IF c \in candidatesOf("generated")
                                THEN [record.candidates[c] EXCEPT !.status = "prototyped"]
                                ELSE record.candidates[c]]
<1>5. \A c \in Ids : /\ cs[c] \in Candidate
                     /\ cs[c].iteration = record.candidates[c].iteration
                     /\ \/ cs[c].status \in {"killed", "prototyped"}
                        \/ cs[c] = record.candidates[c]
  BY <1>1, CandidatesTyped DEF Candidate, CandidateStates
<1>6. cs \in [Ids -> Candidate]
  BY <1>5
<1>7. record' = [record EXCEPT !.candidates = cs]
  BY <1>4
<1> HIDE DEF cs
<1> QED
  BY <1>1, <1>2, <1>3, <1>5, <1>6, <1>7, RewrittenInPlace

LEMMA EvaluateStays ==
    ASSUME ExperimentAssumption, ExperimentInv, Evaluate
    PROVE  ExperimentInv'
<1>1. RecordTyped /\ StepperTyped /\ JudgmentAsked
  BY DEF ExperimentInv
<1>2. record.status \in {"none", "running"} /\ Stepping
  BY DEF Evaluate, Running, atRest
<1>3. CASE Throws
  <2>1. record' = record /\ Settles("failed")
    BY <1>3 DEF Throws
  <2>2. StepperTyped' /\ JudgmentAsked'
    BY <1>1, <1>2, <2>1, StepperMoves
  <2> QED BY <1>2, <2>1, <2>2, RecordKept
<1>4. ASSUME NEW pending \in SUBSET Ids, NEW score \in [pending -> Scores], NEW kills, Continues,
             record' = [record EXCEPT !.candidates =
                 [c \in Ids |-> IF c \in pending THEN applyEvaluation(record.candidates[c], score[c], c \in kills)
                                ELSE record.candidates[c]]]
      PROVE  ExperimentInv'
  <2> DEFINE cs == [c \in Ids |-> IF c \in pending
                                  THEN applyEvaluation(record.candidates[c], score[c], c \in kills)
                                  ELSE record.candidates[c]]
  <2>1. \A c \in Ids : /\ cs[c] \in Candidate
                       /\ cs[c].iteration = record.candidates[c].iteration
                       /\ \/ cs[c].status = "killed"
                          \/ cs[c].status = "evaluated" /\ ~(cs[c].score < advanceThreshold)
                          \/ cs[c] = record.candidates[c]
    <3> SUFFICES ASSUME NEW c \in Ids
                 PROVE  /\ cs[c] \in Candidate
                        /\ cs[c].iteration = record.candidates[c].iteration
                        /\ \/ cs[c].status = "killed"
                           \/ cs[c].status = "evaluated" /\ ~(cs[c].score < advanceThreshold)
                           \/ cs[c] = record.candidates[c]
      OBVIOUS
    <3>1. record.candidates[c] \in Candidate
      BY <1>1, CandidatesTyped
    <3>2. CASE c \notin pending
      BY <3>1, <3>2
    <3>3. CASE c \in pending
      <4>1. score[c] \in Scores
        BY <3>3
      <4>2. cs[c] = [record.candidates[c] EXCEPT
                       !.score = score[c],
                       !.status = IF c \in kills \/ score[c] < advanceThreshold THEN "killed" ELSE "evaluated"]
        BY <3>3 DEF applyEvaluation
      <4> QED BY <3>1, <4>1, <4>2 DEF Candidate, CandidateStates
    <3> QED BY <3>2, <3>3
  <2>2. cs \in [Ids -> Candidate]
    BY <2>1
  <2>3. record' = [record EXCEPT !.candidates = cs]
    BY <1>4
  <2> HIDE DEF cs
  <2> QED
    BY <1>2, <1>4, <2>1, <2>2, <2>3, RewrittenInPlace
<1>5. \A status : candidatesOf(status) \subseteq Ids
  BY <1>1, CandidatesTyped
<1> QED
  BY <1>3, <1>4, <1>5 DEF Evaluate

LEMMA SelectStays ==
    ASSUME ExperimentAssumption, ExperimentInv, Select
    PROVE  ExperimentInv'
<1>1. RecordTyped /\ StepperTyped /\ JudgmentAsked /\ SurvivorsPassed /\ NotYet
  BY DEF ExperimentInv
<1>2. record.status # "concluded" /\ Stepping /\ record.conclusion = "none" /\ Untouched
  BY <1>1 DEF Select, Running, atRest, NotYet
<1>3. PICK kept \in SUBSET rankedSurvivors :
        /\ record' = [record EXCEPT !.status = "awaiting-judgment",
                                    !.candidates = marked(rankedSurvivors \ kept, "killed")]
        /\ AwaitsJudgment(kept)
  BY DEF Select
<1> DEFINE cs == marked(rankedSurvivors \ kept, "killed")
<1>4. \A c \in Ids : /\ cs[c] \in Candidate
                     /\ cs[c].iteration = record.candidates[c].iteration
                     /\ cs[c].status = "killed" \/ cs[c] = record.candidates[c]
  BY <1>1, CandidatesTyped DEF marked, Candidate, CandidateStates
<1>5. cs \in [Ids -> Candidate]
  BY <1>4 DEF marked
<1>6. record' = [record EXCEPT !.status = "awaiting-judgment", !.candidates = cs]
  BY <1>3
<1> HIDE DEF cs
<1>7. cs \in Seq(Candidate)
  BY <1>1, <1>5, CandidatesTyped, Rewritten
<1>8. /\ record' \in Records /\ record'.candidates = cs /\ record'.iteration = record.iteration
      /\ record'.conclusion = "none" /\ record'.passes = record.passes
      /\ record'.judgments = record.judgments
  BY <1>1, <1>2, <1>6, <1>7 DEF RecordTyped, Records
<1>9. kept \in SUBSET Nat
  BY <1>1, CandidatesTyped
<1>10. StepperTyped' /\ JudgmentAsked'
  <2>1. stepper.satisfaction.decision # "advance"
    BY <1>1, <1>2, NoAdvanceStands DEF Select, Running, atRest
  <2>2. record'.status = "awaiting-judgment"
    BY <1>1, <1>6, <1>7 DEF RecordTyped, Records
  <2> QED BY <1>1, <1>2, <1>3, <1>8, <1>9, <2>1, <2>2, StepperMoves
<1>11. \A c \in Ids : /\ cs[c].status # "advanced"
                      /\ cs[c].status = "evaluated" /\ cs[c].iteration = record'.iteration =>
                           ~(cs[c].score < advanceThreshold) \/ record'.iteration \in record'.passes
  BY <1>1, <1>2, <1>4, <1>8 DEF Untouched, SurvivorsPassed, rankedSurvivors, candidatesOf
<1>12. record.iteration <= record'.iteration
  BY <1>1, <1>8, CandidatesTyped
<1> QED
  BY <1>2, <1>4, <1>5, <1>8, <1>10, <1>11, <1>12, CandidatesRewritten

\* A step that leaves the candidates as they are.
LEMMA CandidatesKept ==
    ASSUME ExperimentInv, record.status # "concluded", record' \in Records,
           record'.candidates = record.candidates, record.iteration <= record'.iteration,
           record'.conclusion \in {"none", "exhausted", "killed"},
           record'.status # "concluded" => record'.conclusion = "none",
           record'.iteration = record.iteration => record'.passes = record.passes,
           StepperTyped', JudgmentAsked'
    PROVE  ExperimentInv'
<1>1. RecordTyped /\ SurvivorsPassed /\ Untouched
  BY DEF ExperimentInv, NotYet
<1>2. Ids' = Ids
  BY DEF Ids
<1>3. \A c \in Ids : /\ record.candidates[c].iteration \in Nat
                     /\ record.candidates[c].iteration <= record.iteration
  BY <1>1, CandidatesTyped DEF Candidate
<1>4. record.iteration \in Nat /\ record'.iteration \in Nat
  BY <1>1, CandidatesTyped DEF Records
<1>5. RecordTyped'
  BY <1>2, <1>3, <1>4 DEF RecordTyped
<1>6. Untouched'
  BY <1>1, <1>2 DEF Untouched
<1>7. SurvivorsPassed'
  BY <1>1, <1>2, <1>3, <1>4 DEF SurvivorsPassed, rankedSurvivors, candidatesOf
<1> QED
  BY <1>5, <1>6, <1>7, StepOfOpenRecord

\* The steps that conclude without an advance, or go on to another iteration, with the
\* candidates as they are.
LEMMA LeftAsTheyAreStays ==
    ASSUME ExperimentAssumption, ExperimentInv, WallClockExhausted \/ SelectNone \/ judgmentIterate
    PROVE  ExperimentInv'
<1>1. RecordTyped /\ StepperTyped /\ JudgmentAsked /\ NotYet
  BY DEF ExperimentInv
<1>2. record.status # "concluded" /\ Stepping /\ record.conclusion = "none"
  BY <1>1 DEF WallClockExhausted, SelectNone, judgmentIterate, Judging, Running, atRest, NotYet
<1>3. \/ conclude(record.candidates, "exhausted") /\ Settles("succeeded")
      \/ /\ record.iteration < maxIterations /\ Continues
         /\ \/ record' = [record EXCEPT !.iteration = record.iteration + 1]
            \/ record' = [record EXCEPT !.status = "running", !.iteration = record.iteration + 1]
         /\ \/ record.status \in {"none", "running"}
            \/ record.status = "awaiting-judgment" /\ stepper.judgment.decision = "iterate"
  BY <1>1, CandidatesTyped
     DEF WallClockExhausted, SelectNone, judgmentIterate, Judging, Running, atRest, ExperimentAssumption
<1>4. CASE conclude(record.candidates, "exhausted") /\ Settles("succeeded")
  <2>1. record' = [record EXCEPT !.status = "concluded", !.conclusion = "exhausted",
                                 !.candidates = record.candidates]
    BY <1>4 DEF conclude
  <2>2. /\ record' \in Records /\ record'.candidates = record.candidates
        /\ record'.iteration = record.iteration /\ record'.passes = record.passes
        /\ record'.judgments = record.judgments /\ record'.conclusion = "exhausted"
        /\ record'.status = "concluded"
    BY <1>1, <2>1 DEF RecordTyped, Records
  <2>3. StepperTyped' /\ JudgmentAsked'
    BY <1>1, <1>2, <1>4, <2>2, StepperMoves
  <2>4. record.iteration <= record'.iteration
    BY <1>1, <2>2, CandidatesTyped
  <2> QED BY <1>2, <2>2, <2>3, <2>4, CandidatesKept
<1>5. CASE /\ record.iteration < maxIterations /\ Continues
           /\ \/ record' = [record EXCEPT !.iteration = record.iteration + 1]
              \/ record' = [record EXCEPT !.status = "running", !.iteration = record.iteration + 1]
           /\ \/ record.status \in {"none", "running"}
              \/ record.status = "awaiting-judgment" /\ stepper.judgment.decision = "iterate"
  <2>1. record.iteration + 1 \in 1..maxIterations /\ record.iteration + 1 # record.iteration
        /\ record.iteration <= record.iteration + 1
    BY <1>1, <1>5 DEF RecordTyped, Records, ExperimentAssumption
  <2>2. /\ record' \in Records /\ record'.candidates = record.candidates
        /\ record'.iteration = record.iteration + 1
        /\ record'.judgments = record.judgments /\ record'.conclusion = "none"
    BY <1>1, <1>2, <1>5, <2>1 DEF RecordTyped, Records
  <2>3. StepperTyped' /\ JudgmentAsked'
    BY <1>1, <1>2, <1>5, <2>2, NoAdvanceStands, StepperMoves
  <2> QED BY <1>2, <2>1, <2>2, <2>3, CandidatesKept
<1> QED
  BY <1>3, <1>4, <1>5

LEMMA KillStays ==
    ASSUME ExperimentAssumption, ExperimentInv, judgmentKill
    PROVE  ExperimentInv'
<1>1. RecordTyped /\ StepperTyped /\ JudgmentAsked /\ SurvivorsPassed /\ NotYet
  BY DEF ExperimentInv
<1>2. record.status # "concluded" /\ Stepping /\ record.conclusion = "none" /\ Untouched
  BY <1>1 DEF judgmentKill, Judging, NotYet
<1> DEFINE cs == marked(rankedSurvivors, "killed")
<1>3. \A c \in Ids : /\ cs[c] \in Candidate
                     /\ cs[c].iteration = record.candidates[c].iteration
                     /\ cs[c].status = "killed" \/ cs[c] = record.candidates[c]
  BY <1>1, CandidatesTyped DEF marked, Candidate, CandidateStates
<1>4. cs \in [Ids -> Candidate]
  BY <1>3 DEF marked
<1>5. record' = [record EXCEPT !.status = "concluded", !.conclusion = "killed", !.candidates = cs]
  BY DEF judgmentKill, conclude
<1> HIDE DEF cs
<1>6. cs \in Seq(Candidate)
  BY <1>1, <1>4, CandidatesTyped, Rewritten
<1>7. /\ record' \in Records /\ record'.candidates = cs /\ record'.iteration = record.iteration
      /\ record'.conclusion = "killed" /\ record'.status = "concluded" /\ record'.passes = record.passes
      /\ record'.judgments = record.judgments
  BY <1>1, <1>5, <1>6 DEF RecordTyped, Records
<1>8. StepperTyped' /\ JudgmentAsked'
  <2>1. Settles("succeeded")
    BY DEF judgmentKill
  <2> QED BY <1>1, <1>2, <1>7, <2>1, StepperMoves
<1>9. \A c \in Ids : /\ cs[c].status # "advanced"
                     /\ cs[c].status = "evaluated" /\ cs[c].iteration = record'.iteration =>
                          ~(cs[c].score < advanceThreshold) \/ record'.iteration \in record'.passes
  BY <1>1, <1>2, <1>3, <1>7 DEF Untouched, SurvivorsPassed, rankedSurvivors, candidatesOf
<1>10. record.iteration <= record'.iteration
  BY <1>1, <1>7, CandidatesTyped
<1> QED
  BY <1>2, <1>3, <1>4, <1>7, <1>8, <1>9, <1>10, CandidatesRewritten

LEMMA MoreEvidenceStays ==
    ASSUME ExperimentAssumption, ExperimentInv, judgmentMoreEvidence
    PROVE  ExperimentInv'
<1>1. RecordTyped /\ StepperTyped /\ JudgmentAsked /\ SurvivorsPassed /\ NotYet
  BY DEF ExperimentInv
<1>2. record.status # "concluded" /\ Stepping /\ record.conclusion = "none" /\ Untouched
  BY <1>1 DEF judgmentMoreEvidence, Judging, NotYet
<1>3. rankedSurvivors \in SUBSET Nat /\ rankedSurvivors \subseteq Ids
  BY <1>1, CandidatesTyped
<1>4. record.status = "awaiting-judgment" /\ stepper.satisfaction.decision # "advance"
  BY <1>1, NoAdvanceStands DEF judgmentMoreEvidence, Judging
<1>5. CASE record' = record /\ (Settles("failed") \/ AwaitsJudgment(rankedSurvivors))
  <2>1. StepperTyped' /\ JudgmentAsked'
    BY <1>1, <1>2, <1>3, <1>4, <1>5, StepperMoves
  <2> QED BY <1>2, <1>5, <2>1, RecordKept
<1>6. ASSUME NEW score \in [rankedSurvivors -> Scores], AwaitsJudgment(rankedSurvivors),
             record' = [record EXCEPT !.passes = record.passes \cup {record.iteration}, !.candidates =
                 [c \in Ids |-> IF c \in rankedSurvivors THEN [record.candidates[c] EXCEPT !.score = score[c]]
                                ELSE record.candidates[c]]]
      PROVE  ExperimentInv'
  <2> DEFINE cs == [c \in Ids |-> IF c \in rankedSurvivors
                                  THEN [record.candidates[c] EXCEPT !.score = score[c]]
                                  ELSE record.candidates[c]]
  <2>1. \A c \in rankedSurvivors : score[c] \in Scores
    OBVIOUS
  <2>2. \A c \in Ids : /\ cs[c] \in Candidate
                       /\ cs[c].iteration = record.candidates[c].iteration
                       /\ cs[c].status = record.candidates[c].status
    BY <1>1, <2>1, CandidatesTyped DEF Candidate
  <2>3. cs \in [Ids -> Candidate]
    BY <2>2
  <2>4. record' = [record EXCEPT !.passes = record.passes \cup {record.iteration}, !.candidates = cs]
    BY <1>6
  <2> HIDE DEF cs
  <2>5. cs \in Seq(Candidate) /\ record.passes \cup {record.iteration} \in SUBSET Nat
    BY <1>1, <2>3, CandidatesTyped, Rewritten DEF RecordTyped, Records
  <2>6. /\ record' \in Records /\ record'.candidates = cs /\ record'.iteration = record.iteration
        /\ record'.conclusion = "none" /\ record'.passes = record.passes \cup {record.iteration}
        /\ record'.judgments = record.judgments /\ record'.status = record.status
    BY <1>1, <1>2, <2>4, <2>5 DEF RecordTyped, Records
  <2>7. StepperTyped' /\ JudgmentAsked'
    BY <1>1, <1>2, <1>3, <1>4, <1>6, <2>6, StepperMoves
  <2>8. \A c \in Ids : /\ cs[c].status # "advanced"
                       /\ cs[c].status = "evaluated" /\ cs[c].iteration = record'.iteration =>
                            ~(cs[c].score < advanceThreshold) \/ record'.iteration \in record'.passes
    BY <1>2, <2>2, <2>6 DEF Untouched
  <2>9. record.iteration <= record'.iteration
    BY <1>1, <2>6, CandidatesTyped
  <2> QED
    BY <1>2, <2>2, <2>3, <2>6, <2>7, <2>8, <2>9, CandidatesRewritten
<1> QED
  BY <1>5, <1>6 DEF judgmentMoreEvidence, Throws

LEMMA AdvanceStays ==
    ASSUME ExperimentAssumption, ExperimentInv, judgmentAdvance
    PROVE  ExperimentInv'
<1>1. RecordTyped /\ StepperTyped /\ JudgmentAsked /\ SurvivorsPassed /\ NotYet
  BY DEF ExperimentInv
<1>2. /\ record.status = "awaiting-judgment" /\ Stepping /\ stepper.judgment.decision = "advance"
      /\ record.conclusion = "none" /\ Untouched
  BY <1>1 DEF judgmentAdvance, Judging, NotYet
<1>3. CASE Throws
  <2>1. record' = record /\ Settles("failed")
    BY <1>3 DEF Throws
  <2>2. StepperTyped' /\ JudgmentAsked'
    BY <1>1, <1>2, <2>1, StepperMoves
  <2> QED BY <1>2, <2>1, <2>2, RecordKept
<1> DEFINE of == stepper.judgment.of
           cs == [marked(rankedSurvivors, "killed") EXCEPT ![of].status = "advanced"]
<1>4. CASE of \in rankedSurvivors /\ conclude(cs, "advanced") /\ Settles("succeeded")
  <2>1. rankedSurvivors \subseteq Ids /\ of \in Ids
    BY <1>1, <1>4, CandidatesTyped
  <2>2. \A c \in Ids : marked(rankedSurvivors, "killed")[c] =
            IF c \in rankedSurvivors THEN [record.candidates[c] EXCEPT !.status = "killed"]
            ELSE record.candidates[c]
    BY DEF marked
  <2>3. DOMAIN marked(rankedSurvivors, "killed") = Ids /\ DOMAIN cs = Ids
    BY DEF marked
  <2>4. \A c \in Ids : cs[c] = IF c = of THEN [record.candidates[c] EXCEPT !.status = "advanced"]
                              ELSE IF c \in rankedSurvivors THEN [record.candidates[c] EXCEPT !.status = "killed"]
                              ELSE record.candidates[c]
    <3> SUFFICES ASSUME NEW c \in Ids
                 PROVE  cs[c] = IF c = of THEN [record.candidates[c] EXCEPT !.status = "advanced"]
                                ELSE IF c \in rankedSurvivors THEN [record.candidates[c] EXCEPT !.status = "killed"]
                                ELSE record.candidates[c]
      OBVIOUS
    <3>1. record.candidates[c] \in Candidate
      BY <1>1, CandidatesTyped
    <3>2. CASE c # of
      BY <2>2, <2>3, <3>2 DEF marked
    <3>3. CASE c = of
      <4>1. cs[c] = [marked(rankedSurvivors, "killed")[c] EXCEPT !.status = "advanced"]
        BY <2>3, <3>3
      <4>2. cs[c] = [[record.candidates[c] EXCEPT !.status = "killed"] EXCEPT !.status = "advanced"]
        BY <1>4, <2>2, <3>3, <4>1
      <4> QED BY <3>1, <3>3, <4>2 DEF Candidate
    <3> QED BY <3>2, <3>3
  <2>5. record' = [record EXCEPT !.status = "concluded", !.conclusion = "advanced", !.candidates = cs]
    BY <1>4 DEF conclude
  <2>6. cs = [c \in Ids |-> cs[c]]
    BY <2>3
  <2> HIDE DEF cs
  <2>7. \A c \in Ids : /\ cs[c] \in Candidate
                       /\ cs[c].iteration = record.candidates[c].iteration
                       /\ cs[c].score = record.candidates[c].score
    <3> SUFFICES ASSUME NEW c \in Ids
                 PROVE  /\ cs[c] \in Candidate
                        /\ cs[c].iteration = record.candidates[c].iteration
                        /\ cs[c].score = record.candidates[c].score
      OBVIOUS
    <3>1. record.candidates[c] \in Candidate
      BY <1>1, CandidatesTyped
    <3>2. \/ cs[c] = record.candidates[c]
          \/ cs[c] = [record.candidates[c] EXCEPT !.status = "advanced"]
          \/ cs[c] = [record.candidates[c] EXCEPT !.status = "killed"]
      BY <2>4
    <3> QED BY <3>1, <3>2 DEF Candidate, CandidateStates
  <2>8. cs \in [Ids -> Candidate]
    BY <2>3, <2>6, <2>7
  <2>9. cs \in Seq(Candidate) /\ Len(cs) = Len(record.candidates)
    BY <1>1, <2>8, CandidatesTyped, Rewritten
  <2>10. /\ record' \in Records /\ record'.candidates = cs /\ record'.iteration = record.iteration
         /\ record'.conclusion = "advanced" /\ record'.status = "concluded" /\ record'.passes = record.passes
         /\ record'.judgments = record.judgments
    BY <1>1, <2>5, <2>9 DEF RecordTyped, Records
  <2>11. Ids' = Ids
    BY <2>9, <2>10 DEF Ids
  <2>12. RecordTyped'
    BY <1>1, <2>7, <2>10, <2>11 DEF RecordTyped
  <2>13. StepperTyped' /\ JudgmentAsked'
    BY <1>1, <1>2, <1>4, <2>10, StepperMoves
  <2>14. stepper'.asked = stepper.asked
    BY <1>1, <1>4 DEF Settles, StepperTyped
  <2>15. rankedSurvivors' = {}
    <3> SUFFICES ASSUME NEW c \in Ids, cs[c].iteration = record.iteration, cs[c].status = "evaluated"
                 PROVE  FALSE
      BY <2>10, <2>11 DEF rankedSurvivors, candidatesOf
    <3>1. c # of /\ c \notin rankedSurvivors
      BY <1>1, <2>4, CandidatesTyped DEF Candidate
    <3>2. cs[c] = record.candidates[c]
      BY <2>4, <3>1
    <3> QED BY <3>1, <3>2 DEF rankedSurvivors, candidatesOf
  <2>16. SurvivorsPassed' /\ NotYet'
    BY <2>10, <2>15 DEF SurvivorsPassed, NotYet
  <2>17. advanced' = {of}
    <3>1. \A c \in Ids : cs[c].status = "advanced" <=> c = of
      BY <1>1, <1>2, <2>4, CandidatesTyped DEF Candidate, Untouched
    <3> QED BY <2>1, <2>10, <2>11, <3>1 DEF advanced
  <2>18. /\ of \in stepper'.asked /\ record'.judgments > 0
         /\ cs[of].iteration = record.iteration
         /\ cs[of].score < advanceThreshold => record.iteration \in record.passes
    BY <1>1, <1>2, <1>4, <2>1, <2>7, <2>10, <2>14
       DEF JudgmentAsked, SurvivorsPassed, rankedSurvivors, candidatesOf
  <2>19. record'.iteration <= maxIterations
    BY <1>1, <2>10 DEF RecordTyped, Records, ExperimentAssumption
  <2>20. AdvanceIsEarned'
    BY <2>10, <2>15, <2>17, <2>18, <2>19 DEF AdvanceIsEarned
  <2> QED BY <2>12, <2>13, <2>16, <2>20 DEF ExperimentInv
<1> QED
  BY <1>3, <1>4 DEF judgmentAdvance

\* The steps of the node that change at most the number of judgments of the record.
LEMMA NodeAloneStays ==
    ASSUME ExperimentAssumption, ExperimentInv,
           \/ AwaitJudgment \/ ConcludedResult \/ JudgmentIgnored
           \/ Answer \/ CrashInNode \/ EnterAgain
    PROVE  ExperimentInv'
<1> USE DEF NoJudgment, Judgments, Decisions
<1>1. RecordTyped /\ StepperTyped /\ JudgmentAsked
  BY DEF ExperimentInv
<1>2. record' = record
  BY DEF AwaitJudgment, ConcludedResult, JudgmentIgnored, Answer, CrashInNode, EnterAgain
<1>3. CASE AwaitJudgment
  <2>1. rankedSurvivors \in SUBSET Nat
    BY <1>1, CandidatesTyped
  <2>2. StepperTyped' /\ JudgmentAsked'
    BY <1>1, <1>2, <1>3, <2>1, NoAdvanceStands, StepperMoves DEF AwaitJudgment, atRest, NoJudgment
  <2> QED BY <1>2, <1>3, <2>2, RecordKept DEF AwaitJudgment
<1>4. CASE ConcludedResult \/ JudgmentIgnored
  <2>1. StepperTyped' /\ JudgmentAsked'
    BY <1>1, <1>2, <1>4, NoAdvanceStands, StepperMoves DEF ConcludedResult, JudgmentIgnored
  <2>2. stepper'.asked = stepper.asked
    BY <1>1, <1>4 DEF ConcludedResult, JudgmentIgnored, Settles, Continues, StepperTyped
  <2> QED BY <1>2, <2>1, <2>2, RecordKept
<1>5. CASE Answer \/ CrashInNode \/ EnterAgain
  <2>1. PICK satisfaction \in Judgments :
          /\ stepper' = again(satisfaction)
          /\ satisfaction.decision = "advance" =>
               satisfaction.of \in stepper.asked /\ record.status \in {"awaiting-judgment", "concluded"}
    <3>1. CASE Answer
      <4>1. PICK choice \in judgmentChoices : stepper' = again(choice)
        BY <3>1 DEF Answer
      <4>2. choice \in Judgments /\ (choice.decision = "advance" => choice.of \in stepper.asked)
        BY <1>1 DEF judgmentChoices, StepperTyped
      <4>3. record.status = "awaiting-judgment"
        BY <1>1, <3>1 DEF Answer, JudgmentAsked
      <4> QED BY <4>1, <4>2, <4>3
    <3>2. CASE CrashInNode
      BY <1>1, <3>2 DEF CrashInNode, StepperTyped, JudgmentAsked
    <3>3. CASE EnterAgain
      <4>1. stepper' = again(NoJudgment) /\ NoJudgment \in Judgments
        BY <3>3 DEF EnterAgain
      <4> QED BY <4>1
    <3> QED BY <1>5, <3>1, <3>2, <3>3
  <2>2. stepper' = [stepper EXCEPT !.pc = "enter", !.satisfaction = satisfaction, !.judgment = NoJudgment,
                                   !.entries = stepper.entries + 1, !.status = "none"]
    BY <2>1 DEF again
  <2>3. StepperTyped' /\ stepper'.asked = stepper.asked
        /\ stepper'.satisfaction = satisfaction /\ stepper'.judgment = NoJudgment
        /\ stepper'.pc = "enter"
    <3>1. NoJudgment \in Judgments
      OBVIOUS
    <3> HIDE DEF NoJudgment, Judgments, Decisions
    <3>2. stepper.entries + 1 \in Nat
      BY <1>1 DEF StepperTyped
    <3>3. stepper' = [pc |-> "enter", satisfaction |-> satisfaction, judgment |-> NoJudgment,
                      asked |-> stepper.asked, entries |-> stepper.entries + 1, status |-> "none"]
      BY <1>1, <2>2 DEF StepperTyped
    <3>4. stepper.asked \in SUBSET Nat
      BY <1>1 DEF StepperTyped
    <3> QED BY <3>1, <3>2, <3>3, <3>4 DEF StepperTyped
  <2>4. JudgmentAsked'
    BY <1>2, <2>1, <2>3 DEF JudgmentAsked
  <2> QED BY <1>2, <2>3, <2>4, RecordKept
<1> QED
  BY <1>3, <1>4, <1>5

LEMMA EnterStays ==
    ASSUME ExperimentAssumption, ExperimentInv, Enter
    PROVE  ExperimentInv'
<1>1. RecordTyped /\ StepperTyped /\ JudgmentAsked
  BY DEF ExperimentInv
<1>2. CASE /\ stepper.satisfaction = NoJudgment \/ record.status = "none"
           /\ stepper' = [stepper EXCEPT !.pc = "step"] /\ record' = record
  <2>1. stepper.satisfaction.decision # "advance"
    BY <1>1, <1>2 DEF JudgmentAsked, NoJudgment
  <2>2. /\ StepperTyped' /\ stepper'.asked = stepper.asked /\ stepper'.pc = "step"
        /\ stepper'.satisfaction = stepper.satisfaction /\ stepper'.judgment = stepper.judgment
    BY <1>1, <1>2 DEF StepperTyped
  <2>3. JudgmentAsked'
    BY <1>1, <1>2, <2>1, <2>2 DEF JudgmentAsked
  <2> QED BY <1>2, <2>2, <2>3, RecordKept
<1>3. CASE /\ record' = [record EXCEPT !.judgments = record.judgments + 1]
           /\ stepper' = [stepper EXCEPT !.pc = "step", !.judgment = stepper.satisfaction]
  <2>1. /\ record' \in Records /\ record'.candidates = record.candidates
        /\ record'.iteration = record.iteration /\ record'.status = record.status
        /\ record'.conclusion = record.conclusion /\ record'.passes = record.passes
        /\ record'.judgments = record.judgments + 1 /\ record.judgments \in Nat
    BY <1>1, <1>3 DEF RecordTyped, Records
  <2>2. StepperTyped' /\ stepper'.asked = stepper.asked /\ stepper'.judgment = stepper.satisfaction
        /\ stepper'.satisfaction = stepper.satisfaction /\ stepper.pc = "enter" /\ stepper'.pc = "step"
    BY <1>1, <1>3 DEF Enter, StepperTyped
  <2>3. JudgmentAsked'
    BY <1>1, <2>1, <2>2 DEF JudgmentAsked
  <2>4. RecordTyped' /\ SurvivorsPassed' /\ NotYet'
    BY <2>1 DEF ExperimentInv, RecordTyped, Ids, SurvivorsPassed, rankedSurvivors, candidatesOf, NotYet, Untouched
  <2>5. record.judgments > 0 => record'.judgments > 0
    BY <2>1
  <2>6. AdvanceIsEarned'
    BY <2>1, <2>2, <2>5 DEF ExperimentInv, AdvanceIsEarned, advanced, Ids, rankedSurvivors, candidatesOf
  <2> QED BY <2>2, <2>3, <2>4, <2>6 DEF ExperimentInv
<1> QED
  BY <1>2, <1>3 DEF Enter

LEMMA ExperimentStays ==
    ASSUME ExperimentAssumption, ExperimentInv, [ExperimentNext]_experimentVars
    PROVE  ExperimentInv'
<1>1. CASE UNCHANGED experimentVars
  <2>1. StepperTyped' /\ JudgmentAsked' /\ record' = record /\ stepper'.asked = stepper.asked
    BY <1>1 DEF experimentVars, ExperimentInv, StepperTyped, JudgmentAsked
  <2> QED BY <2>1, RecordKept
<1>2. CASE StepperNext
  BY <1>2, EnterStays, LeftAsTheyAreStays, GenerateStays, PrototypeStays, EvaluateStays, SelectStays,
     NodeAloneStays, AdvanceStays, KillStays, MoreEvidenceStays DEF StepperNext
<1>3. CASE Answer \/ CrashInNode \/ EnterAgain
  BY <1>3, NodeAloneStays
<1> QED
  BY <1>1, <1>2, <1>3 DEF ExperimentNext

\* What an experiment advances is one survivor of its last iteration, the one that was
\* asked about and chosen, with its rivals dead; a score below the threshold it can only
\* have by an evidence pass (applyJudgment of stepper.ts), whatever the candidates, the
\* scores, the answers, the crashes and the loops of the graph.
THEOREM AdvancesAreEarned ==
    ASSUME ExperimentAssumption
    PROVE  ExperimentSpec => []AdvanceIsEarned
<1>1. ExperimentInit => ExperimentInv
  BY ExperimentAtFirst
<1>2. ExperimentInv /\ [ExperimentNext]_experimentVars => ExperimentInv'
  BY ExperimentStays
<1>3. ExperimentInv => AdvanceIsEarned
  BY DEF ExperimentInv
<1> QED
  BY <1>1, <1>2, <1>3, PTL DEF ExperimentSpec

--------------------------------------------------------------------------------
(***** The session of an agent ************************************************)

AgentAssumption ==
    /\ Responses \subseteq Seq(STRING)
    /\ keepRecentMessages \in Nat

Message == [role : {"user", "assistant", "tool"}, calls : Nat]
Turning == {"top", "invoke", "sleep", "calls", "ask", "tool", "compact"}
Outcomes == {"none", "CANCELLED", "BUDGET_EXHAUSTED", "GOAL_COMPLETED", "GOAL_BLOCKED",
             "HUMAN_INPUT_REQUIRED", "FATAL_FAILURE", "POLICY_BLOCKED"}
\* How a session that was told to stop does not end.
Unheard == {"GOAL_COMPLETED", "HUMAN_INPUT_REQUIRED", "FATAL_FAILURE"}

SessionRecords ==
    [pc : Turning \cup {"off", "done", "sub"}, turn : Nat, attempt : Nat, textOnly : Nat, denials : Nat,
     subs : Nat, tokens : Nat, calls : Seq(STRING), asked : Nat, results : Nat, history : Seq(Message),
     cancelled : BOOLEAN, timedOut : BOOLEAN,
     override : {"none", "CANCELLED", "BUDGET_EXHAUSTED"}, outcome : Outcomes]

\* A message of a history has its partner: the calls their answers, the answers their calls.
CallsMet(h, i) ==
    h[i].role = "assistant" /\ h[i].calls > 0 =>
        i < Len(h) /\ h[i + 1] = [role |-> "tool", calls |-> h[i].calls]
CalledFor(h, i) ==
    h[i].role = "tool" /\ h[i].calls > 0 =>
        i > 1 /\ h[i - 1] = [role |-> "assistant", calls |-> h[i].calls]
WellFormed(h) == \A i \in 1..Len(h) : CallsMet(h, i) /\ CalledFor(h, i)
\* A history whose last message makes n calls that have not been answered yet.
Unanswered(h, n) ==
    /\ Len(h) > 0 /\ h[Len(h)] = [role |-> "assistant", calls |-> n]
    /\ \A i \in 1..Len(h) : CalledFor(h, i) /\ (i < Len(h) => CallsMet(h, i))

\* The history is well formed between turns, unless the session has been told to stop
\* and will not call the model again; within a turn, each call is answered or still to do.
Coherent(s) ==
    /\ s.pc \in {"invoke", "sleep"} \/ (s.pc \in {"top", "compact"} /\ ~signalled(s)) => WellFormed(s.history)
    /\ s.pc \in {"calls", "ask", "tool", "sub"} =>
         /\ Unanswered(s.history, s.asked)
         /\ s.asked = s.results + Len(s.calls)
         /\ s.pc # "calls" => s.calls # <<>>

Good(s) ==
    /\ s \in SessionRecords
    /\ Coherent(s)
    /\ s.pc # "done" => s.outcome = "none"
    /\ s.cancelled => s.outcome \notin Unheard

RunnerRecords ==
    [pc : {"choose", "starting", "running", "returned"}, k : Nat,
     result : Outcomes \cup {"error"}, tried : SUBSET Nat]

AgentInv ==
    /\ runner \in RunnerRecords
    /\ sessions \in [Depths -> SessionRecords]
    /\ \A d \in Depths : Good(sessions[d])
    /\ sessions[1].pc # "done" /\ ~sessions[1].cancelled
    /\ sessions[0].pc = "sub" <=> sessions[1].pc # "off"
    /\ runner.pc # "running" => sessions[0].pc \in {"off", "done"}
    /\ sessions[0].cancelled => runner.pc \in {"running", "returned"}

--------------------------------------------------------------------------------
(* Histories *)

\* A message that makes and answers no calls, added to a history.
LEMMA PlainAdded ==
    ASSUME NEW h \in Seq(Message), NEW m \in Message, m.calls = 0, WellFormed(h)
    PROVE  Append(h, m) \in Seq(Message) /\ WellFormed(Append(h, m))
<1> DEFINE g == Append(h, m)
<1>1. /\ g \in Seq(Message) /\ Len(g) = Len(h) + 1 /\ Len(h) \in Nat
      /\ \A i \in 1..Len(h) : g[i] = h[i]
      /\ g[Len(h) + 1] = m
  OBVIOUS
<1> HIDE DEF g
<1>2. \A i \in 1..Len(h) : CallsMet(g, i) /\ CalledFor(g, i)
  <2> SUFFICES ASSUME NEW i \in 1..Len(h) PROVE CallsMet(g, i) /\ CalledFor(g, i)
    OBVIOUS
  <2>1. CallsMet(h, i) /\ CalledFor(h, i) /\ g[i] = h[i]
    BY <1>1 DEF WellFormed
  <2>2. i < Len(h) => g[i + 1] = h[i + 1]
    BY <1>1
  <2>3. i > 1 => g[i - 1] = h[i - 1]
    BY <1>1
  <2> QED BY <1>1, <2>1, <2>2, <2>3 DEF CallsMet, CalledFor
<1>3. CallsMet(g, Len(h) + 1) /\ CalledFor(g, Len(h) + 1)
  BY <1>1 DEF CallsMet, CalledFor
<1>4. WellFormed(g)
  BY <1>1, <1>2, <1>3 DEF WellFormed
<1> QED
  BY <1>1, <1>4 DEF g

LEMMA CallsAdded ==
    ASSUME NEW h \in Seq(Message), NEW n \in Nat, WellFormed(h)
    PROVE  /\ Append(h, [role |-> "assistant", calls |-> n]) \in Seq(Message)
           /\ Unanswered(Append(h, [role |-> "assistant", calls |-> n]), n)
<1> DEFINE m == [role |-> "assistant", calls |-> n]
           g == Append(h, m)
<1>0. m \in Message /\ m.role = "assistant" /\ m.calls = n
  BY DEF Message
<1> HIDE DEF m
<1>1. /\ g \in Seq(Message) /\ Len(g) = Len(h) + 1 /\ Len(h) \in Nat
      /\ \A i \in 1..Len(h) : g[i] = h[i]
      /\ g[Len(h) + 1] = m
  BY <1>0
<1> HIDE DEF g
<1>2. \A i \in 1..Len(h) : CallsMet(g, i) /\ CalledFor(g, i)
  <2> SUFFICES ASSUME NEW i \in 1..Len(h) PROVE CallsMet(g, i) /\ CalledFor(g, i)
    OBVIOUS
  <2>1. CallsMet(h, i) /\ CalledFor(h, i) /\ g[i] = h[i]
    BY <1>1 DEF WellFormed
  <2>2. i < Len(h) => g[i + 1] = h[i + 1]
    BY <1>1
  <2>3. i > 1 => g[i - 1] = h[i - 1]
    BY <1>1
  <2> QED BY <1>1, <2>1, <2>2, <2>3 DEF CallsMet, CalledFor
<1>3. CalledFor(g, Len(h) + 1)
  BY <1>0, <1>1 DEF CalledFor
<1>4. Unanswered(g, n)
  BY <1>1, <1>2, <1>3 DEF Unanswered, m
<1> QED
  BY <1>1, <1>4 DEF g, m

LEMMA AnswersAdded ==
    ASSUME NEW h \in Seq(Message), NEW n \in Nat, Unanswered(h, n)
    PROVE  /\ Append(h, [role |-> "tool", calls |-> n]) \in Seq(Message)
           /\ WellFormed(Append(h, [role |-> "tool", calls |-> n]))
<1> DEFINE m == [role |-> "tool", calls |-> n]
           g == Append(h, m)
<1>0. m \in Message /\ m.role = "tool" /\ m.calls = n
  BY DEF Message
<1> HIDE DEF m
<1>1. /\ g \in Seq(Message) /\ Len(g) = Len(h) + 1 /\ Len(h) \in Nat
      /\ \A i \in 1..Len(h) : g[i] = h[i]
      /\ g[Len(h) + 1] = m
  BY <1>0
<1> HIDE DEF g
<1>2. \A i \in 1..Len(h) : CallsMet(g, i) /\ CalledFor(g, i)
  <2> SUFFICES ASSUME NEW i \in 1..Len(h) PROVE CallsMet(g, i) /\ CalledFor(g, i)
    OBVIOUS
  <2>1. CalledFor(h, i) /\ g[i] = h[i] /\ (i < Len(h) => CallsMet(h, i))
    BY <1>1 DEF Unanswered
  <2>2. i < Len(h) => g[i + 1] = h[i + 1]
    BY <1>1
  <2>3. i > 1 => g[i - 1] = h[i - 1]
    BY <1>1
  <2>4. i = Len(h) => g[i] = [role |-> "assistant", calls |-> n] /\ g[i + 1] = [role |-> "tool", calls |-> n]
    BY <1>1, <2>1 DEF Unanswered, m
  <2> QED BY <1>1, <2>1, <2>2, <2>3, <2>4 DEF CallsMet, CalledFor
<1>3. CallsMet(g, Len(h) + 1) /\ CalledFor(g, Len(h) + 1)
  <2>1. Len(h) > 0 /\ g[Len(h)] = [role |-> "assistant", calls |-> n]
    BY <1>1 DEF Unanswered
  <2> QED BY <1>0, <1>1, <2>1 DEF CallsMet, CalledFor
<1>4. WellFormed(g)
  BY <1>1, <1>2, <1>3 DEF WellFormed
<1> QED
  BY <1>1, <1>4 DEF g, m

\* Compaction cuts a history at any place: answers whose calls are in the summary become
\* text, and no call in the tail is left without its answer.
LEMMA CompactionKeeps ==
    ASSUME AgentAssumption, NEW h \in Seq(Message)
    PROVE  /\ compactMessages(h) \in Seq(Message)
           /\ WellFormed(h) => WellFormed(compactMessages(h))
<1>1. keep \in Nat /\ keep >= 2
  BY DEF keep, AgentAssumption
<1>2. CASE Len(h) <= keep + 2
  BY <1>2 DEF compactMessages
<1>3. CASE Len(h) > keep + 2
  <2> DEFINE off == Len(h) - keep
             tail == SubSeq(h, Len(h) - keep + 1, Len(h))
             clean == sanitizeTail(tail)
             g == <<User>> \o clean
  <2>1. Len(h) \in Nat /\ off \in Nat /\ off > 2 /\ Len(h) = off + keep
    BY <1>1, <1>3
  <2>2. /\ tail \in Seq(Message) /\ Len(tail) = keep
        /\ \A i \in 1..keep : tail[i] = h[off + i]
    BY <1>1, <2>1
  <2> HIDE DEF off, tail
  <2>3. DOMAIN tail = 1..keep
    BY <1>1, <2>2
  <2>4. \A i \in 1..keep : clean[i] =
          IF tail[i].role = "tool" /\ (i = 1 \/ tail[i - 1].role # "assistant")
          THEN [tail[i] EXCEPT !.calls = 0] ELSE tail[i]
    BY <2>3 DEF sanitizeTail
  <2>5. \A i \in 1..keep : tail[i] \in Message
    BY <1>1, <2>2, <2>3
  <2>6. \A i \in 1..keep : /\ clean[i] \in Message /\ clean[i].role = tail[i].role
                           /\ clean[i] = tail[i] \/ (clean[i].role = "tool" /\ clean[i].calls = 0)
    <3> SUFFICES ASSUME NEW i \in 1..keep
                 PROVE  /\ clean[i] \in Message /\ clean[i].role = tail[i].role
                        /\ clean[i] = tail[i] \/ (clean[i].role = "tool" /\ clean[i].calls = 0)
      OBVIOUS
    <3>1. tail[i] \in Message
      BY <2>5
    <3>2. \/ clean[i] = tail[i]
          \/ tail[i].role = "tool" /\ clean[i] = [tail[i] EXCEPT !.calls = 0]
      BY <2>4
    <3> HIDE DEF clean
    <3> QED BY <3>1, <3>2 DEF Message
  <2>7. clean \in [1..keep -> Message]
    <3>1. clean = [i \in 1..keep |-> clean[i]]
      BY <2>3 DEF sanitizeTail
    <3> HIDE DEF clean
    <3> QED BY <2>6, <3>1
  <2> HIDE DEF clean
  <2>8. clean \in Seq(Message) /\ Len(clean) = keep
    BY <1>1, <2>7
  <2>9. User \in Message /\ User.calls = 0 /\ User.role = "user"
    BY DEF User, Message
  <2>10. /\ g \in Seq(Message) /\ Len(g) = keep + 1
         /\ g[1] = User
         /\ \A i \in 1..keep : g[i + 1] = clean[i]
    <3> HIDE DEF User
    <3> QED BY <1>1, <2>8, <2>9
  <2> HIDE DEF g
  <2>11. CallsMet(g, 1) /\ CalledFor(g, 1)
    BY <2>9, <2>10 DEF CallsMet, CalledFor
  <2>12. ASSUME NEW i \in 1..keep, WellFormed(h) PROVE CallsMet(g, i + 1)
    <3>1. g[i + 1] = clean[i] /\ off + i \in 1..Len(h)
      BY <1>1, <2>1, <2>10
    <3>2. SUFFICES ASSUME clean[i].role = "assistant", clean[i].calls > 0
                   PROVE  i + 1 < Len(g) /\ g[i + 2] = [role |-> "tool", calls |-> clean[i].calls]
      <4>1. i + 1 + 1 = i + 2
        BY <1>1
      <4> QED BY <3>1, <4>1 DEF CallsMet
    <3>3. clean[i] = tail[i] /\ tail[i] = h[off + i]
      BY <2>2, <2>6, <3>2
    <3>4. off + i < Len(h) /\ h[off + i + 1] = [role |-> "tool", calls |-> clean[i].calls]
      BY <2>12, <3>1, <3>2, <3>3 DEF WellFormed, CallsMet
    <3>5. i < keep /\ i + 1 \in 1..keep
      BY <1>1, <2>1, <3>4
    <3>6. off + i + 1 = off + (i + 1) /\ i + 1 - 1 = i /\ i + 1 # 1
      BY <2>1, <3>5
    <3>7. tail[i + 1] = [role |-> "tool", calls |-> clean[i].calls]
      BY <2>2, <3>4, <3>5, <3>6
    <3>8. clean[i + 1] = tail[i + 1]
      <4>1. tail[(i + 1) - 1].role = "assistant"
        BY <3>2, <3>3, <3>6
      <4> QED BY <2>4, <3>5, <3>6, <4>1
    <3>9. g[i + 2] = clean[i + 1]
      <4>1. g[(i + 1) + 1] = clean[i + 1]
        BY <2>10, <3>5
      <4>2. (i + 1) + 1 = i + 2
        BY <1>1
      <4> QED BY <4>1, <4>2
    <3> QED BY <1>1, <2>10, <3>5, <3>7, <3>8, <3>9
  <2>13. ASSUME NEW i \in 1..keep, WellFormed(h) PROVE CalledFor(g, i + 1)
    <3>1. g[i + 1] = clean[i] /\ off + i \in 1..Len(h) /\ i + 1 - 1 = i /\ i + 1 > 1
      BY <1>1, <2>1, <2>10
    <3>2. SUFFICES ASSUME clean[i].role = "tool", clean[i].calls > 0
                   PROVE  g[i] = [role |-> "assistant", calls |-> clean[i].calls]
      BY <3>1 DEF CalledFor
    <3>3. clean[i] = tail[i] /\ tail[i] = h[off + i]
      BY <2>2, <2>6, <3>2
    <3>4. i # 1 /\ tail[i - 1].role = "assistant"
      <4>1. \/ ~(tail[i].role = "tool" /\ (i = 1 \/ tail[i - 1].role # "assistant"))
            \/ clean[i].calls = 0
        <5>1. CASE tail[i].role = "tool" /\ (i = 1 \/ tail[i - 1].role # "assistant")
          <6>1. clean[i] = [tail[i] EXCEPT !.calls = 0] /\ tail[i] \in Message
            BY <2>4, <2>5, <5>1
          <6> QED BY <6>1 DEF Message
        <5> QED BY <5>1
      <4> QED BY <3>2, <3>3, <4>1
    <3>5. i - 1 \in 1..keep /\ i - 1 + 1 = i /\ off + i - 1 = off + (i - 1)
      BY <1>1, <2>1, <3>4
    <3>6. h[off + i - 1] = [role |-> "assistant", calls |-> clean[i].calls]
      <4>1. CalledFor(h, off + i)
        BY <2>13, <3>1 DEF WellFormed
      <4>2. h[off + i].role = "tool" /\ h[off + i].calls > 0
        BY <3>2, <3>3
      <4>3. h[off + i - 1] = [role |-> "assistant", calls |-> h[off + i].calls]
        BY <1>1, <2>1, <3>1, <4>1, <4>2 DEF CalledFor
      <4>4. clean[i].calls = h[off + i].calls
        BY <3>3
      <4> QED BY <4>3, <4>4
    <3>7. clean[i - 1] = tail[i - 1] /\ tail[i - 1] = h[off + (i - 1)]
      BY <2>2, <2>4, <3>4, <3>5
    <3>8. g[i] = clean[i - 1]
      BY <2>10, <3>5
    <3> QED BY <3>5, <3>6, <3>7, <3>8
  <2>14. \A j \in 1..Len(g) : j = 1 \/ \E i \in 1..keep : j = i + 1
    <3> SUFFICES ASSUME NEW j \in 1..Len(g), j # 1 PROVE j - 1 \in 1..keep /\ j = (j - 1) + 1
      OBVIOUS
    <3> QED BY <1>1, <2>10
  <2>15. WellFormed(h) => WellFormed(g)
    BY <2>11, <2>12, <2>13, <2>14 DEF WellFormed
  <2>16. compactMessages(h) = g
    BY <1>1, <1>3, <2>1 DEF compactMessages, g, clean, tail
  <2> QED BY <2>10, <2>15, <2>16
<1> QED
  BY <1>1, <1>2, <1>3

--------------------------------------------------------------------------------
(* What the loop makes of a session *)

InTurn == {"calls", "ask", "tool", "sub"}

\* An end: a session that was cancelled has one that says so.
LEMMA Finishes ==
    ASSUME NEW s, Good(s), s.pc \in Turning, NEW outcome \in Outcomes,
           s.cancelled => outcome \notin Unheard
    PROVE  /\ Good(finished(s, outcome)) /\ finished(s, outcome).pc = "done"
           /\ finished(s, outcome).cancelled = s.cancelled
BY DEF Good, finished, Coherent, SessionRecords

LEMMA Stops ==
    ASSUME NEW s, Good(s), s.pc \in Turning
    PROVE  Good(stopped(s)) /\ stopped(s).pc = "done" /\ stopped(s).cancelled = s.cancelled
<1>1. (IF s.override = "none" THEN "CANCELLED" ELSE s.override) \in Outcomes \ Unheard
  BY DEF Good, SessionRecords, Outcomes, Unheard
<1> QED
  BY <1>1, Finishes DEF stopped

LEMMA TailTyped ==
    ASSUME NEW S, NEW q \in Seq(S), q # <<>>
    PROVE  Tail(q) \in Seq(S) /\ Len(q) \in Nat /\ Len(q) > 0 /\ Len(Tail(q)) = Len(q) - 1
OBVIOUS

\* A call that is answered leaves the rest of them to do.
LEMMA Answers ==
    ASSUME NEW s, Good(s), s.pc \in InTurn, s.calls # <<>>
    PROVE  /\ Good(answer(s)) /\ answer(s).pc = "calls" /\ answer(s).cancelled = s.cancelled
           /\ Good([answer(s) EXCEPT !.denials = s.denials + 1])
           /\ [answer(s) EXCEPT !.denials = s.denials + 1].pc = "calls"
           /\ [answer(s) EXCEPT !.denials = s.denials + 1].cancelled = s.cancelled
           /\ answer(s).denials = s.denials /\ s.denials \in Nat
<1>1. /\ s \in SessionRecords /\ s.calls \in Seq(STRING) /\ s.results \in Nat /\ s.asked \in Nat
      /\ s.outcome = "none" /\ s.denials \in Nat
      /\ Unanswered(s.history, s.asked) /\ s.asked = s.results + Len(s.calls)
  BY DEF Good, SessionRecords, Coherent, InTurn
<1>2. Tail(s.calls) \in Seq(STRING) /\ Len(s.calls) \in Nat /\ Len(Tail(s.calls)) = Len(s.calls) - 1
  BY <1>1, TailTyped
<1> DEFINE a == answer(s)
           b == [answer(s) EXCEPT !.denials = s.denials + 1]
<1>3. /\ a \in SessionRecords /\ a.pc = "calls" /\ a.cancelled = s.cancelled /\ a.outcome = "none"
      /\ a.calls = Tail(s.calls) /\ a.results = s.results + 1 /\ a.asked = s.asked /\ a.history = s.history
      /\ a.denials = s.denials
  <2>1. a = [s EXCEPT !.pc = "calls", !.calls = Tail(s.calls), !.results = s.results + 1]
    BY DEF answer
  <2>2. s.results + 1 \in Nat /\ "calls" \in Turning
    BY <1>1 DEF Turning
  <2> HIDE DEF a
  <2>3. a \in SessionRecords
    BY <1>1, <1>2, <2>1, <2>2 DEF SessionRecords
  <2>4. /\ a.pc = "calls" /\ a.cancelled = s.cancelled /\ a.outcome = "none"
        /\ a.calls = Tail(s.calls) /\ a.results = s.results + 1 /\ a.asked = s.asked /\ a.history = s.history
        /\ a.denials = s.denials
    BY <1>1, <2>1 DEF SessionRecords
  <2> QED BY <2>3, <2>4
<1>4. Good(a)
  <2> HIDE DEF a
  <2>1. a.asked = a.results + Len(a.calls)
    BY <1>1, <1>2, <1>3
  <2>2. Coherent(a)
    BY <1>1, <1>3, <2>1 DEF Coherent
  <2> QED BY <1>3, <2>2 DEF Good, Unheard
<1>5. /\ b \in SessionRecords /\ b.pc = "calls" /\ b.cancelled = s.cancelled /\ b.outcome = "none"
      /\ b.calls = a.calls /\ b.results = a.results /\ b.asked = a.asked /\ b.history = a.history
  <2>1. b = [a EXCEPT !.denials = s.denials + 1] /\ s.denials + 1 \in Nat
    BY <1>1
  <2> HIDE DEF a, b
  <2> QED BY <1>3, <2>1 DEF SessionRecords
<1>6. Good(b)
  <2> HIDE DEF a, b
  <2> QED BY <1>3, <1>4, <1>5 DEF Good, Coherent, Unheard
<1> QED
  BY <1>1, <1>3, <1>4, <1>5, <1>6

LEMMA Fresh ==
    /\ Good(Off) /\ Off.pc = "off" /\ ~Off.cancelled
    /\ Good(Launched) /\ Launched.pc = "top" /\ ~Launched.cancelled
<1> DEFINE empty == <<>>
<1>1. <<>> \in Seq(STRING) /\ <<>> \in Seq(Message) /\ <<User>> \in Seq(Message) /\ Len(<<User>>) = 1
      /\ <<User>>[1] = User
  BY DEF User, Message
<1>2. /\ Off \in SessionRecords /\ Off.pc = "off" /\ Off.outcome = "none" /\ Off.cancelled = FALSE
  BY <1>1 DEF Off, SessionRecords, Outcomes
<1>3. Launched = [Off EXCEPT !.pc = "top", !.history = <<User>>]
  BY DEF Launched
<1>4. /\ Launched \in SessionRecords /\ Launched.pc = "top" /\ Launched.outcome = "none"
      /\ Launched.cancelled = FALSE /\ Launched.history = <<User>>
  <2> HIDE DEF Off, User
  <2>1. "top" \in Turning
    BY DEF Turning
  <2> QED BY <1>1, <1>2, <1>3, <2>1 DEF SessionRecords
<1>5. WellFormed(<<User>>)
  BY <1>1 DEF WellFormed, CallsMet, CalledFor, User
<1> QED
  BY <1>2, <1>4, <1>5 DEF Good, Coherent

\* A step of the loop of one session: what it has to make of the session.
LEMMA StepKeeps ==
    ASSUME AgentInv, NEW d \in Depths, sessions[d].pc \in Turning,
           NEW s, Good(s), s.pc \in Turning \cup {"done"}, s.cancelled = sessions[d].cancelled,
           Step(d, s)
    PROVE  AgentInv'
<1> USE DEF Depths
<1>1. runner' = runner /\ aborted' = aborted
  BY DEF Step
<1>2. s \in SessionRecords
  BY DEF Good
<1>3. CASE d = 1 /\ s.pc = "done"
  <2>1. sessions' = [sessions EXCEPT ![1] = Off, ![0] = answer(sessions[0])]
    BY <1>3 DEF Step
  <2>2. sessions[0].pc = "sub"
    BY <1>3 DEF AgentInv, Turning
  <2>3. sessions[0].calls # <<>> /\ Good(sessions[0])
    BY <2>2 DEF AgentInv, Good, Coherent
  <2>4. /\ Good(answer(sessions[0])) /\ answer(sessions[0]).pc = "calls"
        /\ answer(sessions[0]).cancelled = sessions[0].cancelled
    BY <2>2, <2>3, Answers DEF InTurn
  <2>5. sessions'[1] = Off /\ sessions'[0] = answer(sessions[0])
        /\ sessions' = [e \in Depths |-> sessions'[e]]
    <3>1. DOMAIN sessions = Depths
      BY DEF AgentInv
    <3>2. sessions'[1] = Off /\ sessions'[0] = answer(sessions[0])
      BY <2>1, <3>1
    <3>3. sessions' = [e \in Depths |-> sessions'[e]]
      BY <2>1, <3>1
    <3> QED BY <3>2, <3>3
  <2>6. \A e \in Depths : Good(sessions'[e])
    BY <2>4, <2>5, Fresh
  <2>7. sessions' \in [Depths -> SessionRecords]
    BY <2>5, <2>6 DEF Good
  <2>8. runner.pc = "running"
    BY <2>2 DEF AgentInv
  <2> QED BY <1>1, <2>4, <2>5, <2>6, <2>7, <2>8, Fresh DEF AgentInv
<1>4. CASE ~(d = 1 /\ s.pc = "done")
  <2>1. sessions' = [sessions EXCEPT ![d] = s]
    BY <1>4 DEF Step
  <2>2. /\ sessions'[d] = s /\ \A e \in Depths : e # d => sessions'[e] = sessions[e]
        /\ sessions' = [e \in Depths |-> sessions'[e]]
    BY <2>1 DEF AgentInv
  <2>3. \A e \in Depths : Good(sessions'[e])
    BY <2>2 DEF AgentInv
  <2>4. sessions' \in [Depths -> SessionRecords]
    BY <2>2, <2>3 DEF Good
  <2>5. runner.pc = "running"
    <3>1. sessions[0].pc \notin {"off", "done"}
      <4>1. CASE d = 0
        BY <4>1 DEF Turning
      <4>2. CASE d = 1
        BY <4>2 DEF AgentInv, Turning
      <4> QED BY <4>1, <4>2
    <3> QED BY <3>1 DEF AgentInv
  <2>6. sessions'[1].pc # "done" /\ ~sessions'[1].cancelled
    BY <1>4, <2>2 DEF AgentInv
  <2>7. sessions'[0].pc = "sub" <=> sessions'[1].pc # "off"
    BY <1>4, <2>2 DEF AgentInv, Turning
  <2> QED BY <1>1, <2>3, <2>4, <2>5, <2>6, <2>7 DEF AgentInv
<1> QED
  BY <1>3, <1>4

\* A call of the model, whatever comes of it.
LEMMA ModelCallStays ==
    ASSUME AgentAssumption, AgentInv, NEW d \in Depths,
           BeginTurn(d) \/ InvocationFails(d) \/ Retry(d) \/ EndTurn(d) \/ Compact(d)
    PROVE  AgentInv'
<1> DEFINE s == sessions[d]
<1>1. s \in SessionRecords /\ Good(s)
  BY DEF AgentInv
<1>2. s.pc \in Turning /\ s.outcome = "none"
  <2>1. s.pc \in Turning
    BY DEF BeginTurn, InvocationFails, Retry, EndTurn, Compact, Session, Turning
  <2> QED BY <1>1, <2>1 DEF Good, Turning
<1>3. Good(stopped(s)) /\ stopped(s).pc = "done" /\ stopped(s).cancelled = s.cancelled
  BY <1>1, <1>2, Stops
<1>4. CASE BeginTurn(d)
  <2>1. s.pc = "top"
    BY <1>4 DEF BeginTurn, Session
  <2>2. CASE signalled(s) /\ Step(d, stopped(s))
    BY <1>2, <1>3, <2>2, StepKeeps
  <2>3. CASE ~signalled(s) /\ Step(d, finished(s, "BUDGET_EXHAUSTED"))
    <3>1. "BUDGET_EXHAUSTED" \in Outcomes /\ "BUDGET_EXHAUSTED" \notin Unheard
      BY DEF Outcomes, Unheard
    <3>2. /\ Good(finished(s, "BUDGET_EXHAUSTED")) /\ finished(s, "BUDGET_EXHAUSTED").pc = "done"
          /\ finished(s, "BUDGET_EXHAUSTED").cancelled = s.cancelled
      BY <1>1, <1>2, <3>1, Finishes
    <3> QED BY <1>2, <2>3, <3>2, StepKeeps
  <2>4. CASE ~signalled(s) /\ Step(d, [s EXCEPT !.pc = "invoke", !.turn = s.turn + 1, !.attempt = 1])
    <3> DEFINE r == [s EXCEPT !.pc = "invoke", !.turn = s.turn + 1, !.attempt = 1]
    <3>1. s.turn + 1 \in Nat /\ "invoke" \in Turning
      BY <1>1 DEF SessionRecords, Turning
    <3>2. r \in SessionRecords
      BY <1>1, <3>1 DEF SessionRecords
    <3>3. r.pc = "invoke" /\ r.history = s.history /\ r.outcome = "none" /\ r.cancelled = s.cancelled
      BY <1>1, <1>2 DEF SessionRecords
    <3> HIDE DEF r
    <3>4. WellFormed(s.history)
      BY <1>1, <2>1, <2>4 DEF Good, Coherent
    <3>5. Good(r)
      BY <3>2, <3>3, <3>4 DEF Good, Coherent, Unheard
    <3> QED BY <1>2, <2>4, <3>1, <3>3, <3>5, StepKeeps DEF r
  <2> QED BY <1>4, <2>2, <2>3, <2>4 DEF BeginTurn, Session
<1>5. CASE InvocationFails(d)
  <2>1. s.pc = "invoke"
    BY <1>5 DEF InvocationFails, Session
  <2>2. CASE signalled(s) /\ Step(d, stopped(s))
    BY <1>2, <1>3, <2>2, StepKeeps
  <2>3. CASE ~signalled(s) /\ Step(d, finished(s, "FATAL_FAILURE"))
    <3>1. "FATAL_FAILURE" \in Outcomes /\ ~s.cancelled
      BY <2>3 DEF Outcomes, signalled
    <3>2. /\ Good(finished(s, "FATAL_FAILURE")) /\ finished(s, "FATAL_FAILURE").pc = "done"
          /\ finished(s, "FATAL_FAILURE").cancelled = s.cancelled
      BY <1>1, <1>2, <3>1, Finishes
    <3> QED BY <1>2, <2>3, <3>2, StepKeeps
  <2>4. CASE Step(d, [s EXCEPT !.pc = "sleep"])
    <3> DEFINE r == [s EXCEPT !.pc = "sleep"]
    <3>1. "sleep" \in Turning
      BY DEF Turning
    <3>2. r \in SessionRecords /\ r.pc = "sleep" /\ r.history = s.history /\ r.outcome = "none"
          /\ r.cancelled = s.cancelled
      BY <1>1, <1>2, <3>1 DEF SessionRecords
    <3> HIDE DEF r
    <3>3. Good(r)
      BY <1>1, <2>1, <3>2 DEF Good, Coherent, Unheard
    <3> QED BY <1>2, <2>4, <3>1, <3>2, <3>3, StepKeeps DEF r
  <2> QED BY <1>5, <2>2, <2>3, <2>4 DEF InvocationFails, Session
<1>6. CASE Retry(d)
  <2>1. s.pc = "sleep"
    BY <1>6 DEF Retry, Session
  <2>2. CASE signalled(s) /\ Step(d, stopped(s))
    BY <1>2, <1>3, <2>2, StepKeeps
  <2>3. CASE Step(d, [s EXCEPT !.pc = "invoke", !.attempt = s.attempt + 1])
    <3> DEFINE r == [s EXCEPT !.pc = "invoke", !.attempt = s.attempt + 1]
    <3>1. "invoke" \in Turning /\ s.attempt + 1 \in Nat
      BY <1>1 DEF Turning, SessionRecords
    <3>2. r \in SessionRecords
      BY <1>1, <3>1 DEF SessionRecords
    <3>3. r.pc = "invoke" /\ r.history = s.history /\ r.outcome = "none" /\ r.cancelled = s.cancelled
      BY <1>1, <1>2 DEF SessionRecords
    <3> HIDE DEF r
    <3>4. Good(r)
      BY <1>1, <2>1, <3>2, <3>3 DEF Good, Coherent, Unheard
    <3> QED BY <1>2, <2>3, <3>1, <3>3, <3>4, StepKeeps DEF r
  <2> QED BY <1>6, <2>2, <2>3 DEF Retry, Session
<1>7. CASE EndTurn(d)
  <2> DEFINE m == [role |-> "tool", calls |-> s.results]
             r == [s EXCEPT !.pc = "compact", !.calls = <<>>, !.asked = 0, !.history = Append(s.history, m)]
  <2>1. s.pc = "calls" /\ (s.calls = <<>> \/ signalled(s)) /\ Step(d, r)
    BY <1>7 DEF EndTurn, Session
  <2>2. /\ Unanswered(s.history, s.asked) /\ s.asked = s.results + Len(s.calls)
        /\ s.history \in Seq(Message) /\ s.results \in Nat
    BY <1>1, <2>1 DEF Good, Coherent, SessionRecords
  <2>3. m \in Message /\ Append(s.history, m) \in Seq(Message)
    <3>1. m \in Message
      BY <2>2 DEF Message
    <3> QED BY <2>2, <3>1
  <2> HIDE DEF m
  <2>4. "compact" \in Turning /\ <<>> \in Seq(STRING) /\ 0 \in Nat
    BY DEF Turning
  <2>5. r \in SessionRecords
    BY <1>1, <2>3, <2>4 DEF SessionRecords
  <2>6. /\ r.pc = "compact" /\ r.history = Append(s.history, m) /\ r.outcome = "none"
        /\ r.cancelled = s.cancelled /\ r.timedOut = s.timedOut
    BY <1>1, <1>2 DEF SessionRecords
  <2>7. ~signalled(s) => WellFormed(Append(s.history, m))
    <3>1. s.calls = <<>> => s.results = s.asked
      BY <2>2
    <3>2. WellFormed(Append(s.history, [role |-> "tool", calls |-> s.asked]))
      <4>1. s.asked \in Nat
        BY <1>1 DEF SessionRecords
      <4> QED BY <2>2, <4>1, AnswersAdded
    <3> QED BY <2>1, <3>1, <3>2 DEF m
  <2> HIDE DEF r
  <2>8. signalled(r) <=> signalled(s)
    BY <2>6 DEF signalled
  <2>9. Good(r)
    BY <2>5, <2>6, <2>7, <2>8 DEF Good, Coherent, Unheard
  <2> QED BY <1>2, <2>1, <2>4, <2>6, <2>9, StepKeeps DEF r
<1>8. CASE Compact(d)
  <2>1. s.pc = "compact" /\ s.history \in Seq(Message)
    BY <1>1, <1>8 DEF Compact, Session, SessionRecords
  <2>2. PICK history \in {s.history, compactMessages(s.history)} :
          Step(d, [s EXCEPT !.pc = "top", !.history = history])
    BY <1>8 DEF Compact, Session
  <2>3. history \in Seq(Message)
    BY <2>1, <2>2, CompactionKeeps
  <2>4. AgentInv'
    <3> DEFINE r == [s EXCEPT !.pc = "top", !.history = history]
    <3>1. "top" \in Turning
      BY DEF Turning
    <3>2. r \in SessionRecords
      BY <1>1, <2>3, <3>1 DEF SessionRecords
    <3>3. r.pc = "top" /\ r.history = history /\ r.outcome = "none" /\ r.cancelled = s.cancelled
          /\ r.timedOut = s.timedOut
      BY <1>1, <1>2 DEF SessionRecords
    <3> HIDE DEF r
    <3>4. ~signalled(s) => WellFormed(history)
      <4>1. ~signalled(s) => WellFormed(s.history)
        BY <1>1, <2>1 DEF Good, Coherent
      <4> QED BY <2>1, <2>2, <4>1, CompactionKeeps
    <3>5. signalled(r) <=> signalled(s)
      BY <3>3 DEF signalled
    <3>6. Good(r)
      BY <3>2, <3>3, <3>4, <3>5 DEF Good, Coherent, Unheard
    <3> QED BY <1>2, <2>2, <3>1, <3>3, <3>6, StepKeeps DEF r
  <2> QED BY <2>4
<1> QED
  BY <1>4, <1>5, <1>6, <1>7, <1>8

\* What the model responds with.
LEMMA RespondStays ==
    ASSUME AgentAssumption, AgentInv, NEW d \in Depths, Respond(d)
    PROVE  AgentInv'
<1> DEFINE s == sessions[d]
           used == [s EXCEPT !.tokens = s.tokens + 1]
<1>1. s \in SessionRecords /\ Good(s) /\ s.pc = "invoke" /\ s.pc \in Turning
  BY DEF AgentInv, Respond, Session, Turning
<1>2. /\ used \in SessionRecords /\ used.pc = "invoke" /\ used.history = s.history /\ used.outcome = "none"
      /\ used.cancelled = s.cancelled
  <2>1. s.tokens + 1 \in Nat /\ s.outcome = "none"
    BY <1>1 DEF SessionRecords, Good
  <2> QED BY <1>1, <2>1 DEF SessionRecords
<1>3. PICK calls \in Responses :
        Step(d, IF used.tokens >= maxTokens THEN finished(used, "BUDGET_EXHAUSTED")
                ELSE IF calls = <<>> THEN afterText(used) ELSE afterCalls(used, calls))
  BY DEF Respond, Session
<1> HIDE DEF used
<1>4. Good(used) /\ used.pc \in Turning /\ WellFormed(used.history) /\ used.history \in Seq(Message)
  BY <1>1, <1>2 DEF Good, Coherent, SessionRecords, Unheard
<1>5. \A outcome \in Outcomes \ Unheard :
        /\ Good(finished(used, outcome)) /\ finished(used, outcome).pc = "done"
        /\ finished(used, outcome).cancelled = s.cancelled
  BY <1>2, <1>4, Finishes
<1>6. "BUDGET_EXHAUSTED" \in Outcomes \ Unheard /\ "GOAL_BLOCKED" \in Outcomes \ Unheard
  BY DEF Outcomes, Unheard
<1>7. CASE Step(d, finished(used, "BUDGET_EXHAUSTED"))
  BY <1>1, <1>5, <1>6, <1>7, StepKeeps
<1>8. CASE Step(d, afterText(used))
  <2>1. CASE Step(d, finished(used, "GOAL_BLOCKED"))
    BY <1>1, <1>5, <1>6, <2>1, StepKeeps
  <2> DEFINE m == [role |-> "assistant", calls |-> 0]
             h == used.history \o <<m, User>>
             r == [used EXCEPT !.pc = "top", !.textOnly = used.textOnly + 1, !.history = h]
  <2>2. CASE Step(d, r)
    <3>1. m \in Message /\ m.calls = 0 /\ User \in Message /\ User.calls = 0
      BY DEF Message, User
    <3> HIDE DEF m
    <3>2. h = Append(Append(used.history, m), User)
      <4> HIDE DEF User
      <4> QED BY <1>4, <3>1
    <3>3. h \in Seq(Message) /\ WellFormed(h)
      BY <1>4, <3>1, <3>2, PlainAdded
    <3> HIDE DEF h
    <3>4. used.textOnly + 1 \in Nat /\ "top" \in Turning
      BY <1>2 DEF SessionRecords, Turning
    <3>5. r \in SessionRecords
      BY <1>2, <3>3, <3>4 DEF SessionRecords
    <3>6. r.pc = "top" /\ r.history = h /\ r.outcome = "none" /\ r.cancelled = s.cancelled
      BY <1>2 DEF SessionRecords
    <3> HIDE DEF r
    <3>7. Good(r)
      BY <3>3, <3>5, <3>6 DEF Good, Coherent, Unheard
    <3> QED BY <1>1, <2>2, <3>4, <3>6, <3>7, StepKeeps
  <2> QED BY <1>8, <2>1, <2>2 DEF afterText
<1>9. CASE calls # <<>> /\ Step(d, afterCalls(used, calls))
  <2> DEFINE n == Len(calls)
             m == [role |-> "assistant", calls |-> n]
             h == Append(used.history, m)
             r == [used EXCEPT !.pc = "calls", !.textOnly = 0, !.calls = calls, !.asked = n,
                               !.results = 0, !.history = h]
  <2>1. calls \in Seq(STRING) /\ n \in Nat
    BY DEF AgentAssumption
  <2>2. h \in Seq(Message) /\ Unanswered(h, n)
    BY <1>4, <2>1, CallsAdded
  <2>3. Step(d, r)
    BY <1>9 DEF afterCalls
  <2> HIDE DEF h, n
  <2>4. "calls" \in Turning /\ 0 \in Nat
    BY DEF Turning
  <2>5. r \in SessionRecords
    BY <1>2, <2>1, <2>2, <2>4 DEF SessionRecords
  <2>6. r.pc = "calls" /\ r.history = h /\ r.asked = n
    BY <1>2 DEF SessionRecords
  <2>7. r.results = 0 /\ r.calls = calls /\ r.outcome = "none" /\ r.cancelled = s.cancelled
    BY <1>2 DEF SessionRecords
  <2> HIDE DEF r
  <2>8. r.asked = r.results + Len(r.calls)
    BY <2>1, <2>6, <2>7 DEF n
  <2>9. Good(r)
    BY <2>2, <2>5, <2>6, <2>7, <2>8 DEF Good, Coherent, Unheard
  <2> QED BY <1>1, <2>3, <2>4, <2>6, <2>7, <2>9, StepKeeps
<1> QED
  BY <1>3, <1>7, <1>8, <1>9

\* The calls of a turn: the loop looks at the signal before each.
LEMMA CallStays ==
    ASSUME AgentAssumption, AgentInv, NEW d \in Depths,
           \/ CompleteGoal(d) \/ RequestHumanInput(d) \/ UnknownTool(d)
           \/ CheckTool(d) \/ ResolveApproval(d) \/ executeTool(d)
    PROVE  AgentInv'
<1> DEFINE s == sessions[d]
           denied == [answer(s) EXCEPT !.denials = answer(s).denials + 1]
<1>1. s \in SessionRecords /\ Good(s)
  BY DEF AgentInv
<1>2. s.pc \in {"calls", "ask", "tool"} /\ s.calls # <<>> /\ s.pc \in Turning
  <2>1. s.pc \in {"calls", "ask", "tool"} /\ (s.pc = "calls" => s.calls # <<>>)
    BY DEF CompleteGoal, RequestHumanInput, UnknownTool, CheckTool, ResolveApproval, executeTool,
           Calling, Session
  <2> QED BY <1>1, <2>1 DEF Good, Coherent, Turning
<1>3. /\ Good(answer(s)) /\ answer(s).pc = "calls" /\ answer(s).cancelled = s.cancelled
      /\ Good(denied) /\ denied.pc = "calls" /\ denied.cancelled = s.cancelled
  BY <1>1, <1>2, Answers DEF InTurn
<1>4. "calls" \in Turning /\ "tool" \in Turning /\ "ask" \in Turning
  BY DEF Turning
<1>5. CASE Step(d, answer(s))
  BY <1>2, <1>3, <1>4, <1>5, StepKeeps
<1>6. ASSUME NEW pc \in {"ask", "tool"}, Step(d, [s EXCEPT !.pc = pc]) PROVE AgentInv'
  <2> DEFINE r == [s EXCEPT !.pc = pc]
  <2>1. /\ r \in SessionRecords /\ r.pc = pc /\ r.outcome = s.outcome /\ r.cancelled = s.cancelled
        /\ r.history = s.history /\ r.asked = s.asked /\ r.results = s.results /\ r.calls = s.calls
    BY <1>1, <1>4 DEF SessionRecords
  <2> HIDE DEF r
  <2>2. Good(r)
    BY <1>1, <1>2, <2>1 DEF Good, Coherent
  <2> QED BY <1>2, <1>4, <1>6, <2>1, <2>2, StepKeeps DEF r
<1>7. CASE Step(d, finished(denied, "POLICY_BLOCKED"))
  <2>1. "POLICY_BLOCKED" \in Outcomes /\ "POLICY_BLOCKED" \notin Unheard
    BY DEF Outcomes, Unheard
  <2> HIDE DEF denied
  <2>2. /\ Good(finished(denied, "POLICY_BLOCKED")) /\ finished(denied, "POLICY_BLOCKED").pc = "done"
        /\ finished(denied, "POLICY_BLOCKED").cancelled = s.cancelled
    BY <1>3, <1>4, <2>1, Finishes
  <2> QED BY <1>2, <1>7, <2>2, StepKeeps
<1>8. CASE Step(d, denied)
  <2> HIDE DEF denied
  <2> QED BY <1>2, <1>3, <1>4, <1>8, StepKeeps
<1>9. CASE CompleteGoal(d) \/ RequestHumanInput(d)
  <2>1. ~s.cancelled
    BY <1>9 DEF CompleteGoal, RequestHumanInput, Calling, signalled
  <2>2. \A outcome \in Outcomes :
          /\ Good(finished(s, outcome)) /\ finished(s, outcome).pc = "done"
          /\ finished(s, outcome).cancelled = s.cancelled
    BY <1>1, <1>2, <2>1, Finishes
  <2>3. \E outcome \in Outcomes : Step(d, finished(s, outcome))
    BY <1>9 DEF CompleteGoal, RequestHumanInput, Session, Outcomes
  <2> QED BY <1>2, <2>2, <2>3, StepKeeps
<1>10. CASE UnknownTool(d) \/ executeTool(d)
  BY <1>5, <1>10 DEF UnknownTool, executeTool, Session
<1>11. CASE CheckTool(d)
  BY <1>5, <1>6, <1>7, <1>8, <1>11 DEF CheckTool, Session
<1>12. CASE ResolveApproval(d)
  BY <1>6, <1>7, <1>8, <1>12 DEF ResolveApproval, Session
<1> QED
  BY <1>9, <1>10, <1>11, <1>12

\* A sub-agent is launched with a history of its own; the call waits for it.
LEMMA RunSubagentStays ==
    ASSUME AgentAssumption, AgentInv, NEW d \in Depths, RunSubagent(d)
    PROVE  AgentInv'
<1> USE DEF Depths
<1> DEFINE s == sessions[d]
<1>1. s \in SessionRecords /\ Good(s) /\ s.pc = "calls" /\ s.calls # <<>> /\ s.pc \in Turning
  BY DEF AgentInv, RunSubagent, Calling, Turning
<1>2. CASE Step(d, answer(s))
  <2>1. Good(answer(s)) /\ answer(s).pc = "calls" /\ answer(s).cancelled = s.cancelled
    BY <1>1, Answers DEF InTurn
  <2> QED BY <1>1, <1>2, <2>1, StepKeeps DEF Turning
<1>3. CASE /\ d = 0 /\ runner' = runner
           /\ sessions' = [sessions EXCEPT ![0].pc = "sub", ![0].subs = sessions[0].subs + 1, ![1] = Launched]
  <2> DEFINE r == [s EXCEPT !.pc = "sub", !.subs = s.subs + 1]
  <2>1. DOMAIN sessions = Depths
    BY DEF AgentInv
  <2>2. sessions'[1] = Launched /\ sessions'[0] = r
    BY <1>3, <2>1
  <2>3. sessions' = [e \in Depths |-> sessions'[e]]
    BY <1>3, <2>1
  <2>4. s.subs + 1 \in Nat
    BY <1>1 DEF SessionRecords
  <2>5. r \in SessionRecords
    BY <1>1, <2>4 DEF SessionRecords
  <2>6. /\ r.pc = "sub" /\ r.outcome = s.outcome /\ r.cancelled = s.cancelled
        /\ r.history = s.history /\ r.asked = s.asked /\ r.results = s.results /\ r.calls = s.calls
    BY <1>1 DEF SessionRecords
  <2> HIDE DEF r
  <2>7. Good(r)
    BY <1>1, <2>5, <2>6 DEF Good, Coherent
  <2>8. runner.pc = "running"
    BY <1>1, <1>3 DEF AgentInv
  <2>9. \A e \in Depths : Good(sessions'[e])
    BY <2>2, <2>7, Fresh
  <2>10. sessions' \in [Depths -> SessionRecords]
    BY <2>3, <2>9 DEF Good
  <2> QED BY <1>3, <2>2, <2>6, <2>8, <2>9, <2>10, Fresh DEF AgentInv
<1> QED
  BY <1>2, <1>3 DEF RunSubagent, subagentAllowed, Session

--------------------------------------------------------------------------------
(* The signals and the runner *)

\* A session that is told to stop keeps what it has; it will not call the model again.
LEMMA SignalStays ==
    ASSUME AgentAssumption, AgentInv,
           (\E d \in Depths : Timeout(d)) \/ CancelRun
    PROVE  AgentInv'
<1> USE DEF Depths
<1>1. sessions \in [Depths -> SessionRecords] /\ \A d \in Depths : Good(sessions[d])
  BY DEF AgentInv
<1>2. ASSUME NEW d \in Depths, Timeout(d) PROVE AgentInv'
  <2> DEFINE s == sessions[d]
             r == [s EXCEPT !.timedOut = TRUE, !.override = "BUDGET_EXHAUSTED"]
  <2>1. s \in SessionRecords /\ Good(s) /\ s.pc \notin {"off", "done"} /\ runner' = runner
    BY <1>1, <1>2 DEF Timeout, running
  <2>2. /\ sessions'[d] = r /\ \A e \in Depths : e # d => sessions'[e] = sessions[e]
    BY <1>1, <1>2 DEF Timeout
  <2>3. sessions' = [e \in Depths |-> sessions'[e]]
    BY <1>1, <1>2 DEF Timeout
  <2>4. r \in SessionRecords
    BY <2>1 DEF SessionRecords
  <2>5. /\ r.pc = s.pc /\ r.outcome = s.outcome /\ r.cancelled = s.cancelled /\ r.timedOut
        /\ r.history = s.history /\ r.asked = s.asked /\ r.results = s.results /\ r.calls = s.calls
    BY <2>1 DEF SessionRecords
  <2> HIDE DEF r
  <2>6. Good(r)
    BY <2>1, <2>4, <2>5 DEF Good, Coherent, signalled
  <2>7. \A e \in Depths : Good(sessions'[e]) /\ sessions'[e].pc = sessions[e].pc
                          /\ sessions'[e].cancelled = sessions[e].cancelled
    BY <1>1, <2>2, <2>5, <2>6
  <2>8. sessions' \in [Depths -> SessionRecords]
    BY <2>3, <2>7 DEF Good
  <2> QED BY <2>1, <2>7, <2>8 DEF AgentInv
<1>3. CASE CancelRun /\ ~(runner.pc = "running" /\ running(0))
  BY <1>3 DEF CancelRun, AgentInv
<1>4. CASE CancelRun /\ runner.pc = "running" /\ running(0)
  <2> DEFINE s == sessions[0]
             r == [s EXCEPT !.cancelled = TRUE, !.override = "CANCELLED"]
  <2>1. s \in SessionRecords /\ Good(s) /\ s.pc \notin {"off", "done"} /\ runner' = runner
    BY <1>1, <1>4 DEF CancelRun, running
  <2>2. sessions'[0] = r /\ sessions'[1] = sessions[1]
    BY <1>1, <1>4 DEF CancelRun
  <2>3. sessions' = [e \in Depths |-> sessions'[e]]
    BY <1>1, <1>4 DEF CancelRun
  <2>4. r \in SessionRecords
    BY <2>1 DEF SessionRecords
  <2>5. /\ r.pc = s.pc /\ r.outcome = s.outcome /\ r.cancelled
        /\ r.history = s.history /\ r.asked = s.asked /\ r.results = s.results /\ r.calls = s.calls
    BY <2>1 DEF SessionRecords
  <2> HIDE DEF r
  <2>6. Good(r)
    BY <2>1, <2>4, <2>5 DEF Good, Coherent, signalled, Unheard
  <2>7. \A e \in Depths : Good(sessions'[e])
    BY <1>1, <2>2, <2>6
  <2>8. sessions' \in [Depths -> SessionRecords]
    BY <2>3, <2>7 DEF Good
  <2> QED BY <1>4, <2>1, <2>2, <2>5, <2>7, <2>8 DEF AgentInv
<1> QED
  BY <1>2, <1>3, <1>4

LEMMA RunnerMoves ==
    ASSUME runner \in RunnerRecords
    PROVE  /\ next \in RunnerRecords /\ next.pc = "choose"
           /\ \A outcome \in Outcomes \cup {"error"} :
                returned(outcome) \in RunnerRecords /\ returned(outcome).pc = "returned"
           /\ [runner EXCEPT !.pc = "running"] \in RunnerRecords
           /\ [runner EXCEPT !.pc = "running"].pc = "running"
           /\ [runner EXCEPT !.pc = "starting", !.tried = @ \cup {runner.k}] \in RunnerRecords
           /\ [runner EXCEPT !.pc = "starting", !.tried = @ \cup {runner.k}].pc = "starting"
<1>1. next \in RunnerRecords /\ next.pc = "choose"
  <2>1. runner.k + 1 \in Nat
    BY DEF RunnerRecords
  <2>2. next = [runner EXCEPT !.pc = "choose", !.k = runner.k + 1]
    BY DEF next
  <2>3. next.pc = "choose"
    BY <2>2 DEF RunnerRecords
  <2>4. next \in RunnerRecords
    BY <2>1, <2>2 DEF RunnerRecords
  <2> QED BY <2>3, <2>4
<1>2. ASSUME NEW outcome \in Outcomes \cup {"error"}
      PROVE  returned(outcome) \in RunnerRecords /\ returned(outcome).pc = "returned"
  BY DEF returned, RunnerRecords
<1>3. /\ [runner EXCEPT !.pc = "running"] \in RunnerRecords
      /\ [runner EXCEPT !.pc = "running"].pc = "running"
  BY DEF RunnerRecords
<1>4. /\ [runner EXCEPT !.pc = "starting", !.tried = @ \cup {runner.k}] \in RunnerRecords
      /\ [runner EXCEPT !.pc = "starting", !.tried = @ \cup {runner.k}].pc = "starting"
  BY DEF RunnerRecords
<1> QED
  BY <1>1, <1>2, <1>3, <1>4

\* The runner leaves a session alone until it has ended, and goes on only from one that
\* failed: a session that was cancelled does not end so.
LEMMA RunnerStays ==
    ASSUME AgentAssumption, AgentInv, Runner
    PROVE  AgentInv'
<1> USE DEF Depths
<1>1. /\ sessions \in [Depths -> SessionRecords] /\ \A d \in Depths : Good(sessions[d])
      /\ runner \in RunnerRecords
  BY DEF AgentInv
<1>2. CASE Choose \/ StartFails
  <2>1. sessions' = sessions /\ runner.pc \in {"choose", "starting"}
    BY <1>2 DEF Choose, StartFails
  <2>2. sessions[0].pc \in {"off", "done"} /\ ~sessions[0].cancelled
    BY <2>1 DEF AgentInv
  <2>3. "error" \in Outcomes \cup {"error"}
    OBVIOUS
  <2>4. runner' \in RunnerRecords
    BY <1>1, <1>2, <2>3, RunnerMoves DEF Choose, StartFails
  <2> QED BY <2>1, <2>2, <2>4 DEF AgentInv
<1>3. CASE Started
  <2>1. /\ sessions' = [sessions EXCEPT ![0] = Launched] /\ runner.pc = "starting"
        /\ runner' = [runner EXCEPT !.pc = "running"]
    BY <1>3 DEF Started
  <2>2. runner' \in RunnerRecords /\ runner'.pc = "running"
    BY <1>1, <2>1, RunnerMoves
  <2>3. sessions[1].pc = "off"
    BY <2>1 DEF AgentInv
  <2>4. /\ sessions'[0] = Launched /\ sessions'[1] = sessions[1]
        /\ sessions' = [e \in Depths |-> sessions'[e]]
    <3>1. DOMAIN sessions = Depths
      BY <1>1
    <3>2. sessions'[0] = Launched /\ sessions'[1] = sessions[1]
      BY <2>1, <3>1
    <3>3. sessions' = [e \in Depths |-> sessions'[e]]
      BY <2>1, <3>1
    <3> QED BY <3>2, <3>3
  <2>5. \A d \in Depths : Good(sessions'[d])
    BY <1>1, <2>4, Fresh
  <2>6. sessions' \in [Depths -> SessionRecords]
    BY <2>4, <2>5 DEF Good
  <2> QED BY <2>2, <2>3, <2>4, <2>5, <2>6, Fresh DEF AgentInv
<1>4. CASE Returns
  <2>1. runner.pc = "running" /\ sessions[0].pc = "done" /\ sessions[1].pc = "off"
    BY <1>4 DEF Returns, AgentInv
  <2>2. sessions[0].outcome \in Outcomes \cup {"error"}
    BY <1>1 DEF SessionRecords
  <2>3. CASE runner' = next /\ sessions[0].outcome = "FATAL_FAILURE"
    <3>1. runner' \in RunnerRecords /\ runner'.pc = "choose"
      BY <1>1, <2>3, RunnerMoves
    <3>2. /\ sessions'[0] = Off /\ sessions'[1] = sessions[1]
          /\ sessions' = [e \in Depths |-> sessions'[e]]
      <4>1. sessions' = [sessions EXCEPT ![0] = Off] /\ DOMAIN sessions = Depths
        BY <1>1, <1>4, <3>1 DEF Returns
      <4>2. sessions'[0] = Off /\ sessions'[1] = sessions[1]
        BY <4>1
      <4>3. sessions' = [e \in Depths |-> sessions'[e]]
        BY <4>1
      <4> QED BY <4>2, <4>3
    <3>3. \A d \in Depths : Good(sessions'[d])
      BY <1>1, <3>2, Fresh
    <3>4. sessions' \in [Depths -> SessionRecords]
      BY <3>2, <3>3 DEF Good
    <3> QED BY <2>1, <3>1, <3>2, <3>3, <3>4, Fresh DEF AgentInv
  <2>4. CASE runner' = returned(sessions[0].outcome)
    <3>1. runner' \in RunnerRecords /\ runner'.pc = "returned"
      BY <1>1, <2>2, <2>4, RunnerMoves
    <3>2. sessions' = sessions
      <4>1. sessions' = [sessions EXCEPT ![0] = sessions[0]]
        BY <1>4, <3>1 DEF Returns
      <4> QED BY <1>1, <4>1
    <3> QED BY <2>1, <3>1, <3>2 DEF AgentInv
  <2> QED BY <1>4, <2>3, <2>4 DEF Returns
<1> QED
  BY <1>2, <1>3, <1>4 DEF Runner

--------------------------------------------------------------------------------
(* The invariant *)

LEMMA AgentAtFirst ==
    ASSUME AgentInit
    PROVE  AgentInv
<1>1. sessions = [d \in Depths |-> Off] /\ runner = [pc |-> "choose", k |-> 1, result |-> "none", tried |-> {}]
  BY DEF AgentInit
<1>2. runner \in RunnerRecords /\ runner.pc = "choose"
  BY <1>1 DEF RunnerRecords, Outcomes
<1>3. \A d \in Depths : sessions[d] = Off
  BY <1>1
<1>4. sessions \in [Depths -> SessionRecords]
  BY <1>1, Fresh DEF Good
<1> QED
  BY <1>2, <1>3, <1>4, Fresh DEF AgentInv, Depths

LEMMA AgentStays ==
    ASSUME AgentAssumption, AgentInv, [AgentNext]_agentVars
    PROVE  AgentInv'
<1>1. CASE UNCHANGED agentVars
  BY <1>1 DEF agentVars, AgentInv
<1>2. ASSUME NEW d \in Depths, AgentLoop(d) PROVE AgentInv'
  BY <1>2, ModelCallStays, RespondStays, CallStays, RunSubagentStays DEF AgentLoop
<1>3. CASE (\E d \in Depths : Timeout(d)) \/ CancelRun
  BY <1>3, SignalStays
<1>4. CASE Runner
  BY <1>4, RunnerStays
<1> QED
  BY <1>1, <1>2, <1>3, <1>4 DEF AgentNext

LEMMA AgentInvAlways ==
    ASSUME AgentAssumption
    PROVE  AgentSpec => []AgentInv
BY AgentAtFirst, AgentStays, PTL DEF AgentSpec

\* loop.ts sends the model a history in which every call has its answer and every answer
\* its call: after errors, denials, limits, sub-agents and compactions, whatever the model
\* responds with.
THEOREM HistoriesAreWellFormed ==
    ASSUME AgentAssumption
    PROVE  AgentSpec => []HistoryWellFormed
<1>1. AgentInv => HistoryWellFormed
  <2> SUFFICES ASSUME AgentInv PROVE HistoryWellFormed
    OBVIOUS
  <2> SUFFICES ASSUME NEW d \in Depths, sessions[d].pc = "invoke",
                      NEW i \in DOMAIN sessions[d].history
               PROVE  CallsMet(sessions[d].history, i) /\ CalledFor(sessions[d].history, i)
    BY DEF HistoryWellFormed, CallsMet, CalledFor
  <2>1. WellFormed(sessions[d].history)
    BY DEF AgentInv, Good, Coherent
  <2>2. sessions[d].history \in Seq(Message)
    BY DEF AgentInv, SessionRecords
  <2>3. i \in 1..Len(sessions[d].history)
    BY <2>2
  <2> QED BY <2>1, <2>3 DEF WellFormed
<1> QED
  BY <1>1, AgentInvAlways, PTL

\* A cancel that a session heard decides how it ends: not with its goal, not with a
\* question, and its runner does not turn to another executor.
THEOREM CancelsAreHeard ==
    ASSUME AgentAssumption
    PROVE  AgentSpec => []CancelHeard
<1>1. AgentInv => CancelHeard
  BY DEF AgentInv, Good, Unheard, CancelHeard
<1> QED
  BY <1>1, AgentInvAlways, PTL

--------------------------------------------------------------------------------
(***** The gates of a node ****************************************************)

\* The gates of a node are a sequence.
GatesAssumption ==
    \A gates \in GateSets : Len(gates) \in Nat /\ DOMAIN gates = 1..Len(gates)

Inputs == {"none", "value", "approved", "rejected"}
NodeRecords ==
    [kind : Kinds, gates : GateSets, pc : {"active", "waiting", "settled"},
     satisfaction : [gate : Nat, input : Inputs, event : BOOLEAN], asked : Nat,
     status : {"none", "succeeded", "failed"}, questions : Nat, crashes : Nat]
Verdict == [passed : BOOLEAN, afterRemediation : BOOLEAN]
Evaluations ==
    [pc : {"evaluate", "verdict", "remediate"}, k : Nat \ {0}, attempt : Nat, remediations : Nat,
     passed : BOOLEAN, judged : Nat, verdicts : Seq(Verdict)]

\* A required gate has passed, by its last evaluation and by an approval of its own.
ApprovedAt(j) ==
    node.gates[j].kind = "human" =>
        node.satisfaction.gate = j /\ node.satisfaction.input = "approved"
EarnedAt(j) ==
    node.gates[j].required =>
        gate.verdicts[j].passed /\ gate.verdicts[j].afterRemediation /\ ApprovedAt(j)

\* The gates before the one under evaluation have passed; the verdict at hand is of
\* the attempt at hand.
Underway ==
    node.kind = "gate" /\ node.pc = "active" =>
        /\ Len(gate.verdicts) + 1 = gate.k
        /\ \A j \in 1..Len(gate.verdicts) : EarnedAt(j)
        /\ gate.pc = "verdict" =>
             gate.judged = gate.attempt /\ (gate.passed => ApprovedAt(gate.k))

GateInv ==
    /\ node \in NodeRecords /\ gate \in Evaluations
    /\ node.pc # "settled" => node.status = "none"
    /\ Underway
    /\ GatePassIsEarned

LEMMA ResultIs ==
    ASSUME node \in NodeRecords, NEW status \in {"succeeded", "failed"}
    PROVE  /\ result(status) \in NodeRecords
           /\ result(status).kind = node.kind /\ result(status).gates = node.gates
           /\ result(status).satisfaction = node.satisfaction
           /\ result(status).pc = "settled" /\ result(status).status = status
BY DEF result, NodeRecords

LEMMA SuspendsIs ==
    ASSUME node \in NodeRecords, NEW k \in Nat
    PROVE  /\ suspends(k) \in NodeRecords /\ suspends(k).pc = "waiting"
           /\ suspends(k).status = node.status
           /\ [suspends(k) EXCEPT !.questions = @ + 1] \in NodeRecords
           /\ [suspends(k) EXCEPT !.questions = @ + 1].pc = "waiting"
           /\ [suspends(k) EXCEPT !.questions = @ + 1].status = node.status
<1>1. suspends(k) \in NodeRecords /\ suspends(k).pc = "waiting" /\ suspends(k).status = node.status
  BY DEF suspends, NodeRecords
<1>2. ASSUME NEW s \in NodeRecords
      PROVE  /\ [s EXCEPT !.questions = @ + 1] \in NodeRecords
             /\ [s EXCEPT !.questions = @ + 1].pc = s.pc
             /\ [s EXCEPT !.questions = @ + 1].status = s.status
  BY DEF NodeRecords
<1> QED
  BY <1>1, <1>2

\* A node that waits has no result; one that is not a gate node has none to earn.
LEMMA Yielded ==
    ASSUME GateInv, node.pc = "active", gate' \in Evaluations,
           node' \in NodeRecords,
           \/ node'.pc = "waiting" /\ node'.status = node.status
           \/ node'.pc = "settled" /\ (node'.kind # "gate" \/ node'.status = "failed")
    PROVE  GateInv'
<1>1. node.status = "none" \/ node'.pc = "settled"
  BY DEF GateInv
<1>2. node.pc # "settled"
  OBVIOUS
<1>3. node.status = "none"
  BY <1>2 DEF GateInv
<1> QED
  BY <1>3 DEF GateInv, Underway, GatePassIsEarned

LEMMA EvaluationIs == Evaluation \in Evaluations /\ Evaluation.k = 1 /\ Evaluation.verdicts = <<>>
                      /\ Evaluation.pc = "evaluate"
BY DEF Evaluation, Evaluations

\* A node that is activated starts from its first gate.
LEMMA Activated ==
    ASSUME GateInv, gate' = Evaluation, node' \in NodeRecords,
           node'.pc = "active", node'.status = "none"
    PROVE  GateInv'
<1>1. Len(gate'.verdicts) = 0 /\ gate' \in Evaluations /\ gate'.k = 1 /\ gate'.pc = "evaluate"
  BY EvaluationIs
<1> QED
  BY <1>1 DEF GateInv, Underway, GatePassIsEarned

LEMMA SimpleNodes ==
    ASSUME GateInv, AgentNode \/ WorkNode \/ HumanInputNode \/ WaitNode \/ TerminalNode
    PROVE  GateInv'
<1>1. node \in NodeRecords /\ gate \in Evaluations
  BY DEF GateInv
<1>2. node.kind # "gate" /\ node.pc = "active" /\ gate' = gate
  BY DEF AgentNode, WorkNode, HumanInputNode, WaitNode, TerminalNode, Active, Yield
<1>3. \/ \E status \in {"succeeded", "failed"} : node' = result(status)
      \/ node' = suspends(0)
      \/ node' = [suspends(0) EXCEPT !.questions = @ + 1]
  BY DEF AgentNode, WorkNode, HumanInputNode, WaitNode, TerminalNode, Yield
<1>4. ASSUME NEW status \in {"succeeded", "failed"}, node' = result(status) PROVE GateInv'
  BY <1>1, <1>2, <1>4, ResultIs, Yielded
<1>5. CASE node' = suspends(0)
  BY <1>1, <1>2, <1>5, SuspendsIs, Yielded
<1>6. CASE node' = [suspends(0) EXCEPT !.questions = @ + 1]
  BY <1>1, <1>2, <1>6, SuspendsIs, Yielded
<1> QED
  BY <1>3, <1>4, <1>5, <1>6

\* A verdict on the gate at hand.
LEMMA Judged ==
    ASSUME GateInv, Evaluating("evaluate"), NEW passed \in BOOLEAN, verdict(passed), node' = node,
           passed => ApprovedAt(gate.k)
    PROVE  GateInv'
<1>1. /\ gate' \in Evaluations /\ gate'.k = gate.k /\ gate'.verdicts = gate.verdicts
      /\ gate'.judged = gate'.attempt /\ gate'.passed = passed /\ node.pc = "active"
  BY DEF verdict, GateInv, Evaluations, Evaluating, Active
<1>2. Underway'
  BY <1>1 DEF GateInv, Underway, EarnedAt, ApprovedAt
<1>3. GatePassIsEarned'
  <2>1. node.status = "none"
    BY <1>1 DEF GateInv
  <2> QED BY <2>1 DEF GatePassIsEarned
<1> QED
  BY <1>1, <1>2, <1>3 DEF GateInv

LEMMA EvaluationStep ==
    ASSUME GateInv, EvaluateCheck \/ EvaluateHuman \/ AgentThrows
    PROVE  GateInv'
<1>1. node \in NodeRecords /\ gate \in Evaluations
  BY DEF GateInv
<1>2. CASE EvaluateCheck
  <2>1. PICK passed \in BOOLEAN : verdict(passed)
    BY <1>2 DEF EvaluateCheck
  <2>2. ApprovedAt(gate.k) /\ Evaluating("evaluate") /\ node' = node
    BY <1>2 DEF EvaluateCheck, ApprovedAt, gateAt
  <2> QED BY <2>1, <2>2, Judged
<1>3. CASE EvaluateHuman
  <2>1. CASE answered /\ node.satisfaction.gate = gate.k
    <3> DEFINE passed == node.satisfaction.input = "approved"
    <3>1. verdict(passed) /\ Evaluating("evaluate") /\ node' = node
      BY <1>3, <2>1 DEF EvaluateHuman
    <3>2. passed \in BOOLEAN /\ (passed => ApprovedAt(gate.k))
      BY <2>1 DEF ApprovedAt
    <3> HIDE DEF passed
    <3> QED BY <3>1, <3>2, Judged
  <2>2. CASE ~(answered /\ node.satisfaction.gate = gate.k)
    <3>1. node' = suspends(gate.k) /\ gate' = gate /\ node.pc = "active"
      BY <1>3, <2>2 DEF EvaluateHuman, Yield, Evaluating, Active
    <3>2. gate.k \in Nat
      BY <1>1 DEF Evaluations
    <3> QED BY <1>1, <3>1, <3>2, SuspendsIs, Yielded
  <2> QED BY <2>1, <2>2
<1>4. CASE AgentThrows
  <2>1. node' = result("failed") /\ gate' = gate /\ node.pc = "active"
    BY <1>4 DEF AgentThrows, Yield, Evaluating, Active
  <2> QED BY <1>1, <2>1, ResultIs, Yielded
<1> QED
  BY <1>2, <1>3, <1>4

LEMMA RemediationStep ==
    ASSUME GateInv, Remediate \/ Remediated
    PROVE  GateInv'
<1>1. node \in NodeRecords /\ gate \in Evaluations /\ node' = node /\ node.pc = "active"
  BY DEF GateInv, Remediate, Remediated, Evaluating, Active
<1>2. /\ gate' \in Evaluations /\ gate'.k = gate.k /\ gate'.verdicts = gate.verdicts
      /\ gate'.pc # "verdict"
  <2>1. CASE gate' = [gate EXCEPT !.pc = "remediate", !.remediations = @ + 1]
    <3> DEFINE more == gate.remediations + 1
    <3>1. more \in Nat
      BY <1>1 DEF Evaluations
    <3>2. gate' = [gate EXCEPT !.pc = "remediate", !.remediations = more]
      BY <2>1
    <3> HIDE DEF more
    <3> QED BY <1>1, <3>1, <3>2 DEF Evaluations
  <2>2. CASE gate' = [gate EXCEPT !.pc = "evaluate", !.attempt = @ + 1]
    <3> DEFINE more == gate.attempt + 1
    <3>1. more \in Nat
      BY <1>1 DEF Evaluations
    <3>2. gate' = [gate EXCEPT !.pc = "evaluate", !.attempt = more]
      BY <2>2
    <3> HIDE DEF more
    <3> QED BY <1>1, <3>1, <3>2 DEF Evaluations
  <2> QED BY <2>1, <2>2 DEF Remediate, Remediated
<1>3. Underway'
  BY <1>1, <1>2 DEF GateInv, Underway, EarnedAt, ApprovedAt
<1>4. GatePassIsEarned'
  <2>1. node.status = "none"
    BY <1>1 DEF GateInv
  <2> QED BY <1>1, <2>1 DEF GatePassIsEarned
<1> QED
  BY <1>1, <1>2, <1>3, <1>4 DEF GateInv

LEMMA ConcludeStep ==
    ASSUME GatesAssumption, GateInv, Conclude
    PROVE  GateInv'
<1> DEFINE blocked == ~gate.passed /\ gateAt.required
           final == gate.k = Len(node.gates)
           entry == [passed |-> gate.passed, afterRemediation |-> gate.judged = gate.attempt]
           following == IF blocked \/ final THEN gate.k ELSE gate.k + 1
           written == Append(gate.verdicts, entry)
<1>1. /\ node \in NodeRecords /\ gate \in Evaluations /\ node.status = "none"
      /\ node.kind = "gate" /\ node.pc = "active" /\ gate.pc = "verdict"
      /\ node.gates \in GateSets
  BY DEF GateInv, Conclude, Evaluating, Active, NodeRecords
<1>2. /\ gate.k \in Nat \ {0} /\ gate.verdicts \in Seq(Verdict) /\ gate.passed \in BOOLEAN
      /\ Len(gate.verdicts) + 1 = gate.k /\ gate.judged = gate.attempt
      /\ \A j \in 1..Len(gate.verdicts) : EarnedAt(j)
      /\ gate.passed => ApprovedAt(gate.k)
  BY <1>1 DEF GateInv, Evaluations, Underway
<1>3. /\ gate' = [gate EXCEPT !.pc = "evaluate", !.verdicts = written, !.attempt = 1, !.k = following]
      /\ node' = IF blocked THEN result("failed") ELSE IF final THEN result("succeeded") ELSE node
  BY DEF Conclude
<1>4. /\ written \in Seq(Verdict) /\ Len(written) = gate.k
      /\ \A j \in 1..Len(gate.verdicts) : written[j] = gate.verdicts[j]
      /\ (written[gate.k].passed <=> gate.passed) /\ written[gate.k].afterRemediation
  <2>1. entry \in Verdict /\ (entry.passed <=> gate.passed) /\ entry.afterRemediation
    BY <1>2 DEF Verdict
  <2> HIDE DEF entry
  <2> QED BY <1>2, <2>1
<1> HIDE DEF written
<1>5. /\ following \in Nat \ {0}
  BY <1>2
<1> HIDE DEF following
<1>6. gate' \in Evaluations /\ gate'.verdicts = written /\ gate'.k = following /\ gate'.pc = "evaluate"
  BY <1>1, <1>3, <1>4, <1>5 DEF Evaluations
<1>7. CASE blocked
  <2>1. node' = result("failed")
    BY <1>3, <1>7
  <2> QED BY <1>1, <1>6, <2>1, ResultIs, Yielded
<1>8. ASSUME ~blocked, NEW j \in 1..gate.k, node.gates[j].required
      PROVE  written[j].passed /\ written[j].afterRemediation /\ ApprovedAt(j)
  <2>1. CASE j = gate.k
    BY <1>2, <1>4, <1>8, <2>1 DEF gateAt
  <2>2. CASE j # gate.k
    <3>1. j \in 1..Len(gate.verdicts)
      BY <1>2, <2>2
    <3> QED BY <1>2, <1>4, <1>8, <3>1 DEF EarnedAt
  <2> QED BY <2>1, <2>2
<1>9. CASE ~blocked /\ final
  <2>1. /\ node' \in NodeRecords /\ node'.gates = node.gates /\ node'.satisfaction = node.satisfaction
        /\ node'.pc = "settled"
    BY <1>1, <1>3, <1>9, ResultIs
  <2>2. DOMAIN node.gates = 1..gate.k
    BY <1>1, <1>9 DEF GatesAssumption
  <2>3. GatePassIsEarned'
    BY <1>4, <1>6, <1>8, <1>9, <2>1, <2>2 DEF GatePassIsEarned, ApprovedAt
  <2> QED BY <1>6, <2>1, <2>3 DEF GateInv, Underway
<1>10. CASE ~blocked /\ ~final
  <2>1. node' = node /\ following = gate.k + 1
    BY <1>3, <1>10 DEF following
  <2>2. Underway'
    BY <1>2, <1>4, <1>6, <1>8, <1>10, <2>1 DEF Underway, EarnedAt, ApprovedAt
  <2>3. GatePassIsEarned'
    BY <1>1, <2>1 DEF GatePassIsEarned
  <2> QED BY <1>1, <1>6, <2>1, <2>2, <2>3 DEF GateInv
<1> QED
  BY <1>7, <1>9, <1>10

LEMMA GateStep ==
    ASSUME GatesAssumption, GateInv, [NodesNext]_nodeVars
    PROVE  GateInv'
<1>1. node \in NodeRecords /\ gate \in Evaluations
  BY DEF GateInv
<1>2. CASE Satisfied
  <2>1. PICK input \in values :
          node' = [node EXCEPT !.pc = "active",
                               !.questions = IF input = "none" THEN @ + 1 ELSE @,
                               !.satisfaction = [gate |-> node.asked, input |-> input, event |-> TRUE]]
    BY <1>2 DEF Satisfied
  <2>2. input \in Inputs
    BY DEF values, Inputs
  <2>3. node' \in NodeRecords /\ node'.pc = "active" /\ node'.status = node.status
    <3> DEFINE asked == IF input = "none" THEN node.questions + 1 ELSE node.questions
               given == [gate |-> node.asked, input |-> input, event |-> TRUE]
    <3>1. node.questions \in Nat /\ node.asked \in Nat
      BY <1>1 DEF NodeRecords
    <3>2. asked \in Nat /\ given \in [gate : Nat, input : Inputs, event : BOOLEAN]
      BY <2>2, <3>1
    <3>3. node' = [node EXCEPT !.pc = "active", !.questions = asked, !.satisfaction = given]
      BY <2>1
    <3> HIDE DEF asked, given
    <3> QED BY <1>1, <3>2, <3>3 DEF NodeRecords
  <2> QED BY <1>2, <2>3, Activated DEF Satisfied, GateInv
<1>3. CASE Restart
  <2>1. node' \in NodeRecords /\ node'.pc = "active" /\ node'.status = node.status
    BY <1>1, <1>3 DEF Restart, NodeRecords
  <2> QED BY <1>3, <2>1, Activated DEF Restart, GateInv
<1>4. CASE UNCHANGED nodeVars
  BY <1>4 DEF nodeVars, GateInv, Underway, EarnedAt, ApprovedAt, GatePassIsEarned
<1> QED
  BY <1>2, <1>3, <1>4, SimpleNodes, EvaluationStep, RemediationStep, ConcludeStep
  DEF NodesNext, NodeStep, GateNode

\* GatePassIsEarned: a gate node that has succeeded, however often it was suspended for
\* an approval, remediated and activated again, has passed each of its required gates in
\* this activation, by an evaluation after the last remediation, and each human one by an
\* approval that was asked for that gate.
THEOREM GatePassesAreEarned ==
    ASSUME GatesAssumption
    PROVE  NodesSpec => []GatePassIsEarned
<1>1. NodesInit => GateInv
  <2> SUFFICES ASSUME NodesInit PROVE GateInv
    OBVIOUS
  <2>1. node \in NodeRecords /\ node.pc = "active" /\ node.status = "none" /\ gate = Evaluation
    BY DEF NodesInit, NodeRecords, Nothing, Inputs
  <2>2. Len(gate.verdicts) = 0 /\ gate \in Evaluations /\ gate.k = 1 /\ gate.pc = "evaluate"
    BY <2>1, EvaluationIs
  <2> QED BY <2>1, <2>2 DEF GateInv, Underway, GatePassIsEarned
<1>2. GateInv /\ [NodesNext]_nodeVars => GateInv'
  BY GateStep
<1>3. GateInv => GatePassIsEarned
  BY DEF GateInv
<1> QED
  BY <1>1, <1>2, <1>3, PTL DEF NodesSpec
================================================================================
