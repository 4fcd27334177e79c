------------------------------- MODULE ModelStream -------------------------------
(***************************************************************************)
(* An invocation of a model (model-anthropic, model-openai, and the retry  *)
(* loop of agent-loop.ts): the server streams a message in pieces, block   *)
(* by block or, for the tool calls of OpenAI, in any order of theirs; the  *)
(* provider tells the pieces on and puts them together again.  Requests    *)
(* fail, streams break off and the session is aborted at any point.        *)
(***************************************************************************)
EXTENDS Naturals, Sequences, SequencesExt

CONSTANTS
    Protocols,  \* "anthropic", "openai"
    Messages,   \* of a protocol: what the server may answer, sequences of blocks
                \* [type, pieces, signed]
    maxAttempts

VARIABLES
    protocol, message,
    streaming,  \* or answered at once, by complete()
    attempt, phase,
    sent,       \* of a block of the message: "no", "open" or "stopped", and its pieces
    blocks,     \* of a block: what the provider has put together
    told,       \* the deltas of the invocation: [block, piece]
    cut,        \* the stream ended early
    aborted,
    response    \* the content of the response

modelVars == <<protocol, message, streaming, attempt, phase, sent, blocks, told, cut, aborted, response>>

Index == DOMAIN message
Empty == [type |-> "none", pieces |-> <<>>, signed |-> FALSE, text |-> <<>>, signature |-> FALSE]
unsent == [i \in Index |-> [state |-> "no", pieces |-> 0]]

ModelInit ==
    /\ protocol \in Protocols /\ message \in Messages[protocol] /\ streaming \in BOOLEAN
    /\ attempt = 1 /\ phase = "request"
    /\ sent = unsent
    /\ blocks = [i \in Index |-> Empty]
    /\ told = <<>> /\ cut = FALSE /\ aborted = FALSE /\ response = <<>>

ended == phase \in {"response", "failed", "aborted"}

--------------------------------------------------------------------------------
(* The neutral form of a message, and back                                      *)

\* Of a thinking block the original is kept.
fromBlock(b) ==
    LET raw == [type |-> b.type, pieces |-> b.pieces, signed |-> b.signed] IN
    CASE b.type = "text" -> [type |-> "text", pieces |-> b.pieces]
      [] b.type = "tool_use" -> [type |-> "tool_call", pieces |-> b.pieces]
      [] b.type = "thinking" -> [type |-> "thinking", pieces |-> b.pieces, raw |-> raw]
      [] b.type = "redacted_thinking" -> [type |-> "thinking", pieces |-> <<>>, raw |-> raw]
fromResponse(bs) == [i \in DOMAIN bs |-> fromBlock(bs[i])]

\* A block of the history as the next request sends it.
toBlock(c) ==
    CASE c.type = "text" -> [type |-> "text", pieces |-> c.pieces, signed |-> FALSE]
      [] c.type = "tool_call" -> [type |-> "tool_use", pieces |-> c.pieces, signed |-> FALSE]
      [] c.type = "thinking" -> c.raw
toMessages(content) == [i \in DOMAIN content |-> toBlock(content[i])]

--------------------------------------------------------------------------------
(* The request                                                                  *)

fails(retryable) ==
    /\ phase' = IF aborted THEN "aborted"
                ELSE IF retryable /\ attempt < maxAttempts THEN "pause" ELSE "failed"
    /\ UNCHANGED attempt

\* A request that does not reach the server, a limit of its rate and an outage may be
\* tried again, nothing else may.
RequestFails ==
    /\ phase = "request"
    /\ \E retryable \in BOOLEAN : fails(retryable)
    /\ UNCHANGED <<protocol, message, streaming, sent, blocks, told, cut, aborted, response>>

Retry ==
    /\ phase = "pause"
    /\ IF aborted THEN phase' = "aborted" /\ UNCHANGED attempt
       ELSE phase' = "request" /\ attempt' = attempt + 1
    /\ UNCHANGED <<protocol, message, streaming, sent, blocks, told, cut, aborted, response>>

Connected ==
    /\ phase = "request"
    /\ IF aborted THEN phase' = "aborted" /\ UNCHANGED response
       ELSE IF streaming THEN phase' = "stream" /\ UNCHANGED response
       ELSE phase' = "response" /\ response' = fromResponse(message)
    /\ sent' = unsent /\ blocks' = [i \in Index |-> Empty]
    /\ UNCHANGED <<protocol, message, streaming, attempt, told, cut, aborted>>

--------------------------------------------------------------------------------
(* The stream                                                                   *)

\* The blocks of a message come one after the other; the tool calls of OpenAI may be
\* open together.
mayOpen(i) ==
    /\ sent[i].state = "no"
    /\ \A j \in Index : j < i =>
         \/ sent[j].state = "stopped"
         \/ protocol = "openai" /\ message[j].type = "tool_use" /\ sent[j].state = "open"

\* An event is only handled while the session goes on.
handles(told2, blocks2) ==
    IF aborted THEN phase' = "aborted" /\ UNCHANGED <<blocks, told>>
    ELSE blocks' = blocks2 /\ told' = told2 /\ UNCHANGED phase

BlockStart(i) ==
    /\ phase = "stream" /\ mayOpen(i)
    /\ sent' = [sent EXCEPT ![i].state = "open"]
    /\ handles(IF message[i].type = "tool_use" THEN Append(told, [block |-> i, piece |-> "started"])
               ELSE told,
               [blocks EXCEPT ![i] = [Empty EXCEPT !.type = message[i].type]])
    /\ UNCHANGED <<protocol, message, streaming, attempt, cut, aborted, response>>

BlockDelta(i) ==
    /\ phase = "stream" /\ sent[i].state = "open" /\ sent[i].pieces < Len(message[i].pieces)
    /\ LET piece == message[i].pieces[sent[i].pieces + 1] IN
       /\ sent' = [sent EXCEPT ![i].pieces = @ + 1]
       /\ handles(Append(told, [block |-> i, piece |-> piece]),
                  [blocks EXCEPT ![i].text = Append(@, piece)])
    /\ UNCHANGED <<protocol, message, streaming, attempt, cut, aborted, response>>

\* A block that is stopped is what its pieces make, with its signature.
stopped(b) == [b EXCEPT !.pieces = b.text, !.signed = b.signature]

\* The signature of a thinking block is its last delta.
BlockStop(i) ==
    /\ phase = "stream" /\ sent[i].state = "open" /\ sent[i].pieces = Len(message[i].pieces)
    /\ sent' = [sent EXCEPT ![i].state = "stopped"]
    /\ handles(told, [blocks EXCEPT ![i] = stopped([blocks[i] EXCEPT !.signature = message[i].signed])])
    /\ UNCHANGED <<protocol, message, streaming, attempt, cut, aborted, response>>

\* The input of a tool is none if nothing came, and cannot be parsed if a part of it came.
parses(i) == message[i].type # "tool_use" \/ blocks[i].text \in {<<>>, message[i].pieces}

\* An empty text of OpenAI is no block.
begun == {i \in Index : /\ blocks[i].type # "none"
                        /\ protocol = "openai" /\ message[i].type = "text" => blocks[i].text # <<>>}

\* Blocks by their index, those of OpenAI with all that came of them.
collected ==
    LET inOrder == SetToSortSeq(begun, LAMBDA i, j : i < j) IN
    fromResponse([n \in DOMAIN inOrder |->
        IF protocol = "openai" THEN stopped(blocks[inOrder[n]]) ELSE blocks[inOrder[n]]])

responds ==
    IF aborted \/ ~\A i \in begun : parses(i) THEN fails(FALSE) /\ UNCHANGED response
    ELSE phase' = "response" /\ response' = collected /\ UNCHANGED attempt

MessageStop ==
    /\ phase = "stream" /\ \A i \in Index : sent[i].state = "stopped"
    /\ responds
    /\ UNCHANGED <<protocol, message, streaming, sent, blocks, told, cut, aborted>>

\* The stream ends before its message does: Anthropic's then has no response, OpenAI's
\* has what has come.
StreamEnds ==
    /\ phase = "stream"
    /\ cut' = TRUE
    /\ IF protocol = "openai" THEN responds ELSE fails(FALSE) /\ UNCHANGED response
    /\ UNCHANGED <<protocol, message, streaming, sent, blocks, told, aborted>>

\* It breaks within an event, fails in the network, or says that the server has failed.
StreamBreaks ==
    /\ phase = "stream"
    /\ fails(FALSE)
    /\ UNCHANGED <<protocol, message, streaming, sent, blocks, told, cut, aborted, response>>

Abort ==
    /\ ~aborted /\ ~ended
    /\ aborted' = TRUE
    /\ UNCHANGED <<protocol, message, streaming, attempt, phase, sent, blocks, told, cut, response>>

ModelNext ==
    \/ RequestFails \/ Retry \/ Connected
    \/ \E i \in Index : BlockStart(i) \/ BlockDelta(i) \/ BlockStop(i)
    \/ MessageStop \/ StreamEnds \/ StreamBreaks \/ Abort

ModelSpec == ModelInit /\ [][ModelNext]_modelVars

--------------------------------------------------------------------------------
(* Properties                                                                   *)

delivered == phase = "response" /\ ~cut

\* A message is the same however it is asked for and in whatever pieces it comes, and
\* the next request sends it back as it was, thinking with its signatures ("Anthropic
\* requires the exact original block", mapping.ts).
MessageRestored ==
    delivered => response = fromResponse(message) /\ toMessages(response) = message

\* What has been told of a stream is what its response says, and a tool is called with
\* the input it was sent or with none, also when the stream was cut.
DeltasAddUp ==
    phase = "response" /\ streaming =>
        \A n \in DOMAIN response :
            LET of(d) == d.block = n /\ d.piece # "started"
                parts == SelectSeq(told, of) IN
            /\ [k \in DOMAIN parts |-> parts[k].piece] = response[n].pieces
            /\ response[n].type = "tool_call" => response[n].pieces \in {<<>>, message[n].pieces}

\* What has been told is not told again: an invocation is only tried again before
\* anything of it has arrived.
ToldOnce == \A m, n \in DOMAIN told : m # n => told[m] # told[n]

\* An invocation that was aborted is not one that failed.
AbortIsNoFailure == phase = "failed" => ~aborted
================================================================================
