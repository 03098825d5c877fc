---------------------------- MODULE ProviderChat ----------------------------
(* Provider streams to Chat Completions chunks: Anthropic                    *)
(* (internal/converter/anthropic/streaming.go) and Vertex AI                 *)
(* (internal/converter/vertex/streaming.go).  What they write are the chunks *)
(* that ChatResponses describes; here a part of a call also says which call  *)
(* of the model it belongs to ("of"), which the chunk itself does not.       *)
EXTENDS ResponseEvents, SequencesExt

Part(index, id, args, of) == [index |-> index, id |-> id, args |-> args, of |-> of]

Chunk(text, calls, finish, usage) ==
    [type |-> "chunk", choices |-> TRUE, text |-> text, refusal |-> FALSE,
     calls |-> calls, finish |-> finish, usage |-> usage, error |-> FALSE]

UsageChunk(usage) == [Chunk(FALSE, <<>>, "none", usage) EXCEPT !.choices = FALSE]

DoneLine == << [Chunk(FALSE, <<>>, "none", 0) EXCEPT !.type = "done"] >>

\* ---------------------------------------------------------------- Anthropic
blockState(block, call) == [block |-> block, call |-> call]

AnthropicStart ==
    [first |-> TRUE, current |-> blockState("none", 0), nextCall |-> 0,
     prompt |-> 0, fresh |-> 1, out |-> <<>>]

\* The first chunk has a role and nothing else.
MessageStart(acc, event) ==
    LET a == [acc EXCEPT !.prompt = event.usage, !.first = FALSE] IN
    IF acc.first THEN Write(a, << Chunk(FALSE, <<>>, "none", 0) >>) ELSE a

\* The number of a call is also the number of its block among the calls.
OpenBlock(acc, event) ==
    LET a == [acc EXCEPT !.current = blockState(event.block, acc.nextCall)] IN
    IF event.block \in {"tool_use", "computer"}
    THEN Write(a, << Chunk(FALSE, << Part(acc.nextCall, TRUE, FALSE, acc.nextCall) >>,
                           "none", 0) >>)
    ELSE a

DeltaChunk(acc, event) ==
    LET call == acc.current.call IN
    CASE event.delta = "text" -> << Chunk(TRUE, <<>>, "none", 0) >>
      [] event.delta = "thinking" -> << Chunk(FALSE, <<>>, "none", 0) >>
      [] event.delta = "json" -> << Chunk(FALSE, << Part(call, FALSE, TRUE, call) >>, "none", 0) >>
      [] OTHER -> <<>>

CloseBlock(acc) ==
    LET next == acc.nextCall + (IF acc.current.block \in {"tool_use", "computer"} THEN 1 ELSE 0)
    IN  [acc EXCEPT !.nextCall = next, !.current = blockState("none", next)]

\* The stop reason and the whole usage, in one chunk.
MessageDelta(acc, event) ==
    IF event.stop = "none"
    THEN acc
    ELSE Write(acc, << Chunk(FALSE, <<>>, event.stop, acc.prompt + event.usage) >>)

\* An error becomes a text and a normal end.
AnthropicChat(acc, event) ==
    CASE event.type = "message_start" -> MessageStart(acc, event)
      [] event.type = "block_start" -> OpenBlock(acc, event)
      [] event.type = "block_delta" -> Write(acc, DeltaChunk(acc, event))
      [] event.type = "block_stop" -> CloseBlock(acc)
      [] event.type = "message_delta" -> MessageDelta(acc, event)
      [] event.type = "error" -> Write(acc, << Chunk(TRUE, <<>>, "stop", 0) >>)
      [] OTHER -> acc

\* ------------------------------------------------------------------- Vertex
VertexStart == [calls |-> 0, done |-> FALSE, fresh |-> 1, out |-> <<>>]

\* Each chunk numbers its calls from 0.
CallParts(acc, parts) ==
    LET calls == SelectSeq(parts, LAMBDA part : part = "call") IN
    [i \in DOMAIN calls |-> Part(i - 1, TRUE, TRUE, acc.calls + i)]

\* Parts that are neither a text nor a call have no place in a chunk; the end
\* of a chunk with calls is always "tool_calls".
VertexChat(acc, chunk) ==
    LET calls == CallParts(acc, chunk.parts)
        finish == IF chunk.finish # "none" /\ calls # <<>> THEN "tool_calls" ELSE chunk.finish
    IN  IF chunk.candidates
        THEN Write([acc EXCEPT !.calls = @ + Len(calls)],
                   << Chunk(\E i \in DOMAIN chunk.parts : chunk.parts[i] = "text",
                            calls, finish, chunk.usage) >>)
        ELSE Write(acc, IF chunk.usage = 0 THEN <<>> ELSE << UsageChunk(chunk.usage) >>)

\* [DONE] is written at the end of either stream; Vertex's converter writes it
\* after a failed read too.
EndOfChat(acc) == Write(acc, DoneLine)
=============================================================================
