---------------------------- MODULE MCStreamRelay ----------------------------
EXTENDS StreamRelay

Mode(kind, stages, max) ==
    [kind |-> kind, stages |-> stages, joins |-> stages = 3, drain |-> FALSE,
     max |-> max, leaves |-> TRUE]
Stays(mode0) == [mode0 EXCEPT !.leaves = FALSE]

\* Chat Completions chunks; one has an image, one a text of another choice.
C(text, calls, finish, usage) ==
    [type |-> "chunk", choices |-> TRUE, text |-> text, refusal |-> FALSE,
     calls |-> calls, finish |-> finish, usage |-> usage, error |-> FALSE,
     image |-> FALSE, others |-> FALSE]
Call(index, id, args) == [index |-> index, id |-> id, args |-> args, of |-> index]
DoneChunk == [C(FALSE, <<>>, "none", 0) EXCEPT !.type = "done"]
ChatChunks ==
    {C(TRUE, <<>>, "none", 0), [C(TRUE, <<>>, "length", 0) EXCEPT !.others = TRUE],
     [C(FALSE, <<>>, "none", 0) EXCEPT !.refusal = TRUE],
     [C(FALSE, << Call(0, TRUE, FALSE) >>, "none", 0) EXCEPT !.image = TRUE],
     C(FALSE, << Call(0, FALSE, TRUE), Call(1, TRUE, TRUE) >>, "none", 0),
     [C(FALSE, <<>>, "none", 2) EXCEPT !.choices = FALSE], DoneChunk}

\* Anthropic events; a delta names the blocks it belongs to.
A(type, block, delta, blocks, usage) ==
    [type |-> type, block |-> block, delta |-> delta, blocks |-> blocks,
     stop |-> IF type = "message_delta" THEN "end_turn" ELSE "none", usage |-> usage]
AnthropicEvents ==
    {A("message_start", "none", "none", {}, 1), A("message_delta", "none", "none", {}, 2),
     A("block_stop", "none", "none", {}, 0), A("error", "none", "none", {}, 0),
     A("block_delta", "none", "text", {"text"}, 0),
     A("block_delta", "none", "thinking", {"thinking"}, 0),
     A("block_delta", "none", "json", Anthropic!ToolBlocks, 0)}
    \cup {A("block_start", b, "none", {}, 0) : b \in {"text", "thinking", "tool_use", "computer"}}

\* Vertex AI chunks, with the usage so far; the last one has what was searched
\* for and a text of another candidate.
V(parts, usage, finish) ==
    [type |-> "chunk", parts |-> parts, usage |-> usage, finish |-> finish,
     candidates |-> parts # <<>>, search |-> finish # "none",
     others |-> IF finish # "none" THEN <<"text">> ELSE <<>>]
VertexChunks ==
    {V(<<"text">>, 1, "none"), V(<<"thought", "call">>, 1, "none"), V(<<"code", "result">>, 0, "none"),
     V(<<"image">>, 0, "none"), V(<<"call", "text">>, 2, "stop"), V(<<>>, 3, "none")}

\* A router's chat stream, a provider's Responses stream.
R(type, usage, output) == [type |-> type, usage |-> usage, output |-> output]
Final == << <<"msg", 1>> >>
RawChunks == {R("chunk", 0, <<>>), R("chunk", 2, <<>>), R("error", 0, <<>>), R("done", 0, <<>>)}
ResponsesChunks ==
    {R("delta", 0, <<>>), R("half", 0, <<>>), R("rest", 2, Final), R("completed", 2, Final)}

MCChunks ==
    [kind \in {"chat", "anthropic", "vertex", "anthropic_chat", "vertex_chat", "raw", "responses"} |->
        CASE kind = "chat" -> ChatChunks
          [] kind \in {"anthropic", "anthropic_chat"} -> AnthropicEvents
          [] kind \in {"vertex", "vertex_chat"} -> VertexChunks
          [] kind = "raw" -> RawChunks
          [] OTHER -> ResponsesChunks]

Drained(mode0) == [mode0 EXCEPT !.drain = TRUE]
\* Long streams to a client that stays, shorter ones to one that may leave.
MCModes ==
    {Stays(Mode("chat", 1, 3)), Stays(Mode("anthropic", 1, 5)), Stays(Mode("vertex", 1, 3)),
     Stays(Mode("anthropic_chat", 1, 5)), Stays(Mode("vertex_chat", 1, 3)),
     Mode("anthropic", 1, 3), Mode("anthropic", 2, 2), Mode("chat", 3, 2), Mode("vertex", 1, 2),
     Mode("raw", 0, 3), Mode("responses", 0, 3),
     Drained(Mode("raw", 0, 3)), Drained(Mode("responses", 0, 3))}
=============================================================================
