--------------------------- MODULE ResponseBodies ---------------------------
(* The conversions of whole responses, which a request without streaming     *)
(* gets: the kinds of the output items, in order.                            *)
(*   ChatItems       internal/converter/responses/response.go                *)
(*   AnthropicItems  internal/converter/anthropic/responses/response.go      *)
(*   VertexItems     internal/converter/vertex/responses/response.go         *)
EXTENDS Integers, Sequences, SequencesExt

OrMessage(kinds) == IF kinds = <<>> THEN << "message" >> ELSE kinds

\* A choice is [message, images, calls]: whether it has a text or a refusal,
\* how many images with data, and how many calls.
ChatChoice(choice) ==
    (IF choice.message THEN << "message" >> ELSE <<>>)
    \o [i \in 1 .. choice.images |-> "image"]
    \o [i \in 1 .. choice.calls |-> "call"]

\* The items of one choice after those of another, then the items that the
\* caller adds (ExtraOutputItems).
ChatToResponse(choices, extra) ==
    OrMessage(FlattenSeq([i \in DOMAIN choices |-> ChatChoice(choices[i])])) \o extra

\* Texts are collected until a thought or a call, or the end, comes.
Collected == [text |-> FALSE, kinds |-> <<>>]
flushMessage(body) ==
    [text |-> FALSE,
     kinds |-> IF body.text THEN Append(body.kinds, "message") ELSE body.kinds]
Text(body) == [body EXCEPT !.text = TRUE]
Add(body, kind) == [body EXCEPT !.kinds = Append(@, kind)]

\* Mutation: the call follows a flush only; it is not added.
anthropicBlock_NoComputer(body, block) ==
    CASE block = "text" -> Text(body)
      [] block = "thinking" -> Add(flushMessage(body), "reasoning")
      [] block = "tool_use" -> Add(flushMessage(body), "call")
      [] block = "computer" -> flushMessage(body)
      [] OTHER -> body

\* A call of the computer tool is a computer_call, a call like the others here.
anthropicBlock(body, block) ==
    CASE block = "text" -> Text(body)
      [] block = "thinking" -> Add(flushMessage(body), "reasoning")
      [] block \in {"tool_use", "computer"} -> Add(flushMessage(body), "call")
      [] OTHER -> body

anthropicContentToOutputItems(blocks) ==
    OrMessage(flushMessage(FoldLeft(anthropicBlock, Collected, blocks)).kinds)

\* A thought does not end the message before it; an output of code changes an
\* item that is there.
vertexPart(body, part) ==
    CASE part = "text" -> Text(body)
      [] part = "thought" -> Add(body, "reasoning")
      [] part = "call" -> Add(flushMessage(body), "call")
      [] part = "code" -> Add(flushMessage(body), "code")
      [] part = "image" -> Add(flushMessage(body), "image")
      [] OTHER -> body

\* A candidate is [parts, search]: search when its grounding names queries or
\* pages of the web.  Texts are not collected across candidates.
vertexCandidate(candidate) ==
    flushMessage(FoldLeft(vertexPart, Collected, candidate.parts)).kinds
    \o (IF candidate.search THEN << "search" >> ELSE <<>>)

candidatesToOutputItems(candidates) ==
    OrMessage(FlattenSeq([i \in DOMAIN candidates |-> vertexCandidate(candidates[i])]))
=============================================================================
