------------------------- MODULE AnthropicResponses -------------------------
(* Anthropic Messages events to Responses API events                         *)
(* (internal/converter/anthropic/responses/streaming.go).                    *)
(*                                                                           *)
(* An upstream event is [type, block, delta, stop, usage].  The content of a *)
(* block is known only by being there.                                       *)
EXTENDS ResponseEvents

ToolBlocks == {"tool_use", "computer"}

anthropicStreamAccumulator ==
    [header |-> FALSE, block |-> "none", text |-> FALSE, thinking |-> FALSE,
     reasoning |-> NoItem, tool |-> NoItem, toolIndex |-> 0,
     content |-> FALSE, items |-> <<>>, message |-> NoItem, messageIndex |-> 0,
     input |-> 0, output |-> 0, fresh |-> 1, out |-> <<>>]

AMessageStarted(acc) == acc.message # NoItem

emitAnthropicHeaderEvents(acc) ==
    IF acc.header THEN acc ELSE Write([acc EXCEPT !.header = TRUE], HeaderEvents)

\* A reasoning item is announced under the number of finished items, whether a
\* message has started or not.
ThinkingStart(acc) ==
    LET a == emitAnthropicHeaderEvents(acc)
        item == GenerateItemID("rs", a.fresh)
    IN  Write([a EXCEPT !.reasoning = item, !.fresh = @ + 1],
              ItemAdded(item, Len(a.items)))

\* Mutation: the slot of the message is not counted.
ToolStart_NoMessageSlot(acc) ==
    LET a == emitAnthropicHeaderEvents(acc)
        item == GenerateItemID("fc", a.fresh)
        index == Len(a.items)
    IN  Write([a EXCEPT !.tool = item, !.toolIndex = index, !.fresh = @ + 1],
              ItemAdded(item, index))

\* A call is announced after the finished items and the message.
ToolStart(acc) ==
    LET a == emitAnthropicHeaderEvents(acc)
        item == GenerateItemID("fc", a.fresh)
        index == Len(a.items) + (IF AMessageStarted(a) THEN 1 ELSE 0)
    IN  Write([a EXCEPT !.tool = item, !.toolIndex = index, !.fresh = @ + 1],
              ItemAdded(item, index))

BlockStart(acc, event) ==
    LET a == [acc EXCEPT !.block = event.block, !.text = FALSE, !.thinking = FALSE] IN
    CASE event.block = "thinking" -> ThinkingStart(a)
      [] event.block \in ToolBlocks -> ToolStart(a)
      [] OTHER -> a

emitAnthropicMessageStart(acc) ==
    IF AMessageStarted(acc)
    THEN acc
    ELSE LET item == GenerateItemID("msg", acc.fresh) IN
         Write([acc EXCEPT !.message = item, !.messageIndex = Len(acc.items),
                           !.fresh = @ + 1],
               MessageStartEvents(item, Len(acc.items)))

handleAnthropicTextDelta(acc) ==
    LET a == emitAnthropicMessageStart(emitAnthropicHeaderEvents(acc)) IN
    Write([a EXCEPT !.text = TRUE], TextDelta(a.message, a.messageIndex))

BlockDelta(acc, event) ==
    CASE event.delta = "text" -> handleAnthropicTextDelta(acc)
      [] event.delta = "thinking" -> [acc EXCEPT !.thinking = TRUE]
      [] event.delta = "json" /\ acc.tool # NoItem ->
            Write(acc, << Event("args_delta", acc.tool, acc.toolIndex) >>)
      [] OTHER -> acc

\* A thought is closed here and, when it had a text, again at the end; a call
\* is closed at the end only; a text joins the message.
finalizeCurrentBlock(acc) ==
    LET a == [acc EXCEPT !.block = "none"] IN
    CASE acc.block = "text" ->
            [a EXCEPT !.content = @ \/ acc.text, !.text = FALSE]
      [] acc.block = "thinking" ->
            Write([a EXCEPT !.items = IF acc.thinking THEN Append(@, acc.reasoning) ELSE @,
                            !.reasoning = NoItem],
                  ItemDone(acc.reasoning, Len(acc.items)))
      [] acc.block \in ToolBlocks ->
            Write([a EXCEPT !.items = Append(@, acc.tool),
                            !.tool = NoItem, !.toolIndex = 0],
                  << Event("args_done", acc.tool, acc.toolIndex) >>)
      [] OTHER -> a

\* The status of the response follows the stop reason; its event does not, so
\* the stop reason is left out.  Events of other types, "error" among them,
\* are skipped.
processAnthropicEvent(acc, event) ==
    CASE event.type = "message_start" -> [acc EXCEPT !.input = event.usage]
      [] event.type = "block_start" -> BlockStart(acc, event)
      [] event.type = "block_delta" -> BlockDelta(acc, event)
      [] event.type = "block_stop" -> finalizeCurrentBlock(acc)
      [] event.type = "message_delta" -> [acc EXCEPT !.output = event.usage]
      [] OTHER -> acc

\* The message comes last in the response, wherever it was announced.
AOutput(acc) ==
    OrEmptyMessage(acc.items \o (IF AMessageStarted(acc) THEN << acc.message >> ELSE <<>>))

AUsage(acc) == acc.input + acc.output

\* Items before the split point were announced before the message and keep
\* their places; those after it come one later.  A message whose texts were
\* never finished is not closed but keeps its place.
CloseItems(acc) ==
    LET split == IF AMessageStarted(acc) THEN acc.messageIndex ELSE Len(acc.items)
        done(i) == ItemDone(acc.items[i], IF i <= split THEN i - 1 ELSE i)[1]
    IN  [i \in 1 .. split |-> done(i)]
        \o (IF acc.content THEN MessageDoneEvents(acc.message, split) ELSE <<>>)
        \o [i \in 1 .. Len(acc.items) - split |-> done(split + i)]

emitAnthropicCompletionEvents(acc) ==
    LET a == emitAnthropicHeaderEvents(acc) IN
    Write(a, CloseItems(a) \o ResponseEvent("completed", AOutput(a), AUsage(a)))

\* After the loop, however the stream ended, and unless a read failed.
AEndOfStream(acc) ==
    LET a == emitAnthropicCompletionEvents(acc) IN Write(a, OnComplete(AOutput(a)))
=============================================================================
