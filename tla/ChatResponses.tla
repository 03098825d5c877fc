---------------------------- MODULE ChatResponses ----------------------------
(* Chat Completions chunks to Responses API events                           *)
(* (internal/converter/responses/streaming.go).                              *)
(*                                                                           *)
(* A chunk is [type |-> "chunk", choices, text, refusal, calls, finish,      *)
(* usage]: whether it has a choice, a text, a refusal, the parts of tool     *)
(* calls it carries ([index, id, args]: the call's index, whether the part   *)
(* names the call and whether it has arguments), its finish reason and its   *)
(* usage.  The chunk of type "done" is the line `data: [DONE]`.              *)
EXTENDS ResponseEvents

streamAccumulator ==
    [header |-> FALSE, message |-> NoItem, text |-> FALSE, refusal |-> FALSE,
     calls |-> <<>>, usage |-> 0, finish |-> "none", completed |-> FALSE,
     fresh |-> 1, out |-> <<>>]

messageStarted(acc) == acc.message # NoItem

emitHeaderEvents(acc) ==
    IF acc.header THEN acc ELSE Write([acc EXCEPT !.header = TRUE], HeaderEvents)

emitMessageStartEvents(acc) ==
    IF messageStarted(acc)
    THEN acc
    ELSE LET item == GenerateItemID("msg", acc.fresh) IN
         Write([acc EXCEPT !.message = item, !.fresh = @ + 1], MessageStartEvents(item, 0))

Started(acc) == emitMessageStartEvents(emitHeaderEvents(acc))

\* Handle text content: the message is always at output_index 0.
Content(acc, chunk) ==
    IF ~chunk.text
    THEN acc
    ELSE LET a == Started(acc) IN
         Write([a EXCEPT !.text = TRUE], TextDelta(a.message, 0))

Refusal(acc, chunk) ==
    IF ~chunk.refusal
    THEN acc
    ELSE LET a == Started(acc) IN
         Write([a EXCEPT !.refusal = TRUE], << Event("refusal_delta", a.message, 0) >>)

\* The index of a call, one higher when a message has started by now.
outputIndex(acc, index) == index + (IF messageStarted(acc) THEN 1 ELSE 0)

\* The calls up to an index; those never named have an empty item id.
Grown(calls, n) == calls \o [i \in 1 .. n - Len(calls) |-> NoItem]

\* A part with an id opens the call, or replaces the one at its index.
NewCall(acc, part) ==
    IF ~part.id
    THEN acc
    ELSE LET item == GenerateItemID("fc", acc.fresh)
             calls == Grown(acc.calls, part.index + 1)
         IN  Write([acc EXCEPT !.calls = [calls EXCEPT ![part.index + 1] = item],
                               !.fresh = @ + 1],
                   ItemAdded(item, outputIndex(acc, part.index)))

\* Arguments of a call that was never named make an item nobody announced.
Arguments(acc, part) ==
    IF ~part.args
    THEN acc
    ELSE LET known == part.index < Len(acc.calls)
             calls == Grown(acc.calls, part.index + 1)
             a == IF known
                  THEN acc
                  ELSE [acc EXCEPT
                         !.calls = [calls EXCEPT ![part.index + 1] =
                                        GenerateItemID("fc", acc.fresh)],
                         !.fresh = @ + 1]
         IN  Write(a, << Event("args_delta", a.calls[part.index + 1],
                               outputIndex(a, part.index)) >>)

CallPart(acc, part) == Arguments(NewCall(emitHeaderEvents(acc), part), part)

ToolCalls(acc, chunk) ==
    LET after[i \in 0 .. Len(chunk.calls)] ==
            IF i = 0 THEN acc ELSE CallPart(after[i - 1], chunk.calls[i])
    IN  after[Len(chunk.calls)]

FinishReason(acc, chunk) ==
    IF chunk.finish = "none" THEN acc ELSE [acc EXCEPT !.finish = chunk.finish]

CaptureUsage(acc, chunk) ==
    IF chunk.usage = 0 THEN acc ELSE [acc EXCEPT !.usage = chunk.usage]

\* One parsed chunk: usage first, the finish reason after the content.
ChatChunk(acc, chunk) ==
    LET a == CaptureUsage(acc, chunk) IN
    IF ~chunk.choices
    THEN a
    ELSE FinishReason(ToolCalls(Refusal(Content(a, chunk), chunk), chunk), chunk)

\* The items of the response, of the last event and of the stored record.
Output(acc) ==
    (IF messageStarted(acc) /\ acc.text THEN << acc.message >> ELSE <<>>) \o acc.calls

CloseMessage(acc) ==
    (IF messageStarted(acc) /\ acc.text THEN MessageDoneEvents(acc.message, 0) ELSE <<>>)
    \o (IF messageStarted(acc) /\ acc.refusal
        THEN << Event("refusal_done", acc.message, 0) >> ELSE <<>>)

\* Each call is closed under the index it has now.
CloseCalls(acc) ==
    [i \in 1 .. 2 * Len(acc.calls) |->
        LET call == (i + 1) \div 2 IN
        Event(IF i % 2 = 1 THEN "args_done" ELSE "item_done",
              acc.calls[call], outputIndex(acc, call - 1))]

TerminalType(acc) ==
    IF acc.finish \in {"length", "content_filter"} THEN "incomplete" ELSE "completed"

emitCompletionEvents(acc) ==
    Write(acc, CloseMessage(acc) \o CloseCalls(acc)
               \o ResponseEvent(TerminalType(acc), Output(acc), acc.usage))

\* Mutation: the response is stored before its last events are written.
Complete_SavesFirst(acc) == emitCompletionEvents(Write(acc, OnComplete(Output(acc))))

Complete(acc) == LET a == emitCompletionEvents(acc) IN Write(a, OnComplete(Output(a)))

\* After the loop: a stream that ended without [DONE] is completed all the
\* same, and one that wrote no header gets header and completion.
EndOfStream(acc) ==
    CASE acc.header /\ ~acc.completed -> Complete(acc)
      [] ~acc.header -> Complete(emitHeaderEvents(acc))
      [] OTHER -> acc

\* [DONE] ends the loop.
Done(acc) == EndOfStream([Complete(acc) EXCEPT !.completed = TRUE])
=============================================================================
