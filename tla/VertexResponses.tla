--------------------------- MODULE VertexResponses ---------------------------
(* Vertex AI chunks to Responses API events                                  *)
(* (internal/converter/vertex/responses/streaming.go).                       *)
(*                                                                           *)
(* A chunk is [type, parts, usage, finish]: the kinds of the parts of its    *)
(* first candidate, its usage and its finish reason.                         *)
EXTENDS ResponseEvents, FiniteSets, SequencesExt

vertexStreamAccumulator ==
    [header |-> FALSE, reasoning |-> NoItem, reasoningIndex |-> 0,
     message |-> NoItem, messageIndex |-> 0, calls |-> <<>>, images |-> <<>>,
     code |-> NoItem, codeIndex |-> 0, usage |-> 0, fresh |-> 1, out |-> <<>>]

Placed(item, index) == [item |-> item, index |-> index]

emitVertexHeaderEvents(acc) ==
    IF acc.header THEN acc ELSE Write([acc EXCEPT !.header = TRUE], HeaderEvents)

One(item) == IF item = NoItem THEN 0 ELSE 1

\* The next index: the number of the items started.
currentOutputIndex(acc) ==
    One(acc.reasoning) + One(acc.message) + Len(acc.calls) + Len(acc.images) + One(acc.code)

emitVertexMessageStart(acc) ==
    LET item == GenerateItemID("msg", acc.fresh)
        index == currentOutputIndex(acc)
    IN  IF acc.message # NoItem
        THEN acc
        ELSE Write([acc EXCEPT !.message = item, !.messageIndex = index, !.fresh = @ + 1],
                   MessageStartEvents(item, index))

processTextDelta(acc) ==
    LET a == emitVertexMessageStart(emitVertexHeaderEvents(acc)) IN
    Write(a, TextDelta(a.message, a.messageIndex))

\* The text of a thought is collected, not sent.
processThoughtDelta(acc) ==
    LET a == emitVertexHeaderEvents(acc)
        item == GenerateItemID("rs", a.fresh)
        index == currentOutputIndex(a)
    IN  IF a.reasoning # NoItem
        THEN a
        ELSE Write([a EXCEPT !.reasoning = item, !.reasoningIndex = index, !.fresh = @ + 1],
                   ItemAdded(item, index))

\* A call arrives whole: announced, filled and its arguments closed at once.
processFunctionCallPart(acc) ==
    LET a == emitVertexHeaderEvents(acc)
        item == GenerateItemID("fc", a.fresh)
        index == currentOutputIndex(a)
    IN  Write([a EXCEPT !.calls = Append(@, Placed(item, index)), !.fresh = @ + 1],
              ItemAdded(item, index)
              \o << Event("args_delta", item, index), Event("args_done", item, index) >>)

processImagePart(acc) ==
    LET a == emitVertexHeaderEvents(acc)
        item == GenerateItemID("ig", a.fresh)
        index == currentOutputIndex(a)
    IN  Write([a EXCEPT !.images = Append(@, Placed(item, index)), !.fresh = @ + 1],
              ItemAdded(item, index))

\* A second part of code replaces the first.
processCodePart(acc) ==
    LET a == emitVertexHeaderEvents(acc)
        item == GenerateItemID("ci", a.fresh)
        index == currentOutputIndex(a)
    IN  Write([a EXCEPT !.code = item, !.codeIndex = index, !.fresh = @ + 1],
              ItemAdded(item, index))

\* The result of code is kept for the response.
processPart(acc, part) ==
    CASE part = "thought" -> processThoughtDelta(acc)
      [] part = "call" -> processFunctionCallPart(acc)
      [] part = "code" -> processCodePart(acc)
      [] part = "image" -> processImagePart(acc)
      [] part = "text" -> processTextDelta(acc)
      [] OTHER -> acc

\* A chunk without candidates has its usage only.
VertexChunk(acc, chunk) ==
    LET after[i \in 0 .. Len(chunk.parts)] ==
            IF i = 0
            THEN IF chunk.usage = 0 THEN acc ELSE [acc EXCEPT !.usage = chunk.usage]
            ELSE processPart(after[i - 1], chunk.parts[i])
    IN  after[Len(chunk.parts)]

\* The items, each with the index it was announced under, in that order.  (The
\* choice has one candidate; TLC computes the list it is bound to only once.)
Items(acc) ==
    LET if(item, index) == IF item = NoItem THEN <<>> ELSE << Placed(item, index) >>
        started == if(acc.reasoning, acc.reasoningIndex) \o if(acc.message, acc.messageIndex)
                       \o acc.calls \o acc.images \o if(acc.code, acc.codeIndex)
        before(all, i) == {j \in DOMAIN all : \/ all[j].index < all[i].index
                                              \/ all[j].index = all[i].index /\ j < i}
        sorted(all) == [k \in DOMAIN all |->
                           all[CHOOSE i \in DOMAIN all : Cardinality(before(all, i)) = k - 1]]
    IN  CHOOSE items \in {sorted(all) : all \in {started}} : TRUE

VOutput(acc) ==
    OrEmptyMessage([i \in DOMAIN Items(acc) |-> Items(acc)[i].item])

Closure(acc, placed) ==
    IF placed.item = acc.message
    THEN MessageDoneEvents(placed.item, placed.index)
    ELSE ItemDone(placed.item, placed.index)

emitVertexCompletionEvents(acc) ==
    LET a == emitVertexHeaderEvents(acc) IN
    Write(a, FlattenSeq([i \in DOMAIN Items(a) |-> Closure(a, Items(a)[i])])
             \o ResponseEvent("completed", VOutput(a), a.usage))

\* After the loop, unless a read failed.
VEndOfStream(acc) ==
    LET a == emitVertexCompletionEvents(acc) IN Write(a, OnComplete(VOutput(a)))
=============================================================================
