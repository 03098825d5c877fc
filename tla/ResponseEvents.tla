--------------------------- MODULE ResponseEvents ---------------------------
(* The server-sent events of the Responses API that the stream converters    *)
(* write, without their texts: the type of an event, the output item it is   *)
(* about, the output_index it names and, for the last event of a stream, the *)
(* items of the response and its usage.                                      *)
(*                                                                           *)
(* A converter is a set of functions on its accumulator.  The accumulator    *)
(* holds in `out` what the converter is about to write and in `fresh` the    *)
(* number of the next generated item id.                                     *)
EXTENDS Integers, Sequences

Event(type, item, index) ==
    [type |-> type, item |-> item, index |-> index, output |-> <<>>, usage |-> 0]

\* An item id: a prefix and a number no other item of the stream has.
NoItem == <<"", 0>>
GenerateItemID(prefix, n) == <<prefix, n>>

Write(acc, events) == [acc EXCEPT !.out = @ \o events]

HeaderEvents == << Event("created", NoItem, 0), Event("in_progress", NoItem, 0) >>

\* The item is announced, then the one content part it has.
MessageStartEvents(item, index) ==
    << Event("item_added", item, index), Event("part_added", item, index) >>

TextDelta(item, index) == << Event("text_delta", item, index) >>

MessageDoneEvents(item, index) ==
    << Event("text_done", item, index), Event("part_done", item, index),
       Event("item_done", item, index) >>

ItemAdded(item, index) == << Event("item_added", item, index) >>
ItemDone(item, index) == << Event("item_done", item, index) >>

\* The last event carries the whole response.
ResponseEvent(type, output, usage) ==
    << [type |-> type, item |-> NoItem, index |-> 0, output |-> output, usage |-> usage] >>

\* Not an event of the stream: the converter calls onComplete here.
OnComplete(output) == ResponseEvent("save", output, 0)

Terminals == {"completed", "incomplete"}

\* The message with an empty text that stands for an empty output.
EmptyMessage == << "msg", 0 >>
OrEmptyMessage(items) == IF items = <<>> THEN << EmptyMessage >> ELSE items
=============================================================================
