---------------------------- MODULE StreamRelay ----------------------------
(* The streaming handlers of internal/proxy/stream.go: one streamed answer,  *)
(* from the provider's connection to the client, the goroutines and pipes    *)
(* between them, the stored response and the entry for the spend log.        *)
(*                                                                           *)
(* In a transformed stream `stage` holds the goroutines, the last of them    *)
(* the converter, and pipe[i] is the io.Pipe that stage i writes:            *)
(*   native      <<converter>>                    Anthropic, Vertex AI       *)
(*   bedrock     <<decoder, converter>>           TransformBedrockStream...  *)
(*   converted   <<decoder, copy, converter>>     handleResponsesAPIStreaming*)
(* A relay without stages ("raw", "responses") reads the provider itself.    *)
(* A write on a pipe returns when it was read or when the reader closed it.  *)
EXTENDS Integers, Sequences, SequencesExt

CONSTANTS
    Modes,      \* records [kind, stages, joins, drain, max, leaves] of streams to
                \* look at: max bounds the chunks, leaves says if the client may leave
    Chunks      \* what a provider sends, for each kind

Chat == INSTANCE ChatResponses
Anthropic == INSTANCE AnthropicResponses
Vertex == INSTANCE VertexResponses
Provider == INSTANCE ProviderChat
Body == INSTANCE ResponseBodies

Raw == {"raw", "responses"}
ToResponses == {"chat", "anthropic", "vertex"}
ToChat == {"anthropic_chat", "vertex_chat"}

Kinds == Raw \cup ToResponses \cup ToChat

ASSUME ModesAssumption ==
    \A mode \in Modes :
        /\ mode.kind \in DOMAIN Chunks \cap Kinds
        /\ mode.stages \in 0 .. 3
        /\ (mode.stages = 0) <=> (mode.kind \in Raw)
        /\ mode.joins => mode.stages > 1

CallParts == [index : Nat, id : BOOLEAN, args : BOOLEAN, of : Nat]
Parts == {"text", "thought", "call", "code", "result", "image"}

\* What the converters read of a chunk.  An Anthropic message ends with a
\* reason and with the tokens it took.
ASSUME ChunksAssumption ==
    \A kind \in DOMAIN Chunks : \A x \in Chunks[kind] :
        /\ x.type \notin {"eof", "failed", "save"} /\ x.usage \in Nat
        /\ x.type = "done" => x.usage = 0
        /\ kind \in {"chat", "vertex", "vertex_chat"} => x.type \in {"chunk", "done"}
        /\ kind \in {"vertex", "vertex_chat"} => x.type # "done"
        /\ kind = "chat" => x.calls \in Seq(CallParts) /\ x.image \in BOOLEAN /\ x.others \in BOOLEAN
        /\ kind \in {"vertex", "vertex_chat"} => x.parts \in Seq(Parts)
        /\ kind = "vertex" => x.search \in BOOLEAN /\ x.others \in Seq(Parts)
        /\ kind \in {"anthropic", "anthropic_chat"} /\ x.type = "message_delta" =>
               x.usage > 0 /\ x.stop # "none"
        /\ kind = "raw" => x.type = "chunk" \/ x.usage = 0
        /\ kind = "responses" => x.type \in {"delta", "half", "rest", "completed"}

VARIABLES
    mode,       \* the stream's handler, fixed
    sent,       \* what the provider has sent so far
    upstream,   \* the provider's connection: open, eof, failed or cancelled
    acc,        \* the accumulator of the converter
    stage,      \* the goroutines between provider and handler
    pipe,       \* and what each writes
    relay,      \* the handler
    client,     \* what the client has understood, and whether it left
    captured,   \* usage and last data that passed tokenCapturingWriter
    saved,      \* responses given to the store
    entry       \* the entry for the spend log

streamVars == <<mode, sent, upstream, acc, stage, pipe, relay, client, captured, saved, entry>>
pipeline == <<acc, stage, pipe>>

Top == mode.stages
NoEntry == [tokens |-> 0, charged |-> 0, status |-> "none"]
Eof == [type |-> "eof"]
Failed == [type |-> "failed"]

\* ------------------------------------------------------------ the converters
Accumulator(kind) ==
    CASE kind = "chat" -> Chat!streamAccumulator
      [] kind = "anthropic" -> Anthropic!anthropicStreamAccumulator
      [] kind = "vertex" -> Vertex!vertexStreamAccumulator
      [] kind = "anthropic_chat" -> Provider!AnthropicStart
      [] kind = "vertex_chat" -> Provider!VertexStart
      [] OTHER -> [out |-> <<>>]

Feed(kind, a, x) ==
    CASE kind = "chat" -> IF x.type = "done" THEN Chat!Done(a) ELSE Chat!ChatChunk(a, x)
      [] kind = "anthropic" -> Anthropic!processAnthropicEvent(a, x)
      [] kind = "vertex" -> Vertex!VertexChunk(a, x)
      [] kind = "anthropic_chat" -> Provider!AnthropicChat(a, x)
      [] kind = "vertex_chat" -> Provider!VertexChat(a, x)

AtEof(kind, a) ==
    CASE kind = "chat" -> Chat!EndOfStream(a)
      [] kind = "anthropic" -> Anthropic!AEndOfStream(a)
      [] kind = "vertex" -> Vertex!VEndOfStream(a)
      [] kind \in ToChat -> Provider!EndOfChat(a)

\* A failed read ends the stream without its completion events.
AtFailure(kind, a) == IF kind = "vertex_chat" THEN Provider!EndOfChat(a) ELSE a

Converted(kind, a, x) ==
    CASE x.type = "eof" -> AtEof(kind, a)
      [] x.type = "failed" -> AtFailure(kind, a)
      [] OTHER -> Feed(kind, a, x)

EndsLoop(kind, x) == x.type \in {"eof", "failed"} \/ (kind = "chat" /\ x.type = "done")

\* -------------------------------------------------------------- the provider
\* Its own rules: Anthropic sends one block at a time and the deltas of its
\* type within; response.completed, in one read or cut in two, is the last line
\* and so is [DONE]; a chat stream has its usage in its last chunk.
Open(events) ==
    LET marks == SelectSeq(events, LAMBDA e : e.type \in {"block_start", "block_stop"})
    IN  IF marks # <<>> /\ marks[Len(marks)].type = "block_start"
        THEN marks[Len(marks)].block
        ELSE "none"

Cut(chunks) == chunks # <<>> /\ chunks[Len(chunks)].type = "half"

Allowed(x) ==
    /\ \A i \in DOMAIN sent : sent[i].type # "done"
    /\ CASE mode.kind \in {"anthropic", "anthropic_chat"} ->
               CASE x.type = "message_start" -> sent = <<>>
                 [] x.type = "block_start" -> Open(sent) = "none"
                 [] x.type = "block_delta" -> Open(sent) \in x.blocks
                 [] x.type = "block_stop" -> Open(sent) # "none"
                 [] x.type = "message_delta" -> Open(sent) = "none"
                 [] OTHER -> TRUE
         [] mode.kind = "responses" ->
               /\ (x.type = "rest") <=> Cut(sent)
               /\ \A i \in DOMAIN sent : sent[i].type \notin {"completed", "rest"}
         [] mode.kind = "raw" -> x.type = "done" \/ \A i \in DOMAIN sent : sent[i].usage = 0
         [] OTHER -> TRUE

\* What a read of the provider's body returns.
UpstreamGives(x) ==
    \/ /\ upstream = "open"
       /\ Len(sent) < mode.max
       /\ x \in Chunks[mode.kind]
       /\ Allowed(x)
       /\ sent' = Append(sent, x)
       /\ UNCHANGED upstream
    \/ /\ upstream \in {"open", "eof"} /\ x = Eof
       /\ upstream' = "eof" /\ UNCHANGED sent
    \/ /\ upstream = "open" /\ x = Failed
       /\ upstream' = "failed" /\ UNCHANGED sent
    \/ /\ upstream \in {"failed", "cancelled"} /\ x = Failed
       /\ UNCHANGED <<upstream, sent>>

Received == Chunks[mode.kind] \cup {Eof, Failed}

\* ------------------------------------------------------------- the goroutines
Stage(pending, state, result) == [pending |-> pending, state |-> state, result |-> result]

StageTakes(i, x) ==
    LET ends == IF i = Top THEN EndsLoop(mode.kind, x) ELSE x.type \in {"eof", "failed"}
        a == IF i = Top THEN Converted(mode.kind, acc, x) ELSE acc
        output == IF i = Top THEN a.out ELSE IF ends THEN <<>> ELSE << x >>
    IN  /\ acc' = IF i = Top THEN [a EXCEPT !.out = <<>>] ELSE acc
        /\ stage' = [stage EXCEPT ![i] =
                        Stage(output, IF ends THEN "over" ELSE "run",
                              IF x.type = "failed" THEN "failed" ELSE "eof")]

Idle(i) == stage[i].state = "run" /\ stage[i].pending = <<>> /\ pipe[i].slot = <<>>

ReadBody ==
    /\ Top > 0 /\ Idle(1)
    /\ \E x \in Received : UpstreamGives(x) /\ StageTakes(1, x)
    /\ UNCHANGED <<mode, pipe, relay, client, captured, saved, entry>>

\* A pipe gives what is in it, and when it is empty how it was closed.
ReadPipe(i) ==
    /\ Idle(i)
    /\ \/ /\ pipe[i - 1].slot # <<>>
          /\ StageTakes(i, pipe[i - 1].slot[1])
          /\ pipe' = [pipe EXCEPT ![i - 1].slot = <<>>]
       \/ /\ pipe[i - 1].slot = <<>> /\ pipe[i - 1].wclosed # "no"
          /\ StageTakes(i, [type |-> pipe[i - 1].wclosed])
          /\ UNCHANGED pipe
    /\ UNCHANGED <<mode, sent, upstream, relay, client, captured, saved, entry>>

\* The tokens a chunk names, 0 when it names none: total_tokens at the top of a
\* chat chunk or in the response of a Responses event.
extractTokensFromStreamingChunk(x) == x.usage

\* Its prompt and completion tokens, which the two forms name differently.
extractChatCompletionUsage(x) == IF x.type = "chunk" THEN x.usage ELSE 0
extractResponsesAPIUsage(x) == IF x.type \in Chat!Terminals THEN x.usage ELSE 0
ExtractUsage(x) == IF extractChatCompletionUsage(x) > 0 THEN extractChatCompletionUsage(x)
                   ELSE extractResponsesAPIUsage(x)

extractStreamErrorEvent(x) == x.type = "error"

\* The latest data, which [DONE] is not.
NoData == [type |-> "none", usage |-> 0]
rememberLastStreamDataChunk(x) ==
    IF x.type = "done" THEN captured.last ELSE [type |-> x.type, usage |-> x.usage]

\* The last writer keeps the latest usage and the latest data.
tokenCapturingWriter(e) ==
    LET n == extractTokensFromStreamingChunk(e)
    IN  captured' = [tokens |-> IF n > 0 THEN n ELSE captured.tokens,
                     last |-> rememberLastStreamDataChunk(e), partial |-> FALSE]

Capture(i, e) == IF i = Top THEN tokenCapturingWriter(e) ELSE UNCHANGED captured

Pending(i) == stage[i].pending # <<>>
Saves(i) == Pending(i) /\ Head(stage[i].pending).type = "save"

Put(i) ==
    /\ Pending(i) /\ ~Saves(i)
    /\ pipe[i].slot = <<>> /\ ~pipe[i].rclosed
    /\ pipe' = [pipe EXCEPT ![i].slot = << Head(stage[i].pending) >>]
    /\ stage' = [stage EXCEPT ![i].pending = Tail(@)]
    /\ Capture(i, Head(stage[i].pending))
    /\ UNCHANGED <<mode, sent, upstream, acc, relay, client, saved, entry>>

\* The reader closed the pipe: the write fails and the stage returns.
WriteFails(i) ==
    /\ pipe[i].rclosed
    /\ pipe[i].slot # <<>> \/ (Pending(i) /\ ~Saves(i))
    /\ pipe' = [pipe EXCEPT ![i].slot = <<>>]
    /\ stage' = [stage EXCEPT ![i] = Stage(<<>>, "over", "failed")]
    /\ IF pipe[i].slot = <<>> THEN Capture(i, Head(stage[i].pending)) ELSE UNCHANGED captured
    /\ UNCHANGED <<mode, sent, upstream, acc, relay, client, saved, entry>>

\* onComplete runs when the events before it have been read.
SaveResponse(i) ==
    /\ Saves(i) /\ pipe[i].slot = <<>>
    /\ saved' = Append(saved, Head(stage[i].pending).output)
    /\ stage' = [stage EXCEPT ![i].pending = Tail(@)]
    /\ UNCHANGED <<mode, sent, upstream, acc, pipe, relay, client, captured, entry>>

Over(i) == stage[i].state = "over" /\ ~Pending(i) /\ pipe[i].slot = <<>>

\* Mutation: the converter waits for the stage before it without closing.
EndStage_NoClose(i) ==
    /\ \/ Over(i) /\ ~(i = Top /\ mode.joins)
       \/ i > 1 /\ Over(i) /\ stage[i - 1].state = "ended"
    /\ stage' = [stage EXCEPT ![i].state = "ended"]
    /\ pipe' = [pipe EXCEPT ![i].wclosed = stage[i].result]
    /\ UNCHANGED <<mode, sent, upstream, acc, relay, client, captured, saved, entry>>

\* The stage returns and closes its end.  handleResponsesAPIStreaming first
\* closes the pipe it read and waits for its writer; the Bedrock converters
\* leave theirs open.
EndStage(i) ==
    /\ Over(i)
    /\ IF i = Top /\ mode.joins /\ stage[i - 1].state # "ended"
       THEN /\ ~pipe[i - 1].rclosed
            /\ pipe' = [pipe EXCEPT ![i - 1].rclosed = TRUE]
            /\ UNCHANGED stage
       ELSE /\ stage' = [stage EXCEPT ![i].state = "ended"]
            /\ pipe' = [pipe EXCEPT ![i].wclosed =
                            IF i = Top /\ mode.joins THEN stage[i - 1].result
                            ELSE stage[i].result]
    /\ UNCHANGED <<mode, sent, upstream, acc, relay, client, captured, saved, entry>>

Goroutine(i) ==
    \/ i > 1 /\ ReadPipe(i)
    \/ Put(i) \/ WriteFails(i) \/ SaveResponse(i) \/ EndStage(i)

\* ------------------------------------------------- the client's understanding
\* An SDK follows the events: the header, then each item announced under an
\* index of its own and named by it, then the last event.
Announced(view, e) == <<e.item, e.index>> \in view.items

FollowEvent(view, e) ==
    LET body == view.started /\ ~view.ended IN
    CASE e.type = "created" -> [view EXCEPT !.ok = @ /\ ~view.started, !.started = TRUE]
      [] e.type = "in_progress" -> [view EXCEPT !.ok = @ /\ body]
      [] e.type = "item_added" ->
            [view EXCEPT
               !.ok = @ /\ body /\ \A known \in view.items : known[2] # e.index /\ known[1] # e.item,
               !.items = @ \cup {<<e.item, e.index>>}]
      [] e.type = "item_done" ->
            [view EXCEPT !.ok = @ /\ body /\ Announced(view, e), !.closed = @ \cup {e.item}]
      [] e.type \in Chat!Terminals ->
            [view EXCEPT !.ok = @ /\ body, !.ended = TRUE, !.output = e.output]
      [] OTHER ->
            [view EXCEPT !.ok = @ /\ body /\ Announced(view, e) /\ e.item \notin view.closed]

\* A chat client puts the parts of a call together by their index.
FollowChunk(view, e) ==
    LET parts == {<<e.calls[i].of, e.calls[i].index>> : i \in DOMAIN e.calls}
        calls == view.items \cup parts
    IN  IF e.type = "done"
        THEN [view EXCEPT !.ended = TRUE]
        ELSE [view EXCEPT !.items = calls,
                !.ok = @ /\ ~view.ended
                         /\ \A c, d \in calls : (c[1] = d[1]) <=> (c[2] = d[2])]

Follow(view, e) ==
    CASE mode.kind \in ToResponses -> FollowEvent(view, e)
      [] mode.kind \in ToChat -> FollowChunk(view, e)
      [] mode.kind = "responses" /\ e.type \in {"completed", "rest"} ->
            [view EXCEPT !.ended = TRUE, !.output = e.output]
      [] OTHER -> view

\* ----------------------------------------------------------------- the handler
Relay(pc, hold) == [relay EXCEPT !.pc = pc, !.hold = hold]

RelayReads ==
    /\ relay.pc = "read" /\ Top > 0
    /\ \/ /\ pipe[Top].slot # <<>>
          /\ relay' = Relay("send", pipe[Top].slot)
          /\ pipe' = [pipe EXCEPT ![Top].slot = <<>>]
       \/ /\ pipe[Top].slot = <<>> /\ pipe[Top].wclosed # "no"
          /\ relay' = Relay("wait", <<>>) \* a failed read ends the loop like EOF
          /\ UNCHANGED pipe
    /\ UNCHANGED <<mode, sent, upstream, acc, stage, client, captured, saved, entry>>

\* A chat stream adds up the tokens of its chunks.
Summed(x) == IF mode.kind = "raw" THEN extractTokensFromStreamingChunk(x) ELSE 0

\* completedEventPayload, the whole event when it came in two reads.
Completed(x) == [type |-> "completed", usage |-> x.usage]

\* Mutation: what is left of a line is forgotten between two reads.
onChunk_NoPartialLine(x) ==
    LET complete == mode.kind = "responses" /\ x.type = "completed" IN
    /\ captured' = [tokens |-> IF complete THEN x.usage
                               ELSE captured.tokens + Summed(x),
                    last |-> IF complete THEN Completed(x) ELSE rememberLastStreamDataChunk(x),
                    partial |-> FALSE]
    /\ saved' = IF complete THEN Append(saved, x.output) ELSE saved

\* For each read of a relay without stages: a stream of Responses events waits for response.completed, which may come
\* in two reads, takes its usage and saves it.
onChunk(x) ==
    LET complete == mode.kind = "responses"
                    /\ (x.type = "completed" \/ (x.type = "rest" /\ captured.partial))
    IN  /\ captured' = [tokens |-> IF complete THEN x.usage
                                   ELSE captured.tokens + Summed(x),
                        last |-> IF complete THEN Completed(x) ELSE rememberLastStreamDataChunk(x),
                        partial |-> x.type = "half"]
        /\ saved' = IF complete THEN Append(saved, x.output) ELSE saved

RelayReadsBody ==
    /\ relay.pc = "read" /\ Top = 0
    /\ \E x \in Received :
         /\ UpstreamGives(x)
         /\ IF x.type \in {"eof", "failed"}
            THEN relay' = Relay("wait", <<>>) /\ UNCHANGED <<captured, saved>>
            ELSE relay' = Relay("send", << x >>) /\ onChunk(x)
    /\ UNCHANGED <<mode, acc, stage, pipe, client, entry>>

\* A write to a client that left may still succeed.
SendSucceeds ==
    /\ relay.pc = "send"
    /\ client' = IF client.gone THEN client
                 ELSE [client EXCEPT !.view = Follow(@, relay.hold[1])]
    /\ relay' = Relay("read", <<>>)
    /\ UNCHANGED <<mode, sent, upstream, acc, stage, pipe, captured, saved, entry>>

SendFails ==
    /\ relay.pc = "send" /\ client.gone
    /\ relay' = [Relay(IF Top = 0 /\ mode.drain THEN "drain" ELSE "wait", <<>>)
                 EXCEPT !.aborted = TRUE]
    /\ pipe' = IF Top = 0 THEN pipe ELSE [pipe EXCEPT ![Top].rclosed = TRUE]
    /\ UNCHANGED <<mode, sent, upstream, acc, stage, client, captured, saved, entry>>

\* Only relays without stages read on for a client that left, and only if
\* drain_upstream_on_abort says so, until the body ends or the time is up.
drainUpstream ==
    /\ relay.pc = "drain"
    /\ \/ \E x \in Received :
            /\ UpstreamGives(x)
            /\ IF x.type \in {"eof", "failed"}
               THEN relay' = Relay("wait", <<>>) /\ UNCHANGED <<captured, saved>>
               ELSE onChunk(x) /\ UNCHANGED relay
       \/ relay' = Relay("wait", <<>>) /\ UNCHANGED <<sent, upstream, captured, saved>>
    /\ UNCHANGED <<mode, acc, stage, pipe, client, entry>>

\* A stream that was not broken off is charged; a last error event makes the
\* entry a failure.  The usage of the last data goes before the tokens counted;
\* without any usage the text is counted (tokens 0 here).
Entry ==
    LET usage == ExtractUsage(captured.last)
    IN  [tokens |-> IF usage > 0 THEN usage ELSE captured.tokens,
         charged |-> IF relay.aborted THEN 0 ELSE captured.tokens,
         status |-> IF extractStreamErrorEvent(captured.last) THEN "failure" ELSE "success"]

\* Mutation: the handler of a broken stream does not wait for the converter.
finalizeStreamingLog_NoWait ==
    /\ relay.pc = "wait"
    /\ entry' = Entry
    /\ relay' = Relay("done", <<>>)
    /\ UNCHANGED <<mode, sent, upstream, acc, stage, pipe, client, captured, saved>>

\* wg.Wait, then the entry; the deferred pr.Close.
finalizeStreamingLog ==
    /\ relay.pc = "wait"
    /\ Top > 0 => stage[Top].state = "ended"
    /\ entry' = Entry
    /\ relay' = Relay("done", <<>>)
    /\ UNCHANGED <<mode, sent, upstream, acc, stage, pipe, client, captured, saved>>

Handler ==
    RelayReads \/ RelayReadsBody \/ SendSucceeds \/ SendFails \/ drainUpstream
        \/ finalizeStreamingLog

\* ------------------------------------------------------------ the environment
ClientLeaves ==
    /\ mode.leaves /\ ~client.gone /\ relay.pc # "done"
    /\ client' = [client EXCEPT !.gone = TRUE]
    /\ UNCHANGED <<mode, sent, upstream, pipeline, relay, captured, saved, entry>>

\* The request to the provider carries the client's context: the server cancels
\* it when the client left or the handler returned, and reads fail.
ContextCancelled ==
    /\ client.gone \/ relay.pc = "done"
    /\ upstream = "open"
    /\ upstream' = "cancelled"
    /\ UNCHANGED <<mode, sent, pipeline, relay, client, captured, saved, entry>>

StreamInit ==
    /\ mode \in Modes
    /\ sent = <<>> /\ upstream = "open"
    /\ acc = Accumulator(mode.kind)
    /\ stage = [i \in 1 .. mode.stages |-> Stage(<<>>, "run", "eof")]
    /\ pipe = [i \in 1 .. mode.stages |-> [slot |-> <<>>, wclosed |-> "no", rclosed |-> FALSE]]
    /\ relay = [pc |-> "read", hold |-> <<>>, aborted |-> FALSE]
    /\ client = [gone |-> FALSE,
                 view |-> [ok |-> TRUE, started |-> FALSE, ended |-> FALSE,
                           items |-> {}, closed |-> {}, output |-> <<>>]]
    /\ captured = [tokens |-> 0, last |-> NoData, partial |-> FALSE]
    /\ saved = <<>>
    /\ entry = NoEntry

StreamNext ==
    \/ ReadBody
    \/ \E i \in DOMAIN stage : Goroutine(i)
    \/ Handler
    \/ ClientLeaves
    \/ ContextCancelled

\* Goroutines run, a body that is read gives something or ends, and the server
\* notices that a client left.
StreamSpec ==
    /\ StreamInit /\ [][StreamNext]_streamVars
    /\ WF_streamVars(ReadBody)
    /\ \A i \in 1 .. 3 : WF_streamVars(i \in DOMAIN stage /\ Goroutine(i))
    /\ WF_streamVars(Handler)
    /\ WF_streamVars(ContextCancelled)

-----------------------------------------------------------------------------
(* Streams the converters do not translate, by what the provider sent; the   *)
(* README lists them.                                                        *)
Texts(x) == x.text \/ x.refusal

\* Chat: a call before the message, a call not named or named twice, a gap in
\* the numbers, a text and a refusal, [DONE] before anything else.
ChatRegular ==
    LET parts == FlattenSeq([i \in DOMAIN sent |-> sent[i].calls])
        named == SelectSeq(parts, LAMBDA part : part.id)
    IN  /\ \A i, j \in DOMAIN sent :
              i < j /\ sent[i].calls # <<>> /\ Texts(sent[j]) => \E k \in 1 .. i : Texts(sent[k])
        /\ \A i \in DOMAIN named : named[i].index = i - 1
        /\ \A i \in DOMAIN parts : parts[i].id \/ \E j \in 1 .. i : parts[j].id /\ parts[j].index = parts[i].index
        /\ ~\E i, j \in DOMAIN sent : sent[i].text /\ sent[j].refusal
        /\ \A i \in DOMAIN sent :
              sent[i].type = "done" => \E k \in 1 .. i : Texts(sent[k]) \/ sent[k].calls # <<>>

Opens(i, blocks) == sent[i].type = "block_start" /\ sent[i].block \in blocks
Delta(i, delta) == sent[i].type = "block_delta" /\ sent[i].delta = delta

\* Anthropic: a thought after a text, a thought without a text.
AnthropicRegular ==
    \A i \in DOMAIN sent : Opens(i, {"thinking"}) =>
        /\ \A k \in 1 .. i : ~Delta(k, "text")
        /\ i < Len(sent) => Delta(i + 1, "thinking")

\* Vertex AI: two parts of code; to a chat client, calls in two chunks.
VertexParts == FlattenSeq([i \in DOMAIN sent |-> sent[i].parts])
Count(part) == Len(SelectSeq(VertexParts, LAMBDA p : p = part))
VertexRegular == Count("code") <= 1
VertexChatRegular ==
    ~\E i, j \in DOMAIN sent : i < j /\ \E k \in DOMAIN sent[i].parts, l \in DOMAIN sent[j].parts :
        sent[i].parts[k] = "call" /\ sent[j].parts[l] = "call"

Regular ==
    CASE mode.kind = "chat" -> ChatRegular
      [] mode.kind = "anthropic" -> AnthropicRegular
      [] mode.kind = "vertex" -> VertexRegular
      [] mode.kind = "vertex_chat" -> VertexChatRegular
      [] OTHER -> TRUE

\* A provider's stream that ends between blocks, without a refusal.
Whole ==
    CASE mode.kind = "chat" -> \A i \in DOMAIN sent : ~sent[i].refusal
      [] mode.kind = "anthropic" -> Open(sent) = "none"
      [] OTHER -> TRUE

-----------------------------------------------------------------------------
\* A client that follows the events of a regular stream never meets one about
\* an item it does not know, an index taken twice, or anything after the last
\* event; a chat client never mixes two calls.
ClientCanFollow == Regular => client.view.ok

\* The last event of a regular, whole stream lists exactly the items the client
\* was told of, each of them closed, and in the order of their indexes except
\* for Anthropic's message.
EndIsComplete ==
    Regular /\ Whole /\ mode.kind \in ToResponses /\ client.view.ended =>
        LET items == {known[1] : known \in client.view.items}
            output == client.view.output
        IN  IF items = {}
            THEN ToSet(output) \subseteq {Chat!EmptyMessage}
            ELSE /\ ToSet(output) = items
                 /\ client.view.closed = items
                 /\ mode.kind # "anthropic" =>
                        \A i \in DOMAIN output : <<output[i], i - 1>> \in client.view.items

Kind(item) ==
    CASE item[1] = "msg" -> "message" [] item[1] = "rs" -> "reasoning"
      [] item[1] = "fc" -> "call" [] item[1] = "ig" -> "image" [] item[1] = "ci" -> "code"

\* The provider's answer as one body: its choices or candidates, of which the
\* streams show the first, and its blocks.
ChatChoices ==
    LET named(i) == SelectSeq(sent[i].calls, LAMBDA part : part.id)
        others == \E i \in DOMAIN sent : sent[i].others
    IN  << [message |-> \E i \in DOMAIN sent : sent[i].text \/ sent[i].refusal,
            images |-> Cardinality({i \in DOMAIN sent : sent[i].image}),
            calls |-> Len(FlattenSeq([i \in DOMAIN sent |-> named(i)]))] >>
        \o (IF others THEN << [message |-> TRUE, images |-> 0, calls |-> 0] >> ELSE <<>>)

VertexCandidates ==
    LET others == FlattenSeq([i \in DOMAIN sent |-> sent[i].others])
    IN  << [parts |-> VertexParts, search |-> \E i \in DOMAIN sent : sent[i].search] >>
        \o (IF others # <<>> THEN << [parts |-> others, search |-> FALSE] >> ELSE <<>>)

Blocks == LET starts == SelectSeq(sent, LAMBDA e : e.type = "block_start")
          IN  [i \in DOMAIN starts |-> starts[i].block]

BodyKinds(alternatives) ==
    CASE mode.kind = "chat" -> Body!ChatToResponse(alternatives, <<>>)
      [] mode.kind = "anthropic" -> Body!anthropicContentToOutputItems(Head(alternatives))
      [] mode.kind = "vertex" -> Body!candidatesToOutputItems(alternatives)

Alternatives ==
    CASE mode.kind = "chat" -> ChatChoices
      [] mode.kind = "vertex" -> VertexCandidates
      [] mode.kind = "anthropic" -> << Blocks >>

\* What no event of a stream is ever about: the images of a chat answer and
\* the searches of the web that Vertex AI made.
Unstreamed == CASE mode.kind = "chat" -> {"image"} [] mode.kind = "vertex" -> {"search"} [] OTHER -> {}

Calls(kinds) == SelectSeq(kinds, LAMBDA k : k \notin {"message", "reasoning"} \cup Unstreamed)
StreamKinds ==
    Body!OrMessage([i \in DOMAIN client.view.output |-> Kind(client.view.output[i])])

\* A streamed answer has the calls, in order, that the first choice or
\* candidate of the same answer gives when it is not streamed, and a message if
\* that gives one; what is never streamed is left out on both sides.
BodyAgrees ==
    Regular /\ Whole /\ mode.kind \in ToResponses /\ client.view.ended =>
        \A kinds \in {BodyKinds(<< Head(Alternatives) >>)}, told \in {StreamKinds} :
            /\ Calls(told) = Calls(kinds)
            /\ "message" \in ToSet(told) => "message" \in ToSet(kinds) \/ ToSet(kinds) \subseteq Unstreamed
            /\ mode.kind # "anthropic" => ("message" \in ToSet(kinds) => "message" \in ToSet(told))

\* The end of a streamed answer is what the client was told and, but for the
\* kinds of items that no stream carries, what the first choice or candidate of
\* the same answer would have given without streaming.
AnswerIsWhole == EndIsComplete /\ BodyAgrees

\* A response is stored once and never before its last event has left; what is
\* stored is what the client was told.
StoredIsSent ==
    Regular => /\ Len(saved) <= 1
               /\ saved # <<>> /\ ~client.gone /\ relay.hold = <<>> =>
                      client.view.ended /\ saved[1] = client.view.output

\* What the last chunk of a type that names any usage says, and the usage of an
\* answer by what was sent.
Latest(chunks, type) ==
    LET at == {i \in DOMAIN chunks : chunks[i].type = type /\ chunks[i].usage > 0}
    IN  IF at = {} THEN 0 ELSE chunks[Max(at)].usage

UsageOf(chunks) ==
    LET of(type) == Latest(chunks, type) IN
    CASE mode.kind = "anthropic" -> of("message_start") + of("message_delta")
      [] mode.kind = "anthropic_chat" ->
            IF of("message_delta") = 0 THEN 0 ELSE of("message_start") + of("message_delta")
      [] mode.kind = "responses" -> of("completed") + of("rest")
      [] OTHER -> of("chunk")

\* The usage of an answer that was read to its end is in its entry, also when
\* the client had left before and the rest was drained.
UsageLogged ==
    entry # NoEntry /\ upstream = "eof" /\ (relay.aborted => Top = 0) => entry.tokens = UsageOf(sent)

\* The entry is made when the converter has returned: nothing it is made from,
\* and nothing stored, changes afterwards.
LoggedLast == [][entry # NoEntry => UNCHANGED <<captured, saved, acc, entry>>]_streamVars

\* Every handler returns and with it every goroutine, but for the decoder of
\* Bedrock's frames, whose pipe nobody closes.
Decoder(i) == i = 1 /\ mode.stages > 1
Ends ==
    <>[](relay.pc = "done" /\ \A i \in DOMAIN stage : stage[i].state = "ended" \/ Decoder(i))

\* Refuted: "When true, keep reading upstream after client disconnect to capture
\* real usage chunk" (internal/config/config.go:441).  The context of the
\* request that reads upstream ends with the client.
DrainReadsToEnd ==
    relay.aborted /\ mode.drain /\ relay.pc = "wait" => upstream # "cancelled"

\* Refuted: that a client gets the same items with and without streaming.
\* Images of a chat answer, searches of Vertex AI and every choice or candidate
\* after the first are in the body only.
StreamHasAllItems ==
    Regular /\ Whole /\ mode.kind \in {"chat", "vertex"} /\ client.view.ended =>
        ToSet(BodyKinds(Alternatives)) \subseteq ToSet(StreamKinds)

\* Refuted: that also the decoder's goroutine ends.
DecoderEnds == <>[](\A i \in DOMAIN stage : stage[i].state = "ended")
=============================================================================
