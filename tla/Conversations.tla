---------------------------- MODULE Conversations ----------------------------
(* Conversations over /v1/responses: a request may continue an earlier       *)
(* response by its id.  The router looks the id up in the response store     *)
(* (bbolt or Redis), puts the stored input and output before the new input,  *)
(* lets a provider answer, saves the answer when store is true, and tells it *)
(* the client, over HTTP or over a WebSocket, whose connection keeps the     *)
(* responses of store:false for itself.  Who speaks the Responses API itself *)
(* ("native": a provider, or a router that is a credential like any other)   *)
(* and the router of the fallback ("router") may know earlier responses too; *)
(* "chat" is everybody whose answers are converted, a router for whose model *)
(* passthrough_responses is false among them.  One API key; a response is    *)
(* known by the number of its turn.                                          *)
EXTENDS Integers, Sequences, SequencesExt, FiniteSetsExt

CONSTANTS
    Shapes,     \* what requests look like: [via, store, stream, ttl]
    MaxTurns,   \* bound: requests
    MaxRunning, \* bound: requests at a time
    MaxFaults,  \* bound: failed calls, failed lookups and saves, crashes, disconnects
    MaxTime     \* bound: the clock

ASSUME BoundsAssumption ==
    /\ MaxTurns \in Nat /\ MaxRunning \in Nat /\ MaxFaults \in Nat /\ MaxTime \in Nat
    /\ \A s \in Shapes : /\ s.via \in {"http", "ws"} /\ s.store \in {"true", "false", "absent"}
                         /\ s.stream \in BOOLEAN /\ s.ttl \in Nat

VARIABLES
    turn,    \* the requests, in the order they came
    stored,  \* the response store: the entry of a response, if there is one
    conn,    \* the WebSocket connection: its number, whether it is open, the turn it runs
    local,   \* localCache of the connection
    clock,
    faults

vars == <<turn, stored, conn, local, clock, faults>>

Turns == 1 .. MaxTurns
In(t) == <<"in", t>>
Out(t) == <<"out", t>>
NoEntry == [expires |-> -1, acc |-> <<>>, cred |-> "none"]
Asked == DOMAIN turn

\* ttl 0 never expires.
Expires(ttl) == IF ttl > 0 THEN clock + ttl ELSE 0
Expired(entry) == entry.expires > 0 /\ clock >= entry.expires
\* GetEntry and GetResponse find what is stored and has not expired.
Found(id) == stored[id] # NoEntry /\ ~Expired(stored[id])

----------------------------------------------------------------------------
(* A request arrives.                                                       *)

\* The client may continue any response it was told of.
Known == {0} \cup {t \in Asked : turn[t].told}

Room ==
    /\ Len(turn) < MaxTurns
    /\ Cardinality({t \in Asked : turn[t].pc \notin {"over", "killed"}}) < MaxRunning

\* prev is what the client wrote, asks what is left of it in the body.
NewTurn(shape, prev, body) ==
    [shape |-> shape, prev |-> prev, asks |-> body.asks, body |-> body.items, pc |-> "load",
     handled |-> FALSE, dest |-> "none", seen |-> <<>>, outcome |-> "none",
     told |-> FALSE, save |-> "none", conn |-> IF shape.via = "ws" THEN conn.number ELSE 0]

Ask(shape) ==
    /\ shape.via = "http" /\ Room
    /\ \E prev \in Known :
         turn' = Append(turn, NewTurn(shape, prev, [asks |-> prev, items |-> << In(Len(turn) + 1) >>]))
    /\ UNCHANGED <<stored, conn, local, clock, faults>>

\* Only an explicit store:false asks the connection's cache, which then
\* answers for previous_response_id: PrependOutputToInput.
PrependOutputToInput(prev, t) == [asks |-> 0, items |-> << Out(prev), In(t) >>]

\* An error event instead of a turn: the loop reads the next message.
Rejected(t, shape, prev) ==
    [NewTurn(shape, prev, [asks |-> 0, items |-> << In(t) >>]) EXCEPT !.pc = "over", !.outcome = "refused"]

AskWebSocket(shape) ==
    /\ shape.via = "ws" /\ Room /\ conn.open /\ conn.turn = 0
    /\ \E prev \in Known :
         LET t == Len(turn) + 1
             cached == shape.store = "false" /\ prev # 0
         IN  \/ /\ ~cached
                /\ turn' = Append(turn, NewTurn(shape, prev, [asks |-> prev, items |-> << In(t) >>]))
                /\ conn' = [conn EXCEPT !.turn = t]
                /\ UNCHANGED local
             \/ /\ cached /\ prev \in local
                /\ turn' = Append(turn, NewTurn(shape, prev, PrependOutputToInput(prev, t)))
                /\ conn' = [conn EXCEPT !.turn = t]
                /\ UNCHANGED local
             \/ /\ cached \* not found, or a call_id that the previous response has not
                /\ turn' = Append(turn, Rejected(t, shape, prev))
                /\ local' = local \ {prev}
                /\ UNCHANGED conn
    /\ UNCHANGED <<stored, clock, faults>>

----------------------------------------------------------------------------
(* The history, and the request for a credential.                           *)

PrependHistoryToInput(id, input) == stored[id].acc \o << Out(id) >> \o input

Fault(b) == b => faults < MaxFaults
Faults(b) == faults' = IF b THEN faults + 1 ELSE faults

\* A provider may keep its responses, the provider behind a router too; the
\* router of the fallback those it was asked to store, which a body prepared
\* for a native provider does not do any more.
MayKeep(x) ==
    /\ x.outcome = "completed"
    /\ \/ x.dest = "native"
       \/ x.dest = "router" /\ x.shape.store = "true"

\* What is known where the request goes: who kept the response of an id puts
\* what it saw then before the input, everybody else takes the body as it is.
MayResolve(dest, id) == id # 0 /\ turn[id].dest = dest /\ MayKeep(turn[id])
Seen(dest, body, id) ==
    {body} \cup IF MayResolve(dest, id) THEN {turn[id].seen \o << Out(id) >> \o body} ELSE {}

\* Mutation: previous_response_id stays in the body also when its history was put there.
PrepareCodexPassthrough_KeepsID(x) == x.asks

\* previous_response_id goes on to a native provider, and to a router that
\* passes on to one, unless its history was found.
PrepareCodexPassthrough(x) == IF x.handled THEN 0 ELSE x.asks

\* RequestToChat and the converters leave the id out, and a router that is
\* asked on /chat/completions does not read it; the router of the fallback
\* gets the body as the client sent it, with the history in it, or prepared
\* for the router before it, when the id is left out only if the store had it.
PreviousID(dest, x) ==
    CASE dest = "chat" -> 0
      [] dest = "native" -> PrepareCodexPassthrough(x)
      [] dest = "router" -> x.asks

\* prepareRequestForCredential works on the base body, also for a retry.
Prepared(x, dest) ==
    {[x EXCEPT !.dest = dest, !.seen = seen] : seen \in Seen(dest, x.body, PreviousID(dest, x))}

\* orchestrateRequest: the history is put before the input, which is what
\* AccumulatedInput keeps, and the credential of the stored response is
\* preferred, if it is available; a lookup that fails counts as not found.
Load(t) ==
    /\ turn[t].pc = "load"
    /\ LET id == turn[t].asks
           known == id # 0 /\ Found(id)
       IN  \E loaded \in BOOLEAN, dest \in {"chat", "native"} :
             LET x == IF loaded THEN [turn[t] EXCEPT !.body = PrependHistoryToInput(id, @),
                                                     !.handled = TRUE]
                      ELSE turn[t]
                 fault == known /\ (~loaded \/ dest # stored[id].cred)
             IN  /\ loaded => known
                 /\ Fault(fault) /\ Faults(fault)
                 /\ \E y \in Prepared(x, dest) : turn' = [turn EXCEPT ![t] = [y EXCEPT !.pc = "call"]]
    /\ UNCHANGED <<stored, conn, local, clock>>

\* Retried with another credential, or on the fallback.  A router is retried
\* only with routers, for which the body is the same.
Retry(t) ==
    /\ turn[t].pc = "call" /\ turn[t].dest # "router" /\ Fault(TRUE) /\ Faults(TRUE)
    /\ \E dest \in {"chat", "native", "router"} : \E y \in Prepared(turn[t], dest) :
         turn' = [turn EXCEPT ![t] = y]
    /\ UNCHANGED <<stored, conn, local, clock>>

\* Every attempt failed: an error with its status.
Refuse(t) ==
    /\ turn[t].pc = "call" /\ Fault(TRUE) /\ Faults(TRUE)
    /\ turn' = [turn EXCEPT ![t].pc = "over", ![t].outcome = "refused"]
    /\ UNCHANGED <<stored, conn, local, clock>>

----------------------------------------------------------------------------
(* The answer.                                                              *)

\* A body is complete; a stream may also end in another terminal event or in none.
Outcomes(x) == {"completed"} \cup IF x.shape.stream /\ faults < MaxFaults
                                  THEN {"failed", "incomplete", "silent"} ELSE {}

\* saveResponseFn is set for store:true, and the fallback does not know it.
Saves(x) == x.shape.store = "true" /\ x.dest # "router" /\ x.outcome = "completed"

\* Mutation: the client is told before the response is in the store.
FirstStep_Tells(x) == IF Saves(x) THEN "tell_save" ELSE "tell"

\* A body and a native stream are saved before the client has the end of it;
\* a converted stream calls onComplete after response.completed.
FirstStep(x) ==
    IF ~Saves(x) THEN "tell"
    ELSE IF x.shape.stream /\ x.dest = "chat" THEN "tell_save" ELSE "save_tell"

Answer(t) ==
    /\ turn[t].pc = "call"
    /\ \E outcome \in Outcomes(turn[t]) :
         LET x == [turn[t] EXCEPT !.outcome = outcome] IN
         /\ turn' = [turn EXCEPT ![t] = [x EXCEPT !.pc = FirstStep(x)]]
         /\ Faults(outcome # "completed")
    /\ UNCHANGED <<stored, conn, local, clock>>

\* SaveResponse with a context of its own: a client that leaves does not stop it.
Entry(x) == [expires |-> Expires(x.shape.ttl), acc |-> x.body, cred |-> x.dest]

SaveResponse(t) ==
    /\ turn[t].pc \in {"save_tell", "save"}
    /\ \E ok \in BOOLEAN :
         /\ Fault(~ok) /\ Faults(~ok)
         /\ stored' = IF ok THEN [stored EXCEPT ![t] = Entry(turn[t])] ELSE stored
         /\ turn' = [turn EXCEPT ![t].save = IF ok THEN "ok" ELSE "failed",
                                 ![t].pc = IF @ = "save_tell" THEN "tell" ELSE "over"]
    /\ UNCHANGED <<conn, local, clock>>

Tell(t) ==
    /\ turn[t].pc \in {"tell", "tell_save"}
    /\ turn' = [turn EXCEPT ![t].told = TRUE,
                            ![t].pc = IF @ = "tell_save" THEN "save" ELSE "over"]
    /\ UNCHANGED <<stored, conn, local, clock, faults>>

----------------------------------------------------------------------------
(* The WebSocket.                                                           *)

\* finalResp is the response of response.completed alone.
Final(x) == x.outcome = "completed"
IsFailed(x) == x.outcome \in {"failed", "refused"}

\* The cache after a turn.
Cached(t) ==
    LET x == turn[t] IN
    IF x.shape.store # "false" THEN local
    ELSE (local \cup (IF Final(x) THEN {t} ELSE {})) \ (IF IsFailed(x) THEN {x.prev} ELSE {})

\* Mutation: only a terminal event ends a turn, not the end of the request.
TurnIsOver_OnEvent(x) == x.pc = "over" /\ x.outcome \in {"completed", "failed", "incomplete"}

\* The loop waits for the terminal event and for the whole request before it
\* reads the next message; a request that ends without the event ends the turn.
TurnIsOver(x) == x.pc = "over"

EndTurn ==
    /\ conn.turn # 0 /\ TurnIsOver(turn[conn.turn])
    /\ local' = Cached(conn.turn)
    /\ conn' = [conn EXCEPT !.turn = 0]
    /\ UNCHANGED <<turn, stored, clock, faults>>

\* The turn of a client that left runs on; its connection's cache is gone.
Disconnect ==
    /\ conn.open /\ Fault(TRUE) /\ Faults(TRUE)
    /\ conn' = [conn EXCEPT !.open = FALSE, !.turn = 0]
    /\ local' = {}
    /\ UNCHANGED <<turn, stored, clock>>

Connect ==
    /\ ~conn.open
    /\ conn' = [number |-> conn.number + 1, open |-> TRUE, turn |-> 0]
    /\ local' = {}
    /\ UNCHANGED <<turn, stored, clock, faults>>

----------------------------------------------------------------------------
(* The store, time and crashes.                                             *)

CleanupExpired ==
    /\ \E t \in Turns : stored[t] # NoEntry /\ Expired(stored[t])
    /\ stored' = [t \in Turns |-> IF Expired(stored[t]) THEN NoEntry ELSE stored[t]]
    /\ UNCHANGED <<turn, conn, local, clock, faults>>

Tick ==
    /\ clock < MaxTime
    /\ clock' = clock + 1
    /\ UNCHANGED <<turn, stored, conn, local, faults>>

\* The process dies and is started again; the store is on disk or elsewhere.
Crash ==
    /\ Fault(TRUE) /\ Faults(TRUE)
    /\ turn' = [t \in Asked |-> IF turn[t].pc = "over" THEN turn[t]
                                ELSE [turn[t] EXCEPT !.pc = "killed"]]
    /\ conn' = [conn EXCEPT !.open = FALSE, !.turn = 0]
    /\ local' = {}
    /\ UNCHANGED <<stored, clock>>

Handle(t) == Load(t) \/ Answer(t) \/ SaveResponse(t) \/ Tell(t)

Init ==
    /\ turn = <<>> /\ stored = [t \in Turns |-> NoEntry]
    /\ conn = [number |-> 1, open |-> TRUE, turn |-> 0] /\ local = {}
    /\ clock = 0 /\ faults = 0

Next ==
    \/ \E shape \in Shapes : Ask(shape) \/ AskWebSocket(shape)
    \/ \E t \in Asked : Handle(t) \/ Retry(t) \/ Refuse(t)
    \/ EndTurn \/ Disconnect \/ Connect
    \/ CleanupExpired \/ Tick \/ Crash

\* The goroutines run and providers answer in the end.
Spec == /\ Init /\ [][Next]_vars
        /\ \A t \in Turns : WF_vars(t \in Asked /\ Handle(t))
        /\ WF_vars(EndTurn)

----------------------------------------------------------------------------
(* Properties.                                                              *)

\* What was said in the conversation of a response.
History[t \in Asked] ==
    IF turn[t].prev = 0 THEN << In(t) >>
    ELSE History[turn[t].prev] \o << Out(turn[t].prev), In(t) >>

\* The whole chain of a response was found in the store.
Linked[t \in Asked] ==
    turn[t].prev = 0 \/ (turn[t].asks # 0 /\ turn[t].handled /\ Linked[turn[t].prev])

\* What answers a request has seen is the end of its conversation, in order
\* and nothing twice, whoever remembered it: the store, the connection or the
\* provider; and it is all of it when the store knew every response of it.
\* (proxy/orchestrator.go:122-157, request.go:378-388, proxy_websocket.go:315-324)
ContextIsHistory ==
    \A t \in Asked : turn[t].seen # <<>> =>
        /\ IsSuffix(turn[t].seen, History[t])
        /\ Linked[t] => turn[t].seen = History[t]

\* A client that has the end of a response of store:true (over a stream that is
\* converted, only once the request is over) finds it until it expires, with the
\* conversation so far and the credential that answered; unless the save
\* failed or the fallback answered. (proxy/proxy.go:461-480)
StoredOnceTold ==
    \A t \in Asked :
        LET x == turn[t] IN
        (/\ x.shape.store = "true" /\ x.told /\ x.outcome = "completed"
         /\ x.dest # "router" /\ x.save # "failed"
         /\ x.shape.stream /\ x.dest = "chat" => x.pc = "over"
         /\ x.shape.ttl = 0 \/ clock < x.shape.ttl)
        => stored[t].acc = x.body /\ stored[t].cred = x.dest

\* A continuation on this connection has failed after it was found or looked for.
Evicted(t) ==
    \E u \in Asked : /\ turn[u].conn = conn.number /\ turn[u].prev = t /\ turn[u].shape.store = "false"
                    /\ IsFailed(turn[u]) /\ turn[u].pc = "over" /\ conn.turn # u

\* The connection remembers the responses of store:false that it completed, and
\* no other; one whose continuation failed is forgotten. (proxy_websocket.go:399-410)
ConnectionRemembers ==
    conn.open => local = {t \in Asked : /\ turn[t].conn = conn.number /\ turn[t].shape.store = "false"
                                        /\ turn[t].told /\ Final(turn[t]) /\ conn.turn # t
                                        /\ ~Evicted(t)}

ToldIsFound == StoredOnceTold /\ ConnectionRemembers

\* Not kept by the code: "full input context for multi-turn" (store.go:26), also
\* when a native provider knew more of the conversation than the store.
AccumulatedIsSeen == \A t \in Asked : stored[t] # NoEntry => stored[t].acc = turn[t].seen

\* Not kept by the code: "Turn completion is signaled by a terminal event"
\* (docs/advanced/responses.md:162).
TurnsAreSignalled ==
    \A t \in Asked : turn[t].shape.via = "ws" /\ turn[t].pc = "over" => turn[t].outcome # "silent"

\* Not kept by the code: store:true persists the response (docs/advanced/responses.md),
\* also when the fallback answered.
FallbackIsStored ==
    \A t \in Asked : (/\ turn[t].shape.store = "true" /\ turn[t].pc = "over"
                     /\ turn[t].outcome = "completed" /\ turn[t].save # "failed" /\ turn[t].shape.ttl = 0)
                    => stored[t] # NoEntry

\* A connection whose turn runs takes the next message in the end, also when
\* the stream ends without a terminal event. (proxy_websocket.go:362-396)
ConnectionServes == conn.turn # 0 ~> conn.turn = 0
=============================================================================
