---------------------------- MODULE VertexTokens ----------------------------
(***************************************************************************)
(* The token manager for Vertex AI (auth/vertex.go).  Requests that find   *)
(* no fresh token in the cache wait together for one refresh: the first    *)
(* hands it to the worker, which starts a goroutine for it, and its answer *)
(* goes to everybody in `refreshing`.  A request waits half a minute at    *)
(* most, a refresh as long as Google takes, and Stop ends the worker but   *)
(* neither a refresh that runs nor what is still in the queue.             *)
(*                                                                         *)
(* There is one credential: the credentials share the queue and nothing    *)
(* else.  A call is one call of GetToken, with a channel of its own.       *)
(***************************************************************************)
EXTENDS Integers, FiniteSets, Sequences

CONSTANTS
  Calls,        \* the calls of GetToken
  QueueCap,     \* capacity of refreshRequests
  MaxTokens,    \* bound: how many tokens Google issues
  Sources,      \* token sources: one for each refresh that runs and the cached one
  None

ASSUME QueueCapAssumption == QueueCap \in Nat \ {0}
ASSUME TokensAssumption == MaxTokens \in Nat
ASSUME NoneAssumption ==
  /\ None \notin Sources \cup (0 .. MaxTokens)
  /\ \A S \in SUBSET Calls : None # S

VARIABLES
  tokens,      \* tm.tokens[c]: the source whose entry is cached, or None
  entry,       \* for every source: the token in its entry, 0 before there is one
  source,      \* for every source: the token it holds (external)
  credentials, \* tm.credentials[c]: what was loaded, kept from then on
  age,         \* for every token: fresh, aging (less than tokenRefresh left), expired
  refreshing,  \* tm.refreshing[c]: the calls that wait, or None
  queue,       \* tm.refreshRequests
  worker,      \* whether refreshWorker runs
  stop,        \* Stop: "no", "closed", "failed" (the waiters), "returned"
  task,        \* what the refresh goroutines do, by the call that asked
  pc,          \* where a call is
  chan         \* its response channel: a token, Failed, or None

calls == <<pc, chan, refreshing, queue>>
tokensCache == <<tokens, entry, source, credentials, age>>
tokensVars == <<calls, tokensCache, worker, stop, task>>

Tokens == 1 .. MaxTokens
Failed == 0
NoTask == [at |-> "none", src |-> None, token |-> Failed]

\* The manager's own steps take no time against the minutes a token lasts: a
\* token ages only while no answer is between its source and a caller.
Quiet ==
  /\ \A k \in Calls : task[k].at \notin {"update", "store", "answer"} /\ chan[k] = None

TokensInit ==
  /\ tokens = None
  /\ entry = [s \in Sources |-> Failed]
  /\ source = [s \in Sources |-> Failed]
  /\ credentials = "none"
  /\ age = [t \in Tokens |-> "none"]
  /\ refreshing = None
  /\ queue = <<>>
  /\ worker = "runs"
  /\ stop = "no"
  /\ task = [k \in Calls |-> NoTask]
  /\ pc = [k \in Calls |-> "idle"]
  /\ chan = [k \in Calls |-> None]

-----------------------------------------------------------------------------
\* NowUTC before expiresAt - tokenRefresh.
Fresh(t) == t # Failed /\ age[t] = "fresh"

Cached == IF tokens = None THEN Failed ELSE entry[tokens]

Goto(k, l) == pc' = [pc EXCEPT ![k] = l]

\* The stopped flag, the fast path and the double check, each looked at once:
\* what changes between them might as well change after them, before the
\* registration.
Begin(k) ==
  /\ pc[k] = "idle"
  /\ IF stop # "no" \/ Fresh(Cached) THEN Goto(k, "returned") ELSE Goto(k, "register")
  /\ UNCHANGED <<chan, refreshing, queue, tokensCache, worker, stop, task>>

\* The first to register asks for the refresh, the others join it.
Register(k) ==
  /\ pc[k] = "register"
  /\ IF refreshing = None
     THEN refreshing' = {k} /\ Goto(k, "sending")
     ELSE refreshing' = refreshing \cup {k} /\ Goto(k, "waiting")
  /\ UNCHANGED <<chan, queue, tokensCache, worker, stop, task>>

Send(k) ==
  /\ pc[k] = "sending"
  /\ Len(queue) < QueueCap
  /\ queue' = Append(queue, k)
  /\ Goto(k, "waiting")
  /\ UNCHANGED <<chan, refreshing, tokensCache, worker, stop, task>>

\* A response goes into every channel that still has room.
Responses(K, t) == [k \in Calls |-> IF k \in K /\ chan[k] = None THEN t ELSE chan[k]]
Respond(K, t) == chan' = Responses(K, t)

Waiting == IF refreshing = None THEN {} ELSE refreshing

\* Mutation: the call takes only itself off the list.
SendTimeout_Leaves(k) ==
  /\ pc[k] = "sending"
  /\ refreshing' = IF Waiting \subseteq {k} THEN None ELSE refreshing \ {k}
  /\ Goto(k, "returned")
  /\ UNCHANGED <<chan, queue, tokensCache, worker, stop, task>>

\* The queue stays full: whoever has joined is told, this call among them.
SendTimeout(k) ==
  /\ pc[k] = "sending"
  /\ refreshing' = None
  /\ chan' = [Responses(Waiting, Failed) EXCEPT ![k] = None]   \* nobody reads it any more
  /\ Goto(k, "returned")
  /\ UNCHANGED <<queue, tokensCache, worker, stop, task>>

Receive(k) ==
  /\ pc[k] = "waiting"
  /\ chan[k] # None
  /\ chan' = [chan EXCEPT ![k] = None]
  /\ Goto(k, "returned")
  /\ UNCHANGED <<refreshing, queue, tokensCache, worker, stop, task>>

\* removeWaitingChan: with the last waiter goes the key, and with it the mark
\* that a refresh runs.
RemoveWaitingChan(k) ==
  refreshing' = IF Waiting \subseteq {k} THEN None ELSE refreshing \ {k}

WaitTimeout(k) ==
  /\ pc[k] = "waiting"
  /\ RemoveWaitingChan(k)
  /\ Goto(k, "returned")
  /\ chan' = [chan EXCEPT ![k] = None]   \* nobody reads it any more
  /\ UNCHANGED <<queue, tokensCache, worker, stop, task>>

-----------------------------------------------------------------------------
At(a, s, t) == [at |-> a, src |-> s, token |-> t]
Do(k, t) == task' = [task EXCEPT ![k] = t]

\* refreshWorker: a goroutine for each request.  Once stopChan is closed the
\* select may still choose the queue.
Take ==
  /\ worker = "runs"
  /\ queue # <<>>
  /\ queue' = Tail(queue)
  /\ Do(Head(queue), At("begin", None, Failed))
  /\ UNCHANGED <<pc, chan, refreshing, tokensCache, worker, stop>>

WorkerStop ==
  /\ worker = "runs"
  /\ stop # "no"
  /\ worker' = "ended"
  /\ UNCHANGED <<calls, tokensCache, stop, task>>

\* processRefreshRequest: the entry is refreshed if there is one.
Process(k) ==
  /\ task[k].at = "begin"
  /\ Do(k, IF tokens # None THEN At("refresh", tokens, Failed) ELSE At("load", None, Failed))
  /\ UNCHANGED <<calls, tokensCache, worker, stop>>

\* oauth2.ReuseTokenSource: the token it holds until that has expired, then a
\* new one (external).
Answers(s, t) ==
  IF source[s] # Failed /\ age[source[s]] # "expired"
  THEN t = source[s] /\ UNCHANGED <<source, age>>
  ELSE /\ age[t] = "none"
       /\ \A u \in 1 .. t - 1 : age[u] # "none"
       /\ age' = [age EXCEPT ![t] = "fresh"]
       /\ source' = [source EXCEPT ![s] = t]

\* Mutation: a panic ends the goroutine without an answer.
Panics_Silent(k) ==
  /\ task[k].at \in {"refresh", "create"}
  /\ Do(k, NoTask)
  /\ UNCHANGED <<calls, tokensCache, worker, stop>>

\* A token source panics: those that wait are told by the deferred function.
Panics(k) ==
  /\ task[k].at \in {"refresh", "create"}
  /\ Do(k, At("answer", task[k].src, Failed))
  /\ UNCHANGED <<calls, tokensCache, worker, stop>>

\* Mutation: a refresh that fails answers with the token there was.
RefreshToken_KeepsOld(k) ==
  /\ task[k].at = "refresh"
  /\ \/ \E t \in Tokens :
          /\ Answers(task[k].src, t)
          /\ Do(k, At("update", task[k].src, t))
     \/ /\ Do(k, At("answer", task[k].src, entry[task[k].src]))
        /\ UNCHANGED <<source, age>>
  /\ UNCHANGED <<calls, tokens, entry, credentials, worker, stop>>

RefreshToken(k) ==
  /\ task[k].at = "refresh"
  /\ \/ \E t \in Tokens :
          /\ Answers(task[k].src, t)
          /\ Do(k, At("update", task[k].src, t))
     \/ Do(k, At("drop", task[k].src, Failed)) /\ UNCHANGED <<source, age>>
  /\ UNCHANGED <<calls, tokens, entry, credentials, worker, stop>>

\* The entry that was read is written, also when it is no longer the cached one.
Update(k) ==
  /\ task[k].at = "update"
  /\ entry' = [entry EXCEPT ![task[k].src] = task[k].token]
  /\ Do(k, At("answer", task[k].src, task[k].token))
  /\ UNCHANGED <<calls, tokens, source, credentials, age, worker, stop>>

\* After a failed refresh the entry goes, whoever made it, and a new one is made.
Drop(k) ==
  /\ task[k].at = "drop"
  /\ tokens' = None
  /\ Do(k, At("load", None, Failed))
  /\ UNCHANGED <<calls, entry, source, credentials, age, worker, stop>>

\* A source nobody refers to, not even as the entry that was just dropped,
\* stands for one that has just been made.
NewSources == {s \in Sources : /\ s # tokens /\ entry[s] = Failed /\ source[s] = Failed
                               /\ \A j \in Calls : task[j].src # s}

\* loadCredentials and the test of what was loaded.  The first bytes that were
\* loaded are kept, also those of no service account.  Which of the unused
\* sources stands for the new one makes no difference.
LoadCredentials(k) ==
  /\ task[k].at = "load"
  /\ \/ credentials = "none" /\ Do(k, At("answer", None, Failed)) /\ UNCHANGED credentials
     \/ /\ credentials' \in IF credentials = "none" THEN {"account", "other"} ELSE {credentials}
        /\ IF credentials' = "account"
           THEN /\ NewSources # {}      \* bound: the sources
                /\ Do(k, At("create", CHOOSE s \in NewSources : TRUE, Failed))
           ELSE Do(k, At("answer", None, Failed))
  /\ UNCHANGED <<calls, tokens, entry, source, age, worker, stop>>

CreateToken(k) ==
  /\ task[k].at = "create"
  /\ \/ \E t \in Tokens :
          /\ Answers(task[k].src, t)
          /\ Do(k, At("store", task[k].src, t))
     \/ Do(k, At("answer", task[k].src, Failed)) /\ UNCHANGED <<source, age>>
  /\ UNCHANGED <<calls, tokens, entry, credentials, worker, stop>>

Store(k) ==
  /\ task[k].at = "store"
  /\ tokens' = task[k].src
  /\ entry' = [entry EXCEPT ![task[k].src] = task[k].token]
  /\ Do(k, At("answer", task[k].src, task[k].token))
  /\ UNCHANGED <<calls, source, credentials, age, worker, stop>>

\* What only this goroutine referred to is garbage after it.
Used(k, f) ==
  [s \in Sources |-> IF s = tokens \/ \E j \in Calls \ {k} : task[j].src = s THEN f[s] ELSE Failed]

\* Whoever waits now is answered, also those that wait for another refresh.
Answer(k) ==
  /\ task[k].at = "answer"
  /\ refreshing' = None
  /\ Respond(Waiting, task[k].token)
  /\ Do(k, NoTask)
  /\ entry' = Used(k, entry) /\ source' = Used(k, source)
  /\ UNCHANGED <<pc, queue, tokens, credentials, age, worker, stop>>

-----------------------------------------------------------------------------
\* The flag and stopChan: between the two only new calls see a difference, and
\* the worker may take as long to look at stopChan.
Close ==
  /\ stop = "no"
  /\ stop' = "closed"
  /\ UNCHANGED <<calls, tokensCache, worker, task>>

FailAllWaiters ==
  /\ stop = "closed"
  /\ refreshing' = None
  /\ Respond(Waiting, Failed)
  /\ stop' = "failed"
  /\ UNCHANGED <<pc, queue, tokensCache, worker, task>>

\* wg.Wait: the worker and every refresh.
StopReturns ==
  /\ stop = "failed"
  /\ worker = "ended"
  /\ \A k \in Calls : task[k] = NoTask
  /\ stop' = "returned"
  /\ UNCHANGED <<calls, tokensCache, worker, task>>

\* Time passes: a token comes closer to its end.
Age ==
  /\ Quiet
  /\ \E t \in Tokens :
       \/ age[t] = "fresh" /\ age' = [age EXCEPT ![t] = "aging"]
       \/ age[t] = "aging" /\ age' = [age EXCEPT ![t] = "expired"]
  /\ UNCHANGED <<calls, tokens, entry, source, credentials, worker, stop, task>>

-----------------------------------------------------------------------------
Call(k) == Begin(k) \/ Register(k) \/ Send(k) \/ Receive(k)
Timeout(k) == SendTimeout(k) \/ WaitTimeout(k)
Refresh(k) ==
  Process(k) \/ RefreshToken(k) \/ Update(k) \/ Drop(k) \/ LoadCredentials(k)
    \/ CreateToken(k) \/ Store(k) \/ Answer(k) \/ Panics(k)
Stopping == Close \/ FailAllWaiters \/ StopReturns

Returned(k) == pc[k] = "returned"

AllReturned ==
  /\ \A k \in Calls : Returned(k)
  /\ UNCHANGED tokensVars

TokensNext ==
  \/ \E k \in Calls : Call(k) \/ Timeout(k) \/ Refresh(k)
  \/ Take
  \/ WorkerStop
  \/ Stopping
  \/ Age
  \/ AllReturned

TokensSpec == TokensInit /\ [][TokensNext]_tokensVars

\* Go runs every goroutine that can run and Google answers in the end.  There
\* are finitely many calls, so that it is enough that somebody works.  No
\* timeout is fair: nothing may depend on one while the manager runs.
Work == Take \/ \E k \in Calls : Call(k) \/ Refresh(k)

TokensFairSpec == TokensSpec /\ WF_tokensVars(Work)

-----------------------------------------------------------------------------
Asked(k) ==
  \/ pc[k] = "sending"
  \/ \E i \in DOMAIN queue : queue[i] = k
  \/ task[k] # NoTask

TypeOK ==
  /\ tokens \in Sources \cup {None}
  /\ entry \in [Sources -> {Failed} \cup Tokens]
  /\ source \in [Sources -> {Failed} \cup Tokens]
  /\ credentials \in {"none", "account", "other"}
  /\ age \in [Tokens -> {"none", "fresh", "aging", "expired"}]
  /\ refreshing \in ((SUBSET Calls) \ {{}}) \cup {None}
  /\ queue \in Seq(Calls)
  /\ worker \in {"runs", "ended"}
  /\ stop \in {"no", "closed", "failed", "returned"}
  /\ task \in [Calls -> [at : {"none", "begin", "refresh", "update", "drop", "load",
                              "create", "store", "answer"},
                        src : Sources \cup {None}, token : {Failed} \cup Tokens]]
  /\ pc \in [Calls -> {"idle", "register", "sending", "waiting", "returned"}]
  /\ chan \in [Calls -> {None, Failed} \cup Tokens]

\* Until the manager is stopped nobody waits in vain: a call that waits has its
\* answer or is on the list, and for the list somebody asks, is queued or runs,
\* through all the timeouts that take callers and lists away.
WaitersAreServed ==
  stop = "no" =>
    /\ \A k \in Calls : pc[k] \in {"sending", "waiting"} => chan[k] # None \/ k \in Waiting
    /\ refreshing # None => \E k \in Calls : Asked(k)

\* No answer carries a token that has expired, whichever refresh it came from
\* and whoever else failed or timed out meanwhile.
AnswersAreValid ==
  \A k \in Calls : chan[k] \notin {None, Failed} => age[chan[k]] \in {"fresh", "aging"}

\* Whoever waits is answered without any timeout unless the manager is stopped.
Pending == \E k \in Calls : pc[k] \in {"register", "sending", "waiting"}

Answered == Pending ~> ~Pending \/ stop # "no"

\* vertex.go:190: "Coalescing ensures only one refresh per credential at a time".
OneRefresh ==
  Cardinality({k \in Calls : task[k].at \notin {"none", "begin", "answer"}}) <= 1
=============================================================================
