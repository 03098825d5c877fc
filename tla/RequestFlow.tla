---------------------------- MODULE RequestFlow ----------------------------
(***************************************************************************)
(* src/internal/proxy: the life of one request to a provider, from its     *)
(* authentication to its answer (orchestrator.go, proxy.go, retry.go).     *)
(*                                                                         *)
(* The request is served by one goroutine.  What it meets, the balancer's  *)
(* state at each lookup and what each upstream does, is shared with other  *)
(* requests and is an input of every action.  The session store's two      *)
(* entries that the request can touch are variables: the one of the        *)
(* client's session and the one under the request's own identifier.        *)
(***************************************************************************)
EXTENDS CredentialChoice, Sequences

CONSTANTS
  None,
  MaxProviderRetries,    \* max_provider_retries
  MaxFallbackAttempts,   \* the bound of the chain of fallback routers
  BadSets                \* the sets of credentials that a body cannot be
                         \* prepared for

ASSUME FlowAssumption ==
  /\ None \notin Creds
  /\ MaxProviderRetries \in Nat
  /\ MaxFallbackAttempts \in Nat \ {0}
  /\ BadSets \subseteq SUBSET Creds

VARIABLES
  pc,
  bad,          \* the credentials that this body cannot be prepared for
  cred,         \* the credential in use
  tried,        \* the names marked in the context of the request
  attempt,      \* the attempt of the retry loop
  resp,         \* the last upstream response that is kept, None without one
  failure,      \* how the last attempt failed without a usable response
  fbAttempt,    \* the attempt of the fallback chain
  fbCred,       \* the last fallback router called
  fbResp,       \* its chain's last response
  log,          \* RequestLogContext, with the entries handed to the logger
  bound,        \* session identifier -> the credential bound to it
  answers,      \* the answers written to the client
  sent,         \* history: the credentials contacted, in order
  passedOver    \* history: usable credentials that a step gave up on

request == <<bad>>
loop == <<cred, tried, attempt, resp, failure>>
chain == <<fbAttempt, fbCred, fbResp>>
out == <<log, bound, answers>>
history == <<sent, passedOver>>
vars == <<pc, request, loop, chain, out, history>>

-----------------------------------------------------------------------------
Failures == {"net", "timeout"}

\* 2xx; a status and a body that ShouldRetryWithFallback retries; any other.
\* The client follows redirects, so 1xx and 3xx are not told apart.
Statuses == {"ok", "retryable", "error"}

\* "unread": the body could not be read to its end, nothing of it is kept.
Response == [from : Creds, status : Statuses, kind : {"body", "stream", "unread"}]

\* Answers of the router itself have no credential they come from.
Answer == [from : Creds \cup {None},
           status : Statuses \cup {"limited"},
           kind : {"body", "stream", "unread", "own"}]

Own(status) == [from |-> None, status |-> status, kind |-> "own"]

\* "none": the client gave no session; "request": the request's identifier.
SessionIds == {"none", "given", "request"}
Keys == SessionIds \ {"none"}

System == "system"    \* the stand-in for a credential when there was none

\* `cred` is who the entry is made for, `actual` the router whose report of the
\* credential behind it the entry shows instead, None without a report.
Entry == [cred : Creds \cup {System}, actual : Creds \cup {None}]

Log == [sid : SessionIds, cred : Creds \cup {None, System},
        actual : Creds \cup {None},
        logged : BOOLEAN, completed : BOOLEAN,
        entries : Seq(Entry)]

-----------------------------------------------------------------------------
\* Mutation: the entry is queued and the request is not marked as logged.
SpendUnmarked(l) ==
  [l EXCEPT !.sid = IF @ = "none" THEN "request" ELSE @,
            !.entries = Append(@, [cred |-> l.cred, actual |-> l.actual])]

\* logSpendToLiteLLMDB, and the mark that its callers set: the entry names
\* log.cred, or the credential that a router reported to be behind it, and a
\* request without a session takes its own identifier.
Spend(l) ==
  [l EXCEPT !.sid = IF @ = "none" THEN "request" ELSE @,
            !.entries = Append(@, [cred |-> l.cred, actual |-> l.actual]),
            !.logged = TRUE]

\* setSessionBinding and clearSessionBinding: nothing without an identifier.
Bind(b, sid, c) == IF sid = "none" THEN b ELSE [b EXCEPT ![sid] = c]

\* Mutation: a request that did not complete leaves the binding it found.
EndKeepsBinding(l, b, a) ==
  LET late == ~l.logged /\ l.cred # None
  IN /\ pc' = "done"
     /\ log' = IF late THEN Spend(l) ELSE l
     /\ bound' = b
     /\ answers' = a

\* The deferred function of ProxyRequest: an entry if a credential was chosen
\* and none was logged, and no binding for a request that did not complete.
End(l, b, a) ==
  LET late == ~l.logged /\ l.cred # None
      final == IF late THEN Spend(l) ELSE l
  IN /\ pc' = "done"
     /\ log' = final
     /\ bound' = IF l.completed THEN b ELSE Bind(b, final.sid, None)
     /\ answers' = a

-----------------------------------------------------------------------------
Init ==
  /\ pc = "auth"
  /\ bad = {}
  /\ cred = None
  /\ tried = {}
  /\ attempt = 0
  /\ resp = None
  /\ failure = "none"
  /\ fbAttempt = 0
  /\ fbCred = None
  /\ fbResp = None
  /\ log = [sid |-> "none", cred |-> None, actual |-> None,
            logged |-> FALSE, completed |-> FALSE, entries |-> <<>>]
  /\ \E c \in Creds \cup {None} :
       bound = [k \in Keys |-> IF k = "given" THEN c ELSE None]
  /\ answers = <<>>
  /\ sent = <<>>
  /\ passedOver = {}

\* authenticateRequest: the token is good, it is refused with an answer, or
\* the database connection is lost while it is validated, which writes none.
Authenticate ==
  /\ pc = "auth"
  /\ \/ pc' = "read" /\ UNCHANGED out
     \/ End(log, bound, <<Own("error")>>)
     \/ End(log, bound, answers)
  /\ UNCHANGED <<request, loop, chain, history>>

\* readRequestBodyAndSelectModel: an unreadable or too large body, or one
\* without a model, is refused; the session is known after it.
ReadBody ==
  /\ pc = "read"
  /\ \/ /\ pc' = "select"
        /\ \E sid \in {"none", "given"}, b \in BadSets :
             log' = [log EXCEPT !.sid = sid] /\ bad' = b
        /\ UNCHANGED <<bound, answers>>
     \/ End(log, bound, <<Own("error")>>) /\ UNCHANGED bad
  /\ UNCHANGED <<loop, chain, history>>

\* selectCredentialForModel: the credential of the previous response, the one
\* bound to the session, a regular one, a fallback one, the first that can be
\* had.
Selectable(preferred, admitted) ==
  LET sticky == IF log.sid = "given" THEN {bound["given"]} ELSE {}
      stages == <<preferred, sticky, Regular, Fallbacks>>
      open == {i \in 1 .. 4 : stages[i] \cap admitted # {}}
  IN IF open = {} THEN {}
     ELSE stages[CHOOSE i \in open : \A j \in open : i <= j] \cap admitted

\* A credential is selected and the body prepared for it.
SelectCredential ==
  /\ pc = "select"
  /\ \E preferred \in {{}} \cup {{c} : c \in Creds}, admitted \in SUBSET Creds :
       \E c \in Selectable(preferred, admitted) :
         \/ /\ c \notin bad
            /\ pc' = "call"
            /\ cred' = c
            /\ tried' = {c}
            /\ log' = [log EXCEPT !.cred = c]
            /\ UNCHANGED <<bound, answers>>
         \/ /\ c \in bad
            /\ End(log, bound, <<Own("error")>>)
            /\ UNCHANGED <<cred, tried>>
  /\ UNCHANGED <<request, attempt, resp, failure, chain, history>>

\* Nobody can serve the request: it is logged for the system and refused.
SelectNobody ==
  /\ pc = "select"
  /\ End(Spend([log EXCEPT !.cred = System]), bound, <<Own("limited")>>)
  /\ UNCHANGED <<request, loop, chain, history>>

-----------------------------------------------------------------------------
Routed == Type[cred] = ProxyType

\* After an attempt that may be retried: the next attempt, or the fallbacks.
Again == pc' = IF attempt < MaxProviderRetries THEN "retry" ELSE "fallback"

From(c, status, kind) == [from |-> c, status |-> status, kind |-> kind]

\* A response of a router may carry the name of the credential behind it.
Reports(c, l) == l = log \/ l = [log EXCEPT !.actual = c]

\* One attempt on another router: forwardToProxy and the test of its outcome.
\* A response of an earlier attempt is kept when this one fails.
RouterCall ==
  /\ pc = "call"
  /\ Routed
  /\ sent' = Append(sent, cred)
  /\ \/ /\ failure' \in Failures
        /\ Again
        /\ UNCHANGED <<resp, log>>
     \/ \E status \in Statuses :
          /\ resp' = From(cred, status, "stream")
          /\ Reports(cred, log')
          /\ failure' = "none"
          /\ pc' = "answer"
     \/ \E status \in Statuses :
          /\ resp' = From(cred, status, "body")
          /\ Reports(cred, log')
          /\ failure' = "none"
          /\ IF status = "retryable" /\ ~IsFallback[cred] THEN Again
                                                          ELSE pc' = "answer"
  /\ UNCHANGED <<request, cred, tried, attempt, chain, bound, answers, passedOver>>

\* Steps of a direct attempt that end the request: the body cannot be
\* converted, or no request can be made of it.
DirectFatal ==
  /\ pc = "call"
  /\ ~Routed
  /\ End(log, bound, <<Own("error")>>)
  /\ UNCHANGED <<request, loop, chain, history>>

\* The token manager has no token for the credential: it is not contacted.
NoToken ==
  /\ pc = "call"
  /\ Type[cred] = TokenType
  /\ failure' = "none"
  /\ Again
  /\ UNCHANGED <<request, cred, tried, attempt, resp, chain, out, history>>

\* client.Do fails: there is no response.
DirectFailure ==
  /\ resp' = None
  /\ failure' \in Failures
  /\ Again
  /\ UNCHANGED out

\* A response with a stream ends the loop.
DirectStream ==
  /\ \E status \in Statuses : resp' = From(cred, status, "stream")
  /\ failure' = "none"
  /\ pc' = "answer"
  /\ UNCHANGED out

\* A response that is read: it is answered or retried.
DirectBody ==
  /\ \E status \in Statuses :
       /\ resp' = From(cred, status, "body")
       /\ IF status = "retryable" THEN Again ELSE pc' = "answer"
  /\ failure' = "none"
  /\ UNCHANGED out

\* The headers arrive and the body cannot be read: resp stays as it is.
DirectUnread ==
  /\ \E status \in Statuses : resp' = From(cred, status, "unread")
  /\ failure' \in Failures
  /\ Again
  /\ UNCHANGED out

\* The body is too large, which ends the request.
DirectTooLarge ==
  /\ \E status \in Statuses : resp' = From(cred, status, "unread")
  /\ failure' = "none"
  /\ End(log, bound, <<Own("error")>>)

\* One attempt on a provider that was sent.
DirectCall ==
  /\ pc = "call"
  /\ ~Routed
  /\ sent' = Append(sent, cred)
  /\ DirectFailure \/ DirectStream \/ DirectBody \/ DirectUnread \/ DirectTooLarge
  /\ UNCHANGED <<request, cred, tried, attempt, chain, passedOver>>

\* What may be tried next.
NextChoices(live, admitted) == RetryChoices(cred, tried, live, admitted)

\* The prioritised credentials that could serve and are left behind when the
\* chain moves to c, or ends with None.
LeftBehind(c, admitted) ==
  IF Priority[cred] > 0 /\ (c = None \/ Priority[c] = 0)
  THEN (Prioritised(1, tried) \ bad) \cap admitted ELSE {}

\* Mutation: the credential of the retry is not marked.
RetryUnmarked(c) ==
  /\ pc' = "call"
  /\ cred' = c
  /\ attempt' = attempt + 1
  /\ log' = [log EXCEPT !.cred = c]
  /\ resp' = IF Routed THEN resp ELSE None
  /\ UNCHANGED <<failure, tried>>

\* The next attempt: a direct one forgets the response of the last.
RetryWith(c) ==
  /\ pc' = "call"
  /\ cred' = c
  /\ tried' = tried \cup {c}
  /\ attempt' = attempt + 1
  /\ log' = [log EXCEPT !.cred = c]
  /\ resp' = IF Routed THEN resp ELSE None
  /\ UNCHANGED failure

\* Mutation: only the last credential that was passed over stays marked.
SkipForgets(c) == tried' = {cred, c} /\ UNCHANGED pc

\* The body cannot be prepared for c: it is marked, and the lookup repeated.
Skip(c) == tried' = tried \cup {c} /\ UNCHANGED pc

Retry ==
  /\ pc = "retry"
  /\ \E live \in SUBSET (Regular \ tried) : \E admitted \in SUBSET live :
       \/ \E c \in NextChoices(live, admitted) :
            /\ \/ (Routed \/ c \notin bad) /\ RetryWith(c)
               \/ /\ ~Routed /\ c \in bad
                  /\ Skip(c)
                  /\ UNCHANGED <<cred, attempt, resp, failure, log>>
            /\ passedOver' = passedOver \cup LeftBehind(c, admitted)
       \/ /\ NextChoices(live, admitted) = {}
          /\ pc' = "fallback"
          /\ passedOver' = passedOver \cup LeftBehind(None, admitted)
          /\ UNCHANGED <<loop, log>>
  /\ UNCHANGED <<request, chain, bound, answers, sent>>

-----------------------------------------------------------------------------
\* The chain of fallback routers is over: the last response it got is written,
\* or the answer is left to what the retry loop ended with.
EndChain == pc' = IF fbResp # None THEN "fbanswer" ELSE "answer"

\* TryFallbackProxy takes the next fallback router.  The lookup does not leave
\* out what was tried; the chain ends when it returns a router of that kind.
FallbackPick ==
  /\ pc = "fallback"
  /\ fbAttempt < MaxFallbackAttempts
  /\ \E admitted \in SUBSET FallbackProxies :
       \/ \E c \in admitted :
            \/ /\ c \notin tried
               /\ pc' = "fbcall"
               /\ fbCred' = c
               /\ tried' = tried \cup {c}
               /\ UNCHANGED passedOver
            \/ /\ c \in tried
               /\ EndChain
               /\ passedOver' = passedOver \cup (admitted \ tried)
               /\ UNCHANGED <<fbCred, tried>>
       \/ /\ admitted = {}
          /\ EndChain
          /\ UNCHANGED <<fbCred, tried, passedOver>>
  /\ UNCHANGED <<request, cred, attempt, resp, failure, fbAttempt, fbResp, out, sent>>

FallbackSpent ==
  /\ pc = "fallback"
  /\ fbAttempt = MaxFallbackAttempts
  /\ EndChain
  /\ UNCHANGED <<request, loop, chain, out, history>>

\* One call of the chain: a stream or a response that is not to be retried
\* ends it.
FallbackCall ==
  /\ pc = "fbcall"
  /\ sent' = Append(sent, fbCred)
  /\ \/ /\ pc' = "fallback"
        /\ fbAttempt' = fbAttempt + 1
        /\ UNCHANGED <<fbResp, log>>
     \/ \E status \in Statuses :
          /\ fbResp' = From(fbCred, status, "stream")
          /\ Reports(fbCred, log')
          /\ pc' = "fbanswer"
          /\ UNCHANGED fbAttempt
     \/ \E status \in Statuses :
          /\ fbResp' = From(fbCred, status, "body")
          /\ Reports(fbCred, log')
          /\ IF status = "retryable"
             THEN pc' = "fallback" /\ fbAttempt' = fbAttempt + 1
             ELSE pc' = "fbanswer" /\ UNCHANGED fbAttempt
  /\ UNCHANGED <<request, loop, fbCred, bound, answers, passedOver>>

\* Mutation: the entry is made for the credential of the retry loop.
DeliveredAside(l, status) == Spend([l EXCEPT !.completed = (status = "ok")])

\* The answer of the chain: the session is bound before the entry is made.
Delivered(l, status) ==
  Spend([l EXCEPT !.cred = fbCred, !.completed = (status = "ok")])

\* Mutation: after a broken stream the caller goes on to its own answer.
FallbackAnswerAgain ==
  /\ pc = "fbanswer"
  /\ \/ End(Delivered(log, fbResp.status),
            IF fbResp.status = "ok" THEN Bind(bound, log.sid, fbCred) ELSE bound,
            Append(answers, fbResp))
     \/ /\ fbResp.kind = "stream"
        /\ pc' = "answer"
        /\ answers' = Append(answers, fbResp)
        /\ UNCHANGED <<log, bound>>
  /\ UNCHANGED <<request, loop, chain, history>>

\* writeFallbackResponse.  A stream that breaks while it is written is left to
\* the deferred function, which knows the credential of the retry loop only.
FallbackAnswer ==
  /\ pc = "fbanswer"
  /\ \/ End(Delivered(log, fbResp.status),
            IF fbResp.status = "ok" THEN Bind(bound, log.sid, fbCred) ELSE bound,
            Append(answers, fbResp))
     \/ /\ fbResp.kind = "stream"
        /\ End(log, bound, Append(answers, fbResp))
  /\ UNCHANGED <<request, loop, chain, history>>

-----------------------------------------------------------------------------
\* The last answer with log context l: complete, so that the session is bound
\* to the credential in use, or cut short on its way.
Answered(l, complete) ==
  LET completed == complete /\ resp.status = "ok"
  IN End([l EXCEPT !.completed = completed],
         IF completed THEN Bind(bound, l.sid, cred) ELSE bound,
         Append(answers, resp))

\* No response was kept: 502, or 408 after a timeout.
AnswerNone ==
  /\ pc = "answer"
  /\ resp = None
  /\ End(log, bound, Append(answers, Own("error")))
  /\ UNCHANGED <<request, loop, chain, history>>

\* A router's body, as it came; a failing write is not noticed.
AnswerRouterBody ==
  /\ Routed
  /\ resp.kind = "body"
  /\ Answered(log, TRUE)

\* A router's stream; the Responses API handlers make the entry themselves.
AnswerRouterStream ==
  /\ Routed
  /\ resp.kind = "stream"
  /\ \E complete \in BOOLEAN :
       Answered(log, complete) \/ Answered(Spend(log), complete)

\* A provider's stream; an error status may be masked, and is then left to the
\* deferred function, else the handler makes the entry at the stream's end.
AnswerStream ==
  /\ ~Routed
  /\ resp.kind = "stream"
  /\ \/ \E complete \in BOOLEAN : Answered(Spend(log), complete)
     \/ resp.status # "ok" /\ Answered(log, FALSE)

\* A provider's body, or what there is of it: the entry is made first.
AnswerBody ==
  /\ ~Routed
  /\ resp.kind # "stream"
  /\ \E complete \in BOOLEAN : Answered(Spend(log), complete)

AnswerWith ==
  /\ pc = "answer"
  /\ resp # None
  /\ AnswerRouterBody \/ AnswerRouterStream \/ AnswerStream \/ AnswerBody
  /\ UNCHANGED <<request, loop, chain, history>>

Done == pc = "done" /\ UNCHANGED vars

Work ==
  \/ Authenticate \/ ReadBody \/ SelectCredential \/ SelectNobody
  \/ RouterCall \/ DirectFatal \/ NoToken \/ DirectCall \/ Retry
  \/ FallbackPick \/ FallbackSpent \/ FallbackCall \/ FallbackAnswer
  \/ AnswerNone \/ AnswerWith

Next == Work \/ Done

Spec == Init /\ [][Next]_vars

\* A call of an upstream ends, by its answer, a time limit, or because the
\* client leaves; the rest of a request waits for nothing but short locks.
FairSpec == Spec /\ WF_vars(Work)

-----------------------------------------------------------------------------
TypeOK ==
  /\ pc \in {"auth", "read", "select", "call", "retry", "fallback", "fbcall",
             "fbanswer", "answer", "done"}
  /\ bad \in SUBSET Creds
  /\ cred \in Creds \cup {None}
  /\ tried \in SUBSET Creds
  /\ attempt \in 0 .. MaxProviderRetries
  /\ resp \in Response \cup {None}
  /\ failure \in Failures \cup {"none"}
  /\ fbAttempt \in 0 .. MaxFallbackAttempts
  /\ fbCred \in Creds \cup {None}
  /\ fbResp \in Response \cup {None}
  /\ log \in Log
  /\ bound \in [Keys -> Creds \cup {None}]
  /\ answers \in Seq(Answer)
  /\ sent \in Seq(Creds)
  /\ passedOver \in SUBSET Creds

MaxContacts == 1 + MaxProviderRetries + MaxFallbackAttempts

\* "each credential (fallback or not) is tried only once per request chain":
\* no retry, of either loop, contacts a credential for the second time.
ContactedOnce == \A i, j \in DOMAIN sent : sent[i] = sent[j] => i = j

\* The two loops together make no more calls than they are configured for.
ContactsBounded == Len(sent) <= MaxContacts

\* One request makes one entry if anybody was contacted, whichever of the
\* five places that make entries it came through, and never two.
EntryOnce ==
  /\ Len(log.entries) <= 1
  /\ pc = "done" /\ sent # <<>> => Len(log.entries) = 1

\* Nothing is written after an answer: a request is answered at most once.
AnsweredOnce == Len(answers) <= 1 /\ (answers # <<>> => pc = "done")

\* A complete answer is charged to the credential that gave it, and so is the
\* session, for all the calls that failed before.
CompleteIsAttributed ==
  pc = "done" /\ log.completed =>
    /\ answers[1].status = "ok"
    /\ log.entries[1].cred = answers[1].from
    /\ \A k \in Keys : bound[k] \in {answers[1].from, None} \/ log.sid # k

\* After a request of the session the binding names who served it completely,
\* or there is none: a session is never led back to what failed it.
SessionFollowsSuccess ==
  pc = "done" /\ log.sid = "given" =>
    bound["given"] = IF log.completed THEN answers[1].from ELSE None

\* The provider calls of the retry loop, by their place among all; the fallback
\* routers come after them.
ProviderCalls == {i \in DOMAIN sent : Type[sent[i]] # ProxyType}

\* A retry stays with the provider's type as long as no credential with a
\* priority was involved.
TypeKept ==
  ~HasTriedPriority(tried) =>
    \A i, j \in ProviderCalls : Type[sent[i]] = Type[sent[j]]

\* A chain goes up the priorities and ends with the credentials that have
\* none: it never comes back down, and never back from the second to the first.
TiersInOrder ==
  \A i, j \in ProviderCalls : i < j /\ Priority[sent[i]] > 0 =>
    /\ Priority[sent[j]] > 0 => Priority[sent[j]] >= Priority[sent[i]]
    /\ Priority[sent[j]] = 0 =>
         \A k \in ProviderCalls : k > j => Priority[sent[k]] = 0

\* A chain of retries keeps the order of the balancer: one type, or tiers that
\* rise and end with the credentials that have none.
ChainOrder == TypeKept /\ TiersInOrder

\* RequestFlow keeps the contract of failover.
Contract == INSTANCE FailoverContract
  WITH contacted <- {sent[i] : i \in DOMAIN sent},
       count <- Len(sent),
       answered <- (answers # <<>>)
KeepsContract == Contract!Spec

\* Every request ends, however often lookups and calls fail.
Ends == <>(pc = "done")

\* handleLiteLLMAuthError: a request is answered or carried on, also when the
\* database is lost while a token is validated.
EveryRequestAnswered == pc = "done" => answers # <<>>

\* A last attempt that brought no response is not answered with a success: the
\* client is told of the failure, 502 or 408.
FailureIsReported ==
  pc = "done" /\ failure # "none" /\ resp # None /\ fbResp = None =>
    \A i \in DOMAIN answers : answers[i].status # "ok"

\* An entry shows the name that the router reported which gave the answer, not
\* one that an earlier router of the chain reported.
EntryNamesAnswerer ==
  \A i \in DOMAIN log.entries, j \in DOMAIN answers :
    log.entries[i].actual \in {None, answers[j].from}

\* The full chain of fallback routers is tried before the last response is
\* written: none that could have been had is given up.
FallbacksExhausted == passedOver \cap FallbackProxies = {}

\* A chain that starts at a credential with a priority tries all that have one
\* before those that have none, and before it gives up.
TiersExhausted == passedOver \cap Regular = {}

\* A request that names no session binds nothing.
NoSessionNoBinding == bound["request"] = None

\* A session keeps its binding when no credential can be had for a request.
BindingOutlivesLimits == [][SelectNobody => UNCHANGED bound]_vars
=============================================================================
