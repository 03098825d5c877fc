------------------------- MODULE RequestFlowProofs -------------------------
(***************************************************************************)
(* Proofs about RequestFlow, for any credentials, types, priorities and    *)
(* any numbers of retries and fallback attempts.                           *)
(***************************************************************************)
EXTENDS RequestFlow, TLAPS

\* What a lookup for a retry returns is a credential that was not tried.
LEMMA RetryFindsNew ==
  \A live, admitted :
    NextChoices(live, admitted) \subseteq Creds \ tried
  BY DEF NextChoices, RetryChoices, SameType, PriorityRetry, Prioritised,
         Unprioritised, LowestTier, Regular

\* What the first lookups return is a credential.
LEMMA SelectionFinds ==
  \A preferred \in SUBSET Creds, admitted \in SUBSET Creds :
    Selectable(preferred, admitted) \subseteq Creds
  BY DEF Selectable

\* A context that is ready to be written to the log stays one.
LEMMA SpendType ==
  ASSUME NEW l \in Log, l.cred \in Creds \cup {System}
  PROVE  /\ Spend(l) \in Log
         /\ Spend(l).cred = l.cred
         /\ Spend(l).logged
         /\ Spend(l).completed = l.completed
         /\ Spend(l).sid = IF l.sid = "none" THEN "request" ELSE l.sid
         /\ Spend(l).entries = Append(l.entries, [cred |-> l.cred, actual |-> l.actual])
<1>1. [cred |-> l.cred, actual |-> l.actual] \in Entry
  BY DEF Log, Entry
<1>2. Append(l.entries, [cred |-> l.cred, actual |-> l.actual]) \in Seq(Entry)
  BY <1>1 DEF Log
<1>3. (IF l.sid = "none" THEN "request" ELSE l.sid) \in SessionIds
  BY DEF Log, SessionIds
<1> QED BY <1>2, <1>3 DEF Spend, Log

\* The deferred function leaves the context and the store well typed.
LEMMA EndType ==
  ASSUME NEW l \in Log, NEW b \in [Keys -> Creds \cup {None}], NEW a, End(l, b, a)
  PROVE  /\ pc' = "done"
         /\ log' \in Log
         /\ bound' \in [Keys -> Creds \cup {None}]
         /\ answers' = a
<1>1. log' \in Log
  <2>1. CASE ~l.logged /\ l.cred # None
    BY <2>1, SpendType DEF End, Log
  <2>2. CASE ~(~l.logged /\ l.cred # None)
    BY <2>2 DEF End
  <2> QED BY <2>1, <2>2
<1>2. log'.sid \in SessionIds
  BY <1>1 DEF Log
<1>3. bound' \in [Keys -> Creds \cup {None}]
  BY <1>2 DEF End, Bind
<1> QED BY <1>1, <1>3 DEF End

-----------------------------------------------------------------------------
Serving == {"call", "retry", "fallback", "fbcall", "fbanswer", "answer"}

\* While a request is served there is a credential in use, a fallback router
\* when one is called or answered for, and an attempt left when one is made.
InUse ==
  /\ pc \in Serving => cred \in Creds /\ log.cred \in Creds
  /\ pc \in {"fbcall", "fbanswer"} \/ fbResp # None => fbCred \in Creds
  /\ pc = "fbanswer" => fbResp \in Response
  /\ pc = "retry" => attempt < MaxProviderRetries
  /\ pc = "fbcall" => fbAttempt < MaxFallbackAttempts

TypeInv == TypeOK /\ InUse

LEMMA AnswerType ==
  /\ \A status \in {"error", "limited"} : Own(status) \in Answer
  /\ \A c \in Creds, status \in Statuses, kind \in {"body", "stream", "unread"} :
       From(c, status, kind) \in Response
  /\ Response \subseteq Answer
  BY DEF Own, Answer, From, Response, Statuses

LEMMA TypeInvInit == Init => TypeInv
<1> SUFFICES ASSUME Init PROVE TypeInv
  OBVIOUS
<1>1. log \in Log
  BY DEF Init, Log, SessionIds
<1>2. bound \in [Keys -> Creds \cup {None}]
  BY DEF Init
<1> QED BY <1>1, <1>2, FlowAssumption DEF Init, TypeInv, TypeOK, InUse, Serving

\* The steps before the first call, and those of the calls, one lemma each
\* where it takes more than a line.
LEMMA TypeBefore ==
  ASSUME TypeInv, Authenticate \/ ReadBody \/ SelectCredential \/ SelectNobody
  PROVE  TypeInv'
<1> USE DEF TypeInv, TypeOK, InUse, Serving
<1>0. <<Own("error")>> \in Seq(Answer) /\ <<Own("limited")>> \in Seq(Answer)
  BY AnswerType
<1>1. CASE Authenticate
  <2>1. CASE pc' = "read" /\ UNCHANGED out
    BY <1>1, <2>1 DEF Authenticate, out, request, loop, chain, history
  <2>2. CASE End(log, bound, <<Own("error")>>) \/ End(log, bound, answers)
    BY <1>1, <2>2, <1>0, EndType DEF Authenticate, request, loop, chain, history
  <2> QED BY <1>1, <2>1, <2>2 DEF Authenticate
<1>2. CASE ReadBody
  <2>1. CASE End(log, bound, <<Own("error")>>) /\ UNCHANGED bad
    BY <1>2, <2>1, <1>0, EndType DEF ReadBody, loop, chain, history
  <2>2. ASSUME NEW sid \in {"none", "given"}, NEW b \in BadSets,
               pc' = "select", log' = [log EXCEPT !.sid = sid], bad' = b,
               UNCHANGED <<bound, answers>>
        PROVE  TypeInv'
    <3>1. log' \in Log
      BY <2>2 DEF Log, SessionIds
    <3> QED BY <1>2, <2>2, <3>1, FlowAssumption DEF ReadBody, loop, chain, history
  <2> QED BY <1>2, <2>1, <2>2 DEF ReadBody
<1>3. CASE SelectCredential
  <2> PICK preferred \in {{}} \cup {{c} : c \in Creds}, admitted \in SUBSET Creds :
         \E c \in Selectable(preferred, admitted) :
           \/ /\ c \notin bad
              /\ pc' = "call"
              /\ cred' = c
              /\ tried' = {c}
              /\ log' = [log EXCEPT !.cred = c]
              /\ UNCHANGED <<bound, answers>>
           \/ /\ c \in bad
              /\ End(log, bound, <<Own("error")>>)
              /\ UNCHANGED <<cred, tried>>
    BY <1>3 DEF SelectCredential
  <2> PICK c \in Selectable(preferred, admitted) :
         \/ /\ c \notin bad
            /\ pc' = "call"
            /\ cred' = c
            /\ tried' = {c}
            /\ log' = [log EXCEPT !.cred = c]
            /\ UNCHANGED <<bound, answers>>
         \/ /\ c \in bad
            /\ End(log, bound, <<Own("error")>>)
            /\ UNCHANGED <<cred, tried>>
    OBVIOUS
  <2>0. c \in Creds
    BY SelectionFinds
  <2>1. CASE pc' = "call" /\ cred' = c /\ tried' = {c} /\ UNCHANGED <<bound, answers>>
             /\ log' = [log EXCEPT !.cred = c]
    <3>1. log' \in Log /\ log'.cred = c
      BY <2>0, <2>1 DEF Log
    <3> QED BY <1>3, <2>0, <2>1, <3>1 DEF SelectCredential, request, chain, history
  <2>2. CASE End(log, bound, <<Own("error")>>) /\ UNCHANGED <<cred, tried>>
    BY <1>3, <2>2, <1>0, EndType DEF SelectCredential, request, chain, history
  <2> QED BY <2>1, <2>2
<1>4. CASE SelectNobody
  <2>1. [log EXCEPT !.cred = System] \in Log
    BY DEF Log
  <2>2. Spend([log EXCEPT !.cred = System]) \in Log
    BY <2>1, SpendType DEF Log
  <2> QED BY <1>4, <2>2, <1>0, EndType DEF SelectNobody, request, loop, chain, history
<1> QED BY <1>1, <1>2, <1>3, <1>4

LEMMA TypeCalls ==
  ASSUME TypeInv, RouterCall \/ DirectFatal \/ NoToken \/ DirectCall
  PROVE  TypeInv'
<1> USE DEF TypeInv, TypeOK, InUse, Serving
<1>0. <<Own("error")>> \in Seq(Answer)
  BY AnswerType
<1>a. Again => /\ pc' \in {"retry", "fallback"}
               /\ pc' = "retry" => attempt < MaxProviderRetries
  BY DEF Again
<1>b. sent \in Seq(Creds) /\ (cred \in Creds => Append(sent, cred) \in Seq(Creds))
  OBVIOUS
<1>1. CASE RouterCall
  <2>1. Reports(cred, log') => log' \in Log /\ log'.cred = log.cred
    BY <1>1 DEF RouterCall, Reports, Log
  <2>2. resp' \in Response \cup {None}
    BY <1>1, AnswerType DEF RouterCall
  <2>3. log' \in Log /\ log'.cred = log.cred
    BY <1>1, <2>1 DEF RouterCall
  <2>4. /\ failure' \in Failures \cup {"none"}
        /\ pc' \in {"retry", "fallback", "answer"}
        /\ pc' = "retry" => attempt < MaxProviderRetries
    BY <1>1, <1>a DEF RouterCall
  <2> QED BY <1>1, <1>b, <2>2, <2>3, <2>4 DEF RouterCall, request, chain
<1>2. CASE DirectFatal
  BY <1>2, <1>0, EndType DEF DirectFatal, request, loop, chain, history
<1>3. CASE NoToken
  BY <1>3, <1>a DEF NoToken, request, chain, out, history
<1>4. CASE DirectCall
  <2>1. resp' \in Response \cup {None} /\ failure' \in Failures \cup {"none"}
    BY <1>4, AnswerType DEF DirectCall, DirectFailure, DirectStream, DirectBody,
       DirectUnread, DirectTooLarge
  <2>2. CASE DirectTooLarge
    BY <1>4, <2>1, <2>2, <1>0, <1>b, EndType
       DEF DirectCall, DirectTooLarge, request, chain
  <2>3. CASE ~DirectTooLarge
    <3>1. /\ pc' \in {"retry", "fallback", "answer"}
          /\ pc' = "retry" => attempt < MaxProviderRetries
          /\ UNCHANGED out
      BY <1>4, <2>3, <1>a DEF DirectCall, DirectFailure, DirectStream, DirectBody,
         DirectUnread
    <3> QED BY <1>4, <2>1, <1>b, <3>1 DEF DirectCall, request, chain, out
  <2> QED BY <2>2, <2>3
<1> QED BY <1>1, <1>2, <1>3, <1>4

LEMMA TypeRetry ==
  ASSUME TypeInv, Retry
  PROVE  TypeInv'
<1> USE DEF TypeInv, TypeOK, InUse, Serving
<1>1. PICK live \in SUBSET (Regular \ tried), admitted \in SUBSET (Regular \ tried) :
       \/ \E c \in NextChoices(live, admitted) :
            /\ \/ (Routed \/ c \notin bad) /\ RetryWith(c)
               \/ /\ ~Routed /\ c \in bad
                  /\ Skip(c)
                  /\ UNCHANGED <<cred, attempt, resp, failure, log>>
            /\ passedOver' = passedOver \cup LeftBehind(c, admitted)
       \/ /\ NextChoices(live, admitted) = {}
          /\ pc' = "fallback"
          /\ passedOver' = passedOver \cup LeftBehind(None, admitted)
          /\ UNCHANGED <<loop, log>>
  BY DEF Retry
<1>2. \A c : passedOver \cup LeftBehind(c, admitted) \in SUBSET Creds
  BY DEF LeftBehind, Regular
<1>3. ASSUME NEW c \in NextChoices(live, admitted), RetryWith(c),
             passedOver' = passedOver \cup LeftBehind(c, admitted)
      PROVE  TypeInv'
  <2>1. c \in Creds
    BY RetryFindsNew
  <2>2. log' \in Log /\ log'.cred = c
    BY <1>3, <2>1 DEF RetryWith, Log
  <2>3. attempt' \in 0 .. MaxProviderRetries
    BY <1>3, FlowAssumption DEF Retry, RetryWith
  <2> QED BY <1>2, <1>3, <2>1, <2>2, <2>3 DEF Retry, RetryWith, request, chain
<1>4. ASSUME NEW c \in NextChoices(live, admitted), Skip(c),
             UNCHANGED <<cred, attempt, resp, failure, log>>,
             passedOver' = passedOver \cup LeftBehind(c, admitted)
      PROVE  TypeInv'
  <2>1. c \in Creds
    BY RetryFindsNew
  <2> QED BY <1>2, <1>4, <2>1 DEF Retry, Skip, request, chain
<1>5. CASE /\ pc' = "fallback"
           /\ passedOver' = passedOver \cup LeftBehind(None, admitted)
           /\ UNCHANGED <<loop, log>>
  BY <1>2, <1>5 DEF Retry, request, loop, chain
<1> QED BY <1>1, <1>3, <1>4, <1>5

LEMMA TypeFallback ==
  ASSUME TypeInv, FallbackPick \/ FallbackSpent \/ FallbackCall
  PROVE  TypeInv'
<1> USE DEF TypeInv, TypeOK, InUse, Serving
<1>a. EndChain => /\ pc' \in {"fbanswer", "answer"}
                  /\ pc' = "fbanswer" => fbResp \in Response /\ fbCred \in Creds
  BY DEF EndChain
<1>1. CASE FallbackPick
  <2> PICK admitted \in SUBSET FallbackProxies :
       \/ \E c \in admitted :
            \/ /\ c \notin tried
               /\ pc' = "fbcall"
               /\ fbCred' = c
               /\ tried' = tried \cup {c}
               /\ UNCHANGED passedOver
            \/ /\ c \in tried
               /\ EndChain
               /\ passedOver' = passedOver \cup (admitted \ tried)
               /\ UNCHANGED <<fbCred, tried>>
       \/ /\ admitted = {}
          /\ EndChain
          /\ UNCHANGED <<fbCred, tried, passedOver>>
    BY <1>1 DEF FallbackPick
  <2>1. /\ tried' \in SUBSET Creds
        /\ passedOver' \in SUBSET Creds
        /\ fbCred' \in Creds \cup {None}
        /\ fbResp # None => fbCred' \in Creds
    BY DEF FallbackProxies, Fallbacks
  <2>2. /\ pc' \in {"fbcall", "fbanswer", "answer"}
        /\ pc' \in {"fbcall", "fbanswer"} => fbCred' \in Creds
        /\ pc' = "fbanswer" => fbResp \in Response
    BY <1>a DEF FallbackProxies, Fallbacks
  <2>3. fbAttempt < MaxFallbackAttempts /\ pc = "fallback"
    BY <1>1 DEF FallbackPick
  <2>4. UNCHANGED <<request, cred, attempt, resp, failure, fbAttempt, fbResp, out, sent>>
    BY <1>1 DEF FallbackPick
  <2> QED BY <2>1, <2>2, <2>3, <2>4 DEF request, out
<1>2. CASE FallbackSpent
  BY <1>2, <1>a DEF FallbackSpent, request, loop, chain, out, history
<1>3. CASE FallbackCall
  <2>1. Reports(fbCred, log') => log' \in Log /\ log'.cred = log.cred
    BY <1>3 DEF FallbackCall, Reports, Log
  <2>2. log' \in Log /\ log'.cred = log.cred
    BY <1>3, <2>1 DEF FallbackCall
  <2>3. /\ fbResp' \in Response \cup {None}
        /\ pc' \in {"fallback", "fbanswer"}
        /\ pc' = "fbanswer" => fbResp' \in Response
    BY <1>3, AnswerType DEF FallbackCall
  <2>4. fbAttempt' \in 0 .. MaxFallbackAttempts
    BY <1>3, FlowAssumption DEF FallbackCall
  <2>5. sent' \in Seq(Creds)
    BY <1>3 DEF FallbackCall
  <2> QED BY <1>3, <2>2, <2>3, <2>4, <2>5 DEF FallbackCall, request, loop
<1> QED BY <1>1, <1>2, <1>3

\* A context whose entry is made, with any credential, stays a context.
LEMMA ContextType ==
  ASSUME NEW l \in Log, NEW c \in Creds, NEW done \in BOOLEAN
  PROVE  /\ [l EXCEPT !.completed = done] \in Log
         /\ [l EXCEPT !.completed = done].cred = l.cred
         /\ [l EXCEPT !.completed = done].sid = l.sid
         /\ [l EXCEPT !.cred = c, !.completed = done] \in Log
         /\ [l EXCEPT !.cred = c, !.completed = done].cred = c
         /\ [l EXCEPT !.cred = c, !.completed = done].sid = l.sid
  BY DEF Log

LEMMA DeliveredType ==
  ASSUME NEW l \in Log, NEW status, fbCred \in Creds
  PROVE  /\ Delivered(l, status) \in Log
         /\ Delivered(l, status).cred = fbCred
         /\ Delivered(l, status).logged
         /\ Delivered(l, status).completed = (status = "ok")
         /\ Delivered(l, status).sid = IF l.sid = "none" THEN "request" ELSE l.sid
         /\ Delivered(l, status).entries =
              Append(l.entries, [cred |-> fbCred, actual |-> l.actual])
<1> DEFINE done == (status = "ok")
           m == [l EXCEPT !.cred = fbCred, !.completed = done]
<1>1. done \in BOOLEAN
  OBVIOUS
<1>2. Delivered(l, status) = Spend(m)
  BY DEF Delivered
<1> HIDE DEF done
<1>3. /\ m \in Log /\ m.cred = fbCred /\ m.completed = done
      /\ m.sid = l.sid /\ m.entries = l.entries /\ m.actual = l.actual
  BY <1>1 DEF Log
<1> HIDE DEF m
<1>4. /\ Spend(m) \in Log
      /\ Spend(m).cred = fbCred
      /\ Spend(m).logged
      /\ Spend(m).completed = done
      /\ Spend(m).sid = IF l.sid = "none" THEN "request" ELSE l.sid
      /\ Spend(m).entries = Append(l.entries, [cred |-> fbCred, actual |-> l.actual])
  BY <1>3, SpendType
<1> QED BY <1>2, <1>4 DEF done

\* The report of a router stays with the entry of the chain's answer.
LEMMA DeliveredActual ==
  ASSUME NEW l \in Log, NEW status
  PROVE  Delivered(l, status).actual = l.actual
<1> DEFINE done == (status = "ok")
           m == [l EXCEPT !.cred = fbCred, !.completed = done]
<1>1. Delivered(l, status) = Spend(m)
  BY DEF Delivered
<1> HIDE DEF done
<1>2. m.actual = l.actual
  BY DEF Log
<1>3. m = [m EXCEPT !.logged = m.logged]
  BY DEF Log
<1> QED BY <1>1, <1>2 DEF Spend, Log

LEMMA BindType ==
  ASSUME NEW b \in [Keys -> Creds \cup {None}], NEW sid \in SessionIds,
         NEW c \in Creds \cup {None}
  PROVE  Bind(b, sid, c) \in [Keys -> Creds \cup {None}]
  BY DEF Bind

LEMMA TypeAnswers ==
  ASSUME TypeInv, FallbackAnswer \/ AnswerNone \/ AnswerWith
  PROVE  TypeInv'
<1> USE DEF TypeInv, TypeOK, InUse, Serving
<1>0. log.sid \in SessionIds
  BY DEF Log
<1>1. CASE FallbackAnswer
  <2> DEFINE l == Delivered(log, fbResp.status)
             b == IF fbResp.status = "ok" THEN Bind(bound, log.sid, fbCred) ELSE bound
             a == Append(answers, fbResp)
  <2>1. fbCred \in Creds /\ fbResp \in Response
    BY <1>1 DEF FallbackAnswer
  <2>2. (fbResp.status = "ok") \in BOOLEAN
    OBVIOUS
  <2>3. l \in Log
    BY <2>1, DeliveredType
  <2>4. b \in [Keys -> Creds \cup {None}]
    BY <1>0, <2>1, BindType
  <2>5. a \in Seq(Answer)
    BY <2>1, AnswerType
  <2>6. End(l, b, a) \/ End(log, bound, a)
    BY <1>1 DEF FallbackAnswer
  <2>7. UNCHANGED <<request, loop, chain, history>>
    BY <1>1 DEF FallbackAnswer
  <2> HIDE DEF l, b, a
  <2>8. /\ pc' = "done"
        /\ log' \in Log
        /\ bound' \in [Keys -> Creds \cup {None}]
        /\ answers' \in Seq(Answer)
    BY <2>3, <2>4, <2>5, <2>6, EndType
  <2> QED BY <2>1, <2>7, <2>8 DEF request, loop, chain, history
<1>2. CASE AnswerNone
  <2>1. Append(answers, Own("error")) \in Seq(Answer)
    BY AnswerType
  <2> QED BY <1>2, <2>1, EndType DEF AnswerNone, request, loop, chain, history
<1>3. CASE AnswerWith
  <2>1. PICK l \in {log, Spend(log)}, complete \in BOOLEAN : Answered(l, complete)
    BY <1>3 DEF AnswerWith, AnswerRouterBody, AnswerRouterStream, AnswerStream, AnswerBody
  <2>2. pc = "answer" /\ resp \in Response
    BY <1>3 DEF AnswerWith
  <2> DEFINE done == complete /\ resp.status = "ok"
             m == [l EXCEPT !.completed = done]
             b == IF done THEN Bind(bound, l.sid, cred) ELSE bound
             a == Append(answers, resp)
  <2>3. l \in Log /\ l.sid \in SessionIds
    BY <2>2, SpendType DEF Log
  <2>4. m \in Log
    BY <2>2, <2>3, ContextType
  <2>5. b \in [Keys -> Creds \cup {None}]
    BY <2>2, <2>3, BindType
  <2>6. a \in Seq(Answer)
    BY <2>2, AnswerType
  <2>7. End(m, b, a)
    BY <2>1 DEF Answered
  <2> HIDE DEF m, b, a
  <2>8. /\ pc' = "done"
        /\ log' \in Log
        /\ bound' \in [Keys -> Creds \cup {None}]
        /\ answers' \in Seq(Answer)
    BY <2>4, <2>5, <2>6, <2>7, EndType
  <2> QED BY <1>3, <2>8 DEF AnswerWith, request, loop, chain, history
<1> QED BY <1>1, <1>2, <1>3

LEMMA TypeInvNext == TypeInv /\ [Next]_vars => TypeInv'
<1> SUFFICES ASSUME TypeInv, [Next]_vars PROVE TypeInv'
  OBVIOUS
<1>1. CASE UNCHANGED vars
  BY <1>1 DEF TypeInv, TypeOK, InUse, vars, request, loop, chain, out, history
<1>2. CASE Work
  BY <1>2, TypeBefore, TypeCalls, TypeRetry, TypeFallback, TypeAnswers DEF Work
<1> QED BY <1>1, <1>2 DEF Next, Done

LEMMA TypeInvHolds == Spec => []TypeInv
  BY TypeInvInit, TypeInvNext, PTL DEF Spec

\* Every variable keeps its type: in particular the counters of both loops stay
\* within their limits, and an entry is made for a credential or the system.
THEOREM TypeCorrect == Spec => []TypeOK
<1>1. TypeInv => TypeOK
  BY DEF TypeInv
<1> QED BY <1>1, TypeInvHolds, PTL

-----------------------------------------------------------------------------
\* Who was contacted is marked, and who is about to be contacted is marked and
\* was not contacted yet.
Marks ==
  /\ pc \in {"auth", "read", "select"} => sent = <<>>
  /\ \A i \in DOMAIN sent : sent[i] \in tried
  /\ pc = "call" => cred \in tried /\ \A i \in DOMAIN sent : sent[i] # cred
  /\ pc = "fbcall" => fbCred \in tried /\ \A i \in DOMAIN sent : sent[i] # fbCred
  /\ ContactedOnce

LEMMA ContactNew ==
  ASSUME TypeInv, Marks, NEW c \in tried, \A i \in DOMAIN sent : sent[i] # c,
         sent' = Append(sent, c), tried' = tried,
         pc' \notin {"auth", "read", "select", "call", "fbcall"}
  PROVE  Marks'
<1>1. sent \in Seq(Creds) /\ c \in Creds
  BY DEF TypeInv, TypeOK
<1>2. /\ DOMAIN sent' = 1 .. Len(sent) + 1
      /\ DOMAIN sent = 1 .. Len(sent)
      /\ Len(sent) \in Nat
      /\ sent'[Len(sent) + 1] = c
      /\ \A i \in 1 .. Len(sent) : sent'[i] = sent[i]
  BY <1>1
<1>3. ContactedOnce'
  <2> SUFFICES ASSUME NEW i \in DOMAIN sent', NEW j \in DOMAIN sent', sent'[i] = sent'[j]
               PROVE  i = j
    BY DEF ContactedOnce
  <2>1. CASE i \in 1 .. Len(sent) /\ j \in 1 .. Len(sent)
    BY <1>2, <2>1 DEF Marks, ContactedOnce
  <2>2. CASE i = Len(sent) + 1 \/ j = Len(sent) + 1
    BY <1>2, <2>2
  <2> QED BY <1>2, <2>1, <2>2
<1>4. \A i \in DOMAIN sent' : sent'[i] \in tried'
  BY <1>2 DEF Marks
<1> QED BY <1>3, <1>4 DEF Marks

LEMMA MarksNext ==
  ASSUME TypeInv, Marks, [Next]_vars
  PROVE  Marks'
<1>1. CASE UNCHANGED vars
  BY <1>1 DEF Marks, ContactedOnce, vars, loop, chain, history
<1>2. CASE Authenticate \/ ReadBody \/ SelectNobody
  <2>1. pc \in {"auth", "read", "select"} /\ pc' \in {"read", "select", "done"}
    BY <1>2 DEF Authenticate, ReadBody, SelectNobody, End
  <2>2. sent' = sent
    BY <1>2 DEF Authenticate, ReadBody, SelectNobody, history
  <2> QED BY <2>1, <2>2 DEF Marks, ContactedOnce
<1>3. CASE SelectCredential
  <2>1. sent = <<>> /\ sent' = <<>>
    BY <1>3 DEF SelectCredential, Marks, history
  <2>2. pc' = "done" \/ (pc' = "call" /\ cred' \in tried')
    BY <1>3 DEF SelectCredential, End
  <2> QED BY <2>1, <2>2 DEF Marks, ContactedOnce
<1>4. CASE DirectFatal \/ NoToken \/ FallbackSpent \/ FallbackAnswer \/ AnswerNone \/ AnswerWith
  <2>1. pc' \in {"done", "retry", "fallback", "fbanswer", "answer"}
    BY <1>4 DEF DirectFatal, NoToken, FallbackSpent, FallbackAnswer, AnswerNone, AnswerWith,
       AnswerRouterBody, AnswerRouterStream, AnswerStream, AnswerBody, Answered, End, Again,
       EndChain
  <2>2. UNCHANGED <<sent, tried>>
    BY <1>4 DEF DirectFatal, NoToken, FallbackSpent, FallbackAnswer, AnswerNone, AnswerWith,
       loop, history
  <2> QED BY <2>1, <2>2 DEF Marks, ContactedOnce
<1>5. CASE RouterCall \/ DirectCall
  <2>1. pc = "call" /\ sent' = Append(sent, cred) /\ tried' = tried
    BY <1>5 DEF RouterCall, DirectCall
  <2>2. pc' \in {"retry", "fallback", "answer", "done"}
    BY <1>5 DEF RouterCall, DirectCall, DirectFailure, DirectStream, DirectBody, DirectUnread,
       DirectTooLarge, Again, End
  <2> QED BY <2>1, <2>2, ContactNew DEF Marks
<1>6. CASE FallbackCall
  <2>1. pc = "fbcall" /\ sent' = Append(sent, fbCred) /\ tried' = tried
    BY <1>6 DEF FallbackCall, loop
  <2>2. pc' \in {"fallback", "fbanswer"}
    BY <1>6 DEF FallbackCall
  <2> QED BY <2>1, <2>2, ContactNew DEF Marks
<1>7. CASE Retry
  <2>1. /\ sent' = sent
        /\ tried \subseteq tried'
        /\ pc' \in {"retry", "call", "fallback"}
        /\ pc' = "call" => cred' \in tried' /\ cred' \notin tried
    BY <1>7, RetryFindsNew DEF Retry, RetryWith, Skip, loop
  <2> QED BY <2>1 DEF Marks, ContactedOnce
<1>8. CASE FallbackPick
  <2>1. /\ sent' = sent
        /\ tried \subseteq tried'
        /\ pc' \in {"fbcall", "fbanswer", "answer"}
        /\ pc' = "fbcall" => fbCred' \in tried' /\ fbCred' \notin tried
    BY <1>8 DEF FallbackPick, EndChain
  <2> QED BY <2>1 DEF Marks, ContactedOnce
<1> QED BY <1>1, <1>2, <1>3, <1>4, <1>5, <1>6, <1>7, <1>8 DEF Next, Work, Done

LEMMA MarksHold == Spec => []Marks
<1>1. Init => Marks
  BY DEF Init, Marks, ContactedOnce
<1>2. TypeInv /\ Marks /\ [Next]_vars => Marks'
  BY MarksNext
<1> QED BY <1>1, <1>2, TypeInvHolds, PTL DEF Spec

\* No credential is contacted twice for one request, by neither loop nor by
\* one after the other.
THEOREM NobodyTwice == Spec => []ContactedOnce
<1>1. Marks => ContactedOnce
  BY DEF Marks
<1> QED BY <1>1, MarksHold, PTL

-----------------------------------------------------------------------------
\* Before its end a request has neither answer nor entry, and nobody was
\* contacted without a credential in the context.
Open ==
  pc # "done" =>
    /\ answers = <<>>
    /\ log.entries = <<>>
    /\ ~log.logged
    /\ ~log.completed
    /\ log.sid # "request"
    /\ pc \notin Serving => log.cred = None

\* What holds of the end.
Closed ==
  /\ AnsweredOnce
  /\ EntryOnce

Accounts == Open /\ Closed

\* The deferred function makes the entry that is missing, and only that.
LEMMA EndAccounts ==
  ASSUME NEW l \in Log, NEW b, NEW a, End(l, b, a), Len(a) <= 1,
         \/ l.entries = <<>> /\ ~l.logged
         \/ Len(l.entries) = 1 /\ l.logged,
         sent' # <<>> => l.cred # None \/ l.logged
  PROVE  Accounts'
<1>1. pc' = "done" /\ answers' = a
  BY DEF End
<1>2. /\ Len(log'.entries) <= 1
      /\ sent' # <<>> => Len(log'.entries) = 1
  <2>1. CASE l.entries = <<>> /\ ~l.logged /\ l.cred # None
    <3>1. log' = Spend(l)
      BY <2>1 DEF End
    <3>2. log'.entries = Append(l.entries, [cred |-> l.cred, actual |-> l.actual])
      BY <2>1, <3>1, SpendType DEF Log
    <3>3. Len(log'.entries) = 1
      BY <2>1, <3>2
    <3> QED BY <3>3
  <2>2. CASE l.entries = <<>> /\ ~l.logged /\ l.cred = None
    <3>1. log' = l
      BY <2>2 DEF End
    <3>2. Len(l.entries) = 0 /\ sent' = <<>>
      BY <2>2
    <3> QED BY <3>1, <3>2
  <2>3. CASE Len(l.entries) = 1 /\ l.logged
    <3>1. log' = l
      BY <2>3 DEF End
    <3>2. log'.entries = l.entries
      BY <3>1
    <3>3. Len(log'.entries) = 1
      BY <2>3, <3>2, Zenon
    <3> QED BY <3>3
  <2> QED BY <2>1, <2>2, <2>3
<1> QED BY <1>1, <1>2 DEF Accounts, Open, Closed, AnsweredOnce, EntryOnce

LEMMA SpentOnce ==
  ASSUME NEW l \in Log, l.cred \in Creds \cup {System}, l.entries = <<>>
  PROVE  Len(Spend(l).entries) = 1 /\ Spend(l).logged
<1>1. Spend(l).entries = Append(l.entries, [cred |-> l.cred, actual |-> l.actual])
  BY SpendType
<1> QED BY <1>1, SpendType

LEMMA AccountsNext ==
  ASSUME TypeInv, Marks, Accounts, [Next]_vars
  PROVE  Accounts'
<1> USE DEF Accounts, Open, Closed
<1>a. log \in Log /\ (pc \in Serving => log.cred \in Creds)
  BY DEF TypeInv, TypeOK, InUse
<1>b. pc # "done" => Len(answers) = 0
  OBVIOUS
<1>c. None \notin Creds
  BY FlowAssumption
<1>1. CASE UNCHANGED vars
  BY <1>1 DEF AnsweredOnce, EntryOnce, vars, out, history
<1>2. CASE Authenticate
  <2>1. sent' = <<>> /\ pc = "auth" /\ answers = <<>>
    BY <1>2 DEF Authenticate, history, Marks
  <2>2. CASE pc' = "read" /\ UNCHANGED out
    BY <2>1, <2>2 DEF AnsweredOnce, EntryOnce, out, Serving
  <2>3. CASE End(log, bound, <<Own("error")>>)
    <3>1. Len(<<Own("error")>>) <= 1
      OBVIOUS
    <3> QED BY <2>1, <2>3, <3>1, <1>a, EndAccounts
  <2>4. CASE End(log, bound, answers)
    BY <2>1, <2>4, <1>a, EndAccounts
  <2> QED BY <1>2, <2>2, <2>3, <2>4 DEF Authenticate
<1>3. CASE ReadBody
  <2>1. sent' = <<>> /\ pc = "read"
    BY <1>3 DEF ReadBody, history, Marks
  <2>2. CASE End(log, bound, <<Own("error")>>)
    <3>1. Len(<<Own("error")>>) <= 1
      OBVIOUS
    <3> QED BY <2>1, <2>2, <3>1, <1>a, EndAccounts
  <2>3. ASSUME NEW sid \in {"none", "given"}, pc' = "select",
               log' = [log EXCEPT !.sid = sid], UNCHANGED <<bound, answers>>
        PROVE  Accounts'
    <3>1. /\ log'.sid = sid
          /\ log'.entries = log.entries
          /\ log'.logged = log.logged
          /\ log'.completed = log.completed
          /\ log'.cred = log.cred
      BY <2>3, <1>a DEF Log
    <3> QED BY <2>1, <2>3, <3>1 DEF AnsweredOnce, EntryOnce, Serving
  <2> QED BY <1>3, <2>2, <2>3 DEF ReadBody
<1>4. CASE SelectCredential
  <2>1. sent' = <<>> /\ pc = "select"
    BY <1>4 DEF SelectCredential, history, Marks
  <2>2. CASE End(log, bound, <<Own("error")>>)
    <3>1. Len(<<Own("error")>>) <= 1
      OBVIOUS
    <3> QED BY <2>1, <2>2, <3>1, <1>a, EndAccounts
  <2>3. ASSUME NEW c, pc' = "call", log' = [log EXCEPT !.cred = c], UNCHANGED <<bound, answers>>
        PROVE  Accounts'
    <3>1. /\ log'.sid = log.sid
          /\ log'.entries = log.entries
          /\ log'.logged = log.logged
          /\ log'.completed = log.completed
      BY <2>3, <1>a DEF Log
    <3> QED BY <2>1, <2>3, <3>1 DEF AnsweredOnce, EntryOnce, Serving
  <2> QED BY <1>4, <2>2, <2>3 DEF SelectCredential
<1>5. CASE SelectNobody
  <2> DEFINE l == [log EXCEPT !.cred = System]
  <2>1. l \in Log /\ l.cred = System /\ l.entries = <<>>
    BY <1>5, <1>a DEF Log, SelectNobody
  <2> HIDE DEF l
  <2>2. /\ Spend(l) \in Log
        /\ Len(Spend(l).entries) = 1
        /\ Spend(l).logged
    BY <2>1, SpendType, SpentOnce
  <2>3. End(Spend(l), bound, <<Own("limited")>>)
    BY <1>5 DEF SelectNobody, l
  <2>4. Len(<<Own("limited")>>) <= 1
    OBVIOUS
  <2> QED BY <2>2, <2>3, <2>4, EndAccounts
<1>6. CASE DirectFatal
  <2>1. Len(<<Own("error")>>) <= 1 /\ pc = "call" /\ End(log, bound, <<Own("error")>>)
    BY <1>6 DEF DirectFatal
  <2> QED BY <2>1, <1>a, <1>c, EndAccounts DEF Serving
<1>7. CASE RouterCall \/ FallbackCall
  <2>1. /\ pc \in Serving /\ pc' \in Serving /\ pc # "done" /\ pc' # "done"
        /\ answers' = answers
    BY <1>7 DEF RouterCall, FallbackCall, Again, Serving
  <2>2. \A c : Reports(c, log') => /\ log'.sid = log.sid
                                  /\ log'.entries = log.entries
                                  /\ log'.logged = log.logged
                                  /\ log'.completed = log.completed
    BY <1>a DEF Reports, Log
  <2>3. /\ log'.sid = log.sid
        /\ log'.entries = log.entries
        /\ log'.logged = log.logged
        /\ log'.completed = log.completed
    BY <1>7, <2>2 DEF RouterCall, FallbackCall
  <2> QED BY <2>1, <2>3 DEF AnsweredOnce, EntryOnce
<1>8. CASE DirectCall
  <2>1. pc = "call"
    BY <1>8 DEF DirectCall
  <2>2. CASE DirectTooLarge
    <3>1. Len(<<Own("error")>>) <= 1 /\ End(log, bound, <<Own("error")>>)
      BY <2>2 DEF DirectTooLarge
    <3> QED BY <2>1, <3>1, <1>a, <1>c, EndAccounts DEF Serving
  <2>3. CASE ~DirectTooLarge
    <3>1. pc' \in Serving /\ pc' # "done" /\ UNCHANGED out
      BY <1>8, <2>3 DEF DirectCall, DirectFailure, DirectStream, DirectBody, DirectUnread,
         Again, Serving
    <3> QED BY <2>1, <3>1 DEF AnsweredOnce, EntryOnce, out
  <2> QED BY <2>2, <2>3
<1>9. CASE NoToken \/ FallbackPick \/ FallbackSpent
  <2>1. pc \in Serving /\ pc # "done" /\ pc' \in Serving /\ pc' # "done" /\ UNCHANGED out
    BY <1>9 DEF NoToken, FallbackPick, FallbackSpent, Again, EndChain, Serving
  <2> QED BY <2>1 DEF AnsweredOnce, EntryOnce, out
<1>10. CASE Retry
  <2>1. /\ pc = "retry" /\ pc' \in Serving /\ pc' # "done" /\ answers' = answers
        /\ log' = log \/ \E c : log' = [log EXCEPT !.cred = c]
    BY <1>10 DEF Retry, RetryWith, Skip, Serving
  <2>2. /\ log'.sid = log.sid
        /\ log'.entries = log.entries
        /\ log'.logged = log.logged
        /\ log'.completed = log.completed
    BY <2>1, <1>a DEF Log
  <2> QED BY <2>1, <2>2 DEF AnsweredOnce, EntryOnce
<1>11. CASE FallbackAnswer
  <2>1. pc = "fbanswer" /\ fbCred \in Creds /\ answers = <<>>
    BY <1>11 DEF FallbackAnswer, TypeInv, InUse
  <2>2. Len(Append(answers, fbResp)) <= 1
    BY <2>1
  <2> DEFINE l == Delivered(log, fbResp.status)
  <2>3. l \in Log /\ l.logged /\ Len(l.entries) = 1
    <3>1. l.entries = Append(log.entries, [cred |-> fbCred, actual |-> log.actual])
      BY <2>1, <1>a, DeliveredType
    <3> QED BY <2>1, <3>1, <1>a, DeliveredType
  <2>4. CASE End(log, bound, Append(answers, fbResp))
    BY <2>1, <2>2, <2>4, <1>a, <1>c, EndAccounts DEF Serving
  <2>5. ASSUME NEW b, End(l, b, Append(answers, fbResp))
        PROVE  Accounts'
    <3> HIDE DEF l
    <3> QED BY <2>2, <2>3, <2>5, EndAccounts
  <2> QED BY <1>11, <2>4, <2>5 DEF FallbackAnswer
<1>12. CASE AnswerNone
  <2>1. pc = "answer" /\ answers = <<>> /\ End(log, bound, Append(answers, Own("error")))
    BY <1>12 DEF AnswerNone
  <2>2. Len(Append(answers, Own("error"))) <= 1
    BY <2>1
  <2> QED BY <2>1, <2>2, <1>a, <1>c, EndAccounts DEF Serving
<1>13. CASE AnswerWith
  <2>1. PICK l \in {log, Spend(log)}, complete \in BOOLEAN : Answered(l, complete)
    BY <1>13 DEF AnswerWith, AnswerRouterBody, AnswerRouterStream, AnswerStream, AnswerBody
  <2>2. pc = "answer" /\ answers = <<>>
    BY <1>13 DEF AnswerWith
  <2>3. Len(Append(answers, resp)) <= 1
    BY <2>2
  <2> DEFINE done == complete /\ resp.status = "ok"
             m == [l EXCEPT !.completed = done]
  <2>4. done \in BOOLEAN
    OBVIOUS
  <2>5. PICK b : End(m, b, Append(answers, resp))
    BY <2>1 DEF Answered
  <2> HIDE DEF done
  <2>6. /\ l \in Log /\ l.cred = log.cred
        /\ \/ l.entries = <<>> /\ ~l.logged
           \/ Len(l.entries) = 1 /\ l.logged
    BY <2>2, <1>a, SpendType, SpentOnce DEF Serving
  <2>7. /\ m \in Log /\ m.cred = l.cred /\ m.entries = l.entries /\ m.logged = l.logged
    BY <2>4, <2>6 DEF Log
  <2> HIDE DEF m
  <2> QED BY <2>2, <2>3, <2>5, <2>6, <2>7, <1>a, <1>c, EndAccounts DEF Serving
<1> QED BY <1>1, <1>2, <1>3, <1>4, <1>5, <1>6, <1>7, <1>8, <1>9, <1>10, <1>11, <1>12, <1>13
        DEF Next, Work, Done

LEMMA AccountsHold == Spec => []Accounts
<1>1. Init => Accounts
  BY DEF Init, Accounts, Open, Closed, AnsweredOnce, EntryOnce, Serving
<1>2. TypeInv /\ Marks /\ Accounts /\ [Next]_vars => Accounts'
  BY AccountsNext
<1> QED BY <1>1, <1>2, TypeInvHolds, MarksHold, PTL DEF Spec

\* A request is answered once at most, and nothing follows its answer.
THEOREM OneAnswer == Spec => []AnsweredOnce
<1>1. Accounts => AnsweredOnce
  BY DEF Accounts, Closed
<1> QED BY <1>1, AccountsHold, PTL

\* A request that contacted anybody makes exactly one entry, and no request
\* makes two.
THEOREM OneEntry == Spec => []EntryOnce
<1>1. Accounts => EntryOnce
  BY DEF Accounts, Closed
<1> QED BY <1>1, AccountsHold, PTL

-----------------------------------------------------------------------------
\* The calls made so far, against the counters of the two loops.
Budget ==
  /\ pc = "call" => Len(sent) <= attempt
  /\ pc = "retry" => Len(sent) <= attempt + 1
  /\ pc \in {"fallback", "fbcall"} => Len(sent) <= attempt + 1 + fbAttempt
  /\ ContactsBounded

\* Who makes a call, and that nothing else adds to the history of calls.
LEMMA Callers ==
  ASSUME TypeInv, Work
  PROVE  \/ sent' = sent
         \/ pc = "call" /\ sent' = Append(sent, cred)
         \/ pc = "fbcall" /\ sent' = Append(sent, fbCred)
<1>1. CASE RouterCall \/ DirectCall \/ FallbackCall
  BY <1>1 DEF RouterCall, DirectCall, FallbackCall
<1>2. CASE ~(RouterCall \/ DirectCall \/ FallbackCall)
  BY <1>2 DEF Work, Authenticate, ReadBody, SelectCredential, SelectNobody, DirectFatal, NoToken,
     Retry, FallbackPick, FallbackSpent, FallbackAnswer, AnswerNone, AnswerWith, history
<1> QED BY <1>1, <1>2

LEMMA BudgetNext ==
  ASSUME TypeInv, Marks, Budget, [Next]_vars
  PROVE  Budget'
<1> USE DEF Budget, ContactsBounded, MaxContacts
<1>a. /\ Len(sent) \in Nat
      /\ attempt \in 0 .. MaxProviderRetries
      /\ fbAttempt \in 0 .. MaxFallbackAttempts
      /\ MaxProviderRetries \in Nat
      /\ MaxFallbackAttempts \in Nat
  BY FlowAssumption DEF TypeInv, TypeOK
<1>b. \A c \in Creds : sent' = Append(sent, c) => Len(sent') = Len(sent) + 1
  BY DEF TypeInv, TypeOK
<1>1. CASE UNCHANGED vars
  BY <1>1 DEF vars, loop, chain, history
<1>2. CASE Authenticate \/ ReadBody \/ SelectNobody \/ DirectFatal \/ FallbackAnswer
           \/ AnswerNone \/ AnswerWith
  <2>1. pc' \in {"read", "select", "done"} /\ sent' = sent
    BY <1>2 DEF Authenticate, ReadBody, SelectNobody, DirectFatal, FallbackAnswer, AnswerNone,
       AnswerWith, AnswerRouterBody, AnswerRouterStream, AnswerStream, AnswerBody, Answered, End,
       history
  <2> QED BY <2>1
<1>3. CASE SelectCredential
  <2>1. sent' = <<>> /\ attempt' = attempt /\ pc' \in {"call", "done"}
    BY <1>3 DEF SelectCredential, Marks, End, history
  <2>2. Len(sent') = 0
    BY <2>1
  <2> QED BY <2>1, <2>2, <1>a
<1>4. CASE RouterCall \/ DirectCall
  <2>1. /\ pc = "call" /\ cred \in Creds /\ sent' = Append(sent, cred)
        /\ attempt' = attempt /\ fbAttempt' = fbAttempt
        /\ pc' \in {"retry", "fallback", "answer", "done"}
    BY <1>4 DEF RouterCall, DirectCall, DirectFailure, DirectStream, DirectBody, DirectUnread,
       DirectTooLarge, Again, End, chain, TypeInv, InUse, Serving
  <2> QED BY <2>1, <1>a, <1>b
<1>5. CASE NoToken
  <2>1. /\ pc = "call" /\ sent' = sent /\ attempt' = attempt /\ fbAttempt' = fbAttempt
        /\ pc' \in {"retry", "fallback"}
    BY <1>5 DEF NoToken, Again, chain, history
  <2> QED BY <2>1, <1>a
<1>6. CASE Retry
  <2>1. /\ pc = "retry" /\ sent' = sent /\ fbAttempt' = fbAttempt
        /\ \/ pc' = "call" /\ attempt' = attempt + 1
           \/ pc' \in {"retry", "fallback"} /\ attempt' = attempt
    BY <1>6 DEF Retry, RetryWith, Skip, loop, chain
  <2> QED BY <2>1, <1>a
<1>7. CASE FallbackPick \/ FallbackSpent
  <2>1. /\ pc = "fallback" /\ sent' = sent /\ attempt' = attempt /\ fbAttempt' = fbAttempt
        /\ pc' \in {"fbcall", "fbanswer", "answer"}
    BY <1>7 DEF FallbackPick, FallbackSpent, EndChain, loop, chain, history
  <2> QED BY <2>1, <1>a
<1>8. CASE FallbackCall
  <2>1. /\ pc = "fbcall" /\ fbCred \in Creds /\ fbAttempt < MaxFallbackAttempts
        /\ sent' = Append(sent, fbCred) /\ attempt' = attempt
        /\ \/ pc' = "fallback" /\ fbAttempt' = fbAttempt + 1
           \/ pc' = "fbanswer"
    BY <1>8 DEF FallbackCall, loop, TypeInv, InUse
  <2> QED BY <2>1, <1>a, <1>b
<1> QED BY <1>1, <1>2, <1>3, <1>4, <1>5, <1>6, <1>7, <1>8 DEF Next, Work, Done

LEMMA BudgetHolds == Spec => []Budget
<1>1. Init => Budget
  BY FlowAssumption DEF Init, Budget, ContactsBounded, MaxContacts
<1>2. TypeInv /\ Marks /\ Budget /\ [Next]_vars => Budget'
  BY BudgetNext
<1> QED BY <1>1, <1>2, TypeInvHolds, MarksHold, PTL DEF Spec

\* The loops make no more calls than the numbers they are configured with add
\* up to, whatever the first credential, its priority and its type are.
THEOREM CallsAreBounded == Spec => []ContactsBounded
<1>1. Budget => ContactsBounded
  BY DEF Budget
<1> QED BY <1>1, BudgetHolds, PTL

-----------------------------------------------------------------------------
LEMMA AppendContacts ==
  ASSUME sent \in Seq(Creds), NEW c \in Creds, sent' = Append(sent, c)
  PROVE  /\ {sent'[i] : i \in DOMAIN sent'} = {sent[i] : i \in DOMAIN sent} \cup {c}
         /\ Len(sent') = Len(sent) + 1
<1>1. /\ DOMAIN sent' = 1 .. Len(sent) + 1
      /\ DOMAIN sent = 1 .. Len(sent)
      /\ Len(sent) \in Nat
      /\ sent'[Len(sent) + 1] = c
      /\ \A i \in 1 .. Len(sent) : sent'[i] = sent[i]
      /\ Len(sent') = Len(sent) + 1
  OBVIOUS
<1>2. \A i : i \in DOMAIN sent' <=> i \in DOMAIN sent \/ i = Len(sent) + 1
  BY <1>1
<1>3. {sent'[i] : i \in DOMAIN sent'} \subseteq {sent[i] : i \in DOMAIN sent} \cup {c}
  BY <1>1, <1>2
<1>4. {sent[i] : i \in DOMAIN sent} \cup {c} \subseteq {sent'[i] : i \in DOMAIN sent'}
  BY <1>1, <1>2
<1> QED BY <1>1, <1>3, <1>4

\* A call of c is a contact of the contract.
LEMMA ContactRefines ==
  ASSUME TypeInv, Marks, ContactsBounded', answers = <<>>,
         NEW c \in Creds, \A i \in DOMAIN sent : sent[i] # c, sent' = Append(sent, c)
  PROVE  Contract!Next
<1>1. sent \in Seq(Creds) /\ Len(sent) \in Nat
  BY DEF TypeInv, TypeOK
<1>2. c \notin {sent[i] : i \in DOMAIN sent}
  OBVIOUS
<1>3. Len(sent) < MaxContacts
  BY <1>1, AppendContacts, FlowAssumption DEF ContactsBounded, MaxContacts
<1>4. Contract!Contact(c)
  BY <1>1, <1>2, <1>3, AppendContacts DEF Contract!Contact
<1>5. (answers # <<>>)' \in BOOLEAN
  OBVIOUS
<1> QED BY <1>4, <1>5 DEF Contract!Next

LEMMA StepRefines ==
  ASSUME TypeInv, Marks, Accounts, Budget', [Next]_vars
  PROVE  [Contract!Next]_Contract!vars
<1>1. CASE UNCHANGED vars
  BY <1>1 DEF vars, out, history, Contract!vars
<1>2. CASE Work
  <2>1. pc # "done"
    BY <1>2 DEF Work, Authenticate, ReadBody, SelectCredential, SelectNobody, RouterCall,
       DirectFatal, NoToken, DirectCall, Retry, FallbackPick, FallbackSpent, FallbackCall,
       FallbackAnswer, AnswerNone, AnswerWith
  <2>2. answers = <<>>
    BY <2>1 DEF Accounts, Open
  <2>3. CASE sent' = sent
    BY <2>2, <2>3 DEF Contract!Next
  <2>4. CASE pc = "call" /\ sent' = Append(sent, cred)
    BY <2>2, <2>4, ContactRefines DEF Marks, Budget, TypeInv, InUse, Serving
  <2>5. CASE pc = "fbcall" /\ sent' = Append(sent, fbCred)
    BY <2>2, <2>5, ContactRefines DEF Marks, Budget, TypeInv, InUse
  <2> QED BY <1>2, <2>3, <2>4, <2>5, Callers
<1> QED BY <1>1, <1>2 DEF Next, Done

\* The two loops with their retries, skips and fallbacks implement the contract
\* of failover: every step is one contact, a contact with the answer, the
\* answer, or nothing that the contract sees.
THEOREM ImplementsContract == Spec => KeepsContract
<1>1. Init => Contract!Init
  BY DEF Init, Contract!Init
<1>2. TypeInv /\ Marks /\ Accounts /\ Budget' /\ [Next]_vars => [Contract!Next]_Contract!vars
  BY StepRefines
<1> QED BY <1>1, <1>2, TypeInvHolds, MarksHold, AccountsHold, BudgetHolds, PTL
        DEF Spec, KeepsContract, Contract!Spec

-----------------------------------------------------------------------------
\* A success is kept only for the answer: a retry carries nothing but errors
\* along, so that what is answered came from the credential it is charged to.
Sources ==
  /\ pc \in {"auth", "read", "select"} => resp = None
  /\ pc \in Serving => log.cred = cred
  /\ pc \in Serving /\ resp # None /\ resp.status = "ok" => resp.from = cred
  /\ pc = "call" \/ (pc = "retry" /\ Routed) => resp = None \/ resp.status # "ok"
  /\ pc = "call" /\ resp # None => Routed
  /\ pc = "fbanswer" /\ fbResp.status = "ok" => fbResp.from = fbCred
  /\ pc \notin {"fbanswer", "done"} => fbResp = None \/ fbResp.status # "ok"
  /\ pc # "done" => bound["request"] = None

Outcome == CompleteIsAttributed /\ SessionFollowsSuccess

Attributed == Sources /\ Outcome

LEMMA RoutersStay ==
  ASSUME NEW live, NEW admitted, Routed,
         NEW c \in NextChoices(live, admitted)
  PROVE  Type[c] = ProxyType
  BY DEF NextChoices, RetryChoices, SameType, Routed

\* A request that did not complete leaves no binding of its session.
LEMMA EndIncomplete ==
  ASSUME NEW l \in Log, NEW b \in [Keys -> Creds \cup {None}], NEW a,
         End(l, b, a), ~l.completed
  PROVE  Outcome'
<1>1. log'.completed = FALSE /\ log' \in Log /\ pc' = "done"
  <2>1. CASE ~l.logged /\ l.cred # None
    BY <2>1, SpendType DEF End, Log
  <2>2. CASE ~(~l.logged /\ l.cred # None)
    BY <2>2 DEF End, Log
  <2> QED BY <2>1, <2>2
<1>2. bound' = Bind(b, log'.sid, None)
  BY DEF End
<1>3. log'.sid = "given" => bound'["given"] = None
  BY <1>2 DEF Bind, Keys, SessionIds
<1> QED BY <1>1, <1>3 DEF Outcome, CompleteIsAttributed, SessionFollowsSuccess

\* A request that completed is charged to, and bound to, who answered it.
LEMMA EndComplete ==
  ASSUME NEW l \in Log, NEW b \in [Keys -> Creds \cup {None}], NEW r,
         End(l, b, <<r>>), l.completed, l.cred \in Creds,
         r.status = "ok", r.from = l.cred,
         \/ ~l.logged /\ l.entries = <<>>
         \/ l.logged /\ l.entries = <<[cred |-> l.cred, actual |-> l.actual]>>,
         l.sid = "given" => b["given"] = r.from,
         b["request"] \in {r.from, None}
  PROVE  Outcome'
<1>1. log' \in Log /\ pc' = "done" /\ answers' = <<r>> /\ bound' = b
  BY EndType DEF End
<1>2. log'.entries[1].cred = l.cred
  <2>1. CASE ~l.logged /\ l.entries = <<>>
    <3>1. log' = Spend(l)
      BY <2>1, FlowAssumption DEF End
    <3>2. log'.entries = <<[cred |-> l.cred, actual |-> l.actual]>>
      BY <2>1, <3>1, SpendType
    <3> QED BY <3>2
  <2>2. CASE l.logged /\ l.entries = <<[cred |-> l.cred, actual |-> l.actual]>>
    BY <2>2 DEF End
  <2> QED BY <2>1, <2>2
<1>3. log'.sid = "given" <=> l.sid = "given"
  <2>1. CASE ~l.logged /\ l.cred # None
    BY <2>1, SpendType DEF End
  <2>2. CASE ~(~l.logged /\ l.cred # None)
    BY <2>2 DEF End
  <2> QED BY <2>1, <2>2
<1>4. log'.completed
  <2>1. CASE ~l.logged /\ l.cred # None
    BY <2>1, SpendType DEF End
  <2>2. CASE ~(~l.logged /\ l.cred # None)
    BY <2>2 DEF End
  <2> QED BY <2>1, <2>2
<1>5. \A k \in Keys : bound'[k] \in {r.from, None} \/ log'.sid # k
  BY <1>1, <1>3 DEF Keys, SessionIds
<1>6. log'.sid = "given" => bound'["given"] = r.from
  BY <1>1, <1>3
<1>7. answers'[1] = r
  BY <1>1
<1> QED BY <1>1, <1>2, <1>4, <1>5, <1>6, <1>7
        DEF Outcome, CompleteIsAttributed, SessionFollowsSuccess

LEMMA OutcomeOpen ==
  ASSUME pc' # "done"
  PROVE  Outcome'
  BY DEF Outcome, CompleteIsAttributed, SessionFollowsSuccess

\* The steps before the first call, where nothing is kept yet.
LEMMA AttributedBefore ==
  ASSUME TypeInv, Accounts, Attributed,
         Authenticate \/ ReadBody \/ SelectCredential \/ SelectNobody
  PROVE  Attributed'
<1>a. log \in Log /\ bound \in [Keys -> Creds \cup {None}] /\ pc \in {"auth", "read", "select"}
  BY DEF TypeInv, TypeOK, Authenticate, ReadBody, SelectCredential, SelectNobody
<1>b. ~log.completed
  BY <1>a DEF Accounts, Open
<1>c. UNCHANGED <<resp, fbResp, fbCred>>
  BY DEF Authenticate, ReadBody, SelectCredential, SelectNobody, loop, chain
<1>d. CASE \E a : End(log, bound, a)
  <2>1. Outcome' /\ pc' = "done"
    BY <1>a, <1>b, <1>d, EndIncomplete DEF End
  <2> QED BY <1>c, <2>1 DEF Attributed, Sources, Serving
<1>1. CASE Authenticate /\ ~\E a : End(log, bound, a)
  <2>1. pc' = "read" /\ bound' = bound
    BY <1>1 DEF Authenticate, out
  <2> QED BY <1>a, <1>c, <2>1, OutcomeOpen DEF Attributed, Sources, Serving
<1>2. CASE ReadBody /\ ~\E a : End(log, bound, a)
  <2>1. pc' = "select" /\ bound' = bound
    BY <1>2 DEF ReadBody
  <2> QED BY <1>a, <1>c, <2>1, OutcomeOpen DEF Attributed, Sources, Serving
<1>3. CASE SelectCredential /\ ~\E a : End(log, bound, a)
  <2>1. PICK c : pc' = "call" /\ cred' = c /\ log' = [log EXCEPT !.cred = c] /\ bound' = bound
    BY <1>3 DEF SelectCredential
  <2>2. log'.cred = cred'
    BY <1>a, <2>1 DEF Log
  <2>3. resp = None /\ resp' = None
    BY <1>a, <1>c DEF Attributed, Sources
  <2> QED BY <1>a, <1>c, <2>1, <2>2, <2>3, OutcomeOpen DEF Attributed, Sources, Serving
<1>4. CASE SelectNobody
  <2> DEFINE m == [log EXCEPT !.cred = System]
  <2>1. m \in Log /\ m.cred = System /\ ~m.completed
    BY <1>a, <1>b DEF Log
  <2> HIDE DEF m
  <2>2. Spend(m) \in Log /\ ~Spend(m).completed
    BY <2>1, SpendType
  <2>3. End(Spend(m), bound, <<Own("limited")>>)
    BY <1>4 DEF SelectNobody, m
  <2>4. Outcome' /\ pc' = "done"
    BY <1>a, <2>2, <2>3, EndIncomplete DEF End
  <2> QED BY <1>c, <2>4 DEF Attributed, Sources, Serving
<1> QED BY <1>d, <1>1, <1>2, <1>3, <1>4

LEMMA AttributedCalls ==
  ASSUME TypeInv, Accounts, Attributed, RouterCall \/ DirectFatal \/ NoToken \/ DirectCall
  PROVE  Attributed'
<1>a. /\ log \in Log /\ bound \in [Keys -> Creds \cup {None}] /\ pc = "call"
      /\ log.cred = cred
      /\ resp = None \/ (Routed /\ resp.status # "ok")
  BY DEF TypeInv, TypeOK, RouterCall, DirectFatal, NoToken, DirectCall, Attributed, Sources,
         Serving
<1>b. ~log.completed
  BY <1>a DEF Accounts, Open
<1>c. UNCHANGED <<cred, fbResp, fbCred>>
  BY DEF RouterCall, DirectFatal, NoToken, DirectCall, loop, chain
<1>1. CASE \E a : End(log, bound, a)
  <2>1. Outcome' /\ pc' = "done"
    BY <1>a, <1>b, <1>1, EndIncomplete DEF End
  <2> QED BY <1>a, <1>c, <2>1 DEF Attributed, Sources, Serving
<1>2. CASE RouterCall
  <2>1. /\ pc' \in {"retry", "fallback", "answer"}
        /\ pc' = "retry" => resp' = None \/ resp'.status # "ok"
        /\ resp' = resp \/ \E status, kind : resp' = From(cred, status, kind)
        /\ bound' = bound
    BY <1>2, <1>a DEF RouterCall, Again, From, Statuses
  <2>2. log'.cred = log.cred
    <3>1. Reports(cred, log') => log'.cred = log.cred
      BY <1>a DEF Reports, Log
    <3> QED BY <1>2, <3>1 DEF RouterCall
  <2>3. resp' # None /\ resp'.status = "ok" => resp'.from = cred
    BY <2>1, <1>a DEF From
  <2> QED BY <1>a, <1>c, <2>1, <2>2, <2>3, OutcomeOpen DEF Attributed, Sources, Serving
<1>3. CASE NoToken
  <2>1. /\ pc' \in {"retry", "fallback"}
        /\ UNCHANGED <<resp, log, bound>>
    BY <1>3 DEF NoToken, Again, out
  <2>2. resp = None \/ resp.status # "ok"
    BY <1>a
  <2> QED BY <1>a, <1>c, <2>1, <2>2, OutcomeOpen DEF Attributed, Sources, Serving
<1>4. CASE DirectCall /\ ~DirectTooLarge
  <2>1. /\ pc' \in {"retry", "fallback", "answer"}
        /\ resp' = None \/ \E status, kind : resp' = From(cred, status, kind)
        /\ UNCHANGED <<log, bound>>
        /\ ~Routed'
    BY <1>4, <1>c DEF DirectCall, DirectFailure, DirectStream, DirectBody, DirectUnread, Again,
       out, Routed
  <2>2. resp' # None /\ resp'.status = "ok" => resp'.from = cred
    BY <2>1 DEF From
  <2> QED BY <1>a, <1>c, <2>1, <2>2, OutcomeOpen DEF Attributed, Sources, Serving
<1> QED BY <1>1, <1>2, <1>3, <1>4 DEF DirectFatal, DirectTooLarge

LEMMA AttributedMoves ==
  ASSUME TypeInv, Accounts, Attributed, Retry \/ FallbackPick \/ FallbackSpent \/ FallbackCall
  PROVE  Attributed'
<1>a. log \in Log /\ pc \in Serving /\ pc \in {"retry", "fallback", "fbcall"} /\ log.cred = cred
  BY DEF TypeInv, TypeOK, Retry, FallbackPick, FallbackSpent, FallbackCall, Attributed, Sources,
         Serving
<1>1. CASE Retry
  <2>0. UNCHANGED <<fbResp, fbCred, bound>> /\ pc = "retry"
    BY <1>1 DEF Retry, chain
  <2>1. PICK live \in SUBSET (Regular \ tried), admitted \in SUBSET (Regular \ tried) :
          \/ \E c \in NextChoices(live, admitted) : RetryWith(c)
          \/ /\ pc' \in {"retry", "fallback"}
             /\ UNCHANGED <<cred, resp, log>>
    BY <1>1 DEF Retry, Skip, loop
  <2>2. CASE pc' \in {"retry", "fallback"} /\ UNCHANGED <<cred, resp, log>>
    BY <1>a, <2>0, <2>2, OutcomeOpen DEF Attributed, Sources, Serving, Routed
  <2>3. ASSUME NEW c \in NextChoices(live, admitted), RetryWith(c)
        PROVE  Attributed'
    <3>1. log'.cred = c /\ cred' = c /\ pc' = "call"
      BY <1>a, <2>3 DEF RetryWith, Log
    <3>2. CASE Routed
      <4>1. Routed'
        BY <2>3, <3>1, <3>2, RoutersStay DEF Routed
      <4>2. resp' = resp /\ (resp = None \/ resp.status # "ok")
        BY <2>0, <2>3, <3>2 DEF RetryWith, Attributed, Sources
      <4> QED BY <1>a, <2>0, <3>1, <4>1, <4>2, OutcomeOpen DEF Attributed, Sources, Serving
    <3>3. CASE ~Routed
      <4>1. resp' = None
        BY <2>3, <3>3 DEF RetryWith
      <4> QED BY <1>a, <2>0, <3>1, <4>1, OutcomeOpen DEF Attributed, Sources, Serving
    <3> QED BY <3>2, <3>3
  <2> QED BY <2>1, <2>2, <2>3
<1>2. CASE FallbackPick \/ FallbackSpent
  <2>1. /\ UNCHANGED <<cred, resp, log, bound, fbResp>>
        /\ pc = "fallback"
        /\ pc' \in {"fbcall", "fbanswer", "answer"}
        /\ pc' = "fbanswer" => fbResp # None
    BY <1>2 DEF FallbackPick, FallbackSpent, EndChain, loop, chain, out
  <2>2. fbResp = None \/ fbResp.status # "ok"
    BY <2>1 DEF Attributed, Sources
  <2> QED BY <1>a, <2>1, <2>2, OutcomeOpen DEF Attributed, Sources, Serving
<1>3. CASE FallbackCall
  <2>1. /\ UNCHANGED <<cred, resp, bound, fbCred>>
        /\ pc' \in {"fallback", "fbanswer"}
        /\ fbResp' = fbResp \/ \E status, kind : fbResp' = From(fbCred, status, kind)
        /\ pc' = "fallback" => \/ fbResp' = fbResp
                              \/ \E kind : fbResp' = From(fbCred, "retryable", kind)
    BY <1>3 DEF FallbackCall, loop
  <2>2. log'.cred = log.cred
    <3>1. Reports(fbCred, log') => log'.cred = log.cred
      BY <1>a DEF Reports, Log
    <3> QED BY <1>3, <3>1 DEF FallbackCall
  <2>3. pc' = "fbanswer" => fbResp'.from = fbCred
    BY <1>3 DEF FallbackCall, From
  <2>4. pc' = "fallback" => fbResp' = None \/ fbResp'.status # "ok"
    BY <1>a, <2>1 DEF From, Attributed, Sources
  <2> QED BY <1>a, <2>1, <2>2, <2>3, <2>4, OutcomeOpen DEF Attributed, Sources, Serving
<1> QED BY <1>1, <1>2, <1>3

\* What the store holds after the credential that gave the answer was bound.
LEMMA BindFinds ==
  ASSUME NEW sid \in SessionIds, NEW c \in Creds,
         bound \in [Keys -> Creds \cup {None}], bound["request"] = None
  PROVE  /\ Bind(bound, sid, c) \in [Keys -> Creds \cup {None}]
         /\ sid = "given" => Bind(bound, sid, c)["given"] = c
         /\ Bind(bound, sid, c)["request"] \in {c, None}
  BY DEF Bind, SessionIds, Keys

LEMMA AttributedAnswers ==
  ASSUME TypeInv, Accounts, Attributed, FallbackAnswer \/ AnswerNone \/ AnswerWith
  PROVE  Attributed'
<1>a. /\ log \in Log /\ log.sid \in SessionIds
      /\ bound \in [Keys -> Creds \cup {None}]
      /\ pc \in {"fbanswer", "answer"}
      /\ cred \in Creds /\ log.cred = cred
      /\ resp \in Response \cup {None} /\ fbResp \in Response \cup {None}
  BY DEF TypeInv, TypeOK, InUse, Log, FallbackAnswer, AnswerNone, AnswerWith, Attributed,
         Sources, Serving
<1>b. answers = <<>> /\ log.entries = <<>> /\ ~log.logged /\ ~log.completed
  BY <1>a DEF Accounts, Open
<1>c. bound["request"] = None /\ log.sid # "request"
  BY <1>a DEF Attributed, Sources, Accounts, Open
<1>d. UNCHANGED <<cred, resp, fbCred, fbResp>>
  BY DEF FallbackAnswer, AnswerNone, AnswerWith, loop, chain
<1>e. ASSUME pc' = "done", Outcome'
      PROVE  Attributed'
  BY <1>a, <1>d, <1>e DEF Attributed, Sources, Serving
<1>f. \A r : Append(answers, r) = <<r>>
  BY <1>b
<1>1. CASE \E a : End(log, bound, a)
  <2>1. Outcome' /\ pc' = "done"
    BY <1>a, <1>b, <1>1, EndIncomplete DEF End
  <2> QED BY <1>e, <2>1
<1>2. CASE FallbackAnswer
  <2> DEFINE l == Delivered(log, fbResp.status)
             b == IF fbResp.status = "ok" THEN Bind(bound, log.sid, fbCred) ELSE bound
  <2>1. fbCred \in Creds /\ fbResp \in Response
    BY <1>2 DEF FallbackAnswer, TypeInv, InUse
  <2>2. /\ l \in Log /\ l.cred = fbCred /\ l.logged
        /\ l.completed = (fbResp.status = "ok")
        /\ l.sid = IF log.sid = "none" THEN "request" ELSE log.sid
        /\ l.entries = Append(log.entries, [cred |-> fbCred, actual |-> log.actual])
    BY <1>a, <2>1, DeliveredType
  <2>3. End(l, b, <<fbResp>>) \/ \E a : End(log, bound, a)
    BY <1>2, <1>f DEF FallbackAnswer
  <2>4. b \in [Keys -> Creds \cup {None}]
    BY <1>a, <1>c, <2>1, BindFinds
  <2>5. fbResp.status = "ok" => /\ log.sid = "given" => b["given"] = fbCred
                                /\ b["request"] \in {fbCred, None}
    BY <1>a, <1>c, <2>1, BindFinds
  <2>6. fbResp.status = "ok" => fbResp.from = fbCred
    BY <1>2 DEF FallbackAnswer, Attributed, Sources
  <2>7. l.actual = log.actual
    BY <1>a, <2>1, DeliveredActual
  <2>8. l.entries = <<[cred |-> l.cred, actual |-> l.actual]>>
    BY <1>b, <2>2, <2>7
  <2> HIDE DEF l, b
  <2>9. CASE End(l, b, <<fbResp>>) /\ fbResp.status # "ok"
    <3>1. Outcome' /\ pc' = "done"
      BY <2>2, <2>4, <2>9, EndIncomplete DEF End
    <3> QED BY <1>e, <3>1
  <2>10. CASE End(l, b, <<fbResp>>) /\ fbResp.status = "ok"
    <3>1. l.sid = "given" => b["given"] = fbResp.from
      BY <2>2, <2>5, <2>6, <2>10
    <3>2. b["request"] \in {fbResp.from, None}
      BY <2>5, <2>6, <2>10
    <3>3. l.completed /\ l.cred \in Creds /\ fbResp.from = l.cred
      BY <2>1, <2>2, <2>6, <2>10
    <3>4. Outcome' /\ pc' = "done"
      BY <2>2, <2>4, <2>8, <2>10, <3>1, <3>2, <3>3, EndComplete DEF End
    <3> QED BY <1>e, <3>4
  <2> QED BY <1>1, <2>3, <2>9, <2>10
<1>3. CASE AnswerNone
  BY <1>1, <1>3 DEF AnswerNone
<1>4. CASE AnswerWith
  <2>1. PICK l \in {log, Spend(log)}, complete \in BOOLEAN : Answered(l, complete)
    BY <1>4 DEF AnswerWith, AnswerRouterBody, AnswerRouterStream, AnswerStream, AnswerBody
  <2>2. pc = "answer" /\ resp \in Response
    BY <1>4, <1>a DEF AnswerWith
  <2> DEFINE done == complete /\ resp.status = "ok"
             m == [l EXCEPT !.completed = done]
             b == IF done THEN Bind(bound, l.sid, cred) ELSE bound
  <2>3. done \in BOOLEAN
    OBVIOUS
  <2>4. End(m, b, <<resp>>)
    BY <2>1, <1>f DEF Answered
  <2>5. /\ l \in Log /\ l.cred = cred /\ l.sid \in SessionIds
        /\ \/ ~l.logged /\ l.entries = <<>>
           \/ l.logged /\ l.entries = <<[cred |-> l.cred, actual |-> l.actual]>>
    <3>1. CASE l = log
      BY <1>a, <1>b, <3>1
    <3>2. CASE l = Spend(log)
      <4>1. Spend(log).actual = log.actual
        BY <1>a DEF Spend, Log
      <4>2. /\ Spend(log) \in Log /\ Spend(log).cred = log.cred /\ Spend(log).logged
            /\ Spend(log).entries = Append(log.entries, [cred |-> log.cred, actual |-> log.actual])
        BY <1>a, SpendType
      <4>3. Spend(log).entries = <<[cred |-> log.cred, actual |-> log.actual]>>
        BY <1>b, <4>2
      <4>4. Spend(log).sid \in SessionIds
        BY <4>2 DEF Log
      <4> QED BY <1>a, <3>2, <4>1, <4>2, <4>3, <4>4
    <3> QED BY <2>1, <3>1, <3>2
  <2>6. b \in [Keys -> Creds \cup {None}]
    BY <1>a, <1>c, <2>5, BindFinds
  <2>7. done => (l.sid = "given" => b["given"] = cred) /\ b["request"] \in {cred, None}
    BY <1>a, <1>c, <2>5, BindFinds
  <2>8. done => resp.status = "ok" /\ resp.from = cred
    BY <1>4, <2>2 DEF AnswerWith, Attributed, Sources, Serving
  <2> HIDE DEF done, b
  <2>9. /\ m \in Log /\ m.cred = l.cred /\ m.entries = l.entries /\ m.logged = l.logged
        /\ m.actual = l.actual /\ m.sid = l.sid /\ m.completed = done
    BY <2>3, <2>5 DEF Log
  <2> HIDE DEF m
  <2>10. CASE ~done
    <3>1. Outcome' /\ pc' = "done"
      BY <2>4, <2>6, <2>9, <2>10, EndIncomplete DEF End
    <3> QED BY <1>e, <3>1
  <2>11. CASE done
    <3>1. m.sid = "given" => b["given"] = resp.from
      BY <2>7, <2>8, <2>9, <2>11
    <3>2. b["request"] \in {resp.from, None}
      BY <2>7, <2>8, <2>11
    <3>3. m.completed /\ m.cred \in Creds /\ resp.from = m.cred /\ resp.status = "ok"
      BY <1>a, <2>5, <2>8, <2>9, <2>11
    <3>4. \/ ~m.logged /\ m.entries = <<>>
          \/ m.logged /\ m.entries = <<[cred |-> m.cred, actual |-> m.actual]>>
      BY <2>5, <2>9
    <3>5. Outcome' /\ pc' = "done"
      BY <2>4, <2>6, <2>9, <3>1, <3>2, <3>3, <3>4, EndComplete DEF End
    <3> QED BY <1>e, <3>5
  <2> QED BY <2>10, <2>11
<1> QED BY <1>2, <1>3, <1>4

LEMMA AttributedNext == TypeInv /\ Accounts /\ Attributed /\ [Next]_vars => Attributed'
<1> SUFFICES ASSUME TypeInv, Accounts, Attributed, [Next]_vars PROVE Attributed'
  OBVIOUS
<1>1. CASE UNCHANGED vars
  BY <1>1 DEF vars, loop, chain, out, Attributed, Sources, Outcome, CompleteIsAttributed,
              SessionFollowsSuccess, Routed
<1>2. CASE Work
  BY <1>2, AttributedBefore, AttributedCalls, AttributedMoves, AttributedAnswers DEF Work
<1> QED BY <1>1, <1>2 DEF Next, Done

LEMMA AttributedHold == Spec => []Attributed
<1>1. Init => Attributed
  BY DEF Init, Attributed, Sources, Outcome, CompleteIsAttributed, SessionFollowsSuccess,
         Serving, Keys, SessionIds
<1>2. TypeInv /\ Accounts /\ Attributed /\ [Next]_vars => Attributed'
  BY AttributedNext
<1> QED BY <1>1, <1>2, TypeInvHolds, AccountsHold, PTL DEF Spec

\* What is answered completely is charged to the credential that gave the
\* answer, however many others failed before it in either loop.
THEOREM Attribution == Spec => []CompleteIsAttributed
<1>1. Attributed => CompleteIsAttributed
  BY DEF Attributed, Outcome
<1> QED BY <1>1, AttributedHold, PTL

\* After a request of a session the session is bound to who served it to the
\* end, or to nobody, whatever it was bound to before.
THEOREM BindingFollows == Spec => []SessionFollowsSuccess
<1>1. Attributed => SessionFollowsSuccess
  BY DEF Attributed, Outcome
<1> QED BY <1>1, AttributedHold, PTL

-----------------------------------------------------------------------------
\* The order of a chain while it may still grow: the credential in use is of
\* the type of those before it until a priority comes in; it is not below a
\* priority that was called; and when it has one itself, nobody was called
\* without one after somebody with one.
Low == \A i \in ProviderCalls : Priority[sent[i]] = 0
Rising == \A i, j \in ProviderCalls : i < j /\ Priority[sent[i]] > 0 => Priority[sent[j]] > 0

Trying == pc \in {"call", "retry"}

Growing ==
  Trying =>
    /\ Routed => ProviderCalls = {}
    /\ IsFallback[cred] => Low
    /\ Priority[cred] > 0 => Rising /\ \A i \in ProviderCalls : Priority[cred] >= Priority[sent[i]]
    /\ cred \in tried

InOrder ==
  /\ ~HasTriedPriority(tried) => \A i \in ProviderCalls : Type[sent[i]] = Type[cred]
  /\ TiersInOrder
  /\ Growing
  /\ pc = "fbcall" => Type[fbCred] = ProxyType

\* Without a priority among what was tried nobody that was called has one.
LEMMA LowWithout ==
  ASSUME TypeInv, Marks, ~HasTriedPriority(tried)
  PROVE  Low
<1> SUFFICES ASSUME NEW i \in ProviderCalls PROVE Priority[sent[i]] = 0
  BY DEF Low
<1>1. sent[i] \in tried /\ sent[i] \in Creds /\ Type[sent[i]] # ProxyType
  BY DEF ProviderCalls, Marks, TypeInv, TypeOK
<1>2. Priority[sent[i]] \in Nat /\ (IsFallback[sent[i]] => Priority[sent[i]] = 0)
  BY <1>1, CredsAssumption
<1> QED BY <1>1, <1>2 DEF HasTriedPriority

\* What a retry may move to: one of the same type, from where no priority was
\* called; one without a priority; or one whose priority is not below.
LEMMA RetryKeepsOrder ==
  ASSUME TypeInv, Marks, InOrder, pc = "retry",
         NEW live, NEW admitted, NEW c \in NextChoices(live, admitted)
  PROVE  /\ c \in Creds \ tried /\ ~IsFallback[c]
         /\ Type[c] = ProxyType <=> Routed
         /\ \/ Type[c] = Type[cred] /\ Low
            \/ Priority[c] = 0 /\ HasTriedPriority(tried)
            \/ Priority[c] >= Priority[cred] /\ Priority[cred] > 0 /\ HasTriedPriority(tried)
<1>1. cred \in Creds /\ cred \in tried /\ Priority[cred] \in Nat
  BY CredsAssumption DEF TypeInv, InUse, Serving, InOrder, Growing, Trying
<1>2. c \in Creds \ tried /\ Priority[c] \in Nat
  BY RetryFindsNew, CredsAssumption
<1>3. CASE Routed
  <2>1. c \in SameType(Type[cred], tried)
    BY <1>3 DEF NextChoices, RetryChoices, Routed
  <2>2. Low
    BY <1>3 DEF InOrder, Growing, Trying, Low
  <2> QED BY <1>2, <1>3, <2>1, <2>2 DEF SameType, Regular, Routed
<1>4. CASE ~Routed /\ (IsFallback[cred] \/ (Priority[cred] = 0 /\ ~HasTriedPriority(tried)))
  <2>1. c \in SameType(Type[cred], tried)
    BY <1>4 DEF NextChoices, RetryChoices, Routed
  <2>2. Low
    BY <1>4, LowWithout DEF InOrder, Growing, Trying
  <2> QED BY <1>2, <1>4, <2>1, <2>2 DEF SameType, Regular, Routed
<1>5. CASE ~Routed /\ ~IsFallback[cred] /\ Priority[cred] = 0 /\ HasTriedPriority(tried)
  <2>1. c \in Unprioritised(tried)
    BY <1>5 DEF NextChoices, RetryChoices, Routed
  <2> QED BY <1>2, <1>5, <2>1 DEF Unprioritised, Regular, Routed
<1>6. CASE ~Routed /\ ~IsFallback[cred] /\ Priority[cred] > 0
  <2>1. c \in Prioritised(Priority[cred], tried) \/ c \in Unprioritised(tried)
    BY <1>6 DEF NextChoices, RetryChoices, Routed, PriorityRetry, LowestTier
  <2>2. HasTriedPriority(tried)
    BY <1>1, <1>6 DEF HasTriedPriority, Routed
  <2> QED BY <1>2, <1>6, <2>1, <2>2 DEF Unprioritised, Prioritised, Regular, Routed
<1> QED BY <1>1, <1>3, <1>4, <1>5, <1>6

\* The places of the calls after one more.
LEMMA OneMore ==
  ASSUME TypeInv, NEW c \in Creds, sent' = Append(sent, c)
  PROVE  /\ ProviderCalls' = IF Type[c] = ProxyType THEN ProviderCalls
                             ELSE ProviderCalls \cup {Len(sent) + 1}
         /\ \A i \in ProviderCalls : /\ i \in Nat /\ i < Len(sent) + 1
                                     /\ sent'[i] = sent[i] /\ sent[i] \in Creds
         /\ Len(sent) + 1 \in Nat /\ sent'[Len(sent) + 1] = c
<1>1. /\ sent \in Seq(Creds) /\ Len(sent) \in Nat
      /\ DOMAIN sent = 1 .. Len(sent) /\ DOMAIN sent' = 1 .. Len(sent) + 1
      /\ sent'[Len(sent) + 1] = c
      /\ \A i \in 1 .. Len(sent) : sent'[i] = sent[i] /\ sent[i] \in Creds
  BY DEF TypeInv, TypeOK
<1> QED BY <1>1 DEF ProviderCalls

\* A step that contacts no provider and gives the chain no new place.
LEMMA NoProvider ==
  ASSUME InOrder, ProviderCalls' = ProviderCalls, \A i \in ProviderCalls : sent'[i] = sent[i],
         tried \subseteq tried', cred' = cred, Trying' => Trying,
         pc' = "fbcall" => Type[fbCred'] = ProxyType
  PROVE  InOrder'
<1>1. HasTriedPriority(tried) => HasTriedPriority(tried')
  BY DEF HasTriedPriority
<1>2. TiersInOrder'
  BY DEF InOrder, TiersInOrder
<1>3. Growing'
  <2> SUFFICES ASSUME Trying' PROVE Growing'
    BY DEF Growing
  <2>1. Low => Low'
    BY DEF Low
  <2>2. Rising => Rising'
    BY DEF Rising
  <2> QED BY <2>1, <2>2 DEF InOrder, Growing, Routed
<1> QED BY <1>1, <1>2, <1>3 DEF InOrder

\* A provider call after others.
LEMMA CallInOrder ==
  ASSUME TypeInv, InOrder, pc = "call", ~Routed, sent' = Append(sent, cred),
         UNCHANGED <<cred, tried>>, pc' # "fbcall"
  PROVE  InOrder'
<1> DEFINE n == Len(sent) + 1
<1>1. cred \in Creds /\ cred \in tried /\ Priority[cred] \in Nat /\ (IsFallback[cred] => Priority[cred] = 0)
  BY CredsAssumption DEF TypeInv, InUse, Serving, InOrder, Growing, Trying
<1>2. /\ ProviderCalls' = ProviderCalls \cup {n}
      /\ \A i \in ProviderCalls : i \in Nat /\ i < n /\ sent'[i] = sent[i] /\ sent[i] \in Creds
      /\ n \in Nat /\ sent'[n] = cred
  BY <1>1, OneMore DEF Routed
<1> HIDE DEF n
<1>3. \A i \in ProviderCalls : Priority[sent[i]] \in Nat
  BY <1>2, CredsAssumption
<1>4. /\ IsFallback[cred] => Low
      /\ Priority[cred] > 0 => Rising /\ \A i \in ProviderCalls : Priority[cred] >= Priority[sent[i]]
  BY DEF InOrder, Growing, Trying
<1>5. TiersInOrder'
  <2> SUFFICES ASSUME NEW i \in ProviderCalls', NEW j \in ProviderCalls', i < j,
                      Priority[sent'[i]] > 0
               PROVE  /\ Priority[sent'[j]] > 0 => Priority[sent'[j]] >= Priority[sent'[i]]
                      /\ Priority[sent'[j]] = 0 =>
                           \A k \in ProviderCalls' : k > j => Priority[sent'[k]] = 0
    BY DEF TiersInOrder
  <2>1. i \in ProviderCalls /\ Priority[sent[i]] > 0
    <3>1. i \in ProviderCalls
      BY <1>2
    <3>2. sent'[i] = sent[i]
      BY <1>2, <3>1
    <3> QED BY <3>1, <3>2
  <2>2. CASE j = n
    <3>1. Priority[cred] > 0 => Priority[cred] >= Priority[sent[i]]
      BY <1>4, <2>1
    <3>2. \A k \in ProviderCalls' : ~(k > n)
      BY <1>2
    <3> QED BY <1>2, <2>1, <2>2, <3>1, <3>2
  <2>3. CASE j \in ProviderCalls
    <3>1. /\ Priority[sent[j]] > 0 => Priority[sent[j]] >= Priority[sent[i]]
          /\ Priority[sent[j]] = 0 => \A k \in ProviderCalls : k > j => Priority[sent[k]] = 0
      BY <1>2, <2>1, <2>3 DEF InOrder, TiersInOrder
    <3>2. Priority[sent[j]] = 0 => Priority[cred] = 0
      <4>1. Rising => Priority[sent[j]] > 0
        BY <2>1, <2>3 DEF Rising
      <4>2. Priority[sent[j]] \in Nat
        BY <1>3, <2>3
      <4> QED BY <1>1, <1>4, <4>1, <4>2
    <3>3. sent'[i] = sent[i] /\ sent'[j] = sent[j]
      BY <1>2, <2>1, <2>3
    <3>4. Priority[sent[j]] = 0 => \A k \in ProviderCalls' : k > j => Priority[sent'[k]] = 0
      BY <1>2, <3>1, <3>2
    <3> QED BY <3>1, <3>3, <3>4
  <2> QED BY <1>2, <2>2, <2>3
<1>6. Growing'
  <2>1. IsFallback[cred] => Low'
    BY <1>1, <1>2, <1>4 DEF Low
  <2>2. Priority[cred] > 0 =>
          Rising' /\ \A i \in ProviderCalls' : Priority[cred] >= Priority[sent'[i]]
    <3> SUFFICES ASSUME Priority[cred] > 0
                 PROVE  Rising' /\ \A i \in ProviderCalls' : Priority[cred] >= Priority[sent'[i]]
      OBVIOUS
    <3>1. \A i \in ProviderCalls' : Priority[cred] >= Priority[sent'[i]]
      <4> SUFFICES ASSUME NEW i \in ProviderCalls' PROVE Priority[cred] >= Priority[sent'[i]]
        OBVIOUS
      <4>1. CASE i = n
        <5>1. sent'[i] = cred
          BY <1>2, <4>1
        <5>2. Priority[cred] >= Priority[cred]
          BY <1>1
        <5> QED BY <5>1, <5>2
      <4>2. CASE i \in ProviderCalls
        <5>1. sent'[i] = sent[i]
          BY <1>2, <4>2
        <5> QED BY <1>4, <4>2, <5>1
      <4> QED BY <1>2, <4>1, <4>2
    <3>2. ASSUME NEW i \in ProviderCalls', NEW j \in ProviderCalls', i < j, Priority[sent'[i]] > 0
          PROVE  Priority[sent'[j]] > 0
      <4>1. i \in ProviderCalls /\ Priority[sent[i]] > 0
        <5>1. i \in ProviderCalls
          BY <1>2, <3>2
        <5>2. sent'[i] = sent[i]
          BY <1>2, <5>1
        <5> QED BY <3>2, <5>1, <5>2
      <4>2. CASE j = n
        BY <1>2, <4>2
      <4>3. CASE j \in ProviderCalls
        BY <1>2, <1>4, <3>2, <4>1, <4>3 DEF Rising
      <4> QED BY <1>2, <4>2, <4>3
    <3> QED BY <3>1, <3>2 DEF Rising
  <2> QED BY <1>1, <2>1, <2>2 DEF Growing, Routed
<1>7. ~HasTriedPriority(tried') => \A i \in ProviderCalls' : Type[sent'[i]] = Type[cred']
  BY <1>2 DEF InOrder
<1> QED BY <1>5, <1>6, <1>7 DEF InOrder

\* The next attempt keeps what the retry's choice promises.
LEMMA RetryInOrder == ASSUME TypeInv, Marks, InOrder, Retry PROVE InOrder'
<1>1. /\ ProviderCalls' = ProviderCalls /\ sent' = sent /\ tried \subseteq tried'
      /\ pc = "retry" /\ pc' \in {"call", "retry", "fallback"}
  BY DEF Retry, RetryWith, Skip, ProviderCalls, loop
<1>2. CASE pc' # "call"
  <2>1. cred' = cred
    BY <1>2 DEF Retry, RetryWith, loop
  <2> QED BY <1>1, <1>2, <2>1, NoProvider DEF Trying
<1>3. CASE pc' = "call"
  <2>1. PICK live \in SUBSET (Regular \ tried), admitted \in SUBSET (Regular \ tried) :
          \E c \in NextChoices(live, admitted) : RetryWith(c)
    BY <1>1, <1>3 DEF Retry, Skip
  <2>2. PICK c \in NextChoices(live, admitted) : RetryWith(c)
    BY <2>1
  <2>3. cred' = c /\ tried' = tried \cup {c}
    BY <2>1, <2>2 DEF RetryWith
  <2>4. /\ c \in Creds \ tried /\ ~IsFallback[c]
        /\ Type[c] = ProxyType <=> Routed
        /\ \/ Type[c] = Type[cred] /\ Low
           \/ Priority[c] = 0 /\ HasTriedPriority(tried)
           \/ Priority[c] >= Priority[cred] /\ Priority[cred] > 0 /\ HasTriedPriority(tried)
    BY <1>1, RetryKeepsOrder
  <2>5. /\ Routed => ProviderCalls = {}
        /\ Priority[cred] > 0 => Rising /\ \A i \in ProviderCalls : Priority[cred] >= Priority[sent[i]]
        /\ cred \in Creds
    BY <1>1 DEF InOrder, Growing, Trying, TypeInv, InUse, Serving
  <2>6. \A i \in ProviderCalls : sent[i] \in Creds /\ Priority[sent[i]] \in Nat
    BY CredsAssumption DEF ProviderCalls, TypeInv, TypeOK
  <2>7. Priority[c] \in Nat /\ Priority[cred] \in Nat
    BY <2>4, <2>5, CredsAssumption
  <2>8. Priority[c] > 0 => Rising /\ \A i \in ProviderCalls : Priority[c] >= Priority[sent[i]]
    BY <2>4, <2>5, <2>6, <2>7 DEF Low, Rising
  <2>9. Growing'
    <3>1. Rising => Rising'
      BY <1>1 DEF Rising
    <3> QED BY <1>1, <2>3, <2>4, <2>5, <2>8, <3>1 DEF Growing, Routed
  <2>10. ~HasTriedPriority(tried') => \A i \in ProviderCalls' : Type[sent'[i]] = Type[cred']
    <3>1. HasTriedPriority(tried) => HasTriedPriority(tried')
      BY <2>3 DEF HasTriedPriority
    <3> QED BY <1>1, <2>3, <2>4, <3>1 DEF InOrder
  <2>11. TiersInOrder'
    BY <1>1 DEF InOrder, TiersInOrder
  <2> QED BY <1>3, <2>9, <2>10, <2>11 DEF InOrder
<1> QED BY <1>2, <1>3

LEMMA InOrderNext == ASSUME TypeInv, Marks, InOrder, [Next]_vars PROVE InOrder'
<1>1. CASE \/ UNCHANGED vars
           \/ Authenticate \/ ReadBody \/ SelectNobody \/ DirectFatal \/ NoToken
           \/ FallbackSpent \/ FallbackAnswer \/ AnswerNone \/ AnswerWith
  <2>1. UNCHANGED <<sent, tried, cred>> /\ ProviderCalls' = ProviderCalls
    BY <1>1 DEF Authenticate, ReadBody, SelectNobody, DirectFatal, NoToken, FallbackSpent,
       FallbackAnswer, AnswerNone, AnswerWith, ProviderCalls, vars, loop, history
  <2>2. (Trying' => Trying) /\ (pc' = "fbcall" => pc = "fbcall" /\ fbCred' = fbCred)
    BY <1>1 DEF Authenticate, ReadBody, SelectNobody, DirectFatal, NoToken, FallbackSpent,
       FallbackAnswer, AnswerNone, AnswerWith, AnswerRouterBody, AnswerRouterStream, AnswerStream,
       AnswerBody, Answered, End, EndChain, Again, Trying, vars, chain
  <2> QED BY <2>1, <2>2, NoProvider DEF InOrder
<1>2. CASE SelectCredential
  <2>1. sent' = <<>> /\ ProviderCalls' = {}
    BY <1>2 DEF SelectCredential, history, Marks, ProviderCalls
  <2>2. pc' = "done" \/ (pc' = "call" /\ cred' \in tried')
    BY <1>2 DEF SelectCredential, End
  <2>3. TiersInOrder' /\ Low' /\ Rising'
    BY <2>1 DEF TiersInOrder, Low, Rising
  <2>4. Growing'
    BY <2>1, <2>2, <2>3 DEF Growing, Trying
  <2> QED BY <2>1, <2>2, <2>3, <2>4 DEF InOrder
<1>3. CASE RouterCall
  <2>1. /\ cred \in Creds /\ Type[cred] = ProxyType /\ sent' = Append(sent, cred)
        /\ UNCHANGED <<cred, tried>> /\ Trying
        /\ pc' # "fbcall"
    BY <1>3 DEF RouterCall, Routed, Again, Trying, TypeInv, InUse, Serving
  <2> QED BY <2>1, OneMore, NoProvider
<1>4. CASE DirectCall
  <2>1. /\ pc = "call" /\ ~Routed /\ sent' = Append(sent, cred) /\ UNCHANGED <<cred, tried>>
        /\ pc' # "fbcall"
    BY <1>4 DEF DirectCall, DirectFailure, DirectStream, DirectBody, DirectUnread,
       DirectTooLarge, Again, End
  <2> QED BY <2>1, CallInOrder
<1>5. CASE Retry
  BY <1>5, RetryInOrder
<1>6. CASE FallbackPick
  <2>1. /\ UNCHANGED <<sent, cred>> /\ tried \subseteq tried' /\ ~Trying'
        /\ pc' = "fbcall" => Type[fbCred'] = ProxyType
        /\ ProviderCalls' = ProviderCalls
    BY <1>6 DEF FallbackPick, EndChain, Trying, FallbackProxies, ProviderCalls
  <2> QED BY <2>1, NoProvider
<1>7. CASE FallbackCall
  <2>1. /\ fbCred \in Creds /\ Type[fbCred] = ProxyType /\ sent' = Append(sent, fbCred)
        /\ UNCHANGED <<cred, tried>> /\ ~Trying' /\ pc' # "fbcall"
    BY <1>7 DEF FallbackCall, InOrder, Trying, TypeInv, InUse, loop
  <2> QED BY <2>1, OneMore, NoProvider
<1> QED BY <1>1, <1>2, <1>3, <1>4, <1>5, <1>6, <1>7 DEF Next, Work, Done

\* The order of a chain of retries (NextRetryForModelExcluding and
\* nextPriorityRetry): one type until a priority comes in, priorities that rise,
\* and the credentials without one last.
THEOREM ChainInOrder == Spec => []ChainOrder
<1>1. Init => InOrder
  BY DEF Init, InOrder, TiersInOrder, Growing, Trying, ProviderCalls
<1>2. TypeInv /\ Marks /\ InOrder /\ [Next]_vars => InOrder'
  BY InOrderNext
<1>3. InOrder => ChainOrder
  BY DEF InOrder, ChainOrder, TypeKept
<1> QED BY <1>1, <1>2, <1>3, TypeInvHolds, MarksHold, PTL DEF Spec
=============================================================================
