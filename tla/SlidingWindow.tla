-------------------------- MODULE SlidingWindow --------------------------
(***************************************************************************)
(* What the rate limiter promises: a call of TryAllowAll is one atomic     *)
(* decision.  It is admitted, and counted once in every counter it names,  *)
(* exactly when all of them have room at that moment; it is refused, and   *)
(* counted nowhere, when one has none.  A counter forgets what is older    *)
(* than its window.  Module RateLimiter implements this specification with *)
(* one lock per counter.                                                   *)
(***************************************************************************)
EXTENDS Integers, FiniteSets

CONSTANTS
  Counters,     \* the counters a call can name
  Rpm, Tpm,     \* counter -> its limits, -1 for none
  Window,       \* ticks after which a request or a token is forgotten
  Callers,      \* goroutines that serve requests
  Amounts       \* token counts a response can report

VARIABLES
  req, tok,     \* counter -> age -> requests, tokens of that age
  call          \* caller -> the counters it asks for and how far it is

Ages == 0 .. Window - 1
Empty == [a \in Ages |-> 0]
Entries(f) == UNION {{x} \X (1 .. f[x]) : x \in DOMAIN f}
Total(f) == Cardinality(Entries(f))
Shift(w) == [a \in Ages |-> IF a = 0 THEN 0 ELSE w[a - 1]]
Plus(w, n) == [w EXCEPT ![0] = @ + n]
NoCall == [keys |-> {}, is |-> "over"]

\* Requests are counted before they run, tokens after: the last request
\* admitted may take the tokens over their limit.
HasRoom(k) ==
  /\ Rpm[k] = -1 \/ Total(req[k]) < Rpm[k]
  /\ Tpm[k] = -1 \/ Total(tok[k]) < Tpm[k]

Init ==
  /\ req = [k \in Counters |-> Empty]
  /\ tok = [k \in Counters |-> Empty]
  /\ call = [w \in Callers |-> NoCall]

Ask(w, K) ==
  /\ call[w] = NoCall
  /\ call' = [call EXCEPT ![w] = [keys |-> K, is |-> "pending"]]
  /\ UNCHANGED <<req, tok>>

Admit(w) ==
  /\ call[w].is = "pending"
  /\ \A k \in call[w].keys : HasRoom(k)
  /\ req' = [k \in Counters |-> IF k \in call[w].keys THEN Plus(req[k], 1) ELSE req[k]]
  /\ call' = [call EXCEPT ![w].is = "admitted"]
  /\ UNCHANGED tok

Refuse(w) ==
  /\ call[w].is = "pending"
  /\ \E k \in call[w].keys : ~HasRoom(k)
  /\ call' = [call EXCEPT ![w] = NoCall]
  /\ UNCHANGED <<req, tok>>

\* An admitted request reports its tokens to its counters, one at a time; the
\* last report ends it, and so does a failure.
Spend(w, k) ==
  /\ call[w].is = "admitted"
  /\ k \in call[w].keys
  /\ \E n \in Amounts : tok' = [tok EXCEPT ![k] = Plus(@, n)]
  /\ call' \in {call, [call EXCEPT ![w] = NoCall]}
  /\ UNCHANGED req

Finish(w) ==
  /\ call[w].is = "admitted"
  /\ call' = [call EXCEPT ![w] = NoCall]
  /\ UNCHANGED <<req, tok>>

Tick ==
  /\ req' = [k \in Counters |-> Shift(req[k])]
  /\ tok' = [k \in Counters |-> Shift(tok[k])]
  /\ UNCHANGED call

Next ==
  \/ \E w \in Callers :
       \/ \E K \in SUBSET Counters : Ask(w, K)
       \/ Admit(w)
       \/ Refuse(w)
       \/ Finish(w)
       \/ \E k \in Counters : Spend(w, k)
  \/ Tick

vars == <<req, tok, call>>

Spec == Init /\ [][Next]_vars
==========================================================================
