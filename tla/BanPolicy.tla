---------------------------- MODULE BanPolicy ----------------------------
(***************************************************************************)
(* What fail2ban promises its callers: a circuit breaker for every pair of *)
(* a credential and a model.  A pair opens when one error code has been    *)
(* seen MaxAttempts times since the last success, stays open whatever is   *)
(* reported about it, and closes with clean counters the moment its time   *)
(* is over or an operator lifts it.  Every question is answered from the   *)
(* state of that moment.  Module Fail2Ban, which removes expired bans only *)
(* when somebody happens to look at them, implements this specification.   *)
(***************************************************************************)
EXTENDS Naturals

CONSTANTS
  Creds, Models,   \* credential names and model names
  Codes,           \* the error codes that are tracked
  MaxAttempts,     \* code -> failures that open the pair
  BanDuration,     \* code -> ticks a pair stays open; 0 is for ever
  Callers,         \* goroutines that ask
  NoBan            \* not open

VARIABLES
  open,            \* pair -> NoBan or the code that opened it and its age
  count,           \* pair -> code -> failures since the last success
  answer           \* caller -> its last question and what it was told

Pairs == Creds \X Models
Clean == [c \in Codes |-> 0]
NoAnswer == [asked |-> {}, banned |-> {}]

Init ==
  /\ open = [p \in Pairs |-> NoBan]
  /\ count = [p \in Pairs |-> Clean]
  /\ answer = [w \in Callers |-> NoAnswer]

\* A success between failures starts every counter of the pair again.
Succeed(p) ==
  /\ open[p] = NoBan
  /\ count' = [count EXCEPT ![p] = Clean]
  /\ UNCHANGED <<open, answer>>

Fail(p, c) ==
  /\ open[p] = NoBan
  /\ count' = [count EXCEPT ![p][c] = @ + 1]
  /\ open' = IF count[p][c] + 1 >= MaxAttempts[c]
               THEN [open EXCEPT ![p] = [code |-> c, age |-> 0]]
               ELSE open
  /\ UNCHANGED answer

\* An operator closes the open pairs among P.
Lift(P) ==
  LET lifted == {p \in P : open[p] # NoBan} IN
  /\ open' = [p \in Pairs |-> IF p \in lifted THEN NoBan ELSE open[p]]
  /\ count' = [p \in Pairs |-> IF p \in lifted THEN Clean ELSE count[p]]
  /\ UNCHANGED answer

\* Time passes: a pair whose time is over closes at once.
Over(p) ==
  /\ open[p] # NoBan
  /\ BanDuration[open[p].code] > 0
  /\ open[p].age >= BanDuration[open[p].code]

Tick ==
  /\ open' = [p \in Pairs |->
                IF open[p] = NoBan \/ Over(p) THEN NoBan
                ELSE IF BanDuration[open[p].code] = 0 THEN open[p]
                ELSE [open[p] EXCEPT !.age = @ + 1]]
  /\ count' = [p \in Pairs |-> IF Over(p) THEN Clean ELSE count[p]]
  /\ UNCHANGED answer

\* A caller is told which of the pairs in P are open now.
Ask(w, P) ==
  /\ answer' = [answer EXCEPT
                  ![w] = [asked |-> P, banned |-> {p \in P : open[p] # NoBan}]]
  /\ UNCHANGED <<open, count>>

Next ==
  \/ \E p \in Pairs : Succeed(p) \/ \E c \in Codes : Fail(p, c)
  \/ \E P \in SUBSET Pairs : Lift(P) \/ \E w \in Callers : Ask(w, P)
  \/ Tick

vars == <<open, count, answer>>

Spec == Init /\ [][Next]_vars
==========================================================================
