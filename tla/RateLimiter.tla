---------------------------- MODULE RateLimiter ----------------------------
(***************************************************************************)
(* src/internal/ratelimit: RPMLimiter over the in-process backend, for one *)
(* credential and its models (two credentials share no counter).           *)
(*                                                                         *)
(* Every counter has a mutex of its own.  TryAllowAll reads the limits,    *)
(* looks the counters up, and then locks the credential's and the model's  *)
(* counter, in this order, holding the first while it waits for the        *)
(* second.  Every other operation holds one counter's mutex and is one     *)
(* step.  Time is counted in ticks: a counter keeps, for each age below    *)
(* Window, the requests and the tokens of that age; the code's lists of    *)
(* timestamps hold older entries too, which are dropped whenever one of    *)
(* them is counted.                                                        *)
(***************************************************************************)
EXTENDS Integers, FiniteSets

CONSTANTS
  Models,       \* the models with a limit of their own
  NoModel,      \* a model without one, or no model at all
  Cred,         \* names the credential's counter and limits
  Rpm, Tpm,     \* credential or model -> its limits, -1 for none
  Window,       \* ticks in the window of one minute
  Callers,      \* goroutines that serve requests
  MaxAmount,    \* the most tokens a response can report
  Reloads       \* bound: removals of a model's limits

Free == "free"

ASSUME WindowAssumption == Window \in Nat \ {0}
ASSUME LimitsAssumption ==
  /\ Rpm \in [{Cred} \cup Models -> Nat \cup {-1}]
  /\ Tpm \in [{Cred} \cup Models -> Nat \cup {-1}]
ASSUME CallersAssumption == IsFiniteSet(Callers) /\ Callers # {} /\ Free \notin Callers
ASSUME AmountAssumption == MaxAmount \in Nat \ {0} /\ Reloads \in Nat
ASSUME NamesAssumption == NoModel \notin Models \cup {Cred} /\ Cred \notin Models

VARIABLES
  limited,      \* the models in modelLimits
  gen,          \* model -> how often its counter was removed so far; a counter
                \* of it that is looked up later is a new one
  req, tok,     \* counter -> age -> requests, tokens of that age
  credLock,     \* the holder of the credential counter's mutex
  pc, job,      \* caller -> where it is; its model, whether the model is asked,
                \* and the model's counter
  removing      \* the models whose limits are gone and whose counter is not yet

vars == <<limited, gen, req, tok, credLock, pc, job, removing>>

CredCounter == <<Cred, 0>>
ModelCounters == Models \X (0 .. Reloads)
Counters == {CredCounter} \cup ModelCounters

Ages == 0 .. Window - 1
Amounts == 1 .. MaxAmount
Empty == [a \in Ages |-> 0]
Entries(f) == UNION {{x} \X (1 .. f[x]) : x \in DOMAIN f}
Total(f) == Cardinality(Entries(f))
Shift(w) == [a \in Ages |-> IF a = 0 THEN 0 ELSE w[a - 1]]
Plus(w, n) == [w EXCEPT ![0] = @ + n]

NoJob == [model |-> NoModel, asks |-> FALSE, counter |-> CredCounter]

TypeOK ==
  /\ limited \subseteq Models
  /\ gen \in [Models -> 0 .. Reloads]
  /\ req \in [Counters -> [Ages -> Nat]]
  /\ tok \in [Counters -> [Ages -> Nat]]
  /\ credLock \in Callers \cup {Free}
  /\ pc \in [Callers -> {"idle", "lookup", "cred", "model", "tokens", "modelTokens"}]
  /\ job \in [Callers -> [model : Models \cup {NoModel}, asks : BOOLEAN, counter : Counters]]
  /\ removing \subseteq Models

Init ==
  /\ limited = Models
  /\ gen = [m \in Models |-> 0]
  /\ req = [k \in Counters |-> Empty]
  /\ tok = [k \in Counters |-> Empty]
  /\ credLock = Free
  /\ pc = [w \in Callers |-> "idle"]
  /\ job = [w \in Callers |-> NoJob]
  /\ removing = {}

Goto(w, at) == pc' = [pc EXCEPT ![w] = at]

\* Mutation: an off-by-one.
RpmFree_OffByOne(k) == Rpm[k[1]] = -1 \/ Total(req[k]) <= Rpm[k[1]]

\* localCheckRPM, then localCheckTPM.
RpmFree(k) == Rpm[k[1]] = -1 \/ Total(req[k]) < Rpm[k[1]]
TpmFree(k) == Tpm[k[1]] = -1 \/ Total(tok[k]) < Tpm[k[1]]
HasRoom(k) == RpmFree(k) /\ TpmFree(k)

\* The counter that stands for m in the map.
CounterOf(m) == <<m, gen[m]>>

---------------------------------------------------------------------------
\* TryAllowAll.

\* The limits are read; a model without limits is left out of the decision.
Begin(w, m) ==
  /\ pc[w] = "idle"
  /\ job' = [job EXCEPT ![w] = [model |-> m, asks |-> m \in limited,
                                counter |-> CredCounter]]
  /\ Goto(w, "lookup")
  /\ UNCHANGED <<limited, gen, req, tok, credLock, removing>>

\* getOrCreate of both counters.
Lookup(w) ==
  LET m == job[w].model IN
  /\ pc[w] = "lookup"
  /\ job' = IF job[w].asks THEN [job EXCEPT ![w].counter = CounterOf(m)] ELSE job
  /\ Goto(w, "cred")
  /\ UNCHANGED <<limited, gen, req, tok, credLock, removing>>

Record(K) == req' = [k \in Counters |-> IF k \in K THEN Plus(req[k], 1) ELSE req[k]]

\* Mutation: the credential's mutex is released before the model is asked.
CheckCred_Unlocks(w) ==
  /\ pc[w] = "cred"
  /\ credLock = Free
  /\ IF ~HasRoom(CredCounter) THEN Goto(w, "idle") /\ UNCHANGED req
     ELSE IF ~job[w].asks THEN Record({CredCounter}) /\ Goto(w, "tokens")
     ELSE Goto(w, "model") /\ UNCHANGED req
  /\ UNCHANGED <<limited, gen, tok, job, removing, credLock>>

\* The credential's counter is locked and asked.  Without a model the request
\* is recorded at once; with one the mutex is kept.
CheckCred(w) ==
  /\ pc[w] = "cred"
  /\ credLock = Free
  /\ IF ~HasRoom(CredCounter) THEN Goto(w, "idle") /\ UNCHANGED <<req, credLock>>
     ELSE IF ~job[w].asks
       THEN Record({CredCounter}) /\ Goto(w, "tokens") /\ UNCHANGED credLock
     ELSE credLock' = w /\ Goto(w, "model") /\ UNCHANGED req
  /\ UNCHANGED <<limited, gen, tok, job, removing>>

\* The model's counter is locked and asked; the request is recorded in both
\* counters or in none, and both are released.
CheckModel(w) ==
  /\ pc[w] = "model"
  /\ IF HasRoom(job[w].counter)
       THEN Record({CredCounter, job[w].counter}) /\ Goto(w, "tokens")
       ELSE Goto(w, "idle") /\ UNCHANGED req
  /\ credLock' = Free
  /\ UNCHANGED <<limited, gen, tok, job, removing>>

---------------------------------------------------------------------------
\* The tokens of an admitted request, and the other operations.

\* ConsumeTokens, after the response.
ConsumeTokens(w, n) ==
  /\ pc[w] = "tokens"
  /\ credLock = Free
  /\ tok' = [tok EXCEPT ![CredCounter] = Plus(@, n)]
  /\ Goto(w, "modelTokens")
  /\ UNCHANGED <<limited, gen, req, credLock, job, removing>>

\* ConsumeModelTokens looks the limits and the counter up again.
ConsumeModelTokens(w, n) ==
  LET m == job[w].model IN
  /\ pc[w] = "modelTokens"
  /\ IF m \in limited
       THEN tok' = [tok EXCEPT ![CounterOf(m)] = Plus(@, n)]
       ELSE UNCHANGED tok
  /\ Goto(w, "idle")
  /\ UNCHANGED <<limited, gen, req, credLock, job, removing>>

\* A request that fails reports no tokens.
RequestFails(w) ==
  /\ pc[w] = "tokens"
  /\ Goto(w, "idle")
  /\ UNCHANGED <<limited, gen, req, tok, credLock, job, removing>>

\* RemoveModel deletes the limits, and then, under another mutex, the counter
\* from the map; callers that have looked it up keep it.
RemoveLimits(m) ==
  /\ m \in limited \ removing
  /\ gen[m] < Reloads
  /\ limited' = limited \ {m}
  /\ removing' = removing \cup {m}
  /\ UNCHANGED <<gen, req, tok, credLock, pc, job>>

DeleteCounter(m) ==
  /\ m \in removing
  /\ removing' = removing \ {m}
  /\ gen' = [gen EXCEPT ![m] = @ + 1]
  /\ UNCHANGED <<limited, req, tok, credLock, pc, job>>

AddModel(m) ==
  /\ m \notin limited
  /\ limited' = limited \cup {m}
  /\ UNCHANGED <<gen, req, tok, credLock, pc, job, removing>>

\* Mutation: tokens are not dropped with age.
Tick_KeepsTokens ==
  /\ req' = [k \in Counters |-> Shift(req[k])]
  /\ UNCHANGED <<limited, gen, tok, credLock, pc, job, removing>>

Tick ==
  /\ req' = [k \in Counters |-> Shift(req[k])]
  /\ tok' = [k \in Counters |-> Shift(tok[k])]
  /\ UNCHANGED <<limited, gen, credLock, pc, job, removing>>

TryAllowAll(w) ==
  \/ \E m \in Models \cup {NoModel} : Begin(w, m)
  \/ Lookup(w)
  \/ CheckCred(w)
  \/ CheckModel(w)

Serve(w) ==
  \/ \E n \in Amounts : ConsumeTokens(w, n) \/ ConsumeModelTokens(w, n)
  \/ RequestFails(w)

Reload == \E m \in Models : RemoveLimits(m) \/ DeleteCounter(m) \/ AddModel(m)

Next ==
  \/ \E w \in Callers : TryAllowAll(w) \/ Serve(w)
  \/ Reload
  \/ Tick

Spec == Init /\ [][Next]_vars

---------------------------------------------------------------------------
\* Properties.

\* No counter ever holds more requests than its limit, not even while several
\* requests are between the check of the credential and that of the model, and
\* not even a counter that RemoveModel has taken out of the map.
WindowsWithinLimits ==
  \A k \in Counters : Rpm[k[1]] # -1 => Total(req[k]) <= Rpm[k[1]]

\* A request is counted for its model only if it is counted for its credential
\* at the same moment: at every age the counters of the models, those RemoveModel
\* has deleted included, hold no more requests than the credential's.
CredentialCountsModels ==
  \A a \in Ages : Total([k \in ModelCounters |-> req[k][a]]) <= req[CredCounter][a]

\* Tokens are counted after the response, so requests that run at the same time
\* may take a credential over its tokens-per-minute limit, but no further than
\* each of them once.
TokenOvershootBounded ==
  Tpm[Cred] # -1 =>
    Total(tok[CredCounter]) < Tpm[Cred] + Cardinality(Callers) * MaxAmount

\* The windows hold what the limits allow, and the credential's holds what the
\* models' do, whoever else is being admitted or served (localBackend.tryAllowAll,
\* consumeTokens, deleteKey).
WithinLimits == WindowsWithinLimits /\ CredentialCountsModels /\ TokenOvershootBounded

\* Locking the counters one after the other adds up to one atomic decision: up
\* to the first removal of a model the limiter implements SlidingWindow.
Named(w) == IF job[w].asks THEN {Cred, job[w].model} ELSE {Cred}

Decision == INSTANCE SlidingWindow WITH
  Counters <- {Cred} \cup Models,
  req      <- [k \in {Cred} \cup Models |-> req[<<k, 0>>]],
  tok      <- [k \in {Cred} \cup Models |-> tok[<<k, 0>>]],
  call     <- [w \in Callers |->
                 IF pc[w] = "idle" THEN [keys |-> {}, is |-> "over"]
                 ELSE [keys |-> Named(w),
                       is   |-> IF pc[w] \in {"tokens", "modelTokens"}
                                  THEN "admitted" ELSE "pending"]]

Removed == removing # {} \/ \E m \in Models : gen[m] > 0
AtomicDecisions == Decision!Init /\ [][Decision!Next \/ Removed']_(Decision!vars)

\* Goroutines run and time passes.
Fairness ==
  /\ WF_vars(Tick)
  /\ \A w \in Callers : WF_vars(TryAllowAll(w)) /\ WF_vars(Serve(w))

FairSpec == Spec /\ Fairness

\* If requests keep coming, requests keep being admitted: whatever exhausts the
\* limits is forgotten, and no caller keeps a mutex.
CapacityReturns == []<>(\E w \in Callers : pc[w] = "tokens")
===========================================================================
