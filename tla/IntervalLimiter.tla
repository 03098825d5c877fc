-------------------------- MODULE IntervalLimiter --------------------------
(***************************************************************************)
(* src/internal/ratelimit/time_based.go: TimeBasedRateLimiter, which the   *)
(* router uses to space its health fetches from another router.  Wait      *)
(* reads the time of the last operation under a mutex, gives the mutex up  *)
(* to sleep for the rest of the interval, and takes it again to write the  *)
(* new time.  Times are kept as ages in ticks.                             *)
(***************************************************************************)
EXTENDS Naturals

CONSTANTS
  Fetchers, Keys,
  MinInterval    \* the interval every caller passes, in ticks

ASSUME IntervalAssumption == MinInterval \in Nat \ {0}

VARIABLES
  last,          \* key -> age of last[key]; MinInterval is at least so old, or none
  sleeping,      \* caller -> key -> ticks its timer has left, or Awake
  own            \* caller -> key -> age of the caller's own last grant

intervalVars == <<last, sleeping, own>>

IntervalAges == 0 .. MinInterval
Awake == MinInterval + 1

IntervalTypeOK ==
  /\ last \in [Keys -> IntervalAges]
  /\ sleeping \in [Fetchers -> [Keys -> 0 .. Awake]]
  /\ own \in [Fetchers -> [Keys -> IntervalAges]]

IntervalInit ==
  /\ last = [k \in Keys |-> MinInterval]
  /\ sleeping = [w \in Fetchers |-> [k \in Keys |-> Awake]]
  /\ own = [w \in Fetchers |-> [k \in Keys |-> MinInterval]]

\* A caller is in one Wait at a time.
Idle(w) == \A k \in Keys : sleeping[w][k] = Awake

\* last[key] = now, and Wait returns nil.
Grant(w, k) ==
  /\ last' = [last EXCEPT ![k] = 0]
  /\ own' = [own EXCEPT ![w][k] = 0]

\* The interval is over: no wait.
Pass(w, k) ==
  /\ Idle(w)
  /\ last[k] = MinInterval
  /\ Grant(w, k)
  /\ UNCHANGED sleeping

Sleep(w, k) ==
  /\ Idle(w)
  /\ last[k] < MinInterval
  /\ sleeping' = [sleeping EXCEPT ![w][k] = MinInterval - last[k]]
  /\ UNCHANGED <<last, own>>

\* Mutation: the caller that slept does not write the new time.
Wake_NoUpdate(w, k) ==
  /\ sleeping[w][k] = 0
  /\ own' = [own EXCEPT ![w][k] = 0]
  /\ sleeping' = [sleeping EXCEPT ![w][k] = Awake]
  /\ UNCHANGED last

\* The timer has fired: the new time is written without a second look at the
\* old one.
Wake(w, k) ==
  /\ sleeping[w][k] = 0
  /\ Grant(w, k)
  /\ sleeping' = [sleeping EXCEPT ![w][k] = Awake]

\* ctx.Done() wins: Wait returns an error and writes nothing.
Cancel(w, k) ==
  /\ sleeping[w][k] # Awake
  /\ sleeping' = [sleeping EXCEPT ![w][k] = Awake]
  /\ UNCHANGED <<last, own>>

Older(age) == IF age < MinInterval THEN age + 1 ELSE age

IntervalTick ==
  /\ last' = [k \in Keys |-> Older(last[k])]
  /\ own' = [w \in Fetchers |-> [k \in Keys |-> Older(own[w][k])]]
  /\ sleeping' = [w \in Fetchers |-> [k \in Keys |->
                    IF sleeping[w][k] \in {0, Awake} THEN sleeping[w][k]
                    ELSE sleeping[w][k] - 1]]

IntervalNext ==
  \/ \E w \in Fetchers, k \in Keys :
       Pass(w, k) \/ Sleep(w, k) \/ Wake(w, k) \/ Cancel(w, k)
  \/ IntervalTick

IntervalSpec == IntervalInit /\ [][IntervalNext]_intervalVars

---------------------------------------------------------------------------
\* What OwnSpacing rests on: a caller's own grant is at least as old as the last
\* one of the key, and its timer covers what is missing to the interval.
TimersCover ==
  \A w \in Fetchers, k \in Keys :
    /\ last[k] <= own[w][k]
    /\ sleeping[w][k] # Awake => own[w][k] + sleeping[w][k] >= MinInterval

\* A step in which Wait returns nil for k.
Granted(w, k) == Pass(w, k) \/ Wake(w, k)

\* One caller's operations on a key are at least the interval apart, whatever
\* other callers do: its own grant is never newer than last[key], from which its
\* next wait is counted.
GrantsOwnSpaced ==
  \A w \in Fetchers, k \in Keys : Granted(w, k) => own[w][k] = MinInterval

OwnSpacing == [][GrantsOwnSpaced]_intervalVars

\* "enforces a minimum time interval between operations per key": no Wait returns
\* nil for a key sooner than the interval after the last one did.
KeySpacing ==
  [][\A w \in Fetchers, k \in Keys : Granted(w, k) => last[k] = MinInterval]_intervalVars
===========================================================================
