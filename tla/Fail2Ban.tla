----------------------------- MODULE Fail2Ban -----------------------------
(***************************************************************************)
(* src/internal/fail2ban/fail2ban.go: bans of credential and model pairs.  *)
(*                                                                         *)
(* One RWMutex guards the maps, so a method is one step; the exception is  *)
(* IsBanned, which gives up the read lock between seeing that a ban has    *)
(* expired and removing it.  Time is counted in ticks: a ban carries its   *)
(* age, kept only as far as the first tick at which it has expired.  An    *)
(* expired ban stays in the map, with its counters, until RecordResponse   *)
(* or IsBanned comes across it.                                            *)
(***************************************************************************)
EXTENDS Integers

CONSTANTS
  Creds, Models,   \* credential names and model names
  Codes,           \* errorCodes: the status codes that are tracked
  MaxAttempts,     \* code -> the MaxAttempts of its rule
  BanDuration,     \* code -> the BanDuration of its rule in ticks, 0: permanent
  Callers,         \* request goroutines that call IsBanned
  NoBan,           \* no entry in the map banned
  Idle             \* caller is not between the two locks of IsBanned

\* What the configuration's validation lets through: at least one attempt.
ASSUME RulesAssumption ==
  /\ MaxAttempts \in [Codes -> Nat \ {0}]
  /\ BanDuration \in [Codes -> Nat]

ASSUME MarkersAssumption ==
  /\ Idle \notin Creds \X Models
  /\ NoBan \notin [code : Codes, age : Nat]

VARIABLES
  failures,        \* pair -> code -> count; a missing entry is all zero
  banned,          \* pair -> NoBan or [code, age]
  checking,        \* caller -> the pair whose ban it found expired, or Idle
  answer,          \* caller -> its last question and what it was told
  listed           \* the pairs the last GetBannedPairs returned

vars == <<failures, banned, checking, answer, listed>>

Pairs == Creds \X Models
Ban == [code : Codes, age : Nat]
Clean == [c \in Codes |-> 0]
NoAnswer == [asked |-> {}, banned |-> {}]

TypeOK ==
  /\ failures \in [Pairs -> [Codes -> Nat]]
  /\ banned \in [Pairs -> Ban \cup {NoBan}]
  /\ checking \in [Callers -> Pairs \cup {Idle}]
  /\ answer \in [Callers -> [asked : SUBSET Pairs, banned : SUBSET Pairs]]
  /\ listed \in SUBSET Pairs

Init ==
  /\ failures = [p \in Pairs |-> Clean]
  /\ banned = [p \in Pairs |-> NoBan]
  /\ checking = [w \in Callers |-> Idle]
  /\ answer = [w \in Callers |-> NoAnswer]
  /\ listed = {}

\* time.Since(banTime) > banDuration, for a ban that is not permanent.
HasExpired(ban) ==
  BanDuration[ban.code] > 0 /\ ban.age > BanDuration[ban.code]

Expired(p) == banned[p] # NoBan /\ HasExpired(banned[p])
Active(p)  == banned[p] # NoBan /\ ~HasExpired(banned[p])

\* The counters of p once an expired ban, and they with it, are removed.
Remaining(p) == IF Expired(p) THEN Clean ELSE failures[p]

---------------------------------------------------------------------------
\* RecordResponse: a pair that is still banned ignores the response, whatever
\* its status; otherwise an expired ban goes first, with its counters.

IgnoreWhileBanned(p) == Active(p) /\ UNCHANGED vars

RecordSuccess(p) ==
  /\ ~Active(p)
  /\ banned' = [banned EXCEPT ![p] = NoBan]
  /\ failures' = [failures EXCEPT ![p] = Clean]
  /\ UNCHANGED <<checking, answer, listed>>

\* A status that is neither a success nor one of errorCodes.
RecordUntracked(p) ==
  /\ ~Active(p)
  /\ banned' = [banned EXCEPT ![p] = NoBan]
  /\ failures' = [failures EXCEPT ![p] = Remaining(p)]
  /\ UNCHANGED <<checking, answer, listed>>

\* Mutation: an expired ban is removed and its counters are not.
RecordFailure_KeepsCounters(p, c) ==
  LET n == failures[p][c] + 1 IN
  /\ ~Active(p)
  /\ failures' = [failures EXCEPT ![p][c] = n]
  /\ banned' = [banned EXCEPT ![p] = IF n >= MaxAttempts[c]
                                       THEN [code |-> c, age |-> 0]
                                       ELSE NoBan]
  /\ UNCHANGED <<checking, answer, listed>>

RecordFailure(p, c) ==
  LET n == Remaining(p)[c] + 1 IN
  /\ ~Active(p)
  /\ failures' = [failures EXCEPT ![p] = [Remaining(p) EXCEPT ![c] = n]]
  /\ banned' = [banned EXCEPT ![p] = IF n >= MaxAttempts[c]
                                       THEN [code |-> c, age |-> 0]
                                       ELSE NoBan]
  /\ UNCHANGED <<checking, answer, listed>>

RecordResponse(p) ==
  \/ IgnoreWhileBanned(p)
  \/ RecordSuccess(p)
  \/ RecordUntracked(p)
  \/ \E c \in Codes : RecordFailure(p, c)

---------------------------------------------------------------------------
\* The questions.

Told(w, P) ==
  answer' = [answer EXCEPT ![w] = [asked |-> P, banned |-> {p \in P : Active(p)}]]

\* IsBanned under the read lock: answered, unless the ban looks expired.
IsBanned(w, p) ==
  /\ checking[w] = Idle
  /\ IF Expired(p)
       THEN checking' = [checking EXCEPT ![w] = p] /\ UNCHANGED answer
       ELSE Told(w, {p}) /\ UNCHANGED checking
  /\ UNCHANGED <<failures, banned, listed>>

\* Mutation: unbanning that forgets the counters which caused the ban.
Remove_KeepsCounters(P) ==
  /\ banned' = [p \in Pairs |-> IF p \in P THEN NoBan ELSE banned[p]]
  /\ UNCHANGED failures

\* Remove the bans of P and the counters of those pairs.
Remove(P) ==
  /\ banned' = [p \in Pairs |-> IF p \in P THEN NoBan ELSE banned[p]]
  /\ failures' = [p \in Pairs |-> IF p \in P THEN Clean ELSE failures[p]]

\* Mutation: IsBanned without the second look after the lock was given up.
Recheck_NoSecondLook(w) ==
  /\ checking[w] # Idle
  /\ Remove({checking[w]})
  /\ answer' = [answer EXCEPT ![w] = [asked |-> {checking[w]}, banned |-> {}]]
  /\ checking' = [checking EXCEPT ![w] = Idle]
  /\ UNCHANGED listed

\* IsBanned under the write lock: the map is read again, since the ban may
\* have gone, or a new one come, while no lock was held.
Recheck(w) ==
  /\ checking[w] # Idle
  /\ LET p == checking[w] IN
     /\ Remove({q \in {p} : Expired(q)})
     /\ Told(w, {p})
  /\ checking' = [checking EXCEPT ![w] = Idle]
  /\ UNCHANGED listed

\* HasAnyBan and GetBannedModelsForCredential count active bans only.
GetBannedModels(w, cred) ==
  /\ checking[w] = Idle
  /\ Told(w, {cred} \X Models)
  /\ UNCHANGED <<failures, banned, checking, listed>>

\* GetBannedPairs copies the whole map.
GetBannedPairs ==
  /\ listed' = {p \in Pairs : banned[p] # NoBan}
  /\ UNCHANGED <<failures, banned, checking, answer>>

---------------------------------------------------------------------------
\* The operator's commands, and time.

Unban(p) ==
  /\ Remove({q \in {p} : banned[q] # NoBan})
  /\ UNCHANGED <<checking, answer, listed>>

UnbanCredential(cred) ==
  /\ Remove({p \in {cred} \X Models : banned[p] # NoBan})
  /\ UNCHANGED <<checking, answer, listed>>

\* One tick on a ban.  The age of a permanent ban, and of one that has
\* expired, is never looked at again and stays.
Older(ban) ==
  IF BanDuration[ban.code] = 0 \/ HasExpired(ban) THEN ban
  ELSE [ban EXCEPT !.age = @ + 1]

Tick ==
  /\ banned' = [p \in Pairs |-> IF banned[p] = NoBan THEN NoBan
                                ELSE Older(banned[p])]
  /\ UNCHANGED <<failures, checking, answer, listed>>

Next ==
  \/ \E p \in Pairs : RecordResponse(p) \/ Unban(p)
  \/ \E w \in Callers, p \in Pairs : IsBanned(w, p)
  \/ \E w \in Callers : Recheck(w)
  \/ \E w \in Callers, cred \in Creds : GetBannedModels(w, cred)
  \/ GetBannedPairs
  \/ \E cred \in Creds : UnbanCredential(cred)
  \/ Tick

Spec == Init /\ [][Next]_vars

---------------------------------------------------------------------------
\* Properties.

\* A pair carries a ban exactly when one of its counters has reached the limit
\* of its code, that is the code of the ban, and no counter ever passes its
\* limit: so a ban that is removed always takes with it the counters that
\* caused it (RecordResponse, IsBanned and the two Unban methods delete from
\* both maps), and no pair is left at a limit without a ban.
BansMatchCounters ==
  \A p \in Pairs, c \in Codes :
    /\ failures[p][c] <= MaxAttempts[c]
    /\ failures[p][c] = MaxAttempts[c] <=> banned[p] # NoBan /\ banned[p].code = c

\* Nothing but an operator ends a ban before its time: no response of a request
\* that was under way when the ban came, and no caller of IsBanned that saw an
\* older ban expire and was overtaken before it got the write lock.
KeepsActiveBans ==
  \A p \in Pairs :
    Active(p) => \/ Active(p)' /\ banned'[p].code = banned[p].code
                 \/ Tick
                 \/ Unban(p)
                 \/ UnbanCredential(p[1])

ActiveBanSurvives == [][KeepsActiveBans]_vars

\* Bans that are removed only when somebody comes across them cannot be told
\* from bans that end on time: fail2ban implements BanPolicy.
OpenPairs  == [p \in Pairs |-> IF Active(p) THEN banned[p] ELSE NoBan]
CleanCount == [p \in Pairs |-> Remaining(p)]

Policy == INSTANCE BanPolicy WITH open <- OpenPairs, count <- CleanCount

PolicySpec == Policy!Spec

\* GetBannedPairs "returns all currently banned credential+model pairs": every
\* pair it returns is banned at that moment.
ListedAreBanned ==
  [][GetBannedPairs => \A p \in listed' : Active(p)]_vars
===========================================================================
