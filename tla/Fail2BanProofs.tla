-------------------------- MODULE Fail2BanProofs --------------------------
(***************************************************************************)
(* Proofs about Fail2Ban, for any credentials, models, codes and rules;    *)
(* and, from the middle on, about the balancer's other half, the scheduler *)
(* WeightedRoundRobin, for any credentials, weights and live sets.         *)
(***************************************************************************)
EXTENDS Fail2Ban, WeightedRoundRobin, WellFoundedInduction, TLAPS

\* Every variable keeps its type.
THEOREM TypeCorrect == Spec => []TypeOK
<1>1. Init => TypeOK
  BY DEF Init, TypeOK, Clean, NoAnswer, Pairs
<1>2. TypeOK /\ [Next]_vars => TypeOK'
  <2> SUFFICES ASSUME TypeOK, [Next]_vars
               PROVE  TypeOK'
    OBVIOUS
  <2> USE DEF TypeOK
  <2>a. \A p \in Pairs : Remaining(p) \in [Codes -> Nat]
    BY DEF Remaining, Clean
  <2>b. \A w \in Callers, P \in SUBSET Pairs :
          Told(w, P) => answer' \in [Callers -> [asked : SUBSET Pairs, banned : SUBSET Pairs]]
    <3> TAKE w \in Callers, P \in SUBSET Pairs
    <3>1. {q \in P : Active(q)} \in SUBSET Pairs
      OBVIOUS
    <3> QED BY <3>1 DEF Told
  <2>c. \A P : Remove(P) => /\ failures' \in [Pairs -> [Codes -> Nat]]
                            /\ banned' \in [Pairs -> Ban \cup {NoBan}]
    BY DEF Remove, Clean
  <2>1. CASE \E p \in Pairs : RecordResponse(p)
    <3> PICK p \in Pairs : RecordResponse(p)
      BY <2>1
    <3>1. CASE IgnoreWhileBanned(p)
      BY <3>1 DEF IgnoreWhileBanned, vars
    <3>2. CASE RecordSuccess(p)
      BY <3>2 DEF RecordSuccess, Clean
    <3>3. CASE RecordUntracked(p)
      BY <3>3, <2>a DEF RecordUntracked
    <3>4. CASE \E c \in Codes : RecordFailure(p, c)
      <4> PICK c \in Codes : RecordFailure(p, c)
        BY <3>4
      <4>1. [code |-> c, age |-> 0] \in Ban
        BY DEF Ban
      <4>2. Remaining(p)[c] + 1 \in Nat
        BY <2>a
      <4>3. [Remaining(p) EXCEPT ![c] = Remaining(p)[c] + 1] \in [Codes -> Nat]
        BY <2>a, <4>2
      <4> HIDE DEF Remaining
      <4> QED BY <4>1, <4>3 DEF RecordFailure
    <3> QED BY <3>1, <3>2, <3>3, <3>4 DEF RecordResponse
  <2>2. CASE \E p \in Pairs : Unban(p)
    BY <2>2, <2>c DEF Unban
  <2>3. CASE \E w \in Callers, p \in Pairs : IsBanned(w, p)
    <3> PICK w \in Callers, p \in Pairs : IsBanned(w, p)
      BY <2>3
    <3>1. {p} \in SUBSET Pairs
      OBVIOUS
    <3> QED BY <3>1, <2>b DEF IsBanned
  <2>4. CASE \E w \in Callers : Recheck(w)
    <3> PICK w \in Callers : Recheck(w)
      BY <2>4
    <3>1. {checking[w]} \in SUBSET Pairs
      BY DEF Recheck
    <3> QED BY <3>1, <2>b, <2>c DEF Recheck
  <2>5. CASE \E w \in Callers, cred \in Creds : GetBannedModels(w, cred)
    <3> PICK w \in Callers, cred \in Creds : GetBannedModels(w, cred)
      BY <2>5
    <3>1. {cred} \X Models \in SUBSET Pairs
      BY DEF Pairs
    <3> QED BY <3>1, <2>b DEF GetBannedModels
  <2>6. CASE GetBannedPairs
    BY <2>6 DEF GetBannedPairs
  <2>7. CASE \E cred \in Creds : UnbanCredential(cred)
    BY <2>7, <2>c DEF UnbanCredential
  <2>8. CASE Tick
    <3>1. \A p \in Pairs : banned[p] # NoBan => Older(banned[p]) \in Ban
      BY DEF Older, Ban
    <3> QED BY <2>8, <3>1 DEF Tick
  <2>9. CASE UNCHANGED vars
    BY <2>9 DEF vars
  <2> QED BY <2>1, <2>2, <2>3, <2>4, <2>5, <2>6, <2>7, <2>8, <2>9 DEF Next
<1> QED BY <1>1, <1>2, PTL DEF Spec

---------------------------------------------------------------------------
\* The two maps agree: BansMatchCounters is inductive once the types are known.

\* What BansMatchCounters says of one pair.
Agrees(p) ==
  \A c \in Codes :
    /\ failures[p][c] <= MaxAttempts[c]
    /\ failures[p][c] = MaxAttempts[c] <=> banned[p] # NoBan /\ banned[p].code = c

\* The counters left for a response that is not ignored are all below their limits.
LEMMA RemainingBelow ==
  ASSUME TypeOK, BansMatchCounters, NEW p \in Pairs, ~Active(p), NEW c \in Codes
  PROVE  Remaining(p)[c] \in Nat /\ Remaining(p)[c] < MaxAttempts[c]
<1> USE RulesAssumption DEF TypeOK
<1>1. CASE Expired(p)
  BY <1>1 DEF Remaining, Clean
<1>2. CASE ~Expired(p)
  <2>1. banned[p] = NoBan
    BY <1>2 DEF Active, Expired
  <2>2. failures[p][c] \in Nat /\ MaxAttempts[c] \in Nat
    OBVIOUS
  <2>3. failures[p][c] <= MaxAttempts[c] /\ failures[p][c] # MaxAttempts[c]
    BY <2>1 DEF BansMatchCounters
  <2>4. \A m, n \in Nat : m <= n /\ m # n => m < n
    OBVIOUS
  <2>5. Remaining(p) = failures[p]
    BY <1>2 DEF Remaining
  <2> HIDE RulesAssumption DEF TypeOK
  <2> QED BY <2>2, <2>3, <2>4, <2>5
<1> QED BY <1>1, <1>2

\* Removing bans together with their counters keeps the two maps in agreement.
LEMMA RemoveAgrees ==
  ASSUME TypeOK, BansMatchCounters, NEW P, Remove(P)
  PROVE  BansMatchCounters'
BY RulesAssumption DEF TypeOK, BansMatchCounters, Remove, Clean

\* No pair stands at a limit without the ban that belongs to it, or the reverse.
THEOREM BansAgree == Spec => []BansMatchCounters
<1>1. Init => BansMatchCounters
  BY RulesAssumption DEF Init, BansMatchCounters, Clean
<1>2. TypeOK /\ BansMatchCounters /\ [Next]_vars => BansMatchCounters'
  <2> SUFFICES ASSUME TypeOK, BansMatchCounters, [Next]_vars
               PROVE  BansMatchCounters'
    OBVIOUS
  <2>1. CASE \E p \in Pairs : RecordResponse(p)
    <3> PICK p \in Pairs : RecordResponse(p)
      BY <2>1
    <3> SUFFICES Agrees(p)' /\ \A q \in Pairs \ {p} : Agrees(q)'
      BY DEF BansMatchCounters, Agrees
    <3>1. CASE IgnoreWhileBanned(p)
      BY <3>1 DEF IgnoreWhileBanned, vars, BansMatchCounters, Agrees
    <3>2. CASE RecordSuccess(p)
      BY <3>2, RulesAssumption DEF RecordSuccess, Clean, BansMatchCounters, Agrees, TypeOK
    <3>3. CASE RecordUntracked(p)
      <4>1. \A c \in Codes : failures'[p][c] \in Nat /\ failures'[p][c] < MaxAttempts[c]
        BY <3>3, RemainingBelow DEF RecordUntracked, TypeOK
      <4>2. banned'[p] = NoBan
        BY <3>3 DEF RecordUntracked, TypeOK
      <4>3. Agrees(p)'
        BY <4>1, <4>2, RulesAssumption DEF Agrees
      <4> QED BY <3>3, <4>3 DEF RecordUntracked, BansMatchCounters, Agrees, TypeOK
    <3>4. CASE \E c \in Codes : RecordFailure(p, c)
      <4> PICK c \in Codes : RecordFailure(p, c)
        BY <3>4
      <4> DEFINE n == Remaining(p)[c] + 1
      <4>1. \A d \in Codes : Remaining(p)[d] \in Nat /\ Remaining(p)[d] < MaxAttempts[d]
        BY <3>4, RemainingBelow DEF RecordFailure
      <4>2. Remaining(p) \in [Codes -> Nat]
        BY DEF Remaining, Clean, TypeOK
      <4>3. /\ failures'[p] = [Remaining(p) EXCEPT ![c] = n]
            /\ banned'[p] = IF n >= MaxAttempts[c] THEN [code |-> c, age |-> 0] ELSE NoBan
            /\ \A q \in Pairs \ {p} : failures'[q] = failures[q] /\ banned'[q] = banned[q]
        BY DEF RecordFailure, TypeOK
      <4>4. [code |-> c, age |-> 0] # NoBan
        BY MarkersAssumption
      <4>5. n \in Nat /\ n <= MaxAttempts[c] /\ MaxAttempts[c] \in Nat
        BY <4>1, RulesAssumption
      <4>6. \A d \in Codes : failures'[p][d] = IF d = c THEN n ELSE Remaining(p)[d]
        BY <4>2, <4>3
      <4> HIDE DEF n
      <4>7. Agrees(p)'
        BY <4>1, <4>3, <4>4, <4>5, <4>6, RulesAssumption DEF Agrees
      <4> QED BY <4>3, <4>7 DEF BansMatchCounters, Agrees
    <3> QED BY <3>1, <3>2, <3>3, <3>4 DEF RecordResponse
  <2>2. CASE \E p \in Pairs : Unban(p)
    BY <2>2, RemoveAgrees DEF Unban
  <2>3. CASE \E w \in Callers, p \in Pairs : IsBanned(w, p)
    BY <2>3 DEF IsBanned, BansMatchCounters
  <2>4. CASE \E w \in Callers : Recheck(w)
    BY <2>4, RemoveAgrees DEF Recheck
  <2>5. CASE \E w \in Callers, cred \in Creds : GetBannedModels(w, cred)
    BY <2>5 DEF GetBannedModels, BansMatchCounters
  <2>6. CASE GetBannedPairs
    BY <2>6 DEF GetBannedPairs, BansMatchCounters
  <2>7. CASE \E cred \in Creds : UnbanCredential(cred)
    BY <2>7, RemoveAgrees DEF UnbanCredential
  <2>8. CASE Tick
    <3>1. \A p \in Pairs : /\ banned'[p] = NoBan <=> banned[p] = NoBan
                           /\ banned[p] # NoBan => banned'[p].code = banned[p].code
      <4> TAKE p \in Pairs
      <4>1. banned[p] # NoBan => Older(banned[p]) \in Ban /\ Older(banned[p]).code = banned[p].code
        BY DEF Older, Ban, TypeOK
      <4> QED BY <2>8, <4>1, MarkersAssumption DEF Tick, Ban
    <3> QED BY <2>8, <3>1 DEF Tick, BansMatchCounters
  <2>9. CASE UNCHANGED vars
    BY <2>9 DEF vars, BansMatchCounters
  <2> QED BY <2>1, <2>2, <2>3, <2>4, <2>5, <2>6, <2>7, <2>8, <2>9 DEF Next
<1> QED BY <1>1, <1>2, TypeCorrect, PTL DEF Spec

---------------------------------------------------------------------------
\* A step of a request leaves an active ban as it is: RecordResponse ignores
\* the pair, and removals touch the expired bans only.
LEMMA ActiveStaysUnlessLifted ==
  ASSUME TypeOK, NEW p \in Pairs, Active(p), [Next]_vars,
         ~Tick, ~Unban(p), ~UnbanCredential(p[1])
  PROVE  banned'[p] = banned[p]
<1>1. CASE \E q \in Pairs : RecordResponse(q)
  <2> PICK q \in Pairs : RecordResponse(q)
    BY <1>1
  <2>1. CASE q = p
    BY <2>1 DEF RecordResponse, IgnoreWhileBanned, RecordSuccess, RecordUntracked,
                RecordFailure, vars
  <2>2. CASE q # p
    BY <2>2 DEF RecordResponse, IgnoreWhileBanned, RecordSuccess, RecordUntracked,
                RecordFailure, vars, TypeOK
  <2> QED BY <2>1, <2>2
<1>2. CASE \E q \in Pairs : Unban(q)
  BY <1>2 DEF Unban, Remove
<1>3. CASE \E w \in Callers, q \in Pairs : IsBanned(w, q)
  BY <1>3 DEF IsBanned
<1>4. CASE \E w \in Callers : Recheck(w)
  BY <1>4 DEF Recheck, Remove, Expired, Active
<1>5. CASE \E w \in Callers, cred \in Creds : GetBannedModels(w, cred)
  BY <1>5 DEF GetBannedModels
<1>6. CASE GetBannedPairs
  BY <1>6 DEF GetBannedPairs
<1>7. CASE \E cred \in Creds : UnbanCredential(cred)
  <2> PICK cred \in Creds : UnbanCredential(cred)
    BY <1>7
  <2>1. cred # p[1]
    OBVIOUS
  <2>2. p \notin {cred} \X Models
    BY <2>1
  <2> QED BY <2>2 DEF UnbanCredential, Remove
<1>8. CASE UNCHANGED vars
  BY <1>8 DEF vars
<1> QED BY <1>1, <1>2, <1>3, <1>4, <1>5, <1>6, <1>7, <1>8 DEF Next

\* No response and no caller of IsBanned ends a ban before its time.
THEOREM BansLast == Spec => ActiveBanSurvives
<1>1. ASSUME TypeOK, [Next]_vars
      PROVE  [KeepsActiveBans]_vars
  <2> SUFFICES ASSUME NEW p \in Pairs, Active(p),
                      ~Tick, ~Unban(p), ~UnbanCredential(p[1])
               PROVE  Active(p)' /\ banned'[p].code = banned[p].code
    BY DEF KeepsActiveBans
  <2>1. banned'[p] = banned[p]
    BY <1>1, ActiveStaysUnlessLifted
  <2> QED BY <2>1 DEF Active
<1> QED BY <1>1, TypeCorrect, PTL DEF Spec, ActiveBanSurvives

---------------------------------------------------------------------------
\* Fail2Ban implements BanPolicy.

\* A step that changes one pair only, and answers nobody, is seen by the policy
\* at that pair only.
LEMMA OnePairChanges ==
  ASSUME TypeOK, NEW p \in Pairs, UNCHANGED answer,
         \A q \in Pairs \ {p} : failures'[q] = failures[q] /\ banned'[q] = banned[q]
  PROVE  \A q \in Pairs \ {p} : /\ OpenPairs'[q] = OpenPairs[q]
                                /\ CleanCount'[q] = CleanCount[q]
BY DEF OpenPairs, CleanCount, Active, Remaining, Expired

\* Removing expired bans, and their counters, is invisible to the policy.
LEMMA RemoveExpired ==
  ASSUME TypeOK, NEW P, Remove(P), \A p \in P : p \in Pairs => Expired(p)
  PROVE  OpenPairs' = OpenPairs /\ CleanCount' = CleanCount
<1>1. \A p \in Pairs : /\ OpenPairs'[p] = OpenPairs[p]
                       /\ CleanCount'[p] = CleanCount[p]
  <2> TAKE p \in Pairs
  <2>1. CASE p \in P
    <3>1. banned'[p] = NoBan /\ failures'[p] = Clean /\ Expired(p)
      BY <2>1 DEF Remove
    <3> QED BY <3>1 DEF OpenPairs, CleanCount, Active, Remaining, Expired
  <2>2. CASE p \notin P
    <3>1. banned'[p] = banned[p] /\ failures'[p] = failures[p]
      BY <2>2 DEF Remove
    <3> QED BY <3>1 DEF OpenPairs, CleanCount, Active, Remaining, Expired
  <2> QED BY <2>1, <2>2
<1> QED BY <1>1 DEF OpenPairs, CleanCount

\* Removing present bans, active or expired, is the policy's Lift.
LEMMA RemoveLifts ==
  ASSUME TypeOK, BansMatchCounters, NEW P \in SUBSET Pairs,
         Remove({p \in P : banned[p] # NoBan}), UNCHANGED answer
  PROVE  Policy!Lift(P)
<1>1. \A p \in Pairs :
        /\ OpenPairs'[p] = IF p \in P /\ OpenPairs[p] # NoBan THEN NoBan ELSE OpenPairs[p]
        /\ CleanCount'[p] = IF p \in P /\ OpenPairs[p] # NoBan THEN Clean ELSE CleanCount[p]
  <2> TAKE p \in Pairs
  <2>1. CASE p \in P /\ banned[p] # NoBan
    <3>1. banned'[p] = NoBan /\ failures'[p] = Clean
      BY <2>1 DEF Remove
    <3> QED BY <2>1, <3>1 DEF OpenPairs, CleanCount, Active, Remaining, Expired
  <2>2. CASE ~(p \in P /\ banned[p] # NoBan)
    <3>1. banned'[p] = banned[p] /\ failures'[p] = failures[p]
      BY <2>2 DEF Remove
    <3> QED BY <2>2, <3>1 DEF OpenPairs, CleanCount, Active, Remaining, Expired
  <2> QED BY <2>1, <2>2
<1>2. Policy!Pairs = Pairs /\ Policy!Clean = Clean
  BY DEF Policy!Pairs, Pairs, Policy!Clean, Clean
<1> QED BY <1>1, <1>2 DEF Policy!Lift, OpenPairs, CleanCount

\* A response is a success or a failure of the policy, or nothing.
LEMMA ResponseImplements ==
  ASSUME TypeOK, BansMatchCounters, NEW p \in Pairs, RecordResponse(p)
  PROVE  Policy!Next \/ UNCHANGED Policy!vars
<1>0. Policy!Pairs = Pairs /\ Policy!Clean = Clean
  BY DEF Policy!Pairs, Pairs, Policy!Clean, Clean
<1>a. ASSUME ~Active(p)
      PROVE  OpenPairs[p] = NoBan /\ CleanCount[p] = Remaining(p)
  BY <1>a DEF OpenPairs, CleanCount
<1>b. OpenPairs' = [OpenPairs EXCEPT ![p] = OpenPairs'[p]] <=>
        \A q \in Pairs \ {p} : OpenPairs'[q] = OpenPairs[q]
  BY DEF OpenPairs
<1>c. CleanCount' = [CleanCount EXCEPT ![p] = CleanCount'[p]] <=>
        \A q \in Pairs \ {p} : CleanCount'[q] = CleanCount[q]
  BY DEF CleanCount
<1>1. CASE IgnoreWhileBanned(p)
  BY <1>1 DEF IgnoreWhileBanned, vars, Policy!vars, OpenPairs, CleanCount, Active,
              Remaining, Expired
<1>2. CASE RecordSuccess(p)
  <2>1. /\ ~Active(p)
        /\ UNCHANGED answer
        /\ failures'[p] = Clean
        /\ banned'[p] = NoBan
        /\ \A q \in Pairs \ {p} : failures'[q] = failures[q] /\ banned'[q] = banned[q]
    BY <1>2 DEF RecordSuccess, TypeOK
  <2>2. OpenPairs'[p] = NoBan /\ CleanCount'[p] = Clean
    BY <2>1 DEF OpenPairs, CleanCount, Active, Remaining, Expired
  <2>3. Policy!Succeed(p)
    BY <1>0, <1>a, <1>b, <1>c, <2>1, <2>2, OnePairChanges DEF Policy!Succeed, OpenPairs
  <2> QED BY <1>0, <2>3 DEF Policy!Next
<1>3. CASE RecordUntracked(p)
  <2>1. /\ ~Active(p)
        /\ UNCHANGED answer
        /\ failures'[p] = Remaining(p)
        /\ banned'[p] = NoBan
        /\ \A q \in Pairs \ {p} : failures'[q] = failures[q] /\ banned'[q] = banned[q]
    BY <1>3 DEF RecordUntracked, TypeOK
  <2>2. OpenPairs'[p] = NoBan /\ CleanCount'[p] = Remaining(p)
    BY <2>1 DEF OpenPairs, CleanCount, Active, Remaining, Expired
  <2>3. OpenPairs' = OpenPairs /\ CleanCount' = CleanCount
    BY <1>a, <1>b, <1>c, <2>1, <2>2, OnePairChanges DEF OpenPairs, CleanCount
  <2> QED BY <2>1, <2>3 DEF Policy!vars
<1>4. CASE \E c \in Codes : RecordFailure(p, c)
  <2> PICK c \in Codes : RecordFailure(p, c)
    BY <1>4
  <2> DEFINE n == Remaining(p)[c] + 1
  <2>1. /\ ~Active(p)
        /\ UNCHANGED answer
        /\ failures'[p] = [Remaining(p) EXCEPT ![c] = n]
        /\ banned'[p] = IF n >= MaxAttempts[c] THEN [code |-> c, age |-> 0] ELSE NoBan
        /\ \A q \in Pairs \ {p} : failures'[q] = failures[q] /\ banned'[q] = banned[q]
    BY DEF RecordFailure, TypeOK
  <2>2. ~HasExpired([code |-> c, age |-> 0]) /\ [code |-> c, age |-> 0] # NoBan
    BY RulesAssumption, MarkersAssumption DEF HasExpired
  <2>3. ~Expired(p)'
    BY <2>1, <2>2 DEF Expired
  <2>4. OpenPairs'[p] = banned'[p] /\ CleanCount'[p] = failures'[p]
    BY <2>1, <2>2, <2>3 DEF OpenPairs, CleanCount, Active, Remaining
  <2>5. /\ OpenPairs[p] = NoBan
        /\ CleanCount[p] = Remaining(p)
        /\ \A q \in Pairs \ {p} : OpenPairs'[q] = OpenPairs[q] /\ CleanCount'[q] = CleanCount[q]
    BY <1>a, <2>1, OnePairChanges
  <2>6. CleanCount' = [CleanCount EXCEPT ![p][c] = @ + 1]
    <3>1. CleanCount'[p] = [CleanCount[p] EXCEPT ![c] = CleanCount[p][c] + 1]
      BY <2>1, <2>4, <2>5
    <3> QED BY <2>5, <3>1 DEF CleanCount
  <2>7. CASE n >= MaxAttempts[c]
    <3>1. OpenPairs' = [OpenPairs EXCEPT ![p] = [code |-> c, age |-> 0]]
      BY <2>1, <2>4, <2>5, <2>7 DEF OpenPairs
    <3>2. Policy!Fail(p, c)
      BY <2>1, <2>5, <2>6, <2>7, <3>1 DEF Policy!Fail
    <3> QED BY <1>0, <3>2 DEF Policy!Next
  <2>8. CASE ~(n >= MaxAttempts[c])
    <3>1. OpenPairs' = OpenPairs
      BY <2>1, <2>4, <2>5, <2>8 DEF OpenPairs
    <3>2. Policy!Fail(p, c)
      BY <2>1, <2>5, <2>6, <2>8, <3>1 DEF Policy!Fail
    <3> QED BY <1>0, <3>2 DEF Policy!Next
  <2> QED BY <2>7, <2>8
<1> QED BY <1>1, <1>2, <1>3, <1>4 DEF RecordResponse

\* A question is answered from the pairs that are open at that moment.
LEMMA ToldImplements ==
  ASSUME NEW w \in Callers, NEW P \in SUBSET Pairs, TypeOK, Told(w, P),
         OpenPairs' = OpenPairs, CleanCount' = CleanCount
  PROVE  Policy!Next
<1>0. Policy!Pairs = Pairs
  BY DEF Policy!Pairs, Pairs
<1>1. \A p \in Pairs : Active(p) <=> OpenPairs[p] # NoBan
  BY DEF OpenPairs, Active
<1>2. {p \in P : Active(p)} = {p \in P : OpenPairs[p] # NoBan}
  BY <1>1
<1>3. Policy!Ask(w, P)
  BY <1>2 DEF Told, Policy!Ask
<1> QED BY <1>0, <1>3 DEF Policy!Next

\* A tick of the detailed clock is a tick of the policy's: a ban becomes expired
\* in the same step in which the policy closes the pair.
LEMMA TickImplements ==
  ASSUME TypeOK, Tick
  PROVE  Policy!Tick
<1>1. \A p \in Pairs :
        /\ OpenPairs'[p] = IF OpenPairs[p] = NoBan \/ Policy!Over(p) THEN NoBan
                           ELSE IF BanDuration[OpenPairs[p].code] = 0 THEN OpenPairs[p]
                           ELSE [OpenPairs[p] EXCEPT !.age = @ + 1]
        /\ CleanCount'[p] = IF Policy!Over(p) THEN Clean ELSE CleanCount[p]
  <2> TAKE p \in Pairs
  <2>0. failures'[p] = failures[p]
    BY DEF Tick
  <2>1. CASE banned[p] = NoBan
    <3>1. banned'[p] = NoBan
      BY <2>1 DEF Tick
    <3> QED BY <2>0, <2>1, <3>1 DEF OpenPairs, CleanCount, Active, Remaining, Expired,
                                    Policy!Over
  <2>2. CASE banned[p] # NoBan /\ HasExpired(banned[p])
    <3>1. banned'[p] = banned[p]
      BY <2>2 DEF Tick, Older
    <3> QED BY <2>0, <2>2, <3>1 DEF OpenPairs, CleanCount, Active, Remaining, Expired,
                                    Policy!Over
  <2>3. CASE banned[p] # NoBan /\ ~HasExpired(banned[p])
    <3> DEFINE b == banned[p]
    <3>1. b \in Ban /\ BanDuration[b.code] \in Nat /\ b.age \in Nat
      BY <2>3, RulesAssumption DEF TypeOK, Ban
    <3>2. OpenPairs[p] = b /\ b # NoBan /\ CleanCount[p] = failures[p]
      BY <2>3 DEF OpenPairs, CleanCount, Active, Remaining, Expired
    <3>3. banned'[p] = IF BanDuration[b.code] = 0 THEN b ELSE [b EXCEPT !.age = @ + 1]
      BY <2>3 DEF Tick, Older
    <3>4. CASE BanDuration[b.code] = 0
      <4>1. banned'[p] = b /\ ~HasExpired(b)
        BY <3>3, <3>4, <2>3
      <4>2. ~Policy!Over(p)
        BY <3>2, <3>4 DEF Policy!Over
      <4> QED BY <2>0, <3>2, <3>4, <4>1, <4>2 DEF OpenPairs, CleanCount, Active,
                                               Remaining, Expired
    <3>5. CASE BanDuration[b.code] # 0
      <4> DEFINE a == [b EXCEPT !.age = @ + 1]
      <4>1. banned'[p] = a
        BY <3>3, <3>5
      <4>2. a \in Ban /\ a.code = b.code /\ a.age = b.age + 1 /\ a # NoBan
        BY <3>1, MarkersAssumption DEF Ban
      <4>3. HasExpired(a) <=> b.age >= BanDuration[b.code]
        BY <3>1, <3>5, <4>2 DEF HasExpired
      <4>4. Policy!Over(p) <=> b.age >= BanDuration[b.code]
        BY <3>1, <3>2, <3>5 DEF Policy!Over
      <4> HIDE DEF a
      <4>5. OpenPairs'[p] = IF Policy!Over(p) THEN NoBan ELSE a
        BY <4>1, <4>2, <4>3, <4>4 DEF OpenPairs, Active
      <4>6. CleanCount'[p] = IF Policy!Over(p) THEN Clean ELSE CleanCount[p]
        BY <2>0, <3>2, <4>1, <4>2, <4>3, <4>4 DEF CleanCount, Remaining, Expired
      <4> QED BY <3>2, <3>5, <4>5, <4>6 DEF a
    <3> QED BY <3>4, <3>5
  <2> QED BY <2>1, <2>2, <2>3
<1>2. Policy!Pairs = Pairs /\ Policy!Clean = Clean
  BY DEF Policy!Pairs, Pairs, Policy!Clean, Clean
<1>3. UNCHANGED answer
  BY DEF Tick
<1> QED BY <1>1, <1>2, <1>3 DEF Policy!Tick, OpenPairs, CleanCount

\* Bans that linger in the map until somebody comes across them, and the second
\* look of IsBanned, add up to bans that end on time: fail2ban implements
\* BanPolicy.
THEOREM ImplementsPolicy == Spec => PolicySpec
<1>0. Policy!Pairs = Pairs /\ Policy!Clean = Clean
  BY DEF Policy!Pairs, Pairs, Policy!Clean, Clean
<1>1. Init => Policy!Init
  BY <1>0 DEF Init, Policy!Init, Policy!NoAnswer, NoAnswer, OpenPairs, CleanCount, Active,
              Remaining, Expired, Clean
<1>2. TypeOK /\ BansMatchCounters /\ [Next]_vars => [Policy!Next]_Policy!vars
  <2> SUFFICES ASSUME TypeOK, BansMatchCounters, [Next]_vars
               PROVE  Policy!Next \/ UNCHANGED Policy!vars
    OBVIOUS
  <2>a. UNCHANGED <<failures, banned>> => OpenPairs' = OpenPairs /\ CleanCount' = CleanCount
    BY DEF OpenPairs, CleanCount, Active, Remaining, Expired
  <2>b. \A P \in SUBSET Pairs : Policy!Lift(P) => Policy!Next
    BY <1>0 DEF Policy!Next
  <2>1. CASE \E p \in Pairs : RecordResponse(p)
    BY <2>1, ResponseImplements
  <2>2. CASE \E p \in Pairs : Unban(p)
    <3> PICK p \in Pairs : Unban(p)
      BY <2>2
    <3>1. {p} \in SUBSET Pairs
      OBVIOUS
    <3> QED BY <2>b, <3>1, RemoveLifts DEF Unban
  <2>3. CASE \E w \in Callers, p \in Pairs : IsBanned(w, p)
    <3> PICK w \in Callers, p \in Pairs : IsBanned(w, p)
      BY <2>3
    <3>1. {p} \in SUBSET Pairs
      OBVIOUS
    <3>2. CASE Expired(p)
      BY <2>a, <3>2 DEF IsBanned, Policy!vars
    <3>3. CASE ~Expired(p)
      BY <2>a, <3>1, <3>3, ToldImplements DEF IsBanned
    <3> QED BY <3>2, <3>3
  <2>4. CASE \E w \in Callers : Recheck(w)
    <3> PICK w \in Callers : Recheck(w)
      BY <2>4
    <3> DEFINE p == checking[w]
    <3>1. {p} \in SUBSET Pairs
      BY DEF Recheck, TypeOK
    <3>2. OpenPairs' = OpenPairs /\ CleanCount' = CleanCount
      BY RemoveExpired DEF Recheck
    <3>3. Told(w, {p})
      BY DEF Recheck
    <3> QED BY <3>1, <3>2, <3>3, ToldImplements
  <2>5. CASE \E w \in Callers, cred \in Creds : GetBannedModels(w, cred)
    <3> PICK w \in Callers, cred \in Creds : GetBannedModels(w, cred)
      BY <2>5
    <3>1. {cred} \X Models \in SUBSET Pairs
      BY DEF Pairs
    <3> QED BY <2>a, <3>1, ToldImplements DEF GetBannedModels
  <2>6. CASE GetBannedPairs
    BY <2>a, <2>6 DEF GetBannedPairs, Policy!vars
  <2>7. CASE \E cred \in Creds : UnbanCredential(cred)
    <3> PICK cred \in Creds : UnbanCredential(cred)
      BY <2>7
    <3>1. {cred} \X Models \in SUBSET Pairs
      BY DEF Pairs
    <3> QED BY <2>b, <3>1, RemoveLifts DEF UnbanCredential
  <2>8. CASE Tick
    BY <2>8, TickImplements DEF Policy!Next
  <2>9. CASE UNCHANGED vars
    BY <2>a, <2>9 DEF vars, Policy!vars
  <2> QED BY <2>1, <2>2, <2>3, <2>4, <2>5, <2>6, <2>7, <2>8, <2>9 DEF Next
<1> QED BY <1>1, <1>2, TypeCorrect, BansAgree, PTL DEF Spec, PolicySpec, Policy!Spec

-----------------------------------------------------------------------------
(* The balancer's scheduler, which shares nothing with the bans but that   *)
(* they decide which credentials are live.                                 *)

\* What is assumed of the configuration.
LEMMA Configured ==
  /\ N \in Nat \ {0} /\ Weight \in [Candidates -> Nat \ {0}]
  /\ LiveSets \subseteq SUBSET Candidates /\ {} \notin LiveSets
  /\ MaxRefusals \in Nat
BY WeightAssumption, LiveAssumption, RefusalAssumption

-----------------------------------------------------------------------------
(* Induction.                                                              *)

\* Every set of numbers that is not empty has a least one.
LEMMA LeastNumber ==
  ASSUME NEW T \in SUBSET Nat, T # {}
  PROVE  \E n \in T : \A m \in T : n <= m
<1> DEFINE R == {ss \in Nat \X Nat : ss[1] < ss[2]}
<1>1. IsWellFoundedOn(R, Nat)
  BY NatLessThanWellFounded, Zenon DEF OpToRel
<1>2. PICK n \in T : \A m \in T : <<m, n>> \notin R
  <2> HIDE DEF R
  <2> QED BY <1>1, WFMin, Zenon
<1>3. \A m \in T : ~(m < n)
  BY <1>2
<1> QED BY <1>3

\* Induction over 0 .. n.
LEMMA Counting ==
  ASSUME NEW n \in Nat, NEW T, 0 \in T, \A i \in 1 .. n : i - 1 \in T => i \in T
  PROVE  0 .. n \subseteq T
<1> DEFINE Out == (0 .. n) \ T
<1> SUFFICES ASSUME Out # {} PROVE FALSE
  OBVIOUS
<1>1. Out \in SUBSET Nat
  OBVIOUS
<1>2. PICK i \in Out : \A m \in Out : i <= m
  <2> HIDE DEF Out
  <2> QED BY <1>1, LeastNumber
<1>3. i \in 1 .. n /\ i - 1 \in 0 .. n /\ i - 1 \in T
  BY <1>2
<1> QED BY <1>2, <1>3

-----------------------------------------------------------------------------
(* Sums over credentials.                                                  *)

\* What n adds to the sum of f over S.
Part(f, S, n) == IF n \in S THEN f[n] ELSE 0

Upto(f, S) ==
  CHOOSE u : u = [n \in 0 .. N |-> IF n = 0 THEN 0 ELSE u[n - 1] + (IF n \in S THEN f[n] ELSE 0)]

LEMMA TotalIs ==
  ASSUME NEW f, NEW S
  PROVE  Total(f, S) = Upto(f, S)[N]
BY Zenon DEF Total, Upto

LEMMA UptoIs ==
  ASSUME NEW f, NEW S
  PROVE  /\ Upto(f, S)[0] = 0
         /\ \A n \in 1 .. N : Upto(f, S)[n] = Upto(f, S)[n - 1] + Part(f, S, n)
<1> DEFINE e(u, n) == IF n = 0 THEN 0 ELSE u[n - 1] + (IF n \in S THEN f[n] ELSE 0)
           Solves(u, m) == u = [n \in 0 .. m |-> e(u, n)]
           Solved == {m \in 0 .. N : \E u : Solves(u, m)}
<1>1. N \in Nat
  BY Configured
<1>2. 0 \in Solved
  <2> DEFINE z == [n \in 0 .. 0 |-> 0]
  <2>1. Solves(z, 0)
    OBVIOUS
  <2> HIDE DEF Solves, z
  <2> QED BY <1>1, <2>1
<1>3. ASSUME NEW m \in 1 .. N, m - 1 \in Solved
      PROVE  m \in Solved
  <2>1. PICK u : Solves(u, m - 1)
    BY <1>3
  <2> DEFINE g == [n \in 0 .. m |-> e(u, n)]
  <2>2. \A n \in 0 .. m : e(g, n) = e(u, n)
    <3> TAKE n \in 0 .. m
    <3>1. ASSUME n # 0
          PROVE  g[n - 1] = u[n - 1]
      <4>1. n - 1 \in 0 .. m - 1 /\ n - 1 \in 0 .. m
        BY <1>1, <3>1
      <4> HIDE DEF e
      <4>2. u[n - 1] = e(u, n - 1)
        BY <2>1, <4>1, Zenon
      <4>3. g[n - 1] = e(u, n - 1)
        BY <4>1, Zenon
      <4> QED BY <4>2, <4>3
    <3> HIDE DEF g
    <3> QED BY <3>1
  <2>3. Solves(g, m)
    <3> HIDE DEF e
    <3> QED BY <2>2, Zenon
  <2> QED
    <3> HIDE DEF Solves
    <3> QED BY <2>3
<1>4. N \in Solved
  <2> HIDE DEF Solved
  <2>1. 0 .. N \subseteq Solved
    BY <1>1, <1>2, <1>3, Counting
  <2> QED BY <1>1, <2>1
<1>5. \E u : u = [n \in 0 .. N |-> e(u, n)]
  <2> HIDE DEF e
  <2> QED BY <1>4, Zenon
<1>6. Upto(f, S) = [n \in 0 .. N |-> e(Upto(f, S), n)]
  BY <1>5, Zenon DEF Upto
<1>7. \A n \in 0 .. N : Upto(f, S)[n] = e(Upto(f, S), n)
  <2> HIDE DEF e
  <2> QED BY <1>6, Zenon
<1> QED BY <1>1, <1>7 DEF Part

LEMMA UptoInt ==
  ASSUME NEW f \in [Candidates -> Int], NEW S \in SUBSET Candidates
  PROVE  /\ \A n \in 0 .. N : Upto(f, S)[n] \in Int
         /\ \A n \in 1 .. N : Part(f, S, n) \in Int
         /\ Total(f, S) \in Int
<1>1. N \in Nat
  BY Configured
<1>2. \A n \in 1 .. N : Part(f, S, n) \in Int
  BY DEF Part, Candidates
<1> DEFINE T == {n \in Nat : Upto(f, S)[n] \in Int}
<1>3. 0 \in T /\ \A i \in 1 .. N : i - 1 \in T => i \in T
  BY <1>1, <1>2, UptoIs
<1>4. 0 .. N \subseteq T
  <2> HIDE DEF T
  <2> QED BY <1>1, <1>3, Counting
<1> QED BY <1>1, <1>2, <1>4, TotalIs

\* Sums add up, part by part.
LEMMA Additive ==
  ASSUME NEW f \in [Candidates -> Int], NEW S \in SUBSET Candidates,
         NEW g \in [Candidates -> Int], NEW Q \in SUBSET Candidates,
         NEW h \in [Candidates -> Int], NEW R \in SUBSET Candidates,
         \A n \in Candidates : Part(f, S, n) = Part(g, Q, n) + Part(h, R, n)
  PROVE  Total(f, S) = Total(g, Q) + Total(h, R)
<1>1. N \in Nat /\ \A n \in 1 .. N : Part(f, S, n) = Part(g, Q, n) + Part(h, R, n)
  BY Configured DEF Candidates
<1> DEFINE T == {n \in 0 .. N : Upto(f, S)[n] = Upto(g, Q)[n] + Upto(h, R)[n]}
<1>2. 0 \in T
  BY <1>1, UptoIs
<1>3. ASSUME NEW i \in 1 .. N, i - 1 \in T
      PROVE  i \in T
  <2>1. /\ Upto(f, S)[i] = Upto(f, S)[i - 1] + Part(f, S, i)
        /\ Upto(g, Q)[i] = Upto(g, Q)[i - 1] + Part(g, Q, i)
        /\ Upto(h, R)[i] = Upto(h, R)[i - 1] + Part(h, R, i)
    BY UptoIs
  <2>2. i - 1 \in 0 .. N
    BY <1>1
  <2>3. /\ Upto(f, S)[i - 1] \in Int /\ Upto(g, Q)[i - 1] \in Int /\ Upto(h, R)[i - 1] \in Int
        /\ Part(f, S, i) \in Int /\ Part(g, Q, i) \in Int /\ Part(h, R, i) \in Int
    BY <2>2, UptoInt
  <2> QED BY <1>1, <1>3, <2>1, <2>3
<1>4. 0 .. N \subseteq T
  <2> HIDE DEF T
  <2> QED BY <1>1, <1>2, <1>3, Counting
<1> QED BY <1>1, <1>4, TotalIs

\* And compare part by part.
LEMMA Ordered ==
  ASSUME NEW f \in [Candidates -> Int], NEW S \in SUBSET Candidates,
         NEW g \in [Candidates -> Int], NEW Q \in SUBSET Candidates,
         \A n \in Candidates : Part(f, S, n) <= Part(g, Q, n)
  PROVE  Total(f, S) <= Total(g, Q)
<1>1. N \in Nat /\ \A n \in 1 .. N : Part(f, S, n) <= Part(g, Q, n)
  BY Configured DEF Candidates
<1> DEFINE T == {n \in 0 .. N : Upto(f, S)[n] <= Upto(g, Q)[n]}
<1>2. 0 \in T
  BY <1>1, UptoIs
<1>3. ASSUME NEW i \in 1 .. N, i - 1 \in T
      PROVE  i \in T
  <2>1. /\ Upto(f, S)[i] = Upto(f, S)[i - 1] + Part(f, S, i)
        /\ Upto(g, Q)[i] = Upto(g, Q)[i - 1] + Part(g, Q, i)
    BY UptoIs
  <2>2. i - 1 \in 0 .. N
    BY <1>1
  <2>3. /\ Upto(f, S)[i - 1] \in Int /\ Upto(g, Q)[i - 1] \in Int
        /\ Part(f, S, i) \in Int /\ Part(g, Q, i) \in Int
    BY <2>2, UptoInt
  <2> QED BY <1>1, <1>3, <2>1, <2>3
<1>4. 0 .. N \subseteq T
  <2> HIDE DEF T
  <2> QED BY <1>1, <1>2, <1>3, Counting
<1> QED BY <1>1, <1>4, TotalIs

LEMMA NoneIsZero ==
  ASSUME NEW f \in [Candidates -> Int]
  PROVE  Total(f, {}) = 0
<1>1. Total(f, {}) = Total(f, {}) + Total(f, {})
  BY Additive DEF Part
<1> QED BY <1>1, UptoInt

LEMMA OneAlone ==
  ASSUME NEW f \in [Candidates -> Int], NEW c \in Candidates
  PROVE  Total(f, {c}) = f[c]
<1>1. N \in Nat /\ c \in 1 .. N /\ f[c] \in Int
  BY Configured DEF Candidates
<1> DEFINE T == {n \in 0 .. N : Upto(f, {c})[n] = IF n < c THEN 0 ELSE f[c]}
<1>2. 0 \in T
  BY <1>1, UptoIs
<1>3. ASSUME NEW i \in 1 .. N, i - 1 \in T
      PROVE  i \in T
  <2>1. Upto(f, {c})[i] = Upto(f, {c})[i - 1] + (IF i = c THEN f[c] ELSE 0)
    BY UptoIs DEF Part
  <2> QED BY <1>1, <1>3, <2>1
<1>4. 0 .. N \subseteq T
  <2> HIDE DEF T
  <2> QED BY <1>1, <1>2, <1>3, Counting
<1> QED BY <1>1, <1>4, TotalIs

Same(v) == [c \in Candidates |-> v]
Size(S) == Total(Same(1), S)

LEMMA SameTotal ==
  ASSUME NEW v \in Int, NEW S \in SUBSET Candidates
  PROVE  Total(Same(v), S) = Size(S) * v
<1>1. N \in Nat /\ Same(v) \in [Candidates -> Int] /\ Same(1) \in [Candidates -> Int]
  BY Configured DEF Same
<1> DEFINE T == {n \in 0 .. N : Upto(Same(v), S)[n] = Upto(Same(1), S)[n] * v}
<1>2. 0 \in T
  BY <1>1, UptoIs
<1>3. ASSUME NEW i \in 1 .. N, i - 1 \in T
      PROVE  i \in T
  <2> DEFINE a == Upto(Same(1), S)[i - 1]
  <2>1. /\ Upto(Same(v), S)[i] = a * v + (IF i \in S THEN v ELSE 0)
        /\ Upto(Same(1), S)[i] = a + (IF i \in S THEN 1 ELSE 0)
    <3>1. /\ Upto(Same(v), S)[i] = Upto(Same(v), S)[i - 1] + Part(Same(v), S, i)
          /\ Upto(Same(1), S)[i] = Upto(Same(1), S)[i - 1] + Part(Same(1), S, i)
      BY UptoIs
    <3>2. Upto(Same(v), S)[i - 1] = Upto(Same(1), S)[i - 1] * v
      BY <1>3
    <3>3. /\ Part(Same(v), S, i) = IF i \in S THEN v ELSE 0
          /\ Part(Same(1), S, i) = IF i \in S THEN 1 ELSE 0
      BY DEF Part, Same, Candidates
    <3> QED BY <3>1, <3>2, <3>3
  <2>2. a \in Int
    BY <1>1, UptoInt
  <2> HIDE DEF a
  <2>3. (a + 1) * v = a * v + v /\ (a + 0) * v = a * v + 0
    BY <2>2
  <2> QED BY <2>1, <2>3
<1>4. 0 .. N \subseteq T
  <2> HIDE DEF T
  <2> QED BY <1>1, <1>2, <1>3, Counting
<1> QED BY <1>1, <1>4, TotalIs DEF Size


-----------------------------------------------------------------------------
(* Arithmetic.                                                             *)

LEMMA Cancels ==
  ASSUME NEW n \in Nat \ {0}, NEW a \in Int, NEW b \in Int, n * a <= n * b
  PROVE  a <= b
<1> SUFFICES ASSUME b < a PROVE FALSE
  OBVIOUS
<1> DEFINE d == a - b
<1>1. d \in Nat /\ d >= 1 /\ a = b + d
  OBVIOUS
<1> HIDE DEF d
<1>2. n * a = n * b + n * d
  BY <1>1
<1>3. n * d >= n * 1
  BY <1>1
<1>4. n * b \in Int /\ n * d \in Int
  BY <1>1
<1> QED BY <1>2, <1>3, <1>4

LEMMA Times ==
  ASSUME NEW n \in Nat, NEW a \in Int, NEW b \in Int, a <= b
  PROVE  n * a <= n * b
<1> DEFINE d == b - a
<1>1. d \in Nat /\ b = a + d
  OBVIOUS
<1> HIDE DEF d
<1>2. n * b = n * a + n * d /\ n * d >= 0 /\ n * a \in Int
  BY <1>1
<1> QED BY <1>2

\* Twice the most that k counters can come to, if q is twice the number of
\* credentials and disturbed selections.
Reach(a, q, k) == a * (k * (q - k))

LEMMA ReachGrows ==
  ASSUME NEW a \in Nat, NEW q \in Int, NEW j \in Nat, NEW k \in Nat, j <= k, 2 * k <= q
  PROVE  Reach(a, q, j) <= Reach(a, q, k) /\ Reach(a, q, j) \in Nat
<1> DEFINE d == k - j
<1>1. d \in Nat /\ k = j + d
  OBVIOUS
<1> HIDE DEF d
<1>2. k * (q - k) = j * (q - j) + d * (q - k - j)
  BY <1>1
<1>3. q - k - j \in Nat /\ q - j \in Nat
  OBVIOUS
<1>4. d * (q - k - j) \in Nat /\ j * (q - j) \in Nat
  BY <1>1, <1>3
<1>5. j * (q - j) <= k * (q - k) /\ k * (q - k) \in Nat
  BY <1>2, <1>4
<1>6. a * (j * (q - j)) <= a * (k * (q - k))
  BY <1>4, <1>5, Times
<1>7. a * (j * (q - j)) \in Nat
  BY <1>4
<1> QED BY <1>6, <1>7 DEF Reach

\* k counters that are at most that of the winner, who is not one of them.
LEMMA WinnerAbove ==
  ASSUME NEW a \in Nat, NEW q \in Int, NEW k \in Nat \ {0},
         NEW x \in Int, NEW y \in Int, x <= k * y,
         2 * (x + y) <= Reach(a, q, k + 1) + 2 * a
  PROVE  2 * x <= Reach(a, q, k)
<1>1. (k + 1) * x <= k * (x + y)
  <2>1. (k + 1) * x = k * x + x /\ k * (x + y) = k * x + k * y /\ k * x \in Int /\ k * y \in Int
    OBVIOUS
  <2> QED BY <2>1
<1> DEFINE R == Reach(a, q, k + 1)
           P == Reach(a, q, k)
<1>2. R \in Int /\ P \in Int
  BY DEF Reach
<1>3. k * (2 * (x + y)) <= k * (R + 2 * a)
  <2>1. 2 * (x + y) <= R + 2 * a
    OBVIOUS
  <2> HIDE DEF R
  <2> QED BY <1>2, <2>1, Times
<1>4. (k + 1) * (2 * x) = 2 * ((k + 1) * x) /\ k * (2 * (x + y)) = 2 * (k * (x + y))
  OBVIOUS
<1>5. k * (R + 2 * a) <= (k + 1) * P
  <2>1. k * R = (k + 1) * P - (k + 1) * (k * a)
    BY DEF Reach
  <2>2. k * (2 * a) <= (k + 1) * (k * a)
    <3>1. k * a \in Nat
      OBVIOUS
    <3> DEFINE w == k * a
    <3>2. k * (2 * a) = w + w /\ (k + 1) * w = k * w + w
      OBVIOUS
    <3> HIDE DEF w
    <3>3. w \in Nat
      BY <3>1 DEF w
    <3>4. k * w = (k - 1) * w + w /\ (k - 1) * w \in Nat
      BY <3>3
    <3> QED BY <3>2, <3>3, <3>4 DEF w
  <2>3. k * (R + 2 * a) = k * R + k * (2 * a)
    <3> HIDE DEF R
    <3> QED BY <1>2
  <2>4. k * R \in Int /\ (k + 1) * P \in Int /\ (k + 1) * (k * a) \in Int /\ k * (2 * a) \in Int
    <3> HIDE DEF R, P
    <3> QED BY <1>2
  <2> HIDE DEF R, P
  <2> QED BY <2>1, <2>2, <2>3, <2>4
<1>6. (k + 1) * (2 * x) <= (k + 1) * P
  <2>1. (k + 1) * x \in Int /\ k * (x + y) \in Int /\ k * (R + 2 * a) \in Int /\ (k + 1) * P \in Int
    <3> HIDE DEF R, P
    <3> QED BY <1>2
  <2> HIDE DEF R, P
  <2> QED BY <1>1, <1>3, <1>4, <1>5, <2>1
<1> HIDE DEF P, R
<1>7. k + 1 \in Nat \ {0} /\ 2 * x \in Int
  OBVIOUS
<1>8. 2 * x <= P
  BY <1>2, <1>6, <1>7, Cancels
<1> QED BY <1>8 DEF P

\* k counters, the winner's and those of rest; m others have at most the
\* winner's counter, and all of them were no less than their reach.
LEMMA WinnerPays ==
  ASSUME NEW a \in Nat, NEW q \in Int, NEW k \in Nat \ {0}, NEW m \in Nat,
         NEW rest \in Int, NEW y \in Int, NEW others \in Int, NEW paid \in Nat, NEW gain \in Nat,
         others <= m * y, paid <= a, gain <= paid,
         2 * (rest + y + others - paid) >= -Reach(a, q, k + m),
         2 * (rest - gain) >= -Reach(a, q, k - 1)
  PROVE  2 * (rest + y - paid) >= -Reach(a, q, k)
<1> DEFINE P == Reach(a, q, k)
           L == Reach(a, q, k + m)
           R == Reach(a, q, k - 1)
           s == rest + y - paid
<1>1. P \in Int /\ L \in Int /\ R \in Int /\ s \in Int
  BY DEF Reach
<1>2. L + m * R = (m + 1) * P - (m * (m + 1)) * a
  BY DEF Reach
<1>3. (m * (m + 1)) * a >= (m * 2) * a
  <2>1. m * (m + 1) >= m * 2
    <3>1. CASE m = 0
      BY <3>1
    <3>2. CASE m # 0
      <4>1. 2 <= m + 1
        BY <3>2
      <4> QED BY <4>1, Times
    <3> QED BY <3>1, <3>2
  <2>2. m * (m + 1) \in Int /\ m * 2 \in Int
    OBVIOUS
  <2>3. a * (m * 2) <= a * (m * (m + 1))
    BY <2>1, <2>2, Times
  <2> QED BY <2>3
<1>4. (m + 1) * s >= rest + y + others - paid + m * (rest - gain) - m * a
  <2>1. (m + 1) * s = s + m * rest + m * y - m * paid
    OBVIOUS
  <2>2. m * paid <= m * a /\ m * gain >= 0
    BY Times
  <2>3. m * (rest - gain) = m * rest - m * gain
    OBVIOUS
  <2>4. m * rest \in Int /\ m * y \in Int /\ m * paid \in Int /\ m * a \in Int /\ m * gain \in Int
    OBVIOUS
  <2> DEFINE mr == m * rest
             my == m * y
             mp == m * paid
             ma == m * a
             mg == m * gain
  <2> HIDE DEF mr, my, mp, ma, mg
  <2> QED BY <2>1, <2>2, <2>3, <2>4 DEF mr, my, mp, ma, mg
<1>5. (m + 1) * (2 * s) >= (m + 1) * (-P)
  <2>1. m * (2 * (rest - gain)) >= m * (-R)
    <3>1. -R <= 2 * (rest - gain)
      OBVIOUS
    <3> HIDE DEF R
    <3>2. -R \in Int /\ 2 * (rest - gain) \in Int
      BY <1>1
    <3> QED BY <3>1, <3>2, Times
  <2>2. m * (2 * (rest - gain)) = 2 * (m * (rest - gain)) /\ m * (-R) = -(m * R)
    <3> HIDE DEF R
    <3> QED BY <1>1
  <2>3. (m + 1) * (2 * s) = 2 * ((m + 1) * s) /\ (m + 1) * (-P) = -((m + 1) * P)
    <3> HIDE DEF P
    <3> QED BY <1>1
  <2>4. (m * 2) * a = 2 * (m * a) /\ m * a \in Int /\ (m * (m + 1)) * a \in Int
    OBVIOUS
  <2>5. m * (rest - gain) \in Int /\ m * R \in Int /\ (m + 1) * s \in Int /\ (m + 1) * P \in Int
    <3> HIDE DEF R, P, s
    <3> QED BY <1>1
  <2> DEFINE c1 == (m + 1) * s
             c2 == m * (rest - gain)
             c3 == m * a
             c4 == (m * (m + 1)) * a
             c5 == (m + 1) * P
             c6 == m * R
  <2>6. /\ c1 \in Int /\ c2 \in Int /\ c3 \in Int /\ c4 \in Int /\ c5 \in Int /\ c6 \in Int
        /\ L \in Int
        /\ c1 >= rest + y + others - paid + c2 - c3
        /\ 2 * (rest + y + others - paid) >= -L
        /\ 2 * c2 >= -c6
        /\ L + c6 = c5 - c4
        /\ c4 >= 2 * c3
    BY <1>1, <1>2, <1>3, <1>4, <2>1, <2>2, <2>4, <2>5
  <2> HIDE DEF c1, c2, c3, c4, c5, c6, L
  <2>7. 2 * c1 >= -c5
    BY <2>6
  <2> QED BY <2>3, <2>7 DEF c1, c5
<1> HIDE DEF P, s
<1>6. m + 1 \in Nat \ {0} /\ 2 * s \in Int /\ -P \in Int
  BY <1>1
<1>7. -P <= 2 * s
  BY <1>1, <1>5, <1>6, Cancels
<1> QED BY <1>7 DEF P, s


-----------------------------------------------------------------------------
(* Numbers and weights of credentials.                                     *)

LEMMA SameParts ==
  ASSUME NEW f \in [Candidates -> Int], NEW S \in SUBSET Candidates,
         NEW g \in [Candidates -> Int], NEW Q \in SUBSET Candidates,
         \A n \in Candidates : Part(f, S, n) = Part(g, Q, n)
  PROVE  Total(f, S) = Total(g, Q)
<1>1. \A n \in Candidates : Part(f, S, n) \in Int /\ Part(g, Q, n) \in Int
  BY DEF Part
<1>2. Total(f, S) <= Total(g, Q) /\ Total(g, Q) <= Total(f, S)
  <2>1. \A n \in Candidates : Part(f, S, n) <= Part(g, Q, n) /\ Part(g, Q, n) <= Part(f, S, n)
    BY <1>1
  <2> QED BY <2>1, Ordered
<1> QED BY <1>2, UptoInt

LEMMA Disjoint ==
  ASSUME NEW f \in [Candidates -> Int],
         NEW S \in SUBSET Candidates, NEW Q \in SUBSET Candidates, S \cap Q = {}
  PROVE  Total(f, S \cup Q) = Total(f, S) + Total(f, Q)
<1> DEFINE U == S \cup Q
<1>1. U \in SUBSET Candidates
  OBVIOUS
<1>2. \A n \in Candidates : Part(f, U, n) = Part(f, S, n) + Part(f, Q, n)
  BY DEF Part
<1>3. Total(f, U) = Total(f, S) + Total(f, Q)
  <2> HIDE DEF U
  <2> QED BY <1>1, <1>2, Additive, SMTT(60)
<1> QED BY <1>3

\* What is nowhere negative grows with the set.
LEMMA Grows ==
  ASSUME NEW f \in [Candidates -> Nat],
         NEW S \in SUBSET Candidates, NEW Q \in SUBSET Candidates, S \subseteq Q
  PROVE  Total(f, S) \in Nat /\ Total(f, S) <= Total(f, Q)
<1>0. f \in [Candidates -> Int] /\ {} \in SUBSET Candidates
  OBVIOUS
<1>1. \A n \in Candidates : Part(f, {}, n) <= Part(f, S, n) /\ Part(f, S, n) <= Part(f, Q, n)
  BY DEF Part
<1>2. Total(f, {}) <= Total(f, S) /\ Total(f, S) <= Total(f, Q)
  BY <1>0, <1>1, Ordered
<1> QED BY <1>0, <1>2, NoneIsZero, UptoInt

LEMMA SizeIs ==
  ASSUME NEW S \in SUBSET Candidates
  PROVE  /\ Size(S) \in Nat /\ Size(S) <= N /\ (S # {} => Size(S) # 0)
         /\ \A Q \in SUBSET S : Size(Q) \in Nat /\ Size(Q) <= Size(S)
<1>1. N \in Nat /\ Same(1) \in [Candidates -> Nat] /\ Same(1) \in [Candidates -> Int]
  BY Configured DEF Same
<1>2. \A Q \in SUBSET S : Size(Q) \in Nat /\ Size(Q) <= Size(S)
  BY <1>1, Grows DEF Size
<1>3. Size(S) <= N
  <2> DEFINE T == {n \in 0 .. N : Upto(Same(1), S)[n] <= n}
  <2>1. 0 \in T
    BY <1>1, UptoIs
  <2>2. ASSUME NEW i \in 1 .. N, i - 1 \in T
        PROVE  i \in T
    <3>1. Upto(Same(1), S)[i] = Upto(Same(1), S)[i - 1] + Part(Same(1), S, i)
      BY UptoIs
    <3>2. Part(Same(1), S, i) \in {0, 1}
      BY DEF Part, Same, Candidates
    <3>3. Upto(Same(1), S)[i - 1] \in Int /\ i - 1 \in 0 .. N
      BY <1>1, UptoInt
    <3> QED BY <1>1, <2>2, <3>1, <3>2, <3>3
  <2>3. 0 .. N \subseteq T
    <3> HIDE DEF T
    <3> QED BY <1>1, <2>1, <2>2, Counting
  <2> QED BY <1>1, <2>3, TotalIs DEF Size
<1>4. ASSUME NEW c \in S
      PROVE  Size(S) # 0
  <2>1. Size({c}) = 1
    <3>1. Total(Same(1), {c}) = Same(1)[c]
      BY <1>1, OneAlone
    <3> QED BY <3>1 DEF Size, Same
  <2> QED BY <1>2, <2>1
<1> QED BY <1>2, <1>3, <1>4

LEMMA SizeOne ==
  ASSUME NEW c \in Candidates, NEW S \in SUBSET Candidates, c \notin S
  PROVE  Size({c}) = 1 /\ Size(S \cup {c}) = Size(S) + 1 /\ Size({}) = 0
<1>1. Same(1) \in [Candidates -> Int]
  BY DEF Same
<1>2. Total(Same(1), {c}) = 1 /\ Total(Same(1), {}) = 0
  <2>1. Total(Same(1), {c}) = Same(1)[c]
    BY <1>1, OneAlone
  <2> QED BY <1>1, <2>1, NoneIsZero DEF Same
<1>3. Total(Same(1), S \cup {c}) = Total(Same(1), S) + Total(Same(1), {c})
  BY <1>1, Disjoint
<1> QED BY <1>2, <1>3 DEF Size

LEMMA WeightIs ==
  ASSUME NEW S \in SUBSET Candidates
  PROVE  /\ TotalWeight(S) \in Nat /\ TotalWeight(S) <= AllWeight
         /\ AllWeight \in Nat
         /\ \A Q \in SUBSET S : TotalWeight(Q) <= TotalWeight(S)
         /\ \A c \in S : Weight[c] <= TotalWeight(S)
         /\ \A c, d \in S : c # d => Weight[c] < TotalWeight(S)
<1>1. Weight \in [Candidates -> Nat] /\ Weight \in [Candidates -> Int]
  BY Configured
<1>2. /\ TotalWeight(S) \in Nat /\ TotalWeight(S) <= AllWeight
      /\ AllWeight \in Nat
      /\ \A Q \in SUBSET S : TotalWeight(Q) <= TotalWeight(S)
  BY <1>1, Grows DEF TotalWeight, AllWeight
<1>3. \A c \in S : Weight[c] <= TotalWeight(S)
  <2> TAKE c \in S
  <2>1. TotalWeight({c}) = Weight[c]
    BY <1>1, OneAlone DEF TotalWeight
  <2> QED BY <1>2, <2>1
<1>4. ASSUME NEW c \in S, NEW d \in S, c # d
      PROVE  Weight[c] < TotalWeight(S)
  <2>1. TotalWeight({c} \cup {d}) = Weight[c] + Weight[d]
    <3>1. Total(Weight, {c} \cup {d}) = Total(Weight, {c}) + Total(Weight, {d})
      BY <1>1, <1>4, Disjoint
    <3>2. Total(Weight, {c}) = Weight[c] /\ Total(Weight, {d}) = Weight[d]
      BY <1>1, OneAlone
    <3> QED BY <3>1, <3>2 DEF TotalWeight
  <2>2. {c} \cup {d} \in SUBSET S
    OBVIOUS
  <2>3. Weight[d] > 0 /\ Weight[c] \in Nat /\ Weight[d] \in Nat
    BY Configured
  <2>4. TotalWeight({c} \cup {d}) <= TotalWeight(S)
    BY <1>2, <2>2
  <2> QED BY <1>2, <2>1, <2>3, <2>4
<1> QED BY <1>2, <1>3, <1>4

-----------------------------------------------------------------------------
(* The counters of every set of credentials stay within its reach.         *)

Within(f, q) ==
  \A S \in SUBSET Candidates :
    /\ -Reach(AllWeight, q, Size(S)) <= 2 * Total(f, S)
    /\ 2 * Total(f, S) <= Reach(AllWeight, q, Size(S))

LEMMA LiveSuffices ==
  ASSUME NEW z \in [Candidates -> Int], NEW L \in SUBSET Candidates,
         \A d \in Candidates \ L : z[d] = 0,
         NEW q \in Int, 2 * N <= q,
         \A S \in SUBSET L :
           /\ -Reach(AllWeight, q, Size(S)) <= 2 * Total(z, S)
           /\ 2 * Total(z, S) <= Reach(AllWeight, q, Size(S))
  PROVE  Within(z, q)
<1> SUFFICES ASSUME NEW S \in SUBSET Candidates
             PROVE  /\ -Reach(AllWeight, q, Size(S)) <= 2 * Total(z, S)
                    /\ 2 * Total(z, S) <= Reach(AllWeight, q, Size(S))
  BY DEF Within
<1> DEFINE T == S \cap L
           a == AllWeight
<1>1. T \in SUBSET L /\ T \in SUBSET S /\ T \in SUBSET Candidates
  OBVIOUS
<1>2. Total(z, S) = Total(z, T)
  <2>1. \A n \in Candidates : Part(z, S, n) = Part(z, T, n)
    BY DEF Part
  <2> HIDE DEF T
  <2> QED BY <1>1, <2>1, SameParts
<1>3. Size(T) \in Nat /\ Size(S) \in Nat /\ Size(T) <= Size(S) /\ Size(S) <= N /\ N \in Nat
  <2> HIDE DEF T
  <2> QED BY <1>1, SizeIs, Configured
<1>4. a \in Nat /\ Total(z, S) \in Int
  BY WeightIs, UptoInt
<1> HIDE DEF a, T
<1>5. 2 * Size(S) <= q
  BY <1>3
<1>6. Reach(a, q, Size(T)) <= Reach(a, q, Size(S)) /\ Reach(a, q, Size(T)) \in Nat
  BY <1>3, <1>4, <1>5, ReachGrows
<1>7. Reach(a, q, Size(S)) \in Int
  BY <1>3, <1>4 DEF Reach
<1>8. /\ -Reach(a, q, Size(T)) <= 2 * Total(z, T)
      /\ 2 * Total(z, T) <= Reach(a, q, Size(T))
  BY <1>1 DEF a
<1>9. /\ -Reach(a, q, Size(S)) <= 2 * Total(z, S)
      /\ 2 * Total(z, S) <= Reach(a, q, Size(S))
  BY <1>2, <1>4, <1>6, <1>7, <1>8
<1> QED BY <1>9 DEF a

\* The live credentials have gained their weight.
Gained(f, y, L) == \A d \in Candidates : y[d] = IF d \in L THEN f[d] + Weight[d] ELSE 0

LEMMA GainedTotal ==
  ASSUME NEW f \in [Candidates -> Int], NEW y \in [Candidates -> Int],
         NEW L \in SUBSET Candidates, Gained(f, y, L), NEW S \in SUBSET L
  PROVE  Total(y, S) = Total(f, S) + TotalWeight(S)
<1>1. Weight \in [Candidates -> Int] /\ S \in SUBSET Candidates
  BY Configured
<1>2. \A n \in Candidates : Part(y, S, n) = Part(f, S, n) + Part(Weight, S, n)
  BY DEF Gained, Part
<1> QED BY <1>1, <1>2, Additive DEF TotalWeight

\* One of them has paid.
Paid(y, z, c, w) == \A d \in Candidates : z[d] = IF d = c THEN y[d] - w ELSE y[d]

LEMMA PaidTotal ==
  ASSUME NEW y \in [Candidates -> Int], NEW z \in [Candidates -> Int],
         NEW c \in Candidates, NEW w \in Int, Paid(y, z, c, w), NEW S \in SUBSET Candidates
  PROVE  Total(z, S) = Total(y, S) - (IF c \in S THEN w ELSE 0)
<1>1. CASE c \notin S
  <2>1. \A n \in Candidates : Part(z, S, n) = Part(y, S, n)
    BY <1>1 DEF Part, Paid
  <2> QED BY <1>1, <2>1, SameParts, UptoInt
<1>2. CASE c \in S
  <2>1. Same(w) \in [Candidates -> Int] /\ {c} \in SUBSET Candidates
    BY DEF Same
  <2>2. \A n \in Candidates : Part(y, S, n) = Part(z, S, n) + Part(Same(w), {c}, n)
    BY <1>2 DEF Part, Paid, Same
  <2>3. Total(y, S) = Total(z, S) + Total(Same(w), {c})
    <3> DEFINE h == Same(w)
               R == {c}
    <3>1. /\ h \in [Candidates -> Int] /\ R \in SUBSET Candidates
          /\ \A n \in Candidates : Part(y, S, n) = Part(z, S, n) + Part(h, R, n)
      BY <2>1, <2>2
    <3> HIDE DEF h, R
    <3>2. Total(y, S) = Total(z, S) + Total(h, R)
      BY <3>1, Additive
    <3> QED BY <3>2 DEF h, R
  <2>4. Total(Same(w), {c}) = w
    <3>1. Total(Same(w), {c}) = Same(w)[c]
      BY <2>1, OneAlone
    <3> QED BY <3>1 DEF Same
  <2> QED BY <1>2, <2>3, <2>4, UptoInt
<1> QED BY <1>1, <1>2

\* Counters that are no more than v.
LEMMA AtMost ==
  ASSUME NEW y \in [Candidates -> Int], NEW S \in SUBSET Candidates,
         NEW v \in Int, \A d \in S : y[d] <= v
  PROVE  Total(y, S) <= Size(S) * v
<1>1. Same(v) \in [Candidates -> Int]
  BY DEF Same
<1>2. \A n \in Candidates : Part(y, S, n) <= Part(Same(v), S, n)
  BY DEF Part, Same
<1>3. Total(y, S) <= Total(Same(v), S)
  BY <1>1, <1>2, Ordered
<1> QED BY <1>3, SameTotal

LEMMA SizeParts ==
  ASSUME NEW S \in SUBSET Candidates, NEW Q \in SUBSET Candidates, S \cap Q = {}
  PROVE  Size(S \cup Q) = Size(S) + Size(Q)
<1>1. Same(1) \in [Candidates -> Int]
  BY DEF Same
<1> QED BY <1>1, Disjoint DEF Size

\* A selection that TryAllowAll does not disturb, among the live credentials
\* L of which c has the highest counter.
LEMMA FairStep ==
  ASSUME NEW q \in Int, 2 * N <= q,
         NEW f \in [Candidates -> Int], NEW y \in [Candidates -> Int],
         NEW z \in [Candidates -> Int], NEW L \in SUBSET Candidates, NEW c \in L,
         Within(f, q), Gained(f, y, L), \A d \in L : y[d] <= y[c],
         Paid(y, z, c, TotalWeight(L))
  PROVE  Within(z, q)
<1> DEFINE a == AllWeight
           X(S) == Total(f, S)
           Y(S) == Total(y, S)
           Z(S) == Total(z, S)
           W(S) == TotalWeight(S)
<1>1. a \in Nat /\ c \in Candidates
  BY WeightIs
<1>2. \A S \in SUBSET L :
        /\ X(S) \in Int /\ Y(S) \in Int /\ Z(S) \in Int /\ W(S) \in Nat
        /\ W(S) <= W(L) /\ W(S) <= a /\ Size(S) \in Nat /\ Size(S) <= N
        /\ Y(S) = X(S) + W(S)
        /\ Z(S) = Y(S) - (IF c \in S THEN W(L) ELSE 0)
        /\ -Reach(a, q, Size(S)) <= 2 * X(S) /\ 2 * X(S) <= Reach(a, q, Size(S))
  <2> SUFFICES ASSUME NEW S \in SUBSET L
               PROVE  /\ X(S) \in Int /\ Y(S) \in Int /\ Z(S) \in Int /\ W(S) \in Nat
                      /\ W(S) <= W(L) /\ W(S) <= a /\ Size(S) \in Nat /\ Size(S) <= N
                      /\ Y(S) = X(S) + W(S)
                      /\ Z(S) = Y(S) - (IF c \in S THEN W(L) ELSE 0)
                      /\ -Reach(a, q, Size(S)) <= 2 * X(S) /\ 2 * X(S) <= Reach(a, q, Size(S))
    OBVIOUS
  <2>1. S \in SUBSET Candidates
    OBVIOUS
  <2>2. X(S) \in Int /\ Y(S) \in Int /\ Z(S) \in Int
    BY <2>1, UptoInt
  <2>3. W(S) \in Nat /\ W(S) <= W(L) /\ W(S) <= a /\ W(L) \in Nat
    BY <2>1, WeightIs
  <2>4. Size(S) \in Nat /\ Size(S) <= N
    BY <2>1, SizeIs
  <2>5. Y(S) = X(S) + W(S)
    BY GainedTotal
  <2>6. Z(S) = Y(S) - (IF c \in S THEN W(L) ELSE 0)
    <3>1. W(L) \in Int
      BY <2>3
    <3> QED BY <1>1, <2>1, <3>1, PaidTotal
  <2>7. -Reach(a, q, Size(S)) <= 2 * X(S) /\ 2 * X(S) <= Reach(a, q, Size(S))
    BY <2>1 DEF Within
  <2> QED BY <2>2, <2>3, <2>4, <2>5, <2>6, <2>7
<1>3. \A S \in SUBSET L :
        /\ -Reach(a, q, Size(S)) <= 2 * Z(S)
        /\ 2 * Z(S) <= Reach(a, q, Size(S))
  <2> TAKE S \in SUBSET L
  <2> DEFINE k == Size(S)
  <2>1. /\ X(S) \in Int /\ Y(S) \in Int /\ Z(S) \in Int /\ W(S) \in Nat /\ k \in Nat
        /\ Y(S) = X(S) + W(S) /\ W(S) <= W(L)
        /\ Z(S) = Y(S) - (IF c \in S THEN W(L) ELSE 0)
        /\ -Reach(a, q, k) <= 2 * X(S) /\ 2 * X(S) <= Reach(a, q, k)
    BY <1>2
  <2>2. W(L) \in Nat /\ W(L) <= a /\ Reach(a, q, k) \in Int
    BY <1>1, <1>2, <2>1 DEF Reach
  <2>3. CASE S = {}
    <3>1. Z(S) = 0 /\ k = 0
      <4>1. Z({}) = 0
        BY NoneIsZero
      <4>2. Size({}) = 0
        <5>1. {} \in SUBSET Candidates /\ c \notin {}
          OBVIOUS
        <5> QED BY <1>1, <5>1, SizeOne
      <4> QED BY <2>3, <4>1, <4>2
    <3>2. Reach(a, q, 0) = 0
      BY <1>1 DEF Reach
    <3> QED BY <3>1, <3>2
  <2>4. CASE S # {} /\ c \notin S
    <3>1. k # 0
      BY <2>4, SizeIs
    <3> DEFINE V == S \cup {c}
    <3>2. V \in SUBSET L /\ {c} \in SUBSET Candidates /\ S \cap {c} = {}
      BY <1>1, <2>4
    <3>3. Y(V) = Y(S) + y[c]
      <4>1. Y({c}) = y[c]
        BY <1>1, OneAlone
      <4>2. Y(V) = Y(S) + Y({c})
        BY <3>2, Disjoint
      <4> QED BY <4>1, <4>2
    <3>4. Size(V) = k + 1
      BY <1>1, <2>4, SizeOne
    <3>5. Y(V) = X(V) + W(V) /\ W(V) <= a /\ 2 * X(V) <= Reach(a, q, Size(V)) /\ X(V) \in Int /\ W(V) \in Nat
      <4> HIDE DEF V, a, X, Y, Z, W
      <4> QED BY <1>2, <3>2
    <3>6. Y(S) <= k * y[c]
      <4>1. \A d \in S : y[d] <= y[c]
        OBVIOUS
      <4> QED BY <1>1, <4>1, AtMost
    <3>7. y[c] \in Int /\ Reach(a, q, k + 1) \in Int
      BY <1>1, <2>1 DEF Reach
    <3> HIDE DEF a, X, Y, Z, W, V, k
    <3>8. 2 * (Y(S) + y[c]) <= Reach(a, q, k + 1) + 2 * a
      BY <1>1, <2>1, <3>3, <3>4, <3>5, <3>7
    <3>9. 2 * Y(S) <= Reach(a, q, k)
      <4>1. k \in Nat \ {0}
        BY <2>1, <3>1
      <4> QED BY <1>1, <2>1, <3>6, <3>7, <3>8, <4>1, WinnerAbove
    <3>10. Z(S) = Y(S)
      BY <2>1, <2>4
    <3>11. -Reach(a, q, k) <= 2 * Y(S)
      BY <2>1, <2>2
    <3>12. -Reach(a, q, k) <= 2 * Z(S) /\ 2 * Z(S) <= Reach(a, q, k)
      BY <3>9, <3>10, <3>11
    <3> QED BY <3>12 DEF k
  <2>5. CASE c \in S
    <3> DEFINE R == S \ {c}
               D == L \ S
               m == Size(D)
    <3>1. /\ R \in SUBSET L /\ D \in SUBSET L /\ R \in SUBSET Candidates /\ D \in SUBSET Candidates
          /\ S \in SUBSET Candidates /\ R \cup {c} = S /\ c \notin R /\ R \cap {c} = {}
          /\ S \cup D = L /\ S \cap D = {} /\ {c} \in SUBSET Candidates
      BY <1>1, <2>5
    <3> HIDE DEF R, D, a, X, Y, Z, W
    <3>2. Y(S) = Y(R) + y[c]
      <4>1. Y({c}) = y[c]
        BY <1>1, OneAlone DEF Y
      <4>2. Y(R \cup {c}) = Y(R) + Y({c})
        BY <3>1, Disjoint DEF Y
      <4> QED BY <3>1, <4>1, <4>2
    <3>3. k = Size(R) + 1
      <4>1. Size(R \cup {c}) = Size(R) + 1
        BY <1>1, <3>1, SizeOne
      <4> QED BY <3>1, <4>1
    <3>4. Y(L) = Y(S) + Y(D) /\ Size(L) = k + m
      <4>1. Y(S \cup D) = Y(S) + Y(D)
        BY <3>1, Disjoint DEF Y
      <4>2. Size(S \cup D) = Size(S) + Size(D)
        BY <3>1, SizeParts
      <4> QED BY <3>1, <4>1, <4>2
    <3>5. Y(D) <= m * y[c]
      <4>1. \A d \in D : y[d] <= y[c]
        BY <3>1
      <4> QED BY <1>1, <3>1, <4>1, AtMost DEF Y
    <3>6. /\ X(R) \in Int /\ Y(R) \in Int /\ W(R) \in Nat /\ W(R) <= W(L) /\ Y(R) = X(R) + W(R)
          /\ -Reach(a, q, Size(R)) <= 2 * X(R) /\ Size(R) \in Nat
      BY <1>2, <3>1
    <3>7. Y(D) \in Int /\ m \in Nat
      BY <1>2, <3>1
    <3>8. Y(L) = X(L) + W(L) /\ X(L) \in Int /\ -Reach(a, q, Size(L)) <= 2 * X(L)
      BY <1>2
    <3>9. y[c] \in Int
      BY <1>1
    <3> HIDE DEF m, k
    <3>10. k \in Nat \ {0} /\ k - 1 = Size(R)
      BY <2>1, <3>3, <3>6
    <3>11. Reach(a, q, k + m) \in Int /\ Reach(a, q, k - 1) \in Int
      BY <1>1, <3>7, <3>10 DEF Reach
    <3>12. 2 * (Y(R) + y[c] + Y(D) - W(L)) >= -Reach(a, q, k + m)
      BY <2>2, <3>2, <3>4, <3>6, <3>7, <3>8, <3>9, <3>11
    <3>13. 2 * (Y(R) - W(R)) >= -Reach(a, q, k - 1)
      BY <3>6, <3>10, <3>11
    <3>14. 2 * (Y(R) + y[c] - W(L)) >= -Reach(a, q, k)
      BY <1>1, <2>2, <3>5, <3>6, <3>7, <3>9, <3>10, <3>12, <3>13, WinnerPays
    <3>15. Z(S) = Y(R) + y[c] - W(L)
      <4>1. Z(S) = Y(S) - W(L)
        BY <2>1, <2>5, Zenon
      <4>2. Y(S) \in Int /\ Z(S) \in Int /\ W(L) \in Int
        BY <2>1, <2>2
      <4> QED BY <3>2, <3>6, <3>9, <4>1, <4>2
    <3>16. 2 * Z(S) <= Reach(a, q, k)
      BY <2>1, <2>2, <2>5
    <3>17. -Reach(a, q, k) <= 2 * Z(S)
      BY <2>1, <2>2, <3>14, <3>15
    <3> QED BY <3>16, <3>17 DEF k
  <2> QED BY <2>3, <2>4, <2>5
<1>4. \A d \in Candidates \ L : z[d] = 0
  BY DEF Gained, Paid
<1> QED BY <1>3, <1>4, LiveSuffices

\* A selection that TryAllowAll disturbs: whoever of the live credentials pays,
\* if anybody does.
LEMMA DisturbedStep ==
  ASSUME NEW q \in Int, 2 * N <= q,
         NEW f \in [Candidates -> Int], NEW y \in [Candidates -> Int],
         NEW z \in [Candidates -> Int], NEW L \in SUBSET Candidates, NEW c \in L,
         Within(f, q), Gained(f, y, L),
         NEW w \in {0, TotalWeight(L)}, Paid(y, z, c, w)
  PROVE  Within(z, q + 2)
<1> DEFINE a == AllWeight
<1>1. a \in Nat /\ c \in Candidates /\ w \in Nat /\ w <= a /\ N \in Nat
  <2> DEFINE v == TotalWeight(L)
  <2>1. v \in Nat /\ v <= a /\ a \in Nat /\ w \in {0, v}
    BY WeightIs
  <2> HIDE DEF v, a
  <2>2. w \in Nat /\ w <= a
    BY <2>1
  <2> QED BY <2>1, <2>2, Configured
<1>2. ASSUME NEW S \in SUBSET L
      PROVE  /\ -Reach(a, q + 2, Size(S)) <= 2 * Total(z, S)
             /\ 2 * Total(z, S) <= Reach(a, q + 2, Size(S))
  <2> DEFINE k == Size(S)
             x == Total(f, S)
             v == Total(z, S)
             g == TotalWeight(S)
  <2>1. S \in SUBSET Candidates
    OBVIOUS
  <2>2. x \in Int /\ v \in Int /\ g \in Nat /\ g <= a /\ k \in Nat
    BY <2>1, UptoInt, WeightIs, SizeIs
  <2>3. v = x + g - (IF c \in S THEN w ELSE 0)
    <3>1. Total(y, S) = x + g
      BY GainedTotal
    <3>2. w \in Int
      BY <1>1
    <3>3. v = Total(y, S) - (IF c \in S THEN w ELSE 0)
      BY <1>1, <2>1, <3>2, PaidTotal
    <3> DEFINE u == Total(y, S)
    <3> HIDE DEF x, v, g, u
    <3>4. u = x + g /\ v = u - (IF c \in S THEN w ELSE 0)
      BY <3>1, <3>3 DEF x, v, g, u
    <3>5. CASE c \in S
      BY <1>1, <2>2, <3>4, <3>5
    <3>6. CASE c \notin S
      BY <1>1, <2>2, <3>4, <3>6
    <3> QED BY <3>5, <3>6
  <2>4. -Reach(a, q, k) <= 2 * x /\ 2 * x <= Reach(a, q, k)
    BY <2>1 DEF Within
  <2>5. CASE S = {}
    <3>1. Total(z, {}) = 0
      BY NoneIsZero
    <3>2. Size({}) = 0
      <4>1. {} \in SUBSET Candidates /\ c \notin {}
        OBVIOUS
      <4> QED BY <1>1, <4>1, SizeOne
    <3>3. Reach(a, q + 2, 0) = 0
      BY <1>1 DEF Reach
    <3> QED BY <2>5, <3>1, <3>2, <3>3
  <2>6. CASE S # {}
    <3>1. k \in Nat \ {0}
      BY <2>1, <2>2, <2>6, SizeIs
    <3> HIDE DEF a, k, x, v, g
    <3>2. Reach(a, q + 2, k) = Reach(a, q, k) + 2 * (k * a) /\ Reach(a, q, k) \in Int
      BY <1>1, <3>1 DEF Reach
    <3>3. k * a >= a /\ k * a \in Int
      <4>1. k * a = (k - 1) * a + a /\ (k - 1) * a \in Nat
        BY <1>1, <3>1
      <4> QED BY <1>1, <4>1
    <3>4. x - a <= v /\ v <= x + a
      BY <1>1, <2>2, <2>3
    <3>5. -Reach(a, q + 2, k) <= 2 * v /\ 2 * v <= Reach(a, q + 2, k)
      BY <1>1, <2>2, <2>4, <3>2, <3>3, <3>4
    <3> QED BY <3>5 DEF k, v
  <2> QED BY <2>5, <2>6
<1>3. \A d \in Candidates \ L : z[d] = 0
  BY DEF Gained, Paid
<1>4. q + 2 \in Int /\ 2 * N <= q + 2
  BY <1>1
<1> QED BY <1>2, <1>3, <1>4, LiveSuffices

-----------------------------------------------------------------------------
(* The selection.                                                          *)

\* The sort has a first credential among those that are admitted, and no other
\* has a higher counter.
LEMMA ChosenIsHighest ==
  ASSUME NEW y \in [Candidates -> Int],
         NEW A \in SUBSET Candidates, A # {}
  PROVE  /\ Chosen(y, A) \in A
         /\ \A d \in A : y[d] <= y[Chosen(y, A)]
<1> DEFINE First(c, n) == c \in A /\ c <= n /\ \A d \in A \ {c} : d <= n => Before(y, c, d)
           T == {n \in 0 .. N : (\A d \in A : n < d) \/ \E c \in Candidates : First(c, n)}
<1>0. N \in Nat
  BY Configured
<1>1. 0 \in T
  BY <1>0 DEF Candidates
<1>2. ASSUME NEW i \in 1 .. N, i - 1 \in T
      PROVE  i \in T
  <2>1. i \in Candidates /\ \A d \in A : d \in Int /\ y[d] \in Int
    BY DEF Candidates
  <2>2. CASE i \notin A
    <3>1. \A d \in A : (i - 1 < d => i < d) /\ (d <= i => d <= i - 1)
      BY <1>0, <2>1, <2>2
    <3>2. CASE \A d \in A : i - 1 < d
      BY <1>0, <3>1, <3>2
    <3>3. CASE \E c \in Candidates : First(c, i - 1)
      <4>1. PICK c \in Candidates : First(c, i - 1)
        BY <3>3
      <4>2. c <= i
        BY <2>1, <4>1
      <4>3. First(c, i)
        BY <3>1, <4>1, <4>2
      <4> QED BY <4>3
    <3> QED BY <1>2, <3>2, <3>3
  <2>3. CASE i \in A
    <3>1. CASE \A d \in A : i - 1 < d
      <4>1. First(i, i)
        BY <2>1, <2>3, <3>1
      <4> QED BY <2>1, <4>1
    <3>2. CASE \E c \in Candidates : First(c, i - 1)
      <4>1. PICK c \in Candidates : First(c, i - 1)
        BY <3>2
      <4>2. c \in A /\ c < i /\ \A d \in A \ {c} : d <= i - 1 => Before(y, c, d)
        BY <2>1, <4>1
      <4>3. CASE y[c] >= y[i]
        <5>1. \A d \in A \ {c} : d <= i => Before(y, c, d)
          BY <2>1, <2>3, <4>2, <4>3 DEF Before
        <5>2. First(c, i)
          BY <2>1, <4>2, <5>1
        <5> QED BY <5>2
      <4>4. CASE y[c] < y[i]
        <5>1. \A d \in A \ {i} : d <= i => Before(y, i, d)
          BY <2>1, <2>3, <4>2, <4>4 DEF Before
        <5>2. First(i, i)
          BY <2>1, <2>3, <5>1
        <5> QED BY <2>1, <5>2
      <4> QED BY <2>1, <2>3, <4>2, <4>3, <4>4
    <3> QED BY <1>2, <3>1, <3>2
  <2> QED BY <2>2, <2>3
<1>3. N \in T
  <2>1. 0 .. N \subseteq T
    <3> HIDE DEF T
    <3> QED BY <1>0, <1>1, <1>2, Counting
  <2> QED BY <1>0, <2>1
<1>4. PICK c \in A : \A d \in A \ {c} : Before(y, c, d)
  <2>1. \A d \in A : ~(N < d) /\ d <= N
    BY <1>0 DEF Candidates
  <2> QED BY <1>3, <2>1
<1> DEFINE x == Chosen(y, A)
<1>5. x \in A /\ \A d \in A \ {x} : Before(y, x, d)
  BY <1>4 DEF Chosen
<1> HIDE DEF x
<1>6. \A d \in A : y[d] <= y[x]
  <2>1. y[x] \in Int /\ \A d \in A : y[d] \in Int
    BY <1>5
  <2> QED BY <1>5, <2>1 DEF Before
<1> QED BY <1>5, <1>6 DEF x

-----------------------------------------------------------------------------
(* The inductive invariant.                                                *)

\* What a counter can come to after r disturbed selections.
Top(r) == (N + r) * AllWeight

\* Counters f after r disturbed selections, and what they say of the shares o,
\* the waits w and the streaks t: who waits gains its weight each time, who
\* wins against a rival pays more than it gained, and both gain and pay what
\* the shares record.
Fair(L, f, r, o, w, t) ==
  /\ L \in SUBSET Candidates
  /\ f \in [Candidates -> Int] /\ \A d \in Candidates \ L : f[d] = 0
  /\ Within(f, 2 * (N + r))
  /\ o \in [Candidates -> Int]
  /\ w \in [Candidates -> Nat]
  /\ t \in [Candidates -> Nat]
  /\ \A d \in L : f[d] - o[d] \in -Top(r) .. Top(r)
  /\ \A d \in Candidates : w[d] * Weight[d] <= f[d] + Top(r)
  /\ \A d \in Candidates : t[d] <= Top(r) - f[d]

LEMMA TopIs ==
  ASSUME NEW r \in Nat
  PROVE  Top(r) \in Nat /\ Top(r) <= Top(r + 1)
<1>1. N \in Nat /\ AllWeight \in Nat
  <2>1. {} \in SUBSET Candidates
    OBVIOUS
  <2> QED BY <2>1, WeightIs, Configured
<1> DEFINE a == AllWeight
<1> HIDE DEF a
<1>2. a \in Nat /\ Top(r) = (N + r) * a /\ Top(r + 1) = (N + r) * a + a
  <2>1. Top(r + 1) = (N + (r + 1)) * a /\ Top(r) = (N + r) * a
    BY DEF Top, a
  <2>2. a \in Nat
    BY <1>1 DEF a
  <2> QED BY <1>1, <2>1, <2>2
<1>3. (N + r) * a \in Nat
  BY <1>1, <1>2
<1> QED BY <1>2, <1>3

LEMMA CountersAre ==
  ASSUME NEW r \in Nat, NEW f \in [Candidates -> Int], Within(f, 2 * (N + r)),
         NEW c \in Candidates
  PROVE  -Top(r) <= f[c] /\ f[c] <= Top(r)
<1> DEFINE a == AllWeight
           q == 2 * (N + r)
<1>1. a \in Nat /\ N \in Nat /\ {c} \in SUBSET Candidates
  <2>1. {c} \in SUBSET Candidates
    OBVIOUS
  <2> QED BY <2>1, WeightIs, Configured
<1>2. Size({c}) = 1
  <2>1. {} \in SUBSET Candidates /\ c \notin {}
    OBVIOUS
  <2> QED BY <2>1, SizeOne
<1>3. Total(f, {c}) = f[c]
  BY OneAlone
<1>4. -Reach(a, q, 1) <= 2 * f[c] /\ 2 * f[c] <= Reach(a, q, 1)
  BY <1>1, <1>2, <1>3 DEF Within
<1>5. Reach(a, q, 1) = 2 * Top(r) - a
  <2> HIDE DEF a
  <2>1. Reach(a, q, 1) = a * (1 * (2 * (N + r) - 1)) /\ Top(r) = (N + r) * a
    BY DEF Reach, Top, a
  <2>2. a * (1 * (2 * (N + r) - 1)) = 2 * ((N + r) * a) - a
    BY <1>1
  <2> QED BY <2>1, <2>2
<1>6. Top(r) \in Nat
  BY TopIs
<1> HIDE DEF a, q
<1> QED BY <1>1, <1>4, <1>5, <1>6

\* What the history records of a selection keeps up with the counters.
LEMMA FairRecord ==
  ASSUME NEW r \in Nat, NEW s \in {r, r + 1},
         NEW K, NEW f, NEW o, NEW w, NEW t, Fair(K, f, r, o, w, t),
         NEW L \in SUBSET Candidates, NEW c \in L,
         NEW y, NEW z \in [Candidates -> Int],
         Gained(f, y, L), Paid(y, z, c, TotalWeight(L)), Within(z, 2 * (N + s)),
         NEW o2, o2 = [d \in Candidates |->
           IF d \notin L THEN 0
           ELSE (IF L = K THEN o[d] ELSE 0) + Weight[d] - (IF d = c THEN TotalWeight(L) ELSE 0)],
         NEW w2 \in [Candidates -> Nat],
         \A d \in Candidates : w2[d] = 0 \/ (d \in L \ {c} /\ w2[d] = w[d] + 1),
         NEW t2 \in [Candidates -> Nat],
         \A d \in Candidates : t2[d] = 0 \/ (d = c /\ L # {c} /\ t2[d] = t[d] + 1)
  PROVE  Fair(L, z, s, o2, w2, t2)
<1> DEFINE v == TotalWeight(L)
<1>1. Top(r) \in Nat /\ Top(s) \in Nat /\ Top(r) <= Top(s) /\ s \in Nat
  <2>1. Top(r) \in Nat /\ Top(r) <= Top(r + 1) /\ Top(r + 1) \in Nat
    BY TopIs
  <2> QED BY <2>1
<1>2. v \in Nat /\ \A d \in Candidates : Weight[d] \in Nat \ {0}
  BY WeightIs, Configured
<1>3. /\ f \in [Candidates -> Int] /\ o \in [Candidates -> Int]
      /\ w \in [Candidates -> Nat] /\ t \in [Candidates -> Nat]
      /\ \A d \in Candidates : -Top(r) <= f[d] /\ f[d] <= Top(r) /\ -Top(s) <= z[d] /\ z[d] <= Top(s)
  BY <1>1, CountersAre DEF Fair
<1>4. \A d \in L : z[d] = f[d] + Weight[d] - (IF d = c THEN v ELSE 0)
  <2> SUFFICES ASSUME NEW d \in L
               PROVE  z[d] = f[d] + Weight[d] - (IF d = c THEN v ELSE 0)
    OBVIOUS
  <2>1. y[d] = f[d] + Weight[d] /\ f[d] \in Int /\ Weight[d] \in Int
    BY <1>2, <1>3 DEF Gained
  <2>2. z[d] = IF d = c THEN y[d] - v ELSE y[d]
    BY DEF Paid
  <2> HIDE DEF v
  <2> QED BY <1>2, <2>1, <2>2
<1>5. \A d \in Candidates \ L : z[d] = 0
  BY DEF Gained, Paid
<1>6. o2 \in [Candidates -> Int]
  <2> HIDE DEF v
  <2>1. \A d \in Candidates : (IF d \notin L THEN 0 ELSE (IF L = K THEN o[d] ELSE 0) + Weight[d] - (IF d = c THEN v ELSE 0)) \in Int
    BY <1>2, <1>3
  <2> QED BY <2>1 DEF v
<1>7. ASSUME NEW d \in L
      PROVE  z[d] - o2[d] \in -Top(s) .. Top(s)
  <2>1. o2[d] = (IF L = K THEN o[d] ELSE 0) + Weight[d] - (IF d = c THEN v ELSE 0)
    OBVIOUS
  <2> HIDE DEF v
  <2>2. z[d] - o2[d] = f[d] - (IF L = K THEN o[d] ELSE 0)
    <3> DEFINE toll == IF d = c THEN v ELSE 0
               old == IF L = K THEN o[d] ELSE 0
    <3>1. /\ toll \in Int /\ old \in Int /\ f[d] \in Int /\ Weight[d] \in Int
          /\ z[d] = f[d] + Weight[d] - toll /\ o2[d] = old + Weight[d] - toll
      BY <1>2, <1>3, <1>4, <2>1
    <3> HIDE DEF toll, old
    <3>2. z[d] - o2[d] = f[d] - old
      BY <3>1
    <3> QED BY <3>2 DEF old
  <2>3. CASE L = K
    <3>1. f[d] - o[d] \in -Top(r) .. Top(r)
      BY <2>3 DEF Fair
    <3> QED BY <1>1, <1>3, <2>2, <2>3, <3>1
  <2>4. CASE L # K
    <3>1. z[d] - o2[d] = f[d]
      BY <1>3, <2>2, <2>4
    <3> QED BY <1>1, <1>3, <3>1
  <2> QED BY <2>3, <2>4
<1>8. ASSUME NEW d \in Candidates
      PROVE  w2[d] * Weight[d] <= z[d] + Top(s)
  <2>0. z[d] \in Int /\ -Top(s) <= z[d] /\ Weight[d] \in Nat
    BY <1>2, <1>3
  <2>1. CASE w2[d] = 0
    <3>1. 0 * Weight[d] = 0
      BY <2>0
    <3> QED BY <1>1, <2>0, <2>1, <3>1
  <2>2. CASE d \in L \ {c} /\ w2[d] = w[d] + 1
    <3>1. z[d] = f[d] + Weight[d]
      BY <1>2, <1>3, <1>4, <2>2
    <3>2. w[d] * Weight[d] <= f[d] + Top(r)
      BY DEF Fair
    <3>3. w[d] \in Nat /\ f[d] \in Int
      BY <1>3
    <3>4. (w[d] + 1) * Weight[d] = w[d] * Weight[d] + Weight[d] /\ w[d] * Weight[d] \in Int
      <4> DEFINE i == w[d]
                 j == Weight[d]
      <4>1. i \in Int /\ j \in Int
        BY <2>0, <3>3
      <4> HIDE DEF i, j
      <4>2. (i + 1) * j = i * j + j /\ i * j \in Int
        BY <4>1
      <4> QED BY <4>2 DEF i, j
    <3> QED BY <1>1, <2>0, <2>2, <3>1, <3>2, <3>3, <3>4
  <2> QED BY <2>1, <2>2
<1>9. ASSUME NEW d \in Candidates
      PROVE  t2[d] <= Top(s) - z[d]
  <2>1. CASE t2[d] = 0
    BY <1>1, <1>3, <2>1
  <2>2. CASE d = c /\ L # {c} /\ t2[d] = t[d] + 1
    <3>1. z[c] = f[c] + Weight[c] - v
      BY <1>4
    <3>2. Weight[c] < v
      <4>1. PICK e \in L : e # c
        BY <2>2
      <4> QED BY <4>1, WeightIs
    <3>3. t[c] <= Top(r) - f[c]
      BY DEF Fair
    <3> HIDE DEF v
    <3>4. t[c] \in Nat /\ f[c] \in Int /\ Weight[c] \in Int /\ z[c] \in Int
      BY <1>2, <1>3
    <3> QED BY <1>1, <1>2, <2>2, <3>1, <3>2, <3>3, <3>4
  <2> QED BY <2>1, <2>2
<1>10. Within(z, 2 * (N + s))
  OBVIOUS
<1> QED BY <1>5, <1>6, <1>7, <1>8, <1>9, <1>10 DEF Fair

SchedulerInv ==
  /\ nodes = live
  /\ refusals \in 0 .. MaxRefusals
  /\ Fair(live, current, refusals, owed, waited, streak)

\* The nodes of the live credentials gain their weight.
LEMMA AdvancedIs ==
  ASSUME current \in [Candidates -> Int], NEW L \in SUBSET Candidates
  PROVE  /\ Advanced(L) \in [Candidates -> Int]
         /\ Gained(current, Advanced(L), L)
<1>1. \A d \in Candidates : current[d] \in Int /\ Weight[d] \in Int
  BY Configured
<1>2. \A d \in Candidates : (IF d \in L THEN current[d] + Weight[d] ELSE 0) \in Int
  BY <1>1
<1> QED BY <1>2 DEF Advanced, Gained

\* A selection that admits some live credential, disturbed or not.
LEMMA SelectKeeps ==
  ASSUME SchedulerInv, NEW L \in LiveSets, NEW refused \in SUBSET L,
         Select(L, refused),
         \/ refused = {} /\ UNCHANGED refusals
         \/ refusals < MaxRefusals /\ refusals' = refusals + 1
  PROVE  SchedulerInv'
<1> DEFINE y == Advanced(L)
           A == L \ refused
           c == Chosen(y, A)
           v == TotalWeight(L)
           q == 2 * (N + refusals)
<1>1. L \in SUBSET Candidates /\ A \in SUBSET Candidates /\ A # {} /\ A \subseteq L
  BY Configured DEF Select
<1>2. /\ refusals \in Nat /\ refusals' \in Nat /\ refusals' \in {refusals, refusals + 1}
      /\ refusals' \in 0 .. MaxRefusals /\ N \in Nat
  BY Configured DEF SchedulerInv
<1>3. /\ current \in [Candidates -> Int] /\ Within(current, q)
      /\ waited \in [Candidates -> Nat] /\ streak \in [Candidates -> Nat]
  BY DEF SchedulerInv, Fair
<1>4. y \in [Candidates -> Int] /\ Gained(current, y, L)
  BY <1>1, <1>3, AdvancedIs
<1>5. c \in A /\ \A d \in A : y[d] <= y[c]
  <2> HIDE DEF y, A
  <2> QED BY <1>1, <1>4, ChosenIsHighest
<1>6. /\ nodes' = L /\ live' = L
      /\ current' = [y EXCEPT ![c] = @ - v]
      /\ owed' = [d \in Candidates |->
           IF d \notin L THEN 0
           ELSE (IF L = live THEN owed[d] ELSE 0) + Weight[d] - (IF d = c THEN v ELSE 0)]
      /\ waited' = [d \in Candidates |->
           IF d \in L \ (refused \cup {c}) THEN waited[d] + 1 ELSE 0]
      /\ streak' = [d \in Candidates |-> IF d = c /\ A # {c} THEN streak[d] + 1 ELSE 0]
  BY DEF Select, Record, Charged
<1>7. v \in Nat /\ c \in L /\ c \in Candidates
  BY <1>1, <1>5, WeightIs
<1> HIDE DEF y, c, v, A, q
<1>8. current' \in [Candidates -> Int] /\ Paid(y, current', c, v)
  <2>1. \A d \in Candidates : y[d] \in Int
    BY <1>4
  <2> QED BY <1>4, <1>6, <1>7, <2>1 DEF Paid
<1>9. q \in Int /\ 2 * N <= q
  BY <1>2 DEF q
<1>10. Within(current', 2 * (N + refusals'))
  <2>1. CASE refusals' = refusals + 1
    <3>1. v \in {0, TotalWeight(L)}
      BY DEF v
    <3>2. Within(current', q + 2)
      BY <1>1, <1>3, <1>4, <1>7, <1>8, <1>9, <3>1, DisturbedStep
    <3>3. 2 * (N + refusals') = q + 2
      BY <1>2, <2>1 DEF q
    <3> QED BY <3>2, <3>3
  <2>2. CASE refused = {} /\ refusals' = refusals
    <3>1. A = L
      BY <2>2 DEF A
    <3>2. \A d \in L : y[d] <= y[c]
      BY <1>5, <3>1
    <3>3. Within(current', q)
      BY <1>1, <1>3, <1>4, <1>7, <1>8, <1>9, <3>2, FairStep DEF v
    <3> QED BY <2>2, <3>3 DEF q
  <2> QED BY <2>1, <2>2
<1>11. waited' \in [Candidates -> Nat] /\ streak' \in [Candidates -> Nat]
  <2>1. \A d \in Candidates : waited[d] \in Nat /\ streak[d] \in Nat
    BY <1>3
  <2> QED BY <1>6, <2>1
<1>12. \A d \in Candidates : waited'[d] = 0 \/ (d \in L \ {c} /\ waited'[d] = waited[d] + 1)
  BY <1>6
<1>13. \A d \in Candidates : streak'[d] = 0 \/ (d = c /\ L # {c} /\ streak'[d] = streak[d] + 1)
  <2>1. A # {c} => L # {c}
    BY <1>1, <1>5
  <2> QED BY <1>6, <2>1
<1>14. Fair(L, current', refusals', owed', waited', streak')
  <2>1. Fair(live, current, refusals, owed, waited, streak)
    BY DEF SchedulerInv
  <2>2. Paid(y, current', c, TotalWeight(L))
    BY <1>8 DEF v
  <2>3. owed' = [d \in Candidates |->
           IF d \notin L THEN 0
           ELSE (IF L = live THEN owed[d] ELSE 0) + Weight[d]
                  - (IF d = c THEN TotalWeight(L) ELSE 0)]
    BY <1>6 DEF v
  <2> QED BY <1>1, <1>2, <1>4, <1>7, <1>8, <1>10, <1>11, <1>12, <1>13, <2>1, <2>2, <2>3, FairRecord, SMTT(60)
<1> QED BY <1>2, <1>6, <1>14 DEF SchedulerInv

\* TryAllowAll refuses everybody.
LEMMA SelectNoneKeeps ==
  ASSUME SchedulerInv, NEW L \in LiveSets, SelectNone(L),
         refusals < MaxRefusals, refusals' = refusals + 1
  PROVE  SchedulerInv'
<1> DEFINE y == Advanced(L)
           q == 2 * (N + refusals)
<1>1. L \in SUBSET Candidates /\ L # {}
  BY Configured
<1>2. /\ refusals \in Nat /\ refusals' \in Nat /\ refusals' \in 0 .. MaxRefusals /\ N \in Nat
  BY Configured DEF SchedulerInv
<1>3. current \in [Candidates -> Int] /\ Within(current, q)
  BY DEF SchedulerInv, Fair
<1>4. y \in [Candidates -> Int] /\ Gained(current, y, L)
  BY <1>1, <1>3, AdvancedIs
<1>5. /\ nodes' = L /\ live' = L /\ current' = y
      /\ owed' = [d \in Candidates |-> 0]
      /\ waited' = [d \in Candidates |-> 0]
      /\ streak' = [d \in Candidates |-> 0]
  BY DEF SelectNone
<1> HIDE DEF y, q
<1>6. PICK c \in L : TRUE
  BY <1>1
<1>7. Paid(y, y, c, 0)
  <2>1. \A d \in Candidates : y[d] = y[d] - 0
    BY <1>4
  <2> QED BY <2>1 DEF Paid
<1>8. Within(y, 2 * (N + refusals'))
  <2>1. 0 \in {0, TotalWeight(L)} /\ q \in Int /\ 2 * N <= q
    BY <1>2 DEF q
  <2>2. Within(y, q + 2)
    BY <1>1, <1>3, <1>4, <1>6, <1>7, <2>1, DisturbedStep
  <2>3. 2 * (N + refusals') = q + 2
    BY <1>2 DEF q
  <2> QED BY <2>2, <2>3
<1>9. \A d \in Candidates : -Top(refusals') <= y[d] /\ y[d] <= Top(refusals')
  BY <1>2, <1>4, <1>8, CountersAre
<1>10. Top(refusals') \in Nat
  BY <1>2, TopIs
<1>11. \A d \in Candidates : y[d] \in Int /\ Weight[d] \in Int /\ 0 * Weight[d] = 0
  <2>1. \A d \in Candidates : y[d] \in Int /\ Weight[d] \in Int
    BY <1>4, Configured
  <2> QED BY <2>1
<1>12. Fair(L, y, refusals', owed', waited', streak')
  <2>1. /\ owed' \in [Candidates -> Int] /\ waited' \in [Candidates -> Nat]
        /\ streak' \in [Candidates -> Nat]
        /\ \A d \in Candidates : owed'[d] = 0 /\ waited'[d] = 0 /\ streak'[d] = 0
    BY <1>5
  <2>2. \A d \in Candidates \ L : y[d] = 0
    BY <1>4 DEF Gained
  <2>3. \A d \in L : y[d] - owed'[d] \in -Top(refusals') .. Top(refusals')
    BY <1>1, <1>9, <1>10, <1>11, <2>1
  <2>4. \A d \in Candidates : /\ waited'[d] * Weight[d] <= y[d] + Top(refusals')
                                   /\ streak'[d] <= Top(refusals') - y[d]
    BY <1>9, <1>10, <1>11, <2>1
  <2> QED BY <1>1, <1>4, <1>8, <2>1, <2>2, <2>3, <2>4 DEF Fair
<1> QED BY <1>2, <1>5, <1>12 DEF SchedulerInv

LEMMA SchedulerInvInductive ==
  ASSUME SchedulerInv, [SchedulerNext]_schedulerVars
  PROVE  SchedulerInv'
<1>1. ASSUME NEW L \in LiveSets, Select(L, {}), UNCHANGED refusals
      PROVE  SchedulerInv'
  BY <1>1, SelectKeeps
<1>2. ASSUME NEW L \in LiveSets, NEW refused \in (SUBSET L) \ {{}}, Select(L, refused),
             refusals < MaxRefusals, refusals' = refusals + 1
      PROVE  SchedulerInv'
  BY <1>2, SelectKeeps
<1>3. ASSUME NEW L \in LiveSets, SelectNone(L),
             refusals < MaxRefusals, refusals' = refusals + 1
      PROVE  SchedulerInv'
  BY <1>3, SelectNoneKeeps
<1>4. CASE UNCHANGED schedulerVars
  BY <1>4 DEF SchedulerInv, schedulerVars, ghosts
<1> QED BY <1>1, <1>2, <1>3, <1>4 DEF SchedulerNext

LEMMA SchedulerInvInitially ==
  ASSUME SchedulerInit
  PROVE  SchedulerInv
<1> DEFINE q == 2 * (N + 0)
<1>1. N \in Nat /\ MaxRefusals \in Nat /\ \A d \in Candidates : Weight[d] \in Int
  BY Configured
<1>2. /\ nodes = {} /\ live = {} /\ refusals = 0
      /\ \A f \in {current, owed, waited, streak} :
           f \in [Candidates -> Int] /\ f \in [Candidates -> Nat] /\ \A d \in Candidates : f[d] = 0
  BY DEF SchedulerInit
<1>3. Within(current, q)
  <2>1. q \in Int /\ 2 * N <= q /\ {} \in SUBSET Candidates
    BY <1>1
  <2>2. \A S \in SUBSET {} : /\ -Reach(AllWeight, q, Size(S)) <= 2 * Total(current, S)
                             /\ 2 * Total(current, S) <= Reach(AllWeight, q, Size(S))
    <3>1. Total(current, {}) = 0
      BY <1>2, NoneIsZero
    <3>2. Size({}) = 0
      <4>1. Same(1) \in [Candidates -> Int]
        BY DEF Same
      <4> QED BY <4>1, NoneIsZero DEF Size
    <3>3. AllWeight \in Nat
      BY <2>1, WeightIs
    <3>4. Reach(AllWeight, q, 0) = 0
      BY <2>1, <3>3 DEF Reach
    <3> QED BY <3>1, <3>2, <3>4
  <2> HIDE DEF q
  <2> QED BY <1>2, <2>1, <2>2, LiveSuffices
<1>4. Top(0) \in Nat
  BY TopIs
<1>5. \A d \in Candidates : 0 * Weight[d] = 0
  BY <1>1
<1>6. \A d \in Candidates : /\ waited[d] * Weight[d] <= current[d] + Top(0)
                                 /\ streak[d] <= Top(0) - current[d]
  BY <1>2, <1>4, <1>5
<1> QED BY <1>1, <1>2, <1>3, <1>6 DEF SchedulerInv, Fair

\* The bounds that are checked.
LEMMA SchedulerInvImplies ==
  ASSUME SchedulerInv
  PROVE  SharesAreFair
<1> DEFINE b == Bound
<1>1. b = Top(refusals) /\ refusals \in Nat /\ refusals \in 0 .. MaxRefusals
  BY Configured DEF Bound, Top, SchedulerInv
<1>2. b \in Nat
  BY <1>1, TopIs
<1>3. /\ current \in [Candidates -> Int] /\ owed \in [Candidates -> Int]
      /\ waited \in [Candidates -> Nat] /\ streak \in [Candidates -> Nat]
      /\ live \in SUBSET Candidates /\ nodes = live
      /\ \A d \in Candidates \ live : current[d] = 0
      /\ \A d \in live : current[d] - owed[d] \in -b .. b
      /\ \A d \in Candidates : waited[d] * Weight[d] <= current[d] + b
      /\ \A d \in Candidates : streak[d] <= b - current[d]
  BY <1>1 DEF SchedulerInv, Fair
<1>4. \A d \in Candidates : -b <= current[d] /\ current[d] <= b
  BY <1>1, <1>3, CountersAre DEF SchedulerInv, Fair
<1> HIDE DEF b
<1>5. current \in [Candidates -> -b .. b]
  <2>1. \A d \in Candidates : current[d] \in -b .. b
    BY <1>2, <1>3, <1>4
  <2> QED BY <1>3, <2>1
<1>6. \A d \in Candidates : waited[d] * Weight[d] <= 2 * b
  <2>1. \A d \in Candidates : waited[d] \in Int /\ Weight[d] \in Int
    BY <1>3, Configured
  <2>2. \A i, j \in Int : i * j \in Int
    OBVIOUS
  <2>3. \A d \in Candidates : waited[d] * Weight[d] \in Int
    BY <2>1, <2>2
  <2> QED BY <1>2, <1>3, <1>4, <2>3
<1>7. \A d \in live : owed[d] \in -2 * b .. 2 * b
  BY <1>2, <1>3, <1>4
<1>8. \A d \in Candidates : streak[d] <= 2 * b
  BY <1>2, <1>3, <1>4
<1>9. SchedulerTypeOK
  BY <1>1, <1>3, <1>5 DEF SchedulerTypeOK, b
<1>10. NoStarvation /\ Proportional /\ BurstBounded
  BY <1>6, <1>7, <1>8 DEF NoStarvation, Proportional, BurstBounded, b
<1> QED BY <1>9, <1>10 DEF SharesAreFair

\* The balancer's weighted scheduling (weighted.go, roundrobin.go:300-430):
\* for any number of credentials, any weights and any sets of credentials that
\* are live together, no credential is passed over for long, none is preferred
\* for long, and the counters stay bounded, whatever bans and refusals come
\* between the selections.
THEOREM SchedulerIsFair ==
  SchedulerSpec => []SharesAreFair
<1>1. SchedulerInit => SchedulerInv
  BY SchedulerInvInitially
<1>2. SchedulerInv /\ [SchedulerNext]_schedulerVars => SchedulerInv'
  BY SchedulerInvInductive
<1>3. SchedulerInv => SharesAreFair
  BY SchedulerInvImplies
<1> QED BY <1>1, <1>2, <1>3, PTL DEF SchedulerSpec

===========================================================================
