------------------------- MODULE SharedLimitsProofs -------------------------
(***************************************************************************)
(* Proofs about SharedLimits, for any replicas, keys, limits and window,   *)
(* any number of requests and of faults, and calls of any length that is   *)
(* shorter than the window.                                                *)
(***************************************************************************)
EXTENDS SharedLimits, FiniteSetTheorems, FunctionTheorems, SequenceTheorems, TLAPS

-----------------------------------------------------------------------------
(* Types.                                                                  *)

Members == Requests \X {0}
Operation == [r : Requests, c : Counters]
Syncs == [keys : SUBSET Keys, age : Nat, total : [Counters -> Nat]]
PartNames == {"tracked", "remoteStats", "local", "rpm", "tpm"}
Removals == {NoRemoval} \cup [key : SUBSET Keys, parts : Seq(PartNames) \ {<<>>}]

\* What is known of the requests, and their clocks.
AskingTypes ==
  /\ at \in [Requests -> {"idle", "asking", "admitted", "over"}]
  /\ by \in [Requests -> Replicas \cup {NoReplica}]
  /\ asked \in [Requests -> Asks \cup {<<>>}]
  /\ tries \in [Requests -> Nat]
  /\ told \in [Requests -> Nat]

ClockTypes ==
  /\ stamp \in [Requests -> 0 .. Horizon]
  /\ tokenStamp \in [TokenCounters -> [Requests -> 0 .. Horizon]]

TypeOK ==
  /\ AskingTypes
  /\ ClockTypes
  /\ zset \in [Counters -> SUBSET Members]
  /\ local \in [Hybrid -> [Counters -> SUBSET Requests]]
  /\ remoteStats \in [Hybrid -> [Counters -> Nat]]
  /\ tracked \in [Hybrid -> SUBSET Keys]
  /\ writeQueue \in [Hybrid -> Seq(Operation)]
  /\ sync \in [Hybrid -> Syncs]
  /\ removal \in [Replicas -> Removals]
  /\ faults \in Nat
  /\ deletes \in Nat

\* The horizon is a number, past the window.
LEMMA HorizonType == Horizon \in Nat /\ Window < Horizon + 1
BY SharedAssumption DEF Horizon

\* What a request asks for are keys.
LEMMA RangeOfAsk ==
  ASSUME NEW K \in Asks \cup {<<>>}
  PROVE  Range(K) \in SUBSET Keys
<1>1. CASE K = <<>>
  BY <1>1 DEF Range
<1>2. CASE K \in {<<k>> : k \in Keys}
  BY <1>2 DEF Range
<1>3. CASE K \in Keys \X Keys
  BY <1>3 DEF Range
<1> QED BY <1>1, <1>2, <1>3, SharedAssumption

\* What a set of requests or members weighs is a number.
LEMMA WeighType ==
  ASSUME NEW c, NEW S, IsFiniteSet(S)
  PROVE  Weigh(c, S) \in Nat
<1>1. Cardinality(S) \in Nat
  BY FS_CardinalityType
<1>2. Amount \in Nat
  BY SharedAssumption
<1>3. \A m, n \in Nat : m * n \in Nat
  OBVIOUS
<1> DEFINE unit == IF c[2] = "tpm" THEN Amount ELSE 1
<1>4. unit \in Nat
  BY <1>2
<1> HIDE DEF unit
<1>5. Cardinality(S) * unit \in Nat
  BY <1>1, <1>3, <1>4
<1> QED BY <1>5 DEF Weigh, unit

\* Members are finitely many.
LEMMA MembersFinite ==
  ASSUME NEW S \in SUBSET Members
  PROVE  IsFiniteSet(S)
<1>1. IsFiniteSet(Requests)
  BY SharedAssumption
<1>2. IsFiniteSet({0})
  BY FS_Singleton
<1>3. IsFiniteSet(Members)
  BY <1>1, <1>2, FS_Product DEF Members
<1> QED BY <1>3, FS_Subset

\* A queue with the operations of a request behind it is a queue.
LEMMA EnqueueType ==
  ASSUME NEW ops \in Seq(Operation), NEW r \in Requests, NEW c
  PROVE  Enqueue(ops, r, c) \in Seq(Operation)
<1>1. CASE c \in Counters
  <2>1. [r |-> r, c |-> c] \in Operation
    BY <1>1 DEF Operation
  <2> QED BY <2>1 DEF Enqueue
<1>2. CASE c \notin Counters
  BY <1>2 DEF Enqueue
<1> QED BY <1>1, <1>2

LEMMA EnqueueAllType ==
  ASSUME NEW h \in Hybrid, NEW r \in Requests, NEW K, NEW kind,
         writeQueue \in [Hybrid -> Seq(Operation)], EnqueueAll(h, r, K, kind)
  PROVE  writeQueue' \in [Hybrid -> Seq(Operation)]
<1> DEFINE first == Enqueue(writeQueue[h], r, <<K[1], kind>>)
           second == Enqueue(first, r, <<K[2], kind>>)
<1>1. first \in Seq(Operation)
  BY EnqueueType
<1>2. second \in Seq(Operation)
  <2> HIDE DEF first
  <2> QED BY <1>1, EnqueueType
<1>3. writeQueue' = [writeQueue EXCEPT ![h] = IF Len(K) = 1 THEN first ELSE second]
  BY DEF EnqueueAll
<1> HIDE DEF first, second
<1> QED BY <1>1, <1>2, <1>3

\* What the scripts make of the sets.
LEMMA CleanedType ==
  ASSUME TypeOK, NEW C, NEW b
  PROVE  Cleaned(C, b, zset) \in [Counters -> SUBSET Members]
BY DEF TypeOK, Cleaned, Fresh

LEMMA ScriptType ==
  ASSUME TypeOK, NEW r \in Requests
  PROVE  Script(r).zset \in [Counters -> SUBSET Members]
<1> DEFINE clean == Cleaned(CountersOf(KeysOf(r)), stamp[r], zset)
<1>1. clean \in [Counters -> SUBSET Members]
  BY CleanedType
<1>2. Member(r) \in Members
  BY DEF Member, Members
<1> HIDE DEF clean
<1>3. \A c \in Counters : clean[c] \cup {Member(r)} \in SUBSET Members
  BY <1>1, <1>2
<1> QED BY <1>1, <1>3 DEF Script, clean

LEMMA WrittenType ==
  ASSUME TypeOK, NEW ops \in Seq(Operation), NEW done \in SUBSET (1 .. Len(ops))
  PROVE  Written(ops, done, zset) \in [Counters -> SUBSET Members]
<1>1. \A j \in done : Member(ops[j].r) \in Members
  <2>1. \A j \in done : ops[j] \in Operation
    OBVIOUS
  <2>2. \A op \in Operation : op.r \in Requests
    BY DEF Operation
  <2> QED BY <2>1, <2>2 DEF Member, Members
<1> QED BY <1>1 DEF Written, TypeOK

-----------------------------------------------------------------------------
(* Every step keeps the types.                                             *)

LEMMA InitTypes == Init => TypeOK
<1> SUFFICES ASSUME Init PROVE TypeOK
  OBVIOUS
<1>1. NoSync \in Syncs
  BY DEF NoSync, Syncs
<1>2. ClockTypes
  BY HorizonType DEF Init, ClockTypes
<1>3. <<>> \in Seq(Operation)
  OBVIOUS
<1>4. AskingTypes
  BY DEF Init, AskingTypes
<1> HIDE DEF NoSync
<1> QED BY <1>1, <1>2, <1>3, <1>4 DEF Init, TypeOK, Removals

LEMMA RequestTypes ==
  ASSUME TypeOK, NEW r \in Requests
  PROVE  /\ \A i \in Replicas, K \in Asks, where \in {"asking", "admitted"} :
              Ask(i, r, K, where) => AskingTypes' /\ ClockTypes'
         /\ Admitted(r) => AskingTypes'
         /\ Retry(r) => AskingTypes'
         /\ Ends(r) => AskingTypes'
         /\ Told(r) => AskingTypes'
         /\ \A R : Forgotten(R) => AskingTypes'
<1>1. ASSUME NEW i \in Replicas, NEW K \in Asks, NEW where \in {"asking", "admitted"},
             Ask(i, r, K, where)
      PROVE  AskingTypes' /\ ClockTypes'
  <2>1. AskingTypes'
    BY <1>1 DEF TypeOK, AskingTypes, Ask
  <2>2. ClockTypes'
    <3> DEFINE A == 0 .. Horizon
    <3>1. 0 \in A /\ Horizon \in A
      BY HorizonType
    <3>2. stamp \in [Requests -> A] /\ tokenStamp \in [TokenCounters -> [Requests -> A]]
      BY DEF TypeOK, ClockTypes
    <3> HIDE DEF A
    <3>3. stamp' \in [Requests -> A]
      BY <1>1, <3>1, <3>2 DEF Ask
    <3>4. \A c \in TokenCounters : [tokenStamp[c] EXCEPT ![r] = Horizon] \in [Requests -> A]
      BY <3>1, <3>2
    <3>5. tokenStamp' \in [TokenCounters -> [Requests -> A]]
      BY <1>1, <3>4 DEF Ask
    <3> QED BY <3>3, <3>5 DEF A, ClockTypes
  <2> QED BY <2>1, <2>2
<1>2. Admitted(r) => AskingTypes'
  BY DEF TypeOK, AskingTypes, Admitted
<1>3. Retry(r) => AskingTypes'
  BY DEF TypeOK, AskingTypes, Retry
<1>4. \A R : Forgotten(R) => AskingTypes'
  BY DEF TypeOK, AskingTypes, Forgotten
<1>5. Ends(r) => AskingTypes'
  <2>1. CASE by[r] \in Direct
    <3> SUFFICES ASSUME Ends(r) PROVE AskingTypes'
      OBVIOUS
    <3>1. /\ at' = [at EXCEPT ![r] = "over"]
          /\ tries' = [tries EXCEPT ![r] = 0]
          /\ told' = [told EXCEPT ![r] = 0]
          /\ by' = by /\ asked' = asked
      BY <2>1 DEF Ends
    <3> QED BY <3>1 DEF TypeOK, AskingTypes
  <2>2. CASE by[r] \notin Direct
    BY <1>4, <2>2 DEF Ends
  <2> QED BY <2>1, <2>2
<1>6. Told(r) => AskingTypes'
  <2>1. CASE told[r] + 1 = Len(asked[r])
    BY <1>5, <2>1 DEF Told
  <2>2. CASE told[r] + 1 # Len(asked[r])
    <3> SUFFICES ASSUME Told(r) PROVE AskingTypes'
      OBVIOUS
    <3>1. /\ told' = [told EXCEPT ![r] = @ + 1]
          /\ tries' = [tries EXCEPT ![r] = 0]
          /\ UNCHANGED <<at, by, asked>>
      BY <2>2 DEF Told
    <3> QED BY <3>1 DEF TypeOK, AskingTypes
  <2> QED BY <2>1, <2>2
<1> QED BY <1>1, <1>2, <1>3, <1>4, <1>5, <1>6

LEMMA ReadsClockTypes ==
  ASSUME TypeOK, NEW r \in Requests, NEW k, UNCHANGED stamp,
         ReadsClock(r, k) \/ UNCHANGED tokenStamp
  PROVE  ClockTypes'
<1>1. CASE ReadsClock(r, k)
  <2>1. 0 \in 0 .. Horizon
    BY HorizonType
  <2>2. \A c \in TokenCounters : [tokenStamp[c] EXCEPT ![r] = 0] \in [Requests -> 0 .. Horizon]
    BY <2>1 DEF TypeOK, ClockTypes
  <2>3. tokenStamp' \in [TokenCounters -> [Requests -> 0 .. Horizon]]
    BY <1>1, <2>2 DEF ReadsClock, TypeOK, ClockTypes
  <2> QED BY <2>3 DEF TypeOK, ClockTypes
<1>2. CASE UNCHANGED tokenStamp
  BY <1>2 DEF TypeOK, ClockTypes
<1> QED BY <1>1, <1>2

\* A hybrid replica's counts.
LEMMA CountTypes ==
  ASSUME TypeOK, NEW h \in Hybrid, NEW r \in Requests, NEW K, NEW kind, Count(h, r, K, kind)
  PROVE  local' \in [Hybrid -> [Counters -> SUBSET Requests]]
BY DEF TypeOK, Count

LEMMA TrackTypes ==
  ASSUME TypeOK, NEW h \in Hybrid, NEW K, Range(K) \in SUBSET Keys, Track(h, K)
  PROVE  tracked' \in [Hybrid -> SUBSET Keys]
BY DEF TypeOK, Track

LEMMA SameTypes ==
  ASSUME TypeOK
  PROVE  /\ UNCHANGED asking => AskingTypes'
         /\ UNCHANGED clocks => ClockTypes'
BY DEF TypeOK, AskingTypes, ClockTypes, asking, clocks

LEMMA HybridTypes ==
  ASSUME TypeOK, NEW h \in Hybrid, HybridNext(h)
  PROVE  TypeOK'
<1>1. CASE AskHybrid(h)
  <2>1. PICK K \in Asks : Refuse(h, K) \/ \E r \in Requests : Admit(h, r, K)
    BY <1>1 DEF AskHybrid
  <2>2. CASE Refuse(h, K)
    <3>1. tracked' \in [Hybrid -> SUBSET Keys]
      BY <2>2, RangeOfAsk, TrackTypes DEF Refuse
    <3>2. AskingTypes' /\ ClockTypes'
      BY <2>2, SameTypes DEF Refuse
    <3> QED BY <2>2, <3>1, <3>2 DEF Refuse, TypeOK, events
  <2>3. CASE \E r \in Requests : Admit(h, r, K)
    <3>1. PICK r \in Requests : Admit(h, r, K)
      BY <2>3
    <3>2. AskingTypes' /\ ClockTypes'
      BY <3>1, RequestTypes DEF Admit, Replicas
    <3>3. tracked' \in [Hybrid -> SUBSET Keys]
      BY <3>1, RangeOfAsk, TrackTypes DEF Admit
    <3>4. local' \in [Hybrid -> [Counters -> SUBSET Requests]]
      BY <3>1, CountTypes DEF Admit
    <3>5. writeQueue' \in [Hybrid -> Seq(Operation)]
      BY <3>1, EnqueueAllType DEF Admit, TypeOK
    <3> QED BY <3>1, <3>2, <3>3, <3>4, <3>5 DEF Admit, TypeOK, events
  <2> QED BY <2>1, <2>2, <2>3
<1>2. CASE Flush(h)
  <2>0. PICK n \in 1 .. Len(writeQueue[h]) : \E done \in SUBSET (1 .. n) :
          /\ IF done = 1 .. n THEN UNCHANGED faults ELSE Fault
          /\ zset' = Written(writeQueue[h], done, zset)
          /\ writeQueue' = [writeQueue EXCEPT ![h] = SubSeq(@, n + 1, Len(@))]
          /\ UNCHANGED <<asking, clocks, local, remoteStats, tracked, sync, removal, deletes>>
    BY <1>2 DEF Flush
  <2>1. PICK done \in SUBSET (1 .. n) :
          /\ IF done = 1 .. n THEN UNCHANGED faults ELSE Fault
          /\ zset' = Written(writeQueue[h], done, zset)
          /\ writeQueue' = [writeQueue EXCEPT ![h] = SubSeq(@, n + 1, Len(@))]
          /\ UNCHANGED <<asking, clocks, local, remoteStats, tracked, sync, removal, deletes>>
    BY <2>0
  <2>2. writeQueue[h] \in Seq(Operation)
    BY DEF TypeOK
  <2>3. SubSeq(writeQueue[h], n + 1, Len(writeQueue[h])) \in Seq(Operation)
    BY <2>2
  <2>4. done \in SUBSET (1 .. Len(writeQueue[h]))
    BY <2>2
  <2>5. zset' \in [Counters -> SUBSET Members]
    BY <2>1, <2>2, <2>4, WrittenType
  <2>6. writeQueue' \in [Hybrid -> Seq(Operation)]
    BY <2>1, <2>3 DEF TypeOK
  <2>7. faults' \in Nat
    BY <2>1 DEF Fault, TypeOK
  <2>8. AskingTypes' /\ ClockTypes'
    BY <2>1, SameTypes
  <2> QED BY <2>1, <2>5, <2>6, <2>7, <2>8 DEF TypeOK
<1>3. CASE SyncReads(h)
  <2> DEFINE C == CountersOf(tracked[h])
  <2>0. PICK ran \in SUBSET C : \E answered \in SUBSET ran :
          /\ IF answered = C THEN UNCHANGED faults ELSE Fault
          /\ zset' = Cleaned(ran, 0, zset)
          /\ sync' = [sync EXCEPT ![h] =
               [keys |-> tracked[h], age |-> 0,
                total |-> [c \in Counters |-> IF c \in answered
                                                THEN Weigh(c, Fresh(c, 0, zset[c])) ELSE 0]]]
    BY <1>3 DEF SyncReads
  <2>1. PICK answered \in SUBSET ran :
          /\ IF answered = C THEN UNCHANGED faults ELSE Fault
          /\ zset' = Cleaned(ran, 0, zset)
          /\ sync' = [sync EXCEPT ![h] =
               [keys |-> tracked[h], age |-> 0,
                total |-> [c \in Counters |-> IF c \in answered
                                                THEN Weigh(c, Fresh(c, 0, zset[c])) ELSE 0]]]
    BY <2>0
  <2>2. \A c \in Counters : Weigh(c, Fresh(c, 0, zset[c])) \in Nat
    <3> SUFFICES ASSUME NEW c \in Counters
                 PROVE  Weigh(c, Fresh(c, 0, zset[c])) \in Nat
      OBVIOUS
    <3>1. Fresh(c, 0, zset[c]) \in SUBSET Members
      BY DEF Fresh, TypeOK
    <3>2. IsFiniteSet(Fresh(c, 0, zset[c]))
      BY <3>1, MembersFinite
    <3> QED BY <3>2, WeighType
  <2>3. sync' \in [Hybrid -> Syncs]
    BY <2>1, <2>2 DEF TypeOK, Syncs
  <2>4. zset' \in [Counters -> SUBSET Members]
    BY <2>1, CleanedType
  <2>5. faults' \in Nat
    BY <2>1 DEF Fault, TypeOK
  <2>6. AskingTypes' /\ ClockTypes'
    BY <1>3, SameTypes DEF SyncReads
  <2> QED BY <1>3, <2>3, <2>4, <2>5, <2>6 DEF SyncReads, TypeOK
<1>4. CASE SyncStores(h)
  <2>1. \A c \in Counters : Weigh(c, local[h][c]) \in Nat
    <3> SUFFICES ASSUME NEW c \in Counters
                 PROVE  Weigh(c, local[h][c]) \in Nat
      OBVIOUS
    <3>1. IsFiniteSet(local[h][c])
      BY SharedAssumption, FS_Subset DEF TypeOK
    <3> QED BY <3>1, WeighType
  <2> DEFINE diff(c) == sync[h].total[c] - Weigh(c, local[h][c])
             new == [c \in Counters |-> IF c \notin CountersOf(sync[h].keys) THEN remoteStats[h][c]
                                        ELSE IF diff(c) < 0 THEN 0 ELSE diff(c)]
  <2>2. \A c \in Counters : diff(c) \in Int /\ remoteStats[h][c] \in Nat
    <3>1. \A c \in Counters : sync[h].total[c] \in Nat /\ remoteStats[h][c] \in Nat
      BY DEF TypeOK, Syncs
    <3> QED BY <2>1, <3>1
  <2> HIDE DEF diff
  <2>3. new \in [Counters -> Nat]
    BY <2>2
  <2>4. remoteStats' = [remoteStats EXCEPT ![h] = new]
    BY <1>4 DEF SyncStores, diff
  <2>5. remoteStats' \in [Hybrid -> [Counters -> Nat]]
    <3> HIDE DEF new
    <3> QED BY <2>3, <2>4 DEF TypeOK
  <2>6. sync' \in [Hybrid -> Syncs]
    BY <1>4 DEF SyncStores, NoSync, Syncs, TypeOK
  <2>7. AskingTypes' /\ ClockTypes'
    BY <1>4, SameTypes DEF SyncStores
  <2> QED BY <1>4, <2>5, <2>6, <2>7 DEF SyncStores, TypeOK, events
<1>5. CASE SyncTimesOut(h)
  <2>1. AskingTypes' /\ ClockTypes'
    BY <1>5, SameTypes DEF SyncTimesOut
  <2> QED BY <1>5, <2>1 DEF SyncTimesOut, Fault, NoSync, Syncs, TypeOK
<1>6. CASE Crash(h)
  <2>1. AskingTypes' /\ ClockTypes'
    BY <1>6, RequestTypes, SameTypes DEF Crash, TypeOK, AskingTypes, Forgotten
  <2>2. /\ local' \in [Hybrid -> [Counters -> SUBSET Requests]]
        /\ remoteStats' \in [Hybrid -> [Counters -> Nat]]
        /\ tracked' \in [Hybrid -> SUBSET Keys]
        /\ writeQueue' \in [Hybrid -> Seq(Operation)]
        /\ sync' \in [Hybrid -> Syncs]
    BY <1>6 DEF Crash, TypeOK, NoSync, Syncs
  <2>3. removal' \in [Replicas -> Removals]
    BY <1>6 DEF Crash, TypeOK, Removals
  <2>4. /\ faults' \in Nat
        /\ UNCHANGED <<zset, deletes>>
    BY <1>6 DEF Crash, Fault, TypeOK
  <2> QED BY <2>1, <2>2, <2>3, <2>4 DEF TypeOK
<1> QED BY <1>1, <1>2, <1>3, <1>4, <1>5, <1>6 DEF HybridNext, Sync

LEMMA DirectTypes ==
  ASSUME TypeOK, NEW r \in Requests,
         \/ \E d \in Direct, K \in Asks : AskDirect(d, r, K)
         \/ Answered(r) \/ NoAnswer(r) \/ Fails(r)
  PROVE  TypeOK'
<1>1. CASE \E d \in Direct, K \in Asks : AskDirect(d, r, K)
  <2>1. PICK d \in Direct, K \in Asks : AskDirect(d, r, K)
    BY <1>1
  <2>2. AskingTypes' /\ ClockTypes'
    BY <2>1, RequestTypes DEF AskDirect, Replicas
  <2> QED BY <2>1, <2>2 DEF AskDirect, TypeOK, hybrids, events
<1>2. CASE Answered(r)
  <2>1. AskingTypes' /\ ClockTypes'
    BY <1>2, RequestTypes, SameTypes DEF Answered
  <2>2. zset' \in [Counters -> SUBSET Members]
    BY <1>2, ScriptType DEF Answered
  <2> QED BY <1>2, <2>1, <2>2 DEF Answered, TypeOK, hybrids, events
<1>3. CASE NoAnswer(r)
  <2>1. AskingTypes' /\ ClockTypes'
    BY <1>3, RequestTypes, SameTypes DEF NoAnswer
  <2>2. zset' \in [Counters -> SUBSET Members]
    BY <1>3, ScriptType DEF NoAnswer, TypeOK
  <2> QED BY <1>3, <2>1, <2>2 DEF NoAnswer, Fault, TypeOK, hybrids
<1>4. CASE Fails(r)
  <2>1. AskingTypes' /\ ClockTypes'
    BY <1>4, RequestTypes, SameTypes DEF Fails
  <2> QED BY <1>4, <2>1 DEF Fails, TypeOK, hybrids, events
<1> QED BY <1>1, <1>2, <1>3, <1>4

LEMMA ReportTypes ==
  ASSUME TypeOK, NEW r \in Requests, NEW k \in Keys, ReportDirect(r, k) \/ ReportHybrid(r, k)
  PROVE  TypeOK'
<1>1. CASE ReportDirect(r, k)
  <2>1. ClockTypes'
    BY <1>1, ReadsClockTypes DEF ReportDirect
  <2>2. AskingTypes'
    BY <1>1, RequestTypes DEF ReportDirect
  <2> DEFINE clock(c) == IF tries[r] = 0 THEN 0 ELSE tokenStamp[c][r]
             done == [c \in Counters |-> IF c = <<k, "tpm">>
                        THEN Fresh(c, clock(c), zset[c]) \cup {Member(r)} ELSE zset[c]]
  <2>3. done \in [Counters -> SUBSET Members]
    BY DEF TypeOK, Fresh, Member, Members
  <2>4. zset' \in {zset, done} /\ faults' \in Nat
    BY <1>1 DEF ReportDirect, Fault, TypeOK
  <2>5. zset' \in [Counters -> SUBSET Members]
    <3> HIDE DEF done
    <3> QED BY <2>3, <2>4 DEF TypeOK
  <2> QED BY <1>1, <2>1, <2>2, <2>4, <2>5 DEF ReportDirect, TypeOK, hybrids
<1>2. CASE ReportHybrid(r, k)
  <2>0. by[r] \in Hybrid /\ Range(<<k>>) \in SUBSET Keys
    BY <1>2 DEF ReportHybrid, Range
  <2>1. ClockTypes'
    BY <1>2, ReadsClockTypes DEF ReportHybrid
  <2>2. AskingTypes'
    BY <1>2, RequestTypes DEF ReportHybrid
  <2>3. tracked' \in [Hybrid -> SUBSET Keys]
    BY <1>2, <2>0, TrackTypes DEF ReportHybrid
  <2>4. local' \in [Hybrid -> [Counters -> SUBSET Requests]]
    BY <1>2, <2>0, CountTypes DEF ReportHybrid
  <2>5. writeQueue' \in [Hybrid -> Seq(Operation)]
    BY <1>2, <2>0, EnqueueAllType DEF ReportHybrid, TypeOK
  <2> QED BY <1>2, <2>1, <2>2, <2>3, <2>4, <2>5 DEF ReportHybrid, TypeOK, events
<1> QED BY <1>1, <1>2

\* The parts of a removal.
LEMMA WithoutTypes ==
  ASSUME TypeOK, NEW i, NEW K, NEW part, Without(i, K, part)
  PROVE  /\ AskingTypes' /\ ClockTypes'
         /\ zset' \in [Counters -> SUBSET Members]
         /\ tracked' \in [Hybrid -> SUBSET Keys]
         /\ remoteStats' \in [Hybrid -> [Counters -> Nat]]
         /\ local' \in [Hybrid -> [Counters -> SUBSET Requests]]
         /\ UNCHANGED <<writeQueue, sync, faults>>
<1> DEFINE gone == [c \in Counters |-> IF c \in K \X {part} THEN {} ELSE zset[c]]
<1>1. gone \in [Counters -> SUBSET Members]
  BY DEF TypeOK
<1>2. zset' \in {zset, gone}
  BY DEF Without
<1>3. zset' \in [Counters -> SUBSET Members]
  <2> HIDE DEF gone
  <2> QED BY <1>1, <1>2 DEF TypeOK
<1>4. tracked' \in [Hybrid -> SUBSET Keys]
  BY DEF Without, TypeOK
<1>5. remoteStats' \in [Hybrid -> [Counters -> Nat]]
  BY DEF Without, TypeOK
<1>6. local' \in [Hybrid -> [Counters -> SUBSET Requests]]
  BY DEF Without, TypeOK
<1> QED BY <1>3, <1>4, <1>5, <1>6, SameTypes DEF Without

LEMMA AheadType ==
  ASSUME NEW K \in SUBSET Keys, NEW parts \in Seq(PartNames)
  PROVE  Ahead(K, parts) \in Removals
BY DEF Ahead, Removals

LEMMA RemovalTypes ==
  ASSUME TypeOK, NEW i \in Replicas, DeletePart(i) \/ \E k \in ModelKeys : DeleteKey(i, k)
  PROVE  TypeOK'
<1>1. CASE DeletePart(i)
  <2> DEFINE running == removal[i]
  <2>1. running \in Removals /\ running # NoRemoval
    BY <1>1 DEF DeletePart, TypeOK
  <2>2. running.key \in SUBSET Keys /\ running.parts \in Seq(PartNames) /\ running.parts # <<>>
    <3> HIDE DEF running
    <3> QED BY <2>1 DEF Removals
  <2>3. Tail(running.parts) \in Seq(PartNames)
    <3> HIDE DEF running
    <3> QED BY <2>2
  <2>4. Ahead(running.key, Tail(running.parts)) \in Removals
    <3> HIDE DEF running
    <3> QED BY <2>2, <2>3, AheadType
  <2>5. removal' \in [Replicas -> Removals]
    BY <1>1, <2>4 DEF DeletePart, TypeOK
  <2>6. Without(i, running.key, Head(running.parts)) /\ UNCHANGED deletes
    BY <1>1 DEF DeletePart
  <2> HIDE DEF running
  <2> QED BY <2>5, <2>6, WithoutTypes DEF TypeOK
<1>2. CASE \E k \in ModelKeys : DeleteKey(i, k)
  <2>1. PICK k \in ModelKeys : DeleteKey(i, k)
    BY <1>2
  <2>2. {k} \in SUBSET Keys
    BY SharedAssumption
  <2>3. Parts(i, k) \in Seq(PartNames) /\ Parts(i, k) # <<>>
    <3>1. Limited(k, "rpm") \in Seq(PartNames) /\ Limited(k, "tpm") \in Seq(PartNames)
      BY DEF Limited, PartNames
    <3> DEFINE own == <<"tracked", "remoteStats", "local">>
    <3>0. own \in Seq(PartNames) /\ <<>> \in Seq(PartNames)
      <4>1. Seq(PartNames) = UNION {[1 .. n -> PartNames] : n \in Nat}
        BY SeqDef
      <4>2. own \in [1 .. 3 -> PartNames]
        BY DEF PartNames
      <4>3. own \in Seq(PartNames)
        <5> HIDE DEF own
        <5> QED BY <4>1, <4>2
      <4> QED BY <4>3
    <3> HIDE DEF own
    <3>2. (IF i \in Hybrid THEN own ELSE <<>>) \in Seq(PartNames)
      BY <3>0
    <3> QED BY <2>1, <3>1, <3>2 DEF Parts, DeleteKey, own
  <2>4. Tail(Parts(i, k)) \in Seq(PartNames)
    BY <2>3
  <2>5. removal' \in [Replicas -> Removals]
    BY <2>1, <2>2, <2>4, AheadType DEF DeleteKey, TypeOK
  <2>6. Without(i, {k}, Head(Parts(i, k))) /\ deletes' \in Nat
    BY <2>1 DEF DeleteKey, TypeOK
  <2> QED BY <2>5, <2>6, WithoutTypes DEF TypeOK
<1> QED BY <1>1, <1>2

LEMMA TickTypes ==
  ASSUME TypeOK, Tick
  PROVE  TypeOK'
<1>1. \A age \in 0 .. Horizon : Older(age) \in 0 .. Horizon
  BY HorizonType DEF Older
<1>2. ClockTypes'
  <2>1. \A r \in Requests : Older(stamp[r]) \in 0 .. Horizon
    BY <1>1 DEF TypeOK, ClockTypes
  <2>2. \A c \in TokenCounters, r \in Requests : Older(tokenStamp[c][r]) \in 0 .. Horizon
    BY <1>1 DEF TypeOK, ClockTypes
  <2> QED BY <2>1, <2>2 DEF Tick, ClockTypes
<1>3. AskingTypes'
  BY DEF Tick, Forgotten, TypeOK, AskingTypes
<1>4. /\ zset' \in [Counters -> SUBSET Members]
      /\ local' \in [Hybrid -> [Counters -> SUBSET Requests]]
  BY DEF Tick, TypeOK
<1>5. sync' \in [Hybrid -> Syncs]
  <2>1. \A s \in Syncs : Aged(s) \in Syncs
    BY DEF Aged, Syncs
  <2> QED BY <2>1 DEF Tick, TypeOK
<1> QED BY <1>2, <1>3, <1>4, <1>5 DEF Tick, TypeOK, events

LEMMA TypesStep == TypeOK /\ [Next]_vars => TypeOK'
<1> SUFFICES ASSUME TypeOK, [Next]_vars
             PROVE  TypeOK'
  OBVIOUS
<1>1. CASE \E h \in Hybrid : HybridNext(h)
  BY <1>1, HybridTypes
<1>2. CASE \E d \in Direct, r \in Requests, K \in Asks : AskDirect(d, r, K)
  BY <1>2, DirectTypes
<1>3. CASE \E r \in Requests : Answered(r) \/ NoAnswer(r) \/ Fails(r)
  BY <1>3, DirectTypes
<1>4. CASE \E r \in Requests, k \in Keys : ReportDirect(r, k) \/ ReportHybrid(r, k)
  BY <1>4, ReportTypes
<1>5. CASE \E i \in Replicas : DeletePart(i) \/ \E k \in ModelKeys : DeleteKey(i, k)
  BY <1>5, RemovalTypes
<1>6. CASE Tick
  BY <1>6, TickTypes
<1>7. CASE UNCHANGED vars
  BY <1>7, SameTypes DEF vars, hybrids, events, TypeOK
<1> QED BY <1>1, <1>2, <1>3, <1>4, <1>5, <1>6, <1>7 DEF Next

\* Every variable keeps its type.
THEOREM TypeCorrect == Spec => []TypeOK
BY InitTypes, TypesStep, PTL DEF Spec

-----------------------------------------------------------------------------
(* The limit of the direct replicas.  What one of them has admitted stays  *)
(* in Redis for a whole window by any clock that cleans, and whoever asks  *)
(* reads its clock at most CallTicks before its script: all that it must   *)
(* not exceed together with the new request is still there to be counted.  *)

AskersAreYoung == \A r \in Requests : at[r] = "asking" => stamp[r] <= CallTicks

YoungAreKept ==
  deletes = 0 =>
    \A c \in RequestCounters : \A q \in Granted(c) :
      stamp[q] < Window => Member(q) \in zset[c]

\* No removal runs before the first one has begun.
NoneRemoved == deletes = 0 => \A i \in Replicas : removal[i] = NoRemoval

\* Who has been admitted by a direct replica.
Holds(q) == at[q] \in {"admitted", "over"} /\ by[q] \in Direct

NoneNew == \A q \in Requests : Holds(q)' => Holds(q) /\ asked'[q] = asked[q]

\* A step that admits nothing in the counter c and lets no time pass.
Undisturbed(c) ==
  /\ \A q \in Granted(c)' : q \in Granted(c) /\ stamp'[q] = stamp[q]
  /\ \A m \in zset[c] : stamp[m[1]] < Window => m \in zset'[c]

LEMMA CounterType ==
  ASSUME NEW c \in RequestCounters
  PROVE  c \in Counters /\ c[2] = "rpm" /\ Limit[c] \in Nat /\ \A q : Age(q, c) = stamp[q]
BY SharedAssumption DEF RequestCounters, Age

LEMMA StampType ==
  ASSUME TypeOK, NEW r \in Requests
  PROVE  stamp[r] \in 0 .. Horizon
BY DEF TypeOK, ClockTypes

LEMMA RequestsEnd ==
  ASSUME TypeOK, NEW r \in Requests
  PROVE  /\ Retry(r) => NoneNew
         /\ at[r] = "admitted" /\ (Ends(r) \/ Told(r)) => NoneNew
         /\ \A R : Forgotten(R) => NoneNew
<1>1. Retry(r) => NoneNew
  BY DEF Retry, NoneNew, Holds
<1>2. \A R : Forgotten(R) => NoneNew
  BY DEF Forgotten, NoneNew, Holds, TypeOK, AskingTypes
<1>3. at[r] = "admitted" /\ Ends(r) => NoneNew
  <2>1. CASE by[r] \in Direct
    BY <2>1 DEF Ends, NoneNew, Holds, TypeOK, AskingTypes
  <2>2. CASE by[r] \notin Direct
    BY <1>2, <2>2 DEF Ends
  <2> QED BY <2>1, <2>2
<1>4. at[r] = "admitted" /\ Told(r) => NoneNew
  <2>1. CASE told[r] + 1 = Len(asked[r])
    BY <1>3, <2>1 DEF Told
  <2>2. CASE told[r] + 1 # Len(asked[r])
    BY <2>2 DEF Told, NoneNew, Holds
  <2> QED BY <2>1, <2>2
<1> QED BY <1>1, <1>2, <1>3, <1>4

\* A clock at or after the one of an entry younger than the window keeps it.
LEMMA CleanedKeeps ==
  ASSUME TypeOK, NEW c \in RequestCounters, NEW C, NEW b \in Nat,
         NEW m \in zset[c], stamp[m[1]] < Window
  PROVE  m \in Cleaned(C, b, zset)[c]
<1>1. c \in Counters /\ Age(m[1], c) = stamp[m[1]]
  BY CounterType
<1>2. m[1] \in Requests
  BY <1>1 DEF TypeOK, Members
<1>3. Age(m[1], c) - b < Window
  BY <1>1, <1>2, StampType, HorizonType, SharedAssumption
<1> QED BY <1>1, <1>3 DEF Cleaned, Fresh

LEMMA WrittenKeeps ==
  ASSUME TypeOK, NEW c \in RequestCounters,
         NEW ops \in Seq(Operation), NEW done \in SUBSET (1 .. Len(ops)),
         NEW m \in zset[c], stamp[m[1]] < Window
  PROVE  m \in Written(ops, done, zset)[c]
<1>1. c \in Counters /\ \A q : Age(q, c) = stamp[q]
  BY CounterType
<1>2. m[1] \in Requests
  BY <1>1 DEF TypeOK, Members
<1>3. \A i \in done : stamp[ops[i].r] \in 0 .. Horizon
  <2>1. \A i \in done : ops[i] \in Operation
    OBVIOUS
  <2>2. \A op \in Operation : op.r \in Requests
    BY DEF Operation
  <2> QED BY <2>1, <2>2, StampType
<1>4. Stays(m, c, ops, done, 0)
  <2> SUFFICES ASSUME NEW i \in done
               PROVE  m \in Fresh(c, Age(ops[i].r, c), {m})
    BY DEF Stays
  <2>1. Age(m[1], c) - Age(ops[i].r, c) < Window
    BY <1>1, <1>2, <1>3, StampType, HorizonType, SharedAssumption
  <2> QED BY <2>1 DEF Fresh
<1> QED BY <1>1, <1>4 DEF Written

\* Also a script keeps it, whether it admits or not.
LEMMA ScriptKeeps ==
  ASSUME TypeOK, NEW c \in RequestCounters, NEW r \in Requests,
         NEW m \in zset[c], stamp[m[1]] < Window
  PROVE  m \in Script(r).zset[c]
<1> DEFINE clean == Cleaned(CountersOf(KeysOf(r)), stamp[r], zset)
<1>1. stamp[r] \in Nat
  BY StampType, HorizonType
<1>2. m \in clean[c]
  BY <1>1, CleanedKeeps
<1>3. c \in Counters
  BY CounterType
<1> HIDE DEF clean
<1> QED BY <1>2, <1>3 DEF Script, clean

\* Nobody new, no clock moved for who is there, and Redis keeps the young.
LEMMA UndisturbedBy ==
  ASSUME NoneNew, NEW c \in RequestCounters,
         \A q \in Requests : Holds(q)' => stamp'[q] = stamp[q],
         \A m \in zset[c] : stamp[m[1]] < Window => m \in zset'[c]
  PROVE  Undisturbed(c)
<1>1. ASSUME NEW q \in Granted(c)'
      PROVE  q \in Granted(c) /\ stamp'[q] = stamp[q]
  <2>1. q \in Requests /\ Holds(q)' /\ c[1] \in Range(asked'[q]) /\ stamp'[q] < Horizon
    BY DEF Granted, Holds, KeysOf
  <2>2. Holds(q) /\ asked'[q] = asked[q] /\ stamp'[q] = stamp[q]
    BY <2>1 DEF NoneNew
  <2> QED BY <2>1, <2>2 DEF Granted, Holds, KeysOf
<1> QED BY <1>1 DEF Undisturbed

LEMMA HybridDisturbsNone ==
  ASSUME TypeOK, NEW h \in Hybrid, HybridNext(h), NEW c \in RequestCounters
  PROVE  Undisturbed(c)
<1>0. h \notin Direct
  BY SharedAssumption
<1>1. CASE AskHybrid(h)
  <2>1. PICK K \in Asks : Refuse(h, K) \/ \E r \in Requests : Admit(h, r, K)
    BY <1>1 DEF AskHybrid
  <2>2. CASE Refuse(h, K)
    <3>1. NoneNew /\ UNCHANGED <<stamp, zset>>
      BY <2>2 DEF Refuse, asking, clocks, NoneNew, Holds
    <3> QED BY <3>1, UndisturbedBy
  <2>3. CASE \E r \in Requests : Admit(h, r, K)
    <3>1. PICK r \in Requests : Admit(h, r, K)
      BY <2>3
    <3>2. zset' = zset /\ Ask(h, r, K, "admitted")
      BY <3>1 DEF Admit
    <3>3. by'[r] = h /\ ~Holds(r)'
      BY <1>0, <3>2 DEF Ask, Holds, TypeOK, AskingTypes
    <3>4. \A q \in Requests \ {r} :
            /\ at'[q] = at[q] /\ by'[q] = by[q] /\ asked'[q] = asked[q]
            /\ stamp'[q] = stamp[q]
      BY <3>2 DEF Ask, TypeOK, AskingTypes, ClockTypes
    <3>5. NoneNew
      BY <3>3, <3>4 DEF NoneNew, Holds
    <3> QED BY <3>2, <3>3, <3>4, <3>5, UndisturbedBy
  <2> QED BY <2>1, <2>2, <2>3
<1>2. CASE Flush(h)
  <2>1. PICK n \in 1 .. Len(writeQueue[h]) : \E done \in SUBSET (1 .. n) :
          zset' = Written(writeQueue[h], done, zset)
    BY <1>2 DEF Flush
  <2>2. PICK done \in SUBSET (1 .. n) : zset' = Written(writeQueue[h], done, zset)
    BY <2>1
  <2>3. writeQueue[h] \in Seq(Operation)
    BY DEF TypeOK
  <2>4. writeQueue[h] \in Seq(Operation) /\ done \in SUBSET (1 .. Len(writeQueue[h]))
    BY <2>3
  <2>5. NoneNew /\ UNCHANGED stamp
    BY <1>2 DEF Flush, asking, clocks, NoneNew, Holds
  <2> QED BY <2>2, <2>4, <2>5, WrittenKeeps, UndisturbedBy
<1>3. CASE SyncReads(h)
  <2>1. NoneNew /\ UNCHANGED stamp
    BY <1>3 DEF SyncReads, asking, clocks, NoneNew, Holds
  <2>2. \E ran : zset' = Cleaned(ran, 0, zset)
    BY <1>3 DEF SyncReads
  <2> QED BY <2>1, <2>2, CleanedKeeps, UndisturbedBy
<1>4. CASE SyncStores(h) \/ SyncTimesOut(h)
  <2>1. NoneNew /\ UNCHANGED <<stamp, zset>>
    BY <1>4 DEF SyncStores, SyncTimesOut, asking, clocks, NoneNew, Holds
  <2> QED BY <2>1, UndisturbedBy
<1>5. CASE Crash(h)
  <2>1. NoneNew /\ UNCHANGED <<stamp, zset>>
    BY <1>5 DEF Crash, Forgotten, clocks, NoneNew, Holds
  <2> QED BY <2>1, UndisturbedBy
<1> QED BY <1>1, <1>2, <1>3, <1>4, <1>5 DEF HybridNext, Sync

LEMMA DirectDisturbsNone ==
  ASSUME TypeOK, NEW r \in Requests, NEW c \in RequestCounters,
         \/ \E d \in Direct, K \in Asks : AskDirect(d, r, K)
         \/ Answered(r) /\ ~Script(r).allowed
         \/ NoAnswer(r) \/ Fails(r)
  PROVE  Undisturbed(c)
<1>1. CASE \E d \in Direct, K \in Asks : AskDirect(d, r, K)
  <2>1. PICK d \in Direct, K \in Asks : AskDirect(d, r, K)
    BY <1>1
  <2>2. zset' = zset /\ Ask(d, r, K, "asking")
    BY <2>1 DEF AskDirect
  <2>3. at'[r] = "asking" /\ ~Holds(r)'
    BY <2>2 DEF Ask, Holds, TypeOK, AskingTypes
  <2>4. \A q \in Requests \ {r} :
          /\ at'[q] = at[q] /\ by'[q] = by[q] /\ asked'[q] = asked[q]
          /\ stamp'[q] = stamp[q]
    BY <2>2 DEF Ask, TypeOK, AskingTypes, ClockTypes
  <2>5. NoneNew
    BY <2>3, <2>4 DEF NoneNew, Holds
  <2> QED BY <2>2, <2>3, <2>4, <2>5, UndisturbedBy
<1>2. CASE Answered(r) /\ ~Script(r).allowed
  <2>1. NoneNew
    BY <1>2, RequestsEnd DEF Answered
  <2>2. UNCHANGED stamp /\ zset' = Script(r).zset
    BY <1>2 DEF Answered, clocks
  <2> QED BY <2>1, <2>2, ScriptKeeps, UndisturbedBy
<1>3. CASE NoAnswer(r)
  <2>1. NoneNew
    BY <1>3, RequestsEnd DEF NoAnswer
  <2>2. UNCHANGED stamp /\ zset' \in {zset, Script(r).zset}
    BY <1>3 DEF NoAnswer, clocks
  <2> QED BY <2>1, <2>2, ScriptKeeps, UndisturbedBy
<1>4. CASE Fails(r)
  <2>1. NoneNew
    BY <1>4, RequestsEnd DEF Fails
  <2>2. UNCHANGED <<stamp, zset>>
    BY <1>4 DEF Fails, clocks
  <2> QED BY <2>1, <2>2, UndisturbedBy
<1> QED BY <1>1, <1>2, <1>3, <1>4

LEMMA ReportDisturbsNone ==
  ASSUME TypeOK, NEW r \in Requests, NEW k, NEW c \in RequestCounters,
         ReportDirect(r, k) \/ ReportHybrid(r, k)
  PROVE  Undisturbed(c)
<1>1. NoneNew
  BY RequestsEnd DEF ReportDirect, ReportHybrid, Reports
<1>2. UNCHANGED stamp
  BY DEF ReportDirect, ReportHybrid
<1>3. zset'[c] = zset[c]
  <2>1. c \in Counters /\ c # <<k, "tpm">>
    BY DEF RequestCounters
  <2>2. CASE ReportDirect(r, k)
    BY <2>1, <2>2 DEF ReportDirect
  <2>3. CASE ReportHybrid(r, k)
    BY <2>3 DEF ReportHybrid
  <2> QED BY <2>2, <2>3
<1> QED BY <1>1, <1>2, <1>3, UndisturbedBy

\* Every other step but the tick, the admission of a direct replica and the
\* removal of a key.
LEMMA OthersDisturbNone ==
  ASSUME TypeOK, NoneRemoved, [Next]_vars, NEW c \in RequestCounters,
         deletes = 0, deletes' = deletes, ~Tick,
         ~\E r \in Requests : Answered(r) /\ Script(r).allowed
  PROVE  Undisturbed(c)
<1>1. CASE \E h \in Hybrid : HybridNext(h)
  BY <1>1, HybridDisturbsNone
<1>2. CASE \E d \in Direct, r \in Requests, K \in Asks : AskDirect(d, r, K)
  BY <1>2, DirectDisturbsNone
<1>3. CASE \E r \in Requests : Answered(r) \/ NoAnswer(r) \/ Fails(r)
  BY <1>3, DirectDisturbsNone
<1>4. CASE \E r \in Requests, k \in Keys : ReportDirect(r, k) \/ ReportHybrid(r, k)
  BY <1>4, ReportDisturbsNone
<1>5. CASE \E i \in Replicas : DeletePart(i) \/ \E j \in ModelKeys : DeleteKey(i, j)
  BY <1>5 DEF DeleteKey, DeletePart, NoneRemoved
<1>6. CASE UNCHANGED vars
  <2>1. NoneNew /\ UNCHANGED <<stamp, zset>>
    BY <1>6 DEF vars, asking, clocks, NoneNew, Holds
  <2> QED BY <2>1, UndisturbedBy
<1> QED BY <1>1, <1>2, <1>3, <1>4, <1>5, <1>6 DEF Next

\* The number of removals only grows, and only their first part counts.
LEMMA DeletesGrow ==
  ASSUME TypeOK, [Next]_vars
  PROVE  \/ deletes' = deletes + 1
         \/ /\ deletes' = deletes
            /\ \A i \in Replicas : removal[i] = NoRemoval => removal'[i] = NoRemoval
<1>1. CASE \E h \in Hybrid : HybridNext(h)
  <2>1. PICK h \in Hybrid : HybridNext(h)
    BY <1>1
  <2>2. CASE Crash(h)
    BY <2>2 DEF Crash, TypeOK
  <2>3. CASE ~Crash(h)
    BY <2>1, <2>3 DEF HybridNext, AskHybrid, Refuse, Admit, Flush, Sync, SyncReads, SyncStores,
                      SyncTimesOut, events
  <2> QED BY <2>2, <2>3
<1>2. CASE \E i \in Replicas, j \in ModelKeys : DeleteKey(i, j)
  BY <1>2 DEF DeleteKey
<1>3. CASE \E i \in Replicas : DeletePart(i)
  BY <1>3 DEF DeletePart, TypeOK
<1>4. CASE \/ \E d \in Direct, r \in Requests, K \in Asks : AskDirect(d, r, K)
           \/ \E r \in Requests : Answered(r) \/ NoAnswer(r) \/ Fails(r)
           \/ \E r \in Requests, k \in Keys : ReportDirect(r, k) \/ ReportHybrid(r, k)
  BY <1>4 DEF AskDirect, Answered, NoAnswer, Fails, ReportDirect, ReportHybrid, events
<1>5. CASE Tick
  BY <1>5 DEF Tick, events
<1>6. CASE UNCHANGED vars
  BY <1>6 DEF vars, events
<1> QED BY <1>1, <1>2, <1>3, <1>4, <1>5, <1>6 DEF Next

LEMMA RemovedStep ==
  ASSUME TypeOK, NoneRemoved, [Next]_vars
  PROVE  NoneRemoved'
BY DeletesGrow DEF NoneRemoved, TypeOK

\* What is left of the grants of a counter after a tick has aged by one.
LEMMA TickAges ==
  ASSUME TypeOK, Tick, NEW c, NEW q \in Granted(c)'
  PROVE  q \in Granted(c) /\ stamp'[q] = stamp[q] + 1
<1>1. q \in Requests /\ Holds(q)' /\ c[1] \in Range(asked'[q]) /\ stamp'[q] < Horizon
  BY DEF Granted, Holds, KeysOf
<1>2. stamp'[q] = IF stamp[q] < Horizon THEN stamp[q] + 1 ELSE Horizon
  BY <1>1 DEF Tick, Older
<1>3. stamp[q] \in 0 .. Horizon
  BY <1>1, StampType
<1>4. stamp[q] < Horizon /\ stamp'[q] = stamp[q] + 1
  BY <1>1, <1>2, <1>3, HorizonType
<1>5. NoneNew
  BY <1>1, RequestsEnd DEF Tick
<1>6. Holds(q) /\ asked'[q] = asked[q]
  BY <1>1, <1>5 DEF NoneNew
<1> QED BY <1>1, <1>4, <1>6 DEF Granted, Holds, KeysOf

LEMMA AskersStep ==
  ASSUME TypeOK, AskersAreYoung, [Next]_vars
  PROVE  AskersAreYoung'
<1> SUFFICES ASSUME NEW q \in Requests, at'[q] = "asking"
             PROVE  stamp'[q] <= CallTicks
  BY DEF AskersAreYoung
<1> DEFINE Before == at[q] = "asking" /\ stamp'[q] = stamp[q]
<1>1. Before => stamp'[q] <= CallTicks
  BY DEF AskersAreYoung
<1>2. ASSUME NEW r \in Requests, NEW i \in Replicas, NEW K \in Asks,
             NEW where \in {"asking", "admitted"}, Ask(i, r, K, where)
      PROVE  stamp'[q] <= CallTicks
  <2>1. CASE q = r
    BY <1>2, <2>1, SharedAssumption DEF Ask, TypeOK, ClockTypes
  <2>2. CASE q # r
    BY <1>1, <1>2, <2>2 DEF Ask, TypeOK, AskingTypes, ClockTypes
  <2> QED BY <2>1, <2>2
<1>3. CASE \E h \in Hybrid : HybridNext(h)
  <2>1. PICK h \in Hybrid : HybridNext(h)
    BY <1>3
  <2>2. CASE \E K \in Asks, r \in Requests : Admit(h, r, K)
    BY <1>2, <2>2 DEF Admit, Replicas
  <2>3. CASE ~\E K \in Asks, r \in Requests : Admit(h, r, K)
    <3>1. Before
      BY <2>1, <2>3 DEF HybridNext, AskHybrid, Refuse, Flush, Sync, SyncReads, SyncStores,
                        SyncTimesOut, Crash, asking, clocks, Forgotten
    <3> QED BY <1>1, <3>1
  <2> QED BY <2>2, <2>3
<1>4. CASE \E d \in Direct, r \in Requests, K \in Asks : AskDirect(d, r, K)
  BY <1>2, <1>4 DEF AskDirect, Replicas
<1>5. CASE \E r \in Requests : Answered(r) \/ NoAnswer(r) \/ Fails(r)
  <2>1. Before
    BY <1>5 DEF Answered, NoAnswer, Fails, Admitted, Forgotten, Retry, Ends, clocks, TypeOK, AskingTypes
  <2> QED BY <1>1, <2>1
<1>6. CASE \E r \in Requests, k \in Keys : ReportDirect(r, k) \/ ReportHybrid(r, k)
  <2>1. PICK r \in Requests : (Retry(r) \/ Told(r)) /\ UNCHANGED stamp
    BY <1>6 DEF ReportDirect, ReportHybrid
  <2>2. Before
    BY <2>1 DEF Forgotten, Retry, Told, Ends, TypeOK, AskingTypes
  <2> QED BY <1>1, <2>2
<1>7. CASE \E i \in Replicas : DeletePart(i) \/ \E j \in ModelKeys : DeleteKey(i, j)
  <2>1. Before
    BY <1>7 DEF DeletePart, DeleteKey, Without, asking, clocks
  <2> QED BY <1>1, <2>1
<1>8. CASE Tick
  <2>1. at[q] = "asking"
    BY <1>8 DEF Tick, Forgotten, TypeOK, AskingTypes
  <2>2. stamp[q] \in 0 .. Horizon /\ stamp[q] < CallTicks
    BY <1>8, <2>1, StampType DEF Tick
  <2>3. stamp'[q] = IF stamp[q] < Horizon THEN stamp[q] + 1 ELSE Horizon
    BY <1>8 DEF Tick, Older
  <2> QED BY <2>2, <2>3, SharedAssumption DEF Horizon
<1>9. CASE UNCHANGED vars
  <2>1. Before
    BY <1>9 DEF vars, asking, clocks
  <2> QED BY <1>1, <2>1
<1> QED BY <1>3, <1>4, <1>5, <1>6, <1>7, <1>8, <1>9 DEF Next

LEMMA KeptStep ==
  ASSUME TypeOK, NoneRemoved, YoungAreKept, [Next]_vars
  PROVE  YoungAreKept'
<1> SUFFICES ASSUME deletes' = 0, NEW c \in RequestCounters, NEW q \in Granted(c)',
                    stamp'[q] < Window
             PROVE  Member(q) \in zset'[c]
  BY DEF YoungAreKept, Member
<1>1. deletes = 0 /\ deletes' = deletes
  BY DeletesGrow DEF TypeOK
<1>2. c \in Counters /\ c[2] = "rpm" /\ \A r : Age(r, c) = stamp[r] /\ Age(r, c)' = stamp'[r]
  BY CounterType DEF RequestCounters, Age
<1>3. ASSUME q \in Granted(c), stamp[q] < Window
      PROVE  Member(q) \in zset[c]
  BY <1>1, <1>3 DEF YoungAreKept
<1>4. Member(q)[1] = q
  BY DEF Member
<1>5. CASE Tick
  <2>1. q \in Granted(c) /\ stamp'[q] = stamp[q] + 1
    BY <1>5, TickAges
  <2>2. q \in Requests
    BY <2>1 DEF Granted
  <2>3. stamp[q] \in 0 .. Horizon
    BY <2>2, StampType
  <2>4. stamp[q] < Window /\ stamp'[q] < Horizon
    BY <2>1, <2>3, HorizonType, SharedAssumption
  <2>5. Member(q) \in zset[c]
    BY <1>3, <2>1, <2>4
  <2>6. zset' = [d \in Counters |-> {m \in zset[d] : Age(m[1], d)' < Horizon}]
    BY <1>5 DEF Tick
  <2>7. zset'[c] = {m \in zset[c] : Age(m[1], c)' < Horizon}
    BY <1>2, <2>6
  <2>8. Age(Member(q)[1], c)' = stamp'[q]
    BY <1>2, <1>4 DEF Member, Age
  <2> QED BY <1>2, <1>4, <2>4, <2>5, <2>7, <2>8 DEF Age
<1>6. CASE \E r \in Requests : Answered(r) /\ Script(r).allowed
  <2>1. PICK r \in Requests : Answered(r) /\ Script(r).allowed
    BY <1>6
  <2>2. zset' = Script(r).zset /\ UNCHANGED stamp /\ Admitted(r)
    BY <2>1 DEF Answered, clocks
  <2>3. CASE q = r
    <3>1. c[1] \in KeysOf(r)
      BY <2>2, <2>3 DEF Granted, Admitted, KeysOf
    <3>2. c \in CountersOf(KeysOf(r))
      BY <1>2, <3>1 DEF CountersOf
    <3>3. Member(r) \in Script(r).zset[c]
      BY <1>2, <2>1, <3>2 DEF Script
    <3> QED BY <2>2, <2>3, <3>3
  <2>4. CASE q # r
    <3>1. q \in Granted(c) /\ stamp'[q] = stamp[q]
      BY <2>2, <2>4 DEF Granted, Admitted, KeysOf, TypeOK, AskingTypes
    <3>2. Member(q) \in zset[c]
      BY <1>3, <3>1
    <3> QED BY <1>4, <2>2, <3>1, <3>2, ScriptKeeps
  <2> QED BY <2>3, <2>4
<1>7. CASE ~Tick /\ ~\E r \in Requests : Answered(r) /\ Script(r).allowed
  <2>1. Undisturbed(c)
    BY <1>1, <1>7, OthersDisturbNone
  <2>2. q \in Granted(c) /\ stamp[q] < Window
    BY <2>1 DEF Undisturbed
  <2> QED BY <1>3, <1>4, <2>1, <2>2 DEF Undisturbed
<1> QED BY <1>5, <1>6, <1>7

\* The requests that have a member in a set.
Owners(S) == {q \in Requests : Member(q) \in S}

LEMMA OwnersAreMembers ==
  ASSUME NEW S \in SUBSET (Members)
  PROVE  IsFiniteSet(Owners(S)) /\ Cardinality(Owners(S)) <= Cardinality(S)
<1> DEFINE member == [q \in Owners(S) |-> Member(q)]
<1>1. member \in Injection(Owners(S), S)
  <2>1. member \in [Owners(S) -> S]
    BY DEF Owners
  <2>2. \A p, q \in Owners(S) : member[p] = member[q] => p = q
    BY DEF Member
  <2> HIDE DEF member
  <2> QED BY <2>1, <2>2 DEF Injection, IsInjective
<1> HIDE DEF member
<1> QED BY <1>1, MembersFinite, FS_Injection

LEMMA SmallerIsWithin ==
  ASSUME NEW S \in SUBSET Requests, NEW T \in SUBSET S, NEW n \in Int, Cardinality(S) <= n
  PROVE  Cardinality(T) <= n
<1>1. IsFiniteSet(S)
  BY SharedAssumption, FS_Subset
<1>2. IsFiniteSet(T) /\ Cardinality(T) <= Cardinality(S)
  BY <1>1, FS_Subset
<1>3. Cardinality(S) \in Nat /\ Cardinality(T) \in Nat
  BY <1>1, <1>2, FS_CardinalityType
<1> QED BY <1>2, <1>3

\* The grants of one stretch of time.
Stretch(age) == age .. age + Window - CallTicks - 1
GrantedIn(c, age) == {r \in Granted(c) : stamp[r] \in Stretch(age)}

\* An admission finds all others of its stretch, so there is room for it.
LEMMA AdmissionFits ==
  ASSUME TypeOK, AskersAreYoung, YoungAreKept, deletes = 0,
         NEW r \in Requests, Answered(r), Script(r).allowed,
         NEW c \in RequestCounters, NEW age \in 0 .. Horizon, r \in GrantedIn(c, age)'
  PROVE  Cardinality(GrantedIn(c, age)') <= Limit[c]
<1> DEFINE b == stamp[r]
           clean == Cleaned(CountersOf(KeysOf(r)), b, zset)
<1>1. c \in Counters /\ c[2] = "rpm" /\ Limit[c] \in Nat /\ \A q : Age(q, c) = stamp[q]
  BY CounterType
<1>2. UNCHANGED stamp /\ Admitted(r)
  BY DEF Answered, clocks
<1>3. /\ b \in 0 .. Horizon /\ b <= CallTicks /\ b >= age
      /\ age \in Nat /\ CallTicks \in Nat /\ Window \in Nat /\ CallTicks < Window
  <2>1. b \in 0 .. Horizon
    BY StampType
  <2>2. at[r] = "asking"
    BY DEF Answered, InRedis
  <2>3. b <= CallTicks
    BY <2>2 DEF AskersAreYoung
  <2>4. b \in age .. age + Window - CallTicks - 1
    BY <1>2 DEF GrantedIn, Stretch
  <2> QED BY <2>1, <2>3, <2>4, HorizonType, SharedAssumption
<1>4. c \in CountersOf(KeysOf(r))
  <2>1. c[1] \in KeysOf(r)
    BY <1>2 DEF GrantedIn, Granted, Admitted, KeysOf
  <2> QED BY <1>1, <2>1 DEF CountersOf
<1>5. clean[c] \in SUBSET Members
  BY <1>1, CleanedType
<1>6. Cardinality(clean[c]) \in Nat /\ Cardinality(clean[c]) < Limit[c]
  <2>1. Cardinality(clean[c]) \in Nat
    BY <1>5, MembersFinite, FS_CardinalityType
  <2>2. Weigh(c, clean[c]) < Limit[c]
    BY <1>4 DEF Script
  <2>3. Weigh(c, clean[c]) = Cardinality(clean[c])
    <3>1. Weigh(c, clean[c]) = Cardinality(clean[c]) * 1
      BY <1>1 DEF Weigh
    <3> QED BY <2>1, <3>1
  <2> QED BY <2>1, <2>2, <2>3
<1>7. GrantedIn(c, age)' \subseteq Owners(clean[c]) \cup {r}
  <2> SUFFICES ASSUME NEW q \in GrantedIn(c, age)', q # r
               PROVE  q \in Owners(clean[c])
    OBVIOUS
  <2>1. /\ q \in Requests /\ q \in Granted(c)
        /\ stamp[q] \in age .. age + Window - CallTicks - 1
    BY <1>2 DEF GrantedIn, Granted, Stretch, Admitted, KeysOf, TypeOK, AskingTypes
  <2>2. stamp[q] \in Int /\ stamp[q] < Window /\ stamp[q] - b < Window
    BY <1>3, <2>1
  <2>3. Member(q) \in zset[c]
    BY <2>1, <2>2 DEF YoungAreKept
  <2>4. Member(q)[1] = q
    BY DEF Member
  <2>5. Member(q) \in clean[c]
    <3> HIDE DEF b
    <3> QED BY <1>1, <1>4, <2>2, <2>3, <2>4 DEF Cleaned, Fresh
  <2> QED BY <2>1, <2>5 DEF Owners
<1>8. Cardinality(Owners(clean[c]) \cup {r}) <= Limit[c]
  <2> HIDE DEF clean
  <2>1. IsFiniteSet(Owners(clean[c])) /\ Cardinality(Owners(clean[c])) <= Cardinality(clean[c])
    BY <1>5, OwnersAreMembers
  <2>2. Cardinality(Owners(clean[c]) \cup {r}) = IF r \in Owners(clean[c])
          THEN Cardinality(Owners(clean[c])) ELSE Cardinality(Owners(clean[c])) + 1
    BY <2>1, FS_AddElement
  <2>3. Cardinality(Owners(clean[c])) \in Nat
    BY <2>1, FS_CardinalityType
  <2> QED BY <1>1, <1>6, <2>1, <2>2, <2>3
<1>9. Owners(clean[c]) \cup {r} \in SUBSET Requests
  BY DEF Owners
<1> QED BY <1>1, <1>7, <1>8, <1>9, SmallerIsWithin

LEMMA LimitStep ==
  ASSUME TypeOK, AskersAreYoung, NoneRemoved, YoungAreKept, DirectWithinLimit, [Next]_vars
  PROVE  DirectWithinLimit'
<1> SUFFICES ASSUME NEW c \in RequestCounters, deletes' = 0, NEW age \in 0 .. Horizon
             PROVE  Cardinality(GrantedIn(c, age)') <= Limit[c]
  BY DEF DirectWithinLimit, GrantedIn, Stretch
<1>1. deletes = 0 /\ deletes' = deletes
  BY DeletesGrow DEF TypeOK
<1>2. Limit[c] \in Int
  BY CounterType
<1>3. ASSUME NEW a \in 0 .. Horizon, GrantedIn(c, age)' \subseteq GrantedIn(c, a)
      PROVE  Cardinality(GrantedIn(c, age)') <= Limit[c]
  <2>1. Cardinality(GrantedIn(c, a)) <= Limit[c]
    BY <1>1 DEF DirectWithinLimit, GrantedIn, Stretch
  <2>2. GrantedIn(c, a) \in SUBSET Requests
    BY DEF GrantedIn, Granted
  <2> QED BY <1>2, <1>3, <2>1, <2>2, SmallerIsWithin
<1>4. CASE Tick
  <2> DEFINE a == IF age = 0 THEN 0 ELSE age - 1
  <2>1. a \in 0 .. Horizon
    BY HorizonType
  <2>2. GrantedIn(c, age)' \subseteq GrantedIn(c, a)
    <3> SUFFICES ASSUME NEW q \in GrantedIn(c, age)'
                 PROVE  q \in GrantedIn(c, a)
      OBVIOUS
    <3>1. q \in Granted(c)' /\ stamp'[q] \in age .. age + Window - CallTicks - 1
      BY DEF GrantedIn, Stretch
    <3>2. q \in Granted(c) /\ stamp'[q] = stamp[q] + 1
      BY <1>4, <3>1, TickAges
    <3>3. stamp[q] \in 0 .. Horizon
      BY <3>2, StampType DEF Granted
    <3>4. stamp[q] \in a .. a + Window - CallTicks - 1
      <4>1. /\ Horizon \in Nat /\ Window \in Nat /\ CallTicks \in Nat /\ CallTicks < Window
            /\ age \in Nat
        BY HorizonType, SharedAssumption
      <4> QED BY <3>1, <3>2, <3>3, <4>1
    <3> QED BY <3>2, <3>4 DEF GrantedIn, Stretch
  <2> HIDE DEF a
  <2> QED BY <1>3, <2>1, <2>2
<1>5. CASE \E r \in Requests : Answered(r) /\ Script(r).allowed
  <2>1. PICK r \in Requests : Answered(r) /\ Script(r).allowed
    BY <1>5
  <2>2. CASE r \in GrantedIn(c, age)'
    BY <1>1, <2>1, <2>2, AdmissionFits
  <2>3. CASE r \notin GrantedIn(c, age)'
    <3>1. UNCHANGED stamp /\ Admitted(r)
      BY <2>1 DEF Answered, clocks
    <3>2. GrantedIn(c, age)' \subseteq GrantedIn(c, age)
      BY <2>3, <3>1 DEF GrantedIn, Granted, Admitted, KeysOf, Stretch, TypeOK, AskingTypes
    <3> QED BY <1>3, <3>2
  <2> QED BY <2>2, <2>3
<1>6. CASE ~Tick /\ ~\E r \in Requests : Answered(r) /\ Script(r).allowed
  <2>1. Undisturbed(c)
    BY <1>1, <1>6, OthersDisturbNone
  <2>2. GrantedIn(c, age)' \subseteq GrantedIn(c, age)
    BY <2>1 DEF Undisturbed, GrantedIn, Stretch
  <2> QED BY <1>3, <2>2
<1> QED BY <1>4, <1>5, <1>6

-----------------------------------------------------------------------------
(* The limit of a hybrid replica, and the entries in Redis.                *)

\* An estimate of what others use only takes away from the limit.
LEMMA RoomIsWithinLimit ==
  ASSUME TypeOK, NEW h \in Hybrid, NEW K, HasRoom(h, K),
         NEW c \in RequestCounters, c[1] \in Range(K)
  PROVE  Cardinality(local[h][c]) < Limit[c]
<1>1. c \in Counters /\ c[2] = "rpm" /\ Limit[c] \in Nat
  BY CounterType
<1>2. remoteStats[h][c] \in Nat /\ c \in CountersOf(Range(K))
  BY <1>1 DEF TypeOK, CountersOf
<1>3. Cardinality(local[h][c]) \in Nat
  <2>1. local[h][c] \in SUBSET Requests
    BY <1>1 DEF TypeOK
  <2> QED BY <2>1, SharedAssumption, FS_Subset, FS_CardinalityType
<1>4. Weigh(c, local[h][c]) = Cardinality(local[h][c])
  <2>1. Weigh(c, local[h][c]) = Cardinality(local[h][c]) * 1
    BY <1>1 DEF Weigh
  <2> QED BY <1>3, <2>1
<1>5. Weigh(c, local[h][c]) < Effective(h)[c]
  BY <1>2 DEF HasRoom
<1>6. Effective(h)[c] = IF Limit[c] > remoteStats[h][c] THEN Limit[c] - remoteStats[h][c] ELSE 0
  BY <1>1 DEF Effective
<1> QED BY <1>1, <1>2, <1>3, <1>4, <1>5, <1>6

LEMMA OwnStep ==
  ASSUME TypeOK, OwnWithinLimit, [Next]_vars
  PROVE  OwnWithinLimit'
<1> SUFFICES ASSUME NEW g \in Hybrid, NEW c \in RequestCounters
             PROVE  Cardinality(local'[g][c]) <= Limit[c]
  BY DEF OwnWithinLimit
<1>1. /\ c \in Counters /\ Limit[c] \in Nat
      /\ \A K : c \notin K \X {"tpm"}
  BY CounterType DEF RequestCounters
<1>2. local[g][c] \in SUBSET Requests /\ Cardinality(local[g][c]) <= Limit[c]
  BY <1>1 DEF TypeOK, OwnWithinLimit
<1>3. ASSUME local'[g][c] \subseteq local[g][c]
      PROVE  Cardinality(local'[g][c]) <= Limit[c]
  BY <1>1, <1>2, <1>3, SmallerIsWithin
<1>4. ASSUME NEW h \in Hybrid, HybridNext(h)
      PROVE  Cardinality(local'[g][c]) <= Limit[c]
  <2>1. CASE \E K \in Asks, r \in Requests : Admit(h, r, K)
    <3>1. PICK K \in Asks, r \in Requests : Admit(h, r, K)
      BY <2>1
    <3>2. HasRoom(h, K) /\ Count(h, r, K, "rpm")
      BY <3>1 DEF Admit
    <3>3. CASE g = h /\ c \in Range(K) \X {"rpm"}
      <4>1. local'[g][c] = local[g][c] \cup {r}
        BY <1>1, <3>2, <3>3 DEF Count, TypeOK
      <4>2. c[1] \in Range(K)
        BY <3>3
      <4>3. Cardinality(local[g][c]) < Limit[c]
        BY <3>2, <3>3, <4>2, RoomIsWithinLimit
      <4>4. IsFiniteSet(local[g][c])
        BY <1>2, SharedAssumption, FS_Subset
      <4>5. Cardinality(local[g][c] \cup {r}) = IF r \in local[g][c]
              THEN Cardinality(local[g][c]) ELSE Cardinality(local[g][c]) + 1
        BY <4>4, FS_AddElement
      <4>6. Cardinality(local[g][c]) \in Nat
        BY <4>4, FS_CardinalityType
      <4> QED BY <1>1, <4>1, <4>3, <4>5, <4>6
    <3>4. CASE ~(g = h /\ c \in Range(K) \X {"rpm"})
      <4>1. local'[g][c] = local[g][c]
        BY <1>1, <3>2, <3>4 DEF Count, TypeOK
      <4> QED BY <1>3, <4>1
    <3> QED BY <3>3, <3>4
  <2>2. CASE ~\E K \in Asks, r \in Requests : Admit(h, r, K)
    <3>1. local'[g][c] \in {local[g][c], {}}
      <4>1. CASE AskHybrid(h)
        <5>1. PICK K \in Asks : Refuse(h, K)
          BY <2>2, <4>1 DEF AskHybrid
        <5> QED BY <5>1 DEF Refuse
      <4>2. CASE Flush(h) \/ Sync(h) \/ SyncTimesOut(h)
        BY <4>2 DEF Flush, Sync, SyncReads, SyncStores, SyncTimesOut
      <4>3. CASE Crash(h)
        <5>1. local' = [local EXCEPT ![h] = [d \in Counters |-> {}]]
          BY <4>3 DEF Crash
        <5> QED BY <1>1, <5>1 DEF TypeOK
      <4> QED BY <1>4, <4>1, <4>2, <4>3 DEF HybridNext
    <3> QED BY <1>3, <3>1
  <2> QED BY <2>1, <2>2
<1>5. CASE \/ \E d \in Direct, r \in Requests, K \in Asks : AskDirect(d, r, K)
           \/ \E r \in Requests : Answered(r) \/ NoAnswer(r) \/ Fails(r)
           \/ \E r \in Requests, k \in Keys : ReportDirect(r, k)
  <2>1. local' = local
    BY <1>5 DEF AskDirect, Answered, NoAnswer, Fails, ReportDirect, hybrids
  <2> QED BY <1>3, <2>1
<1>6. CASE \E r \in Requests, k \in Keys : ReportHybrid(r, k)
  <2>1. PICK r \in Requests, k \in Keys : Count(by[r], r, <<k>>, "tpm")
    BY <1>6 DEF ReportHybrid
  <2>2. local'[g][c] = local[g][c]
    BY <1>1, <2>1 DEF Count, TypeOK
  <2> QED BY <1>3, <2>2
<1>7. CASE \E i \in Replicas : DeletePart(i) \/ \E j \in ModelKeys : DeleteKey(i, j)
  <2>1. local'[g][c] \in {local[g][c], {}}
    <3>1. ASSUME NEW i, NEW K, NEW part, Without(i, K, part)
          PROVE  local'[g][c] \in {local[g][c], {}}
      BY <1>1, <3>1 DEF Without
    <3> QED BY <1>7, <3>1 DEF DeletePart, DeleteKey
  <2> QED BY <1>3, <2>1
<1>8. CASE Tick
  <2>1. local'[g][c] \subseteq local[g][c]
    BY <1>1, <1>8 DEF Tick
  <2> QED BY <1>3, <2>1
<1>9. CASE UNCHANGED vars
  BY <1>3, <1>9 DEF vars, hybrids
<1> QED BY <1>4, <1>5, <1>6, <1>7, <1>8, <1>9 DEF Next

LEMMA EntriesAreSingle == TypeOK => OneEntryEach
<1> SUFFICES ASSUME TypeOK, NEW c \in Counters, NEW m \in zset[c], NEW n \in zset[c], m[1] = n[1]
             PROVE  m = n
  BY DEF OneEntryEach
<1>1. m \in Members /\ n \in Members
  BY DEF TypeOK
<1> QED BY <1>1 DEF Members

-----------------------------------------------------------------------------
(* The theorems.                                                           *)

Inv ==
  /\ TypeOK
  /\ AskersAreYoung
  /\ NoneRemoved
  /\ YoungAreKept
  /\ DirectWithinLimit
  /\ OwnWithinLimit

LEMMA InitInv == Init => Inv
<1> SUFFICES ASSUME Init PROVE Inv
  OBVIOUS
<1>1. TypeOK
  BY InitTypes
<1>2. AskersAreYoung /\ NoneRemoved
  BY DEF Init, AskersAreYoung, NoneRemoved
<1>3. \A c : Granted(c) = {}
  BY DEF Init, Granted
<1>4. YoungAreKept
  BY <1>3 DEF YoungAreKept
<1>5. Cardinality({}) = 0 /\ \A c \in RequestCounters : c \in Counters /\ Limit[c] >= 0
  BY FS_EmptySet, CounterType
<1>6. DirectWithinLimit
  <2> SUFFICES ASSUME NEW c \in RequestCounters, NEW age \in 0 .. Horizon
               PROVE  Cardinality({r \in Granted(c) : stamp[r] \in
                                     age .. age + Window - CallTicks - 1}) <= Limit[c]
    BY DEF DirectWithinLimit
  <2>1. {r \in Granted(c) : stamp[r] \in age .. age + Window - CallTicks - 1} = {}
    BY <1>3
  <2> QED BY <1>5, <2>1
<1>7. OwnWithinLimit
  BY <1>5 DEF Init, OwnWithinLimit
<1> QED BY <1>1, <1>2, <1>4, <1>6, <1>7 DEF Inv

LEMMA StepInv == Inv /\ [Next]_vars => Inv'
BY TypesStep, AskersStep, RemovedStep, KeptStep, LimitStep, OwnStep DEF Inv

\* Direct replicas together stay within a limit in any stretch shorter than the
\* window by the length of a call, a hybrid replica stays within it on its own,
\* and a request is never entered twice; whatever is lost, late or repeated.
THEOREM LimitsAreShared == Spec => []SharedLimit
<1>1. Inv => SharedLimit
  BY EntriesAreSingle DEF Inv, SharedLimit
<1> QED BY <1>1, InitInv, StepInv, PTL DEF Spec

\* The limits of direct replicas are exact if a call takes no time: nothing but
\* the clock read before the first attempt makes them inexact.
THEOREM ExactWithoutDelay == ASSUME CallTicks = 0 PROVE Spec => []ExactAcrossReplicas
<1>1. Inv => ExactAcrossReplicas
  <2>1. \A age \in 0 .. Horizon : age .. age + Window - CallTicks - 1 = age .. age + Window - 1
    BY SharedAssumption, HorizonType
  <2>2. DirectWithinLimit <=> ExactAcrossReplicas
    BY <2>1, Zenon DEF DirectWithinLimit, ExactAcrossReplicas
  <2> QED BY <2>2 DEF Inv
<1> QED BY <1>1, InitInv, StepInv, PTL DEF Spec
=============================================================================
