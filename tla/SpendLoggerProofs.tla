------------------------ MODULE SpendLoggerProofs ------------------------
(***************************************************************************)
(* Proofs about SpendLogger, for every number of entries, every capacity,  *)
(* batch size, number of attempts and number of failures; and, after them, *)
(* about StreamRelay, where the entries of streamed answers come from, for *)
(* streams of any length and of any chunks the converters can read.        *)
(***************************************************************************)
EXTENDS SpendLogger, StreamRelay, SequenceTheorems, WellFoundedInduction, TLAPS

\* Where the worker's slice can live.  It moves to the second array only while
\* draining, and a dead letter lives there only once the worker has returned.
WorkerShape ==
    /\ pc["worker"] = "select" =>
          batch.arr = 1 /\ batch.len < BatchSize /\ ~closing["worker"]
    /\ pc["worker"] = "drain" => closing["worker"]
    /\ batch.arr = 2 => closing["worker"]

RecoveryShape ==
    /\ pc["recovery"] \in {"select", "flush", "done"}
    /\ dlqCopy # <<>> <=> pc["recovery"] = "flush"

SecondArray ==
    /\ \A i \in DOMAIN dlq : dlq[i].arr = 2 => pc["worker"] = "done"
    /\ \A i \in DOMAIN dlqCopy : dlqCopy[i].arr = 2 => pc["worker"] = "done"

\* The control state: slices, arrays, program counters, dead letters.
CtlOK ==
    /\ arrays \in [{1, 2} -> Seq(Entries)]
    /\ batch \in Slice /\ batch.len <= Len(arrays[batch.arr])
    /\ pc \in [Procs -> {"select", "drain", "flush", "backoff", "done"}]
    /\ attempt \in Nat /\ lastTry \in BOOLEAN
    /\ closing \in [Procs -> BOOLEAN]
    /\ dlq \in Seq(Slice) /\ dlqCopy \in Seq(Slice) /\ dlqCount \in Nat
    /\ \A i \in DOMAIN dlq : dlq[i].len <= Len(arrays[dlq[i].arr])
    /\ \A i \in DOMAIN dlqCopy : dlqCopy[i].len <= Len(arrays[dlqCopy[i].arr])
    /\ WorkerShape
    /\ RecoveryShape
    /\ SecondArray

\* The types of everything else.
DataOK ==
    /\ status \in [Entries -> {"idle", "parked", "queued", "dropped"}]
    /\ queue \in Seq(Entries)
    /\ tx \in [Procs -> {"none", "begun", "inserted"}]
    /\ params \in [Procs -> SUBSET Entries]
    /\ inserted \in [Procs -> SUBSET Entries]
    /\ charged \in [Procs -> SUBSET Entries]
    /\ rows \subseteq Entries
    /\ spent \in [Entries -> Nat]
    /\ daily \in [Aggregators -> [Entries -> Nat]]
    /\ pending \in Seq(SUBSET Entries)
    /\ job \subseteq Entries
    /\ aggPc \in {"range", "aggregate", "done"}
    /\ shutdown \in {"none", "waiting", "complete", "timeout"}
    /\ poolOpen \in BOOLEAN
    /\ faults \in Nat

\* A goroutine has a transaction only while it flushes.
TxShape == \A p \in Procs : tx[p] # "none" => pc[p] = "flush"

TypeInv == CtlOK /\ DataOK /\ TxShape

\* The inductive invariant contains the type invariant of the model.
LEMMA TypeInvOK == TypeInv => TypeOK
BY DEF TypeInv, CtlOK, DataOK, TypeOK
-----------------------------------------------------------------------------
(* Appending to the worker's batch.                                        *)

\* A function on 1 .. n with values in S is a sequence over S of length n.
LEMMA SeqOfFunction ==
    ASSUME NEW S, NEW n \in Nat, NEW f \in [1 .. n -> S]
    PROVE  f \in Seq(S) /\ Len(f) = n
BY SeqDef

\* What Append returns.
LEMMA AppendFacts ==
    ASSUME NEW S, NEW q \in Seq(S), NEW e \in S
    PROVE  /\ Append(q, e) \in Seq(S)
           /\ \A i \in DOMAIN Append(q, e) :
                 Append(q, e)[i] = e \/ \E j \in DOMAIN q : Append(q, e)[i] = q[j]
           /\ \A j \in DOMAIN q :
                 j \in DOMAIN Append(q, e) /\ Append(q, e)[j] = q[j]
           /\ Len(q) + 1 \in DOMAIN Append(q, e) /\ Append(q, e)[Len(q) + 1] = e
BY AppendProperties, LenProperties

\* What Tail returns: the same elements, one place earlier.
LEMMA TailFacts ==
    ASSUME NEW S, NEW q \in Seq(S), q # <<>>
    PROVE  /\ Head(q) \in S /\ Head(q) = q[1] /\ 1 \in DOMAIN q
           /\ Tail(q) \in Seq(S) /\ Len(Tail(q)) = Len(q) - 1
           /\ Len(q) \in Nat \ {0}
           /\ \A i \in DOMAIN Tail(q) : \E j \in DOMAIN q : Tail(q)[i] = q[j] /\ j # 1
           /\ \A j \in DOMAIN q : j = 1 \/ \E i \in DOMAIN Tail(q) : Tail(q)[i] = q[j]
<1>1. /\ Len(q) \in Nat \ {0} /\ DOMAIN q = 1 .. Len(q)
      /\ Tail(q) \in Seq(S) /\ Len(Tail(q)) = Len(q) - 1
      /\ DOMAIN Tail(q) = 1 .. Len(q) - 1
      /\ \A i \in 1 .. Len(q) - 1 : Tail(q)[i] = q[i + 1]
  BY HeadTailProperties, LenProperties, EmptySeq
<1>2. \A j \in DOMAIN q : j = 1 \/ (j - 1 \in DOMAIN Tail(q) /\ Tail(q)[j - 1] = q[j])
  BY <1>1
<1>3. \A i \in DOMAIN Tail(q) : i + 1 \in DOMAIN q /\ Tail(q)[i] = q[i + 1] /\ i + 1 # 1
  BY <1>1
<1>4. Head(q) = q[1] /\ Head(q) \in S
  BY HeadTailProperties
<1> QED BY <1>1, <1>2, <1>3, <1>4

\* After an append the batch is one longer, its array is a sequence of entries
\* that shows the old contents and the new entry, and no array got shorter
\* unless the batch moved to the second one.
LEMMA AppendToBatchFacts ==
    ASSUME NEW e \in Entries, ConstAssumption,
           arrays \in [{1, 2} -> Seq(Entries)],
           batch \in Slice, batch.len <= Len(arrays[batch.arr]),
           AppendToBatch(e)
    PROVE  /\ arrays' \in [{1, 2} -> Seq(Entries)]
           /\ batch' \in Slice /\ batch'.len = batch.len + 1
           /\ batch'.len <= Len(arrays'[batch'.arr])
           /\ Len(arrays[1]) <= Len(arrays'[1])
           /\ batch.arr = 2 => batch'.arr = 2 /\ Len(arrays[2]) <= Len(arrays'[2])
           /\ batch.arr = 1 /\ batch.len < BatchSize =>
                 batch'.arr = 1 /\ arrays'[2] = arrays[2]
           /\ \A i \in 1 .. batch.len : arrays'[batch'.arr][i] = arrays[batch.arr][i]
           /\ arrays'[batch'.arr][batch'.len] = e
           /\ \A k \in {1, 2} : \A i \in 1 .. Len(arrays'[k]) :
                 arrays'[k][i] = e \/ \E j \in {1, 2} :
                     i \in 1 .. Len(arrays[j]) /\ arrays'[k][i] = arrays[j][i]
<1> DEFINE old == arrays[batch.arr]
           n   == batch.len + 1
           m   == IF n > Len(old) THEN n ELSE Len(old)
           put == [i \in 1 .. m |-> IF i = n THEN e ELSE old[i]]
<1>1. /\ batch.arr \in {1, 2} /\ batch.len \in Nat
      /\ old \in Seq(Entries) /\ Len(old) \in Nat
      /\ \A i \in 1 .. Len(old) : old[i] \in Entries
  BY ElementOfSeq, LenProperties DEF Slice
<1>2. /\ m \in Nat /\ n \in 1 .. m /\ Len(old) <= m /\ n \in Nat
      /\ m = n \/ m = Len(old)
      /\ \A i \in 1 .. m : i # n => i \in 1 .. Len(old)
  BY <1>1
<1>3. put \in [1 .. m -> Entries]
  BY <1>1, <1>2
<1>4. put \in Seq(Entries) /\ Len(put) = m
  <2> HIDE DEF put, m
  <2> QED BY <1>2, <1>3, SeqOfFunction
<1>5. \A i \in 1 .. m : put[i] = IF i = n THEN e ELSE old[i]
  OBVIOUS
<1>6. BatchSize \in Nat
  BY DEF ConstAssumption
<1>7. CASE batch.arr = 1 /\ n > BatchSize
  <2>1. arrays' = [arrays EXCEPT ![2] = put] /\ batch' = [arr |-> 2, len |-> n]
    BY <1>7 DEF AppendToBatch
  <2> HIDE DEF put, m
  <2>2. arrays'[2] = put /\ arrays'[1] = arrays[1] /\ arrays' \in [{1, 2} -> Seq(Entries)]
    BY <2>1, <1>4
  <2> QED BY <2>1, <2>2, <1>1, <1>2, <1>4, <1>5, <1>6, <1>7 DEF Slice
<1>8. CASE ~(batch.arr = 1 /\ n > BatchSize)
  <2>1. arrays' = [arrays EXCEPT ![batch.arr] = put] /\ batch' = [batch EXCEPT !.len = n]
    BY <1>8 DEF AppendToBatch
  <2> HIDE DEF put, m
  <2>2. /\ arrays'[batch.arr] = put
        /\ \A k \in {1, 2} : k # batch.arr => arrays'[k] = arrays[k]
        /\ arrays' \in [{1, 2} -> Seq(Entries)]
    BY <2>1, <1>1, <1>4
  <2>3. batch' \in Slice /\ batch'.arr = batch.arr /\ batch'.len = n
    <3>1. n \in Nat
      BY <1>1
    <3> HIDE DEF n
    <3> QED BY <2>1, <3>1 DEF Slice
  <2>4. arrays'[batch'.arr] = put /\ Len(put) = m
    BY <2>2, <2>3, <1>4
  <2>5. /\ arrays' \in [{1, 2} -> Seq(Entries)]
        /\ batch' \in Slice /\ batch'.len = batch.len + 1
        /\ batch'.len <= Len(arrays'[batch'.arr])
        /\ batch.arr = 1 /\ batch.len < BatchSize =>
              batch'.arr = 1 /\ arrays'[2] = arrays[2]
    BY <2>2, <2>3, <2>4, <1>1, <1>2
  <2>6. \A k \in {1, 2} : Len(arrays[k]) <= Len(arrays'[k])
    BY <2>2, <2>4, <1>1, <1>2, LenProperties
  <2>7. /\ \A i \in 1 .. batch.len : arrays'[batch'.arr][i] = arrays[batch.arr][i]
        /\ arrays'[batch'.arr][batch'.len] = e
    BY <2>3, <2>4, <1>1, <1>2, <1>5
  <2>8. \A k \in {1, 2} : \A i \in 1 .. Len(arrays'[k]) :
            arrays'[k][i] = e \/ \E j \in {1, 2} :
                i \in 1 .. Len(arrays[j]) /\ arrays'[k][i] = arrays[j][i]
    BY <2>2, <2>3, <2>4, <1>1, <1>2, <1>5
  <2> QED BY <2>3, <2>5, <2>6, <2>7, <2>8
<1> QED BY <1>7, <1>8
-----------------------------------------------------------------------------
(* What the slices show.                                                   *)

\* A slice that does not reach past its array shows entries only.
LEMMA ContentsType ==
    ASSUME CtlOK, NEW s \in Slice, s.len <= Len(arrays[s.arr])
    PROVE  Contents(s) \subseteq Entries
<1>1. s.arr \in {1, 2} /\ s.len \in Nat
  BY DEF Slice
<1>2. arrays[s.arr] \in Seq(Entries)
  BY <1>1 DEF CtlOK
<1> QED BY <1>1, <1>2, ElementOfSeq, LenProperties DEF Contents

\* A flushing goroutine has a slice to flush.
LEMMA CurrentType ==
    ASSUME CtlOK, NEW p \in Procs, pc[p] = "flush"
    PROVE  /\ Current(p) \in Slice
           /\ Current(p).len <= Len(arrays[Current(p).arr])
           /\ Contents(Current(p)) \subseteq Entries
<1>1. CASE p = "worker"
  BY <1>1, ContentsType DEF CtlOK, Current
<1>2. CASE p = "recovery"
  <2>1. dlqCopy \in Seq(Slice) /\ dlqCopy # <<>>
    BY <1>2 DEF CtlOK, RecoveryShape
  <2>2. Current(p) = dlqCopy[1] /\ 1 \in DOMAIN dlqCopy
    BY <1>2, <2>1 DEF Current
  <2>3. Current(p) \in Slice /\ Current(p).len <= Len(arrays[Current(p).arr])
    BY <2>1, <2>2 DEF CtlOK
  <2> QED BY <2>3, ContentsType
<1> QED BY <1>1, <1>2 DEF Procs
-----------------------------------------------------------------------------
(* The end of an attempt.                                                  *)

\* The end of flushBatch preserves the control state, whatever it left in
\* the DLQ.
LEMMA WorkerFlushedCtl ==
    ASSUME CtlOK, pc["worker"] = "flush", WorkerFlushed,
           UNCHANGED dlqVars \/ AddToDLQ(batch)
    PROVE  CtlOK' /\ pc'["recovery"] = pc["recovery"]
<1>1. /\ batch' \in Slice /\ batch'.arr = batch.arr /\ batch'.len = 0
      /\ batch \in Slice
  BY DEF CtlOK, WorkerFlushed, Slice
<1>2. /\ pc' \in [Procs -> {"select", "drain", "flush", "backoff", "done"}]
      /\ pc'["recovery"] = pc["recovery"]
      /\ pc'["worker"] = IF closing["worker"] THEN "done" ELSE "select"
      /\ arrays' = arrays /\ closing' = closing
      /\ attempt' = 0 /\ lastTry' = FALSE
  BY DEF CtlOK, WorkerFlushed, Procs
<1>3. /\ dlq' \in Seq(Slice) /\ dlqCount' \in Nat /\ dlqCopy' = dlqCopy
      /\ \A i \in DOMAIN dlq' : dlq'[i] = batch \/ \E j \in DOMAIN dlq : dlq'[i] = dlq[j]
  <2>1. dlq \in Seq(Slice) /\ dlqCount \in Nat
    BY DEF CtlOK
  <2>2. CASE UNCHANGED dlqVars
    BY <2>1, <2>2 DEF dlqVars
  <2>3. CASE AddToDLQ(batch)
    <3> DEFINE keep == IF Len(dlq) >= DLQMax THEN Tail(dlq) ELSE dlq
    <3>1. Len(dlq) >= DLQMax => dlq # <<>>
      BY <2>1, EmptySeq, ConstAssumption DEF ConstAssumption
    <3>2. keep \in Seq(Slice) /\ \A i \in DOMAIN keep : \E j \in DOMAIN dlq : keep[i] = dlq[j]
      BY <2>1, <3>1, TailFacts
    <3>3. dlq' = Append(keep, batch) /\ dlqCount' = dlqCount + 1 /\ dlqCopy' = dlqCopy
      BY <2>3 DEF AddToDLQ
    <3> HIDE DEF keep
    <3> QED BY <1>1, <2>1, <3>2, <3>3, AppendFacts
  <2> QED BY <2>2, <2>3
<1>4. \A k \in {1, 2} : Len(arrays[k]) \in Nat
  BY DEF CtlOK
<1>5. WorkerShape'
  BY <1>1, <1>2, ConstAssumption DEF CtlOK, WorkerShape, ConstAssumption, Slice
<1>6. RecoveryShape'
  BY <1>2, <1>3 DEF CtlOK, RecoveryShape
<1>7. SecondArray'
  BY <1>2, <1>3 DEF CtlOK, SecondArray, WorkerShape
<1>8. batch'.len <= Len(arrays'[batch'.arr])
  BY <1>1, <1>2, <1>4 DEF Slice
<1>9. \A i \in DOMAIN dlq' : dlq'[i].len <= Len(arrays'[dlq'[i].arr])
  BY <1>2, <1>3 DEF CtlOK
<1> QED BY <1>1, <1>2, <1>3, <1>5, <1>6, <1>7, <1>8, <1>9 DEF CtlOK

\* The step of flushDLQ to its next batch preserves the control state.
LEMMA RecoveryNextCtl ==
    ASSUME CtlOK, pc["recovery"] = "flush", RecoveryNext,
           dlq' = dlq \/ dlq' = Append(dlq, Head(dlqCopy))
    PROVE  CtlOK' /\ pc'["worker"] = pc["worker"]
<1>1. /\ dlqCopy \in Seq(Slice) /\ dlqCopy # <<>> /\ dlq \in Seq(Slice)
      /\ Len(dlqCopy) \in Nat \ {0}
  BY EmptySeq DEF CtlOK, RecoveryShape
<1>2. /\ Head(dlqCopy) \in Slice /\ Head(dlqCopy) = dlqCopy[1]
      /\ 1 \in DOMAIN dlqCopy
      /\ dlqCopy' \in Seq(Slice) /\ Len(dlqCopy') = Len(dlqCopy) - 1
      /\ \A i \in DOMAIN dlqCopy' : \E j \in DOMAIN dlqCopy : dlqCopy'[i] = dlqCopy[j]
  BY <1>1, HeadTailProperties, SMTT(20) DEF RecoveryNext
<1>3. /\ dlq' \in Seq(Slice)
      /\ \A i \in DOMAIN dlq' : dlq'[i] = dlqCopy[1] \/ \E j \in DOMAIN dlq : dlq'[i] = dlq[j]
  <2>1. CASE dlq' = dlq
    BY <1>1, <2>1
  <2>2. CASE dlq' = Append(dlq, Head(dlqCopy))
    BY <1>1, <1>2, <2>2, AppendFacts
  <2> QED BY <2>1, <2>2
<1>4. /\ pc' \in [Procs -> {"select", "drain", "flush", "backoff", "done"}]
      /\ pc'["worker"] = pc["worker"]
      /\ pc'["recovery"] = IF Len(dlqCopy) > 1 THEN "flush"
                           ELSE IF closing["recovery"] THEN "done" ELSE "select"
      /\ arrays' = arrays /\ batch' = batch /\ closing' = closing
      /\ attempt' = attempt /\ lastTry' = lastTry /\ dlqCount' = dlqCount
  BY DEF CtlOK, RecoveryNext, Procs, bufVars
<1>5. RecoveryShape'
  BY <1>1, <1>2, <1>4, EmptySeq DEF RecoveryShape
<1>6. WorkerShape' /\ SecondArray'
  BY <1>2, <1>3, <1>4 DEF CtlOK, WorkerShape, SecondArray
<1>7. /\ \A i \in DOMAIN dlq' : dlq'[i].len <= Len(arrays'[dlq'[i].arr])
      /\ \A i \in DOMAIN dlqCopy' : dlqCopy'[i].len <= Len(arrays'[dlqCopy'[i].arr])
  BY <1>2, <1>3, <1>4 DEF CtlOK
<1> QED BY <1>2, <1>3, <1>4, <1>5, <1>6, <1>7 DEF CtlOK

\* Whatever way an attempt ends, the control state stays well formed and the
\* other goroutine where it was.
LEMMA OnSuccessCtl ==
    ASSUME CtlOK, NEW p \in Procs, pc[p] = "flush", OnSuccess(p)
    PROVE  CtlOK' /\ pc'[Other(p)] = pc[Other(p)]
<1>1. CASE p = "worker"
  BY <1>1, WorkerFlushedCtl DEF OnSuccess, Other
<1>2. CASE p = "recovery"
  BY <1>2, RecoveryNextCtl DEF OnSuccess, Other
<1> QED BY <1>1, <1>2 DEF Procs

\* So does a failed attempt of either goroutine.
LEMMA OnFailureCtl ==
    ASSUME CtlOK, NEW p \in Procs, pc[p] = "flush", OnFailure(p)
    PROVE  CtlOK' /\ pc'[Other(p)] = pc[Other(p)]
<1>1. CASE p = "worker" /\ (lastTry \/ attempt + 1 = MaxAttempts)
  BY <1>1, WorkerFlushedCtl DEF OnFailure, WorkerFailed, Other
<1>2. CASE p = "worker" /\ ~(lastTry \/ attempt + 1 = MaxAttempts)
  BY <1>2 DEF OnFailure, WorkerFailed, Other, CtlOK, WorkerShape,
              RecoveryShape, SecondArray, bufVars, dlqVars, Procs
<1>3. CASE p = "recovery"
  BY <1>3, RecoveryNextCtl DEF OnFailure, Other
<1> QED BY <1>1, <1>2, <1>3 DEF Procs
-----------------------------------------------------------------------------
(* Type correctness.                                                       *)

\* Counting some entries once more gives counters again.
LEMMA BumpType ==
    ASSUME NEW f \in [Entries -> Nat], NEW S
    PROVE  Bump(f, S) \in [Entries -> Nat]
BY DEF Bump

\* A receive leaves a queue of entries and caller states, and what it hands
\* out is an entry.
LEMMA DequeueType ==
    ASSUME DataOK, Dequeue
    PROVE  /\ queue' \in Seq(Entries)
           /\ status' \in [Entries -> {"idle", "parked", "queued", "dropped"}]
           /\ Head(queue) \in Entries
<1>1. /\ queue \in Seq(Entries) /\ queue # <<>>
      /\ Tail(queue) \in Seq(Entries) /\ Head(queue) \in Entries
  BY TailFacts DEF DataOK, Dequeue
<1>2. CASE Parked = {} /\ queue' = Tail(queue) /\ UNCHANGED status
  BY <1>1, <1>2 DEF DataOK
<1>3. ASSUME NEW e \in Parked, queue' = Append(Tail(queue), e),
             status' = [status EXCEPT ![e] = "queued"]
      PROVE  /\ queue' \in Seq(Entries)
             /\ status' \in [Entries -> {"idle", "parked", "queued", "dropped"}]
  BY <1>1, <1>3, AppendProperties DEF Parked, DataOK
<1> QED BY <1>1, <1>2, <1>3 DEF Dequeue

\* The parts of TypeInv a step leaves alone.
LEMMA CtlUnchanged ==
    ASSUME CtlOK, UNCHANGED <<bufVars, ctlVars, dlqVars>>
    PROVE  CtlOK'
BY DEF CtlOK, bufVars, ctlVars, dlqVars, WorkerShape, RecoveryShape, SecondArray

\* TypeInv holds initially.
LEMMA TypeInvInit == Init => TypeInv
<1> SUFFICES ASSUME Init PROVE TypeInv
  OBVIOUS
<1>1. <<>> \in Seq(Entries) /\ <<>> \in Seq(Slice) /\ <<>> \in Seq(SUBSET Entries)
      /\ Len(<<>>) = 0 /\ DOMAIN <<>> = {}
  BY EmptySeq
<1>2. CtlOK
  <2>1. /\ arrays \in [{1, 2} -> Seq(Entries)]
        /\ batch \in Slice /\ batch.len <= Len(arrays[batch.arr])
    BY <1>1 DEF Init, Slice
  <2>2. /\ pc \in [Procs -> {"select", "drain", "flush", "backoff", "done"}]
        /\ attempt \in Nat /\ lastTry \in BOOLEAN
        /\ closing \in [Procs -> BOOLEAN]
        /\ dlq \in Seq(Slice) /\ dlqCopy \in Seq(Slice) /\ dlqCount \in Nat
        /\ DOMAIN dlq = {} /\ DOMAIN dlqCopy = {}
    BY <1>1 DEF Init, Procs
  <2>3. WorkerShape
    BY ConstAssumption DEF Init, WorkerShape, Procs, ConstAssumption
  <2>4. RecoveryShape /\ SecondArray
    BY <2>2 DEF Init, RecoveryShape, SecondArray, Procs
  <2> QED BY <2>1, <2>2, <2>3, <2>4 DEF CtlOK
<1>3. DataOK /\ TxShape
  BY <1>1 DEF Init, DataOK, TxShape, Procs
<1> QED BY <1>2, <1>3 DEF TypeInv

\* TypeInv is preserved by every action.
LEMMA TypeInvStep == TypeInv /\ [Next]_vars => TypeInv'
<1> SUFFICES ASSUME TypeInv, [Next]_vars PROVE TypeInv'
  OBVIOUS
<1> USE DEF TypeInv
<1> USE DEF logVars, txVars, dbVars, aggVars, lifeVars
<1>1. ASSUME NEW e \in Entries, LogSend(e) PROVE TypeInv'
  BY <1>1, CtlUnchanged, AppendProperties DEF LogSend, DataOK, TxShape, ctlVars
<1>2. ASSUME NEW e \in Entries, LogPark(e) PROVE TypeInv'
  BY <1>2, CtlUnchanged DEF LogPark, DataOK, TxShape, ctlVars
<1>3. ASSUME NEW e \in Entries, LogTimeout(e) PROVE TypeInv'
  BY <1>3, CtlUnchanged DEF LogTimeout, DataOK, TxShape, ctlVars
<1>4. ASSUME pc["worker"] \in {"select", "drain"}, Dequeue,
             AppendToBatch(Head(queue)),
             UNCHANGED <<attempt, lastTry, closing, txVars, dbVars, dlqVars,
                         aggVars, lifeVars, faults>>,
             pc' \in [Procs -> {"select", "drain", "flush", "backoff", "done"}],
             pc'["recovery"] = pc["recovery"],
             pc["worker"] = "select" => pc'["worker"] =
                 IF batch'.len >= BatchSize THEN "flush" ELSE "select",
             pc["worker"] = "drain" => pc'["worker"] = "drain"
      PROVE  TypeInv'
  <2>1. DataOK'
    BY <1>4, DequeueType DEF DataOK
  <2>2. TxShape'
    BY <1>4 DEF TxShape, Procs, DataOK
  <2>3. Head(queue) \in Entries
    BY <1>4, DequeueType
  <2>4. /\ arrays' \in [{1, 2} -> Seq(Entries)]
        /\ batch' \in Slice /\ batch'.len = batch.len + 1
        /\ batch'.len <= Len(arrays'[batch'.arr])
        /\ Len(arrays[1]) <= Len(arrays'[1])
        /\ batch.arr = 1 /\ batch.len < BatchSize =>
              batch'.arr = 1 /\ arrays'[2] = arrays[2]
    BY <1>4, <2>3, AppendToBatchFacts, ConstAssumption DEF CtlOK
  <2>5. BatchSize \in Nat /\ batch.len \in Nat /\ batch'.len \in Nat
    BY <2>4, ConstAssumption DEF ConstAssumption, CtlOK, Slice
  <2>6. WorkerShape'
    BY <1>4, <2>4, <2>5 DEF CtlOK, WorkerShape
  <2>7. RecoveryShape' /\ SecondArray'
    BY <1>4 DEF CtlOK, RecoveryShape, SecondArray, dlqVars
  <2>8. /\ \A i \in DOMAIN dlq : dlq[i] \in Slice /\ dlq[i].arr = 1
        /\ \A i \in DOMAIN dlqCopy : dlqCopy[i] \in Slice /\ dlqCopy[i].arr = 1
    <3>1. /\ \A i \in DOMAIN dlq : dlq[i] \in Slice
          /\ \A i \in DOMAIN dlqCopy : dlqCopy[i] \in Slice
      BY ElementOfSeq, LenProperties DEF CtlOK
    <3>2. \A s \in Slice : s.arr = 1 \/ s.arr = 2
      BY DEF Slice
    <3>3. pc["worker"] # "done"
      BY <1>4
    <3> QED BY <3>1, <3>2, <3>3 DEF CtlOK, SecondArray
  <2>9. Len(arrays[1]) \in Nat /\ Len(arrays'[1]) \in Nat
    BY <2>4 DEF CtlOK
  <2>10. /\ \A i \in DOMAIN dlq : dlq[i].len <= Len(arrays'[1])
         /\ \A i \in DOMAIN dlqCopy : dlqCopy[i].len <= Len(arrays'[1])
    BY <2>4, <2>8, <2>9, SMTT(20) DEF CtlOK, Slice
  <2>11. CtlOK'
    BY <1>4, <2>4, <2>6, <2>7, <2>8, <2>10 DEF CtlOK, dlqVars
  <2> QED BY <2>1, <2>2, <2>11
<1>5. CASE WorkerReceive
  BY <1>5, <1>4 DEF WorkerReceive, CtlOK, Procs
<1>6. CASE DrainReceive
  BY <1>6, <1>4 DEF DrainReceive, CtlOK, Procs, ctlVars
<1>7. CASE WorkerTick \/ WorkerStop \/ DrainEnd \/ Backoff \/ BackoffInterrupted
  <2>1. DataOK' /\ TxShape'
    BY <1>7 DEF WorkerTick, WorkerStop, DrainEnd, Backoff, BackoffInterrupted,
                DataOK, TxShape, CtlOK, Procs
  <2>2. CtlOK'
    BY <1>7 DEF WorkerTick, WorkerStop, DrainEnd, Backoff, BackoffInterrupted,
                CtlOK, WorkerShape, RecoveryShape, SecondArray, Procs, bufVars,
                dlqVars
  <2> QED BY <2>1, <2>2
<1>8. ASSUME NEW p \in Procs, Prepare(p) PROVE TypeInv'
  BY <1>8, CtlUnchanged, CurrentType DEF Prepare, DataOK, TxShape, ctlVars
<1>9. ASSUME NEW p \in Procs, Insert(p) PROVE TypeInv'
  BY <1>9, CtlUnchanged DEF Insert, NewIDs, Filter, DataOK, TxShape, ctlVars
<1>10. ASSUME NEW p \in Procs, pc[p] = "flush", EndTx(p),
              OnSuccess(p) \/ OnFailure(p)
       PROVE  /\ CtlOK' /\ TxShape'
              /\ tx' \in [Procs -> {"none", "begun", "inserted"}]
              /\ params' \in [Procs -> SUBSET Entries]
              /\ inserted' \in [Procs -> SUBSET Entries]
              /\ charged' \in [Procs -> SUBSET Entries]
  BY <1>10, OnSuccessCtl, OnFailureCtl DEF EndTx, DataOK, TxShape, Other, Procs
<1>11. ASSUME NEW p \in Procs, Apply(p)
       PROVE  rows' \subseteq Entries /\ spent' \in [Entries -> Nat]
  BY <1>11, BumpType DEF Apply, DataOK
<1>12. ASSUME NEW p \in Procs, Commit(p) PROVE TypeInv'
  <2>1. pc[p] = "flush"
    BY <1>12 DEF Commit, TxShape
  <2>2. pending' \in Seq(SUBSET Entries)
    BY <1>12, AppendProperties DEF Commit, SendIDs, DataOK
  <2> QED BY <1>12, <2>1, <2>2, <1>10, <1>11 DEF Commit, DataOK
<1>13. ASSUME NEW p \in Procs, CommitLostAck(p) PROVE TypeInv'
  <2>1. pc[p] = "flush"
    BY <1>13 DEF CommitLostAck, TxShape
  <2> QED BY <1>13, <2>1, <1>10, <1>11 DEF CommitLostAck, DataOK
<1>14. ASSUME NEW p \in Procs, TxFail(p) PROVE TypeInv'
  BY <1>14, <1>10 DEF TxFail, DataOK
<1>15. ASSUME NEW p \in Procs, TxRefused(p) PROVE TypeInv'
  BY <1>15, OnFailureCtl DEF TxRefused, DataOK, TxShape, Other, Procs
<1>16. CASE RecoveryTick \/ RecoveryStop
  <2>1. DataOK' /\ TxShape'
    BY <1>16 DEF RecoveryTick, RecoveryStop, DataOK, TxShape, CtlOK, Procs
  <2>2. /\ dlqCopy' = dlq /\ dlq' = <<>> /\ dlqCount' = dlqCount
        /\ UNCHANGED <<arrays, batch, attempt, lastTry>>
        /\ pc' \in [Procs -> {"select", "drain", "flush", "backoff", "done"}]
        /\ pc'["recovery"] = IF dlq = <<>> THEN "done" ELSE "flush"
        /\ pc'["worker"] = pc["worker"]
        /\ closing' \in [Procs -> BOOLEAN] /\ closing'["worker"] = closing["worker"]
    BY <1>16 DEF RecoveryTick, RecoveryStop, TakeDLQ, CtlOK, Procs, bufVars
  <2>3. <<>> \in Seq(Slice) /\ DOMAIN <<>> = {}
    BY EmptySeq
  <2>4. WorkerShape' /\ RecoveryShape' /\ SecondArray'
    BY <2>2, <2>3 DEF CtlOK, WorkerShape, RecoveryShape, SecondArray
  <2>5. CtlOK'
    BY <2>2, <2>3, <2>4 DEF CtlOK
  <2> QED BY <2>1, <2>5
<1>17. CASE AggReceive
  BY <1>17, CtlUnchanged, TailFacts DEF AggReceive, DataOK, TxShape, ctlVars
<1>18. ASSUME NEW done \in [Aggregators -> SUBSET job], AggRun(done) PROVE TypeInv'
  <2>1. daily' \in [Aggregators -> [Entries -> Nat]]
    BY <1>18, BumpType DEF AggRun, LoadRecords, DataOK
  <2>2. faults' \in Nat
    BY <1>18 DEF AggRun, LoadRecords, DataOK
  <2>3. CtlOK'
    BY <1>18, CtlUnchanged DEF AggRun, LoadRecords
  <2>4. TxShape'
    BY <1>18 DEF AggRun, LoadRecords, TxShape, ctlVars
  <2> QED BY <1>18, <2>1, <2>2, <2>3, <2>4 DEF AggRun, LoadRecords, DataOK
<1>19. CASE AggFail \/ AggExit
  BY <1>19, CtlUnchanged DEF AggFail, AggExit, DataOK, TxShape, ctlVars
<1>20. CASE ShutdownBegin \/ ShutdownReturn \/ ClosePool
  BY <1>20, CtlUnchanged DEF ShutdownBegin, ShutdownReturn, ClosePool, DataOK,
                             TxShape, ctlVars
<1>21. CASE UNCHANGED vars
  BY <1>21, CtlUnchanged DEF vars, DataOK, TxShape, ctlVars
<1> QED
  BY <1>1, <1>2, <1>3, <1>5, <1>6, <1>7, <1>8, <1>9, <1>12, <1>13, <1>14, <1>15,
     <1>16, <1>17, <1>18, <1>19, <1>20, <1>21
  DEF Next, LogNext, WorkerNext, FlushNext, FlushFault, RecoveryStep, AggNext,
      LifeNext, Terminated

\* Types, the shape of the slices and the program counters hold in every
\* behaviour of the logger (worker, flushBatch, flushDLQ, aggregationWorker).
THEOREM TypeInvariant == Spec => []TypeInv
BY TypeInvInit, TypeInvStep, PTL DEF Spec

\* Every variable keeps the values of its Go type, and no slice reaches past
\* its array, in every behaviour of the logger.
THEOREM TypeCorrect == Spec => []TypeOK
BY TypeInvariant, TypeInvOK, PTL
-----------------------------------------------------------------------------
(* Nothing is counted twice.  Uncommitted rows of the two transactions are *)
(* disjoint and new, and the ids on their way to the daily tables are      *)
(* rows, pairwise disjoint and not yet counted.                            *)

TxInv ==
    /\ \A p \in Procs : tx[p] # "inserted" => inserted[p] = {} /\ charged[p] = {}
    /\ \A p \in Procs : charged[p] \subseteq inserted[p]
    /\ \A p \in Procs : inserted[p] \cap rows = {}
    /\ inserted["worker"] \cap inserted["recovery"] = {}

ChargeInv == \A e \in Entries : spent[e] <= 1 /\ (e \notin rows => spent[e] = 0)

PostInv ==
    /\ job \subseteq rows
    /\ \A i \in DOMAIN pending : pending[i] \subseteq rows /\ pending[i] \cap job = {}
    /\ \A i, j \in DOMAIN pending : i # j => pending[i] \cap pending[j] = {}
    /\ \A a \in Aggregators : \A e \in Entries :
          /\ daily[a][e] <= 1
          /\ e \notin rows => daily[a][e] = 0
          /\ e \in job => daily[a][e] = 0
          /\ \A i \in DOMAIN pending : e \in pending[i] => daily[a][e] = 0

LedgerInv == TxInv /\ ChargeInv /\ PostInv

\* LedgerInv holds initially.
LEMMA LedgerInvInit == Init => LedgerInv
BY DEF Init, LedgerInv, TxInv, ChargeInv, PostInv, Procs

\* LedgerInv speaks of the transactions, the tables and the aggregation only.
LEMMA LedgerInvUnchanged ==
    ASSUME LedgerInv, UNCHANGED <<tx, inserted, charged, dbVars, pending, job, daily>>
    PROVE  LedgerInv'
BY DEF LedgerInv, TxInv, ChargeInv, PostInv, dbVars

\* The end of a transaction whose rows do not come in.
LEMMA LedgerRollback ==
    ASSUME TypeInv, LedgerInv, NEW p \in Procs, EndTx(p),
           UNCHANGED <<dbVars, pending, job, daily>>
    PROVE  LedgerInv'
<1>1. TxInv'
  BY DEF TypeInv, DataOK, LedgerInv, TxInv, EndTx, Procs, dbVars
<1> QED BY <1>1 DEF LedgerInv, ChargeInv, PostInv, dbVars

\* A commit, whether its acknowledgement arrives or not.
LEMMA LedgerApply ==
    ASSUME TypeInv, LedgerInv, NEW p \in Procs, Apply(p), EndTx(p),
           UNCHANGED <<job, daily>>,
           pending' = pending \/ pending' = Append(pending, inserted[p])
    PROVE  LedgerInv'
<1>1. /\ rows' = rows \cup inserted[p] /\ inserted[p] \cap rows = {}
      /\ charged[p] \subseteq inserted[p] /\ inserted[p] \subseteq Entries
      /\ spent \in [Entries -> Nat] /\ daily \in [Aggregators -> [Entries -> Nat]]
      /\ pending \in Seq(SUBSET Entries)
  BY DEF Apply, LedgerInv, TxInv, TypeInv, DataOK
<1>2. TxInv'
  BY DEF TypeInv, DataOK, LedgerInv, TxInv, EndTx, Procs, Apply
<1>3. ChargeInv'
  <2> SUFFICES ASSUME NEW e \in Entries
               PROVE  spent'[e] <= 1 /\ (e \notin rows' => spent'[e] = 0)
    BY DEF ChargeInv
  <2>1. spent'[e] = IF e \in charged[p] THEN spent[e] + 1 ELSE spent[e]
    BY DEF Apply, Bump
  <2>2. spent[e] \in Nat /\ spent[e] <= 1 /\ (e \notin rows => spent[e] = 0)
    BY <1>1 DEF LedgerInv, ChargeInv
  <2> QED BY <1>1, <2>1, <2>2
<1>4. PostInv'
  <2>1. CASE pending' = pending
    BY <1>1, <2>1 DEF LedgerInv, PostInv
  <2>2. CASE pending' = Append(pending, inserted[p])
    <3>1. \A i \in DOMAIN pending' :
             \/ i \in DOMAIN pending /\ pending'[i] = pending[i]
             \/ i = Len(pending) + 1 /\ pending'[i] = inserted[p]
      BY <1>1, <2>2, AppendProperties, LenProperties
    <3>2. \A i \in DOMAIN pending : pending[i] \subseteq rows
      BY DEF LedgerInv, PostInv
    <3>3. /\ job' \subseteq rows'
          /\ \A i \in DOMAIN pending' :
                pending'[i] \subseteq rows' /\ pending'[i] \cap job' = {}
      BY <1>1, <3>1 DEF LedgerInv, PostInv
    <3>4. \A i, j \in DOMAIN pending' : i # j => pending'[i] \cap pending'[j] = {}
      BY <1>1, <3>1, <3>2 DEF LedgerInv, PostInv
    <3>5. \A a \in Aggregators : \A e \in Entries :
            /\ daily'[a][e] <= 1
            /\ e \notin rows' => daily'[a][e] = 0
            /\ e \in job' => daily'[a][e] = 0
            /\ \A i \in DOMAIN pending' : e \in pending'[i] => daily'[a][e] = 0
      BY <1>1, <3>1 DEF LedgerInv, PostInv
    <3> QED BY <3>3, <3>4, <3>5 DEF PostInv
  <2> QED BY <2>1, <2>2
<1> QED BY <1>2, <1>3, <1>4 DEF LedgerInv

\* LedgerInv is preserved by every action.
LEMMA LedgerInvStep == TypeInv /\ LedgerInv /\ [Next]_vars => LedgerInv'
<1> SUFFICES ASSUME TypeInv, LedgerInv, [Next]_vars PROVE LedgerInv'
  OBVIOUS
<1> USE DEF txVars, aggVars
<1>1. ASSUME NEW e \in Entries, LogSend(e) \/ LogPark(e) \/ LogTimeout(e)
      PROVE  LedgerInv'
  BY <1>1, LedgerInvUnchanged DEF LogSend, LogPark, LogTimeout
<1>2. CASE WorkerNext
  BY <1>2, LedgerInvUnchanged DEF WorkerNext, WorkerReceive, WorkerTick,
     WorkerStop, DrainReceive, DrainEnd, Backoff, BackoffInterrupted
<1>3. ASSUME NEW p \in Procs, Prepare(p) PROVE LedgerInv'
  BY <1>3 DEF Prepare, LedgerInv, TxInv, ChargeInv, PostInv, dbVars, Procs,
              TypeInv, DataOK
<1>4. ASSUME NEW p \in Procs, Insert(p) PROVE LedgerInv'
  <2>1. /\ inserted' = [inserted EXCEPT ![p] = params[p] \ rows]
        /\ charged'[p] \subseteq params[p] \ rows
        /\ \A q \in Procs : q # p => charged'[q] = charged[q] /\ tx'[q] = tx[q]
        /\ params[p] \cap inserted[Other(p)] = {}
        /\ tx'[p] = "inserted"
        /\ rows' = rows
    BY <1>4 DEF Insert, NewIDs, Filter, TypeInv, DataOK, Procs, dbVars
  <2>2. TxInv'
    BY <2>1 DEF LedgerInv, TxInv, TypeInv, DataOK, Other, Procs
  <2> QED BY <1>4, <2>2 DEF Insert, LedgerInv, ChargeInv, PostInv, dbVars
<1>5. ASSUME NEW p \in Procs, Commit(p) PROVE LedgerInv'
  BY <1>5, LedgerApply DEF Commit, SendIDs
<1>6. ASSUME NEW p \in Procs, CommitLostAck(p) PROVE LedgerInv'
  BY <1>6, LedgerApply DEF CommitLostAck
<1>7. ASSUME NEW p \in Procs, TxFail(p) PROVE LedgerInv'
  BY <1>7, LedgerRollback DEF TxFail
<1>8. ASSUME NEW p \in Procs, TxRefused(p) PROVE LedgerInv'
  BY <1>8, LedgerInvUnchanged DEF TxRefused
<1>9. CASE RecoveryStep
  BY <1>9, LedgerInvUnchanged DEF RecoveryStep, RecoveryTick, RecoveryStop
<1>10. CASE AggReceive
  <2>1. /\ pending \in Seq(SUBSET Entries) /\ pending # <<>>
        /\ job' = pending[1] /\ pending' = Tail(pending) /\ 1 \in DOMAIN pending
    BY <1>10, TailFacts DEF AggReceive, TypeInv, DataOK
  <2>2. \A i \in DOMAIN pending' :
            i + 1 \in DOMAIN pending /\ pending'[i] = pending[i + 1] /\ i \in Nat \ {0}
    BY <2>1, HeadTailProperties, LenProperties
  <2>3. PostInv'
    BY <1>10, <2>1, <2>2 DEF AggReceive, LedgerInv, PostInv, dbVars
  <2> QED BY <1>10, <2>3 DEF AggReceive, LedgerInv, TxInv, ChargeInv, dbVars
<1>11. ASSUME NEW done \in [Aggregators -> SUBSET job], AggRun(done)
       PROVE  LedgerInv'
  <2>1. \A a \in Aggregators : \A e \in Entries :
            daily'[a][e] = IF e \in done[a] THEN daily[a][e] + 1 ELSE daily[a][e]
    BY <1>11 DEF AggRun, LoadRecords, Bump
  <2>2. \A a \in Aggregators : done[a] \subseteq job
    OBVIOUS
  <2>3. job' = {} /\ pending' = pending /\ rows' = rows
    BY <1>11 DEF AggRun, LoadRecords, dbVars
  <2>4. \A a \in Aggregators : \A e \in Entries : daily[a][e] \in Nat
    BY DEF TypeInv, DataOK
  <2>5. PostInv'
    BY <2>1, <2>2, <2>3, <2>4 DEF LedgerInv, PostInv
  <2> QED BY <1>11, <2>5 DEF AggRun, LoadRecords, LedgerInv, TxInv, ChargeInv, dbVars
<1>12. CASE AggFail
  BY <1>12 DEF AggFail, LedgerInv, TxInv, ChargeInv, PostInv, dbVars
<1>13. CASE AggExit \/ LifeNext
  BY <1>13, LedgerInvUnchanged DEF AggExit, LifeNext, ShutdownBegin,
     ShutdownReturn, ClosePool
<1>14. CASE UNCHANGED vars
  BY <1>14, LedgerInvUnchanged DEF vars
<1> QED
  BY <1>1, <1>2, <1>3, <1>4, <1>5, <1>6, <1>7, <1>8, <1>9, <1>10, <1>11, <1>12,
     <1>13, <1>14
  DEF Next, LogNext, FlushNext, FlushFault, AggNext, Terminated

\* Uncommitted rows are new and disjoint, and ids on their way to the daily
\* tables are not yet counted, in every behaviour (flushBatchWithSpendUpdate,
\* aggregateByIDs).
THEOREM LedgerInvariant == Spec => []LedgerInv
BY TypeInvariant, LedgerInvInit, LedgerInvStep, PTL DEF Spec

\* Whatever is retried, dead-lettered, interrupted or lost on the wire, an
\* entry's amount is added to the spend counters at most once, and only
\* together with its row, and no daily table counts a row twice.
THEOREM CountedAtMostOnce == Spec => []CountedOnce
<1>1. TypeInv /\ LedgerInv => NoDoubleCharge
  BY DEF TypeInv, DataOK, LedgerInv, ChargeInv, NoDoubleCharge
<1>2. TypeInv /\ LedgerInv => DailyAtMostOnce
  BY DEF TypeInv, DataOK, LedgerInv, PostInv, DailyAtMostOnce
<1>3. TypeInv /\ LedgerInv => CountedOnce
  BY <1>1, <1>2 DEF CountedOnce
<1> QED BY <1>3, TypeInvariant, LedgerInvariant, PTL
-----------------------------------------------------------------------------
(* The logger implements the ledger.  Besides LedgerInv this needs that    *)
(* whatever sits in the queue, an array or a transaction was accepted.     *)

AcceptInv ==
    /\ InSeq(queue) \subseteq Accepted
    /\ \A k \in {1, 2} : \A i \in 1 .. Len(arrays[k]) : arrays[k][i] \in Accepted
    /\ \A p \in Procs : params[p] \subseteq Accepted /\ inserted[p] \subseteq Accepted
    /\ rows \subseteq Accepted

\* AcceptInv holds initially.
LEMMA AcceptInvInit == Init => AcceptInv
<1> SUFFICES ASSUME Init PROVE AcceptInv
  OBVIOUS
<1>1. Len(<<>>) = 0 /\ DOMAIN <<>> = {}
  BY EmptySeq
<1> QED BY <1>1 DEF Init, AcceptInv, InSeq, Procs

\* Accepted only grows, so a step that moves none of the data keeps AcceptInv.
LEMMA AcceptInvUnchanged ==
    ASSUME AcceptInv, Accepted \subseteq Accepted',
           UNCHANGED <<queue, arrays, params, inserted, rows>>
    PROVE  AcceptInv'
BY DEF AcceptInv, InSeq

\* A receive accepts the blocked sender it admits and no other entry.
LEMMA DequeueAccepts ==
    ASSUME TypeInv, AcceptInv, Dequeue
    PROVE  /\ Accepted \subseteq Accepted'
           /\ InSeq(queue)' \subseteq Accepted'
           /\ Head(queue) \in Accepted
           /\ Refused' = Refused
           /\ \/ Accepted' = Accepted
              \/ \E e \in Entries : e \notin Accepted \cup Refused
                                    /\ Accepted' = Accepted \cup {e}
<1>1. /\ queue \in Seq(Entries) /\ queue # <<>>
      /\ Tail(queue) \in Seq(Entries)
      /\ status \in [Entries -> {"idle", "parked", "queued", "dropped"}]
  BY TailFacts DEF TypeInv, DataOK, Dequeue
<1>2. Head(queue) \in Accepted
  BY <1>1, TailFacts DEF AcceptInv, InSeq
<1>3. \A i \in DOMAIN Tail(queue) : Tail(queue)[i] \in Accepted
  BY <1>1, TailFacts DEF AcceptInv, InSeq
<1>4. CASE Parked = {} /\ queue' = Tail(queue) /\ UNCHANGED status
  BY <1>2, <1>3, <1>4 DEF Accepted, Refused, InSeq
<1>5. ASSUME NEW e \in Parked, queue' = Append(Tail(queue), e),
             status' = [status EXCEPT ![e] = "queued"]
      PROVE  /\ e \in Entries /\ e \notin Accepted \cup Refused
             /\ Accepted' = Accepted \cup {e} /\ Refused' = Refused
             /\ InSeq(queue)' \subseteq Accepted'
  <2>1. /\ e \in Entries /\ e \notin Accepted \cup Refused
        /\ Accepted' = Accepted \cup {e} /\ Refused' = Refused
    BY <1>1, <1>5 DEF Parked, Accepted, Refused
  <2>2. \A i \in DOMAIN queue' : queue'[i] \in Accepted'
    BY <1>1, <1>3, <1>5, <2>1, AppendFacts
  <2> QED BY <2>1, <2>2 DEF InSeq
<1> QED BY <1>2, <1>4, <1>5 DEF Dequeue

\* What a step does to the callers' answers.
LEMMA CallerStep ==
    ASSUME TypeInv, AcceptInv, [Next]_vars
    PROVE  /\ Accepted \subseteq Accepted'
           /\ \/ Accepted' = Accepted /\ Refused' = Refused
              \/ /\ \E e \in Entries : Ledger!Accept(e) \/ Ledger!Refuse(e)
                 /\ UNCHANGED <<dbVars, daily>>
<1> USE DEF aggVars
<1>0. status \in [Entries -> {"idle", "parked", "queued", "dropped"}]
  BY DEF TypeInv, DataOK
<1>1. ASSUME NEW e \in Entries, LogSend(e)
      PROVE  /\ Accepted' = Accepted \cup {e} /\ Refused' = Refused
             /\ e \notin Accepted \cup Refused /\ UNCHANGED <<dbVars, daily>>
  BY <1>0, <1>1 DEF LogSend, Accepted, Refused
<1>2. ASSUME NEW e \in Entries, LogPark(e)
      PROVE  Accepted' = Accepted /\ Refused' = Refused
  BY <1>0, <1>2 DEF LogPark, Accepted, Refused
<1>3. ASSUME NEW e \in Entries, LogTimeout(e)
      PROVE  /\ Accepted' = Accepted /\ Refused' = Refused \cup {e}
             /\ e \notin Accepted \cup Refused /\ UNCHANGED <<dbVars, daily>>
  BY <1>0, <1>3 DEF LogTimeout, Accepted, Refused
<1>4. CASE WorkerReceive \/ DrainReceive
  BY <1>4, DequeueAccepts DEF WorkerReceive, DrainReceive, dbVars, Ledger!Accept
<1>5. CASE UNCHANGED status
  BY <1>5 DEF Accepted, Refused
<1>6. ASSUME ~(\E e \in Entries : LogSend(e) \/ LogPark(e) \/ LogTimeout(e)),
             ~(WorkerReceive \/ DrainReceive)
      PROVE  UNCHANGED status
  BY <1>6 DEF Next, vars, logVars, LogNext, WorkerNext, FlushNext, FlushFault,
     RecoveryStep, AggNext, LifeNext, Terminated, WorkerTick, WorkerStop,
     DrainEnd, Backoff, BackoffInterrupted, Prepare, Insert, Commit,
     CommitLostAck, TxFail, TxRefused, RecoveryTick, RecoveryStop, AggReceive,
     AggRun, AggFail, AggExit, ShutdownBegin, ShutdownReturn, ClosePool
<1> QED
  BY <1>1, <1>2, <1>3, <1>4, <1>5, <1>6
  DEF Ledger!Accept, Ledger!Refuse, dbVars

\* AcceptInv is preserved by every action.
LEMMA AcceptInvStep == TypeInv /\ AcceptInv /\ [Next]_vars => AcceptInv'
<1> SUFFICES ASSUME TypeInv, AcceptInv, [Next]_vars PROVE AcceptInv'
  OBVIOUS
<1>0. Accepted \subseteq Accepted'
  BY CallerStep
<1> USE DEF logVars, bufVars, ctlVars, txVars, dbVars
<1>1. ASSUME NEW e \in Entries, LogSend(e) PROVE AcceptInv'
  <2>1. \A i \in DOMAIN queue' : queue'[i] = e \/ queue'[i] \in Accepted
    BY <1>1, AppendFacts DEF LogSend, AcceptInv, InSeq, TypeInv, DataOK
  <2>2. e \in Accepted'
    BY <1>1 DEF LogSend, Accepted, TypeInv, DataOK
  <2> QED BY <1>0, <1>1, <2>1, <2>2 DEF LogSend, AcceptInv, InSeq
<1>2. ASSUME NEW e \in Entries, LogPark(e) \/ LogTimeout(e) PROVE AcceptInv'
  BY <1>0, <1>2, AcceptInvUnchanged DEF LogPark, LogTimeout
<1>3. CASE WorkerReceive \/ DrainReceive
  <2>1. Dequeue /\ AppendToBatch(Head(queue)) /\ UNCHANGED <<txVars, dbVars>>
    BY <1>3 DEF WorkerReceive, DrainReceive
  <2>2. InSeq(queue)' \subseteq Accepted' /\ Head(queue) \in Accepted
    BY <2>1, DequeueAccepts
  <2>3. Head(queue) \in Entries
    BY <2>2 DEF Accepted
  <2>4. \A k \in {1, 2} : \A i \in 1 .. Len(arrays'[k]) :
            arrays'[k][i] = Head(queue) \/ \E j \in {1, 2} :
                i \in 1 .. Len(arrays[j]) /\ arrays'[k][i] = arrays[j][i]
    BY <2>1, <2>3, AppendToBatchFacts, ConstAssumption DEF TypeInv, CtlOK
  <2> QED BY <1>0, <2>1, <2>2, <2>4, Zenon DEF AcceptInv
<1>4. CASE WorkerTick \/ WorkerStop \/ DrainEnd \/ Backoff \/ BackoffInterrupted
           \/ RecoveryStep \/ LifeNext
           \/ AggReceive \/ AggFail \/ AggExit
  BY <1>0, <1>4, AcceptInvUnchanged DEF WorkerTick, WorkerStop, DrainEnd, Backoff,
     BackoffInterrupted, RecoveryStep, RecoveryTick, RecoveryStop, LifeNext,
     ShutdownBegin, ShutdownReturn, ClosePool, AggReceive, AggFail, AggExit
<1>5. ASSUME NEW p \in Procs, Prepare(p) PROVE AcceptInv'
  <2>1. pc[p] = "flush" /\ CtlOK
    BY <1>5 DEF Prepare, TypeInv
  <2>2. Current(p) \in Slice /\ Current(p).len <= Len(arrays[Current(p).arr])
    BY <2>1, CurrentType
  <2>3. Contents(Current(p)) \subseteq Accepted
    BY <2>1, <2>2, LenProperties DEF Contents, AcceptInv, Slice, CtlOK
  <2> QED BY <1>0, <1>5, <2>3 DEF Prepare, AcceptInv, TypeInv, DataOK
<1>6. ASSUME NEW p \in Procs, Insert(p) PROVE AcceptInv'
  BY <1>0, <1>6 DEF Insert, NewIDs, AcceptInv, TypeInv, DataOK
<1>7. ASSUME NEW p \in Procs, EndTx(p), UNCHANGED <<queue, arrays>>,
             rows' = rows \/ rows' = rows \cup inserted[p]
      PROVE  AcceptInv'
  BY <1>0, <1>7 DEF EndTx, AcceptInv, InSeq, TypeInv, DataOK
<1>8. ASSUME NEW p \in Procs, OnSuccess(p) \/ OnFailure(p) PROVE arrays' = arrays
  BY <1>8 DEF OnSuccess, OnFailure, WorkerFlushed, WorkerFailed, RecoveryNext
<1>9. ASSUME NEW p \in Procs, Commit(p) \/ CommitLostAck(p) \/ TxFail(p)
      PROVE  AcceptInv'
  BY <1>7, <1>8, <1>9 DEF Commit, CommitLostAck, TxFail, Apply
<1>10. ASSUME NEW p \in Procs, TxRefused(p) PROVE AcceptInv'
  BY <1>0, <1>8, <1>10, AcceptInvUnchanged DEF TxRefused
<1>11. ASSUME NEW done \in [Aggregators -> SUBSET job], AggRun(done)
       PROVE  AcceptInv'
  BY <1>0, <1>11, AcceptInvUnchanged DEF AggRun, LoadRecords
<1>12. CASE UNCHANGED vars
  BY <1>0, <1>12, AcceptInvUnchanged DEF vars
<1> QED
  BY <1>1, <1>2, <1>3, <1>4, <1>5, <1>6, <1>9, <1>10, <1>11, <1>12
  DEF Next, LogNext, WorkerNext, FlushNext, FlushFault, AggNext, Terminated

\* Only entries for which Log returned nil are in the queue, in a batch, in a
\* transaction or in the table.
THEOREM AcceptInvariant == Spec => []AcceptInv
BY TypeInvariant, AcceptInvInit, AcceptInvStep, PTL DEF Spec

\* An initial state of the logger is one of the ledger.
LEMMA LedgerInitMaps == Init => Ledger!LedgerInit
BY DEF Init, Ledger!LedgerInit, Accepted, Refused

\* Committing p's transaction is the ledger's Record.
LEMMA ApplyRecords ==
    ASSUME TypeInv, LedgerInv, AcceptInv, NEW p \in Procs, Apply(p),
           UNCHANGED <<status, daily>>
    PROVE  Ledger!LedgerNext
<1>1. /\ inserted[p] \in SUBSET Entries
      /\ charged[p] \in SUBSET inserted[p]
      /\ inserted[p] \subseteq Accepted \ rows
  BY DEF TypeInv, DataOK, LedgerInv, TxInv, AcceptInv
<1>2. Accepted' = Accepted /\ Refused' = Refused
  BY DEF Accepted, Refused
<1>3. Ledger!Record(inserted[p], charged[p])
  BY <1>1, <1>2 DEF Apply, Bump, Ledger!Record, Ledger!Bump
<1> QED BY <1>1, <1>3 DEF Ledger!LedgerNext

\* A job of the aggregation worker is the ledger's Post.
LEMMA AggRunPosts ==
    ASSUME TypeInv, LedgerInv, NEW done \in [Aggregators -> SUBSET job], AggRun(done)
    PROVE  Ledger!LedgerNext
<1>1. \A a \in Aggregators : done[a] \subseteq job
  OBVIOUS
<1>2. job \subseteq rows /\ job \subseteq Entries
      /\ \A a \in Aggregators : \A e \in job : daily[a][e] = 0
  BY DEF TypeInv, DataOK, LedgerInv, PostInv
<1>3. done \in [Aggregators -> SUBSET Entries]
  BY <1>2
<1>4. Accepted' = Accepted /\ Refused' = Refused
  BY DEF AggRun, LoadRecords, Accepted, Refused, logVars
<1>5. Ledger!Post(done)
  BY <1>1, <1>2, <1>4 DEF AggRun, LoadRecords, Ledger!Post, Bump, Ledger!Bump, dbVars
<1> QED BY <1>3, <1>5 DEF Ledger!LedgerNext

\* A step of the logger is a step of the ledger or leaves the ledger alone.
LEMMA LedgerStepMaps ==
    TypeInv /\ LedgerInv /\ AcceptInv /\ [Next]_vars
        => [Ledger!LedgerNext]_(Ledger!ledgerVars)
<1> SUFFICES ASSUME TypeInv, LedgerInv, AcceptInv, [Next]_vars
             PROVE  Ledger!LedgerNext \/ UNCHANGED Ledger!ledgerVars
  OBVIOUS
<1> USE DEF aggVars, Ledger!ledgerVars
<1>1. \/ Accepted' = Accepted /\ Refused' = Refused
      \/ Ledger!LedgerNext
  BY CallerStep DEF Ledger!LedgerNext
<1>2. ASSUME NEW p \in Procs, Commit(p) \/ CommitLostAck(p)
      PROVE  Ledger!LedgerNext
  BY <1>2, ApplyRecords DEF Commit, CommitLostAck, logVars
<1>3. ASSUME NEW done \in [Aggregators -> SUBSET job], AggRun(done)
      PROVE  Ledger!LedgerNext
  BY <1>3, AggRunPosts
<1>4. ASSUME ~(\E p \in Procs : Commit(p) \/ CommitLostAck(p)),
             ~(\E done \in [Aggregators -> SUBSET job] : AggRun(done))
      PROVE  UNCHANGED <<rows, spent, daily>>
  BY <1>4 DEF Next, vars, LogNext, WorkerNext, FlushNext, FlushFault,
     RecoveryStep, AggNext, LifeNext, Terminated, LogSend, LogPark, LogTimeout,
     WorkerReceive, DrainReceive, WorkerTick, WorkerStop, DrainEnd, Backoff,
     BackoffInterrupted, Prepare, Insert, TxFail, TxRefused, RecoveryTick,
     RecoveryStop, AggReceive, AggFail, AggExit, ShutdownBegin,
     ShutdownReturn, ClosePool, dbVars
<1> QED BY <1>1, <1>2, <1>3, <1>4

\* The logger, with its queue, retries, dead letters and shutdown, implements
\* the ledger: every step is a step of the ledger or none.
THEOREM ImplementsLedger == Spec => LedgerSpec
<1>1. Spec => [][Ledger!LedgerNext]_(Ledger!ledgerVars)
  BY TypeInvariant, LedgerInvariant, AcceptInvariant, LedgerStepMaps, PTL DEF Spec
<1> QED BY <1>1, LedgerInitMaps, PTL DEF Spec, LedgerSpec, Ledger!LedgerSpec
-----------------------------------------------------------------------------
(* Nothing is lost before the first dead letter.  While the worker has a   *)
(* transaction its parameters are its batch, so what it commits is what    *)
(* WorkerFlushed forgets.                                                  *)

WorkerTx ==
    /\ tx["worker"] # "none" => params["worker"] = Contents(batch)
    /\ tx["worker"] = "inserted" =>
          /\ params["worker"] \subseteq inserted["worker"] \cup rows
          /\ charged["worker"] = inserted["worker"]

NoDeadLetters == dlqCount = 0 => dlq = <<>> /\ dlqCopy = <<>>

ConservedInv == WorkerTx /\ NoDeadLetters /\ ConservedUntilDLQ /\ ChargedUntilDLQ

\* ConservedInv holds initially.
LEMMA ConservedInvInit == Init => ConservedInv
BY DEF Init, ConservedInv, WorkerTx, NoDeadLetters, ConservedUntilDLQ,
       ChargedUntilDLQ, Accepted, Procs

\* ConservedInv speaks of the worker, the queue, the tables and the DLQ only.
LEMMA ConservedUnchanged ==
    ASSUME ConservedInv,
           UNCHANGED <<status, queue, arrays, batch, tx, params, inserted, charged,
                       rows, spent>>,
           dlqCount' = dlqCount,
           NoDeadLetters'
    PROVE  ConservedInv'
BY DEF ConservedInv, WorkerTx, ConservedUntilDLQ, ChargedUntilDLQ, Accepted,
       InSeq, Contents

\* The worker takes an entry from the queue into its batch.
LEMMA ConservedReceive ==
    ASSUME TypeInv, ConservedInv, AcceptInv, pc["worker"] \in {"select", "drain"},
           Dequeue, AppendToBatch(Head(queue)),
           UNCHANGED <<txVars, dbVars, dlqVars>>
    PROVE  ConservedInv'
<1>1. /\ queue \in Seq(Entries) /\ queue # <<>> /\ Head(queue) \in Entries
      /\ Head(queue) = queue[1]
      /\ Tail(queue) \in Seq(Entries)
      /\ \A j \in DOMAIN queue : j = 1 \/ \E i \in DOMAIN Tail(queue) : Tail(queue)[i] = queue[j]
  BY TailFacts DEF TypeInv, DataOK, Dequeue
<1>2. /\ batch'.len = batch.len + 1 /\ batch.len \in Nat
      /\ \A i \in 1 .. batch.len : arrays'[batch'.arr][i] = arrays[batch.arr][i]
      /\ arrays'[batch'.arr][batch'.len] = Head(queue)
  BY <1>1, AppendToBatchFacts, ConstAssumption DEF TypeInv, CtlOK, Slice
<1>3. Contents(batch) \cup {Head(queue)} \subseteq Contents(batch)'
  BY <1>2 DEF Contents
<1>4. InSeq(queue) \subseteq InSeq(Tail(queue)) \cup {Head(queue)}
  BY <1>1 DEF InSeq
<1>5. Accepted' \subseteq Accepted \cup InSeq(queue)'
      /\ InSeq(Tail(queue)) \subseteq InSeq(queue)'
  <2>1. CASE Parked = {} /\ queue' = Tail(queue) /\ UNCHANGED status
    BY <2>1 DEF Accepted, InSeq
  <2>2. ASSUME NEW e \in Parked, queue' = Append(Tail(queue), e),
               status' = [status EXCEPT ![e] = "queued"]
        PROVE  Accepted' \subseteq Accepted \cup InSeq(queue)'
               /\ InSeq(Tail(queue)) \subseteq InSeq(queue)'
    <3>1. Accepted' \subseteq Accepted \cup {e} /\ e \in Entries
      BY <2>2 DEF Accepted, Parked, TypeInv, DataOK
    <3>2. /\ \A j \in DOMAIN Tail(queue) :
                j \in DOMAIN queue' /\ queue'[j] = Tail(queue)[j]
          /\ Len(Tail(queue)) + 1 \in DOMAIN queue' /\ queue'[Len(Tail(queue)) + 1] = e
      BY <1>1, <2>2, <3>1, AppendFacts
    <3> QED BY <3>1, <3>2 DEF InSeq
  <2> QED BY <2>1, <2>2 DEF Dequeue
<1>6. ConservedUntilDLQ'
  BY <1>3, <1>4, <1>5 DEF ConservedInv, ConservedUntilDLQ, dbVars, dlqVars
<1>7. tx["worker"] = "none" /\ tx' = tx
  BY DEF TypeInv, TxShape, Procs, txVars
<1> QED BY <1>6, <1>7 DEF ConservedInv, WorkerTx, NoDeadLetters, ChargedUntilDLQ,
                          dbVars, dlqVars

\* An attempt ends without new rows.
LEMMA ConservedFailure ==
    ASSUME TypeInv, ConservedInv, NEW p \in Procs, pc[p] = "flush", OnFailure(p),
           rows \subseteq rows',
           tx'[p] = "none",
           \A q \in Procs \ {p} : tx'[q] = tx[q] /\ params'[q] = params[q]
                     /\ inserted'[q] = inserted[q] /\ charged'[q] = charged[q],
           UNCHANGED <<status, queue>>,
           ChargedUntilDLQ'
    PROVE  ConservedInv'
<1>1. CASE p = "worker" /\ (lastTry \/ attempt + 1 = MaxAttempts)
  <2>1. AddToDLQ(batch)
    BY <1>1 DEF OnFailure, WorkerFailed
  <2>2. dlqCount' # 0
    BY <2>1 DEF AddToDLQ, TypeInv, CtlOK
  <2> QED BY <1>1, <2>2 DEF ConservedInv, WorkerTx, NoDeadLetters,
                            ConservedUntilDLQ
<1>2. CASE p = "worker" /\ ~(lastTry \/ attempt + 1 = MaxAttempts)
  <2>1. UNCHANGED <<arrays, batch, dlq, dlqCopy, dlqCount>>
    BY <1>2 DEF OnFailure, WorkerFailed, bufVars, dlqVars
  <2> QED BY <1>2, <2>1 DEF ConservedInv, WorkerTx, NoDeadLetters,
                 ConservedUntilDLQ, Accepted, InSeq, Contents
<1>3. CASE p = "recovery"
  <2>1. dlqCopy # <<>>
    BY <1>3 DEF TypeInv, CtlOK, RecoveryShape
  <2>2. dlqCount # 0 /\ dlqCount' = dlqCount /\ UNCHANGED <<arrays, batch>>
    BY <1>3, <2>1 DEF ConservedInv, NoDeadLetters, OnFailure, RecoveryNext, bufVars
  <2>3. WorkerTx'
    BY <1>3, <2>2 DEF ConservedInv, WorkerTx, Procs, Contents
  <2> QED BY <2>2, <2>3 DEF ConservedInv, NoDeadLetters, ConservedUntilDLQ,
                            ChargedUntilDLQ
<1> QED BY <1>1, <1>2, <1>3 DEF Procs

\* ConservedInv is preserved by every action.
LEMMA ConservedInvStep ==
    TypeInv /\ LedgerInv /\ AcceptInv /\ ConservedInv /\ [Next]_vars => ConservedInv'
<1> SUFFICES ASSUME TypeInv, LedgerInv, AcceptInv, ConservedInv, [Next]_vars
             PROVE  ConservedInv'
  OBVIOUS
<1> USE DEF logVars, bufVars, ctlVars, txVars, dbVars, dlqVars
<1>1. ASSUME NEW e \in Entries, LogSend(e) PROVE ConservedInv'
  <2>1. /\ \A j \in DOMAIN queue : j \in DOMAIN queue' /\ queue'[j] = queue[j]
        /\ Len(queue) + 1 \in DOMAIN queue' /\ queue'[Len(queue) + 1] = e
    BY <1>1, AppendFacts DEF LogSend, TypeInv, DataOK
  <2>2. InSeq(queue) \cup {e} \subseteq InSeq(queue)'
    BY <2>1 DEF InSeq
  <2>3. Accepted' = Accepted \cup {e}
    BY <1>1 DEF LogSend, Accepted, TypeInv, DataOK
  <2>4. ConservedUntilDLQ'
    BY <1>1, <2>2, <2>3 DEF LogSend, ConservedInv, ConservedUntilDLQ, Contents
  <2> QED BY <1>1, <2>4 DEF LogSend, ConservedInv, WorkerTx, NoDeadLetters,
                 ChargedUntilDLQ, Contents
<1>2. ASSUME NEW e \in Entries, LogPark(e) \/ LogTimeout(e) PROVE ConservedInv'
  <2>1. Accepted' = Accepted
    BY <1>2 DEF LogPark, LogTimeout, Accepted, TypeInv, DataOK
  <2> QED BY <1>2, <2>1 DEF LogPark, LogTimeout, ConservedInv, WorkerTx,
          NoDeadLetters, ConservedUntilDLQ, ChargedUntilDLQ, InSeq, Contents
<1>3. CASE WorkerReceive \/ DrainReceive
  BY <1>3, ConservedReceive DEF WorkerReceive, DrainReceive
<1>4. CASE WorkerTick \/ WorkerStop \/ DrainEnd \/ Backoff \/ BackoffInterrupted
           \/ LifeNext \/ AggReceive \/ AggFail \/ AggExit
  <2>1. UNCHANGED <<status, queue, arrays, batch, tx, params, inserted, charged,
                    rows, spent, dlq, dlqCopy, dlqCount>>
    BY <1>4 DEF WorkerTick, WorkerStop, DrainEnd, Backoff, BackoffInterrupted,
       LifeNext, ShutdownBegin, ShutdownReturn, ClosePool, AggReceive, AggFail,
       AggExit
  <2> QED BY <2>1, ConservedUnchanged DEF ConservedInv, NoDeadLetters
<1>5. CASE RecoveryStep
  <2>1. /\ UNCHANGED <<status, queue, arrays, batch, tx, params, inserted, charged,
                       rows, spent, dlqCount>>
        /\ dlqCopy' = dlq /\ dlq' = <<>>
    BY <1>5 DEF RecoveryStep, RecoveryTick, RecoveryStop, TakeDLQ
  <2> QED BY <2>1, ConservedUnchanged DEF ConservedInv, NoDeadLetters
<1>6. ASSUME NEW p \in Procs, Prepare(p) PROVE ConservedInv'
  <2>1. WorkerTx'
    BY <1>6 DEF Prepare, ConservedInv, WorkerTx, Current, Contents, TypeInv,
                DataOK, Procs
  <2> QED BY <1>6, <2>1 DEF Prepare, ConservedInv, NoDeadLetters,
                 ConservedUntilDLQ, ChargedUntilDLQ, Accepted, InSeq, Contents
<1>7. ASSUME NEW p \in Procs, Insert(p) PROVE ConservedInv'
  <2>1. WorkerTx'
    <3>1. CASE p = "worker"
      <4>1. /\ tx["worker"] = "begun" /\ params' = params /\ rows' = rows
            /\ batch' = batch /\ arrays' = arrays
            /\ inserted'["worker"] = params["worker"] \ rows
            /\ charged'["worker"] = (params["worker"] \ rows) \cap Contents(batch)
        BY <1>7, <3>1 DEF Insert, NewIDs, Filter, Current, TypeInv, DataOK, Procs
      <4>2. params["worker"] = Contents(batch)
        BY <4>1 DEF ConservedInv, WorkerTx
      <4> QED BY <4>1, <4>2 DEF WorkerTx, Contents
    <3>2. CASE p = "recovery"
      BY <1>7, <3>2 DEF Insert, ConservedInv, WorkerTx, Contents, TypeInv,
                        DataOK, Procs
    <3> QED BY <3>1, <3>2 DEF Procs
  <2> QED BY <1>7, <2>1 DEF Insert, ConservedInv, NoDeadLetters,
                 ConservedUntilDLQ, ChargedUntilDLQ, Accepted, InSeq, Contents
<1>8. ASSUME NEW p \in Procs, Apply(p), tx[p] = "inserted",
             dlqCount' = 0 => dlqCount = 0
      PROVE  ChargedUntilDLQ'
  <2> SUFFICES ASSUME dlqCount' = 0, NEW e \in rows' PROVE spent'[e] = 1
    BY DEF ChargedUntilDLQ
  <2>1. p = "worker"
    BY <1>8 DEF ConservedInv, NoDeadLetters, TypeInv, CtlOK, RecoveryShape,
                TxShape, Procs
  <2>2. charged[p] = inserted[p] /\ inserted[p] \cap rows = {}
        /\ inserted[p] \subseteq Entries /\ rows \subseteq Entries
    BY <1>8, <2>1 DEF ConservedInv, WorkerTx, LedgerInv, TxInv, TypeInv, DataOK
  <2>3. CASE e \in inserted[p]
    BY <1>8, <2>2, <2>3 DEF Apply, Bump, LedgerInv, ChargeInv, TypeInv, DataOK
  <2>4. CASE e \in rows
    BY <1>8, <2>2, <2>4 DEF Apply, Bump, ConservedInv, ChargedUntilDLQ
  <2> QED BY <1>8, <2>3, <2>4 DEF Apply
<1>9. ASSUME NEW p \in Procs, EndTx(p)
      PROVE  /\ tx'[p] = "none"
             /\ \A q \in Procs \ {p} : tx'[q] = tx[q] /\ params'[q] = params[q]
                     /\ inserted'[q] = inserted[q] /\ charged'[q] = charged[q]
  BY <1>9 DEF EndTx, TypeInv, DataOK
<1>10. ASSUME NEW p \in Procs, OnFailure(p) \/ OnSuccess(p), pc[p] = "flush"
       PROVE  dlqCount' = 0 => dlqCount = 0
  BY <1>10 DEF OnFailure, OnSuccess, WorkerFailed, AddToDLQ, RecoveryNext,
               TypeInv, CtlOK
<1>11. ASSUME NEW p \in Procs, Commit(p) PROVE ConservedInv'
  <2>1. pc[p] = "flush" /\ tx[p] = "inserted" /\ OnSuccess(p)
    BY <1>11 DEF Commit, TypeInv, TxShape
  <2>2. ChargedUntilDLQ'
    BY <1>8, <1>10, <1>11, <2>1 DEF Commit
  <2>3. CASE p = "worker"
    <3>1. /\ Contents(batch) \subseteq rows' /\ rows \subseteq rows'
          /\ tx'["worker"] = "none" /\ UNCHANGED <<dlq, dlqCopy, dlqCount>>
          /\ UNCHANGED <<status, queue>>
      BY <1>9, <1>11, <2>1, <2>3 DEF Commit, Apply, OnSuccess, ConservedInv, WorkerTx
    <3> QED BY <2>2, <3>1 DEF ConservedInv, WorkerTx, NoDeadLetters,
                              ConservedUntilDLQ, Accepted, InSeq
  <2>4. CASE p = "recovery"
    <3>1. dlqCopy # <<>>
      BY <2>1, <2>4 DEF TypeInv, CtlOK, RecoveryShape
    <3>2. dlqCount # 0 /\ dlqCount' = dlqCount /\ UNCHANGED <<arrays, batch>>
      BY <2>1, <2>4, <3>1 DEF ConservedInv, NoDeadLetters, OnSuccess, RecoveryNext
    <3>3. /\ \A q \in Procs \ {p} : tx'[q] = tx[q] /\ params'[q] = params[q]
                     /\ inserted'[q] = inserted[q] /\ charged'[q] = charged[q]
          /\ rows \subseteq rows'
      BY <1>9, <1>11 DEF Commit, Apply
    <3>4. WorkerTx'
      BY <2>4, <3>2, <3>3 DEF ConservedInv, WorkerTx, Procs, Contents
    <3> QED BY <3>2, <3>4 DEF ConservedInv, NoDeadLetters, ConservedUntilDLQ,
                              ChargedUntilDLQ
  <2> QED BY <2>3, <2>4 DEF Procs
<1>12. ASSUME NEW p \in Procs, CommitLostAck(p) PROVE ConservedInv'
  <2>1. pc[p] = "flush" /\ tx[p] = "inserted" /\ OnFailure(p) /\ rows \subseteq rows'
    BY <1>12 DEF CommitLostAck, Apply, TypeInv, TxShape
  <2>2. ChargedUntilDLQ'
    BY <1>8, <1>10, <1>12, <2>1 DEF CommitLostAck
  <2> QED BY <1>9, <1>12, <2>1, <2>2, ConservedFailure DEF CommitLostAck
<1>13. ASSUME NEW p \in Procs, TxFail(p) PROVE ConservedInv'
  <2>1. ChargedUntilDLQ'
    BY <1>10, <1>13 DEF TxFail, ConservedInv, ChargedUntilDLQ
  <2> QED BY <1>9, <1>13, <2>1, ConservedFailure DEF TxFail
<1>14. ASSUME NEW p \in Procs, TxRefused(p) PROVE ConservedInv'
  <2>1. ChargedUntilDLQ'
    BY <1>10, <1>14 DEF TxRefused, ConservedInv, ChargedUntilDLQ
  <2> QED BY <1>14, <2>1, ConservedFailure DEF TxRefused
<1>15. ASSUME NEW done \in [Aggregators -> SUBSET job], AggRun(done)
       PROVE  ConservedInv'
  BY <1>15, ConservedUnchanged DEF AggRun, LoadRecords, ConservedInv, NoDeadLetters
<1>16. CASE UNCHANGED vars
  BY <1>16, ConservedUnchanged DEF vars, ConservedInv, NoDeadLetters
<1> QED
  BY <1>1, <1>2, <1>3, <1>4, <1>5, <1>6, <1>7, <1>11, <1>12, <1>13, <1>14, <1>15,
     <1>16
  DEF Next, LogNext, WorkerNext, FlushNext, FlushFault, AggNext, Terminated

\* Until the first dead letter the worker's transaction holds exactly its
\* batch, and no accepted entry or charge is missing (worker, flushBatch).
THEOREM ConservedInvariant == Spec => []ConservedInv
BY TypeInvariant, LedgerInvariant, AcceptInvariant, ConservedInvInit,
   ConservedInvStep, PTL DEF Spec

\* Until a batch is first given up, every accepted entry is queued, in the
\* worker's batch or has its row, and a row and its charge go together.
THEOREM NothingLostBeforeDLQ == Spec => []KeptUntilDLQ
<1>1. ConservedInv => KeptUntilDLQ
  BY DEF ConservedInv, KeptUntilDLQ
<1> QED BY <1>1, ConservedInvariant, PTL

-----------------------------------------------------------------------------
(* StreamRelay: induction over the numbers of a sequence.                  *)

\* Every set of numbers that is not empty has a least one.
LEMMA LeastNumber ==
  ASSUME NEW T \in SUBSET Nat, T # {}
  PROVE  \E n \in T : \A m \in T : n <= m
<1> DEFINE R == {ss \in Nat \X Nat : ss[1] < ss[2]}
<1>1. IsWellFoundedOn(R, Nat)
  BY NatLessThanWellFounded, Zenon DEF OpToRel
<1>2. PICK n \in T : \A m \in T : <<m, n>> \notin R
  <2> HIDE DEF R
  <2> QED BY <1>1, WFMin, Zenon
<1>3. \A m \in T : ~(m < n)
  BY <1>2
<1> QED BY <1>3

\* Induction over 1 .. n: T holds a number if it holds all that are smaller.
LEMMA Ascending ==
  ASSUME NEW n \in Nat, NEW T,
         \A i \in 1 .. n : (\A j \in 1 .. i - 1 : j \in T) => i \in T
  PROVE  1 .. n \subseteq T
<1> DEFINE Missing == (1 .. n) \ T
<1> SUFFICES ASSUME Missing # {} PROVE FALSE
  OBVIOUS
<1>1. Missing \in SUBSET Nat
  OBVIOUS
<1>2. PICK i \in Missing : \A m \in Missing : i <= m
  <2> HIDE DEF Missing
  <2> QED BY <1>1, LeastNumber
<1>3. \A j \in 1 .. i - 1 : j \in T
  BY <1>2
<1> QED BY <1>2, <1>3

-----------------------------------------------------------------------------
(* Streams: sequences, and the events a converter writes.                  *)

Elements(s) == {s[i] : i \in DOMAIN s}
IsSeq(s) == s \in Seq(Elements(s))

LEMMA SeqIs ==
  ASSUME NEW S, NEW s \in Seq(S)
  PROVE  IsSeq(s) /\ Elements(s) \subseteq S
<1>1. \A i \in 1 .. Len(s) : s[i] \in S /\ s[i] \in Elements(s)
  BY DEF Elements
<1>2. s = [i \in 1 .. Len(s) |-> s[i]] /\ Len(s) \in Nat /\ DOMAIN s = 1 .. Len(s)
  OBVIOUS
<1>3. s \in Seq(Elements(s))
  <2> DEFINE E == Elements(s)
  <2>1. \A i \in 1 .. Len(s) : s[i] \in E
    BY <1>1
  <2> HIDE DEF E
  <2>2. s \in [1 .. Len(s) -> E]
    BY <1>2, <2>1
  <2> QED BY <1>2, <2>2 DEF E
<1> QED BY <1>1, <1>2, <1>3 DEF IsSeq, Elements

LEMMA Short ==
  /\ IsSeq(<< >>)
  /\ \A x : IsSeq(<< x >>) /\ Len(<< x >>) = 1 /\ DOMAIN << x >> = 1 .. 1 /\ << x >>[1] = x
<1>1. IsSeq(<< >>)
  <2>1. << >> \in Seq({})
    OBVIOUS
  <2> QED BY <2>1, SeqIs, Zenon
<1>2. ASSUME NEW x
      PROVE  IsSeq(<< x >>) /\ Len(<< x >>) = 1 /\ DOMAIN << x >> = 1 .. 1 /\ << x >>[1] = x
  <2>1. << x >> \in Seq({x})
    OBVIOUS
  <2>2. IsSeq(<< x >>)
    BY <2>1, SeqIs, Zenon
  <2> QED BY <2>2
<1> QED BY <1>1, <1>2

\* What st is when it is s followed by t.
Joins(s, t, st) ==
  /\ IsSeq(st) /\ Len(st) = Len(s) + Len(t)
  /\ \A i \in DOMAIN s : i \in DOMAIN st /\ st[i] = s[i]
  /\ \A i \in DOMAIN t : Len(s) + i \in DOMAIN st /\ st[Len(s) + i] = t[i]
  /\ \A i \in DOMAIN st :
       \/ i \in DOMAIN s /\ st[i] = s[i]
       \/ i - Len(s) \in DOMAIN t /\ st[i] = t[i - Len(s)]

LEMMA Joined ==
  ASSUME NEW s, NEW t, IsSeq(s), IsSeq(t)
  PROVE  Joins(s, t, s \o t)
<1> DEFINE S == Elements(s) \cup Elements(t)
<1>1. s \in Seq(S) /\ t \in Seq(S)
  <2> DEFINE A == Elements(s)
             B == Elements(t)
  <2>1. s \in Seq(A) /\ t \in Seq(B)
    BY DEF IsSeq
  <2>2. S = A \cup B
    OBVIOUS
  <2> HIDE DEF A, B, S
  <2>3. \A i \in 1 .. Len(s) : s[i] \in S
    BY <2>1, <2>2
  <2>4. \A i \in 1 .. Len(t) : t[i] \in S
    BY <2>1, <2>2
  <2>5. s \in [1 .. Len(s) -> S] /\ t \in [1 .. Len(t) -> S] /\ Len(s) \in Nat /\ Len(t) \in Nat
    BY <2>1, <2>3, <2>4
  <2> QED BY <2>5
<1> HIDE DEF S
<1>2. IsSeq(s \o t)
  <2>1. s \o t \in Seq(S)
    BY <1>1
  <2> QED BY <2>1, SeqIs, Zenon
<1> QED BY <1>1, <1>2 DEF Joins

LEMMA Rest ==
  ASSUME NEW s, IsSeq(s), s # << >>
  PROVE  /\ IsSeq(Tail(s)) /\ Len(Tail(s)) = Len(s) - 1 /\ Len(s) > 0
         /\ 1 \in DOMAIN s /\ Head(s) = s[1]
         /\ \A i \in DOMAIN Tail(s) : i + 1 \in DOMAIN s /\ Tail(s)[i] = s[i + 1]
         /\ \A i \in DOMAIN s : i = 1 \/ (i - 1 \in DOMAIN Tail(s) /\ Tail(s)[i - 1] = s[i])
<1> DEFINE S == Elements(s)
<1>1. s \in Seq(S)
  BY DEF IsSeq
<1> HIDE DEF S
<1>2. IsSeq(Tail(s))
  <2>1. Tail(s) \in Seq(S)
    BY <1>1
  <2> QED BY <2>1, SeqIs, Zenon
<1> QED BY <1>1, <1>2

\* Events without usage; events of which one at least names u, the others none.
Silent(s) == IsSeq(s) /\ \A i \in DOMAIN s : s[i].usage = 0

Names(s, u) ==
  /\ IsSeq(s)
  /\ \A i \in DOMAIN s : s[i].usage \in {0, u} /\ (s[i].type \in {"done", "save"} => s[i].usage = 0)
  /\ u # 0 => \E i \in DOMAIN s : s[i].usage = u

LEMMA SilentNames ==
  ASSUME NEW s
  PROVE  Silent(s) <=> Names(s, 0)
BY DEF Silent, Names

LEMMA NamesJoined ==
  ASSUME NEW s, NEW t, NEW u, Names(s, u), Names(t, u)
  PROVE  Names(s \o t, u)
<1>1. IsSeq(s) /\ IsSeq(t)
  BY DEF Names
<1> DEFINE st == s \o t
<1>2. Joins(s, t, st)
  BY <1>1, Joined, Zenon
<1> HIDE DEF st
<1>3. \A i \in DOMAIN st : st[i].usage \in {0, u} /\ (st[i].type \in {"done", "save"} => st[i].usage = 0)
  BY <1>2 DEF Names, Joins
<1>4. u # 0 => \E i \in DOMAIN st : st[i].usage = u
  BY <1>2 DEF Names, Joins
<1> QED BY <1>2, <1>3, <1>4 DEF Names, Joins, st

LEMMA NamesAround ==
  ASSUME NEW s, NEW t, NEW u, \/ Names(s, u) /\ Silent(t)
                              \/ Silent(s) /\ Names(t, u)
  PROVE  Names(s \o t, u)
<1>1. IsSeq(s) /\ IsSeq(t)
  BY DEF Names, Silent
<1> DEFINE st == s \o t
<1>2. Joins(s, t, st)
  BY <1>1, Joined, Zenon
<1> HIDE DEF st
<1>3. \A i \in DOMAIN st : st[i].usage \in {0, u} /\ (st[i].type \in {"done", "save"} => st[i].usage = 0)
  BY <1>2 DEF Names, Silent, Joins
<1>4. u # 0 => \E i \in DOMAIN st : st[i].usage = u
  BY <1>2 DEF Names, Silent, Joins
<1> QED BY <1>2, <1>3, <1>4 DEF Names, Joins, st

LEMMA SilentJoined ==
  ASSUME NEW s, NEW t, Silent(s), Silent(t)
  PROVE  Silent(s \o t)
BY SilentNames, NamesJoined, Zenon

-----------------------------------------------------------------------------
(* The converters.                                                         *)

UsageFields == {"usage", "input", "output", "prompt"}
KeptFields == UsageFields \cup {"completed"}
ListFields == {"calls", "images", "items"}

Lists(a) ==
  /\ \A f \in DOMAIN a \cap ListFields : IsSeq(a[f])
  /\ "messageIndex" \in DOMAIN a => a.messageIndex \in Nat

\* b is what a step that knows of no usage makes of a.
Quietly(a, b) ==
  /\ DOMAIN b = DOMAIN a
  /\ \A f \in DOMAIN a \cap KeptFields : b[f] = a[f]
  /\ Silent(b.out) /\ Lists(b)

Sound(a) == "out" \in DOMAIN a /\ Silent(a.out) /\ Lists(a)

LEMMA QuietlySound ==
  ASSUME NEW a, NEW b, Sound(a), Quietly(a, b)
  PROVE  Sound(b) /\ \A c : Quietly(b, c) => Quietly(a, c)
BY DEF Sound, Quietly

LEMMA QuietThen ==
  ASSUME NEW a, NEW b, NEW c, Quietly(a, b), Quietly(b, c)
  PROVE  Quietly(a, c)
BY DEF Quietly

LEMMA QuietSame ==
  ASSUME NEW a, Sound(a)
  PROVE  Quietly(a, a)
BY DEF Sound, Quietly

LEMMA QuietWrite ==
  ASSUME NEW a, Sound(a), NEW es, Silent(es)
  PROVE  /\ Quietly(a, Chat!Write(a, es)) /\ Quietly(a, Anthropic!Write(a, es))
         /\ Quietly(a, Vertex!Write(a, es)) /\ Quietly(a, Provider!Write(a, es))
<1> DEFINE b == [a EXCEPT !.out = @ \o es]
<1>1. DOMAIN b = DOMAIN a /\ b.out = a.out \o es /\ \A f \in DOMAIN a : f # "out" => b[f] = a[f]
  BY DEF Sound
<1>2. Silent(a.out \o es)
  BY SilentJoined DEF Sound
<1> HIDE DEF b
<1>3. Quietly(a, b)
  BY <1>1, <1>2 DEF Quietly, KeptFields, UsageFields, ListFields, Lists, Sound
<1> QED BY <1>3 DEF b, Chat!Write, Anthropic!Write, Vertex!Write, Provider!Write

LEMMA QuietEvents ==
  /\ Silent(<< >>)
  /\ \A e : e.usage = 0 => Silent(<< e >>)
  /\ \A d, e : d.usage = 0 /\ e.usage = 0 => Silent(<< d, e >>)
  /\ \A d, e, f : d.usage = 0 /\ e.usage = 0 /\ f.usage = 0 => Silent(<< d, e, f >>)
<1>1. Silent(<< >>)
  BY Short DEF Silent
<1>2. ASSUME NEW e, e.usage = 0 PROVE Silent(<< e >>)
  BY <1>2, Short DEF Silent
<1>3. ASSUME NEW d, NEW e, d.usage = 0, e.usage = 0
      PROVE  Silent(<< d, e >>)
  <2> DEFINE s == << d, e >>
  <2>1. s \in Seq({d, e}) /\ DOMAIN s = {1, 2} /\ s[1] = d /\ s[2] = e
    OBVIOUS
  <2>2. IsSeq(s)
    <3> HIDE DEF s
    <3> QED BY <2>1, SeqIs, Zenon
  <2> HIDE DEF s
  <2> QED BY <1>3, <2>1, <2>2 DEF Silent, s
<1>4. ASSUME NEW d, NEW e, NEW f, d.usage = 0, e.usage = 0, f.usage = 0
      PROVE  Silent(<< d, e, f >>)
  <2> DEFINE s == << d, e, f >>
  <2>1. s \in Seq({d, e, f}) /\ DOMAIN s = {1, 2, 3} /\ s[1] = d /\ s[2] = e /\ s[3] = f
    OBVIOUS
  <2>2. IsSeq(s)
    <3> HIDE DEF s
    <3> QED BY <2>1, SeqIs, Zenon
  <2> HIDE DEF s
  <2> QED BY <1>4, <2>1, <2>2 DEF Silent, s
<1> QED BY <1>1, <1>2, <1>3, <1>4

LEMMA ChatEvents ==
  ASSUME NEW item, NEW index
  PROVE  /\ Silent(Chat!HeaderEvents) /\ Silent(Chat!MessageStartEvents(item, index))
         /\ Silent(Chat!TextDelta(item, index)) /\ Silent(Chat!MessageDoneEvents(item, index))
         /\ Silent(Chat!ItemAdded(item, index)) /\ Silent(Chat!ItemDone(item, index))
         /\ \A type : Silent(<< Chat!Event(type, item, index) >>)
<1>1. \A type, i, n : Chat!Event(type, i, n).usage = 0
  BY DEF Chat!Event
<1> QED BY <1>1, QuietEvents DEF Chat!HeaderEvents, Chat!MessageStartEvents, Chat!TextDelta,
       Chat!MessageDoneEvents, Chat!ItemAdded, Chat!ItemDone

\* A field other than the usage and the output is set.
LEMMA QuietSet ==
  ASSUME NEW a, Sound(a), NEW b, Quietly(a, b), NEW f, NEW v, f \notin KeptFields \cup {"out"},
         f \in ListFields => IsSeq(v), f = "messageIndex" => v \in Nat
  PROVE  Quietly(a, [b EXCEPT ![f] = v])
BY DEF Sound, Quietly, KeptFields, UsageFields, Lists

LEMMA QuietMore ==
  ASSUME NEW a, Sound(a), NEW b, Quietly(a, b), NEW es, Silent(es)
  PROVE  /\ Quietly(a, Chat!Write(b, es)) /\ Quietly(a, Anthropic!Write(b, es))
         /\ Quietly(a, Vertex!Write(b, es)) /\ Quietly(a, Provider!Write(b, es))
BY QuietlySound, QuietWrite, Zenon

LEMMA ChatHeader ==
  ASSUME NEW a, Sound(a)
  PROVE  Quietly(a, Chat!emitHeaderEvents(a))
<1> DEFINE b == [a EXCEPT !.header = TRUE]
<1>1. Quietly(a, b)
  BY QuietSet, QuietSame DEF KeptFields, UsageFields, ListFields
<1> HIDE DEF b
<1>2. Quietly(a, Chat!Write(b, Chat!HeaderEvents))
  BY <1>1, QuietMore, ChatEvents, Zenon
<1> QED BY <1>2, QuietSame, Zenon DEF Chat!emitHeaderEvents, b

LEMMA ChatMessageStart ==
  ASSUME NEW a, Sound(a)
  PROVE  Quietly(a, Chat!emitMessageStartEvents(a))
<1> DEFINE item == Chat!GenerateItemID("msg", a.fresh)
           b == [a EXCEPT !.message = item]
           n == b.fresh + 1
           c == [b EXCEPT !.fresh = n]
<1>1. Quietly(a, b)
  <2> HIDE DEF item
  <2> QED BY QuietSet, QuietSame DEF KeptFields, UsageFields, ListFields
<1>2. Quietly(a, c)
  <2> HIDE DEF b, n
  <2> QED BY <1>1, QuietSet DEF KeptFields, UsageFields, ListFields
<1>3. Quietly(a, Chat!Write(c, Chat!MessageStartEvents(item, 0)))
  <2> HIDE DEF c, item
  <2> QED BY <1>2, QuietMore, ChatEvents, Zenon
<1>4. Chat!emitMessageStartEvents(a) =
        IF Chat!messageStarted(a) THEN a ELSE Chat!Write(c, Chat!MessageStartEvents(item, 0))
  BY Zenon DEF Chat!emitMessageStartEvents
<1> HIDE DEF c, item
<1> QED BY <1>3, <1>4, QuietSame, Zenon

LEMMA ChatStarted ==
  ASSUME NEW a, Sound(a)
  PROVE  Quietly(a, Chat!Started(a))
BY ChatHeader, ChatMessageStart, QuietlySound, Zenon DEF Chat!Started

LEMMA ChatContent ==
  ASSUME NEW a, Sound(a), NEW x
  PROVE  Quietly(a, Chat!Content(a, x)) /\ Quietly(a, Chat!Refusal(a, x))
<1> DEFINE b == Chat!Started(a)
           c == [b EXCEPT !.text = TRUE]
           d == [b EXCEPT !.refusal = TRUE]
<1>1. Quietly(a, b)
  BY ChatStarted
<1>2. Quietly(a, c) /\ Quietly(a, d)
  <2> HIDE DEF b
  <2> QED BY <1>1, QuietSet DEF KeptFields, UsageFields, ListFields
<1>3. \A i : Quietly(a, Chat!Write(c, Chat!TextDelta(i, 0)))
  <2> HIDE DEF c
  <2> QED BY <1>2, QuietMore, ChatEvents, Zenon
<1>4. \A i : Quietly(a, Chat!Write(d, << Chat!Event("refusal_delta", i, 0) >>))
  <2> HIDE DEF d
  <2> QED BY <1>2, QuietMore, ChatEvents, Zenon
<1> QED BY <1>3, <1>4, QuietSame, Zenon DEF Chat!Content, Chat!Refusal

LEMMA Listed ==
  ASSUME NEW n \in Int, NEW f, f = [i \in 1 .. n |-> f[i]]
  PROVE  IsSeq(f) /\ (n >= 0 => Len(f) = n)
<1> DEFINE S == {f[i] : i \in 1 .. n}
<1>1. f \in Seq(S)
  <2>1. CASE n >= 0
    <3>1. \A i \in 1 .. n : f[i] \in S
      OBVIOUS
    <3> HIDE DEF S
    <3>2. f \in [1 .. n -> S]
      BY <3>1, Zenon
    <3> QED BY <2>1, <3>2
  <2>2. CASE n < 0
    <3>1. 1 .. n = 1 .. 0
      BY <2>2
    <3>2. \A i \in 1 .. 0 : f[i] \in S
      OBVIOUS
    <3> HIDE DEF S
    <3>3. f \in [1 .. 0 -> S]
      BY <3>1, <3>2, Zenon
    <3> QED BY <3>3
  <2> QED BY <2>1, <2>2
<1>2. n >= 0 => Len(f) = n
  <2>1. DOMAIN f = 1 .. n
    OBVIOUS
  <2> HIDE DEF S
  <2> QED BY <1>1, <2>1
<1> HIDE DEF S
<1> QED BY <1>1, <1>2, SeqIs, Zenon

LEMMA Appended ==
  ASSUME NEW s, IsSeq(s), NEW item
  PROVE  IsSeq(Append(s, item)) /\ Append(s, item) = s \o << item >>
<1> DEFINE E == Elements(s)
           S == E \cup {item}
<1>1. s \in Seq(E)
  BY DEF IsSeq
<1>2. E \subseteq S /\ item \in S
  OBVIOUS
<1> HIDE DEF E, S
<1>3. \A i \in 1 .. Len(s) : s[i] \in S
  BY <1>1, <1>2
<1>4. s \in [1 .. Len(s) -> S] /\ Len(s) \in Nat
  BY <1>1, <1>3
<1>5. Append(s, item) \in Seq(S) /\ Append(s, item) = s \o << item >>
  BY <1>2, <1>4
<1> QED BY <1>5, SeqIs, Zenon

\* A list of calls with one more at its place.
LEMMA GrownIs ==
  ASSUME NEW calls, IsSeq(calls), NEW n \in Nat, NEW i, NEW item
  PROVE  IsSeq([Chat!Grown(calls, n) EXCEPT ![i] = item])
<1> DEFINE m == n - Len(calls)
           f == [j \in 1 .. m |-> Chat!NoItem]
           g == calls \o f
           h == [g EXCEPT ![i] = item]
<1>1. Len(calls) \in Nat
  BY DEF IsSeq
<1>2. IsSeq(f)
  <2>1. f = [j \in 1 .. m |-> f[j]] /\ m \in Int
    BY <1>1
  <2> HIDE DEF f, m
  <2> QED BY <2>1, Listed, Zenon
<1> HIDE DEF f
<1>3. IsSeq(g)
  BY <1>2, Joined, Zenon DEF Joins
<1> HIDE DEF g
<1>4. Len(g) \in Nat /\ DOMAIN g = 1 .. Len(g)
  BY <1>3 DEF IsSeq
<1>5. h = [j \in 1 .. Len(g) |-> h[j]]
  BY <1>4
<1> HIDE DEF h
<1>6. IsSeq(h)
  <2>1. Len(g) \in Int
    BY <1>4
  <2> QED BY <1>5, <2>1, Listed, Zenon
<1> QED BY <1>6 DEF h, g, f, m, Chat!Grown

LEMMA ChatNewCall ==
  ASSUME NEW a, Sound(a), "calls" \in DOMAIN a, NEW part, part.index \in Nat
  PROVE  Quietly(a, Chat!NewCall(a, part))
<1> DEFINE item == Chat!GenerateItemID("fc", a.fresh)
           calls == [Chat!Grown(a.calls, part.index + 1) EXCEPT ![part.index + 1] = item]
           b == [a EXCEPT !.calls = calls]
           n == b.fresh + 1
           c == [b EXCEPT !.fresh = n]
           added == Chat!ItemAdded(item, Chat!outputIndex(a, part.index))
<1>1. Quietly(a, b)
  <2>1. IsSeq(calls)
    <3>1. IsSeq(a.calls) /\ part.index + 1 \in Nat
      BY DEF Sound, Lists, ListFields
    <3> HIDE DEF item
    <3> QED BY <3>1, GrownIs, Zenon
  <2> HIDE DEF calls
  <2> QED BY <2>1, QuietSet, QuietSame DEF KeptFields, UsageFields, ListFields
<1>2. Quietly(a, c)
  <2> HIDE DEF b, n
  <2> QED BY <1>1, QuietSet DEF KeptFields, UsageFields, ListFields
<1>3. Quietly(a, Chat!Write(c, added))
  <2>1. Silent(added)
    BY ChatEvents, Zenon
  <2> HIDE DEF c, added
  <2> QED BY <1>2, <2>1, QuietMore, Zenon
<1>4. Chat!NewCall(a, part) = IF ~part.id THEN a ELSE Chat!Write(c, added)
  BY Zenon DEF Chat!NewCall
<1> HIDE DEF c, added
<1> QED BY <1>3, <1>4, QuietSame, Zenon

LEMMA ChatArguments ==
  ASSUME NEW a, Sound(a), "calls" \in DOMAIN a, NEW part, part.index \in Nat
  PROVE  Quietly(a, Chat!Arguments(a, part))
<1> DEFINE item == Chat!GenerateItemID("fc", a.fresh)
           calls == [Chat!Grown(a.calls, part.index + 1) EXCEPT ![part.index + 1] = item]
           b == [a EXCEPT !.calls = calls]
           n == b.fresh + 1
           c == [b EXCEPT !.fresh = n]
           d == IF part.index < Len(a.calls) THEN a ELSE c
           delta(u) == << Chat!Event("args_delta", u.calls[part.index + 1], Chat!outputIndex(u, part.index)) >>
<1>1. Quietly(a, b)
  <2>1. IsSeq(calls)
    <3>1. IsSeq(a.calls) /\ part.index + 1 \in Nat
      BY DEF Sound, Lists, ListFields
    <3> HIDE DEF item
    <3> QED BY <3>1, GrownIs, Zenon
  <2> HIDE DEF calls
  <2> QED BY <2>1, QuietSet, QuietSame DEF KeptFields, UsageFields, ListFields
<1>2. Quietly(a, c)
  <2> HIDE DEF b, n
  <2> QED BY <1>1, QuietSet DEF KeptFields, UsageFields, ListFields
<1>3. Quietly(a, d)
  <2> HIDE DEF c
  <2> QED BY <1>2, QuietSame, Zenon
<1>4. Quietly(a, Chat!Write(d, delta(d)))
  <2>1. Silent(delta(d))
    <3> HIDE DEF d
    <3> QED BY ChatEvents, Zenon
  <2> HIDE DEF d, delta
  <2> QED BY <1>3, <2>1, QuietMore, Zenon
<1>5. Chat!Arguments(a, part) = IF ~part.args THEN a ELSE Chat!Write(d, delta(d))
  <2>1. ~(part.index < Len(a.calls)) /\ part.args => Chat!Arguments(a, part) = Chat!Write(c, delta(c))
    BY Zenon DEF Chat!Arguments
  <2>2. part.index < Len(a.calls) /\ part.args => Chat!Arguments(a, part) = Chat!Write(a, delta(a))
    BY Zenon DEF Chat!Arguments
  <2>3. ~part.args => Chat!Arguments(a, part) = a
    BY Zenon DEF Chat!Arguments
  <2> HIDE DEF c, delta
  <2> QED BY <2>1, <2>2, <2>3
<1> HIDE DEF d, delta
<1> QED BY <1>4, <1>5, QuietSame, Zenon

LEMMA ChatCallPart ==
  ASSUME NEW a, Sound(a), "calls" \in DOMAIN a, NEW part, part.index \in Nat
  PROVE  Quietly(a, Chat!CallPart(a, part))
<1> DEFINE b == Chat!emitHeaderEvents(a)
           c == Chat!NewCall(b, part)
<1>1. Quietly(a, b)
  BY ChatHeader
<1> HIDE DEF b
<1>2. Sound(b) /\ "calls" \in DOMAIN b
  BY <1>1, QuietlySound DEF Quietly
<1>3. Quietly(b, c)
  BY <1>2, ChatNewCall
<1> HIDE DEF c
<1>4. Sound(c) /\ "calls" \in DOMAIN c
  BY <1>2, <1>3, QuietlySound DEF Quietly
<1>5. Quietly(c, Chat!Arguments(c, part))
  BY <1>4, ChatArguments
<1> QED BY <1>1, <1>3, <1>5, QuietThen, Zenon DEF b, c, Chat!CallPart

LEMMA ChatToolCalls ==
  ASSUME NEW a, Sound(a), "calls" \in DOMAIN a, NEW x, x.calls \in Seq(CallParts)
  PROVE  Quietly(a, Chat!ToolCalls(a, x))
<1> DEFINE n == Len(x.calls)
           e(f, i) == IF i = 0 THEN a ELSE Chat!CallPart(f[i - 1], x.calls[i])
           Solves(f, k) == f = [i \in 0 .. k |-> e(f, i)]
           Solved == {k \in Nat : \E f : Solves(f, k)}
           after == CHOOSE f : f = [i \in 0 .. n |-> e(f, i)]
<1>1. 0 \in Solved
  <2> DEFINE z == [i \in 0 .. 0 |-> a]
  <2>1. Solves(z, 0)
    <3>1. \A i \in 0 .. 0 : e(z, i) = a
      OBVIOUS
    <3> HIDE DEF e
    <3> QED BY <3>1
  <2> HIDE DEF Solves, z
  <2> QED BY <2>1
<1>2. ASSUME NEW k \in Nat \ {0}, k - 1 \in Solved
      PROVE  k \in Solved
  <2>1. PICK f : Solves(f, k - 1)
    BY <1>2
  <2> DEFINE g == [i \in 0 .. k |-> e(f, i)]
  <2>2. \A i \in 0 .. k : e(g, i) = e(f, i)
    <3> TAKE i \in 0 .. k
    <3>1. ASSUME i # 0
          PROVE  g[i - 1] = f[i - 1]
      <4> DEFINE p == i - 1
      <4>1. p \in 0 .. k - 1 /\ p \in 0 .. k
        BY <3>1
      <4> HIDE DEF e, p
      <4>2. f[p] = e(f, p)
        BY <2>1, <4>1, Zenon
      <4>3. g[p] = e(f, p)
        BY <4>1, Zenon
      <4> QED BY <4>2, <4>3 DEF p
    <3> HIDE DEF g
    <3> QED BY <3>1
  <2>3. Solves(g, k)
    <3> HIDE DEF e
    <3> QED BY <2>2, Zenon
  <2> HIDE DEF Solves, g
  <2> QED BY <2>3
<1>3. n \in Solved
  <2>1. CASE n = 0
    BY <1>1, <2>1
  <2>2. CASE n # 0
    <3> HIDE DEF Solved, n
    <3>1. \A i \in 1 .. n : (\A j \in 1 .. i - 1 : j \in Solved) => i \in Solved
      <4> SUFFICES ASSUME NEW i \in 1 .. n, \A j \in 1 .. i - 1 : j \in Solved
                   PROVE  i \in Solved
        OBVIOUS
      <4>1. i \in Nat \ {0} /\ i - 1 \in Solved
        BY <1>1
      <4> QED BY <1>2, <4>1
    <3>2. n \in Nat
      BY DEF n
    <3>3. 1 .. n \subseteq Solved
      BY <3>1, <3>2, Ascending
    <3> QED BY <2>2, <3>2, <3>3
  <2> QED BY <2>1, <2>2
<1>4. after = [i \in 0 .. n |-> e(after, i)]
  <2>1. \E f : f = [i \in 0 .. n |-> e(f, i)]
    <3> HIDE DEF e, n
    <3> QED BY <1>3, Zenon
  <2> HIDE DEF e, n
  <2> QED BY <2>1, Zenon
<1>5. Chat!ToolCalls(a, x) = after[n]
  BY Zenon DEF Chat!ToolCalls
<1> HIDE DEF after
<1>6. after[0] = a /\ \A i \in 1 .. n : after[i] = Chat!CallPart(after[i - 1], x.calls[i])
  <2>1. \A i \in 0 .. n : after[i] = e(after, i)
    <3> HIDE DEF e, n
    <3> QED BY <1>4, Zenon
  <2> QED BY <2>1
<1> DEFINE T == {i \in Nat : Quietly(a, after[i])}
<1>7. 0 \in T
  BY <1>6, QuietSame
<1>8. \A i \in 1 .. n : (\A j \in 1 .. i - 1 : j \in T) => i \in T
  <2> SUFFICES ASSUME NEW i \in 1 .. n, \A j \in 1 .. i - 1 : j \in T
               PROVE  i \in T
    OBVIOUS
  <2>1. Quietly(a, after[i - 1])
    <3>1. i - 1 \in T
      BY <1>7
    <3> QED BY <3>1
  <2>2. Quietly(a, Chat!CallPart(after[i - 1], x.calls[i]))
    <3> DEFINE b == after[i - 1]
    <3> HIDE DEF b
    <3>1. Quietly(a, b)
      BY <2>1 DEF b
    <3>2. Sound(b) /\ "calls" \in DOMAIN b /\ x.calls[i].index \in Nat
      <4>1. x.calls[i] \in CallParts
        OBVIOUS
      <4>2. x.calls[i].index \in Nat
        BY <4>1 DEF CallParts
      <4>3. Sound(b)
        BY <3>1, QuietlySound, Zenon
      <4> QED BY <3>1, <4>2, <4>3 DEF Quietly
    <3>3. Quietly(b, Chat!CallPart(b, x.calls[i]))
      BY <3>2, ChatCallPart
    <3>4. Quietly(a, Chat!CallPart(b, x.calls[i]))
      BY <3>1, <3>3, QuietThen, Zenon
    <3> QED BY <3>4 DEF b
  <2> HIDE DEF n
  <2> QED BY <1>6, <2>2
<1>9. 1 .. n \subseteq T
  <2>1. n \in Nat
    OBVIOUS
  <2> HIDE DEF T, n
  <2> QED BY <1>8, <2>1, Ascending
<1> HIDE DEF T
<1>10. n \in T
  BY <1>7, <1>9
<1> QED BY <1>5, <1>10 DEF T

LEMMA ChatChunkIs ==
  ASSUME NEW a, Sound(a), "calls" \in DOMAIN a, NEW x, x.calls \in Seq(CallParts)
  PROVE  LET u == IF x.usage = 0 THEN a ELSE [a EXCEPT !.usage = x.usage]
         IN  Quietly(u, Chat!ChatChunk(a, x))
<1> DEFINE u == IF x.usage = 0 THEN a ELSE [a EXCEPT !.usage = x.usage]
           b == Chat!Content(u, x)
           c == Chat!Refusal(b, x)
           d == Chat!ToolCalls(c, x)
           e == Chat!FinishReason(d, x)
<1>1. Sound(u) /\ DOMAIN u = DOMAIN a
  BY DEF Sound, Lists, ListFields
<1>2. Chat!ChatChunk(a, x) = IF ~x.choices THEN u ELSE e
  BY Zenon DEF Chat!ChatChunk, Chat!CaptureUsage
<1> HIDE DEF u
<1>3. Quietly(u, b)
  BY <1>1, ChatContent
<1> HIDE DEF b
<1>4. Quietly(u, c)
  BY <1>1, <1>3, ChatContent, QuietlySound, Zenon
<1> HIDE DEF c
<1>5. Quietly(u, d)
  <2>1. Sound(c) /\ "calls" \in DOMAIN c
    BY <1>1, <1>4, QuietlySound DEF Quietly
  <2>2. Quietly(c, d)
    BY <2>1, ChatToolCalls
  <2> HIDE DEF d
  <2> QED BY <1>4, <2>2, QuietThen, Zenon
<1> HIDE DEF d
<1>6. Quietly(u, e)
  <2>1. Quietly(u, [d EXCEPT !.finish = x.finish])
    BY <1>1, <1>5, QuietSet DEF KeptFields, UsageFields, ListFields
  <2> QED BY <1>5, <2>1, Zenon DEF Chat!FinishReason
<1> HIDE DEF e
<1> QED BY <1>1, <1>2, <1>6, QuietSame, Zenon DEF u

\* b is what a step makes of a that writes events with the usage u.
Loudly(a, u, b) ==
  /\ DOMAIN b = DOMAIN a
  /\ \A f \in DOMAIN a \cap UsageFields : b[f] = a[f]
  /\ Names(b.out, u) /\ Lists(b)

Loud(a, u) == "out" \in DOMAIN a /\ Lists(a) /\ (Silent(a.out) \/ Names(a.out, u))

LEMMA LoudWrite ==
  ASSUME NEW a, NEW u, Loud(a, u), NEW es, Names(es, u) \/ (Names(a.out, u) /\ Silent(es))
  PROVE  /\ Loudly(a, u, Chat!Write(a, es)) /\ Loudly(a, u, Anthropic!Write(a, es))
         /\ Loudly(a, u, Vertex!Write(a, es))
<1> DEFINE b == [a EXCEPT !.out = @ \o es]
<1>1. DOMAIN b = DOMAIN a /\ b.out = a.out \o es /\ \A f \in DOMAIN a : f # "out" => b[f] = a[f]
  BY DEF Loud
<1>2. Names(a.out \o es, u)
  BY NamesAround, NamesJoined, Zenon DEF Loud
<1> HIDE DEF b
<1>3. Loudly(a, u, b)
  BY <1>1, <1>2 DEF Loudly, KeptFields, UsageFields, ListFields, Lists, Loud
<1> QED BY <1>3 DEF b, Chat!Write, Anthropic!Write, Vertex!Write

LEMMA LoudSet ==
  ASSUME NEW a, NEW u, Loud(a, u), NEW f, f \notin UsageFields \cup ListFields \cup {"out", "messageIndex"}, NEW v
  PROVE  LET b == [a EXCEPT ![f] = v]
         IN  /\ Loud(b, u) /\ DOMAIN b = DOMAIN a /\ b.out = a.out
             /\ \A g \in DOMAIN a \cap (UsageFields \cup ListFields) : b[g] = a[g]
BY DEF Loud, KeptFields, UsageFields, ListFields, Lists

LEMMA LoudThen ==
  ASSUME NEW a, NEW u, NEW b, Loudly(a, u, b)
  PROVE  /\ "out" \in DOMAIN a => Loud(b, u) /\ Names(b.out, u)
         /\ \A c : Loudly(b, u, c) => Loudly(a, u, c)
BY DEF Loudly, Loud

\* A completion: events of which the last has the usage, then onComplete.
LEMMA LoudEnd ==
  ASSUME NEW a, Sound(a), NEW h, Quietly(a, h), NEW u, NEW es, Names(es, u), NEW save, Silent(save)
  PROVE  /\ Loudly(a, u, Anthropic!Write(Anthropic!Write(h, es), save))
         /\ Loudly(a, u, Vertex!Write(Vertex!Write(h, es), save))
<1>1. Loud(h, u) /\ "out" \in DOMAIN h
  BY QuietlySound DEF Sound, Loud
<1>2. ASSUME NEW b, Loudly(h, u, b)
      PROVE  Loud(b, u) /\ Names(b.out, u) /\ \A c : Loudly(b, u, c) => Loudly(a, u, c)
  <2>1. Loudly(a, u, b)
    BY <1>2 DEF Loudly, Quietly, KeptFields
  <2>2. "out" \in DOMAIN a
    BY DEF Sound
  <2> QED BY <2>1, <2>2, LoudThen, Zenon
<1>3. Loudly(h, u, Anthropic!Write(h, es)) /\ Loudly(h, u, Vertex!Write(h, es))
  BY <1>1, LoudWrite
<1>4. ASSUME NEW b, Loudly(h, u, b)
      PROVE  Loudly(a, u, Anthropic!Write(b, save)) /\ Loudly(a, u, Vertex!Write(b, save))
  BY <1>2, <1>4, LoudWrite
<1> QED BY <1>3, <1>4

LEMMA ChatCloses ==
  ASSUME NEW a, IsSeq(a.calls)
  PROVE  Silent(Chat!CloseMessage(a)) /\ Silent(Chat!CloseCalls(a))
<1>1. Silent(Chat!CloseMessage(a))
  <2> DEFINE s == IF Chat!messageStarted(a) /\ a.text THEN Chat!MessageDoneEvents(a.message, 0) ELSE << >>
             t == IF Chat!messageStarted(a) /\ a.refusal
                  THEN << Chat!Event("refusal_done", a.message, 0) >> ELSE << >>
  <2>1. Silent(s) /\ Silent(t)
    BY ChatEvents, QuietEvents, Zenon
  <2>2. Chat!CloseMessage(a) = s \o t
    BY Zenon DEF Chat!CloseMessage
  <2> HIDE DEF s, t
  <2> QED BY <2>1, <2>2, SilentJoined
<1>2. Silent(Chat!CloseCalls(a))
  <2> DEFINE n == 2 * Len(a.calls)
             f == Chat!CloseCalls(a)
             e(i) == LET call == (i + 1) \div 2 IN
                     Chat!Event(IF i % 2 = 1 THEN "args_done" ELSE "item_done",
                                a.calls[call], Chat!outputIndex(a, call - 1))
  <2>1. n \in Int
    BY DEF IsSeq
  <2>2. f = [i \in 1 .. n |-> e(i)]
    BY Zenon DEF Chat!CloseCalls
  <2>3. \A i : e(i).usage = 0
    BY DEF Chat!Event
  <2> HIDE DEF n, f, e
  <2>4. f = [i \in 1 .. n |-> f[i]] /\ DOMAIN f = 1 .. n /\ \A i \in 1 .. n : f[i] = e(i)
    BY <2>2
  <2>5. IsSeq(f)
    BY <2>1, <2>4, Listed, Zenon
  <2>6. Silent(f)
    BY <2>3, <2>4, <2>5 DEF Silent
  <2> QED BY <2>6 DEF f
<1> QED BY <1>1, <1>2

\* The last event has the usage.
LEMMA LastEvent ==
  ASSUME NEW type, type \notin {"done", "save"}, NEW output, NEW u
  PROVE  /\ Names(Chat!ResponseEvent(type, output, u), u) /\ Silent(Chat!OnComplete(output))
         /\ Names(Anthropic!ResponseEvent(type, output, u), u) /\ Silent(Anthropic!OnComplete(output))
         /\ Names(Vertex!ResponseEvent(type, output, u), u) /\ Silent(Vertex!OnComplete(output))
<1>1. \A e : e.usage = u /\ e.type \notin {"done", "save"} => Names(<< e >>, u)
  BY Short DEF Names
<1> QED BY <1>1, QuietEvents
    DEF Chat!ResponseEvent, Chat!OnComplete, Anthropic!ResponseEvent, Anthropic!OnComplete,
        Vertex!ResponseEvent, Vertex!OnComplete

LEMMA ChatComplete ==
  ASSUME NEW a, {"usage", "calls"} \subseteq DOMAIN a, Loud(a, a.usage)
  PROVE  Loudly(a, a.usage, Chat!Complete(a))
<1> DEFINE u == a.usage
           type == Chat!TerminalType(a)
           closed == Chat!CloseMessage(a) \o Chat!CloseCalls(a)
           last == Chat!ResponseEvent(type, Chat!Output(a), u)
           b == Chat!emitCompletionEvents(a)
<1>1. Silent(closed)
  <2>1. IsSeq(a.calls)
    BY DEF Loud, Lists, ListFields
  <2> QED BY <2>1, ChatCloses, SilentJoined, Zenon
<1>2. Names(last, u)
  <2>1. type \notin {"done", "save"}
    BY DEF Chat!TerminalType
  <2> HIDE DEF type
  <2> QED BY <2>1, LastEvent, Zenon
<1>3. Loudly(a, u, b)
  <2> DEFINE es == closed \o last
  <2>1. b = Chat!Write(a, es)
    BY Zenon DEF Chat!emitCompletionEvents
  <2> HIDE DEF closed, last, b
  <2>2. Names(es, u)
    BY <1>1, <1>2, NamesAround, Zenon
  <2> HIDE DEF u, es
  <2>3. Loud(a, u)
    BY DEF u
  <2>4. Loudly(a, u, Chat!Write(a, es))
    BY <2>2, <2>3, LoudWrite
  <2> QED BY <2>1, <2>4
<1>4. Chat!Complete(a) = Chat!Write(b, Chat!OnComplete(Chat!Output(b)))
  BY Zenon DEF Chat!Complete
<1> HIDE DEF b
<1>5. Silent(Chat!OnComplete(Chat!Output(b)))
  <2>1. "completed" \notin {"done", "save"}
    OBVIOUS
  <2> QED BY <2>1, LastEvent, Zenon
<1>6. Loud(b, u) /\ Names(b.out, u)
  <2> HIDE DEF u
  <2>1. "out" \in DOMAIN a
    BY DEF Loud
  <2> QED BY <1>3, <2>1, LoudThen, Zenon
<1> HIDE DEF u
<1>7. Loudly(b, u, Chat!Complete(a))
  BY <1>4, <1>5, <1>6, LoudWrite, Zenon
<1> QED BY <1>3, <1>7, LoudThen, Zenon DEF u

LEMMA ChatEnd ==
  ASSUME NEW a, {"usage", "calls"} \subseteq DOMAIN a, Loud(a, a.usage)
  PROVE  LET b == Chat!EndOfStream(a)
         IN  (b = a /\ a.completed) \/ Loudly(a, a.usage, b)
<1> DEFINE u == a.usage
           h == Chat!emitHeaderEvents(a)
<1>1. Loudly(a, u, Chat!Complete(a))
  BY ChatComplete
<1>2. h = a \/ (Loud(h, u) /\ DOMAIN h = DOMAIN a /\ \A f \in DOMAIN a \cap UsageFields : h[f] = a[f])
  <2> DEFINE b == [a EXCEPT !.header = TRUE]
             c == Chat!Write(b, Chat!HeaderEvents)
             d == [b EXCEPT !.out = @ \o Chat!HeaderEvents]
  <2>1. /\ Loud(b, u) /\ DOMAIN b = DOMAIN a
        /\ \A f \in DOMAIN a \cap UsageFields : b[f] = a[f]
    <3> HIDE DEF u
    <3>1. Loud(a, u)
      BY DEF u
    <3> QED BY <3>1, LoudSet DEF KeptFields, UsageFields, ListFields
  <2>2. h = a \/ h = c
    BY Zenon DEF Chat!emitHeaderEvents
  <2>3. c = d
    BY Zenon DEF Chat!Write
  <2>4. Silent(Chat!HeaderEvents)
    BY ChatEvents
  <2> HIDE DEF b, c, h, u
  <2>5. DOMAIN d = DOMAIN b /\ d.out = b.out \o Chat!HeaderEvents /\ \A f \in DOMAIN b : f # "out" => d[f] = b[f]
    BY <2>1 DEF Loud
  <2>6. Silent(d.out) \/ Names(d.out, u)
    BY <2>1, <2>4, <2>5, SilentJoined, NamesAround, Zenon DEF Loud
  <2> HIDE DEF d
  <2>7. Loud(d, u)
    BY <2>1, <2>5, <2>6 DEF Loud, Lists, ListFields
  <2>8. \A f \in DOMAIN a \cap UsageFields : d[f] = a[f]
    BY <2>1, <2>5 DEF KeptFields, UsageFields
  <2> QED BY <2>1, <2>2, <2>3, <2>5, <2>7, <2>8
<1>3. Loudly(a, u, Chat!Complete(h))
  <2>1. CASE h = a
    BY <1>1, <2>1
  <2>2. CASE h # a
    <3> DEFINE c == Chat!Complete(h)
    <3> HIDE DEF h
    <3>1. h.usage = u /\ {"usage", "calls"} \subseteq DOMAIN h
      BY <1>2, <2>2 DEF KeptFields, UsageFields
    <3>2. Loudly(h, u, c)
      <4> HIDE DEF u
      <4>1. Loud(h, h.usage)
        BY <1>2, <2>2, <3>1
      <4> QED BY <3>1, <4>1, ChatComplete
    <3> HIDE DEF u
    <3>3. Loudly(a, u, c)
      <4> HIDE DEF c
      <4> QED BY <1>2, <2>2, <3>2 DEF Loudly, KeptFields, UsageFields
    <3> QED BY <3>3
  <2> QED BY <2>1, <2>2
<1>4. \/ Chat!EndOfStream(a) \in {Chat!Complete(a), Chat!Complete(h)}
      \/ Chat!EndOfStream(a) = a /\ a.completed
  BY Zenon DEF Chat!EndOfStream
<1> HIDE DEF h, u
<1> QED BY <1>1, <1>3, <1>4 DEF u

\* Of a stream that ended the usage is in the last event, once or twice.
LEMMA ChatDone ==
  ASSUME NEW a, {"usage", "calls"} \subseteq DOMAIN a, Sound(a)
  PROVE  Loudly(a, a.usage, Chat!Done(a))
<1> DEFINE u == a.usage
           b == Chat!Complete(a)
           c == [b EXCEPT !.completed = TRUE]
           d == Chat!EndOfStream(c)
<1>1. Loud(a, u) /\ "out" \in DOMAIN a
  BY DEF Sound, Loud
<1>2. Loudly(a, u, b)
  BY <1>1, ChatComplete
<1> HIDE DEF b
<1>3. Loudly(a, u, c)
  <2> HIDE DEF u
  <2> QED BY <1>2 DEF Loudly, KeptFields, UsageFields, ListFields, Lists
<1> HIDE DEF c
<1>4. c.usage = u /\ {"usage", "calls"} \subseteq DOMAIN c /\ Loud(c, u)
  BY <1>1, <1>3 DEF Loudly, Loud, KeptFields, UsageFields
<1>5. d = c \/ Loudly(c, u, d)
  BY <1>4, ChatEnd
<1> HIDE DEF d, u
<1>6. Loudly(a, u, d)
  BY <1>3, <1>5, LoudThen, Zenon
<1> QED BY <1>6 DEF d, c, b, u, Chat!Done

LEMMA AnthropicEvents ==
  ASSUME NEW item, NEW index
  PROVE  /\ Silent(Anthropic!HeaderEvents) /\ Silent(Anthropic!MessageStartEvents(item, index))
         /\ Silent(Anthropic!TextDelta(item, index)) /\ Silent(Anthropic!MessageDoneEvents(item, index))
         /\ Silent(Anthropic!ItemAdded(item, index)) /\ Silent(Anthropic!ItemDone(item, index))
         /\ \A type : Silent(<< Anthropic!Event(type, item, index) >>)
<1>1. \A type, i, n : Anthropic!Event(type, i, n).usage = 0
  BY DEF Anthropic!Event
<1> QED BY <1>1, QuietEvents DEF Anthropic!HeaderEvents, Anthropic!MessageStartEvents, Anthropic!TextDelta,
       Anthropic!MessageDoneEvents, Anthropic!ItemAdded, Anthropic!ItemDone

LEMMA AnthropicHeader ==
  ASSUME NEW a, Sound(a)
  PROVE  Quietly(a, Anthropic!emitAnthropicHeaderEvents(a))
<1> DEFINE b == [a EXCEPT !.header = TRUE]
<1>1. Quietly(a, b)
  BY QuietSet, QuietSame DEF KeptFields, UsageFields, ListFields
<1> HIDE DEF b
<1>2. Quietly(a, Anthropic!Write(b, Anthropic!HeaderEvents))
  BY <1>1, QuietMore, AnthropicEvents, Zenon
<1> QED BY <1>2, QuietSame, Zenon DEF Anthropic!emitAnthropicHeaderEvents, b

\* What is set and then written.
LEMMA QuietSets ==
  ASSUME NEW a, Sound(a), NEW b, Quietly(a, b),
         NEW f, NEW v, f \notin KeptFields \cup ListFields \cup {"out", "messageIndex"},
         NEW g, NEW w, g \notin KeptFields \cup ListFields \cup {"out", "messageIndex"}
  PROVE  Quietly(a, [[b EXCEPT ![f] = v] EXCEPT ![g] = w])
<1> DEFINE c == [b EXCEPT ![f] = v]
<1>1. Quietly(a, c)
  BY QuietSet, Zenon
<1> HIDE DEF c
<1>2. Quietly(a, [c EXCEPT ![g] = w])
  BY <1>1, QuietSet
<1> QED BY <1>2 DEF c

LEMMA AnthropicThinking ==
  ASSUME NEW a, Sound(a)
  PROVE  Quietly(a, Anthropic!ThinkingStart(a))
<1> DEFINE h == Anthropic!emitAnthropicHeaderEvents(a)
           item == Anthropic!GenerateItemID("rs", h.fresh)
           n == h.fresh + 1
           b == [[h EXCEPT !.reasoning = item] EXCEPT !.fresh = n]
           es == Anthropic!ItemAdded(item, Len(h.items))
<1>1. Quietly(a, h)
  BY AnthropicHeader
<1>2. Anthropic!ThinkingStart(a) = Anthropic!Write(b, es)
  BY Zenon DEF Anthropic!ThinkingStart
<1>3. Silent(es)
  BY AnthropicEvents, Zenon
<1>4. Quietly(a, b)
  <2> HIDE DEF h, item, n
  <2> QED BY <1>1, QuietSets DEF KeptFields, UsageFields, ListFields
<1> HIDE DEF b, es
<1> QED BY <1>2, <1>3, <1>4, QuietMore

LEMMA AnthropicTool ==
  ASSUME NEW a, Sound(a)
  PROVE  Quietly(a, Anthropic!ToolStart(a))
<1> DEFINE h == Anthropic!emitAnthropicHeaderEvents(a)
           item == Anthropic!GenerateItemID("fc", h.fresh)
           index == Len(h.items) + (IF Anthropic!AMessageStarted(h) THEN 1 ELSE 0)
           n == h.fresh + 1
           c == [h EXCEPT !.tool = item]
           b == [[c EXCEPT !.toolIndex = index] EXCEPT !.fresh = n]
           es == Anthropic!ItemAdded(item, index)
<1>1. Quietly(a, h)
  BY AnthropicHeader
<1>2. Anthropic!ToolStart(a) = Anthropic!Write(b, es)
  BY Zenon DEF Anthropic!ToolStart
<1>3. Silent(es)
  <2> HIDE DEF item, index
  <2> QED BY AnthropicEvents, Zenon
<1>4. Quietly(a, c)
  <2> HIDE DEF h, item
  <2> QED BY <1>1, QuietSet DEF KeptFields, UsageFields, ListFields
<1>5. Quietly(a, b)
  <2> HIDE DEF c, n, index
  <2> QED BY <1>4, QuietSets DEF KeptFields, UsageFields, ListFields
<1> HIDE DEF b, es
<1> QED BY <1>2, <1>3, <1>5, QuietMore

LEMMA AnthropicMessage ==
  ASSUME NEW a, Sound(a), "items" \in DOMAIN a
  PROVE  Quietly(a, Anthropic!emitAnthropicMessageStart(a))
<1> DEFINE item == Anthropic!GenerateItemID("msg", a.fresh)
           n == a.fresh + 1
           d == [a EXCEPT !.message = item]
           c == [d EXCEPT !.messageIndex = Len(a.items)]
           b == [c EXCEPT !.fresh = n]
           es == Anthropic!MessageStartEvents(item, Len(a.items))
<1>1. Anthropic!emitAnthropicMessageStart(a) \in {a, Anthropic!Write(b, es)}
  BY Zenon DEF Anthropic!emitAnthropicMessageStart
<1>2. Silent(es)
  <2> HIDE DEF item
  <2> QED BY AnthropicEvents, Zenon
<1>3. Quietly(a, d)
  <2> HIDE DEF item
  <2> QED BY QuietSame, QuietSet DEF KeptFields, UsageFields, ListFields
<1>4. Quietly(a, c)
  <2>1. Len(a.items) \in Nat
    BY DEF Sound, Lists, ListFields, IsSeq
  <2> HIDE DEF d
  <2> QED BY <1>3, <2>1, QuietSet DEF KeptFields, UsageFields, ListFields
<1>5. Quietly(a, b)
  <2> HIDE DEF c, n
  <2> QED BY <1>4, QuietSet DEF KeptFields, UsageFields, ListFields
<1> HIDE DEF b, es
<1> QED BY <1>1, <1>2, <1>5, QuietSame, QuietMore

LEMMA AnthropicText ==
  ASSUME NEW a, Sound(a), "items" \in DOMAIN a
  PROVE  Quietly(a, Anthropic!handleAnthropicTextDelta(a))
<1> DEFINE h == Anthropic!emitAnthropicHeaderEvents(a)
           b == Anthropic!emitAnthropicMessageStart(h)
           c == [b EXCEPT !.text = TRUE]
           es == Anthropic!TextDelta(b.message, b.messageIndex)
<1>1. Quietly(a, b)
  <2>1. Quietly(a, h)
    BY AnthropicHeader
  <2> HIDE DEF h
  <2>2. Sound(h)
    BY <2>1, QuietlySound, Zenon
  <2>3. "items" \in DOMAIN h
    BY <2>1 DEF Quietly
  <2>4. Quietly(h, b)
    BY <2>2, <2>3, AnthropicMessage
  <2> HIDE DEF b
  <2> QED BY <2>1, <2>4, QuietThen, Zenon
<1>2. Anthropic!handleAnthropicTextDelta(a) = Anthropic!Write(c, es)
  BY Zenon DEF Anthropic!handleAnthropicTextDelta
<1>3. Silent(es)
  <2> HIDE DEF b
  <2> QED BY AnthropicEvents, Zenon
<1>4. Quietly(a, c)
  <2> HIDE DEF b
  <2> QED BY <1>1, QuietSet DEF KeptFields, UsageFields, ListFields
<1> HIDE DEF c, es
<1> QED BY <1>2, <1>3, <1>4, QuietMore

LEMMA AnthropicBlock ==
  ASSUME NEW a, Sound(a), "items" \in DOMAIN a, NEW x
  PROVE  Quietly(a, Anthropic!BlockStart(a, x)) /\ Quietly(a, Anthropic!BlockDelta(a, x))
<1>1. Quietly(a, Anthropic!BlockStart(a, x))
  <2> DEFINE c == [a EXCEPT !.block = x.block]
             b == [[c EXCEPT !.text = FALSE] EXCEPT !.thinking = FALSE]
  <2>1. Anthropic!BlockStart(a, x) \in {Anthropic!ThinkingStart(b), Anthropic!ToolStart(b), b}
    BY Zenon DEF Anthropic!BlockStart
  <2>2. Quietly(a, c)
    BY QuietSame, QuietSet DEF KeptFields, UsageFields, ListFields
  <2>3. Quietly(a, b)
    <3> HIDE DEF c
    <3> QED BY <2>2, QuietSets DEF KeptFields, UsageFields, ListFields
  <2> HIDE DEF b
  <2>4. Quietly(a, Anthropic!ThinkingStart(b)) /\ Quietly(a, Anthropic!ToolStart(b))
    BY <2>3, AnthropicThinking, AnthropicTool, QuietlySound, Zenon
  <2> QED BY <2>1, <2>3, <2>4
<1>2. Quietly(a, Anthropic!BlockDelta(a, x))
  <2> DEFINE b == [a EXCEPT !.thinking = TRUE]
             es == << Anthropic!Event("args_delta", a.tool, a.toolIndex) >>
  <2>1. Anthropic!BlockDelta(a, x) \in {Anthropic!handleAnthropicTextDelta(a), b, Anthropic!Write(a, es), a}
    BY Zenon DEF Anthropic!BlockDelta
  <2>2. Quietly(a, b)
    BY QuietSame, QuietSet DEF KeptFields, UsageFields, ListFields
  <2>3. Silent(es)
    BY AnthropicEvents, Zenon
  <2> HIDE DEF b, es
  <2> QED BY <2>1, <2>2, <2>3, AnthropicText, QuietSame, QuietMore
<1> QED BY <1>1, <1>2

LEMMA AnthropicFinalize ==
  ASSUME NEW a, Sound(a), "items" \in DOMAIN a
  PROVE  Quietly(a, Anthropic!finalizeCurrentBlock(a))
<1> DEFINE b == [a EXCEPT !.block = "none"]
           content == b.content \/ a.text
           c == [[b EXCEPT !.content = content] EXCEPT !.text = FALSE]
           thoughts == IF a.thinking THEN Append(b.items, a.reasoning) ELSE b.items
           d == [[b EXCEPT !.items = thoughts] EXCEPT !.reasoning = Anthropic!NoItem]
           tools == Append(b.items, a.tool)
           e == [[[b EXCEPT !.items = tools] EXCEPT !.tool = Anthropic!NoItem] EXCEPT !.toolIndex = 0]
           closed == Anthropic!ItemDone(a.reasoning, Len(a.items))
           filled == << Anthropic!Event("args_done", a.tool, a.toolIndex) >>
<1>1. Anthropic!finalizeCurrentBlock(a) \in
        {c, Anthropic!Write(d, closed), Anthropic!Write(e, filled), b}
  BY Zenon DEF Anthropic!finalizeCurrentBlock
<1>2. Quietly(a, b)
  BY QuietSame, QuietSet DEF KeptFields, UsageFields, ListFields
<1>3. IsSeq(b.items)
  <2>1. b.items = a.items
    OBVIOUS
  <2> HIDE DEF b
  <2> QED BY <2>1 DEF Sound, Lists, ListFields
<1>4. \A item : IsSeq(Append(b.items, item))
  <2> HIDE DEF b
  <2> QED BY <1>3, Appended
<1>5. Quietly(a, c)
  <2> HIDE DEF b, content
  <2> QED BY <1>2, QuietSets DEF KeptFields, UsageFields, ListFields
<1>6. Quietly(a, d)
  <2> DEFINE i == [b EXCEPT !.items = thoughts]
  <2>1. IsSeq(thoughts)
    BY <1>3, <1>4
  <2> HIDE DEF b, thoughts
  <2>2. Quietly(a, i)
    BY <1>2, <2>1, QuietSet DEF KeptFields, UsageFields
  <2> HIDE DEF i
  <2>3. Quietly(a, [i EXCEPT !.reasoning = Anthropic!NoItem])
    BY <2>2, QuietSet DEF KeptFields, UsageFields, ListFields
  <2> QED BY <2>3 DEF i
<1>7. Quietly(a, e)
  <2> DEFINE i == [b EXCEPT !.items = tools]
  <2>1. IsSeq(tools)
    BY <1>4
  <2> HIDE DEF b, tools
  <2>2. Quietly(a, i)
    BY <1>2, <2>1, QuietSet DEF KeptFields, UsageFields
  <2> HIDE DEF i
  <2>3. Quietly(a, [[i EXCEPT !.tool = Anthropic!NoItem] EXCEPT !.toolIndex = 0])
    BY <2>2, QuietSets DEF KeptFields, UsageFields, ListFields
  <2> QED BY <2>3 DEF i
<1>8. Silent(closed) /\ Silent(filled)
  BY AnthropicEvents, Zenon
<1> HIDE DEF b, c, d, e, closed, filled
<1> QED BY <1>1, <1>2, <1>5, <1>6, <1>7, <1>8, QuietMore

LEMMA AnthropicEventIs ==
  ASSUME NEW a, Sound(a), "items" \in DOMAIN a, NEW x
  PROVE  LET u == CASE x.type = "message_start" -> [a EXCEPT !.input = x.usage]
                    [] x.type = "message_delta" -> [a EXCEPT !.output = x.usage]
                    [] OTHER -> a
         IN  Quietly(u, Anthropic!processAnthropicEvent(a, x))
<1> DEFINE b == [a EXCEPT !.input = x.usage]
           c == [a EXCEPT !.output = x.usage]
<1>1. Sound(b) /\ Sound(c)
  BY DEF Sound, Lists, ListFields
<1>2. CASE x.type = "message_start"
  <2>1. Anthropic!processAnthropicEvent(a, x) = b
    BY <1>2 DEF Anthropic!processAnthropicEvent
  <2> HIDE DEF b
  <2> QED BY <1>1, <1>2, <2>1, QuietSame DEF b
<1>3. CASE x.type = "message_delta"
  <2>1. Anthropic!processAnthropicEvent(a, x) = c
    BY <1>3 DEF Anthropic!processAnthropicEvent
  <2> HIDE DEF c
  <2> QED BY <1>1, <1>3, <2>1, QuietSame DEF c
<1>4. CASE x.type \notin {"message_start", "message_delta"}
  <2>1. Quietly(a, Anthropic!processAnthropicEvent(a, x))
    BY <1>4, AnthropicBlock, AnthropicFinalize, QuietSame, Zenon DEF Anthropic!processAnthropicEvent
  <2> QED BY <1>4, <2>1
<1> QED BY <1>2, <1>3, <1>4

LEMMA AnthropicCloses ==
  ASSUME NEW a, Lists(a), {"items", "messageIndex"} \subseteq DOMAIN a
  PROVE  Silent(Anthropic!CloseItems(a))
<1> DEFINE split == IF Anthropic!AMessageStarted(a) THEN a.messageIndex ELSE Len(a.items)
           n == Len(a.items) - split
           done(i) == Anthropic!ItemDone(a.items[i], IF i <= split THEN i - 1 ELSE i)[1]
           before == [i \in 1 .. split |-> done(i)]
           message == IF a.content THEN Anthropic!MessageDoneEvents(a.message, split) ELSE << >>
           behind == [i \in 1 .. n |-> done(split + i)]
<1>1. Anthropic!CloseItems(a) = before \o message \o behind
  BY Zenon DEF Anthropic!CloseItems
<1>2. split \in Int /\ n \in Int
  BY DEF Lists, ListFields, IsSeq
<1>3. \A i : done(i).usage = 0
  BY DEF Anthropic!ItemDone, Anthropic!Event
<1>4. Silent(message)
  <2> HIDE DEF split
  <2> QED BY AnthropicEvents, QuietEvents, Zenon
<1> HIDE DEF split, n, done, message
<1>5. Silent(before)
  <2>1. before = [i \in 1 .. split |-> before[i]] /\ DOMAIN before = 1 .. split
        /\ \A i \in 1 .. split : before[i] = done(i)
    OBVIOUS
  <2> HIDE DEF before
  <2>2. IsSeq(before)
    BY <1>2, <2>1, Listed, Zenon
  <2> QED BY <1>3, <2>1, <2>2 DEF Silent
<1>6. Silent(behind)
  <2>1. behind = [i \in 1 .. n |-> behind[i]] /\ DOMAIN behind = 1 .. n
        /\ \A i \in 1 .. n : behind[i] = done(split + i)
    OBVIOUS
  <2> HIDE DEF behind
  <2>2. IsSeq(behind)
    BY <1>2, <2>1, Listed, Zenon
  <2> QED BY <1>3, <2>1, <2>2 DEF Silent
<1> HIDE DEF before, behind
<1> QED BY <1>1, <1>4, <1>5, <1>6, SilentJoined, Zenon

\* One write of the completion: silent events, the last with the usage, onComplete.
LEMMA AnthropicEnd ==
  ASSUME NEW a, Sound(a), {"items", "messageIndex", "input", "output"} \subseteq DOMAIN a
  PROVE  Loudly(a, a.input + a.output, Anthropic!AEndOfStream(a))
<1> DEFINE u == a.input + a.output
           h == Anthropic!emitAnthropicHeaderEvents(a)
           closed == Anthropic!CloseItems(h)
           last == Anthropic!ResponseEvent("completed", Anthropic!AOutput(h), Anthropic!AUsage(h))
           b == Anthropic!emitAnthropicCompletionEvents(a)
           save == Anthropic!OnComplete(Anthropic!AOutput(b))
<1>0. Anthropic!AEndOfStream(a) = Anthropic!Write(b, save)
  BY Zenon DEF Anthropic!AEndOfStream
<1>1. b = Anthropic!Write(h, closed \o last)
  BY Zenon DEF Anthropic!emitAnthropicCompletionEvents
<1>2. Quietly(a, h)
  BY AnthropicHeader
<1>3. Names(last, u)
  <2> HIDE DEF h
  <2>1. Anthropic!AUsage(h) = u
    BY <1>2 DEF Quietly, KeptFields, UsageFields, Anthropic!AUsage
  <2> HIDE DEF u
  <2>2. "completed" \notin {"done", "save"}
    OBVIOUS
  <2> QED BY <2>1, <2>2, LastEvent
<1>4. Silent(closed)
  <2> HIDE DEF h
  <2>1. Lists(h) /\ {"items", "messageIndex"} \subseteq DOMAIN h
    BY <1>2 DEF Quietly
  <2> QED BY <2>1, AnthropicCloses
<1>5. Silent(save)
  <2> HIDE DEF b
  <2>1. "completed" \notin {"done", "save"}
    OBVIOUS
  <2> QED BY <2>1, LastEvent, Zenon
<1> DEFINE es == closed \o last
<1> HIDE DEF closed, last, save, h, u, b
<1>6. Names(es, u)
  BY <1>3, <1>4, NamesAround, Zenon
<1> HIDE DEF es
<1>7. Loudly(a, u, Anthropic!Write(Anthropic!Write(h, es), save))
  BY <1>2, <1>5, <1>6, LoudEnd
<1> QED BY <1>0, <1>1, <1>7 DEF u, es

LEMMA VertexEvents ==
  ASSUME NEW item, NEW index
  PROVE  /\ Silent(Vertex!HeaderEvents) /\ Silent(Vertex!MessageStartEvents(item, index))
         /\ Silent(Vertex!TextDelta(item, index)) /\ Silent(Vertex!MessageDoneEvents(item, index))
         /\ Silent(Vertex!ItemAdded(item, index)) /\ Silent(Vertex!ItemDone(item, index))
         /\ \A type : Silent(<< Vertex!Event(type, item, index) >>)
<1>1. \A type, i, n : Vertex!Event(type, i, n).usage = 0
  BY DEF Vertex!Event
<1> QED BY <1>1, QuietEvents DEF Vertex!HeaderEvents, Vertex!MessageStartEvents, Vertex!TextDelta,
       Vertex!MessageDoneEvents, Vertex!ItemAdded, Vertex!ItemDone

LEMMA VertexHeader ==
  ASSUME NEW a, Sound(a)
  PROVE  Quietly(a, Vertex!emitVertexHeaderEvents(a))
<1> DEFINE b == [a EXCEPT !.header = TRUE]
<1>1. Quietly(a, b)
  BY QuietSet, QuietSame DEF KeptFields, UsageFields, ListFields
<1> HIDE DEF b
<1>2. Quietly(a, Vertex!Write(b, Vertex!HeaderEvents))
  BY <1>1, QuietMore, VertexEvents, Zenon
<1> QED BY <1>2, QuietSame, Zenon DEF Vertex!emitVertexHeaderEvents, b

VertexLists == {"calls", "images"}

LEMMA VertexIndex ==
  ASSUME NEW a, Lists(a), VertexLists \subseteq DOMAIN a
  PROVE  Vertex!currentOutputIndex(a) \in Nat
<1>1. Len(a.calls) \in Nat /\ Len(a.images) \in Nat
  BY DEF Lists, ListFields, VertexLists, IsSeq
<1>2. \A item : Vertex!One(item) \in Nat
  BY DEF Vertex!One
<1> QED BY <1>1, <1>2 DEF Vertex!currentOutputIndex

LEMMA VertexMessage ==
  ASSUME NEW a, Sound(a), VertexLists \subseteq DOMAIN a
  PROVE  Quietly(a, Vertex!emitVertexMessageStart(a))
<1> DEFINE item == Vertex!GenerateItemID("msg", a.fresh)
           index == Vertex!currentOutputIndex(a)
           n == a.fresh + 1
           d == [a EXCEPT !.message = item]
           c == [d EXCEPT !.messageIndex = index]
           b == [c EXCEPT !.fresh = n]
           es == Vertex!MessageStartEvents(item, index)
<1>1. Vertex!emitVertexMessageStart(a) \in {a, Vertex!Write(b, es)}
  BY Zenon DEF Vertex!emitVertexMessageStart
<1>2. Silent(es)
  <2> HIDE DEF item, index
  <2> QED BY VertexEvents, Zenon
<1>3. Quietly(a, d)
  <2> HIDE DEF item
  <2> QED BY QuietSame, QuietSet DEF KeptFields, UsageFields, ListFields
<1>4. Quietly(a, c)
  <2>1. index \in Nat
    BY VertexIndex DEF Sound
  <2> HIDE DEF d, index
  <2> QED BY <1>3, <2>1, QuietSet DEF KeptFields, UsageFields, ListFields
<1>5. Quietly(a, b)
  <2> HIDE DEF c, n
  <2> QED BY <1>4, QuietSet DEF KeptFields, UsageFields, ListFields
<1> HIDE DEF b, es
<1> QED BY <1>1, <1>2, <1>5, QuietSame, QuietMore

LEMMA VertexText ==
  ASSUME NEW a, Sound(a), VertexLists \subseteq DOMAIN a
  PROVE  Quietly(a, Vertex!processTextDelta(a))
<1> DEFINE h == Vertex!emitVertexHeaderEvents(a)
           b == Vertex!emitVertexMessageStart(h)
           es == Vertex!TextDelta(b.message, b.messageIndex)
<1>1. Quietly(a, b)
  <2>1. Quietly(a, h)
    BY VertexHeader
  <2> HIDE DEF h
  <2>2. Sound(h)
    BY <2>1, QuietlySound, Zenon
  <2>3. VertexLists \subseteq DOMAIN h
    BY <2>1 DEF Quietly
  <2>4. Quietly(h, b)
    BY <2>2, <2>3, VertexMessage
  <2> HIDE DEF b
  <2> QED BY <2>1, <2>4, QuietThen, Zenon
<1>2. Vertex!processTextDelta(a) = Vertex!Write(b, es)
  BY Zenon DEF Vertex!processTextDelta
<1>3. Silent(es)
  <2> HIDE DEF b
  <2> QED BY VertexEvents, Zenon
<1> HIDE DEF b, es
<1> QED BY <1>1, <1>2, <1>3, QuietMore

LEMMA VertexThought ==
  ASSUME NEW a, Sound(a)
  PROVE  Quietly(a, Vertex!processThoughtDelta(a))
<1> DEFINE h == Vertex!emitVertexHeaderEvents(a)
           item == Vertex!GenerateItemID("rs", h.fresh)
           index == Vertex!currentOutputIndex(h)
           n == h.fresh + 1
           c == [h EXCEPT !.reasoning = item]
           b == [[c EXCEPT !.reasoningIndex = index] EXCEPT !.fresh = n]
           es == Vertex!ItemAdded(item, index)
<1>1. Quietly(a, h)
  BY VertexHeader
<1>2. Vertex!processThoughtDelta(a) \in {h, Vertex!Write(b, es)}
  BY Zenon DEF Vertex!processThoughtDelta
<1>3. Silent(es)
  <2> HIDE DEF item, index
  <2> QED BY VertexEvents, Zenon
<1>4. Quietly(a, c)
  <2> HIDE DEF h, item
  <2> QED BY <1>1, QuietSet DEF KeptFields, UsageFields, ListFields
<1>5. Quietly(a, b)
  <2> HIDE DEF c, n, index
  <2> QED BY <1>4, QuietSets DEF KeptFields, UsageFields, ListFields
<1> HIDE DEF b, es, h
<1> QED BY <1>1, <1>2, <1>3, <1>5, QuietMore

LEMMA VertexCode ==
  ASSUME NEW a, Sound(a)
  PROVE  Quietly(a, Vertex!processCodePart(a))
<1> DEFINE h == Vertex!emitVertexHeaderEvents(a)
           item == Vertex!GenerateItemID("ci", h.fresh)
           index == Vertex!currentOutputIndex(h)
           n == h.fresh + 1
           c == [h EXCEPT !.code = item]
           b == [[c EXCEPT !.codeIndex = index] EXCEPT !.fresh = n]
           es == Vertex!ItemAdded(item, index)
<1>1. Quietly(a, h)
  BY VertexHeader
<1>2. Vertex!processCodePart(a) = Vertex!Write(b, es)
  BY Zenon DEF Vertex!processCodePart
<1>3. Silent(es)
  <2> HIDE DEF item, index
  <2> QED BY VertexEvents, Zenon
<1>4. Quietly(a, c)
  <2> HIDE DEF h, item
  <2> QED BY <1>1, QuietSet DEF KeptFields, UsageFields, ListFields
<1>5. Quietly(a, b)
  <2> HIDE DEF c, n, index
  <2> QED BY <1>4, QuietSets DEF KeptFields, UsageFields, ListFields
<1> HIDE DEF b, es
<1> QED BY <1>2, <1>3, <1>5, QuietMore

LEMMA VertexCall ==
  ASSUME NEW a, Sound(a), VertexLists \subseteq DOMAIN a
  PROVE  Quietly(a, Vertex!processFunctionCallPart(a))
<1> DEFINE h == Vertex!emitVertexHeaderEvents(a)
           item == Vertex!GenerateItemID("fc", h.fresh)
           index == Vertex!currentOutputIndex(h)
           calls == Append(h.calls, Vertex!Placed(item, index))
           n == h.fresh + 1
           c == [h EXCEPT !.calls = calls]
           b == [c EXCEPT !.fresh = n]
           es == Vertex!ItemAdded(item, index)
           fs == << Vertex!Event("args_delta", item, index), Vertex!Event("args_done", item, index) >>
<1>1. Quietly(a, h)
  BY VertexHeader
<1>2. Vertex!processFunctionCallPart(a) = Vertex!Write(b, es \o fs)
  BY Zenon DEF Vertex!processFunctionCallPart
<1>3. Silent(es \o fs)
  <2> HIDE DEF item, index
  <2>1. Silent(es)
    BY VertexEvents, Zenon
  <2>2. Silent(fs)
    BY QuietEvents DEF Vertex!Event
  <2> HIDE DEF es, fs
  <2> QED BY <2>1, <2>2, SilentJoined
<1>4. Quietly(a, c)
  <2>1. IsSeq(calls)
    <3> HIDE DEF h, item, index
    <3>1. IsSeq(h.calls)
      BY <1>1 DEF Quietly, Lists, ListFields, VertexLists
    <3> QED BY <3>1, Appended
  <2> HIDE DEF h, calls
  <2> QED BY <1>1, <2>1, QuietSet DEF KeptFields, UsageFields, ListFields
<1>5. Quietly(a, b)
  <2> HIDE DEF c, n
  <2> QED BY <1>4, QuietSet DEF KeptFields, UsageFields, ListFields
<1> HIDE DEF b, es, fs
<1> QED BY <1>2, <1>3, <1>5, QuietMore

LEMMA VertexImage ==
  ASSUME NEW a, Sound(a), VertexLists \subseteq DOMAIN a
  PROVE  Quietly(a, Vertex!processImagePart(a))
<1> DEFINE h == Vertex!emitVertexHeaderEvents(a)
           item == Vertex!GenerateItemID("ig", h.fresh)
           index == Vertex!currentOutputIndex(h)
           images == Append(h.images, Vertex!Placed(item, index))
           n == h.fresh + 1
           c == [h EXCEPT !.images = images]
           b == [c EXCEPT !.fresh = n]
           es == Vertex!ItemAdded(item, index)
<1>1. Quietly(a, h)
  BY VertexHeader
<1>2. Vertex!processImagePart(a) = Vertex!Write(b, es)
  BY Zenon DEF Vertex!processImagePart
<1>3. Silent(es)
  <2> HIDE DEF item, index
  <2> QED BY VertexEvents, Zenon
<1>4. Quietly(a, c)
  <2>1. IsSeq(images)
    <3> HIDE DEF h, item, index
    <3>1. IsSeq(h.images)
      BY <1>1 DEF Quietly, Lists, ListFields, VertexLists
    <3> QED BY <3>1, Appended
  <2> HIDE DEF h, images
  <2> QED BY <1>1, <2>1, QuietSet DEF KeptFields, UsageFields, ListFields
<1>5. Quietly(a, b)
  <2> HIDE DEF c, n
  <2> QED BY <1>4, QuietSet DEF KeptFields, UsageFields, ListFields
<1> HIDE DEF b, es
<1> QED BY <1>2, <1>3, <1>5, QuietMore

LEMMA VertexPart ==
  ASSUME NEW a, Sound(a), VertexLists \subseteq DOMAIN a, NEW part
  PROVE  Quietly(a, Vertex!processPart(a, part))
BY VertexText, VertexThought, VertexCode, VertexCall, VertexImage, QuietSame, Zenon
   DEF Vertex!processPart

LEMMA VertexChunkIs ==
  ASSUME NEW a, Sound(a), VertexLists \subseteq DOMAIN a, NEW x, x.parts \in Seq(Parts)
  PROVE  LET u == IF x.usage = 0 THEN a ELSE [a EXCEPT !.usage = x.usage]
         IN  Quietly(u, Vertex!VertexChunk(a, x))
<1> DEFINE u == IF x.usage = 0 THEN a ELSE [a EXCEPT !.usage = x.usage]
<1>0. Sound(u) /\ VertexLists \subseteq DOMAIN u
  BY DEF Sound, Lists, ListFields
<1> DEFINE n == Len(x.parts)
           e(f, i) == IF i = 0 THEN u ELSE Vertex!processPart(f[i - 1], x.parts[i])
           Solves(f, k) == f = [i \in 0 .. k |-> e(f, i)]
           Solved == {k \in Nat : \E f : Solves(f, k)}
           after == CHOOSE f : f = [i \in 0 .. n |-> e(f, i)]
<1>1. 0 \in Solved
  <2> DEFINE z == [i \in 0 .. 0 |-> u]
  <2>1. Solves(z, 0)
    <3>1. \A i \in 0 .. 0 : e(z, i) = u
      OBVIOUS
    <3> HIDE DEF e
    <3> QED BY <3>1
  <2> HIDE DEF Solves, z
  <2> QED BY <2>1
<1>2. ASSUME NEW k \in Nat \ {0}, k - 1 \in Solved
      PROVE  k \in Solved
  <2>1. PICK f : Solves(f, k - 1)
    BY <1>2
  <2> DEFINE g == [i \in 0 .. k |-> e(f, i)]
  <2>2. \A i \in 0 .. k : e(g, i) = e(f, i)
    <3> TAKE i \in 0 .. k
    <3>1. ASSUME i # 0
          PROVE  g[i - 1] = f[i - 1]
      <4> DEFINE p == i - 1
      <4>1. p \in 0 .. k - 1 /\ p \in 0 .. k
        BY <3>1
      <4> HIDE DEF e, p
      <4>2. f[p] = e(f, p)
        BY <2>1, <4>1, Zenon
      <4>3. g[p] = e(f, p)
        BY <4>1, Zenon
      <4> QED BY <4>2, <4>3 DEF p
    <3> HIDE DEF g
    <3> QED BY <3>1
  <2>3. Solves(g, k)
    <3> HIDE DEF e
    <3> QED BY <2>2, Zenon
  <2> HIDE DEF Solves, g
  <2> QED BY <2>3
<1>3. n \in Solved
  <2>1. CASE n = 0
    BY <1>1, <2>1
  <2>2. CASE n # 0
    <3> HIDE DEF Solved, n
    <3>1. \A i \in 1 .. n : (\A j \in 1 .. i - 1 : j \in Solved) => i \in Solved
      <4> SUFFICES ASSUME NEW i \in 1 .. n, \A j \in 1 .. i - 1 : j \in Solved
                   PROVE  i \in Solved
        OBVIOUS
      <4>1. i \in Nat \ {0} /\ i - 1 \in Solved
        BY <1>1
      <4> QED BY <1>2, <4>1
    <3>2. n \in Nat
      BY DEF n
    <3>3. 1 .. n \subseteq Solved
      BY <3>1, <3>2, Ascending
    <3> QED BY <2>2, <3>2, <3>3
  <2> QED BY <2>1, <2>2
<1>4. after = [i \in 0 .. n |-> e(after, i)]
  <2>1. \E f : f = [i \in 0 .. n |-> e(f, i)]
    <3> HIDE DEF e, n
    <3> QED BY <1>3, Zenon
  <2> HIDE DEF e, n
  <2> QED BY <2>1, Zenon
<1>5. Vertex!VertexChunk(a, x) = after[n]
  BY Zenon DEF Vertex!VertexChunk
<1> HIDE DEF after, u
<1>6. after[0] = u /\ \A i \in 1 .. n : after[i] = Vertex!processPart(after[i - 1], x.parts[i])
  <2>1. \A i \in 0 .. n : after[i] = e(after, i)
    <3> HIDE DEF e, n
    <3> QED BY <1>4, Zenon
  <2> QED BY <2>1
<1> DEFINE T == {i \in Nat : Quietly(u, after[i])}
<1>7. 0 \in T
  BY <1>0, <1>6, QuietSame
<1>8. \A i \in 1 .. n : (\A j \in 1 .. i - 1 : j \in T) => i \in T
  <2> SUFFICES ASSUME NEW i \in 1 .. n, \A j \in 1 .. i - 1 : j \in T
               PROVE  i \in T
    OBVIOUS
  <2>1. Quietly(u, after[i - 1])
    <3>1. i - 1 \in T
      BY <1>7
    <3> QED BY <3>1
  <2>2. Quietly(u, Vertex!processPart(after[i - 1], x.parts[i]))
    <3> DEFINE b == after[i - 1]
    <3> HIDE DEF b
    <3>1. Quietly(u, b)
      BY <2>1 DEF b
    <3>2. Sound(b) /\ VertexLists \subseteq DOMAIN b
      <4>1. Sound(b)
        BY <1>0, <3>1, QuietlySound, Zenon
      <4> QED BY <1>0, <3>1, <4>1 DEF Quietly
    <3>3. Quietly(b, Vertex!processPart(b, x.parts[i]))
      BY <3>2, VertexPart
    <3>4. Quietly(u, Vertex!processPart(b, x.parts[i]))
      BY <3>1, <3>3, QuietThen, Zenon
    <3> QED BY <3>4 DEF b
  <2> HIDE DEF n
  <2> QED BY <1>6, <2>2
<1>9. 1 .. n \subseteq T
  <2>1. n \in Nat
    OBVIOUS
  <2> HIDE DEF T, n
  <2> QED BY <1>8, <2>1, Ascending
<1> HIDE DEF T
<1>10. n \in T
  BY <1>7, <1>9
<1> QED BY <1>5, <1>10 DEF T, u

\* Silent sequences one after the other.
LEMMA SilentFlat ==
  ASSUME NEW s, IsSeq(s), \A i \in DOMAIN s : Silent(s[i])
  PROVE  Silent(Vertex!FlattenSeq(s))
<1> DEFINE n == Len(s)
           e(f, i) == IF i = 1 THEN s[i] ELSE f[i - 1] \o s[i]
           Solves(f, k) == f = [i \in 1 .. k |-> e(f, i)]
           Solved == {k \in Nat : \E f : Solves(f, k)}
           flatten == CHOOSE f : f = [i \in 1 .. n |-> e(f, i)]
<1>0. n \in Nat /\ DOMAIN s = 1 .. n
  BY DEF IsSeq
<1>1. CASE n = 0
  <2>1. Vertex!FlattenSeq(s) = s
    BY <1>1 DEF Vertex!FlattenSeq
  <2>2. Silent(s)
    BY <1>0, <1>1 DEF Silent
  <2> QED BY <2>1, <2>2
<1>2. CASE n # 0
  <2>1. 0 \in Solved
    <3> DEFINE z == [i \in 1 .. 0 |-> 0]
    <3>1. Solves(z, 0)
      <4>1. 1 .. 0 = {}
        OBVIOUS
      <4> HIDE DEF e
      <4> QED BY <4>1
    <3> HIDE DEF Solves, z
    <3> QED BY <3>1
  <2>2. ASSUME NEW k \in Nat \ {0}, k - 1 \in Solved
        PROVE  k \in Solved
    <3>1. PICK f : Solves(f, k - 1)
      BY <2>2
    <3> DEFINE g == [i \in 1 .. k |-> e(f, i)]
    <3>2. \A i \in 1 .. k : e(g, i) = e(f, i)
      <4> TAKE i \in 1 .. k
      <4>1. ASSUME i # 1
            PROVE  g[i - 1] = f[i - 1]
        <5> DEFINE p == i - 1
        <5>1. p \in 1 .. k - 1 /\ p \in 1 .. k
          BY <4>1
        <5> HIDE DEF e, p
        <5>2. f[p] = e(f, p)
          BY <3>1, <5>1, Zenon
        <5>3. g[p] = e(f, p)
          BY <5>1, Zenon
        <5> QED BY <5>2, <5>3 DEF p
      <4> HIDE DEF g
      <4> QED BY <4>1
    <3>3. Solves(g, k)
      <4> HIDE DEF e
      <4> QED BY <3>2, Zenon
    <3> HIDE DEF Solves, g
    <3> QED BY <3>3
  <2>3. n \in Solved
    <3> HIDE DEF Solved, n
    <3>1. \A i \in 1 .. n : (\A j \in 1 .. i - 1 : j \in Solved) => i \in Solved
      <4> SUFFICES ASSUME NEW i \in 1 .. n, \A j \in 1 .. i - 1 : j \in Solved
                   PROVE  i \in Solved
        OBVIOUS
      <4>1. i \in Nat \ {0} /\ i - 1 \in Solved
        BY <1>0, <2>1
      <4> QED BY <2>2, <4>1
    <3>2. 1 .. n \subseteq Solved
      BY <1>0, <3>1, Ascending
    <3> QED BY <1>0, <1>2, <3>2
  <2>4. flatten = [i \in 1 .. n |-> e(flatten, i)]
    <3>1. \E f : f = [i \in 1 .. n |-> e(f, i)]
      <4> HIDE DEF e, n
      <4> QED BY <2>3, Zenon
    <3> HIDE DEF e, n
    <3> QED BY <3>1, Zenon
  <2>5. Vertex!FlattenSeq(s) = flatten[n]
    BY <1>2, Zenon DEF Vertex!FlattenSeq
  <2> HIDE DEF flatten
  <2>6. \A i \in 1 .. n : flatten[i] = e(flatten, i)
    <3> HIDE DEF e, n
    <3> QED BY <2>4, Zenon
  <2> DEFINE T == {i \in Nat : Silent(flatten[i])}
  <2>7. \A i \in 1 .. n : (\A j \in 1 .. i - 1 : j \in T) => i \in T
    <3> SUFFICES ASSUME NEW i \in 1 .. n, \A j \in 1 .. i - 1 : j \in T
                 PROVE  i \in T
      OBVIOUS
    <3>1. Silent(s[i]) /\ i \in Nat
      BY <1>0
    <3>2. CASE i = 1
      BY <2>6, <3>1, <3>2
    <3>3. CASE i # 1
      <4> DEFINE b == flatten[i - 1]
      <4>1. Silent(b)
        <5>1. i - 1 \in 1 .. i - 1
          BY <1>0, <3>3
        <5>2. i - 1 \in T
          BY <5>1
        <5> QED BY <5>2
      <4>2. flatten[i] = b \o s[i]
        BY <2>6, <3>3
      <4> HIDE DEF b
      <4>3. Silent(b \o s[i])
        BY <3>1, <4>1, SilentJoined
      <4> QED BY <3>1, <4>2, <4>3
    <3> QED BY <3>2, <3>3
  <2>8. 1 .. n \subseteq T
    <3> HIDE DEF T, n
    <3> QED BY <1>0, <2>7, Ascending
  <2>9. n \in T
    <3> HIDE DEF T
    <3> QED BY <1>0, <1>2, <2>8
  <2> QED BY <2>5, <2>9
<1> QED BY <1>1, <1>2

LEMMA VertexItems ==
  ASSUME NEW a, Lists(a), VertexLists \subseteq DOMAIN a
  PROVE  IsSeq(Vertex!Items(a))
<1> DEFINE if(item, index) == IF item = Vertex!NoItem THEN << >> ELSE << Vertex!Placed(item, index) >>
           p == if(a.reasoning, a.reasoningIndex)
           q == if(a.message, a.messageIndex)
           r == if(a.code, a.codeIndex)
           all == p \o q \o a.calls \o a.images \o r
           before(s, i) == {j \in DOMAIN s : \/ s[j].index < s[i].index
                                             \/ s[j].index = s[i].index /\ j < i}
           sorted(s) == [k \in DOMAIN s |->
                            s[CHOOSE i \in DOMAIN s : Vertex!Cardinality(before(s, i)) = k - 1]]
           f == sorted(all)
<1>1. Vertex!Items(a) = f
  <2>1. Vertex!Items(a) = CHOOSE items \in {sorted(s) : s \in {all}} : TRUE
    BY Zenon DEF Vertex!Items
  <2> HIDE DEF sorted, all
  <2>2. {sorted(s) : s \in {all}} = {f}
    OBVIOUS
  <2> HIDE DEF f
  <2> QED BY <2>1, <2>2
<1>2. IsSeq(p) /\ IsSeq(q) /\ IsSeq(r)
  BY Short
<1>3. IsSeq(a.calls) /\ IsSeq(a.images)
  BY DEF Lists, ListFields, VertexLists
<1>4. IsSeq(all)
  <2> HIDE DEF p, q, r
  <2>1. IsSeq(p \o q)
    BY <1>2, Joined, Zenon DEF Joins
  <2>2. IsSeq(p \o q \o a.calls)
    BY <1>3, <2>1, Joined, Zenon DEF Joins
  <2>3. IsSeq(p \o q \o a.calls \o a.images)
    BY <1>3, <2>2, Joined, Zenon DEF Joins
  <2> QED BY <1>2, <2>3, Joined, Zenon DEF Joins
<1> HIDE DEF all
<1>5. DOMAIN all = 1 .. Len(all) /\ Len(all) \in Nat
  BY <1>4 DEF IsSeq
<1>6. f = [k \in 1 .. Len(all) |-> f[k]]
  <2> DEFINE g(k) == all[CHOOSE i \in DOMAIN all : Vertex!Cardinality(before(all, i)) = k - 1]
  <2>1. f = [k \in DOMAIN all |-> g(k)]
    OBVIOUS
  <2> HIDE DEF g, f
  <2> QED BY <1>5, <2>1
<1> HIDE DEF f
<1>7. IsSeq(f)
  <2>1. Len(all) \in Int
    BY <1>5
  <2> QED BY <1>6, <2>1, Listed, Zenon
<1> QED BY <1>1, <1>7

LEMMA VertexEnd ==
  ASSUME NEW a, Sound(a), VertexLists \subseteq DOMAIN a, "usage" \in DOMAIN a
  PROVE  Loudly(a, a.usage, Vertex!VEndOfStream(a))
<1> DEFINE u == a.usage
           h == Vertex!emitVertexHeaderEvents(a)
           each == [i \in DOMAIN Vertex!Items(h) |-> Vertex!Closure(h, Vertex!Items(h)[i])]
           closed == Vertex!FlattenSeq(each)
           last == Vertex!ResponseEvent("completed", Vertex!VOutput(h), h.usage)
           b == Vertex!emitVertexCompletionEvents(a)
           save == Vertex!OnComplete(Vertex!VOutput(b))
<1>1. b = Vertex!Write(h, closed \o last)
  BY Zenon DEF Vertex!emitVertexCompletionEvents
<1>2. Vertex!VEndOfStream(a) = Vertex!Write(b, save)
  BY Zenon DEF Vertex!VEndOfStream
<1>3. Quietly(a, h)
  BY VertexHeader
<1>4. Names(last, u)
  <2> HIDE DEF h
  <2>1. h.usage = u
    BY <1>3 DEF Quietly, KeptFields, UsageFields
  <2> HIDE DEF u
  <2>2. "completed" \notin {"done", "save"}
    OBVIOUS
  <2> QED BY <2>1, <2>2, LastEvent
<1>5. Silent(closed)
  <2> DEFINE items == Vertex!Items(h)
             each1(i) == Vertex!Closure(h, items[i])
  <2>1. IsSeq(items)
    <3> HIDE DEF h
    <3> QED BY <1>3, VertexItems DEF Quietly
  <2>2. \A i : Silent(each1(i))
    <3> HIDE DEF h, items
    <3> QED BY VertexEvents, Zenon DEF Vertex!Closure
  <2>3. each = [i \in DOMAIN items |-> each1(i)]
    OBVIOUS
  <2> HIDE DEF items, each1, each
  <2>4. DOMAIN items = 1 .. Len(items) /\ Len(items) \in Int
    BY <2>1 DEF IsSeq
  <2>5. /\ each = [i \in 1 .. Len(items) |-> each[i]] /\ DOMAIN each = 1 .. Len(items)
        /\ \A i \in 1 .. Len(items) : each[i] = each1(i)
    BY <2>3, <2>4
  <2>6. IsSeq(each)
    BY <2>4, <2>5, Listed, Zenon
  <2>7. \A i \in DOMAIN each : Silent(each[i])
    BY <2>2, <2>5
  <2> QED BY <2>6, <2>7, SilentFlat
<1>6. Silent(save)
  <2> HIDE DEF b
  <2>1. "completed" \notin {"done", "save"}
    OBVIOUS
  <2> QED BY <2>1, LastEvent, Zenon
<1> DEFINE es == closed \o last
<1> HIDE DEF closed, last, save, h, u, b
<1>7. Names(es, u)
  BY <1>4, <1>5, NamesAround, Zenon
<1> HIDE DEF es
<1>8. Loudly(a, u, Vertex!Write(Vertex!Write(h, es), save))
  BY <1>3, <1>6, <1>7, LoudEnd
<1> QED BY <1>1, <1>2, <1>8 DEF u, es

LEMMA ChunkEvents ==
  /\ \A text, calls, finish, u : Names(<< Provider!Chunk(text, calls, finish, u) >>, u)
  /\ \A u : Names(<< Provider!UsageChunk(u) >>, u)
  /\ Silent(Provider!DoneLine)
<1>1. \A e, u : e.usage = u /\ e.type = "chunk" => Names(<< e >>, u)
  BY Short DEF Names
<1> QED BY <1>1, QuietEvents DEF Provider!Chunk, Provider!UsageChunk, Provider!DoneLine

\* What a step of a converter to chat chunks writes is all that its output holds.
LEMMA FirstWrite ==
  ASSUME NEW a, "out" \in DOMAIN a, a.out = << >>, NEW es, NEW u, Names(es, u)
  PROVE  LET b == Provider!Write(a, es)
         IN  /\ DOMAIN b = DOMAIN a /\ Names(b.out, u)
             /\ \A f \in DOMAIN a : f # "out" => b[f] = a[f]
<1> DEFINE b == [a EXCEPT !.out = @ \o es]
<1>1. DOMAIN b = DOMAIN a /\ b.out = a.out \o es /\ \A f \in DOMAIN a : f # "out" => b[f] = a[f]
  OBVIOUS
<1>2. Names(a.out \o es, u)
  BY QuietEvents, NamesAround, Zenon
<1> HIDE DEF b
<1> QED BY <1>1, <1>2 DEF b, Provider!Write

LEMMA AnthropicChatIs ==
  ASSUME NEW a, {"out", "prompt"} \subseteq DOMAIN a, a.out = << >>, a.prompt \in Nat,
         NEW x, x.usage \in Nat
  PROVE  LET b == Provider!AnthropicChat(a, x)
         IN  /\ DOMAIN b = DOMAIN a
             /\ b.prompt = IF x.type = "message_start" THEN x.usage ELSE a.prompt
             /\ Names(b.out, IF x.type = "message_delta" /\ x.stop # "none"
                             THEN a.prompt + x.usage ELSE 0)
<1> DEFINE b == Provider!AnthropicChat(a, x)
           Fine(c) == /\ DOMAIN c = DOMAIN a /\ c.prompt = a.prompt /\ Names(c.out, 0)
           Blank(c) == DOMAIN c = DOMAIN a /\ c.prompt = a.prompt /\ c.out = << >>
<1>0. Names(<< >>, 0)
  BY QuietEvents, SilentNames
<1>1. \A c, es : Blank(c) /\ Names(es, 0) => Fine(Provider!Write(c, es))
  BY FirstWrite
<1>2. \A c : Blank(c) => Fine(c)
  BY <1>0
<1>3. Blank(a)
  OBVIOUS
<1>4. CASE x.type = "message_start"
  <2> DEFINE c == [[a EXCEPT !.prompt = x.usage] EXCEPT !.first = FALSE]
             es == << Provider!Chunk(FALSE, << >>, "none", 0) >>
  <2>1. b = IF a.first THEN Provider!Write(c, es) ELSE c
    BY <1>4, Zenon DEF Provider!AnthropicChat, Provider!MessageStart
  <2>2. DOMAIN c = DOMAIN a /\ c.prompt = x.usage /\ c.out = << >>
    OBVIOUS
  <2>3. Names(es, 0)
    BY ChunkEvents
  <2> HIDE DEF c, es, b
  <2>4. Names(b.out, 0) /\ DOMAIN b = DOMAIN a /\ b.prompt = x.usage
    BY <1>0, <2>1, <2>2, <2>3, FirstWrite
  <2> QED BY <1>4, <2>4 DEF b
<1>5. CASE x.type = "block_start"
  <2> DEFINE c == [a EXCEPT !.current = Provider!blockState(x.block, a.nextCall)]
             es == << Provider!Chunk(FALSE, << Provider!Part(a.nextCall, TRUE, FALSE, a.nextCall) >>, "none", 0) >>
  <2>1. b \in {Provider!Write(c, es), c}
    BY <1>5, Zenon DEF Provider!AnthropicChat, Provider!OpenBlock
  <2>2. Blank(c)
    OBVIOUS
  <2>3. Names(es, 0)
    BY ChunkEvents
  <2> HIDE DEF c, es, b, Fine, Blank
  <2>4. Fine(b)
    BY <1>1, <1>2, <2>1, <2>2, <2>3
  <2> QED BY <1>5, <2>4 DEF b, Fine
<1>6. CASE x.type = "block_delta"
  <2> DEFINE es == Provider!DeltaChunk(a, x)
  <2>1. b = Provider!Write(a, es)
    BY <1>6, Zenon DEF Provider!AnthropicChat
  <2>2. Names(es, 0)
    BY <1>0, ChunkEvents DEF Provider!DeltaChunk
  <2> HIDE DEF es, b, Fine, Blank
  <2>3. Fine(b)
    BY <1>1, <1>3, <2>1, <2>2
  <2> QED BY <1>6, <2>3 DEF b, Fine
<1>7. CASE x.type = "block_stop"
  <2> DEFINE next == a.nextCall + (IF a.current.block \in {"tool_use", "computer"} THEN 1 ELSE 0)
             c == [[a EXCEPT !.nextCall = next] EXCEPT !.current = Provider!blockState("none", next)]
  <2>1. b = c
    BY <1>7, Zenon DEF Provider!AnthropicChat, Provider!CloseBlock
  <2>2. Blank(c)
    <3> HIDE DEF next
    <3> QED OBVIOUS
  <2> HIDE DEF c, b, Fine, Blank
  <2>3. Fine(b)
    BY <1>2, <2>1, <2>2
  <2> QED BY <1>7, <2>3 DEF b, Fine
<1>8. CASE x.type = "message_delta"
  <2> DEFINE es == << Provider!Chunk(FALSE, << >>, x.stop, a.prompt + x.usage) >>
  <2>1. b = IF x.stop = "none" THEN a ELSE Provider!Write(a, es)
    BY <1>8, Zenon DEF Provider!AnthropicChat, Provider!MessageDelta
  <2>2. Names(es, a.prompt + x.usage)
    BY ChunkEvents
  <2> HIDE DEF es, b
  <2>3. x.stop = "none" => Fine(b)
    BY <1>2, <1>3, <2>1
  <2>4. x.stop # "none" =>
          DOMAIN b = DOMAIN a /\ b.prompt = a.prompt /\ Names(b.out, a.prompt + x.usage)
    BY <2>1, <2>2, FirstWrite
  <2> QED BY <1>8, <2>3, <2>4 DEF b
<1>9. CASE x.type \notin {"message_start", "block_start", "block_delta", "block_stop", "message_delta"}
  <2> DEFINE es == << Provider!Chunk(TRUE, << >>, "stop", 0) >>
  <2>1. b \in {Provider!Write(a, es), a}
    BY <1>9, Zenon DEF Provider!AnthropicChat
  <2>2. Names(es, 0)
    BY ChunkEvents
  <2> HIDE DEF es, b, Fine, Blank
  <2>3. Fine(b)
    BY <1>1, <1>2, <1>3, <2>1, <2>2
  <2> QED BY <1>9, <2>3 DEF b, Fine
<1> QED BY <1>4, <1>5, <1>6, <1>7, <1>8, <1>9

LEMMA VertexChatIs ==
  ASSUME NEW a, "out" \in DOMAIN a, a.out = << >>, NEW x, x.usage \in Nat
  PROVE  LET b == Provider!VertexChat(a, x)
         IN  DOMAIN b = DOMAIN a /\ Names(b.out, x.usage)
<1> DEFINE b == Provider!VertexChat(a, x)
           calls == Provider!CallParts(a, x.parts)
           finish == IF x.finish # "none" /\ calls # << >> THEN "tool_calls" ELSE x.finish
           text == \E i \in DOMAIN x.parts : x.parts[i] = "text"
           n == a.calls + Len(calls)
           c == [a EXCEPT !.calls = n]
           es == << Provider!Chunk(text, calls, finish, x.usage) >>
           us == IF x.usage = 0 THEN << >> ELSE << Provider!UsageChunk(x.usage) >>
<1>1. b = IF x.candidates THEN Provider!Write(c, es) ELSE Provider!Write(a, us)
  BY Zenon DEF Provider!VertexChat
<1>2. Names(es, x.usage)
  BY ChunkEvents, Zenon
<1>3. Names(us, x.usage)
  BY ChunkEvents, QuietEvents, SilentNames
<1>4. DOMAIN c = DOMAIN a /\ c.out = << >>
  <2> HIDE DEF n
  <2> QED OBVIOUS
<1> HIDE DEF es, us, c, b
<1>5. DOMAIN b = DOMAIN a /\ Names(b.out, x.usage)
  BY <1>1, <1>2, <1>3, <1>4, FirstWrite
<1> QED BY <1>5 DEF b

-----------------------------------------------------------------------------
(* Any converter.                                                          *)

\* An accumulator between two steps.
ConverterIs(kind, a) ==
  /\ "out" \in DOMAIN a /\ a.out = << >>
  /\ kind = "chat" => {"usage", "calls", "completed"} \subseteq DOMAIN a /\ ~a.completed
  /\ kind = "vertex" => {"usage", "calls", "images"} \subseteq DOMAIN a
  /\ kind = "anthropic" => {"items", "messageIndex", "input", "output"} \subseteq DOMAIN a
  /\ kind = "anthropic_chat" => "prompt" \in DOMAIN a /\ a.prompt \in Nat
  /\ kind \in ToResponses => Lists(a) /\ \A f \in DOMAIN a \cap UsageFields : a[f] \in Nat

\* The usage it would report now, and the usage in what it writes for a chunk.
Known(kind, a) == IF kind = "anthropic" THEN a.input + a.output ELSE a.usage

Says(kind, a, x) ==
  CASE kind = "anthropic_chat" ->
         IF x.type = "message_delta" /\ x.stop # "none" THEN a.prompt + x.usage ELSE 0
    [] kind = "vertex_chat" -> x.usage
    [] OTHER -> 0

Rested(b) == [b EXCEPT !.out = << >>]

\* The fields that a chunk changes.
Learns(kind, a, x, r) ==
  /\ kind \in {"chat", "vertex"} => r.usage = IF x.usage = 0 THEN a.usage ELSE x.usage
  /\ kind = "anthropic" =>
       /\ r.input = IF x.type = "message_start" THEN x.usage ELSE a.input
       /\ r.output = IF x.type = "message_delta" THEN x.usage ELSE a.output
  /\ kind = "anthropic_chat" => r.prompt = IF x.type = "message_start" THEN x.usage ELSE a.prompt

LEMMA ConverterSound ==
  ASSUME NEW kind \in ToResponses, NEW a, ConverterIs(kind, a)
  PROVE  Sound(a)
BY QuietEvents DEF ConverterIs, Sound

LEMMA QuietConverter ==
  ASSUME NEW kind \in ToResponses, NEW u, ConverterIs(kind, u), NEW b, Quietly(u, b)
  PROVE  LET r == Rested(b)
         IN  /\ ConverterIs(kind, r) /\ Names(b.out, 0)
             /\ \A f \in DOMAIN u \cap KeptFields : r[f] = u[f]
<1> DEFINE r == [b EXCEPT !.out = << >>]
<1>1. DOMAIN b = DOMAIN u /\ "out" \in DOMAIN b
  BY DEF Quietly, ConverterIs
<1>2. DOMAIN r = DOMAIN u /\ r.out = << >> /\ \A f \in DOMAIN u : f # "out" => r[f] = b[f]
  BY <1>1
<1> HIDE DEF r
<1>3. Lists(r)
  BY <1>2 DEF Quietly, Lists, ListFields
<1>4. \A f \in DOMAIN u \cap KeptFields : r[f] = u[f]
  BY <1>2 DEF Quietly, KeptFields, UsageFields
<1>5. Names(b.out, 0)
  BY SilentNames DEF Quietly
<1>6. ConverterIs(kind, r)
  BY <1>2, <1>3, <1>4 DEF ConverterIs, ToResponses, KeptFields, UsageFields
<1> QED BY <1>4, <1>5, <1>6 DEF r, Rested

LEMMA FeedIs ==
  ASSUME NEW kind \in ToResponses \cup ToChat, kind \in DOMAIN Chunks, NEW x \in Chunks[kind],
         NEW a, ConverterIs(kind, a), ~EndsLoop(kind, x)
  PROVE  LET b == Converted(kind, a, x)
             r == Rested(b)
         IN  ConverterIs(kind, r) /\ Names(b.out, Says(kind, a, x)) /\ Learns(kind, a, x, r)
<1> DEFINE b == Converted(kind, a, x)
           r == Rested(b)
<1>1. x.usage \in Nat /\ x.type \notin {"eof", "failed", "save"}
  BY ChunksAssumption
<1>2. b = Feed(kind, a, x)
  BY <1>1, Zenon DEF Converted
<1>3. kind \in ToResponses => Sound(a)
  BY ConverterSound
<1>4. CASE kind = "chat"
  <2> DEFINE u == IF x.usage = 0 THEN a ELSE [a EXCEPT !.usage = x.usage]
  <2>1. b = Chat!ChatChunk(a, x) /\ x.calls \in Seq(CallParts)
    BY <1>1, <1>2, <1>4, ChunksAssumption DEF Feed, EndsLoop
  <2>2. Quietly(u, b)
    BY <1>3, <1>4, <2>1, ChatChunkIs DEF ConverterIs, ToResponses
  <2>3. ConverterIs(kind, u) /\ "usage" \in DOMAIN u /\ u.usage = IF x.usage = 0 THEN a.usage ELSE x.usage
    BY <1>1, <1>4 DEF ConverterIs, ToResponses, KeptFields, UsageFields, Lists, ListFields
  <2> HIDE DEF u, b
  <2>4. ConverterIs(kind, r) /\ Names(b.out, 0) /\ r.usage = u.usage
    BY <2>2, <2>3, <1>4, QuietConverter DEF KeptFields, UsageFields, ToResponses
  <2> QED BY <1>4, <2>3, <2>4 DEF b, Says, Learns
<1>5. CASE kind = "vertex"
  <2> DEFINE u == IF x.usage = 0 THEN a ELSE [a EXCEPT !.usage = x.usage]
  <2>1. b = Vertex!VertexChunk(a, x) /\ x.parts \in Seq(Parts)
    BY <1>2, <1>5, ChunksAssumption DEF Feed
  <2>2. Quietly(u, b)
    BY <1>3, <1>5, <2>1, VertexChunkIs DEF ConverterIs, ToResponses, VertexLists
  <2>3. ConverterIs(kind, u) /\ "usage" \in DOMAIN u /\ u.usage = IF x.usage = 0 THEN a.usage ELSE x.usage
    BY <1>1, <1>5 DEF ConverterIs, ToResponses, KeptFields, UsageFields, Lists, ListFields
  <2> HIDE DEF u, b
  <2>4. ConverterIs(kind, r) /\ Names(b.out, 0) /\ r.usage = u.usage
    BY <2>2, <2>3, <1>5, QuietConverter DEF KeptFields, UsageFields, ToResponses
  <2> QED BY <1>5, <2>3, <2>4 DEF b, Says, Learns
<1>6. CASE kind = "anthropic"
  <2> DEFINE u == CASE x.type = "message_start" -> [a EXCEPT !.input = x.usage]
                    [] x.type = "message_delta" -> [a EXCEPT !.output = x.usage]
                    [] OTHER -> a
  <2>1. b = Anthropic!processAnthropicEvent(a, x)
    BY <1>2, <1>6 DEF Feed
  <2>2. Quietly(u, b)
    BY <1>3, <1>6, <2>1, AnthropicEventIs DEF ConverterIs, ToResponses
  <2>3. /\ ConverterIs(kind, u) /\ {"input", "output"} \subseteq DOMAIN u
        /\ u.input = IF x.type = "message_start" THEN x.usage ELSE a.input
        /\ u.output = IF x.type = "message_delta" THEN x.usage ELSE a.output
    <3>1. CASE x.type = "message_start"
      BY <1>1, <1>6, <3>1 DEF ConverterIs, ToResponses, KeptFields, UsageFields, Lists, ListFields
    <3>2. CASE x.type = "message_delta"
      BY <1>1, <1>6, <3>2 DEF ConverterIs, ToResponses, KeptFields, UsageFields, Lists, ListFields
    <3>3. CASE x.type \notin {"message_start", "message_delta"}
      BY <1>1, <1>6, <3>3 DEF ConverterIs, ToResponses, KeptFields, UsageFields, Lists, ListFields
    <3> QED BY <3>1, <3>2, <3>3
  <2> HIDE DEF u, b
  <2>4. ConverterIs(kind, r) /\ Names(b.out, 0) /\ r.input = u.input /\ r.output = u.output
    BY <2>2, <2>3, <1>6, QuietConverter DEF KeptFields, UsageFields, ToResponses
  <2> QED BY <1>6, <2>3, <2>4 DEF b, Says, Learns
<1>7. CASE kind = "anthropic_chat"
  <2>1. b = Provider!AnthropicChat(a, x)
    BY <1>2, <1>7 DEF Feed
  <2>2. /\ DOMAIN b = DOMAIN a
        /\ b.prompt = IF x.type = "message_start" THEN x.usage ELSE a.prompt
        /\ Names(b.out, Says(kind, a, x))
    BY <1>1, <1>7, <2>1, AnthropicChatIs DEF ConverterIs, Says
  <2> HIDE DEF b
  <2>3. r.prompt = b.prompt /\ DOMAIN r = DOMAIN a /\ r.out = << >>
    BY <1>7, <2>2 DEF Rested, ConverterIs
  <2> HIDE DEF r
  <2>4. ConverterIs(kind, r) /\ Learns(kind, a, x, r)
    BY <1>1, <1>7, <2>2, <2>3 DEF ConverterIs, Learns, ToResponses
  <2> QED BY <2>2, <2>4 DEF b, r
<1>8. CASE kind = "vertex_chat"
  <2>1. b = Provider!VertexChat(a, x)
    BY <1>2, <1>8 DEF Feed
  <2>2. DOMAIN b = DOMAIN a /\ Names(b.out, Says(kind, a, x))
    BY <1>1, <1>8, <2>1, VertexChatIs DEF ConverterIs, Says
  <2> HIDE DEF b
  <2>3. DOMAIN r = DOMAIN a /\ r.out = << >>
    BY <2>2 DEF Rested, ConverterIs
  <2> HIDE DEF r
  <2>4. ConverterIs(kind, r) /\ Learns(kind, a, x, r)
    BY <1>8, <2>3 DEF ConverterIs, Learns, ToResponses
  <2> QED BY <2>2, <2>4 DEF b, r
<1> QED BY <1>4, <1>5, <1>6, <1>7, <1>8 DEF ToResponses, ToChat


\* The last events of a stream that was read to its end: a Response reports the
\* usage known, a chat stream has said it before.
LEMMA EndIs ==
  ASSUME NEW kind \in ToResponses \cup ToChat, NEW a, ConverterIs(kind, a), NEW x,
         x.type = "eof" \/ (kind = "chat" /\ x.type = "done")
  PROVE  Names(Converted(kind, a, x).out, IF kind \in ToResponses THEN Known(kind, a) ELSE 0)
<1> DEFINE b == Converted(kind, a, x)
<1>1. kind \in ToResponses => Sound(a)
  BY ConverterSound
<1>2. CASE kind = "chat"
  <2>1. {"usage", "calls"} \subseteq DOMAIN a /\ ~a.completed /\ Sound(a) /\ Loud(a, a.usage)
    BY <1>1, <1>2 DEF ConverterIs, ToResponses, Sound, Loud
  <2>2. CASE x.type = "eof"
    <3>1. b = Chat!EndOfStream(a)
      BY <1>2, <2>2 DEF Converted, AtEof, ToChat
    <3>2. Loudly(a, a.usage, b)
      BY <2>1, <3>1, ChatEnd
    <3> QED BY <1>2, <3>2 DEF Loudly, Known, ToResponses
  <2>3. CASE x.type = "done"
    <3>1. b = Chat!Done(a)
      BY <1>2, <2>3 DEF Converted, Feed
    <3>2. Loudly(a, a.usage, b)
      BY <2>1, <3>1, ChatDone
    <3> QED BY <1>2, <3>2 DEF Loudly, Known, ToResponses
  <2> QED BY <2>2, <2>3
<1>3. CASE kind = "anthropic"
  <2>1. b = Anthropic!AEndOfStream(a)
    BY <1>3 DEF Converted, AtEof, ToChat
  <2>2. Loudly(a, a.input + a.output, b)
    BY <1>1, <1>3, <2>1, AnthropicEnd DEF ConverterIs, ToResponses
  <2> QED BY <1>3, <2>2 DEF Loudly, Known, ToResponses
<1>4. CASE kind = "vertex"
  <2>1. b = Vertex!VEndOfStream(a)
    BY <1>4 DEF Converted, AtEof, ToChat
  <2>2. Loudly(a, a.usage, b)
    BY <1>1, <1>4, <2>1, VertexEnd DEF ConverterIs, ToResponses, VertexLists
  <2> QED BY <1>4, <2>2 DEF Loudly, Known, ToResponses
<1>5. CASE kind \in ToChat
  <2>1. b = Provider!EndOfChat(a)
    BY <1>5 DEF Converted, AtEof, ToChat
  <2>2. Names(b.out, 0)
    BY <2>1, FirstWrite, ChunkEvents, SilentNames DEF ConverterIs, Provider!EndOfChat
  <2> QED BY <1>5, <2>2 DEF ToChat, ToResponses
<1> QED BY <1>2, <1>3, <1>4, <1>5 DEF ToResponses, ToChat

\* The accumulators before the first chunk.
LEMMA StartIs ==
  ASSUME NEW kind \in ToResponses \cup ToChat
  PROVE  LET a == Accumulator(kind)
         IN  /\ ConverterIs(kind, a)
             /\ kind \in {"chat", "vertex"} => a.usage = 0
             /\ kind = "anthropic" => a.input = 0 /\ a.output = 0
             /\ kind = "anthropic_chat" => a.prompt = 0
<1> DEFINE a == Accumulator(kind)
<1>1. CASE kind = "chat"
  <2>1. a = Chat!streamAccumulator
    BY <1>1 DEF Accumulator
  <2> QED BY <1>1, <2>1, Short DEF ConverterIs, Lists, ListFields, UsageFields, ToResponses, Chat!streamAccumulator
<1>2. CASE kind = "anthropic"
  <2>1. a = Anthropic!anthropicStreamAccumulator
    BY <1>2 DEF Accumulator
  <2> QED BY <1>2, <2>1, Short
          DEF ConverterIs, Lists, ListFields, UsageFields, ToResponses, Anthropic!anthropicStreamAccumulator
<1>3. CASE kind = "vertex"
  <2>1. a = Vertex!vertexStreamAccumulator
    BY <1>3 DEF Accumulator
  <2> QED BY <1>3, <2>1, Short
          DEF ConverterIs, Lists, ListFields, UsageFields, ToResponses, Vertex!vertexStreamAccumulator
<1>4. CASE kind = "anthropic_chat"
  <2>1. a = Provider!AnthropicStart
    BY <1>4 DEF Accumulator
  <2> QED BY <1>4, <2>1 DEF ConverterIs, ToResponses, Provider!AnthropicStart
<1>5. CASE kind = "vertex_chat"
  <2>1. a = Provider!VertexStart
    BY <1>5 DEF Accumulator
  <2> QED BY <1>5, <2>1 DEF ConverterIs, ToResponses, Provider!VertexStart
<1> QED BY <1>1, <1>2, <1>3, <1>4, <1>5 DEF ToResponses, ToChat

-----------------------------------------------------------------------------
(* The usage of an answer by what was sent.                                *)

\* Every set of numbers up to n that is not empty has a greatest one.
LEMMA GreatestNumber ==
  ASSUME NEW n \in Nat, NEW T \in SUBSET (1 .. n), T # {}
  PROVE  Max(T) \in T /\ \A m \in T : m <= Max(T)
<1> DEFINE U == {k \in 0 .. n : n - k \in T}
<1>0. \A m \in T : m \in 1 .. n /\ n - m \in U /\ n - (n - m) = m
  <2>1. \A m \in T : m \in 1 .. n
    OBVIOUS
  <2> QED BY <2>1
<1>1. U \in SUBSET Nat /\ U # {}
  <2>1. PICK m \in T : TRUE
    OBVIOUS
  <2>2. n - m \in U
    BY <1>0
  <2>3. U \subseteq 0 .. n
    OBVIOUS
  <2> HIDE DEF U
  <2> QED BY <2>2, <2>3
<1>2. PICK u \in U : \A v \in U : u <= v
  <2> HIDE DEF U
  <2> QED BY <1>1, LeastNumber
<1>3. n - u \in T /\ u \in 0 .. n
  OBVIOUS
<1>4. \A k \in T : n - u >= k
  <2> TAKE k \in T
  <2>1. n - k \in U /\ k \in 1 .. n
    BY <1>0
  <2>2. u <= n - k
    BY <1>2, <2>1
  <2> QED BY <1>3, <2>1, <2>2
<1>5. Max(T) = CHOOSE k \in T : \A l \in T : k >= l
  BY Zenon DEF Max
<1>6. Max(T) \in T /\ \A k \in T : Max(T) >= k
  BY <1>3, <1>4, <1>5
<1>7. \A k \in T : k \in Nat
  BY <1>0
<1> QED BY <1>6, <1>7

LEMMA LatestIs ==
  ASSUME NEW S, NEW s \in Seq(S), NEW x \in S, NEW type, \A y \in S : y.usage \in Nat
  PROVE  /\ Latest(Append(s, x), type) =
                IF x.type = type /\ x.usage > 0 THEN x.usage ELSE Latest(s, type)
         /\ Latest(s, type) \in Nat
<1> DEFINE at(c) == {i \in DOMAIN c : c[i].type = type /\ c[i].usage > 0}
           t == Append(s, x)
           n == Len(s)
<1>1. n \in Nat /\ DOMAIN s = 1 .. n /\ DOMAIN t = 1 .. n + 1 /\ t[n + 1] = x /\ \A i \in 1 .. n : t[i] = s[i]
  OBVIOUS
<1>2. \A c : Latest(c, type) = IF at(c) = {} THEN 0 ELSE c[Max(at(c))].usage
  BY Zenon DEF Latest
<1> HIDE DEF t, n
<1>3. at(t) = at(s) \cup IF x.type = type /\ x.usage > 0 THEN {n + 1} ELSE {}
  BY <1>1
<1>4. at(s) \in SUBSET (1 .. n) /\ at(t) \in SUBSET (1 .. n + 1)
  BY <1>1
<1>5. at(s) # {} => Max(at(s)) \in 1 .. n
  <2> DEFINE T == at(s)
  <2> HIDE DEF at
  <2> QED BY <1>1, <1>4, GreatestNumber
<1>6. Latest(s, type) \in Nat
  <2>1. \A i \in 1 .. n : s[i] \in S
    BY DEF n
  <2> HIDE DEF at
  <2> QED BY <1>1, <1>2, <1>5, <2>1
<1>7. CASE x.type = type /\ x.usage > 0
  <2>1. n + 1 \in at(t) /\ at(t) # {}
    BY <1>3, <1>7
  <2>2. Max(at(t)) = n + 1
    <3> DEFINE T == at(t)
    <3>1. T \in SUBSET (1 .. n + 1) /\ n + 1 \in T /\ n + 1 \in Nat
      BY <1>1, <1>4, <2>1
    <3> HIDE DEF T
    <3>2. Max(T) \in T /\ n + 1 <= Max(T)
      BY <3>1, GreatestNumber
    <3>3. Max(T) \in 1 .. n + 1
      BY <3>1, <3>2
    <3>4. Max(T) = n + 1
      BY <1>1, <3>2, <3>3
    <3> QED BY <3>4 DEF T
  <2> HIDE DEF at
  <2> QED BY <1>1, <1>2, <1>6, <1>7, <2>1, <2>2 DEF t
<1>8. CASE ~(x.type = type /\ x.usage > 0)
  <2>1. at(t) = at(s)
    BY <1>3, <1>8
  <2> HIDE DEF at
  <2> QED BY <1>1, <1>2, <1>5, <1>6, <1>8, <2>1 DEF t
<1> QED BY <1>7, <1>8

LEMMA NothingSent ==
  \A type : Latest(<< >>, type) = 0
BY DEF Latest

UsageFor(kind, chunks) ==
  LET of(type) == Latest(chunks, type) IN
  CASE kind = "anthropic" -> of("message_start") + of("message_delta")
    [] kind = "anthropic_chat" ->
          IF of("message_delta") = 0 THEN 0 ELSE of("message_start") + of("message_delta")
    [] kind = "responses" -> of("completed") + of("rest")
    [] OTHER -> of("chunk")

\* What the client of a stream has been told of it.
Told(kind, chunks) == IF kind \in ToResponses THEN 0 ELSE UsageFor(kind, chunks)

LEMMA UsageIs ==
  \A chunks : UsageOf(chunks) = UsageFor(mode.kind, chunks)
BY Zenon DEF UsageOf, UsageFor

LEMMA UsageNatural ==
  ASSUME NEW kind \in DOMAIN Chunks, NEW s \in Seq(Chunks[kind])
  PROVE  UsageFor(kind, s) \in Nat /\ Told(kind, s) \in Nat
<1>1. \A x \in Chunks[kind] : x.usage \in Nat
  BY ChunksAssumption
<1>2. \A x \in Chunks[kind] : \A type : Latest(s, type) \in Nat
  BY <1>1, LatestIs
<1>3. \A type : Latest(s, type) \in Nat
  <2>1. CASE s = << >>
    BY <2>1, NothingSent
  <2>2. CASE s # << >>
    <3>1. s[1] \in Chunks[kind]
      BY <2>2
    <3> QED BY <1>2, <3>1
  <2> QED BY <2>1, <2>2
<1> QED BY <1>3 DEF UsageFor, Told

\* What the converter knows of the chunks c that it has read.
Fed(kind, c, a) ==
  /\ ConverterIs(kind, a)
  /\ kind \in {"chat", "vertex"} => a.usage = Latest(c, "chunk")
  /\ kind = "anthropic" =>
        a.input = Latest(c, "message_start") /\ a.output = Latest(c, "message_delta")
  /\ kind = "anthropic_chat" => a.prompt = Latest(c, "message_start")
  /\ kind = "chat" => \A i \in DOMAIN c : c[i].type # "done"

\* The usage u is captured, or in what the converter is about to write.
Billed(p, cap, u) ==
  /\ IsSeq(p)
  /\ \A k \in DOMAIN p : p[k].usage \in {0, u} /\ (p[k].type \in {"done", "save"} => p[k].usage = 0)
  /\ cap.tokens = u \/ (u > 0 /\ \E k \in DOMAIN p : p[k].usage = u)
  /\ cap.last.usage \in {0, cap.tokens}

LEMMA FedStarts ==
  ASSUME NEW kind \in ToResponses \cup ToChat
  PROVE  Fed(kind, << >>, Accumulator(kind)) /\ Told(kind, << >>) = 0
<1>1. \A type : Latest(<< >>, type) = 0
  BY NothingSent
<1>2. Told(kind, << >>) = 0
  BY <1>1 DEF Told, UsageFor
<1>3. DOMAIN << >> = {}
  OBVIOUS
<1> QED BY <1>1, <1>2, <1>3, StartIs DEF Fed, ToResponses, ToChat

LEMMA FedStep ==
  ASSUME NEW kind \in ToResponses \cup ToChat, kind \in DOMAIN Chunks,
         NEW c \in Seq(Chunks[kind]), NEW x \in Chunks[kind], NEW a, Fed(kind, c, a),
         ~EndsLoop(kind, x),
         kind = "anthropic_chat" /\ x.type = "message_start" => c = << >>,
         kind = "anthropic" /\ x.type = "message_start" => c = << >>
  PROVE  LET b == Converted(kind, a, x)
             d == Append(c, x)
         IN  /\ Fed(kind, d, Rested(b))
             /\ \E w \in Nat : Names(b.out, w)
                               /\ Told(kind, d) = IF w > 0 THEN w ELSE Told(kind, c)
<1> DEFINE b == Converted(kind, a, x)
           d == Append(c, x)
           r == Rested(b)
           w == Says(kind, a, x)
<1>1. /\ ConverterIs(kind, a) /\ ConverterIs(kind, r)
      /\ Names(b.out, w) /\ Learns(kind, a, x, r)
  BY FeedIs DEF Fed
<1>2. /\ \A type : Latest(d, type) = IF x.type = type /\ x.usage > 0 THEN x.usage ELSE Latest(c, type)
      /\ \A type : Latest(c, type) \in Nat
  <2>1. \A y \in Chunks[kind] : y.usage \in Nat
    BY ChunksAssumption
  <2> QED BY <2>1, LatestIs
<1>3. /\ x.usage \in Nat
      /\ kind = "chat" => x.type = "chunk"
      /\ kind \in {"vertex", "vertex_chat"} => x.type = "chunk"
      /\ kind \in {"anthropic", "anthropic_chat"} /\ x.type = "message_delta" => x.usage > 0 /\ x.stop # "none"
  BY ChunksAssumption DEF EndsLoop
<1>4. DOMAIN d = 1 .. Len(c) + 1 /\ d[Len(c) + 1] = x /\ Len(c) \in Nat /\ DOMAIN c = 1 .. Len(c)
      /\ \A i \in 1 .. Len(c) : d[i] = c[i]
  OBVIOUS
<1>5. c = << >> => \A type : Latest(c, type) = 0
  BY NothingSent
<1> HIDE DEF b, d, r, w
<1>6. Fed(kind, d, r)
  <2>1. kind = "chat" => \A i \in DOMAIN d : d[i].type # "done"
    BY <1>3, <1>4 DEF Fed
  <2>2. CASE kind \in {"chat", "vertex"}
    BY <1>1, <1>2, <1>3, <2>1, <2>2 DEF Fed, Learns
  <2>3. CASE kind = "anthropic"
    <3>1. x.type = "message_start" => x.usage = Latest(d, "message_start")
      BY <1>2, <1>3, <1>5, <2>3
    <3> QED BY <1>1, <1>2, <1>3, <3>1, <2>3 DEF Fed, Learns
  <2>4. CASE kind = "anthropic_chat"
    <3>1. x.type = "message_start" => x.usage = Latest(d, "message_start")
      BY <1>2, <1>3, <1>5, <2>4
    <3> QED BY <1>1, <1>2, <1>3, <3>1, <2>4 DEF Fed, Learns
  <2>5. CASE kind = "vertex_chat"
    BY <1>1, <2>5 DEF Fed
  <2> QED BY <2>2, <2>3, <2>4, <2>5 DEF ToResponses, ToChat
<1>7. w \in Nat /\ Told(kind, d) = IF w > 0 THEN w ELSE Told(kind, c)
  <2>1. CASE kind \in ToResponses
    BY <2>1 DEF w, Says, Told, ToResponses
  <2>2. CASE kind = "vertex_chat"
    BY <1>2, <1>3, <2>2 DEF w, Says, Told, UsageFor, ToResponses
  <2>3. CASE kind = "anthropic_chat"
    <3>1. a.prompt = Latest(c, "message_start")
      BY <2>3 DEF Fed
    <3>2. CASE x.type = "message_delta"
      BY <1>2, <1>3, <2>3, <3>1, <3>2 DEF w, Says, Told, UsageFor, ToResponses
    <3>3. CASE x.type = "message_start"
      BY <1>2, <1>3, <1>5, <2>3, <3>3 DEF w, Says, Told, UsageFor, ToResponses
    <3>4. CASE x.type \notin {"message_start", "message_delta"}
      BY <1>2, <1>3, <2>3, <3>4 DEF w, Says, Told, UsageFor, ToResponses
    <3> QED BY <3>2, <3>3, <3>4
  <2> QED BY <2>1, <2>2, <2>3 DEF ToChat
<1> QED BY <1>1, <1>6, <1>7 DEF b, d, r

\* The converter writes what it now has to say.
LEMMA BilledStep ==
  ASSUME NEW cap, NEW u \in Nat, Billed(<< >>, cap, u), NEW w \in Nat, NEW s, Names(s, w)
  PROVE  Billed(s, cap, IF w > 0 THEN w ELSE u)
<1>1. cap.tokens = u /\ cap.last.usage \in {0, cap.tokens}
  BY DEF Billed
<1> QED BY <1>1 DEF Billed, Names

LEMMA EndStep ==
  ASSUME NEW kind \in ToResponses \cup ToChat, kind \in DOMAIN Chunks, NEW c \in Seq(Chunks[kind]), NEW a,
         Fed(kind, c, a), NEW x, x.type = "eof" \/ (kind = "chat" /\ x.type = "done"),
         NEW cap, Billed(<< >>, cap, Told(kind, c))
  PROVE  Billed(Converted(kind, a, x).out, cap, UsageFor(kind, c))
<1> DEFINE s == Converted(kind, a, x).out
           u == UsageFor(kind, c)
<1>1. Names(s, IF kind \in ToResponses THEN Known(kind, a) ELSE 0)
  BY EndIs DEF Fed
<1>2. u \in Nat
  BY UsageNatural
<1>3. kind \in ToResponses => Known(kind, a) = u
  BY DEF Fed, Known, UsageFor, ToResponses
<1> HIDE DEF s
<1>4. CASE kind \in ToResponses
  <2>1. Names(s, u) /\ Told(kind, c) = 0
    BY <1>1, <1>3, <1>4 DEF Told
  <2> HIDE DEF u
  <2>2. Billed(s, cap, IF u > 0 THEN u ELSE 0)
    BY <1>2, <2>1, BilledStep
  <2> QED BY <1>2, <2>2 DEF s, u
<1>5. CASE kind \notin ToResponses
  <2>1. Names(s, 0) /\ Told(kind, c) = u
    BY <1>1, <1>5 DEF Told
  <2> HIDE DEF u
  <2>2. Billed(s, cap, IF 0 > 0 THEN 0 ELSE u)
    BY <1>2, <2>1, BilledStep
  <2> QED BY <1>2, <2>2 DEF s, u
<1> QED BY <1>4, <1>5


-----------------------------------------------------------------------------
(* The pipeline.                                                           *)

StageIs(s) ==
  /\ DOMAIN s = {"pending", "state", "result"} /\ IsSeq(s.pending)
  /\ s.state \in {"run", "over", "ended"} /\ s.result \in {"eof", "failed"}

PipeIs(p) ==
  /\ DOMAIN p = {"slot", "wclosed", "rclosed"} /\ IsSeq(p.slot) /\ Len(p.slot) <= 1
  /\ p.wclosed \in {"no", "eof", "failed"} /\ p.rclosed \in BOOLEAN

\* All but the last goroutine hand on what the provider sent.
PipelineIs(m, st, pp) ==
  /\ DOMAIN st = 1 .. m.stages /\ DOMAIN pp = 1 .. m.stages
  /\ \A i \in 1 .. m.stages : StageIs(st[i]) /\ PipeIs(pp[i])
  /\ \A i \in 1 .. m.stages : i # m.stages =>
        st[i].pending \in Seq(Chunks[m.kind]) /\ pp[i].slot \in Seq(Chunks[m.kind])

StreamShape ==
  /\ mode \in Modes /\ PipelineIs(mode, stage, pipe)
  /\ DOMAIN relay = {"pc", "hold", "aborted"} /\ relay.aborted \in BOOLEAN
  /\ relay.pc = "drain" => mode.stages = 0
  /\ upstream \in {"open", "eof", "failed", "cancelled"}
  /\ sent \in Seq(Chunks[mode.kind])

\* What a stage that stopped leaves behind.
StageSettled(m, st, pp, aborted, i) ==
  /\ st[i].state = "ended" => st[i].pending = << >> /\ pp[i].slot = << >>
  /\ i # m.stages /\ st[i].state = "over" => st[i].pending = << >>
  /\ pp[i].wclosed # "no" => st[i].state = "ended"
  /\ i # m.stages /\ pp[i].wclosed # "no" => pp[i].wclosed = st[i].result
  /\ pp[i].rclosed => IF i = m.stages THEN aborted ELSE st[m.stages].state # "run"

\* And while the last one runs, why it stopped.
StageCause(m, st, up, i) ==
  m.stages > 0 /\ st[m.stages].state = "run" /\ i # m.stages /\ st[i].state # "run" =>
      IF st[i].result = "eof"
      THEN up = "eof" /\ (i > 1 => st[i - 1].state = "ended" /\ st[i - 1].result = "eof")
      ELSE up \in {"failed", "cancelled"}

Settled ==
  /\ \A i \in 1 .. Top : StageSettled(mode, stage, pipe, relay.aborted, i)
  /\ \A i \in 1 .. Top : StageCause(mode, stage, upstream, i)
  /\ relay.pc = "done" /\ Top > 0 => stage[Top].state = "ended"

Logged == entry = IF relay.pc = "done" THEN Entry ELSE NoEntry

\* The rules of a provider that what is on its way keeps.
Rules(kind, s) ==
  /\ kind \in {"anthropic", "anthropic_chat"} =>
        \A i \in DOMAIN s : s[i].type = "message_start" => i = 1
  /\ \A i \in DOMAIN s : i < Len(s) => s[i].type # "done"

\* What is between the provider and the converter.
Within(pp, st, i) == pp[i].slot \o st[i].pending
Flow(m, pp, st) ==
  CASE m.stages = 3 -> Within(pp, st, 2) \o Within(pp, st, 1)
    [] m.stages = 2 -> Within(pp, st, 1)
    [] OTHER -> << >>

Running(m, c, s, pp, st, a, cap, aborted) ==
  /\ s = c \o Flow(m, pp, st)
  /\ Fed(m.kind, c, a)
  /\ ~aborted => Billed(st[m.stages].pending, cap, Told(m.kind, c))

Finished(m, s, st, up, cap, aborted) ==
  \/ up \in {"failed", "cancelled"}
  \/ aborted
  \/ /\ Billed(st[m.stages].pending, cap, UsageFor(m.kind, s))
     /\ up = "eof" \/ \E i \in DOMAIN s : s[i].type = "done"

Bill ==
  IF Top > 0
  THEN IF stage[Top].state = "run"
       THEN \E c \in Seq(Chunks[mode.kind]) :
                Running(mode, c, sent, pipe, stage, acc, captured, relay.aborted)
       ELSE Finished(mode, sent, stage, upstream, captured, relay.aborted)
  ELSE /\ captured.tokens = UsageFor(mode.kind, sent)
       /\ ExtractUsage(captured.last) \in {0, captured.tokens}
       /\ mode.kind = "responses" => (captured.partial <=> Cut(sent))

StreamInv == StreamShape /\ Settled /\ Logged /\ Rules(mode.kind, sent) /\ Bill

LEMMA ModeIs ==
  ASSUME StreamShape
  PROVE  /\ mode.kind \in DOMAIN Chunks /\ Top \in 0 .. 3
         /\ Top = 0 => mode.kind \in Raw
         /\ Top > 0 => mode.kind \in ToResponses \cup ToChat
         /\ mode.joins => Top > 1
BY ModesAssumption DEF StreamShape, Kinds, Top

LEMMA StageSet ==
  ASSUME NEW m, NEW st, NEW pp, PipelineIs(m, st, pp), NEW i \in 1 .. m.stages, NEW s, StageIs(s),
         i # m.stages => s.pending \in Seq(Chunks[m.kind])
  PROVE  LET u == [st EXCEPT ![i] = s]
         IN  PipelineIs(m, u, pp) /\ u[i] = s /\ \A j \in 1 .. m.stages : j # i => u[j] = st[j]
BY DEF PipelineIs

LEMMA PipeSet ==
  ASSUME NEW m, NEW st, NEW pp, PipelineIs(m, st, pp), NEW i \in 1 .. m.stages, NEW p, PipeIs(p),
         i # m.stages => p.slot \in Seq(Chunks[m.kind])
  PROVE  LET q == [pp EXCEPT ![i] = p]
         IN  PipelineIs(m, st, q) /\ q[i] = p /\ \A j \in 1 .. m.stages : j # i => q[j] = pp[j]
BY DEF PipelineIs


\* The head of what is captured goes from "about to be written" to "captured".
LEMMA BilledWrites ==
  ASSUME NEW p, p # << >>, NEW cap, NEW cap2, NEW u \in Nat, Billed(p, cap, u), NEW e, e = Head(p),
         cap2 = [tokens |-> IF e.usage > 0 THEN e.usage ELSE cap.tokens,
                 last |-> IF e.type = "done" THEN cap.last ELSE [type |-> e.type, usage |-> e.usage],
                 partial |-> FALSE]
  PROVE  Billed(Tail(p), cap2, u)
<1>1. /\ IsSeq(p) /\ IsSeq(Tail(p)) /\ 1 \in DOMAIN p /\ e = p[1]
      /\ \A i \in DOMAIN Tail(p) : i + 1 \in DOMAIN p /\ Tail(p)[i] = p[i + 1]
      /\ \A i \in DOMAIN p : i = 1 \/ (i - 1 \in DOMAIN Tail(p) /\ Tail(p)[i - 1] = p[i])
  BY Rest DEF Billed
<1>2. e.usage \in {0, u} /\ (e.type = "done" => e.usage = 0)
  BY <1>1 DEF Billed
<1> DEFINE t == Tail(p)
<1> HIDE DEF t
<1>3. \A k \in DOMAIN t : t[k].usage \in {0, u} /\ (t[k].type \in {"done", "save"} => t[k].usage = 0)
  BY <1>1 DEF Billed, t
<1>4. CASE e.usage = 0
  <2>1. cap2.tokens = cap.tokens /\ cap2.last.usage \in {0, cap.tokens}
    BY <1>4 DEF Billed
  <2>2. cap.tokens # u => u > 0 /\ \E k \in DOMAIN t : t[k].usage = u
    <3>1. cap.tokens # u => u > 0 /\ \E k \in DOMAIN p : p[k].usage = u
      BY DEF Billed
    <3>2. ASSUME u > 0, NEW k \in DOMAIN p, p[k].usage = u
          PROVE  \E i \in DOMAIN t : t[i].usage = u
      <4>1. k # 1
        BY <1>1, <1>4, <3>2
      <4>2. k - 1 \in DOMAIN t /\ t[k - 1] = p[k]
        BY <1>1, <4>1 DEF t
      <4> QED BY <3>2, <4>2
    <3> QED BY <3>1, <3>2
  <2> QED BY <1>1, <1>3, <2>1, <2>2 DEF Billed, t
<1>5. CASE e.usage # 0
  <2>1. e.usage = u /\ u > 0 /\ e.type # "done"
    BY <1>2, <1>5
  <2>2. cap2.tokens = u /\ cap2.last.usage = u
    BY <2>1
  <2> QED BY <1>1, <1>3, <2>2 DEF Billed, t
<1> QED BY <1>4, <1>5

LEMMA BilledSaves ==
  ASSUME NEW p, p # << >>, NEW cap, NEW u \in Nat, Billed(p, cap, u), Head(p).type = "save"
  PROVE  Billed(Tail(p), cap, u)
<1>1. /\ IsSeq(p) /\ IsSeq(Tail(p)) /\ 1 \in DOMAIN p /\ Head(p) = p[1]
      /\ \A i \in DOMAIN Tail(p) : i + 1 \in DOMAIN p /\ Tail(p)[i] = p[i + 1]
      /\ \A i \in DOMAIN p : i = 1 \/ (i - 1 \in DOMAIN Tail(p) /\ Tail(p)[i - 1] = p[i])
  BY Rest DEF Billed
<1>2. p[1].usage = 0
  BY <1>1 DEF Billed
<1> DEFINE t == Tail(p)
<1> HIDE DEF t
<1>3. \A k \in DOMAIN t : t[k].usage \in {0, u} /\ (t[k].type \in {"done", "save"} => t[k].usage = 0)
  BY <1>1 DEF Billed, t
<1>4. (u > 0 /\ \E k \in DOMAIN p : p[k].usage = u) => \E k \in DOMAIN t : t[k].usage = u
  <2>1. ASSUME u > 0, NEW k \in DOMAIN p, p[k].usage = u
        PROVE  \E i \in DOMAIN t : t[i].usage = u
    <3>1. k # 1
      BY <1>2, <2>1
    <3>2. k - 1 \in DOMAIN t /\ t[k - 1] = p[k]
      BY <1>1, <3>1 DEF t
    <3> QED BY <2>1, <3>2
  <2> QED BY <2>1
<1> QED BY <1>1, <1>3, <1>4 DEF Billed, t

\* Of the flow only what the stages before the last hold matters.
LEMMA FlowSame ==
  ASSUME NEW m, m.stages \in 0 .. 3, NEW pp, NEW st, NEW qq, NEW su,
         \A i \in 1 .. m.stages : i # m.stages => Within(qq, su, i) = Within(pp, st, i)
  PROVE  Flow(m, qq, su) = Flow(m, pp, st)
BY DEF Flow

\* The bill when a step touches neither the chunks nor the converter.
LEMMA BillStays ==
  ASSUME StreamShape, Bill, Top > 0,
         mode' = mode, sent' = sent, upstream' = upstream, acc' = acc,
         relay'.aborted = relay.aborted,
         stage'[Top].state = "run" <=> stage[Top].state = "run",
         stage[Top].state = "run" => \A i \in 1 .. Top : i # Top =>
             Within(pipe', stage', i) = Within(pipe, stage, i),
         \A u \in Nat : Billed(stage[Top].pending, captured, u)
                            => Billed(stage'[Top].pending, captured', u)
  PROVE  Bill'
<1>1. mode.kind \in DOMAIN Chunks /\ mode.stages \in 0 .. 3 /\ Top' = Top /\ Top = mode.stages
  BY ModeIs DEF Top
<1>2. CASE stage[Top].state = "run"
  <2>1. PICK c \in Seq(Chunks[mode.kind]) :
            Running(mode, c, sent, pipe, stage, acc, captured, relay.aborted)
    BY <1>2 DEF Bill
  <2>2. Flow(mode, pipe', stage') = Flow(mode, pipe, stage)
    BY <1>1, <1>2, FlowSame
  <2>3. Told(mode.kind, c) \in Nat
    BY <1>1, UsageNatural
  <2>4. Running(mode, c, sent, pipe', stage', acc, captured', relay.aborted)
    BY <1>1, <2>1, <2>2, <2>3 DEF Running
  <2> QED BY <1>1, <1>2, <2>4 DEF Bill
<1>3. CASE stage[Top].state # "run"
  <2>1. UsageFor(mode.kind, sent) \in Nat
    BY <1>1, UsageNatural DEF StreamShape
  <2>2. Finished(mode, sent, stage, upstream, captured, relay.aborted)
    BY <1>3 DEF Bill
  <2>3. Finished(mode, sent, stage', upstream, captured', relay.aborted)
    BY <1>1, <2>1, <2>2 DEF Finished
  <2> QED BY <1>1, <1>3, <2>3 DEF Bill
<1> QED BY <1>2, <1>3


\* A sequence without its first element, in front of the rest.
LEMMA HeadMoves ==
  ASSUME NEW S, NEW p \in Seq(S), p # << >>
  PROVE  << Head(p) >> \o Tail(p) = << >> \o p /\ Tail(p) \in Seq(S) /\ << Head(p) >> \in Seq(S)
<1>1. Head(p) \in S /\ Tail(p) \in Seq(S) /\ << Head(p) >> \in Seq(S)
  OBVIOUS
<1>2. << >> \o p = p
  BY ConcatEmptySeq
<1>3. << Head(p) >> \o Tail(p) = p
  OBVIOUS
<1> QED BY <1>1, <1>2, <1>3

LEMMA PutKeeps ==
  ASSUME StreamInv, NEW i \in DOMAIN stage, Put(i)
  PROVE  StreamInv'
<1>1. /\ mode.kind \in DOMAIN Chunks /\ mode.stages \in 0 .. 3 /\ Top' = Top /\ Top = mode.stages
      /\ i \in 1 .. Top /\ Top > 0 /\ i \in 1 .. mode.stages
  BY ModeIs DEF Top, StreamInv, StreamShape, PipelineIs, Put
<1> DEFINE p == stage[i].pending
           s == [stage[i] EXCEPT !.pending = Tail(p)]
           q == [pipe[i] EXCEPT !.slot = << Head(p) >>]
           st == [stage EXCEPT ![i] = s]
           pp == [pipe EXCEPT ![i] = q]
<1>2. p # << >> /\ Head(p).type # "save" /\ pipe[i].slot = << >> /\ ~pipe[i].rclosed
  BY DEF Put, Pending, Saves
<1>3. StageIs(stage[i]) /\ PipeIs(pipe[i]) /\ PipelineIs(mode, stage, pipe)
      /\ StageSettled(mode, stage, pipe, relay.aborted, i)
  BY <1>1 DEF StreamInv, StreamShape, PipelineIs, Settled
<1>4. StageIs(s) /\ PipeIs(q) /\ s.pending = Tail(p) /\ q.slot = << Head(p) >>
      /\ s.state = stage[i].state /\ s.result = stage[i].result
      /\ q.wclosed = pipe[i].wclosed /\ q.rclosed = pipe[i].rclosed
  <2>1. IsSeq(Tail(p)) /\ IsSeq(<< Head(p) >>) /\ Len(<< Head(p) >>) = 1
    BY <1>2, <1>3, Rest, Short DEF StageIs
  <2> HIDE DEF p
  <2> QED BY <1>3, <2>1 DEF StageIs, PipeIs
<1>5. i # mode.stages => /\ p \in Seq(Chunks[mode.kind]) /\ s.pending \in Seq(Chunks[mode.kind])
                         /\ q.slot \in Seq(Chunks[mode.kind])
                         /\ << Head(p) >> \o Tail(p) = << >> \o p
  <2>1. i # mode.stages => p \in Seq(Chunks[mode.kind])
    BY <1>1, <1>3 DEF PipelineIs
  <2> HIDE DEF p
  <2> QED BY <1>2, <1>4, <2>1, HeadMoves
<1>6. stage' = st /\ pipe' = pp
  BY DEF Put
<1>7. /\ mode' = mode /\ sent' = sent /\ upstream' = upstream /\ acc' = acc /\ relay' = relay /\ entry' = entry
      /\ IF i = Top THEN tokenCapturingWriter(Head(p)) ELSE captured' = captured
  BY DEF Put, Capture
<1> HIDE DEF s, q, st, pp, p
<1>8. PipelineIs(mode, st, pipe) /\ st[i] = s /\ \A j \in 1 .. mode.stages : j # i => st[j] = stage[j]
  BY <1>1, <1>3, <1>4, <1>5 DEF st, PipelineIs
<1>9. PipelineIs(mode, st, pp) /\ pp[i] = q /\ \A j \in 1 .. mode.stages : j # i => pp[j] = pipe[j]
  BY <1>1, <1>4, <1>5, <1>8, PipeSet DEF pp
<1>10. StreamShape'
  BY <1>6, <1>7, <1>9 DEF StreamInv, StreamShape
<1>11. stage[i].state # "ended" /\ (i # mode.stages => stage[i].state = "run")
  BY <1>1, <1>2, <1>3 DEF StageSettled, StageIs, p
<1>12. Settled'
  <2>1. \A j \in 1 .. mode.stages : st[j].state = stage[j].state /\ st[j].result = stage[j].result
                             /\ pp[j].wclosed = pipe[j].wclosed /\ pp[j].rclosed = pipe[j].rclosed
    BY <1>4, <1>8, <1>9
  <2>2. ASSUME NEW j \in 1 .. mode.stages
        PROVE  StageSettled(mode, st, pp, relay.aborted, j) /\ StageCause(mode, st, upstream, j)
    <3>1. StageSettled(mode, stage, pipe, relay.aborted, j) /\ StageCause(mode, stage, upstream, j)
      BY <1>1, <2>2 DEF StreamInv, Settled
    <3>2. j > 1 => j - 1 \in 1 .. mode.stages
      BY <1>1
    <3>3. StageSettled(mode, st, pp, relay.aborted, j)
      BY <1>1, <1>8, <1>9, <1>11, <2>1, <3>1 DEF StageSettled
    <3>4. StageCause(mode, st, upstream, j)
      BY <1>1, <2>1, <3>1, <3>2 DEF StageCause
    <3> QED BY <3>3, <3>4
  <2> QED BY <1>1, <1>6, <1>7, <2>1, <2>2 DEF StreamInv, Settled
<1>13. relay.pc # "done" \/ captured' = captured
  BY <1>1, <1>7, <1>11 DEF StreamInv, Settled
<1>14. Logged'
  BY <1>7, <1>13 DEF StreamInv, Logged, Entry
<1>15. Bill'
  <2>1. \A u \in Nat : Billed(stage[Top].pending, captured, u) => Billed(stage'[Top].pending, captured', u)
    <3>1. CASE i = Top
      <4>1. captured' = [tokens |-> IF Head(p).usage > 0 THEN Head(p).usage ELSE captured.tokens,
                         last |-> IF Head(p).type = "done" THEN captured.last
                                  ELSE [type |-> Head(p).type, usage |-> Head(p).usage],
                         partial |-> FALSE]
        BY <1>7, <3>1 DEF tokenCapturingWriter, rememberLastStreamDataChunk, extractTokensFromStreamingChunk
      <4>2. stage[Top].pending = p /\ stage'[Top].pending = Tail(p)
        BY <1>4, <1>6, <1>8, <3>1 DEF p
      <4> QED BY <1>2, <4>1, <4>2, BilledWrites
    <3>2. CASE i # Top
      BY <1>1, <1>6, <1>7, <1>8, <3>2
    <3> QED BY <3>1, <3>2
  <2>2. \A j \in 1 .. Top : j # Top => Within(pipe', stage', j) = Within(pipe, stage, j)
    <3>1. i # Top => Within(pipe', stage', i) = Within(pipe, stage, i)
      BY <1>1, <1>2, <1>4, <1>5, <1>6, <1>8, <1>9 DEF Within, p
    <3> QED BY <1>1, <1>6, <1>8, <1>9, <3>1 DEF Within
  <2>3. stage'[Top].state = stage[Top].state
    BY <1>1, <1>4, <1>6, <1>8
  <2> QED BY <1>1, <1>7, <2>1, <2>2, <2>3, BillStays DEF StreamInv
<1> QED BY <1>7, <1>10, <1>12, <1>14, <1>15 DEF StreamInv


\* A step of one goroutine that changes its own record and its own pipe.
LEMMA StageStep ==
  ASSUME StreamShape, NEW i \in 1 .. Top, NEW s, NEW q, StageIs(s), PipeIs(q),
         i # Top => s.pending \in Seq(Chunks[mode.kind]) /\ q.slot \in Seq(Chunks[mode.kind]),
         DOMAIN stage' = DOMAIN stage, DOMAIN pipe' = DOMAIN pipe, stage'[i] = s, pipe'[i] = q,
         \A j \in 1 .. Top : j # i => stage'[j] = stage[j] /\ pipe'[j] = pipe[j],
         mode' = mode, sent' = sent, upstream' = upstream, relay' = relay
  PROVE  StreamShape'
<1>1. PipelineIs(mode, stage', pipe')
  BY DEF StreamShape, PipelineIs, Top
<1> QED BY <1>1 DEF StreamShape

\* The same of Settled, when the stage neither starts nor goes back.
LEMMA SettledStep ==
  ASSUME StreamInv, NEW i \in 1 .. Top, stage[i].state # "ended", relay' = relay, upstream' = upstream,
         mode' = mode,
         \A j \in 1 .. Top : j # i => stage'[j] = stage[j] /\ pipe'[j] = pipe[j],
         stage'[i].state = "run" => stage[i].state = "run",
         i = Top /\ stage[i].state # "run" => stage'[i].state # "run",
         StageSettled(mode, stage', pipe', relay.aborted, i),
         StageCause(mode, stage', upstream, i)
  PROVE  Settled'
<1>1. mode.stages \in 0 .. 3 /\ Top' = Top /\ Top = mode.stages
  BY ModeIs DEF Top, StreamInv
<1>2. ASSUME NEW j \in 1 .. mode.stages
      PROVE  StageSettled(mode, stage', pipe', relay.aborted, j) /\ StageCause(mode, stage', upstream, j)
  <2>1. StageSettled(mode, stage, pipe, relay.aborted, j) /\ StageCause(mode, stage, upstream, j)
    BY <1>1, <1>2 DEF StreamInv, Settled
  <2>2. j > 1 => j - 1 \in 1 .. mode.stages
    BY <1>1
  <2>3. CASE j = i
    BY <2>3
  <2>4. CASE j # i
    <3>1. StageSettled(mode, stage', pipe', relay.aborted, j)
      BY <1>1, <2>1, <2>4 DEF StageSettled
    <3>2. StageCause(mode, stage', upstream, j)
      BY <1>1, <2>1, <2>2, <2>4 DEF StageCause
    <3> QED BY <3>1, <3>2
  <2> QED BY <2>3, <2>4
<1>3. relay.pc # "done"  \/ Top = 0 \/ stage'[Top].state = "ended"
  BY <1>1 DEF StreamInv, Settled
<1> QED BY <1>1, <1>2, <1>3 DEF Settled

LEMMA SaveResponseKeeps ==
  ASSUME StreamInv, NEW i \in DOMAIN stage, SaveResponse(i)
  PROVE  StreamInv'
<1>1. /\ mode.kind \in DOMAIN Chunks /\ mode.stages \in 0 .. 3 /\ Top' = Top /\ Top = mode.stages
      /\ i \in 1 .. Top /\ Top > 0
  BY ModeIs DEF Top, StreamInv, StreamShape, PipelineIs, SaveResponse
<1> DEFINE p == stage[i].pending
           s == [stage[i] EXCEPT !.pending = Tail(p)]
<1>2. p # << >> /\ Head(p).type = "save"
  BY DEF SaveResponse, Pending, Saves
<1>3. StageIs(stage[i]) /\ PipeIs(pipe[i]) /\ StageSettled(mode, stage, pipe, relay.aborted, i)
      /\ StageCause(mode, stage, upstream, i)
      /\ (i # Top => p \in Seq(Chunks[mode.kind]) /\ pipe[i].slot \in Seq(Chunks[mode.kind]))
  BY <1>1 DEF StreamInv, StreamShape, PipelineIs, Settled
<1>4. i = Top
  <2>1. \A x \in Chunks[mode.kind] : x.type # "save"
    BY <1>1, ChunksAssumption
  <2> QED BY <1>2, <1>3, <2>1
<1>5. StageIs(s) /\ s.pending = Tail(p) /\ s.state = stage[i].state /\ s.result = stage[i].result
  <2>1. IsSeq(Tail(p))
    BY <1>2, <1>3, Rest DEF StageIs
  <2> HIDE DEF p
  <2> QED BY <1>3, <2>1 DEF StageIs
<1>6. stage' = [stage EXCEPT ![i] = s] /\ pipe' = pipe
  BY DEF SaveResponse
<1>7. /\ mode' = mode /\ sent' = sent /\ upstream' = upstream /\ acc' = acc /\ relay' = relay /\ entry' = entry
      /\ captured' = captured
  BY DEF SaveResponse
<1> HIDE DEF p, s
<1>8. /\ DOMAIN stage' = DOMAIN stage /\ DOMAIN pipe' = DOMAIN pipe /\ stage'[i] = s /\ pipe'[i] = pipe[i]
      /\ \A j \in 1 .. Top : j # i => stage'[j] = stage[j] /\ pipe'[j] = pipe[j]
  BY <1>6
<1>12. StreamShape'
  BY <1>1, <1>3, <1>4, <1>5, <1>7, <1>8, StageStep DEF StreamInv
<1>9. Settled'
  <2>1. stage[i].state # "ended"
    BY <1>2, <1>3 DEF StageSettled, p
  <2>2. StageSettled(mode, stage', pipe', relay.aborted, i)
    BY <1>1, <1>3, <1>4, <1>5, <1>8, <2>1 DEF StageSettled
  <2>3. StageCause(mode, stage', upstream, i)
    BY <1>1, <1>4 DEF StageCause
  <2> QED BY <1>1, <1>5, <1>7, <1>8, <2>1, <2>2, <2>3, SettledStep
<1>10. Logged'
  BY <1>7 DEF StreamInv, Logged, Entry
<1>11. Bill'
  <2>1. \A u \in Nat : Billed(stage[Top].pending, captured, u) => Billed(stage'[Top].pending, captured', u)
    BY <1>2, <1>4, <1>5, <1>7, <1>8, BilledSaves DEF p
  <2>2. \A j \in 1 .. Top : j # Top => Within(pipe', stage', j) = Within(pipe, stage, j)
    BY <1>4, <1>8 DEF Within
  <2> QED BY <1>1, <1>4, <1>5, <1>7, <1>8, <2>1, <2>2, BillStays DEF StreamInv
<1> QED BY <1>7, <1>9, <1>10, <1>11, <1>12 DEF StreamInv

LEMMA WriteFailsKeeps ==
  ASSUME StreamInv, NEW i \in DOMAIN stage, WriteFails(i)
  PROVE  StreamInv'
<1>1. /\ mode.kind \in DOMAIN Chunks /\ mode.stages \in 0 .. 3 /\ Top' = Top /\ Top = mode.stages
      /\ i \in 1 .. Top /\ Top > 0
  BY ModeIs DEF Top, StreamInv, StreamShape, PipelineIs, WriteFails
<1> DEFINE s == Stage(<< >>, "over", "failed")
           q == [pipe[i] EXCEPT !.slot = << >>]
<1>2. pipe[i].rclosed /\ (pipe[i].slot # << >> \/ stage[i].pending # << >>)
  BY DEF WriteFails, Pending
<1>3. StageIs(stage[i]) /\ PipeIs(pipe[i]) /\ StageSettled(mode, stage, pipe, relay.aborted, i)
      /\ StageCause(mode, stage, upstream, i)
  BY <1>1 DEF StreamInv, StreamShape, PipelineIs, Settled
<1>4. StageIs(s) /\ s.pending = << >> /\ s.state = "over" /\ s.result = "failed"
      /\ PipeIs(q) /\ q.slot = << >> /\ q.wclosed = pipe[i].wclosed /\ q.rclosed
  <2>1. IsSeq(<< >>) /\ Len(<< >>) <= 1
    BY Short
  <2>2. DOMAIN s = {"pending", "state", "result"} /\ s.pending = << >> /\ s.state = "over" /\ s.result = "failed"
    BY DEF Stage
  <2>3. /\ DOMAIN q = DOMAIN pipe[i] /\ q.slot = << >> /\ q.wclosed = pipe[i].wclosed
        /\ q.rclosed = pipe[i].rclosed
    BY <1>3 DEF PipeIs
  <2> HIDE DEF s, q
  <2>4. StageIs(s)
    BY <2>1, <2>2 DEF StageIs
  <2>5. PipeIs(q)
    BY <1>3, <2>1, <2>3 DEF PipeIs
  <2> QED BY <1>2, <2>2, <2>3, <2>4, <2>5
<1>5. << >> \in Seq(Chunks[mode.kind])
  BY EmptySeq
<1>6. stage' = [stage EXCEPT ![i] = s] /\ pipe' = [pipe EXCEPT ![i] = q]
  BY DEF WriteFails
<1>7. /\ mode' = mode /\ sent' = sent /\ upstream' = upstream /\ acc' = acc /\ relay' = relay /\ entry' = entry
      /\ i # Top => captured' = captured
  BY DEF WriteFails, Capture
<1> HIDE DEF s, q
<1>8. /\ DOMAIN stage' = DOMAIN stage /\ DOMAIN pipe' = DOMAIN pipe /\ stage'[i] = s /\ pipe'[i] = q
      /\ \A j \in 1 .. Top : j # i => stage'[j] = stage[j] /\ pipe'[j] = pipe[j]
  BY <1>1, <1>6 DEF StreamInv, StreamShape, PipelineIs
<1>13. StreamShape'
  BY <1>1, <1>4, <1>5, <1>7, <1>8, StageStep DEF StreamInv
<1>9. stage[i].state # "ended" /\ IF i = Top THEN relay.aborted ELSE stage[Top].state # "run"
  BY <1>1, <1>2, <1>3 DEF StageSettled
<1>10. Settled'
  <2>2. StageSettled(mode, stage', pipe', relay.aborted, i)
    BY <1>1, <1>3, <1>4, <1>8, <1>9 DEF StageSettled
  <2>3. StageCause(mode, stage', upstream, i)
    BY <1>1, <1>8, <1>9 DEF StageCause
  <2> QED BY <1>1, <1>4, <1>7, <1>8, <1>9, <2>2, <2>3, SettledStep
<1>11. Logged'
  <2>1. relay.pc # "done" \/ captured' = captured
    BY <1>1, <1>7, <1>9 DEF StreamInv, Settled
  <2> QED BY <1>7, <2>1 DEF StreamInv, Logged, Entry
<1>12. Bill'
  <2>1. CASE i = Top
    BY <1>1, <1>4, <1>7, <1>8, <1>9, <2>1 DEF Bill, Finished
  <2>2. CASE i # Top
    <3>1. stage'[Top] = stage[Top] /\ captured' = captured /\ stage[Top].state # "run"
      BY <1>1, <1>7, <1>8, <1>9, <2>2
    <3> QED BY <1>1, <1>7, <3>1, BillStays DEF StreamInv
  <2> QED BY <2>1, <2>2
<1> QED BY <1>7, <1>10, <1>11, <1>12, <1>13 DEF StreamInv

LEMMA EndStageKeeps ==
  ASSUME StreamInv, NEW i \in DOMAIN stage, EndStage(i)
  PROVE  StreamInv'
<1>1. /\ mode.kind \in DOMAIN Chunks /\ mode.stages \in 0 .. 3 /\ Top' = Top /\ Top = mode.stages
      /\ i \in 1 .. Top /\ Top > 0 /\ (mode.joins => Top > 1)
  BY ModeIs DEF Top, StreamInv, StreamShape, PipelineIs, EndStage
<1>2. stage[i].state = "over" /\ stage[i].pending = << >> /\ pipe[i].slot = << >>
  BY DEF EndStage, Over, Pending
<1>3. \A j \in 1 .. Top : /\ StageIs(stage[j]) /\ PipeIs(pipe[j])
                          /\ StageSettled(mode, stage, pipe, relay.aborted, j)
                          /\ StageCause(mode, stage, upstream, j)
                          /\ j # Top => stage[j].pending \in Seq(Chunks[mode.kind])
                                        /\ pipe[j].slot \in Seq(Chunks[mode.kind])
  BY <1>1 DEF StreamInv, StreamShape, PipelineIs, Settled
<1>4. /\ mode' = mode /\ sent' = sent /\ upstream' = upstream /\ acc' = acc /\ relay' = relay /\ entry' = entry
      /\ captured' = captured
  BY DEF EndStage
<1>5. Logged'
  BY <1>4 DEF StreamInv, Logged, Entry
<1>6. CASE i = Top /\ mode.joins /\ stage[i - 1].state # "ended"
  <2> DEFINE j == i - 1
             q == [pipe[j] EXCEPT !.rclosed = TRUE]
  <2>1. j \in 1 .. Top /\ j # Top
    BY <1>1, <1>6
  <2>2. PipeIs(q) /\ q.slot = pipe[j].slot /\ q.wclosed = pipe[j].wclosed /\ q.rclosed
    <3> HIDE DEF j
    <3> QED BY <1>3, <2>1 DEF PipeIs
  <2>3. stage' = stage /\ pipe' = [pipe EXCEPT ![j] = q]
    BY <1>6 DEF EndStage
  <2> HIDE DEF q, j
  <2>4. /\ DOMAIN stage' = DOMAIN stage /\ DOMAIN pipe' = DOMAIN pipe /\ stage'[j] = stage[j] /\ pipe'[j] = q
        /\ \A k \in 1 .. Top : k # j => stage'[k] = stage[k] /\ pipe'[k] = pipe[k]
    BY <1>1, <2>1, <2>3 DEF StreamInv, StreamShape, PipelineIs
  <2>7. StreamShape'
    BY <1>1, <1>3, <1>4, <2>1, <2>2, <2>4, StageStep DEF StreamInv
  <2>5. Settled'
    <3>1. stage[Top].state # "run" /\ stage[j].state # "ended"
      BY <1>2, <1>6 DEF j
    <3>2. StageSettled(mode, stage', pipe', relay.aborted, j)
      <4>1. stage'[j] = stage[j] /\ pipe'[j] = q /\ stage'[Top] = stage[Top]
        BY <1>1, <2>1, <2>4
      <4>2. StageSettled(mode, stage, pipe, relay.aborted, j)
        BY <1>3, <2>1
      <4> QED BY <1>1, <2>1, <2>2, <3>1, <4>1, <4>2 DEF StageSettled
    <3>3. StageCause(mode, stage', upstream, j)
      BY <1>1, <2>1, <2>4, <3>1 DEF StageCause
    <3> QED BY <1>4, <2>1, <2>4, <3>1, <3>2, <3>3, SettledStep
  <2>6. Bill'
    <3>1. stage'[Top] = stage[Top]
      BY <1>1, <2>1, <2>4
    <3>2. \A k \in 1 .. Top : k # Top => Within(pipe', stage', k) = Within(pipe, stage, k)
      BY <2>2, <2>4 DEF Within
    <3> QED BY <1>1, <1>4, <3>1, <3>2, BillStays DEF StreamInv
  <2> QED BY <1>4, <1>5, <2>5, <2>6, <2>7 DEF StreamInv
<1>7. CASE ~(i = Top /\ mode.joins /\ stage[i - 1].state # "ended")
  <2> DEFINE s == [stage[i] EXCEPT !.state = "ended"]
             r == IF i = Top /\ mode.joins THEN stage[i - 1].result ELSE stage[i].result
             q == [pipe[i] EXCEPT !.wclosed = r]
  <2>1. r \in {"eof", "failed"} /\ (i # Top => r = stage[i].result)
    <3>1. i = Top /\ mode.joins => i - 1 \in 1 .. Top
      BY <1>1
    <3> QED BY <1>1, <1>3, <3>1 DEF StageIs
  <2>2. stage' = [stage EXCEPT ![i] = s] /\ pipe' = [pipe EXCEPT ![i] = q]
    BY <1>7 DEF EndStage
  <2> HIDE DEF r
  <2>3. /\ StageIs(s) /\ s.pending = << >> /\ s.state = "ended" /\ s.result = stage[i].result
        /\ PipeIs(q) /\ q.slot = << >> /\ q.wclosed = r /\ q.rclosed = pipe[i].rclosed
    <3>1. StageIs(stage[i]) /\ PipeIs(pipe[i])
      BY <1>1, <1>3
    <3>2. /\ DOMAIN s = DOMAIN stage[i] /\ s.pending = << >> /\ s.state = "ended" /\ s.result = stage[i].result
          /\ DOMAIN q = DOMAIN pipe[i] /\ q.slot = << >> /\ q.wclosed = r /\ q.rclosed = pipe[i].rclosed
      BY <1>2, <3>1 DEF StageIs, PipeIs
    <3>3. IsSeq(<< >>) /\ Len(<< >>) <= 1
      BY Short
    <3> HIDE DEF s, q
    <3>4. StageIs(s)
      BY <3>1, <3>2, <3>3 DEF StageIs
    <3>5. PipeIs(q)
      BY <2>1, <3>1, <3>2, <3>3 DEF PipeIs
    <3> QED BY <3>2, <3>4, <3>5
  <2> HIDE DEF s, q
  <2>4. /\ DOMAIN stage' = DOMAIN stage /\ DOMAIN pipe' = DOMAIN pipe /\ stage'[i] = s /\ pipe'[i] = q
        /\ \A k \in 1 .. Top : k # i => stage'[k] = stage[k] /\ pipe'[k] = pipe[k]
    BY <1>1, <2>2 DEF StreamInv, StreamShape, PipelineIs
  <2>7. StreamShape'
    <3>1. i # Top => s.pending \in Seq(Chunks[mode.kind]) /\ q.slot \in Seq(Chunks[mode.kind])
      BY <1>2, <1>3, <2>3, <1>1
    <3> QED BY <1>1, <1>4, <2>3, <2>4, <3>1, StageStep DEF StreamInv
  <2>5. Settled'
    <3>1. StageSettled(mode, stage, pipe, relay.aborted, i) /\ StageCause(mode, stage, upstream, i)
      BY <1>1, <1>3
    <3>2. StageSettled(mode, stage', pipe', relay.aborted, i)
      BY <1>1, <2>1, <2>3, <2>4, <3>1 DEF StageSettled
    <3>3. StageCause(mode, stage', upstream, i)
      BY <1>1, <1>2, <2>3, <2>4, <3>1 DEF StageCause
    <3> QED BY <1>1, <1>2, <1>4, <2>3, <2>4, <3>2, <3>3, SettledStep
  <2>6. Bill'
    <3>1. stage'[Top].pending = stage[Top].pending /\ (stage'[Top].state = "run" <=> stage[Top].state = "run")
      BY <1>1, <1>2, <2>3, <2>4
    <3>2. \A k \in 1 .. Top : k # Top => Within(pipe', stage', k) = Within(pipe, stage, k)
      BY <1>2, <2>3, <2>4 DEF Within
    <3> QED BY <1>1, <1>4, <3>1, <3>2, BillStays DEF StreamInv
  <2> QED BY <1>4, <1>5, <2>5, <2>6, <2>7 DEF StreamInv
<1> QED BY <1>6, <1>7


-----------------------------------------------------------------------------
(* The handler.                                                            *)

\* What the provider may give and what it then has sent.
LEMMA Gives ==
  ASSUME StreamShape, Rules(mode.kind, sent), NEW x \in Received, UpstreamGives(x)
  PROVE  /\ sent' \in Seq(Chunks[mode.kind]) /\ Rules(mode.kind, sent')
         /\ upstream' \in {"open", "eof", "failed", "cancelled"}
         /\ \/ /\ x \in Chunks[mode.kind] /\ sent' = Append(sent, x) /\ Allowed(x)
               /\ upstream = "open" /\ upstream' = upstream
            \/ /\ x = Eof /\ sent' = sent /\ upstream' = "eof" /\ upstream \in {"open", "eof"}
            \/ /\ x = Failed /\ sent' = sent /\ upstream' \in {"failed", "cancelled"}
               /\ upstream = "open" \/ upstream' = upstream
<1>1. mode.kind \in DOMAIN Chunks
  BY ModeIs
<1>2. CASE upstream = "open" /\ x \in Chunks[mode.kind] /\ Allowed(x) /\ sent' = Append(sent, x) /\ upstream' = upstream
  <2>1. /\ DOMAIN sent = 1 .. Len(sent) /\ Len(sent) \in Nat /\ DOMAIN sent' = 1 .. Len(sent) + 1
        /\ Len(sent') = Len(sent) + 1 /\ sent'[Len(sent) + 1] = x
        /\ \A i \in 1 .. Len(sent) : sent'[i] = sent[i]
    BY <1>2 DEF StreamShape
  <2>2. \A i \in DOMAIN sent : sent[i].type # "done"
    BY <1>2 DEF Allowed
  <2>3. mode.kind \in {"anthropic", "anthropic_chat"} /\ x.type = "message_start" => sent = << >>
    BY <1>2 DEF Allowed
  <2>4. sent = << >> => Len(sent) = 0
    OBVIOUS
  <2>5. mode.kind \in {"anthropic", "anthropic_chat"} =>
            \A i \in DOMAIN sent' : sent'[i].type = "message_start" => i = 1
    <3> SUFFICES ASSUME mode.kind \in {"anthropic", "anthropic_chat"}, NEW i \in DOMAIN sent',
                        sent'[i].type = "message_start"
                 PROVE  i = 1
      OBVIOUS
    <3>1. CASE i \in DOMAIN sent
      BY <2>1, <3>1 DEF Rules
    <3>2. CASE i = Len(sent) + 1
      BY <2>1, <2>3, <2>4, <3>2
    <3> QED BY <2>1, <3>1, <3>2
  <2>6. \A i \in DOMAIN sent' : i < Len(sent') => sent'[i].type # "done"
    BY <2>1, <2>2
  <2>7. Rules(mode.kind, sent')
    BY <2>5, <2>6 DEF Rules
  <2> QED BY <1>2, <2>7 DEF StreamShape
<1>3. CASE x = Eof /\ sent' = sent /\ upstream' = "eof" /\ upstream \in {"open", "eof"}
  BY <1>3 DEF StreamShape
<1>4. CASE x = Failed /\ sent' = sent /\ upstream' \in {"failed", "cancelled"}
           /\ (upstream = "open" \/ upstream' = upstream)
  BY <1>4 DEF StreamShape
<1>5. \/ upstream = "open" /\ x \in Chunks[mode.kind] /\ Allowed(x) /\ sent' = Append(sent, x) /\ upstream' = upstream
      \/ x = Eof /\ sent' = sent /\ upstream' = "eof" /\ upstream \in {"open", "eof"}
      \/ /\ x = Failed /\ sent' = sent /\ upstream' \in {"failed", "cancelled"}
         /\ upstream = "open" \/ upstream' = upstream
  BY DEF UpstreamGives
<1> QED BY <1>2, <1>3, <1>4, <1>5

\* A relay without stages counts each chunk that it reads.
LEMMA ChunkCounted ==
  ASSUME StreamInv, Top = 0, NEW x \in Chunks[mode.kind], Allowed(x), sent' = Append(sent, x),
         mode' = mode, onChunk(x)
  PROVE  Bill'
<1> DEFINE kind == mode.kind
<1>1. kind \in DOMAIN Chunks /\ kind \in Raw /\ sent \in Seq(Chunks[kind])
  BY ModeIs DEF StreamInv, StreamShape
<1>2. /\ \A type : Latest(sent', type) = IF x.type = type /\ x.usage > 0 THEN x.usage ELSE Latest(sent, type)
      /\ \A type : Latest(sent, type) \in Nat
  <2>1. \A y \in Chunks[kind] : y.usage \in Nat
    BY <1>1, ChunksAssumption
  <2> QED BY <1>1, <2>1, LatestIs
<1>3. /\ x.usage \in Nat /\ (kind = "raw" => x.type = "chunk" \/ x.usage = 0)
      /\ (kind = "responses" => x.type \in {"delta", "half", "rest", "completed"})
      /\ (x.type = "done" => x.usage = 0)
  BY <1>1, ChunksAssumption
<1>4. /\ captured.tokens = UsageFor(kind, sent) /\ ExtractUsage(captured.last) \in {0, captured.tokens}
      /\ kind = "responses" => (captured.partial <=> Cut(sent))
  BY DEF StreamInv, Bill
<1>5. Cut(sent') <=> x.type = "half"
  BY <1>1 DEF Cut
<1>6. \A type : (\A i \in DOMAIN sent : ~(sent[i].type = type /\ sent[i].usage > 0)) => Latest(sent, type) = 0
  BY DEF Latest
<1> DEFINE complete == kind = "responses" /\ (x.type = "completed" \/ (x.type = "rest" /\ captured.partial))
           last == IF complete THEN Completed(x) ELSE rememberLastStreamDataChunk(x)
<1>7. /\ captured'.tokens = IF complete THEN x.usage ELSE captured.tokens + Summed(x)
      /\ captured'.last = last
      /\ captured'.partial = (x.type = "half")
  BY DEF onChunk
<1> HIDE DEF complete, last
<1>8. CASE kind = "raw"
  <2>1. UsageFor(kind, sent) = Latest(sent, "chunk") /\ UsageFor(kind, sent') = Latest(sent', "chunk")
    BY <1>8 DEF UsageFor
  <2>2. ~complete /\ Summed(x) = x.usage
    BY <1>8 DEF complete, Summed, extractTokensFromStreamingChunk
  <2>3. x.type = "done" \/ Latest(sent, "chunk") = 0
    <3>1. x.type = "done" \/ \A i \in DOMAIN sent : sent[i].usage = 0
      BY <1>8 DEF Allowed
    <3> QED BY <1>6, <3>1
  <2>4. captured'.tokens = UsageFor(kind, sent')
    BY <1>2, <1>3, <1>4, <1>7, <1>8, <2>1, <2>2, <2>3
  <2>5. ExtractUsage(captured'.last) \in {0, captured'.tokens}
    <3>1. CASE x.type = "done"
      <4>1. captured'.last = captured.last /\ captured'.tokens = captured.tokens
        BY <1>2, <1>3, <1>4, <1>7, <2>1, <2>2, <2>4, <3>1 DEF last, rememberLastStreamDataChunk
      <4> QED BY <1>4, <4>1
    <3>2. CASE x.type # "done"
      <4>1. captured'.last = [type |-> x.type, usage |-> x.usage]
        BY <1>7, <2>2, <3>2 DEF last, rememberLastStreamDataChunk
      <4>2. captured'.tokens = x.usage
        BY <1>3, <1>4, <1>7, <2>1, <2>2, <2>3, <3>2
      <4> QED BY <1>3, <4>1, <4>2 DEF ExtractUsage, extractChatCompletionUsage, extractResponsesAPIUsage
    <3> QED BY <3>1, <3>2
  <2> QED BY <1>8, <2>4, <2>5 DEF Bill, Top
<1>9. CASE kind = "responses"
  <2>1. /\ UsageFor(kind, sent) = Latest(sent, "completed") + Latest(sent, "rest")
        /\ UsageFor(kind, sent') = Latest(sent', "completed") + Latest(sent', "rest")
    BY <1>9 DEF UsageFor
  <2>2. Summed(x) = 0
    BY <1>9 DEF Summed
  <2>3. (x.type = "rest" <=> Cut(sent)) /\ \A i \in DOMAIN sent : sent[i].type \notin {"completed", "rest"}
    BY <1>9 DEF Allowed
  <2>4. Latest(sent, "completed") = 0 /\ Latest(sent, "rest") = 0
    BY <1>6, <2>3
  <2>5. complete <=> x.type \in {"completed", "rest"}
    BY <1>4, <1>9, <2>3 DEF complete
  <2>6. captured'.tokens = UsageFor(kind, sent')
    <3>1. captured.tokens = 0
      BY <1>4, <2>1, <2>4
    <3> DEFINE m == Latest(sent', "completed")
               n == Latest(sent', "rest")
    <3>2. /\ m = IF x.type = "completed" THEN x.usage ELSE 0
          /\ n = IF x.type = "rest" THEN x.usage ELSE 0
      BY <1>2, <1>3, <2>4
    <3>3. captured'.tokens = IF x.type \in {"completed", "rest"} THEN x.usage ELSE 0
      BY <1>7, <2>2, <2>5, <3>1
    <3>4. UsageFor(kind, sent') = m + n
      BY <2>1
    <3> HIDE DEF m, n
    <3> QED BY <1>3, <3>2, <3>3, <3>4
  <2>7. ExtractUsage(captured'.last) \in {0, captured'.tokens}
    <3>1. CASE complete
      <4>1. captured'.last = [type |-> "completed", usage |-> x.usage] /\ captured'.tokens = x.usage
        BY <1>7, <3>1 DEF last, Completed
      <4> QED BY <4>1 DEF ExtractUsage, extractChatCompletionUsage, extractResponsesAPIUsage
    <3>2. CASE ~complete
      <4>1. x.type \in {"delta", "half"}
        BY <1>3, <1>9, <2>5, <3>2
      <4>2. captured'.last = [type |-> x.type, usage |-> x.usage]
        BY <1>7, <3>2, <4>1 DEF last, rememberLastStreamDataChunk
      <4>3. x.type \notin Chat!Terminals
        BY <4>1 DEF Chat!Terminals
      <4> QED BY <4>1, <4>2, <4>3 DEF ExtractUsage, extractChatCompletionUsage, extractResponsesAPIUsage
    <3> QED BY <3>1, <3>2
  <2>8. captured'.partial <=> Cut(sent')
    BY <1>5, <1>7, Zenon
  <2> QED BY <1>9, <2>6, <2>7, <2>8 DEF Bill, Top
<1> QED BY <1>1, <1>8, <1>9 DEF Raw

LEMMA RelaySettled ==
  ASSUME StreamInv, mode' = mode, stage' = stage, upstream' = upstream,
         relay.aborted => relay'.aborted,
         relay'.pc = "done" /\ Top > 0 => stage[Top].state = "ended",
         \A j \in 1 .. Top : /\ pipe'[j].wclosed = pipe[j].wclosed /\ pipe'[j].slot \in {pipe[j].slot, << >>}
                             /\ pipe'[j].rclosed => pipe[j].rclosed \/ (j = Top /\ relay'.aborted)
  PROVE  Settled'
<1>1. Top' = Top /\ Top = mode.stages
  BY DEF Top
<1>2. \A j \in 1 .. Top : /\ StageSettled(mode, stage, pipe, relay.aborted, j)
                          /\ StageCause(mode, stage, upstream, j)
  BY <1>1 DEF StreamInv, Settled
<1>3. \A j \in 1 .. Top : StageSettled(mode, stage, pipe', relay'.aborted, j)
  BY <1>1, <1>2 DEF StageSettled
<1> QED BY <1>1, <1>2, <1>3 DEF Settled

LEMMA RelayReadsKeeps ==
  ASSUME StreamInv, RelayReads
  PROVE  StreamInv'
<1>1. /\ Top = mode.stages /\ Top' = Top /\ Top \in 1 .. Top /\ mode.stages \in 1 .. 3
      /\ DOMAIN pipe = 1 .. Top /\ PipeIs(pipe[Top]) /\ DOMAIN relay = {"pc", "hold", "aborted"}
  BY ModeIs DEF Top, StreamInv, StreamShape, PipelineIs, RelayReads
<1>2. /\ mode' = mode /\ sent' = sent /\ upstream' = upstream /\ acc' = acc /\ entry' = entry
      /\ captured' = captured /\ stage' = stage /\ relay.pc = "read"
      /\ pipe' = pipe \/ pipe' = [pipe EXCEPT ![Top].slot = << >>]
  BY DEF RelayReads
<1>3. DOMAIN relay' = DOMAIN relay /\ relay'.aborted = relay.aborted /\ relay'.pc \in {"send", "wait"}
  BY <1>1 DEF RelayReads, Relay
<1>4. /\ DOMAIN pipe' = DOMAIN pipe /\ \A j \in 1 .. Top : j # Top => pipe'[j] = pipe[j]
      /\ pipe'[Top].wclosed = pipe[Top].wclosed /\ pipe'[Top].rclosed = pipe[Top].rclosed
      /\ pipe'[Top].slot \in {pipe[Top].slot, << >>} /\ PipeIs(pipe'[Top])
  BY <1>1, <1>2, Short DEF PipeIs
<1>5. StreamShape'
  BY <1>1, <1>2, <1>3, <1>4 DEF StreamInv, StreamShape, PipelineIs
<1>6. Settled'
  <2>1. \A j \in 1 .. Top : /\ pipe'[j].wclosed = pipe[j].wclosed /\ pipe'[j].slot \in {pipe[j].slot, << >>}
                            /\ pipe'[j].rclosed = pipe[j].rclosed
    BY <1>4
  <2> QED BY <1>2, <1>3, <2>1, RelaySettled
<1>7. Logged'
  BY <1>2, <1>3 DEF StreamInv, Logged
<1>8. Bill'
  <2>1. \A j \in 1 .. Top : j # Top => Within(pipe', stage', j) = Within(pipe, stage, j)
    BY <1>2, <1>4 DEF Within
  <2> QED BY <1>1, <1>2, <1>3, <2>1, BillStays DEF StreamInv
<1> QED BY <1>2, <1>5, <1>6, <1>7, <1>8 DEF StreamInv

\* A step that only the handler and the client see.
LEMMA HandlerKeeps ==
  ASSUME StreamInv, mode' = mode, sent' = sent, upstream' = upstream, acc' = acc, captured' = captured,
         stage' = stage, pipe' = pipe, DOMAIN relay' = DOMAIN relay, relay'.aborted = relay.aborted,
         relay'.pc = "drain" => relay.pc = "drain",
         relay'.pc = "done" /\ Top > 0 => stage[Top].state = "ended",
         entry' = IF relay'.pc = "done" THEN Entry ELSE NoEntry
  PROVE  StreamInv'
<1>1. StreamShape'
  BY DEF StreamInv, StreamShape
<1>2. Settled'
  BY RelaySettled
<1>3. Logged'
  BY DEF StreamInv, Logged, Entry
<1>4. Bill'
  BY DEF StreamInv, Bill, Top
<1> QED BY <1>1, <1>2, <1>3, <1>4 DEF StreamInv

LEMMA SendSucceedsKeeps ==
  ASSUME StreamInv, SendSucceeds
  PROVE  StreamInv'
<1>1. DOMAIN relay' = DOMAIN relay /\ relay'.aborted = relay.aborted /\ relay'.pc = "read"
  BY DEF SendSucceeds, Relay, StreamInv, StreamShape
<1> QED BY <1>1, HandlerKeeps DEF SendSucceeds, StreamInv, Logged

LEMMA FinalizeKeeps ==
  ASSUME StreamInv, finalizeStreamingLog
  PROVE  StreamInv'
<1>1. DOMAIN relay' = DOMAIN relay /\ relay'.aborted = relay.aborted /\ relay'.pc = "done"
  BY DEF finalizeStreamingLog, Relay, StreamInv, StreamShape
<1> QED BY <1>1, HandlerKeeps DEF finalizeStreamingLog

LEMMA ClientLeavesKeeps ==
  ASSUME StreamInv, ClientLeaves
  PROVE  StreamInv'
BY HandlerKeeps DEF ClientLeaves, pipeline, StreamInv, Logged, Settled


LEMMA ContextCancelledKeeps ==
  ASSUME StreamInv, ContextCancelled
  PROVE  StreamInv'
<1>1. Top = mode.stages /\ Top' = Top
  BY DEF Top, ContextCancelled
<1>2. /\ upstream = "open" /\ upstream' = "cancelled"
      /\ UNCHANGED <<mode, sent, acc, stage, pipe, relay, client, captured, saved, entry>>
  BY DEF ContextCancelled, pipeline
<1>3. StreamShape'
  BY <1>2 DEF StreamInv, StreamShape
<1>4. Settled'
  <2>1. ASSUME NEW j \in 1 .. Top
        PROVE  /\ StageSettled(mode, stage, pipe, relay.aborted, j)
               /\ StageCause(mode, stage, "cancelled", j)
    <3>1. StageSettled(mode, stage, pipe, relay.aborted, j) /\ StageCause(mode, stage, upstream, j)
      BY <2>1 DEF StreamInv, Settled
    <3> QED BY <1>2, <3>1 DEF StageCause
  <2> QED BY <1>1, <1>2, <2>1 DEF StreamInv, Settled
<1>5. Logged'
  BY <1>2 DEF StreamInv, Logged, Entry
<1>6. Bill'
  BY <1>1, <1>2 DEF StreamInv, Bill, Finished
<1> QED BY <1>2, <1>3, <1>4, <1>5, <1>6 DEF StreamInv

LEMMA SendFailsKeeps ==
  ASSUME StreamInv, SendFails
  PROVE  StreamInv'
<1>1. /\ Top = mode.stages /\ Top' = Top /\ mode.stages \in 0 .. 3
      /\ DOMAIN pipe = 1 .. Top /\ DOMAIN relay = {"pc", "hold", "aborted"}
      /\ \A j \in 1 .. Top : PipeIs(pipe[j])
  BY ModeIs DEF Top, StreamInv, StreamShape, PipelineIs, SendFails
<1>2. /\ mode' = mode /\ sent' = sent /\ upstream' = upstream /\ acc' = acc /\ entry' = entry
      /\ captured' = captured /\ stage' = stage /\ relay.pc = "send"
  BY DEF SendFails
<1>3. /\ DOMAIN relay' = DOMAIN relay /\ relay'.aborted = TRUE /\ relay'.pc \in {"drain", "wait"}
      /\ relay'.pc = "drain" => Top = 0
  <2> DEFINE r == Relay(IF Top = 0 /\ mode.drain THEN "drain" ELSE "wait", << >>)
  <2>1. DOMAIN r = DOMAIN relay /\ r.pc = IF Top = 0 /\ mode.drain THEN "drain" ELSE "wait"
    BY <1>1 DEF Relay
  <2>2. relay' = [r EXCEPT !.aborted = TRUE]
    BY Zenon DEF SendFails
  <2> HIDE DEF r
  <2> QED BY <1>1, <2>1, <2>2
<1>4. /\ DOMAIN pipe' = DOMAIN pipe
      /\ \A j \in 1 .. Top : /\ pipe'[j].wclosed = pipe[j].wclosed /\ pipe'[j].slot = pipe[j].slot
                             /\ pipe'[j].rclosed = IF j = Top THEN TRUE ELSE pipe[j].rclosed
                             /\ PipeIs(pipe'[j])
  <2>1. CASE Top = 0
    BY <1>1, <2>1 DEF SendFails
  <2>2. CASE Top # 0
    <3>1. pipe' = [pipe EXCEPT ![Top].rclosed = TRUE]
      BY <2>2 DEF SendFails
    <3>2. DOMAIN pipe' = DOMAIN pipe /\ \A j \in 1 .. Top : j # Top => pipe'[j] = pipe[j]
      BY <1>1, <3>1
    <3>3. Top \in 1 .. Top
      BY <1>1, <2>2
    <3> DEFINE q == pipe'[Top]
    <3>4. q = [pipe[Top] EXCEPT !.rclosed = TRUE]
      BY <1>1, <3>1, <3>3
    <3> HIDE DEF q
    <3>5. /\ q.wclosed = pipe[Top].wclosed /\ q.slot = pipe[Top].slot /\ q.rclosed = TRUE /\ PipeIs(q)
      BY <1>1, <3>3, <3>4 DEF PipeIs
    <3>6. ASSUME NEW j \in 1 .. Top
          PROVE  /\ pipe'[j].wclosed = pipe[j].wclosed /\ pipe'[j].slot = pipe[j].slot
                 /\ pipe'[j].rclosed = IF j = Top THEN TRUE ELSE pipe[j].rclosed
                 /\ PipeIs(pipe'[j])
      <4>1. CASE j = Top
        BY <3>5, <4>1 DEF q
      <4>2. CASE j # Top
        BY <1>1, <3>2, <4>2
      <4> QED BY <4>1, <4>2
    <3> QED BY <3>2, <3>6
  <2> QED BY <2>1, <2>2
<1>5. StreamShape'
  BY <1>1, <1>2, <1>3, <1>4 DEF StreamInv, StreamShape, PipelineIs
<1>6. Settled'
  BY <1>2, <1>3, <1>4, RelaySettled
<1>7. Logged'
  BY <1>2, <1>3 DEF StreamInv, Logged
<1>8. Bill'
  <2>1. CASE Top > 0 /\ stage[Top].state = "run"
    <3>1. PICK c \in Seq(Chunks[mode.kind]) :
              Running(mode, c, sent, pipe, stage, acc, captured, relay.aborted)
      BY <2>1 DEF StreamInv, Bill
    <3>2. Flow(mode, pipe', stage) = Flow(mode, pipe, stage)
      <4>1. \A j \in 1 .. mode.stages : j # mode.stages => Within(pipe', stage, j) = Within(pipe, stage, j)
        BY <1>1, <1>4 DEF Within
      <4> QED BY <1>1, <4>1, FlowSame
    <3>3. Running(mode, c, sent, pipe', stage, acc, captured, TRUE)
      BY <3>1, <3>2 DEF Running
    <3> QED BY <1>1, <1>2, <1>3, <2>1, <3>3 DEF Bill
  <2>2. CASE Top > 0 /\ stage[Top].state # "run"
    BY <1>1, <1>2, <1>3, <2>2 DEF Bill, Finished
  <2>3. CASE Top = 0
    BY <1>1, <1>2, <2>3 DEF StreamInv, Bill
  <2> QED BY <1>1, <2>1, <2>2, <2>3
<1> QED BY <1>2, <1>5, <1>6, <1>7, <1>8 DEF StreamInv

\* A read of the provider's body by a relay without stages.
LEMMA RelayTakes ==
  ASSUME StreamInv, Top = 0, NEW x \in Received, UpstreamGives(x), mode' = mode, acc' = acc,
         stage' = stage, pipe' = pipe, entry' = entry, relay.pc # "done", relay'.pc # "done",
         DOMAIN relay' = DOMAIN relay, relay'.aborted = relay.aborted,
         IF x.type \in {"eof", "failed"} THEN captured' = captured ELSE onChunk(x)
  PROVE  StreamInv'
<1>1. Top = mode.stages /\ Top' = Top /\ mode.kind \in DOMAIN Chunks
  BY ModeIs DEF Top, StreamInv
<1>2. /\ sent' \in Seq(Chunks[mode.kind]) /\ Rules(mode.kind, sent')
      /\ upstream' \in {"open", "eof", "failed", "cancelled"}
      /\ \/ x \in Chunks[mode.kind] /\ sent' = Append(sent, x) /\ Allowed(x)
         \/ x.type \in {"eof", "failed"} /\ sent' = sent
  BY Gives DEF StreamInv, Eof, Failed
<1>3. StreamShape'
  BY <1>1, <1>2 DEF StreamInv, StreamShape
<1>4. Settled'
  BY <1>1 DEF StreamInv, Settled
<1>5. Logged'
  BY DEF StreamInv, Logged
<1>6. Bill'
  <2>1. CASE x \in Chunks[mode.kind] /\ sent' = Append(sent, x) /\ Allowed(x)
    <3>1. x.type \notin {"eof", "failed"}
      BY <1>1, <2>1, ChunksAssumption
    <3> QED BY <2>1, <3>1, ChunkCounted
  <2>2. CASE x.type \in {"eof", "failed"} /\ sent' = sent
    BY <1>1, <2>2 DEF StreamInv, Bill
  <2> QED BY <1>2, <2>1, <2>2
<1> QED BY <1>2, <1>3, <1>4, <1>5, <1>6 DEF StreamInv

LEMMA RelayReadsBodyKeeps ==
  ASSUME StreamInv, RelayReadsBody
  PROVE  StreamInv'
<1>1. PICK x \in Received :
          /\ UpstreamGives(x)
          /\ IF x.type \in {"eof", "failed"}
             THEN relay' = Relay("wait", << >>) /\ UNCHANGED <<captured, saved>>
             ELSE relay' = Relay("send", << x >>) /\ onChunk(x)
  BY DEF RelayReadsBody
<1>2. DOMAIN relay = {"pc", "hold", "aborted"}
  BY DEF StreamInv, StreamShape
<1>3. DOMAIN relay' = DOMAIN relay /\ relay'.aborted = relay.aborted /\ relay'.pc # "done"
  BY <1>1, <1>2 DEF Relay
<1>4. IF x.type \in {"eof", "failed"} THEN captured' = captured ELSE onChunk(x)
  BY <1>1
<1> QED BY <1>1, <1>3, <1>4, RelayTakes DEF RelayReadsBody

LEMMA DrainKeeps ==
  ASSUME StreamInv, drainUpstream
  PROVE  StreamInv'
<1>1. /\ DOMAIN relay = {"pc", "hold", "aborted"} /\ relay.pc = "drain"
      /\ UNCHANGED <<mode, acc, stage, pipe, client, entry>>
  BY DEF StreamInv, StreamShape, drainUpstream
<1>2. ASSUME relay' = Relay("wait", << >>)
      PROVE  DOMAIN relay' = DOMAIN relay /\ relay'.aborted = relay.aborted /\ relay'.pc = "wait"
  BY <1>1, <1>2 DEF Relay
<1>3. Top = 0
  BY <1>1 DEF StreamInv, StreamShape, Top
<1>4. CASE \E x \in Received :
            /\ UpstreamGives(x)
            /\ IF x.type \in {"eof", "failed"}
               THEN relay' = Relay("wait", << >>) /\ UNCHANGED <<captured, saved>>
               ELSE onChunk(x) /\ UNCHANGED relay
  <2>1. PICK x \in Received :
            /\ UpstreamGives(x)
            /\ IF x.type \in {"eof", "failed"}
               THEN relay' = Relay("wait", << >>) /\ UNCHANGED <<captured, saved>>
               ELSE onChunk(x) /\ UNCHANGED relay
    BY <1>4
  <2>2. /\ DOMAIN relay' = DOMAIN relay /\ relay'.aborted = relay.aborted /\ relay'.pc # "done"
        /\ IF x.type \in {"eof", "failed"} THEN captured' = captured ELSE onChunk(x)
    BY <1>1, <1>2, <2>1
  <2> QED BY <1>1, <1>3, <2>1, <2>2, RelayTakes
<1>5. CASE relay' = Relay("wait", << >>) /\ UNCHANGED <<sent, upstream, captured, saved>>
  BY <1>1, <1>2, <1>5, HandlerKeeps DEF StreamInv, Logged
<1> QED BY <1>4, <1>5 DEF drainUpstream


-----------------------------------------------------------------------------
(* The goroutines read.                                                    *)

LEMMA EmptyParts ==
  ASSUME NEW S, NEW x \in S, NEW s \in Seq(S), NEW t \in Seq(S)
  PROVE  /\ << >> \in Seq(S) /\ << x >> \in Seq(S) /\ s \o t \in Seq(S) /\ Append(s, x) \in Seq(S)
         /\ << >> \o s = s /\ s \o << >> = s /\ s \o << x >> = Append(s, x)
         /\ s \o (<< x >> \o t) = Append(s, x) \o t
         /\ s \o Append(t, x) = Append(s \o t, x)
<1>1. << >> \in Seq(S) /\ << x >> \in Seq(S) /\ s \o t \in Seq(S) /\ Append(s, x) \in Seq(S)
  OBVIOUS
<1>2. << >> \o s = s /\ s \o << >> = s
  BY ConcatEmptySeq
<1>3. s \o << x >> = Append(s, x) /\ t \o << x >> = Append(t, x) /\ (s \o t) \o << x >> = Append(s \o t, x)
  BY <1>1, AppendIsConcat
<1>4. s \o (<< x >> \o t) = (s \o << x >>) \o t /\ s \o (t \o << x >>) = (s \o t) \o << x >>
  <2>1. ASSUME NEW u \in Seq(S)
        PROVE  s \o (u \o t) = (s \o u) \o t /\ s \o (t \o u) = (s \o t) \o u
    OBVIOUS
  <2> QED BY <1>1, <2>1
<1> QED BY <1>1, <1>2, <1>3, <1>4

LEMMA AppendsAfter ==
  ASSUME NEW S, NEW s \in Seq(S), NEW t \in Seq(S), NEW x \in S
  PROVE  s \o Append(t, x) = Append(s \o t, x)
BY EmptyParts

\* What StageTakes leaves of the rest of the invariant to show.
LEMMA TakeKeeps ==
  ASSUME StreamInv, NEW i \in 1 .. Top, stage[i].state = "run", NEW s, StageIs(s), s.state \in {"run", "over"},
         i # Top => s.pending \in Seq(Chunks[mode.kind]) /\ (s.state = "over" => s.pending = << >>),
         i # Top /\ s.state = "over" /\ stage[Top].state = "run" =>
             IF s.result = "eof"
             THEN upstream' = "eof" /\ (i > 1 => stage[i - 1].state = "ended" /\ stage[i - 1].result = "eof")
             ELSE upstream' \in {"failed", "cancelled"},
         stage' = [stage EXCEPT ![i] = s],
         pipe' = pipe \/ (i > 1 /\ pipe' = [pipe EXCEPT ![i - 1].slot = << >>]),
         sent' \in Seq(Chunks[mode.kind]),
         upstream' \in {"open", "eof", "failed", "cancelled"}, upstream' = upstream \/ upstream = "open",
         mode' = mode, relay' = relay, captured' = captured, entry' = entry
  PROVE  StreamShape' /\ Settled' /\ Logged'
<1>1. /\ Top = mode.stages /\ Top' = Top /\ mode.stages \in 1 .. 3
      /\ DOMAIN stage = 1 .. Top /\ DOMAIN pipe = 1 .. Top /\ (i > 1 => i - 1 \in 1 .. Top /\ i - 1 # Top)
  BY ModeIs DEF Top, StreamInv, StreamShape, PipelineIs
<1>2. \A j \in 1 .. Top : /\ StageIs(stage[j]) /\ PipeIs(pipe[j])
                          /\ StageSettled(mode, stage, pipe, relay.aborted, j)
                          /\ StageCause(mode, stage, upstream, j)
                          /\ j # Top => stage[j].pending \in Seq(Chunks[mode.kind])
                                        /\ pipe[j].slot \in Seq(Chunks[mode.kind])
  BY <1>1 DEF StreamInv, StreamShape, PipelineIs, Settled
<1>3. /\ DOMAIN stage' = 1 .. Top /\ stage'[i] = s
      /\ \A j \in 1 .. Top : j # i => stage'[j] = stage[j]
  BY <1>1
<1>4. /\ DOMAIN pipe' = 1 .. Top
      /\ \A j \in 1 .. Top : /\ pipe'[j].wclosed = pipe[j].wclosed /\ pipe'[j].rclosed = pipe[j].rclosed
                             /\ pipe'[j].slot \in {pipe[j].slot, << >>}
                             /\ PipeIs(pipe'[j])
                             /\ j # Top => pipe'[j].slot \in Seq(Chunks[mode.kind])
  <2>1. CASE pipe' = pipe
    BY <1>1, <1>2, <2>1
  <2>2. CASE i > 1 /\ pipe' = [pipe EXCEPT ![i - 1].slot = << >>]
    <3> DEFINE q == [pipe[i - 1] EXCEPT !.slot = << >>]
    <3>1. DOMAIN pipe' = DOMAIN pipe /\ pipe'[i - 1] = q /\ \A j \in 1 .. Top : j # i - 1 => pipe'[j] = pipe[j]
      BY <1>1, <2>2
    <3>2. PipeIs(pipe[i - 1])
      BY <1>1, <1>2, <2>2
    <3>3. /\ q.slot = << >> /\ q.wclosed = pipe[i - 1].wclosed /\ q.rclosed = pipe[i - 1].rclosed /\ PipeIs(q)
      BY <3>2, Short DEF PipeIs
    <3>4. << >> \in Seq(Chunks[mode.kind])
      BY EmptySeq
    <3> HIDE DEF q
    <3>5. ASSUME NEW j \in 1 .. Top
          PROVE  /\ pipe'[j].wclosed = pipe[j].wclosed /\ pipe'[j].rclosed = pipe[j].rclosed
                 /\ pipe'[j].slot \in {pipe[j].slot, << >>}
                 /\ PipeIs(pipe'[j])
                 /\ j # Top => pipe'[j].slot \in Seq(Chunks[mode.kind])
      <4>1. CASE j = i - 1
        BY <3>1, <3>3, <3>4, <4>1
      <4>2. CASE j # i - 1
        BY <1>2, <3>1, <4>2
      <4> QED BY <4>1, <4>2
    <3> QED BY <1>1, <3>1, <3>5
  <2> QED BY <2>1, <2>2
<1>5. StreamShape'
  <2>1. PipelineIs(mode, stage', pipe')
    BY <1>1, <1>2, <1>3, <1>4 DEF PipelineIs
  <2> QED BY <2>1 DEF StreamInv, StreamShape
<1>6. i # Top \/ relay.pc # "done"
  BY <1>1 DEF StreamInv, Settled
<1>7. ASSUME NEW j \in 1 .. Top
      PROVE  StageSettled(mode, stage', pipe', relay.aborted, j)
  <2>1. StageSettled(mode, stage, pipe, relay.aborted, j)
    BY <1>2
  <2>2. CASE j = i
    BY <1>1, <1>3, <1>4, <2>1, <2>2 DEF StageSettled
  <2>3. CASE j # i
    BY <1>1, <1>3, <1>4, <2>1, <2>3 DEF StageSettled
  <2> QED BY <2>2, <2>3
<1>8. ASSUME NEW j \in 1 .. Top
      PROVE  StageCause(mode, stage', upstream', j)
  <2>1. StageCause(mode, stage, upstream, j) /\ (j > 1 => j - 1 \in 1 .. Top) /\ (i > 1 => i - 1 \in 1 .. Top)
    BY <1>1, <1>2
  <2>2. CASE j = i
    <3>1. i > 1 => stage'[i - 1] = stage[i - 1]
      BY <1>1, <1>3
    <3> QED BY <1>1, <1>3, <2>1, <2>2, <3>1 DEF StageCause
  <2>3. CASE j # i
    <3>1. stage'[j] = stage[j] /\ (stage'[Top].state = "run" => stage[Top].state = "run")
      BY <1>1, <1>3, <2>3
    <3>2. j > 1 => stage'[j - 1] = stage[j - 1] \/ stage[j - 1].state = "run"
      BY <1>3, <2>1
    <3> QED BY <1>1, <2>1, <3>1, <3>2 DEF StageCause
  <2> QED BY <2>2, <2>3
<1>9. Settled'
  <2>1. \A j \in 1 .. Top : StageSettled(mode', stage', pipe', relay'.aborted, j)
                           /\ StageCause(mode', stage', upstream', j)
    BY <1>7, <1>8
  <2>2. relay'.pc = "done" => stage'[Top].state = "ended"
    BY <1>1, <1>3, <1>6 DEF StreamInv, Settled
  <2> QED BY <1>1, <2>1, <2>2 DEF Settled
<1>10. Logged'
  BY DEF StreamInv, Logged, Entry
<1> QED BY <1>5, <1>9, <1>10


\* The converter reads: the next chunk, or how the stream ended.
LEMMA ConverterReads ==
  ASSUME StreamInv, Top > 0, stage[Top].state = "run", stage[Top].pending = << >>,
         NEW c \in Seq(Chunks[mode.kind]),
         Running(mode, c, sent, pipe, stage, acc, captured, relay.aborted),
         NEW x, StageTakes(Top, x), Rules(mode.kind, sent'), sent' \in Seq(Chunks[mode.kind]),
         \/ x \in Chunks[mode.kind] /\ sent' = Append(c, x) \o Flow(mode, pipe', stage')
                /\ Flow(mode, pipe', stage') \in Seq(Chunks[mode.kind])
         \/ x.type = "eof" /\ upstream' = "eof" /\ sent' = c
         \/ x.type = "failed" /\ upstream' \in {"failed", "cancelled"},
         mode' = mode, relay' = relay, captured' = captured
  PROVE  /\ Bill'
         /\ \E s : /\ stage' = [stage EXCEPT ![Top] = s]
                   /\ StageIs(s) /\ s.state \in {"run", "over"}
<1> DEFINE kind == mode.kind
           b == Converted(kind, acc, x)
           ends == EndsLoop(kind, x)
           s == Stage(b.out, IF ends THEN "over" ELSE "run", IF x.type = "failed" THEN "failed" ELSE "eof")
           flow == Flow(mode, pipe', stage')
           d == Append(c, x)
<1>1. kind \in DOMAIN Chunks /\ kind \in ToResponses \cup ToChat /\ Top' = Top /\ Top = mode.stages
  BY ModeIs DEF Top, StreamInv
<1>2. DOMAIN stage = 1 .. Top /\ Top \in 1 .. Top
  BY ModeIs DEF Top, StreamInv, StreamShape, PipelineIs
<1>3. stage' = [stage EXCEPT ![Top] = s] /\ acc' = Rested(b)
  BY DEF StageTakes, Rested
<1>4. stage'[Top] = s
  BY <1>2, <1>3
<1>5. /\ s.pending = b.out /\ s.state = IF ends THEN "over" ELSE "run"
      /\ s.result \in {"eof", "failed"} /\ DOMAIN s = {"pending", "state", "result"}
  BY DEF Stage
<1>6. Fed(kind, c, acc) /\ (~relay.aborted => Billed(<< >>, captured, Told(kind, c)))
  BY <1>1 DEF Running
<1>7. relay.aborted \in BOOLEAN
  BY DEF StreamInv, StreamShape
<1> HIDE DEF s, b, flow
<1>8. CASE x \in Chunks[kind] /\ sent' = d \o flow /\ flow \in Seq(Chunks[kind])
  <2>1. x.type \notin {"eof", "failed"}
    BY <1>1, <1>8, ChunksAssumption
  <2>2. /\ Len(d) = Len(c) + 1 /\ Len(c) \in Nat /\ d[Len(c) + 1] = x /\ d \in Seq(Chunks[kind])
    BY <1>8
  <2>3. /\ Len(sent') = Len(d) + Len(flow) /\ Len(flow) \in Nat
        /\ DOMAIN sent' = 1 .. Len(d) + Len(flow) /\ sent'[Len(c) + 1] = x /\ Len(c) + 1 \in DOMAIN sent'
    <3> HIDE DEF d
    <3> QED BY <1>8, <2>2
  <2>4. CASE ~ends
    <3>1. kind \in {"anthropic", "anthropic_chat"} /\ x.type = "message_start" => c = << >>
      <4>1. kind \in {"anthropic", "anthropic_chat"} /\ x.type = "message_start" => Len(c) + 1 = 1
        BY <2>3 DEF Rules
      <4> QED BY <2>2, <4>1
    <3>2. /\ Fed(kind, d, Rested(b))
          /\ \E w \in Nat : Names(b.out, w) /\ Told(kind, d) = IF w > 0 THEN w ELSE Told(kind, c)
      BY <1>1, <1>6, <1>8, <2>4, <3>1, FedStep DEF b
    <3>3. PICK w \in Nat : Names(b.out, w) /\ Told(kind, d) = IF w > 0 THEN w ELSE Told(kind, c)
      BY <3>2
    <3>4. ~relay.aborted => Billed(b.out, captured, Told(kind, d))
      <4>1. Told(kind, c) \in Nat
        BY <1>1, UsageNatural
      <4> HIDE DEF d
      <4> QED BY <1>6, <3>3, <4>1, BilledStep
    <3>5. Running(mode, d, sent', pipe', stage', acc', captured', relay'.aborted)
      <4> HIDE DEF d
      <4> QED BY <1>1, <1>3, <1>4, <1>5, <1>8, <3>2, <3>4 DEF Running, flow
    <3>6. IsSeq(b.out)
      BY <3>3 DEF Names
    <3>7. StageIs(s) /\ s.state = "run"
      BY <1>5, <2>4, <3>6 DEF StageIs
    <3>8. Bill'
      <4> HIDE DEF d
      <4> QED BY <1>1, <1>4, <2>2, <3>5, <3>7 DEF Bill
    <3> QED BY <1>3, <3>7, <3>8
  <2>5. CASE ends
    <3>1. kind = "chat" /\ x.type = "done"
      BY <2>1, <2>5 DEF EndsLoop
    <3>2. IsSeq(b.out)
      BY <1>1, <1>6, <3>1, EndIs DEF Fed, Names, b
    <3>3. StageIs(s) /\ s.state = "over"
      BY <1>5, <2>5, <3>2 DEF StageIs
    <3>4. ~relay.aborted => Billed(b.out, captured, UsageFor(kind, c))
      BY <1>1, <1>6, <3>1, EndStep DEF b
    <3>5. sent' = d
      <4>1. Len(flow) = 0
        BY <2>2, <2>3, <3>1 DEF Rules
      <4>2. flow = << >>
        BY <1>8, <4>1
      <4> HIDE DEF d
      <4> QED BY <1>8, <2>2, <4>2, ConcatEmptySeq
    <3>6. UsageFor(kind, d) = UsageFor(kind, c)
      <4>1. Latest(d, "chunk") = Latest(c, "chunk")
        <5>1. \A y \in Chunks[kind] : y.usage \in Nat
          BY <1>1, ChunksAssumption
        <5>2. Latest(d, "chunk") = IF x.type = "chunk" /\ x.usage > 0 THEN x.usage ELSE Latest(c, "chunk")
          BY <1>8, <5>1, LatestIs
        <5> QED BY <3>1, <5>2
      <4> QED BY <3>1, <4>1 DEF UsageFor
    <3>7. \E k \in DOMAIN sent' : sent'[k].type = "done"
      BY <2>3, <3>1
    <3>8. Finished(mode, sent', stage', upstream', captured', relay'.aborted)
      <4> HIDE DEF d
      <4> QED BY <1>1, <1>4, <1>5, <3>4, <3>5, <3>6, <3>7 DEF Finished
    <3>9. Bill'
      BY <1>1, <1>4, <3>3, <3>8 DEF Bill
    <3> QED BY <1>3, <3>3, <3>9
  <2> QED BY <2>4, <2>5
<1>9. CASE x.type = "eof" /\ upstream' = "eof" /\ sent' = c
  <2>1. ends
    BY <1>9 DEF EndsLoop
  <2>2. IsSeq(b.out)
    BY <1>1, <1>6, <1>9, EndIs DEF Fed, Names, b
  <2>3. StageIs(s) /\ s.state = "over"
    BY <1>5, <2>1, <2>2 DEF StageIs
  <2>4. ~relay.aborted => Billed(b.out, captured, UsageFor(kind, c))
    BY <1>1, <1>6, <1>9, EndStep DEF b
  <2>5. Finished(mode, sent', stage', upstream', captured', relay'.aborted)
    BY <1>1, <1>4, <1>5, <1>9, <2>4 DEF Finished
  <2>6. Bill'
    BY <1>1, <1>4, <2>3, <2>5 DEF Bill
  <2> QED BY <1>3, <2>3, <2>6
<1>10. CASE x.type = "failed" /\ upstream' \in {"failed", "cancelled"}
  <2>1. ends
    BY <1>10 DEF EndsLoop
  <2>2. IsSeq(b.out)
    <3>1. acc.out = << >> /\ "out" \in DOMAIN acc
      BY <1>6 DEF Fed, ConverterIs
    <3>2. b = AtFailure(kind, acc)
      BY <1>10 DEF b, Converted
    <3>3. CASE kind = "vertex_chat"
      <4>1. b = Provider!EndOfChat(acc)
        BY <3>2, <3>3 DEF AtFailure
      <4>2. Names(b.out, 0)
        BY <3>1, <4>1, FirstWrite, ChunkEvents, SilentNames DEF Provider!EndOfChat
      <4> QED BY <4>2 DEF Names
    <3>4. CASE kind # "vertex_chat"
      BY <3>1, <3>2, <3>4, Short DEF AtFailure
    <3> QED BY <3>3, <3>4
  <2>3. StageIs(s) /\ s.state = "over"
    BY <1>5, <2>1, <2>2 DEF StageIs
  <2>4. Bill'
    BY <1>1, <1>4, <1>10, <2>3 DEF Bill, Finished
  <2> QED BY <1>3, <2>3, <2>4
<1> QED BY <1>8, <1>9, <1>10 DEF flow


\* A goroutine before the last one reads: what it takes stays on the way.
LEMMA PassedOn ==
  ASSUME StreamInv, NEW i \in 1 .. Top, i # Top, NEW x,
         stage'[Top] = stage[Top], mode' = mode, relay' = relay, captured' = captured, acc' = acc,
         upstream' = upstream \/ upstream = "open",
         \/ sent' = sent /\ Flow(mode, pipe', stage') = Flow(mode, pipe, stage)
         \/ /\ x \in Chunks[mode.kind] /\ sent' = Append(sent, x)
            /\ upstream = "open" /\ upstream' = upstream /\ \A k \in DOMAIN sent : sent[k].type # "done"
            /\ Flow(mode, pipe', stage') = Append(Flow(mode, pipe, stage), x)
            /\ Flow(mode, pipe, stage) \in Seq(Chunks[mode.kind])
  PROVE  Bill'
<1>1. Top' = Top /\ Top = mode.stages /\ Top > 0
  BY ModeIs DEF Top, StreamInv
<1>2. CASE stage[Top].state = "run"
  <2>1. PICK c \in Seq(Chunks[mode.kind]) :
            Running(mode, c, sent, pipe, stage, acc, captured, relay.aborted)
    BY <1>1, <1>2 DEF StreamInv, Bill
  <2>2. sent' = c \o Flow(mode, pipe', stage')
    <3> DEFINE f == Flow(mode, pipe, stage)
    <3>1. sent = c \o f
      BY <2>1 DEF Running
    <3>2. CASE x \in Chunks[mode.kind] /\ f \in Seq(Chunks[mode.kind]) /\ sent' = Append(sent, x)
               /\ Flow(mode, pipe', stage') = Append(f, x)
      <4> HIDE DEF f
      <4>1. sent' = Append(c \o f, x)
        BY <3>1, <3>2
      <4>2. x \in Chunks[mode.kind] /\ f \in Seq(Chunks[mode.kind])
        BY <3>2
      <4>4. c \o Append(f, x) = Append(c \o f, x)
        BY <4>2, AppendsAfter
      <4>3. Flow(mode, pipe', stage') = Append(f, x)
        BY <3>2
      <4> QED BY <4>1, <4>3, <4>4
    <3>3. CASE sent' = sent /\ Flow(mode, pipe', stage') = f
      BY <3>1, <3>3
    <3> QED BY <3>2, <3>3
  <2>3. Running(mode, c, sent', pipe', stage', acc, captured, relay.aborted)
    BY <1>1, <2>1, <2>2 DEF Running
  <2> QED BY <1>1, <1>2, <2>3 DEF Bill
<1>3. CASE stage[Top].state # "run"
  <2>1. Finished(mode, sent, stage, upstream, captured, relay.aborted)
    BY <1>1, <1>3 DEF StreamInv, Bill
  <2>2. CASE sent' = sent
    BY <1>1, <1>3, <2>1, <2>2 DEF Bill, Finished
  <2>3. CASE upstream = "open" /\ \A k \in DOMAIN sent : sent[k].type # "done"
    BY <1>1, <1>3, <2>1, <2>3 DEF Bill, Finished
  <2> QED BY <2>2, <2>3
<1> QED BY <1>2, <1>3

\* Before the last stage, x goes on or ends the stage.
HandedOn(x, s) ==
  /\ StageIs(s)
  /\ s.pending = (IF x.type \in {"eof", "failed"} THEN << >> ELSE << x >>)
  /\ s.state = (IF x.type \in {"eof", "failed"} THEN "over" ELSE "run")
  /\ s.result = (IF x.type = "failed" THEN "failed" ELSE "eof")

LEMMA HandsOn ==
  ASSUME NEW i, i # Top, NEW x, StageTakes(i, x)
  PROVE  /\ acc' = acc
         /\ \E s : stage' = [stage EXCEPT ![i] = s] /\ HandedOn(x, s)
<1> DEFINE ends == x.type \in {"eof", "failed"}
           output == IF ends THEN << >> ELSE << x >>
           state == IF ends THEN "over" ELSE "run"
           result == IF x.type = "failed" THEN "failed" ELSE "eof"
           s == Stage(output, state, result)
<1>1. acc' = acc /\ stage' = [stage EXCEPT ![i] = s]
  BY DEF StageTakes
<1>2. IsSeq(output)
  BY Short
<1>3. state \in {"run", "over"} /\ result \in {"eof", "failed"}
  OBVIOUS
<1> HIDE DEF output, state, result
<1>4. s.pending = output /\ s.state = state /\ s.result = result /\ DOMAIN s = {"pending", "state", "result"}
  BY DEF Stage
<1> HIDE DEF s
<1>5. StageIs(s)
  BY <1>2, <1>3, <1>4 DEF StageIs
<1>6. HandedOn(x, s)
  BY <1>4, <1>5, Zenon DEF HandedOn, output, state, result
<1> QED BY <1>1, <1>6

\* The flow by the number of stages.
LEMMA FlowOf ==
  ASSUME NEW pp, NEW st
  PROVE  /\ Top = 1 => Flow(mode, pp, st) = << >>
         /\ Top = 2 => Flow(mode, pp, st) = pp[1].slot \o st[1].pending
         /\ Top = 3 => Flow(mode, pp, st) = (pp[2].slot \o st[2].pending) \o (pp[1].slot \o st[1].pending)
<1>1. CASE Top = 1
  <2>1. mode.stages = 1 /\ mode.stages # 2 /\ mode.stages # 3
    BY <1>1 DEF Top
  <2>2. Flow(mode, pp, st) = << >>
    BY <2>1, Zenon DEF Flow
  <2> QED BY <1>1, <2>2
<1>2. CASE Top = 2
  <2>1. mode.stages = 2 /\ mode.stages # 1 /\ mode.stages # 3
    BY <1>2 DEF Top
  <2>2. Flow(mode, pp, st) = pp[1].slot \o st[1].pending
    BY <2>1, Zenon DEF Flow, Within
  <2> QED BY <1>2, <2>2
<1>3. CASE Top = 3
  <2>1. mode.stages = 3 /\ mode.stages # 1 /\ mode.stages # 2
    BY <1>3 DEF Top
  <2>2. Flow(mode, pp, st) = (pp[2].slot \o st[2].pending) \o (pp[1].slot \o st[1].pending)
    BY <2>1, Zenon DEF Flow, Within
  <2> QED BY <1>3, <2>2
<1> QED BY <1>1, <1>2, <1>3

\* What the first of several stages takes comes last in the flow.
LEMMA FlowGrows ==
  ASSUME StreamShape, Top \in 2 .. 3, NEW s, NEW x,
         stage[1].pending = << >>, pipe[1].slot = << >>,
         pipe' = pipe, stage' = [stage EXCEPT ![1] = s], mode' = mode
  PROVE  /\ s.pending = << >> => Flow(mode, pipe', stage') = Flow(mode, pipe, stage)
         /\ x \in Chunks[mode.kind] /\ s.pending = << x >> =>
                /\ Flow(mode, pipe', stage') = Append(Flow(mode, pipe, stage), x)
                /\ Flow(mode, pipe, stage) \in Seq(Chunks[mode.kind])
<1>1. Top = mode.stages /\ DOMAIN stage = 1 .. Top
  BY DEF Top, StreamShape, PipelineIs
<1>2. stage'[1] = s /\ (Top = 3 => stage'[2] = stage[2])
  BY <1>1
<1>3. CASE Top = 2
  <2>1. Flow(mode, pipe, stage) = << >> \o << >> /\ Flow(mode, pipe', stage') = << >> \o s.pending
    <3>1. Flow(mode, pipe, stage) = pipe[1].slot \o stage[1].pending
      BY <1>3, FlowOf
    <3>2. Flow(mode, pipe', stage') = pipe'[1].slot \o stage'[1].pending
      BY <1>3, FlowOf
    <3> QED BY <1>2, <3>1, <3>2
  <2>2. ASSUME x \in Chunks[mode.kind], s.pending = << x >>
        PROVE  /\ Flow(mode, pipe', stage') = Append(Flow(mode, pipe, stage), x)
               /\ Flow(mode, pipe, stage) \in Seq(Chunks[mode.kind])
    <3> DEFINE e == << >>
    <3>1. e \in Seq(Chunks[mode.kind])
      BY <2>2, EmptyParts
    <3> HIDE DEF e
    <3>2. e \o << x >> = Append(e, x) /\ e \o e = e
      BY <2>2, <3>1, EmptyParts DEF e
    <3> QED BY <2>1, <2>2, <3>1, <3>2, Zenon DEF e
  <2> QED BY <2>1, <2>2
<1>4. CASE Top = 3
  <2> DEFINE w == pipe[2].slot \o stage[2].pending
  <2>1. /\ Flow(mode, pipe, stage) = w \o (<< >> \o << >>)
        /\ Flow(mode, pipe', stage') = w \o (<< >> \o s.pending)
    <3>1. Flow(mode, pipe, stage) = (pipe[2].slot \o stage[2].pending) \o (pipe[1].slot \o stage[1].pending)
      BY <1>4, FlowOf
    <3>2. Flow(mode, pipe', stage') = (pipe'[2].slot \o stage'[2].pending) \o (pipe'[1].slot \o stage'[1].pending)
      BY <1>4, FlowOf
    <3> QED BY <1>2, <1>4, <3>1, <3>2
  <2>2. ASSUME x \in Chunks[mode.kind], s.pending = << x >>
        PROVE  /\ Flow(mode, pipe', stage') = Append(Flow(mode, pipe, stage), x)
               /\ Flow(mode, pipe, stage) \in Seq(Chunks[mode.kind])
    <3> DEFINE e == << >>
    <3>1. pipe[2].slot \in Seq(Chunks[mode.kind]) /\ stage[2].pending \in Seq(Chunks[mode.kind])
      BY <1>1, <1>4 DEF StreamShape, PipelineIs
    <3>2. w \in Seq(Chunks[mode.kind]) /\ e \in Seq(Chunks[mode.kind])
      BY <2>2, <3>1, EmptyParts
    <3> HIDE DEF e, w
    <3>3. e \o << x >> = << x >> /\ e \o e = e /\ w \o e = w /\ w \o << x >> = Append(w, x)
      BY <2>2, <3>2, EmptyParts DEF e
    <3> QED BY <2>1, <2>2, <3>2, <3>3, Zenon DEF e
  <2> QED BY <2>1, <2>2
<1>5. Top = 2 \/ Top = 3
  OBVIOUS
<1> QED BY <1>3, <1>4, <1>5, Zenon

LEMMA ReadBodyKeeps ==
  ASSUME StreamInv, ReadBody
  PROVE  StreamInv'
<1>1. /\ Top = mode.stages /\ Top' = Top /\ mode.stages \in 1 .. 3 /\ 1 \in 1 .. Top
      /\ mode.kind \in DOMAIN Chunks /\ DOMAIN stage = 1 .. Top
  BY ModeIs DEF Top, StreamInv, StreamShape, PipelineIs, ReadBody
<1>2. /\ stage[1].state = "run" /\ stage[1].pending = << >> /\ pipe[1].slot = << >>
      /\ UNCHANGED <<mode, pipe, relay, client, captured, saved, entry>>
  BY DEF ReadBody, Idle
<1>3. PICK x \in Received : UpstreamGives(x) /\ StageTakes(1, x)
  BY DEF ReadBody
<1>4. /\ sent' \in Seq(Chunks[mode.kind]) /\ Rules(mode.kind, sent')
      /\ upstream' \in {"open", "eof", "failed", "cancelled"}
      /\ \/ /\ x \in Chunks[mode.kind] /\ sent' = Append(sent, x) /\ Allowed(x)
            /\ upstream = "open" /\ upstream' = upstream
         \/ /\ x = Eof /\ sent' = sent /\ upstream' = "eof" /\ upstream \in {"open", "eof"}
         \/ /\ x = Failed /\ sent' = sent /\ upstream' \in {"failed", "cancelled"}
            /\ upstream = "open" \/ upstream' = upstream
  BY <1>3, Gives DEF StreamInv
<1>5. upstream' = upstream \/ upstream = "open"
  BY <1>4
<1>6. CASE Top = 1
  <2>1. PICK c \in Seq(Chunks[mode.kind]) :
            Running(mode, c, sent, pipe, stage, acc, captured, relay.aborted)
    BY <1>1, <1>2, <1>6 DEF StreamInv, Bill
  <2>2. \A p, t : Flow(mode, p, t) = << >>
    BY <1>1, <1>6 DEF Flow
  <2>3. sent = c
    BY <2>1, <2>2, ConcatEmptySeq DEF Running
  <2>4. \/ x \in Chunks[mode.kind] /\ sent' = Append(c, x) \o Flow(mode, pipe', stage')
               /\ Flow(mode, pipe', stage') \in Seq(Chunks[mode.kind])
        \/ x.type = "eof" /\ upstream' = "eof" /\ sent' = c
        \/ x.type = "failed" /\ upstream' \in {"failed", "cancelled"}
    <3>1. CASE x \in Chunks[mode.kind] /\ sent' = Append(sent, x)
      <4>1. Append(c, x) \o << >> = Append(c, x)
        BY <3>1, EmptyParts
      <4>2. << >> \in Seq(Chunks[mode.kind])
        BY EmptySeq
      <4> QED BY <2>2, <2>3, <3>1, <4>1, <4>2, Zenon
    <3>2. CASE x = Eof /\ sent' = sent /\ upstream' = "eof"
      BY <2>3, <3>2 DEF Eof
    <3>3. CASE x = Failed /\ upstream' \in {"failed", "cancelled"}
      BY <3>3 DEF Failed
    <3> QED BY <1>4, <3>1, <3>2, <3>3
  <2>5. /\ Bill'
        /\ \E s : /\ stage' = [stage EXCEPT ![Top] = s]
                  /\ StageIs(s) /\ s.state \in {"run", "over"}
    <3>1. /\ Top > 0 /\ stage[Top].state = "run" /\ stage[Top].pending = << >> /\ StageTakes(Top, x)
          /\ mode' = mode /\ relay' = relay /\ captured' = captured
      BY <1>1, <1>2, <1>3, <1>6
    <3> QED BY <1>4, <2>1, <2>4, <3>1, ConverterReads
  <2>6. PICK s : stage' = [stage EXCEPT ![Top] = s] /\ StageIs(s) /\ s.state \in {"run", "over"}
    BY <2>5
  <2>7. StreamShape' /\ Settled' /\ Logged'
    BY <1>1, <1>2, <1>4, <1>5, <1>6, <2>6, TakeKeeps
  <2> QED BY <1>2, <1>4, <2>5, <2>7 DEF StreamInv
<1>7. CASE Top # 1
  <2>20. PICK s : stage' = [stage EXCEPT ![1] = s] /\ HandedOn(x, s)
    BY <1>3, <1>7, HandsOn
  <2>1. /\ stage' = [stage EXCEPT ![1] = s]
        /\ StageIs(s)
        /\ s.pending = (IF x.type \in {"eof", "failed"} THEN << >> ELSE << x >>)
        /\ s.state = (IF x.type \in {"eof", "failed"} THEN "over" ELSE "run")
        /\ s.result = (IF x.type = "failed" THEN "failed" ELSE "eof")
    BY <2>20 DEF HandedOn
  <2>2. acc' = acc
    BY <1>3, <1>7, HandsOn
  <2>3. \/ x \in Chunks[mode.kind] /\ x.type \notin {"eof", "failed"}
        \/ x.type = "eof" /\ upstream' = "eof"
        \/ x.type = "failed" /\ upstream' \in {"failed", "cancelled"}
    BY <1>1, <1>4, ChunksAssumption DEF Eof, Failed
  <2>4. s.pending \in Seq(Chunks[mode.kind]) /\ (s.state = "over" => s.pending = << >>)
    <3>1. << >> \in Seq(Chunks[mode.kind])
      BY EmptySeq
    <3>2. ASSUME x \in Chunks[mode.kind]
          PROVE  << x >> \in Seq(Chunks[mode.kind])
      BY <3>1, <3>2, EmptyParts
    <3> QED BY <2>1, <2>3, <3>1, <3>2
  <2>5. s.state = "over" => IF s.result = "eof" THEN upstream' = "eof" ELSE upstream' \in {"failed", "cancelled"}
    BY <2>1, <2>3
  <2>6. StreamShape' /\ Settled' /\ Logged'
    <3>1. s.state \in {"run", "over"} /\ ~(1 > 1)
      BY <2>1
    <3> QED BY <1>1, <1>2, <1>4, <1>5, <1>7, <2>1, <2>4, <2>5, <3>1, TakeKeeps
  <2>7. stage'[Top] = stage[Top] /\ Top \in 2 .. 3
    BY <1>1, <1>7, <2>1
  <2>8. ASSUME x \in Chunks[mode.kind] /\ sent' = Append(sent, x) /\ Allowed(x)
                  /\ upstream = "open" /\ upstream' = upstream
        PROVE  Bill'
    <3>1. s.pending = << x >>
      BY <1>1, <2>1, <2>8, ChunksAssumption
    <3>2. /\ Flow(mode, pipe', stage') = Append(Flow(mode, pipe, stage), x)
          /\ Flow(mode, pipe, stage) \in Seq(Chunks[mode.kind])
      BY <1>2, <2>1, <2>7, <2>8, <3>1, FlowGrows DEF StreamInv
    <3>3. \A k \in DOMAIN sent : sent[k].type # "done"
      BY <2>8 DEF Allowed
    <3> QED BY <1>1, <1>2, <1>7, <2>2, <2>7, <2>8, <3>2, <3>3, PassedOn
  <2>9. ASSUME x \in {Eof, Failed} /\ sent' = sent
        PROVE  Bill'
    <3>1. s.pending = << >>
      BY <2>1, <2>9 DEF Eof, Failed
    <3>2. Flow(mode, pipe', stage') = Flow(mode, pipe, stage)
      BY <1>2, <2>1, <2>7, <3>1, FlowGrows DEF StreamInv
    <3> QED BY <1>1, <1>2, <1>5, <1>7, <2>2, <2>7, <2>9, <3>2, PassedOn
  <2>10. Bill'
    BY <1>4, <2>8, <2>9
  <2> QED BY <1>2, <1>4, <2>6, <2>10 DEF StreamInv
<1> QED BY <1>6, <1>7


LEMMA ThreeParts ==
  ASSUME NEW S, NEW s \in Seq(S), NEW t \in Seq(S), NEW u \in Seq(S)
  PROVE  (s \o t) \o u = s \o (t \o u)
BY ConcatAssociative

\* A chunk goes from the pipe to the stage that reads it.
LEMMA FlowMoves ==
  ASSUME StreamShape, NEW x, pipe[1].slot = << x >>, Top = 3, mode' = mode, x \in Chunks[mode.kind],
         stage[2].pending = << >>, pipe[2].slot = << >>, pipe'[2].slot = << >>, pipe'[1].slot = << >>,
         stage'[2].pending = << x >>, stage'[1].pending = stage[1].pending
  PROVE  Flow(mode, pipe', stage') = Flow(mode, pipe, stage)
<1> DEFINE e == << >>
           p == stage[1].pending
           y == << x >>
<1>1. Top = mode.stages /\ p \in Seq(Chunks[mode.kind])
  BY DEF Top, StreamShape, PipelineIs
<1>2. e \in Seq(Chunks[mode.kind]) /\ y \in Seq(Chunks[mode.kind])
  BY <1>1, EmptyParts
<1>3. /\ Flow(mode, pipe, stage) = (e \o e) \o (y \o p)
      /\ Flow(mode, pipe', stage') = (e \o y) \o (e \o p)
  <2>1. Flow(mode, pipe, stage) = (pipe[2].slot \o stage[2].pending) \o (pipe[1].slot \o stage[1].pending)
    BY FlowOf
  <2>2. Flow(mode, pipe', stage') = (pipe'[2].slot \o stage'[2].pending) \o (pipe'[1].slot \o stage'[1].pending)
    BY FlowOf
  <2> QED BY <2>1, <2>2
<1> HIDE DEF e, p, y
<1>4. e \o e = e /\ e \o y = y /\ e \o p = p
  BY <1>1, <1>2, EmptyParts DEF e
<1>5. e \o (y \o p) = y \o p
  <2>1. y \o p \in Seq(Chunks[mode.kind])
    BY <1>1, <1>2, EmptyParts
  <2> HIDE DEF e
  <2> QED BY <1>1, <2>1, EmptyParts DEF e
<1> QED BY <1>3, <1>4, <1>5

\* The converter takes the first chunk of the flow.
LEMMA FlowShrinks ==
  ASSUME StreamShape, NEW x \in Chunks[mode.kind], Top \in 2 .. 3, mode' = mode,
         pipe[Top - 1].slot = << x >>, pipe'[Top - 1].slot = << >>,
         \A j \in 1 .. Top : j # Top => stage'[j] = stage[j] /\ (j # Top - 1 => pipe'[j] = pipe[j]),
         NEW c \in Seq(Chunks[mode.kind])
  PROVE  /\ c \o Flow(mode, pipe, stage) = Append(c, x) \o Flow(mode, pipe', stage')
         /\ Flow(mode, pipe', stage') \in Seq(Chunks[mode.kind])
<1>1. Top = mode.stages
  BY DEF Top
<1>2. << >> \in Seq(Chunks[mode.kind]) /\ << x >> \in Seq(Chunks[mode.kind])
  BY EmptyParts
<1>3. \A j \in 1 .. Top : j # Top => stage[j].pending \in Seq(Chunks[mode.kind]) /\ pipe[j].slot \in Seq(Chunks[mode.kind])
  BY <1>1 DEF StreamShape, PipelineIs
<1>4. CASE Top = 2
  <2> DEFINE p == stage[1].pending
  <2>1. /\ Flow(mode, pipe, stage) = << x >> \o p
        /\ Flow(mode, pipe', stage') = << >> \o p
    <3>1. Flow(mode, pipe, stage) = pipe[1].slot \o stage[1].pending
      BY <1>4, FlowOf
    <3>2. Flow(mode, pipe', stage') = pipe'[1].slot \o stage'[1].pending
      BY <1>4, FlowOf
    <3>3. stage'[1] = stage[1] /\ pipe[1].slot = << x >> /\ pipe'[1].slot = << >>
      BY <1>4
    <3> QED BY <3>1, <3>2, <3>3
  <2>2. p \in Seq(Chunks[mode.kind])
    BY <1>3, <1>4
  <2> HIDE DEF p
  <2>3. << >> \o p = p /\ c \o (<< x >> \o p) = Append(c, x) \o p
    BY <2>2, EmptyParts
  <2> QED BY <2>1, <2>2, <2>3
<1>5. CASE Top = 3
  <2> DEFINE p == stage[2].pending
             w == pipe[1].slot \o stage[1].pending
  <2>1. /\ Flow(mode, pipe, stage) = (<< x >> \o p) \o w
        /\ Flow(mode, pipe', stage') = (<< >> \o p) \o w
    <3>1. Flow(mode, pipe, stage) = (pipe[2].slot \o stage[2].pending) \o (pipe[1].slot \o stage[1].pending)
      BY <1>5, FlowOf
    <3>2. Flow(mode, pipe', stage') = (pipe'[2].slot \o stage'[2].pending) \o (pipe'[1].slot \o stage'[1].pending)
      BY <1>5, FlowOf
    <3>3. /\ stage'[1] = stage[1] /\ stage'[2] = stage[2] /\ pipe'[1] = pipe[1]
          /\ pipe[2].slot = << x >> /\ pipe'[2].slot = << >>
      BY <1>5
    <3> QED BY <3>1, <3>2, <3>3
  <2>2. p \in Seq(Chunks[mode.kind]) /\ pipe[1].slot \in Seq(Chunks[mode.kind]) /\ stage[1].pending \in Seq(Chunks[mode.kind])
    BY <1>3, <1>5
  <2>3. w \in Seq(Chunks[mode.kind])
    BY <2>2, EmptyParts
  <2> HIDE DEF p, w
  <2>4. << >> \o p = p /\ p \o w \in Seq(Chunks[mode.kind])
    BY <2>2, <2>3, EmptyParts
  <2>5. (<< x >> \o p) \o w = << x >> \o (p \o w)
    <3>1. ASSUME NEW S, NEW u \in Seq(S), NEW q \in Seq(S), NEW r \in Seq(S)
          PROVE  (u \o q) \o r = u \o (q \o r)
      BY ONLY ThreeParts
    <3>2. PICK S : S = Seq(Chunks[mode.kind])
      OBVIOUS
    <3>3. \A u, q, r \in S : (u \o q) \o r = u \o (q \o r)
      BY <3>1, <3>2
    <3> QED BY <1>2, <2>2, <2>3, <3>2, <3>3
  <2>6. c \o (<< x >> \o (p \o w)) = Append(c, x) \o (p \o w)
    <3>1. ASSUME NEW v \in Seq(Chunks[mode.kind])
          PROVE  c \o (<< x >> \o v) = Append(c, x) \o v
      BY <3>1, EmptyParts
    <3> QED BY <2>4, <3>1
  <2> QED BY <2>1, <2>4, <2>5, <2>6
<1> QED BY <1>4, <1>5

\* Nothing is on its way when all before the converter came to the end.
LEMMA FlowEnds ==
  ASSUME StreamInv, Top \in 2 .. 3, stage[Top].state = "run",
         stage[Top - 1].state = "ended", stage[Top - 1].result = "eof"
  PROVE  Flow(mode, pipe, stage) = << >> /\ upstream = "eof"
<1>1. Top = mode.stages
  BY DEF Top
<1>2. \A j \in 1 .. Top : StageSettled(mode, stage, pipe, relay.aborted, j) /\ StageCause(mode, stage, upstream, j)
  BY DEF StreamInv, Settled
<1>3. upstream = "eof" /\ (Top = 3 => stage[1].state = "ended")
  <2>1. Top - 1 \in 1 .. Top /\ Top - 1 # Top /\ (Top = 3 => Top - 1 > 1 /\ (Top - 1) - 1 = 1)
    OBVIOUS
  <2>2. StageCause(mode, stage, upstream, Top - 1)
    BY <1>2, <2>1
  <2> QED BY <1>1, <2>1, <2>2 DEF StageCause
<1>4. << >> \o << >> = << >>
  BY ConcatEmptySeq, EmptySeq
<1>5. \A j \in 1 .. Top : j # Top => stage[j].pending = << >> /\ pipe[j].slot = << >>
  BY <1>1, <1>2, <1>3 DEF StageSettled
<1>6. CASE Top = 2
  <2>1. Flow(mode, pipe, stage) = pipe[1].slot \o stage[1].pending
    BY <1>6, FlowOf
  <2>2. stage[1].pending = << >> /\ pipe[1].slot = << >>
    BY <1>5, <1>6
  <2> QED BY <1>3, <1>4, <2>1, <2>2
<1>7. CASE Top = 3
  <2>1. Flow(mode, pipe, stage) = (pipe[2].slot \o stage[2].pending) \o (pipe[1].slot \o stage[1].pending)
    BY <1>7, FlowOf
  <2>2. \A j \in {1, 2} : stage[j].pending = << >> /\ pipe[j].slot = << >>
    BY <1>5, <1>7
  <2> QED BY <1>3, <1>4, <2>1, <2>2
<1>8. Top = 2 \/ Top = 3
  OBVIOUS
<1> QED BY <1>6, <1>7, <1>8


LEMMA OneElement ==
  ASSUME NEW S, NEW u \in Seq(S), u # << >>, Len(u) <= 1
  PROVE  Len(u) = 1 /\ u[1] \in S /\ u = << u[1] >>
<1>1. Len(u) \in Nat /\ Len(u) # 0
  BY EmptySeq, LenProperties
<1>2. \A n \in Nat : n # 0 /\ n <= 1 => n = 1
  OBVIOUS
<1>3. Len(u) = 1
  BY <1>1, <1>2, Zenon
<1> QED BY <1>3

\* What a pipe gives, and what it leaves.
LEMMA PipeGives ==
  ASSUME StreamInv, NEW i \in 2 .. Top, ReadPipe(i)
  PROVE  \E x :
           /\ StageTakes(i, x)
           /\ \/ /\ x \in Chunks[mode.kind] /\ x.type \notin {"eof", "failed"} /\ pipe[i - 1].slot = << x >>
                 /\ pipe' = [pipe EXCEPT ![i - 1].slot = << >>]
              \/ /\ pipe[i - 1].slot = << >> /\ pipe' = pipe
                 /\ x.type \in {"eof", "failed"} /\ stage[i - 1].state = "ended" /\ x.type = stage[i - 1].result
<1>1. /\ Top = mode.stages /\ mode.kind \in DOMAIN Chunks /\ i - 1 \in 1 .. Top /\ i - 1 # Top
      /\ PipeIs(pipe[i - 1]) /\ pipe[i - 1].slot \in Seq(Chunks[mode.kind])
      /\ StageSettled(mode, stage, pipe, relay.aborted, i - 1)
  BY ModeIs DEF Top, StreamInv, StreamShape, PipelineIs, Settled
<1> DEFINE h == i - 1
           slot == pipe[h].slot
<1>2. CASE slot # << >> /\ StageTakes(i, slot[1]) /\ pipe' = [pipe EXCEPT ![h].slot = << >>]
  <2> DEFINE x == slot[1]
  <2>1. slot # << >> /\ Len(slot) <= 1 /\ slot \in Seq(Chunks[mode.kind])
    BY <1>1, <1>2 DEF PipeIs
  <2>2. x \in Chunks[mode.kind] /\ slot = << x >>
    <3> HIDE DEF slot
    <3> QED BY <2>1, OneElement
  <2>3. x.type \notin {"eof", "failed"}
    <3> HIDE DEF x
    <3> QED BY <1>1, <2>2, ChunksAssumption
  <2> HIDE DEF x, slot
  <2> QED BY <1>2, <2>2, <2>3, Zenon DEF x, slot
<1>3. CASE slot = << >> /\ pipe[h].wclosed # "no" /\ StageTakes(i, [type |-> pipe[h].wclosed]) /\ pipe' = pipe
  <2> DEFINE x == [type |-> pipe[h].wclosed]
  <2>1. x.type = pipe[h].wclosed
    OBVIOUS
  <2>2. pipe[h].wclosed \in {"eof", "failed"} /\ stage[h].state = "ended" /\ pipe[h].wclosed = stage[h].result
    BY <1>1, <1>3 DEF PipeIs, StageSettled
  <2> HIDE DEF x
  <2>3. x.type \in {"eof", "failed"} /\ x.type = stage[h].result
    BY <2>1, <2>2
  <2> QED BY <1>3, <2>2, <2>3, Zenon DEF x
<1>4. \/ slot # << >> /\ StageTakes(i, slot[1]) /\ pipe' = [pipe EXCEPT ![h].slot = << >>]
      \/ slot = << >> /\ pipe[h].wclosed # "no" /\ StageTakes(i, [type |-> pipe[h].wclosed]) /\ pipe' = pipe
  BY DEF ReadPipe
<1> QED BY <1>2, <1>3, <1>4

LEMMA ReadPipeKeeps ==
  ASSUME StreamInv, NEW i \in 2 .. Top, ReadPipe(i)
  PROVE  StreamInv'
<1>1. /\ Top = mode.stages /\ Top' = Top /\ Top \in 2 .. 3 /\ i \in 1 .. Top /\ i > 1 /\ Top > 0
      /\ mode.kind \in DOMAIN Chunks /\ DOMAIN stage = 1 .. Top /\ DOMAIN pipe = 1 .. Top
      /\ i - 1 \in 1 .. Top /\ i - 1 # Top /\ PipeIs(pipe[i - 1])
  BY ModeIs DEF Top, StreamInv, StreamShape, PipelineIs, ReadPipe
<1>2. /\ stage[i].state = "run" /\ stage[i].pending = << >> /\ pipe[i].slot = << >>
      /\ UNCHANGED <<mode, sent, upstream, relay, client, captured, saved, entry>>
  BY DEF ReadPipe, Idle
<1>3. /\ sent' \in Seq(Chunks[mode.kind]) /\ Rules(mode.kind, sent')
      /\ upstream' \in {"open", "eof", "failed", "cancelled"}
  BY <1>2 DEF StreamInv, StreamShape
<1>4. PICK x : /\ StageTakes(i, x)
               /\ \/ /\ x \in Chunks[mode.kind] /\ x.type \notin {"eof", "failed"} /\ pipe[i - 1].slot = << x >>
                     /\ pipe' = [pipe EXCEPT ![i - 1].slot = << >>]
                  \/ /\ pipe[i - 1].slot = << >> /\ pipe' = pipe
                     /\ x.type \in {"eof", "failed"} /\ stage[i - 1].state = "ended" /\ x.type = stage[i - 1].result
  BY PipeGives
<1>5. pipe' = pipe \/ (i > 1 /\ pipe' = [pipe EXCEPT ![i - 1].slot = << >>])
  BY <1>1, <1>4
<1>6. CASE i = Top
  <2>1. PICK c \in Seq(Chunks[mode.kind]) :
            Running(mode, c, sent, pipe, stage, acc, captured, relay.aborted)
    BY <1>1, <1>2, <1>6 DEF StreamInv, Bill
  <2>2. \/ x \in Chunks[mode.kind] /\ sent' = Append(c, x) \o Flow(mode, pipe', stage')
               /\ Flow(mode, pipe', stage') \in Seq(Chunks[mode.kind])
        \/ x.type = "eof" /\ upstream' = "eof" /\ sent' = c
        \/ x.type = "failed" /\ upstream' \in {"failed", "cancelled"}
    <3>1. CASE /\ x \in Chunks[mode.kind] /\ pipe[Top - 1].slot = << x >>
               /\ pipe' = [pipe EXCEPT ![Top - 1].slot = << >>]
      <4>1. /\ pipe'[Top - 1].slot = << >>
            /\ \A j \in 1 .. Top : j # Top - 1 => pipe'[j] = pipe[j]
        BY <1>1, <1>6, <3>1 DEF PipeIs
      <4>2. \A j \in 1 .. Top : j # Top => stage'[j] = stage[j]
        BY <1>1, <1>4, <1>6 DEF StageTakes
      <4>3. /\ c \o Flow(mode, pipe, stage) = Append(c, x) \o Flow(mode, pipe', stage')
            /\ Flow(mode, pipe', stage') \in Seq(Chunks[mode.kind])
        BY <1>1, <1>2, <3>1, <4>1, <4>2, FlowShrinks DEF StreamInv
      <4> QED BY <1>2, <2>1, <3>1, <4>3 DEF Running
    <3>2. CASE x.type = "eof" /\ stage[Top - 1].state = "ended" /\ stage[Top - 1].result = "eof"
      <4>1. Flow(mode, pipe, stage) = << >> /\ upstream = "eof"
        BY <1>1, <1>2, <1>6, <3>2, FlowEnds
      <4>2. sent = c
        BY <2>1, <4>1, ConcatEmptySeq DEF Running
      <4> QED BY <1>2, <3>2, <4>1, <4>2
    <3>3. CASE x.type = "failed" /\ stage[Top - 1].state = "ended" /\ stage[Top - 1].result = "failed"
      <4>1. StageCause(mode, stage, upstream, Top - 1)
        BY <1>1, <1>6 DEF StreamInv, Settled
      <4> QED BY <1>1, <1>2, <1>6, <3>3, <4>1 DEF StageCause
    <3> QED BY <1>4, <1>6, <3>1, <3>2, <3>3
  <2>3. StageTakes(Top, x)
    BY <1>4, <1>6
  <2>4. /\ Bill'
        /\ \E s : /\ stage' = [stage EXCEPT ![Top] = s]
                  /\ StageIs(s) /\ s.state \in {"run", "over"}
    BY <1>1, <1>2, <1>3, <1>6, <2>1, <2>2, <2>3, ConverterReads
  <2>5. PICK s : stage' = [stage EXCEPT ![Top] = s] /\ StageIs(s) /\ s.state \in {"run", "over"}
    BY <2>4
  <2>6. StreamShape' /\ Settled' /\ Logged'
    BY <1>1, <1>2, <1>3, <1>5, <1>6, <2>5, TakeKeeps
  <2> QED BY <1>2, <1>3, <2>4, <2>6 DEF StreamInv
<1>7. CASE i # Top
  <2>1. i = 2 /\ Top = 3
    BY <1>1, <1>7
  <2>10. StageTakes(i, x)
    BY <1>4
  <2>2. acc' = acc
    BY <1>7, <2>10, HandsOn
  <2>20. PICK s : stage' = [stage EXCEPT ![i] = s] /\ HandedOn(x, s)
    BY <1>7, <2>10, HandsOn
  <2>3. /\ stage' = [stage EXCEPT ![i] = s]
        /\ StageIs(s)
        /\ s.pending = (IF x.type \in {"eof", "failed"} THEN << >> ELSE << x >>)
        /\ s.state = (IF x.type \in {"eof", "failed"} THEN "over" ELSE "run")
        /\ s.result = (IF x.type = "failed" THEN "failed" ELSE "eof")
    BY <2>20 DEF HandedOn
  <2>4. s.pending \in Seq(Chunks[mode.kind]) /\ (s.state = "over" => s.pending = << >>) /\ s.state \in {"run", "over"}
    <3>1. << >> \in Seq(Chunks[mode.kind])
      BY EmptySeq
    <3>2. ASSUME x \in Chunks[mode.kind]
          PROVE  << x >> \in Seq(Chunks[mode.kind])
      BY <3>1, <3>2, EmptyParts
    <3> QED BY <1>4, <2>3, <3>1, <3>2
  <2>5. s.state = "over" /\ stage[Top].state = "run" =>
            IF s.result = "eof"
            THEN upstream' = "eof" /\ (i > 1 => stage[i - 1].state = "ended" /\ stage[i - 1].result = "eof")
            ELSE upstream' \in {"failed", "cancelled"}
    <3>1. StageCause(mode, stage, upstream, i - 1)
      BY <1>1 DEF StreamInv, Settled
    <3>2. ASSUME s.state = "over", stage[Top].state = "run"
          PROVE  IF s.result = "eof"
                 THEN upstream' = "eof" /\ stage[i - 1].state = "ended" /\ stage[i - 1].result = "eof"
                 ELSE upstream' \in {"failed", "cancelled"}
      <4>1. x.type \in {"eof", "failed"} /\ stage[i - 1].state = "ended" /\ x.type = stage[i - 1].result
            /\ s.result = x.type
        BY <1>4, <2>3, <3>2
      <4> QED BY <1>1, <1>2, <3>1, <3>2, <4>1 DEF StageCause
    <3> QED BY <3>2
  <2>6. StreamShape' /\ Settled' /\ Logged'
    BY <1>1, <1>2, <1>3, <1>5, <1>7, <2>3, <2>4, <2>5, TakeKeeps
  <2>7. Flow(mode, pipe', stage') = Flow(mode, pipe, stage)
    <3>1. stage'[2] = s /\ stage'[1] = stage[1]
      BY <1>1, <2>1, <2>3
    <3>2. CASE /\ x \in Chunks[mode.kind] /\ pipe[1].slot = << x >> /\ s.pending = << x >>
               /\ pipe' = [pipe EXCEPT ![1].slot = << >>]
      <4>1. pipe'[2].slot = << >> /\ pipe'[1].slot = << >>
        BY <1>1, <1>2, <2>1, <3>2 DEF PipeIs
      <4> QED BY <1>1, <1>2, <2>1, <3>1, <3>2, <4>1, FlowMoves DEF StreamInv
    <3>3. CASE pipe' = pipe /\ s.pending = << >>
      <4>1. Flow(mode, pipe, stage) = (pipe[2].slot \o stage[2].pending) \o (pipe[1].slot \o stage[1].pending)
        BY <2>1, FlowOf
      <4>2. Flow(mode, pipe', stage')
              = (pipe'[2].slot \o stage'[2].pending) \o (pipe'[1].slot \o stage'[1].pending)
        BY <2>1, FlowOf
      <4>3. stage[2].pending = << >>
        BY <1>2, <2>1
      <4> QED BY <3>1, <3>3, <4>1, <4>2, <4>3
    <3> QED BY <1>4, <2>1, <2>3, <3>2, <3>3
  <2>8. stage'[Top] = stage[Top]
    BY <1>1, <1>7, <2>3
  <2>9. Bill'
    BY <1>1, <1>2, <1>7, <2>2, <2>7, <2>8, PassedOn
  <2> QED BY <1>2, <1>3, <2>6, <2>9 DEF StreamInv
<1> QED BY <1>6, <1>7


-----------------------------------------------------------------------------
(* The theorems.                                                           *)

LEMMA StreamStarts ==
  ASSUME StreamInit
  PROVE  StreamInv
<1>1. /\ mode \in Modes /\ Top = mode.stages /\ sent = << >> /\ upstream = "open" /\ entry = NoEntry
      /\ relay = [pc |-> "read", hold |-> << >>, aborted |-> FALSE]
      /\ captured = [tokens |-> 0, last |-> NoData, partial |-> FALSE]
      /\ acc = Accumulator(mode.kind)
  BY DEF StreamInit, Top
<1>2. << >> \in Seq(Chunks[mode.kind]) /\ IsSeq(<< >>) /\ Len(<< >>) <= 1
  BY EmptySeq, Short
<1> DEFINE s == Stage(<< >>, "run", "eof")
           q == [slot |-> << >>, wclosed |-> "no", rclosed |-> FALSE]
<1>3. StageIs(s) /\ s.pending = << >> /\ s.state = "run"
  <2>1. DOMAIN s = {"pending", "state", "result"} /\ s.pending = << >> /\ s.state = "run" /\ s.result = "eof"
    BY DEF Stage
  <2> HIDE DEF s
  <2> QED BY <1>2, <2>1 DEF StageIs
<1>4. PipeIs(q) /\ q.slot = << >> /\ q.wclosed = "no" /\ q.rclosed = FALSE
  <2>1. DOMAIN q = {"slot", "wclosed", "rclosed"} /\ q.slot = << >> /\ q.wclosed = "no" /\ q.rclosed = FALSE
    OBVIOUS
  <2> HIDE DEF q
  <2> QED BY <1>2, <2>1 DEF PipeIs
<1>5. /\ DOMAIN stage = 1 .. Top /\ DOMAIN pipe = 1 .. Top
      /\ \A j \in 1 .. Top : stage[j] = s /\ pipe[j] = q
  BY <1>1 DEF StreamInit
<1> HIDE DEF s, q
<1>6. StreamShape
  <2>1. PipelineIs(mode, stage, pipe)
    BY <1>1, <1>2, <1>3, <1>4, <1>5 DEF PipelineIs
  <2> QED BY <1>1, <1>2, <2>1 DEF StreamShape
<1>7. mode.kind \in DOMAIN Chunks /\ Top \in 0 .. 3 /\ (Top > 0 => mode.kind \in ToResponses \cup ToChat)
  BY <1>6, ModeIs
<1>8. Settled
  <2>1. ASSUME NEW j \in 1 .. Top
        PROVE  StageSettled(mode, stage, pipe, relay.aborted, j) /\ StageCause(mode, stage, upstream, j)
    BY <1>3, <1>4, <1>5, <2>1 DEF StageSettled, StageCause
  <2> QED BY <1>1, <2>1 DEF Settled
<1>9. Logged
  BY <1>1 DEF Logged
<1>10. Rules(mode.kind, sent)
  BY <1>1 DEF Rules
<1>11. Bill
  <2>1. CASE Top > 0
    <3>1. Fed(mode.kind, << >>, acc) /\ Told(mode.kind, << >>) = 0
      BY <1>1, <1>7, <2>1, FedStarts
    <3>2. Flow(mode, pipe, stage) = << >>
      <4>1. << >> \o << >> = << >>
        BY ConcatEmptySeq, EmptySeq
      <4>2. Top \in {1, 2, 3} /\ \A j \in 1 .. Top : stage[j].pending = << >> /\ pipe[j].slot = << >>
        BY <1>3, <1>4, <1>5, <1>7, <2>1
      <4>3. CASE Top = 1
        BY <4>3, FlowOf
      <4>4. CASE Top = 2
        <5>1. Flow(mode, pipe, stage) = pipe[1].slot \o stage[1].pending
          BY <4>4, FlowOf
        <5> QED BY <4>1, <4>2, <4>4, <5>1
      <4>5. CASE Top = 3
        <5>1. Flow(mode, pipe, stage) = (pipe[2].slot \o stage[2].pending) \o (pipe[1].slot \o stage[1].pending)
          BY <4>5, FlowOf
        <5>2. \A j \in {1, 2} : stage[j].pending = << >> /\ pipe[j].slot = << >>
          BY <4>2, <4>5
        <5> QED BY <4>1, <5>1, <5>2
      <4> QED BY <4>2, <4>3, <4>4, <4>5
    <3>3. Billed(stage[Top].pending, captured, 0)
      BY <1>1, <1>2, <1>3, <1>5, <1>7, <2>1 DEF Billed, NoData
    <3>4. sent = << >> \o Flow(mode, pipe, stage)
      BY <1>1, <3>2, ConcatEmptySeq, EmptySeq
    <3>5. Running(mode, << >>, sent, pipe, stage, acc, captured, relay.aborted)
      BY <1>1, <3>1, <3>3, <3>4 DEF Running
    <3>6. stage[Top].state = "run"
      BY <1>3, <1>5, <1>7, <2>1
    <3> QED BY <1>2, <2>1, <3>5, <3>6 DEF Bill
  <2>2. CASE ~(Top > 0)
    <3>1. UsageFor(mode.kind, << >>) = 0
      BY NothingSent DEF UsageFor
    <3>2. ~Cut(<< >>)
      BY DEF Cut
    <3>3. ExtractUsage(captured.last) = 0
      BY <1>1 DEF ExtractUsage, extractChatCompletionUsage, extractResponsesAPIUsage, NoData
    <3> QED BY <1>1, <2>2, <3>1, <3>2, <3>3 DEF Bill
  <2> QED BY <2>1, <2>2
<1> QED BY <1>6, <1>8, <1>9, <1>10, <1>11 DEF StreamInv

LEMMA StreamMoves ==
  ASSUME StreamInv, [StreamNext]_streamVars
  PROVE  StreamInv'
<1>1. CASE UNCHANGED streamVars
  <2>1. /\ mode' = mode /\ sent' = sent /\ upstream' = upstream /\ acc' = acc /\ stage' = stage /\ pipe' = pipe
        /\ relay' = relay /\ captured' = captured /\ entry' = entry
    BY <1>1 DEF streamVars
  <2>2. StreamShape' /\ Settled' /\ Logged' /\ Top' = Top
    BY <2>1 DEF StreamInv, StreamShape, Settled, Logged, Entry, Top
  <2>3. Bill'
    BY <2>1, <2>2 DEF StreamInv, Bill, Running, Finished, Flow
  <2> QED BY <2>1, <2>2, <2>3 DEF StreamInv
<1>2. CASE ReadBody
  BY <1>2, ReadBodyKeeps
<1>3. ASSUME NEW i \in DOMAIN stage, Goroutine(i)
      PROVE  StreamInv'
  <2>1. CASE i > 1 /\ ReadPipe(i)
    <3>1. i \in 2 .. Top
      <4>1. i \in 1 .. Top /\ Top \in 0 .. 3
        BY <1>3, ModeIs DEF StreamInv, StreamShape, PipelineIs, Top
      <4> QED BY <2>1, <4>1
    <3> QED BY <2>1, <3>1, ReadPipeKeeps
  <2>2. CASE Put(i)
    BY <1>3, <2>2, PutKeeps
  <2>3. CASE WriteFails(i)
    BY <1>3, <2>3, WriteFailsKeeps
  <2>4. CASE SaveResponse(i)
    BY <1>3, <2>4, SaveResponseKeeps
  <2>5. CASE EndStage(i)
    BY <1>3, <2>5, EndStageKeeps
  <2> QED BY <1>3, <2>1, <2>2, <2>3, <2>4, <2>5 DEF Goroutine
<1>4. CASE Handler
  <2>1. CASE RelayReads
    BY <2>1, RelayReadsKeeps
  <2>2. CASE RelayReadsBody
    BY <2>2, RelayReadsBodyKeeps
  <2>3. CASE SendSucceeds
    BY <2>3, SendSucceedsKeeps
  <2>4. CASE SendFails
    BY <2>4, SendFailsKeeps
  <2>5. CASE drainUpstream
    BY <2>5, DrainKeeps
  <2>6. CASE finalizeStreamingLog
    BY <2>6, FinalizeKeeps
  <2> QED BY <1>4, <2>1, <2>2, <2>3, <2>4, <2>5, <2>6 DEF Handler
<1>5. CASE ClientLeaves
  BY <1>5, ClientLeavesKeeps
<1>6. CASE ContextCancelled
  BY <1>6, ContextCancelledKeeps
<1> QED BY <1>1, <1>2, <1>3, <1>4, <1>5, <1>6 DEF StreamNext

\* Pipes, stages and chunks are what the handlers take them for, and what a
\* handler has heard of an answer's usage is always what the chunks that passed
\* the converter said.
THEOREM StreamsBilled == StreamSpec => []StreamInv
<1>1. StreamInit => StreamInv
  BY StreamStarts
<1>2. StreamInv /\ [StreamNext]_streamVars => StreamInv'
  BY StreamMoves
<1> QED BY <1>1, <1>2, PTL DEF StreamSpec

LEMMA BilledAtEnd ==
  ASSUME NEW cap, NEW u \in Nat, Billed(<< >>, cap, u)
  PROVE  cap.tokens = u /\ ExtractUsage(cap.last) \in {0, cap.tokens}
<1>1. DOMAIN << >> = {}
  BY EmptySeq
<1>2. cap.tokens = u /\ cap.last.usage \in {0, u}
  BY <1>1 DEF Billed
<1> QED BY <1>2 DEF ExtractUsage, extractChatCompletionUsage, extractResponsesAPIUsage

\* UsageLogged: the usage of an answer that was read to its end is in its
\* entry, whichever of its chunks named it and whichever handler it went through.
THEOREM UsageIsLogged == StreamSpec => []UsageLogged
<1>1. StreamInv => UsageLogged
  <2> SUFFICES ASSUME StreamInv, entry # NoEntry, upstream = "eof", relay.aborted => Top = 0
               PROVE  entry.tokens = UsageOf(sent)
    BY DEF UsageLogged
  <2>1. relay.pc = "done" /\ entry = Entry
    BY DEF StreamInv, Logged
  <2>2. mode.kind \in DOMAIN Chunks /\ Top \in 0 .. 3 /\ Top = mode.stages /\ sent \in Seq(Chunks[mode.kind])
    BY ModeIs DEF StreamInv, StreamShape, Top
  <2> DEFINE u == UsageFor(mode.kind, sent)
  <2>3. u \in Nat /\ UsageOf(sent) = u
    BY <2>2, UsageNatural, UsageIs
  <2>4. captured.tokens = u /\ ExtractUsage(captured.last) \in {0, captured.tokens}
    <3>1. CASE Top = 0
      BY <2>2, <3>1 DEF StreamInv, Bill
    <3>2. CASE Top > 0
      <4>1. stage[Top].state = "ended" /\ stage[Top].pending = << >>
        BY <2>1, <2>2, <3>2 DEF StreamInv, Settled, StageSettled
      <4>2. Billed(<< >>, captured, u)
        BY <2>2, <3>2, <4>1 DEF StreamInv, Bill, Finished
      <4> QED BY <2>3, <4>2, BilledAtEnd
    <3> QED BY <2>2, <3>1, <3>2
  <2> HIDE DEF u
  <2>5. Entry.tokens = u
    <3>1. Entry.tokens = IF ExtractUsage(captured.last) > 0 THEN ExtractUsage(captured.last) ELSE captured.tokens
      BY DEF Entry
    <3> QED BY <2>3, <2>4, <3>1
  <2> QED BY <2>1, <2>3, <2>5
<1> QED BY <1>1, StreamsBilled, PTL

\* LoggedLast: the handler makes the entry when the converter has returned, so
\* what the entry is made from, and what is stored, does not change afterwards.
THEOREM EntryIsLast == StreamSpec => LoggedLast
<1>1. StreamInv /\ [StreamNext]_streamVars
          => [entry # NoEntry => UNCHANGED <<captured, saved, acc, entry>>]_streamVars
  <2> SUFFICES ASSUME StreamInv, StreamNext, entry # NoEntry
               PROVE  UNCHANGED <<captured, saved, acc, entry>>
    OBVIOUS
  <2>1. relay.pc = "done"
    BY DEF StreamInv, Logged
  <2>2. /\ Top = mode.stages /\ DOMAIN stage = 1 .. Top /\ Top \in 0 .. 3
        /\ Top > 0 => stage[Top].state = "ended" /\ stage[Top].pending = << >> /\ pipe[Top].slot = << >>
    <3>1. Top = mode.stages /\ DOMAIN stage = 1 .. Top /\ Top \in 0 .. 3
      BY ModeIs DEF StreamInv, StreamShape, PipelineIs, Top
    <3>2. ASSUME Top > 0
          PROVE  stage[Top].state = "ended" /\ stage[Top].pending = << >> /\ pipe[Top].slot = << >>
      BY <2>1, <3>1, <3>2 DEF StreamInv, Settled, StageSettled
    <3> QED BY <3>1, <3>2
  <2>3. CASE ReadBody
    <3>1. Top # 1
      BY <2>2, <2>3 DEF ReadBody, Idle
    <3> QED BY <2>3, <3>1 DEF ReadBody, StageTakes
  <2>4. ASSUME NEW i \in DOMAIN stage, Goroutine(i)
        PROVE  UNCHANGED <<captured, saved, acc, entry>>
    <3>1. i \in 1 .. Top /\ (i = Top => stage[i].state = "ended" /\ stage[i].pending = << >> /\ pipe[i].slot = << >>)
      BY <2>2, <2>4
    <3>2. CASE ReadPipe(i)
      <4>1. i # Top
        BY <3>1, <3>2 DEF ReadPipe, Idle
      <4> QED BY <3>2, <4>1 DEF ReadPipe, StageTakes
    <3>3. CASE Put(i)
      BY <3>1, <3>3 DEF Put, Pending, Capture
    <3>4. CASE WriteFails(i)
      BY <3>1, <3>4 DEF WriteFails, Pending, Capture
    <3>5. CASE SaveResponse(i)
      <4>1. i # Top
        BY <3>1, <3>5 DEF SaveResponse, Saves, Pending
      <4>2. stage[i].pending \in Seq(Chunks[mode.kind]) /\ mode.kind \in DOMAIN Chunks
        BY <2>2, <3>1, <4>1, ModeIs DEF StreamInv, StreamShape, PipelineIs
      <4>3. Head(stage[i].pending) \in Chunks[mode.kind] /\ Head(stage[i].pending).type = "save"
        BY <3>5, <4>2, HeadTailProperties DEF SaveResponse, Saves, Pending
      <4> QED BY <4>2, <4>3, ChunksAssumption
    <3>6. CASE EndStage(i)
      BY <3>6 DEF EndStage
    <3> QED BY <2>4, <3>2, <3>3, <3>4, <3>5, <3>6 DEF Goroutine
  <2>5. CASE Handler
    BY <2>1, <2>5 DEF Handler, RelayReads, RelayReadsBody, SendSucceeds, SendFails, drainUpstream,
                      finalizeStreamingLog
  <2>6. CASE ClientLeaves
    BY <2>6 DEF ClientLeaves, pipeline
  <2>7. CASE ContextCancelled
    BY <2>7 DEF ContextCancelled, pipeline
  <2> QED BY <2>3, <2>4, <2>5, <2>6, <2>7 DEF StreamNext
<1> QED BY <1>1, StreamsBilled, PTL DEF StreamSpec, LoggedLast

=============================================================================
