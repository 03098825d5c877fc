---------------------------- MODULE SpendLogger ----------------------------
(***************************************************************************)
(* spendlog.Logger: request handlers hand spend entries to a bounded       *)
(* queue, a worker batches them and writes each batch in one transaction   *)
(* with retries, a batch that fails every attempt goes to an in-memory     *)
(* dead letter queue (DLQ) which a recovery goroutine retries, and the ids *)
(* of inserted rows go to an aggregation goroutine that feeds the daily    *)
(* tables.  Shutdown stops them, waits, and closes the connection pool.    *)
(*                                                                         *)
(* A batch is a Go slice: an array and a length.  The worker reuses one    *)
(* array for all its batches (batch = batch[:0]), and the DLQ keeps slices *)
(* and not copies, so the model keeps arrays and slices apart.             *)
(***************************************************************************)
EXTENDS Naturals, Sequences, FiniteSets

CONSTANTS Entries,      \* request_ids, unique per request (proxy.go uuid)
          Aggregators,  \* the daily tables
          QueueCap,     \* LogQueueSize
          BatchSize,    \* LogBatchSize
          MaxAttempts,  \* attempts of flushBatch (4 in the code)
          DLQMax,       \* batches the DLQ keeps (10 in the code)
          PendingCap,   \* pendingAggregationCap
          MaxFaults     \* bound: database failures in a behaviour

ASSUME ConstAssumption ==
    /\ QueueCap \in Nat \ {0}
    /\ BatchSize \in Nat \ {0}
    /\ MaxAttempts \in Nat \ {0}
    /\ DLQMax \in Nat \ {0}
    /\ PendingCap \in Nat \ {0}
    /\ MaxFaults \in Nat

Procs == {"worker", "recovery"}

VARIABLES
    status,     \* caller of Log: idle, parked, queued (returned nil), dropped
    queue,      \* the buffered channel
    arrays,     \* backing arrays: 1 is the worker's, 2 the one drain grows into
    batch,      \* the worker's current slice
    pc,         \* where the two flushing goroutines are
    attempt,    \* the worker's loop variable of flushBatch
    lastTry,    \* flushBatch was interrupted: this attempt is the final one
    closing,    \* the goroutine has seen stopChan and will return
    tx,         \* state of the goroutine's transaction
    params,     \* ids copied into the INSERT's parameters
    inserted,   \* ids the INSERT returned (uncommitted rows)
    charged,    \* entries whose spend the transaction adds
    rows, spent, daily,     \* the committed database
    dlq,        \* dead letter queue: slices
    dlqCopy,    \* flushDLQ's private copy, what is left of it
    dlqCount,   \* metric: batches ever sent to the DLQ
    pending,    \* channel pendingAggregation
    job,        \* ids the aggregation worker is busy with
    aggPc,
    shutdown,   \* none, waiting, complete (returned nil), timeout
    poolOpen,
    faults

logVars  == <<status, queue>>
bufVars  == <<arrays, batch>>
ctlVars  == <<pc, attempt, lastTry, closing>>
txVars   == <<tx, params, inserted, charged>>
dbVars   == <<rows, spent>>
dlqVars  == <<dlq, dlqCopy, dlqCount>>
aggVars  == <<pending, job, aggPc, daily>>
lifeVars == <<shutdown, poolOpen>>
vars == <<logVars, bufVars, ctlVars, txVars, dbVars, dlqVars, aggVars,
          lifeVars, faults>>

stopped == shutdown # "none"
Other(p) == IF p = "worker" THEN "recovery" ELSE "worker"

Slice == [arr : {1, 2}, len : Nat]
\* The entries a slice shows now.
Contents(s) == {arrays[s.arr][i] : i \in 1 .. s.len}
\* The slice goroutine p is flushing.
Current(p) == IF p = "worker" THEN batch ELSE Head(dlqCopy)

Bump(f, S) == [e \in Entries |-> IF e \in S THEN f[e] + 1 ELSE f[e]]

Init ==
    /\ status = [e \in Entries |-> "idle"]
    /\ queue = <<>>
    /\ arrays = [k \in {1, 2} |-> <<>>]
    /\ batch = [arr |-> 1, len |-> 0]
    /\ pc = [p \in Procs |-> "select"]
    /\ attempt = 0 /\ lastTry = FALSE
    /\ closing = [p \in Procs |-> FALSE]
    /\ tx = [p \in Procs |-> "none"]
    /\ params = [p \in Procs |-> {}]
    /\ inserted = [p \in Procs |-> {}]
    /\ charged = [p \in Procs |-> {}]
    /\ rows = {}
    /\ spent = [e \in Entries |-> 0]
    /\ daily = [a \in Aggregators |-> [e \in Entries |-> 0]]
    /\ dlq = <<>> /\ dlqCopy = <<>> /\ dlqCount = 0
    /\ pending = <<>> /\ job = {} /\ aggPc = "range"
    /\ shutdown = "none" /\ poolOpen = TRUE
    /\ faults = 0
-----------------------------------------------------------------------------
(* Log.  Shutdown is not checked: entries are taken at any time.           *)

LogSend(e) ==
    /\ status[e] = "idle"
    /\ Len(queue) < QueueCap
    /\ queue' = Append(queue, e)
    /\ status' = [status EXCEPT ![e] = "queued"]
    /\ UNCHANGED <<bufVars, ctlVars, txVars, dbVars, dlqVars, aggVars,
                   lifeVars, faults>>

LogPark(e) ==
    /\ status[e] = "idle"
    /\ Len(queue) >= QueueCap
    /\ status' = [status EXCEPT ![e] = "parked"]
    /\ UNCHANGED <<queue, bufVars, ctlVars, txVars, dbVars, dlqVars, aggVars,
                   lifeVars, faults>>

\* Five seconds have passed and the entry is still not in the channel.
LogTimeout(e) ==
    /\ status[e] = "parked"
    /\ status' = [status EXCEPT ![e] = "dropped"]
    /\ UNCHANGED <<queue, bufVars, ctlVars, txVars, dbVars, dlqVars, aggVars,
                   lifeVars, faults>>

Parked == {e \in Entries : status[e] = "parked"}

\* A receive takes the oldest value and, when senders are blocked, admits one
\* of them in the same step (the runtime the one that waited longest, here any).
Dequeue ==
    /\ queue # <<>>
    /\ \/ /\ Parked = {}
          /\ queue' = Tail(queue)
          /\ UNCHANGED status
       \/ \E e \in Parked :
              /\ queue' = Append(Tail(queue), e)
              /\ status' = [status EXCEPT ![e] = "queued"]
-----------------------------------------------------------------------------
(* The worker's loop.                                                      *)

\* batch = append(batch, e): in place while the array has room, into a fresh
\* array once it has not.  Only drainQueue gets that far.
AppendToBatch(e) ==
    LET old == arrays[batch.arr]
        n   == batch.len + 1
        put == [i \in 1 .. (IF n > Len(old) THEN n ELSE Len(old)) |->
                    IF i = n THEN e ELSE old[i]]
    IN  IF batch.arr = 1 /\ n > BatchSize
        THEN /\ arrays' = [arrays EXCEPT ![2] = put]
             /\ batch' = [arr |-> 2, len |-> n]
        ELSE /\ arrays' = [arrays EXCEPT ![batch.arr] = put]
             /\ batch' = [batch EXCEPT !.len = n]

WorkerReceive ==
    /\ pc["worker"] = "select"
    /\ Dequeue
    /\ AppendToBatch(Head(queue))
    /\ pc' = [pc EXCEPT !["worker"] =
                  IF batch'.len >= BatchSize THEN "flush" ELSE "select"]
    /\ UNCHANGED <<attempt, lastTry, closing, txVars, dbVars, dlqVars, aggVars,
                   lifeVars, faults>>

\* mutant: the timer flushes full batches only
WorkerTick_FullOnly ==
    /\ pc["worker"] = "select"
    /\ batch.len >= BatchSize
    /\ pc' = [pc EXCEPT !["worker"] = "flush"]
    /\ UNCHANGED <<logVars, bufVars, attempt, lastTry, closing, txVars, dbVars,
                   dlqVars, aggVars, lifeVars, faults>>

WorkerTick ==
    /\ pc["worker"] = "select"
    /\ batch.len > 0
    /\ pc' = [pc EXCEPT !["worker"] = "flush"]
    /\ UNCHANGED <<logVars, bufVars, attempt, lastTry, closing, txVars, dbVars,
                   dlqVars, aggVars, lifeVars, faults>>

WorkerStop ==
    /\ pc["worker"] = "select"
    /\ stopped
    /\ pc' = [pc EXCEPT !["worker"] = "drain"]
    /\ closing' = [closing EXCEPT !["worker"] = TRUE]
    /\ UNCHANGED <<logVars, bufVars, attempt, lastTry, txVars, dbVars, dlqVars,
                   aggVars, lifeVars, faults>>

DrainReceive ==
    /\ pc["worker"] = "drain"
    /\ Dequeue
    /\ AppendToBatch(Head(queue))
    /\ UNCHANGED <<ctlVars, txVars, dbVars, dlqVars, aggVars, lifeVars, faults>>

DrainEnd ==
    /\ pc["worker"] = "drain"
    /\ queue = <<>>
    /\ pc' = [pc EXCEPT !["worker"] =
                  IF batch.len > 0 THEN "flush" ELSE "done"]
    /\ UNCHANGED <<logVars, bufVars, attempt, lastTry, closing, txVars, dbVars,
                   dlqVars, aggVars, lifeVars, faults>>
-----------------------------------------------------------------------------
(* How an attempt ends for the goroutine that made it.                     *)

AddToDLQ(s) ==
    /\ dlq' = Append(IF Len(dlq) >= DLQMax THEN Tail(dlq) ELSE dlq, s)
    /\ dlqCount' = dlqCount + 1
    /\ UNCHANGED dlqCopy

\* flushBatch returns: batch = batch[:0], or the worker's final return.
WorkerFlushed ==
    /\ batch' = [batch EXCEPT !.len = 0]
    /\ attempt' = 0
    /\ lastTry' = FALSE
    /\ pc' = [pc EXCEPT !["worker"] =
                  IF closing["worker"] THEN "done" ELSE "select"]
    /\ UNCHANGED <<arrays, closing>>

\* mutant: a given-up batch is only counted as an error
WorkerFailed_Forgets ==
    IF lastTry \/ attempt + 1 = MaxAttempts
    THEN WorkerFlushed /\ UNCHANGED dlqVars
    ELSE /\ attempt' = attempt + 1
         /\ pc' = [pc EXCEPT !["worker"] = "backoff"]
         /\ UNCHANGED <<bufVars, lastTry, closing, dlqVars>>

WorkerFailed ==
    IF lastTry \/ attempt + 1 = MaxAttempts
    THEN AddToDLQ(batch) /\ WorkerFlushed
    ELSE /\ attempt' = attempt + 1
         /\ pc' = [pc EXCEPT !["worker"] = "backoff"]
         /\ UNCHANGED <<bufVars, lastTry, closing, dlqVars>>

\* flushDLQ goes on to the next batch of its copy, or returns.
RecoveryNext ==
    /\ dlqCopy' = Tail(dlqCopy)
    /\ pc' = [pc EXCEPT !["recovery"] =
                  IF Len(dlqCopy) > 1 THEN "flush"
                  ELSE IF closing["recovery"] THEN "done" ELSE "select"]
    /\ UNCHANGED <<bufVars, attempt, lastTry, closing, dlqCount>>

OnSuccess(p) ==
    IF p = "worker" THEN WorkerFlushed /\ UNCHANGED dlqVars
    ELSE RecoveryNext /\ UNCHANGED dlq

\* A batch that fails again is put back without a look at the DLQ's size.
OnFailure(p) ==
    IF p = "worker" THEN WorkerFailed
    ELSE RecoveryNext /\ dlq' = Append(dlq, Head(dlqCopy))

EndTx(p) ==
    /\ tx' = [tx EXCEPT ![p] = "none"]
    /\ params' = [params EXCEPT ![p] = {}]
    /\ inserted' = [inserted EXCEPT ![p] = {}]
    /\ charged' = [charged EXCEPT ![p] = {}]
-----------------------------------------------------------------------------
(* flushBatchWithSpendUpdate: one transaction of goroutine p.              *)

\* Acquire, Begin and GetBatchParams.
Prepare(p) ==
    /\ pc[p] = "flush" /\ tx[p] = "none"
    /\ poolOpen
    /\ tx' = [tx EXCEPT ![p] = "begun"]
    /\ params' = [params EXCEPT ![p] = Contents(Current(p))]
    /\ UNCHANGED <<logVars, bufVars, ctlVars, inserted, charged, dbVars,
                   dlqVars, aggVars, lifeVars, faults>>

\* filterBatchByInsertedIDs reads the slice a second time.
Filter_Missing(s, ids) == Contents(s)          \* mutant: charges the batch
Filter(s, ids) == ids \cap Contents(s)

NewIDs_Upsert(p) == params[p]   \* mutant: ON CONFLICT DO UPDATE
NewIDs(p) == params[p] \ rows

\* INSERT ... ON CONFLICT DO NOTHING RETURNING request_id.  The unique index
\* makes it wait for the other transaction if that one has inserted one of
\* its ids.
Insert(p) ==
    /\ tx[p] = "begun"
    /\ params[p] \cap inserted[Other(p)] = {}
    /\ LET ids == NewIDs(p)
       IN  /\ inserted' = [inserted EXCEPT ![p] = ids]
           /\ charged' = [charged EXCEPT ![p] = Filter(Current(p), ids)]
    /\ tx' = [tx EXCEPT ![p] = "inserted"]
    /\ UNCHANGED <<logVars, bufVars, ctlVars, params, dbVars, dlqVars, aggVars,
                   lifeVars, faults>>

\* The effect of the transaction on the database: the rows, and the spend of
\* the charged entries in the tables of keys, users, teams, organizations and
\* members, which the transaction updates together.
Apply(p) ==
    /\ rows' = rows \cup inserted[p]
    /\ spent' = Bump(spent, charged[p])

\* Non-blocking send of the inserted ids; dropped when the channel is full.
SendIDs(ids) ==
    pending' = IF ids # {} /\ Len(pending) < PendingCap
               THEN Append(pending, ids) ELSE pending

Commit(p) ==
    /\ tx[p] = "inserted"
    /\ Apply(p)
    /\ SendIDs(inserted[p])
    /\ EndTx(p)
    /\ OnSuccess(p)
    /\ UNCHANGED <<logVars, job, aggPc, daily, lifeVars, faults>>

\* The commit took effect but its acknowledgement was lost.
CommitLostAck(p) ==
    /\ tx[p] = "inserted"
    /\ faults < MaxFaults
    /\ faults' = faults + 1
    /\ Apply(p)
    /\ EndTx(p)
    /\ OnFailure(p)
    /\ UNCHANGED <<logVars, aggVars, lifeVars>>

\* Unhealthy pool, or a failure before or in the transaction: rolled back.
TxFail(p) ==
    /\ pc[p] = "flush"
    /\ faults < MaxFaults
    /\ faults' = faults + 1
    /\ EndTx(p)
    /\ OnFailure(p)
    /\ UNCHANGED <<logVars, dbVars, aggVars, lifeVars>>

\* A closed pool hands out no connections.
TxRefused(p) ==
    /\ pc[p] = "flush" /\ tx[p] = "none"
    /\ ~poolOpen
    /\ OnFailure(p)
    /\ UNCHANGED <<logVars, txVars, dbVars, aggVars, lifeVars, faults>>

Backoff ==
    /\ pc["worker"] = "backoff"
    /\ pc' = [pc EXCEPT !["worker"] = "flush"]
    /\ UNCHANGED <<logVars, bufVars, attempt, lastTry, closing, txVars, dbVars,
                   dlqVars, aggVars, lifeVars, faults>>

\* Shutdown during the sleep: one immediate final attempt.
BackoffInterrupted ==
    /\ pc["worker"] = "backoff"
    /\ stopped
    /\ lastTry' = TRUE
    /\ pc' = [pc EXCEPT !["worker"] = "flush"]
    /\ UNCHANGED <<logVars, bufVars, attempt, closing, txVars, dbVars, dlqVars,
                   aggVars, lifeVars, faults>>
-----------------------------------------------------------------------------
(* dlqRecoveryWorker and the first half of flushDLQ.                       *)

TakeDLQ == dlqCopy' = dlq /\ dlq' = <<>>

\* mutant: an off-by-one leaves a single dead letter where it is
RecoveryTick_OneLeft ==
    /\ pc["recovery"] = "select"
    /\ ~stopped
    /\ Len(dlq) > 1
    /\ TakeDLQ
    /\ pc' = [pc EXCEPT !["recovery"] = "flush"]
    /\ UNCHANGED <<logVars, bufVars, attempt, lastTry, closing, txVars, dbVars,
                   dlqCount, aggVars, lifeVars, faults>>

RecoveryTick ==
    /\ pc["recovery"] = "select"
    /\ ~stopped
    /\ dlq # <<>>
    /\ TakeDLQ
    /\ pc' = [pc EXCEPT !["recovery"] = "flush"]
    /\ UNCHANGED <<logVars, bufVars, attempt, lastTry, closing, txVars, dbVars,
                   dlqCount, aggVars, lifeVars, faults>>

\* mutant: the final flush does not end the goroutine
RecoveryStop_NoReturn ==
    /\ pc["recovery"] = "select"
    /\ stopped
    /\ TakeDLQ
    /\ pc' = [pc EXCEPT !["recovery"] =
                  IF dlq = <<>> THEN "done" ELSE "flush"]
    /\ UNCHANGED <<logVars, bufVars, attempt, lastTry, closing, txVars, dbVars,
                   dlqCount, aggVars, lifeVars, faults>>

RecoveryStop ==
    /\ pc["recovery"] = "select"
    /\ stopped
    /\ TakeDLQ
    /\ pc' = [pc EXCEPT !["recovery"] =
                  IF dlq = <<>> THEN "done" ELSE "flush"]
    /\ closing' = [closing EXCEPT !["recovery"] = TRUE]
    /\ UNCHANGED <<logVars, bufVars, attempt, lastTry, txVars, dbVars, dlqCount,
                   aggVars, lifeVars, faults>>
-----------------------------------------------------------------------------
(* aggregationWorker and aggregateByIDs.                                   *)

AggReceive ==
    /\ aggPc = "range"
    /\ pending # <<>>
    /\ job' = Head(pending)
    /\ pending' = Tail(pending)
    /\ aggPc' = "aggregate"
    /\ UNCHANGED <<logVars, bufVars, ctlVars, txVars, dbVars, dlqVars, daily,
                   lifeVars, faults>>

\* The unprocessed rows of a list of ids.
LoadRecords(ids) == ids \cap rows

\* Every table gets its rows.  The upserts are not in a transaction: when one
\* fails its table keeps those done so far, and the next table is tried.
AggRun(done) ==
    /\ aggPc = "aggregate"
    /\ poolOpen
    /\ LET records == LoadRecords(job)
           ok == \A a \in Aggregators : done[a] = records
       IN  /\ \A a \in Aggregators : done[a] \subseteq records
           /\ ok \/ faults < MaxFaults
           /\ faults' = IF ok THEN faults ELSE faults + 1
    /\ daily' = [a \in Aggregators |-> Bump(daily[a], done[a])]
    /\ job' = {}
    /\ aggPc' = "range"
    /\ UNCHANGED <<logVars, bufVars, ctlVars, txVars, dbVars, dlqVars, pending,
                   lifeVars>>

\* No connection, or the rows cannot be read: the ids are forgotten.
AggFail ==
    /\ aggPc = "aggregate"
    /\ poolOpen => faults < MaxFaults
    /\ faults' = IF poolOpen THEN faults + 1 ELSE faults
    /\ job' = {}
    /\ aggPc' = "range"
    /\ UNCHANGED <<logVars, bufVars, ctlVars, txVars, dbVars, dlqVars, pending,
                   daily, lifeVars>>

\* pendingAggregation is closed once both producers have returned.
AggExit ==
    /\ aggPc = "range"
    /\ pending = <<>>
    /\ \A p \in Procs : pc[p] = "done"
    /\ aggPc' = "done"
    /\ UNCHANGED <<logVars, bufVars, ctlVars, txVars, dbVars, dlqVars, pending,
                   job, daily, lifeVars, faults>>
-----------------------------------------------------------------------------
(* Shutdown and, after it, the manager closing the pool.                   *)

AllDone == aggPc = "done" /\ \A p \in Procs : pc[p] = "done"

ShutdownBegin ==
    /\ shutdown = "none"
    /\ shutdown' = "waiting"
    /\ UNCHANGED <<logVars, bufVars, ctlVars, txVars, dbVars, dlqVars, aggVars,
                   poolOpen, faults>>

ShutdownReturn ==
    /\ shutdown = "waiting"
    /\ shutdown' \in IF AllDone THEN {"complete", "timeout"} ELSE {"timeout"}
    /\ UNCHANGED <<logVars, bufVars, ctlVars, txVars, dbVars, dlqVars, aggVars,
                   poolOpen, faults>>

ClosePool ==
    /\ shutdown \in {"complete", "timeout"}
    /\ poolOpen
    /\ poolOpen' = FALSE
    /\ UNCHANGED <<logVars, bufVars, ctlVars, txVars, dbVars, dlqVars, aggVars,
                   shutdown, faults>>

\* Everything has returned: the only state in which nothing more happens.
Terminated ==
    /\ AllDone /\ ~poolOpen
    /\ \A e \in Entries : status[e] \in {"queued", "dropped"}
    /\ UNCHANGED vars
-----------------------------------------------------------------------------
LogNext == \E e \in Entries : LogSend(e) \/ LogPark(e)

WorkerNext ==
    \/ WorkerReceive \/ WorkerTick \/ WorkerStop
    \/ DrainReceive \/ DrainEnd
    \/ Backoff \/ BackoffInterrupted

FlushNext(p) == Prepare(p) \/ Insert(p) \/ Commit(p) \/ TxRefused(p)
FlushFault(p) == CommitLostAck(p) \/ TxFail(p)

RecoveryStep == RecoveryTick \/ RecoveryStop

AggNext ==
    \/ AggReceive \/ AggFail \/ AggExit
    \/ \E done \in [Aggregators -> SUBSET job] : AggRun(done)

LifeNext == ShutdownBegin \/ ShutdownReturn \/ ClosePool

Next ==
    \/ LogNext
    \/ \E e \in Entries : LogTimeout(e)
    \/ WorkerNext
    \/ \E p \in Procs : FlushNext(p) \/ FlushFault(p)
    \/ RecoveryStep
    \/ AggNext
    \/ LifeNext
    \/ Terminated

Spec == Init /\ [][Next]_vars

(***************************************************************************)
(* The Go scheduler runs every goroutine, timers fire, a transaction whose *)
(* statement can proceed ends.  Requests, faults and the decision to shut  *)
(* down are not fair.  Shutdown's own context times out.                   *)
(***************************************************************************)
Fairness ==
    /\ WF_vars(WorkerNext)
    /\ \A p \in Procs : WF_vars(FlushNext(p))
    /\ WF_vars(RecoveryStep)
    /\ WF_vars(AggNext)
    /\ \A e \in Entries : WF_vars(LogTimeout(e))
    /\ WF_vars(ShutdownReturn) /\ WF_vars(ClosePool)

FairSpec == Spec /\ Fairness
-----------------------------------------------------------------------------
(* Properties.                                                             *)

Accepted == {e \in Entries : status[e] = "queued"}
Refused  == {e \in Entries : status[e] = "dropped"}
InSeq(s) == {s[i] : i \in DOMAIN s}
InSlices(q) == UNION {Contents(q[i]) : i \in DOMAIN q}

\* The variables hold values of their Go types, and a slice never shows more
\* than its array holds (logger.go worker, addToDLQ, flushDLQ).
TypeOK ==
    /\ status \in [Entries -> {"idle", "parked", "queued", "dropped"}]
    /\ queue \in Seq(Entries)
    /\ arrays \in [{1, 2} -> Seq(Entries)]
    /\ batch \in Slice /\ batch.len <= Len(arrays[batch.arr])
    /\ pc \in [Procs -> {"select", "drain", "flush", "backoff", "done"}]
    /\ attempt \in Nat
    /\ lastTry \in BOOLEAN
    /\ closing \in [Procs -> BOOLEAN]
    /\ tx \in [Procs -> {"none", "begun", "inserted"}]
    /\ params \in [Procs -> SUBSET Entries]
    /\ inserted \in [Procs -> SUBSET Entries]
    /\ charged \in [Procs -> SUBSET Entries]
    /\ rows \subseteq Entries
    /\ spent \in [Entries -> Nat]
    /\ daily \in [Aggregators -> [Entries -> Nat]]
    /\ dlq \in Seq(Slice) /\ dlqCopy \in Seq(Slice) /\ dlqCount \in Nat
    /\ \A i \in DOMAIN dlq : dlq[i].len <= Len(arrays[dlq[i].arr])
    /\ \A i \in DOMAIN dlqCopy : dlqCopy[i].len <= Len(arrays[dlqCopy[i].arr])
    /\ pending \in Seq(SUBSET Entries)
    /\ job \subseteq Entries
    /\ aggPc \in {"range", "aggregate", "done"}
    /\ shutdown \in {"none", "waiting", "complete", "timeout"}
    /\ poolOpen \in BOOLEAN
    /\ faults \in Nat

NoDoubleCharge ==
    \A e \in Entries : spent[e] <= 1 /\ (spent[e] = 1 => e \in rows)

DailyAtMostOnce ==
    \A a \in Aggregators : \A e \in Entries :
        daily[a][e] <= 1 /\ (daily[a][e] = 1 => e \in rows)

\* Retries after a lost commit acknowledgement, dead letters and two
\* concurrent transactions never add an entry's spend twice, nor without its
\* row (ON CONFLICT DO NOTHING plus filterBatchByInsertedIDs), and no daily
\* table counts a row twice (only ids the INSERT returned are posted).
CountedOnce == NoDoubleCharge /\ DailyAtMostOnce

ConservedUntilDLQ ==
    dlqCount = 0 => Accepted \subseteq InSeq(queue) \cup Contents(batch) \cup rows

ChargedUntilDLQ == dlqCount = 0 => \A e \in rows : spent[e] = 1

\* As long as no batch has been given up, every accepted entry is still in
\* the queue or the worker's batch or has its row, whatever was retried,
\* interrupted by shutdown or drained (worker, flushBatch), and a row and its
\* charge go together.
KeptUntilDLQ == ConservedUntilDLQ /\ ChargedUntilDLQ

\* A batch leaves the dead letters only for the database: their number goes
\* down only in a step that leaves all of the batch's rows committed
\* (flushDLQ re-adds what failed).
DeadLetters == Len(dlq) + Len(dlqCopy)
DeadLettersLeaveWritten ==
    [][DeadLetters' < DeadLetters =>
          tx["recovery"] = "inserted" /\ params["recovery"] \subseteq rows']_vars

\* What the logger does to the tables is what the ledger allows.
Ledger == INSTANCE SpendLedger WITH accepted <- Accepted, refused <- Refused
LedgerSpec == Ledger!LedgerSpec

\* Shutdown stops: the three goroutines return, whatever state they were in
\* (stopChan interrupts the backoff, pendingAggregation gets closed).
ShutdownTerminates == stopped ~> AllDone

\* An entry accepted before shutdown gets its row, unless a batch has been
\* given up or Shutdown stops waiting.
AcceptedIsWritten ==
    \A e \in Entries :
        (status[e] = "queued" /\ ~stopped)
            ~> (e \in rows \/ dlqCount > 0 \/ shutdown = "timeout")

\* Once the database works again the recovery goroutine empties the dead
\* letter queue, unless shutdown ends it first.
DeadLettersDrain == (DeadLetters > 0) ~> (DeadLetters = 0 \/ stopped)
-----------------------------------------------------------------------------
(* What the comments of logger.go say, and the code does not do.           *)

\* logger.go "Dead Letter Queue: persists batches that fail after all
\* retries": with fewer dead letters than the DLQ holds nothing is lost.
DLQPersistsBatches ==
    dlqCount <= DLQMax =>
        Accepted \subseteq InSeq(queue) \cup Contents(batch) \cup rows
                              \cup InSlices(dlq) \cup InSlices(dlqCopy)

\* logger.go "DLQ is a circular buffer with max 10 batches".
DLQBounded == Len(dlq) <= DLQMax

\* logger.go "executes batch INSERT and spend updates atomically".
SpendAtomic == \A e \in rows : spent[e] = 1

\* logger.go "Graceful shutdown: waits for all logs to be written".
\* with no failure, whatever was accepted when Shutdown returns nil has its row.
GracefulShutdown ==
    [][shutdown' = "complete" /\ shutdown # "complete" /\ faults = 0
          => Accepted \subseteq rows]_vars

\* logger.go "pendingAggregation channel full, safety-net will handle".
SafetyNet ==
    \A a \in Aggregators : \A e \in Entries : (e \in rows) ~> (daily[a][e] = 1)
=============================================================================
