---------------------------- MODULE SqliteWriter ----------------------------
(***************************************************************************)
(* The single SQLite writer of one run (webapp/backend/sources/writer.py)  *)
(* and the run's clean-up path that drains and closes it                   *)
(* (scheduler.py, the finally of _execute).                                *)
(*                                                                         *)
(* Three schedules meet here.  The asyncio event loop runs producers, the  *)
(* deferred puts, the writer task and the run task, one step between two   *)
(* awaits at a time.  A worker thread runs each transaction.  asyncio.Queue*)
(* sits between them: a put that finds the queue full parks, a get wakes   *)
(* the longest-parked put, and the woken put tries again when the event    *)
(* loop gets to it - other tasks may have taken its slot by then.          *)
(*                                                                         *)
(* An operation is the number of its submission, so the order of calls is  *)
(* the order of numbers.  Every operation carries one run event.           *)
(***************************************************************************)
EXTENDS Integers, Sequences, FiniteSets

CONSTANTS
    QueueSize,       \* maxsize of the asyncio.Queue
    MaxOpsPerTx,     \* max_ops_per_transaction
    MaxParked,       \* bound: awaited submits outstanding at once (targets)
    MaxSubmits,      \* bound: operations the targets submit
    PriorEvents,     \* bound: run_events rows the run already has (a resume)
    MaxDropped,      \* bound: refused deferred submits are counted up to here
    MayCancelTask,   \* the writer task may be cancelled from outside
    MayCancelRun,    \* so may the run task, while it cleans up
    HookMayRaise     \* on_commit may raise

ASSUME WriterAssumption ==
    /\ QueueSize \in Nat \ {0}
    /\ MaxOpsPerTx \in Nat \ {0}
    /\ MaxParked \in Nat /\ MaxSubmits \in Nat
    /\ PriorEvents \in Nat /\ MaxDropped \in Nat
    /\ MayCancelTask \in BOOLEAN /\ MayCancelRun \in BOOLEAN
    /\ HookMayRaise \in BOOLEAN

\* The targets' operations, then MarkPresence, SummarizeChanges and FinishRun.
Ops == 1 .. (MaxSubmits + 3)

VARIABLES
    queue,         \* operations in the asyncio.Queue
    pill,          \* operations ahead of the stop sentinel, -1: not queued
    unfinished,    \* the queue's unfinished-task counter, which join() reads
    putters,       \* puts parked on the full queue, longest-parked first
    ready,         \* puts the event loop will run next: created or woken
    submitted,     \* stats.submitted, and the number of the last operation
    told,          \* what the submitter of each operation has been told
    loop,          \* where the writer task is
    cancelling,    \* a cancel of the writer task is waiting to be delivered
    txn,           \* the batch handed to the worker thread
    thread,        \* where that transaction is
    conn,          \* the sqlite connection
    held,          \* self._task is not None
    failure,       \* self._failure is not None
    seqCache,      \* self._sequences for this run, -1: not cached
    dropped,       \* stats.dropped
    drainTimeouts, \* stats.drain_timeouts
    stage,         \* the run: fetching, or a stage of its clean-up
    step,          \* what the clean-up is waiting for
    durable,       \* operations committed, in commit order
    runEvents,     \* the sequence column of run_events, in insertion order
    puts,          \* history: operations put in the queue, in order
    broadcast      \* history: operations whose events on_commit was given

queueVars == <<queue, pill, unfinished, putters, ready>>
callVars  == <<submitted, told>>
taskVars  == <<loop, cancelling, failure>>
txVars    == <<txn, thread, seqCache, durable, runEvents>>
closeVars == <<conn, held>>
runVars   == <<stage, step>>
vars == <<queueVars, callVars, taskVars, txVars, closeVars, runVars,
          dropped, drainTimeouts, puts, broadcast>>

-----------------------------------------------------------------------------
(* The asyncio.Queue *)

QLen == Len(queue) + (IF pill >= 0 THEN 1 ELSE 0)

Full == QLen >= QueueSize

Minimum(a, b) == IF a <= b THEN a ELSE b

\* n gets wake the n longest-parked puts: they move behind rdy, the puts the
\* event loop already has to run.
Wake(n, rdy) ==
    LET k == Minimum(n, Len(putters)) IN
    /\ ready' = rdy \o SubSeq(putters, 1, k)
    /\ putters' = SubSeq(putters, k + 1, Len(putters))

RemoveIndex(s, i) == SubSeq(s, 1, i - 1) \o SubSeq(s, i + 1, Len(s))

Waiting == {putters[i] : i \in 1 .. Len(putters)} \cup
           {ready[i] : i \in 1 .. Len(ready)}

\* Nothing else runs on the event loop between the drain in aclose and the
\* put_nowait(_SENTINEL) behind it, between a cancelled drain and the finally
\* of aclose, or while that finally blocks the loop on the commit lock.
LoopFree == step \notin {"sentinel", "release", "unlock"}

-----------------------------------------------------------------------------
(* The death check every producer makes: _reap and _abandon *)

TaskDone == loop \in {"stopped", "died"}

\* Variant: a death outside _commit is not adopted.
FailureNotAdopted == failure

FailureAfterReap == failure \/ (held /\ loop = "died")

Abandons == held /\ TaskDone /\ FailureAfterReap

\* _reap: adopt a death nobody recorded; if the writer has failed, empty the
\* queue, count what was in it and wake whoever is parked.
Reap ==
    /\ failure' = FailureAfterReap
    /\ IF Abandons
       THEN /\ queue' = <<>> /\ pill' = -1
            /\ unfinished' = unfinished - QLen
            /\ dropped' = dropped + Len(queue)
            /\ Wake(QLen, ready)
       ELSE UNCHANGED <<queueVars, dropped>>

\* The pre-check of _raise_if_failed passes (and its _reap did nothing).
Accepts == ~FailureAfterReap /\ loop # "stopped"

-----------------------------------------------------------------------------
(* Submission *)

\* submit past its first check: the put parks on a full queue, and otherwise
\* lands at once, with nothing between it and the second check.
AcceptAwaited(o) ==
    /\ Accepts
    /\ submitted' = o
    /\ IF Full
       THEN /\ putters' = Append(putters, o)
            /\ told' = [told EXCEPT ![o] = "await"]
            /\ UNCHANGED <<queue, unfinished, puts>>
       ELSE /\ queue' = Append(queue, o)
            /\ unfinished' = unfinished + 1
            /\ puts' = Append(puts, o)
            /\ told' = [told EXCEPT ![o] = "returned"]
            /\ UNCHANGED putters
    /\ UNCHANGED <<pill, ready, dropped, failure>>

\* submit_soon on a live writer: the put gets a task of its own.
AcceptSoon(o) ==
    /\ Accepts
    /\ submitted' = o
    /\ told' = [told EXCEPT ![o] = "soon"]
    /\ ready' = Append(ready, o)
    /\ UNCHANGED <<queue, pill, unfinished, putters, dropped, failure>>

\* A target's await submit(op), accepted.
Submit ==
    /\ LoopFree /\ stage = "targets" /\ submitted < MaxSubmits
    /\ Cardinality({o \in Ops : told[o] = "await"}) < MaxParked
    /\ AcceptAwaited(submitted + 1)
    /\ UNCHANGED <<loop, cancelling, txVars, closeVars, runVars,
                   drainTimeouts, broadcast>>

\* A target's submit that raises WriterError at its first check.
SubmitRefused ==
    /\ LoopFree /\ stage = "targets" /\ ~Accepts
    /\ Reap
    /\ UNCHANGED <<callVars, loop, cancelling, txVars, closeVars, runVars,
                   drainTimeouts, puts, broadcast>>

\* A target's submit_soon(op), accepted.
SubmitSoon ==
    /\ LoopFree /\ stage = "targets" /\ submitted < MaxSubmits
    /\ AcceptSoon(submitted + 1)
    /\ UNCHANGED <<loop, cancelling, txVars, closeVars, runVars,
                   drainTimeouts, puts, broadcast>>

\* submit_soon on a failed or stopped writer: _reap, then one more dropped.
RefuseSoon ==
    /\ ~Accepts
    /\ failure' = FailureAfterReap
    /\ IF Abandons
       THEN /\ queue' = <<>> /\ pill' = -1
            /\ unfinished' = unfinished - QLen
            /\ dropped' = dropped + Len(queue) + 1
            /\ Wake(QLen, ready)
       ELSE /\ dropped' = dropped + 1
            /\ UNCHANGED queueVars
    /\ UNCHANGED callVars

SubmitSoonRefused ==
    /\ LoopFree /\ stage = "targets" /\ dropped < MaxDropped
    /\ RefuseSoon
    /\ UNCHANGED <<loop, cancelling, txVars, closeVars, runVars,
                   drainTimeouts, puts, broadcast>>

\* What a put's caller learns from the check after the put.
Answer(o) ==
    IF told[o] = "soon" THEN "soon"
    ELSE IF FailureAfterReap \/ loop = "stopped" THEN "raised" ELSE "returned"

\* The event loop runs the next created or woken put.  A slot taken by
\* somebody else meanwhile parks it again, behind every put parked since;
\* otherwise the operation is queued and the death check runs again, which
\* drops the operation with the rest of an abandoned queue.
RunPut ==
    /\ LoopFree /\ ready # <<>>
    /\ LET o == Head(ready) IN
       IF Full
       THEN /\ putters' = Append(putters, o)
            /\ ready' = Tail(ready)
            /\ UNCHANGED <<queue, pill, unfinished, told, failure, dropped, puts>>
       ELSE /\ puts' = Append(puts, o)
            /\ told' = [told EXCEPT ![o] = Answer(o)]
            /\ failure' = FailureAfterReap
            /\ IF Abandons
               THEN /\ queue' = <<>> /\ pill' = -1
                    /\ unfinished' = unfinished - QLen
                    /\ dropped' = dropped + Len(queue) + 1
                    /\ Wake(QLen + 1, Tail(ready))
               ELSE /\ queue' = Append(queue, o)
                    /\ unfinished' = unfinished + 1
                    /\ ready' = Tail(ready)
                    /\ UNCHANGED <<pill, putters, dropped>>
    /\ UNCHANGED <<submitted, loop, cancelling, txVars, closeVars, runVars,
                   drainTimeouts, broadcast>>

\* A cancel reaches an awaited submit: its put is withdrawn.  One that had
\* been woken passes its wake-up on.
WithdrawAwaited ==
    \/ \E i \in 1 .. Len(putters) :
         /\ told[putters[i]] = "await"
         /\ told' = [told EXCEPT ![putters[i]] = "withdrawn"]
         /\ putters' = RemoveIndex(putters, i)
         /\ UNCHANGED ready
    \/ \E i \in 1 .. Len(ready) :
         /\ told[ready[i]] = "await"
         /\ told' = [told EXCEPT ![ready[i]] = "withdrawn"]
         /\ Wake(IF Full THEN 0 ELSE 1, RemoveIndex(ready, i))

\* A target's deadline or the run's cancel.
CancelSubmit ==
    /\ LoopFree /\ stage = "targets"
    /\ WithdrawAwaited
    /\ UNCHANGED <<queue, pill, unfinished, submitted, taskVars, txVars,
                   closeVars, runVars, dropped, drainTimeouts, puts, broadcast>>

-----------------------------------------------------------------------------
(* The writer task: _loop *)

TaskRuns == LoopFree /\ ~cancelling

\* The first get finds the sentinel: a clean stop, whatever is behind it.
TakeSentinel ==
    /\ TaskRuns /\ loop = "get" /\ pill = 0
    /\ pill' = -1
    /\ unfinished' = unfinished - 1
    /\ Wake(1, ready)
    /\ loop' = "stopped"
    /\ UNCHANGED <<queue, callVars, cancelling, failure, txVars, closeVars,
                   runVars, dropped, drainTimeouts, puts, broadcast>>

\* Variant: the put-back of the sentinel forgets its task_done.
PutBackUnsettled(meets) == IF meets THEN 1 ELSE 0

\* What a put-back sentinel does to the join counter: one put, one task_done.
PutBack(meets) == IF meets THEN 1 - 1 ELSE 0

\* Collect a batch and hand it to a worker thread.  Reaching the sentinel
\* with room left in the batch puts it back, at the END of the queue.
TakeBatch ==
    /\ TaskRuns /\ loop = "get" /\ queue # <<>> /\ pill # 0
    /\ LET ahead == IF pill > 0 THEN pill ELSE Len(queue)
           n == Minimum(MaxOpsPerTx, ahead)
           meets == pill = n /\ n < MaxOpsPerTx
       IN /\ txn' = SubSeq(queue, 1, n)
          /\ queue' = SubSeq(queue, n + 1, Len(queue))
          /\ pill' = IF pill < 0 THEN -1
                     ELSE IF meets THEN Len(queue) - n ELSE pill - n
          /\ unfinished' = unfinished + PutBack(meets)
          /\ Wake(IF meets THEN n + 1 ELSE n, ready)
    /\ thread' = "handed"
    /\ loop' = "commit"
    /\ UNCHANGED <<callVars, cancelling, failure, seqCache, durable,
                   runEvents, closeVars, runVars, dropped, drainTimeouts, puts,
                   broadcast>>

\* Variant: the hook is called whether or not the transaction committed.
TransactionEnded == thread \in {"ok", "err"}

TransactionCommitted == thread = "ok"

\* The transaction committed: settle the join counter, then broadcast.
CommitReturns ==
    /\ TaskRuns /\ loop = "commit" /\ TransactionCommitted
    /\ unfinished' = unfinished - Len(txn)
    /\ txn' = <<>> /\ thread' = "idle"
    /\ \/ /\ loop' = "get"
          /\ broadcast' = broadcast \o txn
       \/ /\ HookMayRaise             \* on_commit raised: the task is dead
          /\ loop' = "died"
          /\ UNCHANGED broadcast
    /\ UNCHANGED <<queue, pill, putters, ready, callVars, cancelling, failure,
                   seqCache, durable, runEvents, closeVars, runVars, dropped,
                   drainTimeouts, puts>>

\* Variants: the loop carries on, or ends without consuming its queue.
LoopCarriesOn == "get"
LoopEnds == "stopped"

\* After a fatal commit failure the task keeps consuming.
AfterFailedCommit == "drop"

\* The transaction failed: record it and keep consuming, so that no parked
\* producer waits on a queue nobody reads.
CommitRaises ==
    /\ TaskRuns /\ loop = "commit" /\ thread = "err"
    /\ failure' = TRUE
    /\ unfinished' = unfinished - Len(txn)
    /\ txn' = <<>> /\ thread' = "idle"
    /\ loop' = AfterFailedCommit
    /\ UNCHANGED <<queue, pill, putters, ready, callVars, cancelling, seqCache,
                   durable, runEvents, closeVars, runVars, dropped,
                   drainTimeouts, puts, broadcast>>

\* _drain_and_drop: one get.
Drop ==
    /\ TaskRuns /\ loop = "drop" /\ QLen > 0
    /\ unfinished' = unfinished - 1
    /\ Wake(1, ready)
    /\ IF pill = 0
       THEN /\ pill' = -1 /\ loop' = "stopped"
            /\ UNCHANGED <<queue, dropped>>
       ELSE /\ queue' = Tail(queue)
            /\ pill' = IF pill > 0 THEN pill - 1 ELSE pill
            /\ dropped' = dropped + 1
            /\ UNCHANGED loop
    /\ UNCHANGED <<callVars, cancelling, failure, txVars, closeVars, runVars,
                   drainTimeouts, puts, broadcast>>

\* Somebody outside cancels the writer task (event-loop teardown).
CancelTask ==
    /\ MayCancelTask /\ LoopFree /\ ~TaskDone /\ ~cancelling /\ held
    /\ cancelling' = TRUE
    /\ UNCHANGED <<queueVars, callVars, loop, failure, txVars, closeVars,
                   runVars, dropped, drainTimeouts, puts, broadcast>>

\* The cancel reaches the task.  During a commit it is caught as that commit's
\* failure - the worker thread keeps running - and the task goes on to drop.
DeliverCancel ==
    /\ LoopFree /\ cancelling
    /\ cancelling' = FALSE
    /\ IF loop = "commit"
       THEN /\ failure' = TRUE
            /\ unfinished' = unfinished - Len(txn)
            /\ loop' = "drop"
       ELSE /\ loop' = "died"
            /\ UNCHANGED <<failure, unfinished>>
    /\ UNCHANGED <<queue, pill, putters, ready, callVars, txVars, closeVars,
                   runVars, dropped, drainTimeouts, puts, broadcast>>

-----------------------------------------------------------------------------
(* The worker thread: _commit.  It holds the commit lock from its first     *)
(* statement to its last, the pause before the retry included.              *)

Locked == thread \in {"first", "pause", "second"}

\* _commit_once reads self._conn and asserts it is there.
BeginTry ==
    /\ \/ thread = "handed" /\ thread' = IF conn = "open" THEN "first" ELSE "err"
       \/ thread = "pause" /\ thread' = IF conn = "open" THEN "second" ELSE "err"
    /\ UNCHANGED <<queueVars, callVars, taskVars, txn, seqCache, durable,
                   runEvents, closeVars, runVars, dropped, drainTimeouts, puts,
                   broadcast>>

EventRows == {runEvents[i] : i \in 1 .. Len(runEvents)}

\* next_event_sequence: MAX(sequence) + 1.
NextEventSequence ==
    IF runEvents = <<>> THEN 0
    ELSE 1 + CHOOSE s \in EventRows : \A t \in EventRows : t <= s

\* The first sequence number this transaction allocates.
FirstSequence == IF seqCache = -1 THEN NextEventSequence ELSE seqCache

\* Rows and events of the whole batch commit together.
CommitTry ==
    /\ thread \in {"first", "second"}
    /\ LET first == FirstSequence IN
       /\ runEvents' = runEvents \o [i \in 1 .. Len(txn) |-> first + i - 1]
       /\ seqCache' = first + Len(txn)
    /\ durable' = durable \o txn
    /\ thread' = "ok"
    /\ UNCHANGED <<queueVars, callVars, taskVars, txn, closeVars, runVars,
                   dropped, drainTimeouts, puts, broadcast>>

\* Variant: a rollback keeps the numbers it allocated.
SequencesKept == FirstSequence + Len(txn)

\* A rollback puts the snapshot of the sequence cache back.
SequencesRestored == seqCache

\* A try rolls back and restores the sequence cache.  A busy database on the
\* first try is retried once; anything else is raised.
RollbackTry ==
    /\ \/ thread = "first" /\ thread' \in {"pause", "err"}
       \/ thread = "second" /\ thread' = "err"
    /\ seqCache' = SequencesRestored
    /\ UNCHANGED <<queueVars, callVars, taskVars, txn, durable,
                   runEvents, closeVars, runVars, dropped, drainTimeouts, puts,
                   broadcast>>

-----------------------------------------------------------------------------
(* The run's clean-up: drain, the two settling passes, FinishRun, aclose *)

AfterStage == [totals |-> "presence", presence |-> "changes",
               changes |-> "finish", close |-> "close"]

\* Leave a drain (or a settling pass that could not submit).
LeaveTo(s) ==
    /\ stage' = s
    /\ step' = IF stage = "close" THEN "sentinel" ELSE "submit"

\* Every target has settled: the first drain begins, with its _reap.
StartCleanup ==
    /\ LoopFree /\ stage = "targets"
    /\ \A o \in Ops : told[o] # "await"
    /\ stage' = "totals" /\ step' = "gather"
    /\ Reap
    /\ UNCHANGED <<callVars, loop, cancelling, txVars, closeVars, drainTimeouts,
                   puts, broadcast>>

\* Variant: the drain does not wait for the deferred puts.
GatherSkipped == TRUE

\* gather(*self._pending): every put task has finished.
Gathered == Waiting = {}

\* Every deferred put has finished: _reap again; a dead task drains nothing.
GatherDone ==
    /\ step = "gather" /\ Gathered
    /\ Reap
    /\ IF TaskDone
       THEN LeaveTo(AfterStage[stage])
       ELSE stage' = stage /\ step' = "join"
    /\ UNCHANGED <<callVars, loop, cancelling, txVars, closeVars, drainTimeouts,
                   puts, broadcast>>

\* queue.join() returns, and drain() returns True.
DrainTrue ==
    /\ step = "join" /\ unfinished = 0
    /\ LeaveTo(AfterStage[stage])
    /\ UNCHANGED <<queueVars, callVars, taskVars, txVars, closeVars, dropped,
                   drainTimeouts, puts, broadcast>>

\* Cancelling a drain that gathers cancels the puts it waits for.
WithdrawDeferred ==
    /\ told' = [o \in Ops |-> IF o \in Waiting THEN "withdrawn" ELSE told[o]]
    /\ putters' = <<>> /\ ready' = <<>>

\* The drain's timeout, long after every ready put has run: drain() returns
\* False.
DrainTimeout ==
    /\ \/ step = "gather" /\ putters # <<>> /\ ready = <<>> /\ WithdrawDeferred
       \/ step = "join" /\ unfinished > 0 /\ UNCHANGED <<told, putters, ready>>
    /\ drainTimeouts' = drainTimeouts + 1
    /\ LeaveTo(AfterStage[stage])
    /\ UNCHANGED <<queue, pill, unfinished, submitted, taskVars, txVars,
                   closeVars, dropped, puts, broadcast>>

\* A cancel of the run task lands in one of these waits and is absorbed
\* there; inside aclose it goes straight to the release.
CancelCleanup ==
    /\ MayCancelRun
    /\ \/ step = "gather" /\ Waiting # {} /\ WithdrawDeferred
       \/ step = "join" /\ unfinished > 0 /\ UNCHANGED <<told, putters, ready>>
       \/ step = "parked" /\ WithdrawAwaited
    /\ stage' = AfterStage[stage]
    /\ step' = IF stage = "close" THEN "release" ELSE "submit"
    /\ UNCHANGED <<queue, pill, unfinished, submitted, taskVars, txVars,
                   closeVars, dropped, drainTimeouts, puts, broadcast>>

\* _settle_presence / _settle_changes decline: a recorded failure, or (for
\* presence) a run status that licenses no marking.
SettleSkip ==
    /\ step = "submit" /\ stage \in {"presence", "changes"}
    /\ failure \/ stage = "presence"
    /\ LeaveTo(AfterStage[stage])
    /\ UNCHANGED <<queueVars, callVars, taskVars, txVars, closeVars, dropped,
                   drainTimeouts, puts, broadcast>>

\* ... submit their operation, with no bound on the wait for a free slot ...
SettleSubmit ==
    /\ step = "submit" /\ stage \in {"presence", "changes"} /\ ~failure
    /\ \/ /\ AcceptAwaited(submitted + 1)
          /\ step' = "parked" /\ stage' = stage
       \/ /\ ~Accepts /\ Reap
          /\ LeaveTo(AfterStage[stage])
          /\ UNCHANGED <<callVars, puts>>
    /\ UNCHANGED <<loop, cancelling, txVars, closeVars, drainTimeouts, broadcast>>

\* ... and drain behind it, unless the submit raised.
SettleDrain ==
    /\ step = "parked"
    /\ \/ /\ told[submitted] = "returned"
          /\ step' = "gather" /\ stage' = stage
          /\ Reap
       \/ /\ told[submitted] = "raised"
          /\ LeaveTo(AfterStage[stage])
          /\ UNCHANGED <<queueVars, dropped, failure>>
    /\ UNCHANGED <<callVars, loop, cancelling, txVars, closeVars, drainTimeouts,
                   puts, broadcast>>

\* submit_soon(FinishRun), and aclose enters its own drain.
SubmitFinishRun ==
    /\ step = "submit" /\ stage = "finish"
    /\ AcceptSoon(submitted + 1) \/ RefuseSoon
    /\ stage' = "close" /\ step' = "gather"
    /\ UNCHANGED <<loop, cancelling, txVars, closeVars, drainTimeouts, puts,
                   broadcast>>

QueueEnd == Len(queue)

\* put_nowait(_SENTINEL), QueueFull suppressed.
PutSentinel ==
    /\ step = "sentinel"
    /\ IF Full
       THEN UNCHANGED <<pill, unfinished>>
       ELSE pill' = QueueEnd /\ unfinished' = unfinished + 1
    /\ step' = "wait"
    /\ UNCHANGED <<queue, putters, ready, callVars, taskVars, txVars, closeVars,
                   stage, dropped, drainTimeouts, puts, broadcast>>

\* The finally of aclose.  The wait for the task may end with the task, with
\* its timeout or with a cancel: release the task, cancelling it if it still
\* runs, and take the connection.
Release ==
    /\ step \in {"wait", "release"}
    /\ Reap
    /\ held' = FALSE
    /\ cancelling' = (cancelling \/ ~TaskDone)
    /\ conn' = "taken"
    /\ step' = "unlock"
    /\ UNCHANGED <<callVars, loop, txVars, stage, drainTimeouts, puts, broadcast>>

\* Variant: the connection is closed without the commit lock.
ClosedRegardless == "closed"

\* _close_connection: close under the commit lock, or leak after the bound.
ClosedOrLeaked == IF Locked THEN "leaked" ELSE "closed"

CloseConnection ==
    /\ step = "unlock"
    /\ conn' = ClosedOrLeaked
    /\ stage' = "closed" /\ step' = "end"
    /\ UNCHANGED <<queueVars, callVars, taskVars, txVars, held, dropped,
                   drainTimeouts, puts, broadcast>>

\* The run has released its writer.
Closed ==
    /\ stage = "closed"
    /\ UNCHANGED vars

-----------------------------------------------------------------------------
Init ==
    /\ queue = <<>> /\ pill = -1 /\ unfinished = 0
    /\ putters = <<>> /\ ready = <<>>
    /\ submitted = 0 /\ told = [o \in Ops |-> "unborn"]
    /\ loop = "get" /\ cancelling = FALSE /\ failure = FALSE
    /\ txn = <<>> /\ thread = "idle" /\ seqCache = -1
    /\ durable = <<>>
    /\ \E n \in 0 .. PriorEvents : runEvents = [i \in 1 .. n |-> i - 1]
    /\ conn = "open" /\ held = TRUE
    /\ stage = "targets" /\ step = "fetch"
    /\ dropped = 0 /\ drainTimeouts = 0
    /\ puts = <<>> /\ broadcast = <<>>

Producer == Submit \/ SubmitRefused \/ SubmitSoon \/ SubmitSoonRefused \/ CancelSubmit

WriterTask == TakeSentinel \/ TakeBatch \/ CommitReturns \/ CommitRaises
              \/ Drop \/ DeliverCancel

Worker == BeginTry \/ CommitTry \/ RollbackTry

Cleanup == StartCleanup \/ GatherDone \/ DrainTrue \/ DrainTimeout \/ CancelCleanup \/ SettleSkip
           \/ SettleSubmit \/ SettleDrain \/ SubmitFinishRun \/ PutSentinel
           \/ Release \/ CloseConnection

Next == Producer \/ RunPut \/ WriterTask \/ CancelTask \/ Worker \/ Cleanup \/ Closed

Spec == Init /\ [][Next]_vars

\* asyncio runs every task that can run: the put tasks, the writer task and
\* the run's clean-up (its timeouts are timers, so they fire).
LoopFairness == WF_vars(RunPut) /\ WF_vars(WriterTask) /\ WF_vars(Cleanup)

\* A transaction ends: sqlite's busy timeout bounds it.
WorkerFairness == WF_vars(Worker)

FairSpec == Spec /\ LoopFairness /\ WorkerFairness

-----------------------------------------------------------------------------
(* Properties *)

QueueType ==
    /\ queue \in Seq(Ops) /\ putters \in Seq(Ops) /\ ready \in Seq(Ops)
    /\ pill \in -1 .. Len(queue)
    /\ unfinished \in Int

CallType ==
    /\ submitted \in 0 .. (MaxSubmits + 3)
    /\ told \in [Ops -> {"unborn", "await", "soon", "returned", "raised", "withdrawn"}]

TaskType ==
    /\ loop \in {"get", "commit", "drop", "stopped", "died"}
    /\ cancelling \in BOOLEAN /\ failure \in BOOLEAN

TxType ==
    /\ txn \in Seq(Ops) /\ durable \in Seq(Ops)
    /\ thread \in {"idle", "handed", "first", "pause", "second", "ok", "err"}
    /\ seqCache \in Nat \cup {-1}
    /\ runEvents \in Seq(Int)

RunType ==
    /\ conn \in {"open", "taken", "closed", "leaked"} /\ held \in BOOLEAN
    /\ stage \in {"targets", "totals", "presence", "changes", "finish", "close", "closed"}
    /\ step \in {"fetch", "submit", "parked", "gather", "join", "sentinel",
                 "wait", "release", "unlock", "end"}

CountType == dropped \in Nat /\ drainTimeouts \in Nat

HistoryType == puts \in Seq(Ops) /\ broadcast \in Seq(Ops)

TypeOK ==
    /\ QueueType /\ CallType /\ TaskType /\ TxType
    /\ RunType /\ CountType /\ HistoryType

Prefix(s, t) == Len(s) <= Len(t) /\ \A i \in 1 .. Len(s) : s[i] = t[i]

\* What has committed is a prefix of what reached the queue, in queue order,
\* through batching, busy retries, failures, abandoned queues and cancelled
\* tasks: no operation commits twice, out of turn, or past a lost one.  It is
\* why a target's source_runs row is there before the rows that reference it.
DurablePrefix == Prefix(durable, puts)

\* on_commit is only ever given events that are already committed, in commit
\* order and without a gap: "durability before broadcast".
BroadcastDurable == Prefix(broadcast, durable)

\* run_events sequence numbers are 0, 1, 2, ... with no hole and no repeat,
\* across a resume, the writer's cache and rolled-back tries.
GapFree == \A i \in 1 .. Len(runEvents) : runEvents[i] = i - 1

\* The counter join() waits on is exactly what is queued or in the batch the
\* writer task is committing, through put-back sentinels and abandoned queues.
JoinCounter ==
    unfinished = QLen + (IF loop = "commit" THEN Len(txn) ELSE 0)

\* The connection is never closed under a running transaction.
ClosedOutsideCommit == conn = "closed" => ~Locked

Durable(o) == \E i \in 1 .. Len(durable) : durable[i] = o

\* A submit that raised WriterError really did not happen: the target re-sends
\* that batch or reports it lost, so it must never commit behind its back.
RaisedNeverCommits == \A o \in Ops : told[o] = "raised" => ~Durable(o)

\* drain() returning True on a writer that has not failed and never gave up a
\* drain means every operation submitted and not withdrawn by its own target
\* is committed: the settling passes read a complete snapshot of the run.
DrainIsComplete ==
    [][DrainTrue /\ ~failure /\ drainTimeouts = 0 /\ ~MayCancelRun =>
         \A o \in Ops : told[o] \in {"soon", "returned"} => Durable(o)]_vars

\* When the writer is released, an operation its submitter believes handed
\* over is committed, unless a failure, a drop or a given-up drain says so.
LossIsVisible ==
    stage = "closed" /\ ~MayCancelRun =>
        \/ failure \/ dropped > 0 \/ drainTimeouts > 0
        \/ \A o \in Ops : told[o] \in {"soon", "returned"} => Durable(o)

Log == INSTANCE DurableLog WITH log <- durable, announced <- broadcast

\* The writer implements the log it promises: commits only append, and the
\* broadcast hook follows the log in order, never ahead of it.
ImplementsLog == Log!Spec

\* A producer parked on a full queue is released, by a slot or by an error,
\* even when the commit it waits behind fails; only a writer task that dies
\* outside a commit can leave it parked until somebody else submits.
ParkedReleased ==
    \A o \in Ops : told[o] = "await" ~> told[o] # "await" \/ loop = "died"

\* Once the targets have settled, the clean-up reaches the end and the writer
\* is released, whatever commits fail and drains give up, unless the writer
\* task was killed outside a commit.
CleanupEnds == stage = "totals" ~> stage = "closed" \/ loop = "died"

\* Nobody waits for the writer for ever: parked producers are let go and the
\* clean-up of the run ends.
ShutdownEnds == ParkedReleased /\ CleanupEnds
=============================================================================
