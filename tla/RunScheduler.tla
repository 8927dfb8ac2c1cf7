---------------------------- MODULE RunScheduler ----------------------------
(***************************************************************************)
(* One run of the source scheduler (webapp/backend/sources/scheduler.py)   *)
(* over its tables (runstore.py), across process deaths and explicit       *)
(* resumes: preflight and orphan recovery, the target tasks with their     *)
(* gates, attempts, retries, deadlines and checkpoints, cancellation, the  *)
(* settling passes and the presence pass that marks postings absent.       *)
(*                                                                         *)
(* The writer is a queue whose operations commit one by one, each of them  *)
(* atomically; how it does that is the subject of SqliteWriter.  A target  *)
(* task runs from one await to the next in one step.                       *)
(*                                                                         *)
(* A source's board is the sequence Inventory[s] of the postings on it; an *)
(* adapter yields them in order, and a checkpoint is a position in it.     *)
(***************************************************************************)
EXTENDS Integers, Sequences, FiniteSets

CONSTANTS
    Plan,           \* the planned targets (source instances), in plan order
    Complete,       \* those with inventory_scope 'complete'
    Postings,
    Inventory,      \* the board of each source, as its adapter enumerates it
    Owned,          \* postings with an active source_req alias of the source
    AbsentBefore,   \* postings an earlier run marked absent
    GateSeq,        \* the gates of each target, in the order it takes them
    Limit,          \* the size of each gate
    MayBeFresh,     \* targets a DAILY run may find not due
    MaxAttempts,    \* config.max_attempts
    QueueSize,      \* config.queue_size
    MaxLives,       \* bound: times the run is started or resumed
    MayOvertake     \* an awaited submit may take the slot of a woken deferred one

Sources == {Plan[i] : i \in 1 .. Len(Plan)}

ASSUME SchedulerAssumption ==
    /\ Len(Plan) \in Nat
    /\ Complete \subseteq Sources /\ MayBeFresh \subseteq Sources
    /\ Inventory \in [Sources -> Seq(Postings)]
    /\ Owned \in [Sources -> SUBSET Postings]
    /\ AbsentBefore \subseteq Postings
    /\ \A s \in Sources : GateSeq[s] \in Seq(DOMAIN Limit)
    /\ \A g \in DOMAIN Limit : Limit[g] \in Nat \ {0}
    /\ MaxAttempts \in Nat \ {0} /\ QueueSize \in Nat \ {0} /\ MaxLives \in Nat
    /\ MayOvertake \in BOOLEAN

VARIABLES
    lives,       \* times the run was started or resumed
    run,         \* where _execute is
    resuming,    \* it resumes an interrupted run
    cancelled,   \* cancel_event
    struck,      \* target tasks with a CancelledError on its way
    status,      \* run_status, once decided
    task,        \* where each target task is
    gates,       \* how many of its gates it holds
    result,      \* TargetResult.status
    index,       \* attempts of this process
    offset,      \* attempt_offset, from the preflight
    cursor,      \* the checkpoint the first attempt resumes from
    pos,         \* records the attempt has been given
    flushed,     \* records it has handed to the writer
    mark,        \* ctx.checkpoint, -1: none
    ending,      \* the status of an attempt whose stream is being closed
    fresh,       \* preflight.not_due
    queue,       \* the writer's operations
    dead,        \* writer.failure is not None
    runRow,      \* pipeline_runs.status
    rows,        \* source_runs of step 'fetch': [st, ck], by attempt number
    unattempted, \* sources with a row of step 'unattempted'
    seen,        \* run_postings of the run
    absence,     \* postings.absent_since, and by whose run
    gaveUp,      \* history: a drain or a close gave up
    vanished     \* history: targets cancelled before their first step

taskVars == <<task, struck, gates, result, index, offset, cursor, pos, flushed, mark, ending>>
memVars  == <<run, resuming, cancelled, status, fresh>>
wVars    == <<queue, dead>>
dbVars   == <<runRow, rows, unattempted, seen, absence>>
histVars == <<gaveUp, vanished>>
vars == <<lives, memVars, taskVars, wVars, dbVars, histVars>>

Terminal == {"succeeded", "partial", "failed", "cancelled"}
Settled  == {"succeeded", "failed", "timeout", "cancelled"}
AttemptNos == 1 .. (MaxAttempts * MaxLives)

-----------------------------------------------------------------------------
(* Write operations *)

\* An operation of a kind about a source's attempt, with a status; soon: it
\* was submitted without waiting (submit_soon).
Op(kind, s, n, st, soon) ==
    [k |-> kind, s |-> s, a |-> n, lo |-> 0, hi |-> 0, ck |-> -1, st |-> st, soon |-> soon]

StartRunOp       == Op("start", "none", 0, IF resuming THEN "resume" ELSE "new", FALSE)
CreateOp(s, n)   == Op("create", s, n, "none", FALSE)
UnattemptedOp(s) == Op("unattempted", s, 0, "none", TRUE)
PresenceOp       == Op("presence", "none", 0, "none", FALSE)
FinishRunOp(t)   == Op("end", "none", 0, t, TRUE)

\* The two that carry a checkpoint; a batch carries records lo .. hi too.
FinishOp(s, n, t, c) ==
    [k |-> "finish", s |-> s, a |-> n, lo |-> 0, hi |-> 0, ck |-> c, st |-> t, soon |-> TRUE]

BatchOp(s, n, d) ==
    [k |-> "batch", s |-> s, a |-> n, lo |-> flushed[s] + 1, hi |-> pos[s],
     ck |-> mark[s], st |-> "none", soon |-> d]

\* A dead writer refuses or drops whatever it is given.
Sent(ops) == IF dead THEN queue ELSE queue \o ops

\* An awaited submit parks on a full queue; a deferred one has a task of its
\* own to park, so the queue holds the operations that landed, QueueSize of
\* them at most, and behind them the deferred ones that wait for a slot.
Full == Len(queue) >= QueueSize

\* A deferred put that has been woken and has not run yet: an awaited submit
\* takes its slot, and it parks again, behind those that came after it.
MayBarge == MayOvertake /\ Full /\ queue[QueueSize].soon

Room == ~Full \/ MayBarge

Landed(op) ==
    IF ~Full THEN Append(queue, op)
    ELSE SubSeq(queue, 1, QueueSize - 1) \o <<op>>
           \o SubSeq(queue, QueueSize + 1, Len(queue)) \o <<queue[QueueSize]>>

Attempt(s) == offset[s] + index[s]

Attempts(s) == {n \in AttemptNos : rows[s][n].st # "none"}

\* Variant: interrupted attempts are not counted.
MaxSettledAttempt(s) == Cardinality({n \in Attempts(s) : rows[s][n].st # "interrupted"})

MaxAttempt(s) == IF Attempts(s) = {} THEN 0
                 ELSE CHOOSE n \in Attempts(s) : \A j \in Attempts(s) : j <= n

Board(s, lo, hi) == {Inventory[s][i] : i \in lo .. hi}

Found(s) == Board(s, 1, Len(Inventory[s]))

-----------------------------------------------------------------------------
(* runstore: what an operation does when its transaction commits *)

\* Constraints: a fresh run_uid, an interrupted run to reopen, a new
\* (run, source, attempt), an attempt row to refer to.
Violates(op) ==
    \/ op.k = "start" /\ op.st = "new" /\ runRow # "absent"
    \/ op.k = "start" /\ op.st = "resume" /\ runRow # "interrupted"
    \/ op.k = "create" /\ rows[op.s][op.a].st # "none"
    \/ op.k \in {"batch", "finish"} /\ rows[op.s][op.a].st = "none"

RowsAfterRecovery(rs) ==
    [s \in Sources |-> [n \in AttemptNos |->
        IF rs[s][n].st = "running" THEN [rs[s][n] EXCEPT !.st = "interrupted"] ELSE rs[s][n]]]

\* COALESCE(?, checkpoint_json)
Coalesce(new, old) == IF new >= 0 THEN new ELSE old

\* update_source_run_progress and finish_source_run: only a running attempt.
Progress(row, op) ==
    IF row.st = "running" THEN [row EXCEPT !.ck = Coalesce(op.ck, @)] ELSE row

FinishRow(row, op) ==
    IF row.st = "running" THEN [st |-> op.st, ck |-> Coalesce(op.ck, row.ck)] ELSE row

\* Sources whose succeeded attempt licenses marking: scope 'complete'.
Licensed == {s \in Complete : \E n \in AttemptNos : rows[s][n].st = "succeeded"}

\* refresh_presence: a posting seen by any source of the run is present.
Refreshed == [p \in Postings |-> IF p \in seen THEN "present" ELSE absence[p]]

\* Variant: only what the source itself delivered counts as seen.
UnseenBySource(s) == Owned[s] \ (seen \cap Found(s))

\* mark_absent: what the source owns and no source of the run saw.
Unseen(s) == Owned[s] \ seen

\* apply_run_presence: refresh, then mark for every licensed source.
Presence ==
    [p \in Postings |->
        IF Refreshed[p] = "present" /\ \E s \in Licensed : p \in Unseen(s) THEN "run"
        ELSE Refreshed[p]]

Commit(op) ==
    /\ runRow' = IF op.k = "start" THEN "running"
                 ELSE IF op.k = "end" THEN op.st ELSE runRow
    /\ rows' = IF op.k = "create" THEN [rows EXCEPT ![op.s][op.a] = [st |-> "running", ck |-> -1]]
               ELSE IF op.k = "batch" THEN [rows EXCEPT ![op.s][op.a] = Progress(@, op)]
               ELSE IF op.k = "finish" THEN [rows EXCEPT ![op.s][op.a] = FinishRow(@, op)]
               ELSE rows
    /\ seen' = IF op.k = "batch" THEN seen \cup Board(op.s, op.lo, op.hi) ELSE seen
    /\ unattempted' = IF op.k = "unattempted" THEN unattempted \cup {op.s} ELSE unattempted
    /\ absence' = IF op.k = "presence" THEN Presence ELSE absence

WriterCommits ==
    /\ queue # <<>>
    /\ ~Violates(Head(queue))
    /\ Commit(Head(queue))
    /\ queue' = Tail(queue)
    /\ UNCHANGED <<lives, memVars, taskVars, dead, histVars>>

\* A transaction that fails is fatal: everything queued is dropped.
WriterFails ==
    /\ queue # <<>> /\ ~dead
    /\ dead' = TRUE /\ queue' = <<>>
    /\ UNCHANGED <<lives, memVars, taskVars, dbVars, histVars>>

-----------------------------------------------------------------------------
(* Start, preflight, launch *)

Live == run \notin {"idle", "over"}

\* start: a new run, or the explicit resume of one that has a row.
Start(again) ==
    /\ ~Live /\ lives < MaxLives
    /\ lives' = lives + 1
    /\ IF again THEN runRow # "absent" ELSE runRow = "absent" /\ run = "idle"
    /\ run' = "preflight" /\ resuming' = again
    /\ cancelled' = FALSE
    /\ UNCHANGED <<status, fresh, taskVars, wVars, dbVars, histVars>>

\* recover_orphans, at start-up or in another run's preflight: what a dead
\* process or a dead writer left 'running' is interrupted.
RecoverOrphans ==
    /\ ~Live
    /\ \/ runRow = "running"
       \/ \E s \in Sources, n \in AttemptNos : rows[s][n].st = "running"
    /\ runRow' = IF runRow = "running" THEN "interrupted" ELSE runRow
    /\ rows' = RowsAfterRecovery(rows)
    /\ UNCHANGED <<lives, memVars, taskVars, wVars, unattempted, seen,
                   absence, histVars>>

\* resume_plan: sources with a succeeded attempt are not asked again.
Completed(rs) == {s \in Sources : \E n \in AttemptNos : rs[s][n].st = "succeeded"}

\* latest_checkpoint_json: the newest attempt that has one.
LatestCheckpoint(s) ==
    LET N == {n \in AttemptNos : rows[s][n].ck >= 0}
    IN IF N = {} THEN 0
       ELSE rows[s][CHOOSE n \in N : \A j \in N : j <= n].ck

\* _preflight recovers orphans, this run's own included (RunService makes a
\* Scheduler for every start, so _recovered is still false), then reads what
\* a resume needs.  A checkpoint may be refused (malformed, other config): 0.
Preflight(nd) ==
    /\ run = "preflight"
    /\ runRow' = IF runRow = "running" THEN "interrupted" ELSE runRow
    /\ rows' = RowsAfterRecovery(rows)
    /\ IF resuming /\ runRow' # "interrupted"
       THEN /\ run' = "over"                 \* ValueError: not resumable
            /\ UNCHANGED <<taskVars, wVars, fresh>>
       ELSE /\ run' = "launch"
            /\ fresh' = nd
            /\ \E valid \in SUBSET {s \in Sources : LatestCheckpoint(s) > 0} :
                 cursor' = [s \in Sources |->
                     IF resuming /\ s \in valid THEN LatestCheckpoint(s) ELSE 0]
            /\ offset' = [s \in Sources |-> IF resuming THEN MaxAttempt(s) ELSE 0]
            /\ index' = [s \in Sources |-> 0]
            /\ result' = [s \in Sources |-> "none"]
            /\ queue' = <<>> /\ dead' = FALSE
            /\ UNCHANGED <<task, struck, gates, pos, flushed, mark, ending>>
    /\ UNCHANGED <<lives, resuming, cancelled, status, unattempted, seen,
                   absence, histVars>>

Skipped == (IF resuming THEN Completed(rows) ELSE {}) \cup fresh

\* The one sequence of these positions of the plan, in order.
InPlanOrder(I) ==
    UNION {{q \in [1 .. n -> I] : /\ {q[i] : i \in 1 .. n} = I
                                 /\ \A i \in 1 .. n - 1 : q[i] < q[i + 1]} :
             n \in 0 .. Len(Plan)}

\* StartRun goes into an empty queue, so nothing runs between its submit and
\* the loop over the plan: a cancel that came first spawns no target.
Launch ==
    /\ run = "launch"
    /\ run' = "gather"
    /\ task' = [s \in Sources |-> IF s \in Skipped \/ cancelled THEN "done" ELSE "spawned"]
    /\ result' = [s \in Sources |-> IF s \in Skipped THEN "skipped"
                                    ELSE IF cancelled THEN "cancelled" ELSE "none"]
    /\ \E never \in InPlanOrder({i \in 1 .. Len(Plan) : cancelled /\ Plan[i] \notin Skipped}) :
         queue' = Sent(<<StartRunOp>>
                         \o [i \in 1 .. Len(never) |-> UnattemptedOp(Plan[never[i]])])
    /\ UNCHANGED <<lives, resuming, cancelled, status, fresh, struck, gates, index,
                   offset, cursor, pos, flushed, mark, ending, dead, dbVars, histVars>>

-----------------------------------------------------------------------------
(* A target task *)

\* The task's next step is one of its own, not a CancelledError.
Runs(s, pc) == task[s] = pc /\ s \notin struck

TargetStarts(s) ==
    /\ Runs(s, "spawned")
    /\ task' = [task EXCEPT ![s] = "gate"]
    /\ UNCHANGED <<lives, memVars, struck, gates, result, index, offset, cursor,
                   pos, flushed, mark, ending, wVars, dbVars, histVars>>

Holders(g) == {t \in Sources : \E i \in 1 .. gates[t] : GateSeq[t][i] = g}

NextGate(s) == GateSeq[s][gates[s] + 1]

\* _hold takes global, source and host gate, in that order; past the last
\* one, the first attempt.
TakeGate(s) ==
    /\ Runs(s, "gate")
    /\ IF gates[s] < Len(GateSeq[s])
       THEN /\ Cardinality(Holders(NextGate(s))) < Limit[NextGate(s)]
            /\ gates' = [gates EXCEPT ![s] = @ + 1]
            /\ UNCHANGED task
       ELSE /\ task' = [task EXCEPT ![s] = "create"]
            /\ UNCHANGED gates
    /\ UNCHANGED <<lives, memVars, struck, result, index, offset, cursor, pos,
                   flushed, mark, ending, wVars, dbVars, histVars>>

\* The locals of _run_attempt: an attempt begins with them, or ends.
Locals(s, p) ==
    /\ pos' = [pos EXCEPT ![s] = p]
    /\ flushed' = [flushed EXCEPT ![s] = p]
    /\ mark' = [mark EXCEPT ![s] = -1]
    /\ ending' = [ending EXCEPT ![s] = "none"]

\* Variant: a target that returns keeps its gates.
NotReleased(s) == gates

\* The gates are released on the way out of _hold.
Released(s) == [gates EXCEPT ![s] = 0]

Returns(s, r) ==
    /\ task' = [task EXCEPT ![s] = "done"]
    /\ gates' = Released(s)
    /\ result' = [result EXCEPT ![s] = r]
    /\ Locals(s, 0)

\* A retry starts clean.
StartPosition(s) == IF index[s] = 0 THEN cursor[s] ELSE 0

\* CreateSourceRun is in the queue: the attempt begins.
AttemptBegins(s) ==
    /\ Runs(s, "create") /\ ~dead /\ Room
    /\ index' = [index EXCEPT ![s] = @ + 1]
    /\ queue' = Landed(CreateOp(s, offset[s] + index[s] + 1))
    /\ task' = [task EXCEPT ![s] = "stream"]
    /\ Locals(s, StartPosition(s))
    /\ UNCHANGED <<lives, memVars, struck, gates, result, offset, cursor,
                   dead, dbVars, histVars>>

\* submit raised WriterError outside the attempt: an exception for gather.
CreateRaises(s) ==
    /\ Runs(s, "create") /\ dead
    /\ Returns(s, "error")
    /\ UNCHANGED <<lives, memVars, struck, index, offset, cursor, wVars, dbVars,
                   histVars>>

\* The adapter yields a record; the buffer is flushed, or not yet.
Yields(s, flush) ==
    /\ Runs(s, "stream") /\ pos[s] < Len(Inventory[s])
    /\ pos' = [pos EXCEPT ![s] = @ + 1]
    /\ task' = IF flush THEN [task EXCEPT ![s] = "submit"] ELSE task
    /\ UNCHANGED <<lives, memVars, struck, gates, result, index, offset, cursor,
                   flushed, mark, ending, wVars, dbVars, histVars>>

\* mark_checkpoint: everything before this position has been yielded.
Marks(s) ==
    /\ Runs(s, "stream") /\ pos[s] > 0 /\ mark[s] # pos[s]
    /\ mark' = [mark EXCEPT ![s] = pos[s]]
    /\ UNCHANGED <<lives, memVars, struck, task, gates, result, index, offset,
                   cursor, pos, flushed, ending, wVars, dbVars, histVars>>

\* The batch reaches the queue, at once or after parking on a full one.
BatchLands(s) ==
    /\ Runs(s, "submit") /\ ~dead /\ Room
    /\ queue' = Landed(BatchOp(s, Attempt(s), FALSE))
    /\ flushed' = [flushed EXCEPT ![s] = pos[s]]
    /\ task' = [task EXCEPT ![s] = "stream"]
    /\ UNCHANGED <<lives, memVars, struck, gates, result, index, offset, cursor,
                   pos, mark, ending, dead, dbVars, histVars>>

\* Variant: the batch whose submit was cut short is not sent again.
RestWithoutInFlight(s) ==
    IF flushed[s] < pos[s] /\ task[s] = "stream" THEN <<BatchOp(s, Attempt(s), TRUE)>> ELSE <<>>

\* What the finally of _run_attempt sends first: the batch whose submit was
\* cut short, or the rest of the buffer.
Rest(s) == IF flushed[s] < pos[s] THEN <<BatchOp(s, Attempt(s), TRUE)>> ELSE <<>>

\* Variant: the attempt is settled ahead of the rest of its records.
SettlingFirst(s, st) ==
    Sent(<<FinishOp(s, Attempt(s), st, mark[s])>> \o Rest(s))

Settling(s, st) ==
    Sent(Rest(s) \o <<FinishOp(s, Attempt(s), st, mark[s])>>)

\* The attempt is over, and the target with it.
Settle(s, st) ==
    /\ queue' = Settling(s, st)
    /\ Returns(s, st)
    /\ UNCHANGED <<lives, memVars, index, offset, cursor, dead, dbVars, histVars>>

StreamEnds(s) ==
    /\ Runs(s, "stream") /\ pos[s] = Len(Inventory[s])
    /\ Settle(s, "succeeded")
    /\ UNCHANGED struck

\* A permanent error, or a transient one with no attempt or no budget left.
StreamFails(s) ==
    /\ Runs(s, "stream")
    /\ Settle(s, "failed")
    /\ UNCHANGED struck

\* A transient error that buys a retry.
StreamFailsTransient(s) ==
    /\ Runs(s, "stream") /\ index[s] < MaxAttempts
    /\ queue' = Settling(s, "failed")
    /\ task' = [task EXCEPT ![s] = "backoff"]
    /\ Locals(s, 0)
    /\ UNCHANGED <<lives, memVars, struck, gates, result, index, offset, cursor,
                   dead, dbVars, histVars>>

BackoffEnds(s) ==
    /\ Runs(s, "backoff")
    /\ task' = [task EXCEPT ![s] = "create"]
    /\ UNCHANGED <<lives, memVars, struck, gates, result, index, offset, cursor,
                   pos, flushed, mark, ending, wVars, dbVars, histVars>>

\* The sleep used up the budget of the target.
BudgetSpent(s) ==
    /\ Runs(s, "backoff")
    /\ Returns(s, "failed")
    /\ UNCHANGED <<lives, memVars, struck, index, offset, cursor, wVars, dbVars,
                   histVars>>

\* The deadline ends a stream at its await in the adapter ...
DeadlineInStream(s) ==
    /\ Runs(s, "stream")
    /\ Settle(s, "timeout")
    /\ UNCHANGED struck

\* ... or at a parked submit, which withdraws the put, as a WriterError does;
\* the adapter is then still open and has to be closed first.
SubmitCutShort(s, st) ==
    /\ Runs(s, "submit")
    /\ st = "timeout" \/ (st = "failed" /\ dead)
    /\ task' = [task EXCEPT ![s] = "closing"]
    /\ ending' = [ending EXCEPT ![s] = st]
    /\ UNCHANGED <<lives, memVars, struck, gates, result, index, offset, cursor,
                   pos, flushed, mark, wVars, dbVars, histVars>>

\* _close_stream returns; a cancel that arrives meanwhile is swallowed.
StreamClosed(s) ==
    /\ task[s] = "closing"
    /\ Settle(s, ending[s])
    /\ struck' = struck \ {s}

\* RunHandle.cancel: the flag, and every task that is not done.
Cancel ==
    /\ Live
    /\ cancelled' = TRUE
    /\ struck' = IF run = "gather" THEN {s \in Sources : task[s] # "done"} ELSE struck
    /\ UNCHANGED <<lives, run, resuming, status, fresh, task, gates, result, index,
                   offset, cursor, pos, flushed, mark, ending, wVars, dbVars, histVars>>

\* Variant: a cancelled attempt is not settled.
SettlingNothing(s) == queue

\* Decision 5: a cancelled attempt hands over what it has and settles.
SettlingCancelled(s) == Settling(s, "cancelled")

\* The CancelledError reaches the task: before its first step nothing of
\* _run_target runs; at the gates, at CreateSourceRun or between two attempts
\* the target returns, with an unattempted row if it has no attempt; inside
\* an attempt the attempt settles as cancelled.
Cancelled(s) ==
    /\ s \in struck /\ task[s] # "closing"
    /\ struck' = struck \ {s}
    /\ Returns(s, IF task[s] = "spawned" THEN "lost" ELSE "cancelled")
    /\ vanished' = IF task[s] = "spawned" THEN vanished \cup {s} ELSE vanished
    /\ queue' = IF task[s] \in {"stream", "submit"} THEN SettlingCancelled(s)
                ELSE IF task[s] # "spawned" /\ index[s] = 0 THEN Sent(<<UnattemptedOp(s)>>)
                ELSE queue
    /\ UNCHANGED <<lives, memVars, index, offset, cursor, dead, dbVars, gaveUp>>

-----------------------------------------------------------------------------
(* Settling the run: the end of _execute *)

Decided ==
    IF cancelled THEN "cancelled"
    ELSE IF \E s \in Sources : result[s] = "error" THEN "failed"
    ELSE IF \A s \in Sources : result[s] \in {"succeeded", "skipped"} THEN "succeeded"
    ELSE "partial"

Gathered ==
    /\ run = "gather" /\ \A s \in Sources : task[s] = "done"
    /\ run' = "drain"
    /\ status' = Decided
    /\ UNCHANGED <<lives, resuming, cancelled, fresh, taskVars, wVars, dbVars, histVars>>

\* PRESENCE_PASS_RUN_STATUSES, and a writer that is alive.
PassLicensed(st) == st \in {"succeeded", "partial"} /\ ~dead

FinalStatus == IF dead /\ status # "cancelled" THEN "failed" ELSE status

\* Behind the first drain: the writer's failure is the run's, then the
\* presence pass is submitted, or declined.
AfterDrain(q) ==
    /\ run' = "pass"
    /\ status' = FinalStatus
    /\ queue' = IF PassLicensed(FinalStatus) THEN Append(q, PresenceOp) ELSE q
    /\ UNCHANGED <<lives, resuming, cancelled, fresh, taskVars, dead, dbVars, vanished>>

Drained ==
    /\ run = "drain" /\ queue = <<>>
    /\ AfterDrain(queue)
    /\ UNCHANGED gaveUp

\* A drain that times out withdraws the deferred puts that have not landed:
\* some last part of what was submitted, or nothing.
DrainTimesOut(n) ==
    /\ run = "drain" /\ queue # <<>> /\ n \in 0 .. Len(queue)
    /\ \A i \in n + 1 .. Len(queue) : queue[i].soon
    /\ AfterDrain(SubSeq(queue, 1, n))
    /\ gaveUp' = TRUE

\* FinishRun goes out behind the pass, whether its drain returned or gave up.
FinishRun ==
    /\ run = "pass"
    /\ run' = "close"
    /\ queue' = Sent(<<FinishRunOp(status)>>)
    /\ UNCHANGED <<lives, resuming, cancelled, status, fresh, taskVars, dead,
                   dbVars, histVars>>

Closes ==
    /\ run = "close" /\ queue = <<>>
    /\ run' = "over"
    /\ UNCHANGED <<lives, resuming, cancelled, status, fresh, taskVars, wVars,
                   dbVars, histVars>>

\* aclose gave up: what has not committed by now never does.
CloseTimesOut ==
    /\ run = "close" /\ queue # <<>>
    /\ run' = "over" /\ queue' = <<>> /\ gaveUp' = TRUE
    /\ UNCHANGED <<lives, resuming, cancelled, status, fresh, taskVars, dead,
                   dbVars, vanished>>

\* The process dies: only the tables survive.
Crash ==
    /\ Live
    /\ run' = "idle" /\ cancelled' = FALSE /\ status' = "none" /\ resuming' = FALSE
    /\ task' = [s \in Sources |-> "done"] /\ struck' = {}
    /\ gates' = [s \in Sources |-> 0]
    /\ result' = [s \in Sources |-> "none"]
    /\ index' = [s \in Sources |-> 0] /\ offset' = [s \in Sources |-> 0]
    /\ cursor' = [s \in Sources |-> 0]
    /\ pos' = [s \in Sources |-> 0] /\ flushed' = [s \in Sources |-> 0]
    /\ mark' = [s \in Sources |-> -1]
    /\ ending' = [s \in Sources |-> "none"]
    /\ queue' = <<>> /\ dead' = FALSE
    /\ UNCHANGED <<lives, fresh, dbVars, histVars>>

-----------------------------------------------------------------------------
Init ==
    /\ lives = 0
    /\ run = "idle" /\ resuming = FALSE /\ cancelled = FALSE /\ status = "none"
    /\ task = [s \in Sources |-> "done"] /\ struck = {}
    /\ gates = [s \in Sources |-> 0]
    /\ result = [s \in Sources |-> "none"]
    /\ index = [s \in Sources |-> 0] /\ offset = [s \in Sources |-> 0]
    /\ cursor = [s \in Sources |-> 0]
    /\ pos = [s \in Sources |-> 0] /\ flushed = [s \in Sources |-> 0]
    /\ mark = [s \in Sources |-> -1]
    /\ ending = [s \in Sources |-> "none"]
    /\ fresh = {} /\ queue = <<>> /\ dead = FALSE
    /\ runRow = "absent"
    /\ rows = [s \in Sources |-> [n \in AttemptNos |-> [st |-> "none", ck |-> -1]]]
    /\ unattempted = {} /\ seen = {}
    /\ absence = [p \in Postings |-> IF p \in AbsentBefore THEN "earlier" ELSE "present"]
    /\ gaveUp = FALSE /\ vanished = {}

\* What a target task does by itself.
TargetStep(s) ==
    \/ TargetStarts(s) \/ TakeGate(s) \/ AttemptBegins(s) \/ CreateRaises(s)
    \/ \E flush \in BOOLEAN : Yields(s, flush)
    \/ Marks(s) \/ BatchLands(s)
    \/ StreamEnds(s) \/ StreamFails(s) \/ StreamFailsTransient(s)
    \/ BackoffEnds(s) \/ BudgetSpent(s)
    \/ DeadlineInStream(s) \/ \E st \in Settled : SubmitCutShort(s, st)
    \/ StreamClosed(s) \/ Cancelled(s)

RunStep ==
    \/ \E nd \in SUBSET MayBeFresh : Preflight(nd)
    \/ Launch \/ Gathered \/ Drained
    \/ \E n \in 0 .. Len(queue) : DrainTimesOut(n)
    \/ FinishRun \/ Closes \/ CloseTimesOut

Next ==
    \/ \E again \in BOOLEAN : Start(again)
    \/ RecoverOrphans \/ RunStep \/ Cancel \/ Crash
    \/ \E s \in Sources : TargetStep(s)
    \/ WriterCommits \/ WriterFails

Spec == Init /\ [][Next]_vars

-----------------------------------------------------------------------------
(* Properties *)

TypeOK ==
    /\ lives \in 0 .. MaxLives
    /\ run \in {"idle", "preflight", "launch", "gather", "drain", "pass", "close", "over"}
    /\ resuming \in BOOLEAN /\ cancelled \in BOOLEAN /\ dead \in BOOLEAN
    /\ status \in Terminal \cup {"none"}
    /\ task \in [Sources -> {"spawned", "gate", "create", "stream", "submit",
                             "closing", "backoff", "done"}]
    /\ struck \subseteq Sources /\ fresh \subseteq Sources
    /\ gates \in [Sources -> Nat]
    /\ index \in [Sources -> 0 .. MaxAttempts] /\ offset \in [Sources -> Nat]
    /\ result \in [Sources -> Settled \cup {"none", "skipped", "lost", "error"}]
    /\ \A s \in Sources :
         /\ flushed[s] \in 0 .. pos[s] /\ pos[s] \in 0 .. Len(Inventory[s])
         /\ mark[s] \in -1 .. pos[s] /\ cursor[s] \in 0 .. Len(Inventory[s])
    /\ runRow \in Terminal \cup {"absent", "running", "interrupted"}
    /\ rows \in [Sources -> [AttemptNos ->
                  [st : Settled \cup {"none", "running", "interrupted"}, ck : Nat \cup {-1}]]]
    /\ unattempted \subseteq Sources /\ seen \subseteq Postings
    /\ absence \in [Postings -> {"present", "earlier", "run"}]

\* A posting this run marks absent has been proved gone: a source of complete
\* scope that owns it has a succeeded attempt, and it is not on that source's
\* board - whatever was cut short, retried, cancelled, lost with the process and
\* resumed from a checkpoint (apply_run_presence, mark_absent_for_scope).
NoFalseAbsence ==
    \A p \in Postings :
        absence[p] = "run" => \E s \in Licensed : p \in Owned[s] \ Found(s)

\* A committed checkpoint covers only committed records, so a resume that
\* starts behind it skips nothing (update_source_run_progress).
CheckpointCovered ==
    \A s \in Sources, n \in AttemptNos : \A i \in 1 .. rows[s][n].ck :
        Inventory[s][i] \in seen

\* A source's attempts are numbered 1, 2, ... across resumes, an attempt
\* begins when the one before it is over, and none follows a success.
AttemptsInTurn ==
    \A s \in Sources, n \in AttemptNos :
        rows[s][n].st # "none" /\ n > 1 =>
            rows[s][n - 1].st \notin {"none", "running", "succeeded"}

\* The scheduler never gives its writer an operation the tables refuse: every
\* row an operation refers to is there, and no attempt number is used twice.
NoConflict == queue # <<>> => ~Violates(Head(queue))

\* A run that settled as succeeded or partial has said all it knows of
\* presence: what it saw is present, and what a complete, successful
\* enumeration proved gone is marked.
PresenceSettled ==
    runRow \in {"succeeded", "partial"} =>
        /\ \A p \in seen : absence[p] = "present"
        /\ \A s \in Licensed : \A p \in Owned[s] \ seen : absence[p] # "present"

\* A settled run leaves no attempt 'running' and accounts for every target
\* it planned, unless a drain gave up - or the target's task was cancelled
\* before its first step.
SettledRunAccounts ==
    runRow \in Terminal /\ ~gaveUp =>
        \A s \in Sources :
            /\ \A n \in AttemptNos : rows[s][n].st # "running"
            /\ Attempts(s) # {} \/ s \in unattempted \cup fresh \cup vanished

\* asyncio runs ready tasks, deadlines and drain timeouts are timers, and a
\* transaction ends (busy_timeout).  Nothing is assumed of the user.
Fairness ==
    /\ \A s \in Sources : WF_vars(TargetStep(s))
    /\ WF_vars(RunStep)
    /\ WF_vars(WriterCommits \/ WriterFails)

FairSpec == Spec /\ Fairness

\* Every run that is started ends, whatever its targets do: no target waits
\* for ever at a gate, and a cancel or a dead writer does not keep it.
RunEnds == Live ~> ~Live

\* The tables and the scheduler's view of them stay sound: nothing out of its
\* type, no operation the tables refuse, attempts numbered in turn.
TablesSound == TypeOK /\ NoConflict /\ AttemptsInTurn

\* A settled run accounts for its targets and has said what it knows of presence.
SettledRunIsWhole == SettledRunAccounts /\ PresenceSettled
=============================================================================
