----------------------------- MODULE RunService -----------------------------
(***************************************************************************)
(* The run service (webapp/backend/runservice.py): the lanes that admit    *)
(* runs, one supervisor per run (fetch, enrichment, scoring, settle), the  *)
(* worker threads that append the service's own run_events, cancellation,  *)
(* shutdown, process death and start-up recovery.                          *)
(*                                                                         *)
(* Everything on the event loop runs from one await to the next in one     *)
(* step.  An append is not one step: a worker thread reads MAX(sequence),  *)
(* and inserts later, in a transaction of its own, while the event loop    *)
(* goes on - even when the task that awaited the append has been           *)
(* cancelled.  The fetch is the scheduler's run as the supervisor sees it; *)
(* its writer is the subject of SqliteWriter.                              *)
(*                                                                         *)
(* A run's events are the sequence log[r]: the event at position i has     *)
(* run_events.sequence i - 1.                                              *)
(***************************************************************************)
EXTENDS Integers, Sequences, FiniteSets

CONSTANTS
    Runs,           \* run ids
    Readers,        \* subscribers of the fan-out
    Kinds,          \* run kinds in use
    ScoreOps,       \* graph operations of a scoring pass: OpenPass .. ClosePass
    MaxProgress,    \* bound: source events a fetch commits
    MaxCrashes,     \* bound: mishaps (deaths, failed appends) up to which the process may die
    MaxFaults,      \* bound: mishaps up to which an append may fail for its own reasons
    MayLeak,        \* closing the fetch's writer may time out on a commit
    LegacyWrites    \* JOBHUNT_WRITES leaves the legacy runner in use

ASSUME ServiceAssumption ==
    /\ Kinds \subseteq {"daily", "full-direct", "aggregators"}
    /\ ScoreOps \in Nat \ {0, 1}
    /\ MaxProgress \in Nat /\ MaxCrashes \in Nat /\ MaxFaults \in Nat
    /\ MayLeak \in BOOLEAN /\ LegacyWrites \in BOOLEAN

VARIABLES
    up,         \* the process serves requests
    closing,    \* aclose has been called
    crashes,    \* process deaths so far
    faults,     \* failed appends so far
    legacy,     \* sweeprunner's runner.running
    sup,        \* where the supervisor of each run is
    kind,       \* record.kind
    cancel,     \* record.cancel_requested
    fetch,      \* where the scheduler's run is
    fstat,      \* record.fetch_status, once the fetch has decided it
    task,       \* the enrichment stage task
    scorer,     \* the scoring thread: where it is
    ops,        \* graph operations it has committed
    outcome,    \* the outcome the supervisor settled on
    th,         \* the append threads
    leak,       \* runs whose writer left a transaction open behind it
    row,        \* pipeline_runs.status
    log,        \* the run's run_events
    bell,       \* runs with a commit whose publish the loop has yet to run
    subs,       \* _Fanout._subscribers: pairs of a reader and a run
    token,      \* readers whose queue holds a token
    tail,       \* history: events appended after the run was settled
    opsAfter    \* history: graph operations committed after the cancel

procVars == <<up, closing, crashes, faults, legacy>>
runVars  == <<sup, kind, cancel, fetch, fstat, task, scorer, ops, outcome>>
dbVars   == <<leak, row, log>>
fanVars  == <<bell, subs, token>>
histVars == <<tail, opsAfter>>
serviceVars == <<procVars, runVars, th, dbVars, fanVars, histVars>>

Terminal == {"succeeded", "partial", "failed", "cancelled"}

\* The kinds with post-fetch stages, and the lane each kind runs in.
StagedKinds == {"daily", "full-direct"}
Lane(k) == IF k = "aggregators" THEN "aggregators" ELSE "direct"

FetchPcs == {"none", "preflight", "begin", "sweep", "finish", "over"}
SupPcs == {"none", "resolving", "fetch", "enrich_open", "enrich",
           "enrich_cancelled", "score_skip", "score_open", "score",
           "score_close", "skip", "settle", "done", "dead"}

-----------------------------------------------------------------------------
(* Which runs this process knows, and the lanes *)

\* is_active: in _active and not settled.
IsActive(r) == sup[r] \notin {"none", "resolving", "done", "dead"}

\* scheduler._LIVE_RUNS: from start to the end of _execute.
Live(r) == fetch[r] \in {"preflight", "begin", "sweep", "finish"}

CheckConflicts(k) ==
    /\ ~legacy
    /\ \A q \in Runs : IsActive(q) => Lane(kind[q]) # Lane(k)

\* Variant: retry_source does not look at the lanes again after resolving.
CheckLegacyOnly(k) == ~legacy

RetryMayStart(k) == CheckConflicts(k)

-----------------------------------------------------------------------------
(* The fan-out *)

Subscribers(r) == {d \in Readers : <<d, r>> \in subs}

\* publish: one slot per subscriber, so a second token changes nothing.
Published(r) == token \cup Subscribers(r)

Ring(r) ==
    /\ r \in bell
    /\ bell' = bell \ {r}
    /\ token' = Published(r)
    /\ UNCHANGED <<procVars, runVars, th, dbVars, subs, histVars>>

-----------------------------------------------------------------------------
(* _append_event_sync, on a worker thread *)

Slots == {"sup", "task"}   \* awaited by the supervisor, by the stage task

Idle == [ev |-> "none", st |-> "idle", seq |-> -1]
New(e) == [ev |-> e, st |-> "begin", seq |-> -1]

Ended(r, w) == th[r][w].st \in {"landed", "lost"}

\* The event loop resumes behind an append: _append_event publishes if the
\* append landed, and the awaiting code goes on.
Resume(r, w, next) ==
    /\ Ended(r, w)
    /\ th' = [th EXCEPT ![r][w] = next]
    /\ token' = IF th[r][w].st = "landed" THEN Published(r) ELSE token

\* A run with no pipeline_runs row has nothing to attach an event to.
AppendRead(r, w) ==
    /\ th[r][w].st = "begin"
    /\ th' = [th EXCEPT ![r][w] =
                IF row[r] = "absent" THEN [@ EXCEPT !.st = "lost"]
                ELSE [@ EXCEPT !.st = "read", !.seq = Len(log[r])]]
    /\ UNCHANGED <<procVars, runVars, dbVars, fanVars, histVars>>

\* Events after the supervisor is gone are the tail no stream waits for.
LogEvent(r, e) ==
    /\ log' = [log EXCEPT ![r] = Append(@, e)]
    /\ tail' = [tail EXCEPT ![r] = IF sup[r] = "done" THEN @ + 1 ELSE @]

\* The insert waits for a transaction that holds the write lock.  It succeeds
\* if the sequence is still free; a collision is an sqlite3.Error, which is
\* reported and swallowed.
AppendInsert(r, w) ==
    /\ th[r][w].st = "read"
    /\ leak = {}
    /\ IF th[r][w].seq = Len(log[r])
       THEN /\ LogEvent(r, th[r][w].ev)
            /\ th' = [th EXCEPT ![r][w].st = "landed"]
       ELSE /\ th' = [th EXCEPT ![r][w].st = "lost"]
            /\ UNCHANGED <<log, tail>>
    /\ UNCHANGED <<procVars, runVars, leak, row, fanVars, opsAfter>>

\* A lock held for longer than busy_timeout, a full disk.
AppendFails(r, w) ==
    /\ crashes + faults < MaxFaults
    /\ faults' = faults + 1
    /\ th[r][w].st \in {"begin", "read"}
    /\ th' = [th EXCEPT ![r][w].st = "lost"]
    /\ UNCHANGED <<up, closing, crashes, legacy, runVars, dbVars, fanVars, histVars>>

-----------------------------------------------------------------------------
(* The API: start_run, retry_source, cancel_run, aclose *)

Serving == up /\ ~closing

\* The tail of start_run and retry_source, between their last await and their
\* return: scheduler.start, the entry in _active, the supervisor task.
Admit(r, k) ==
    /\ sup' = [sup EXCEPT ![r] = "fetch"]
    /\ kind' = [kind EXCEPT ![r] = k]
    /\ fetch' = [fetch EXCEPT ![r] = "preflight"]
    /\ UNCHANGED <<procVars, cancel, fstat, task, scorer, ops, outcome, th,
                   dbVars, fanVars, histVars>>

StartRun(r, k) ==
    /\ Serving /\ sup[r] = "none"
    /\ CheckConflicts(k)
    /\ Admit(r, k)

\* retry_source resolves the source to a kind on a worker thread ...
RetrySource(r) ==
    /\ Serving /\ sup[r] = "none"
    /\ sup' = [sup EXCEPT ![r] = "resolving"]
    /\ UNCHANGED <<procVars, kind, cancel, fetch, fstat, task, scorer, ops,
                   outcome, th, dbVars, fanVars, histVars>>

\* ... and looks at the lanes when it comes back: full-direct or aggregators,
\* never daily.
RetryStarts(r, k) ==
    /\ Serving /\ sup[r] = "resolving"
    /\ k # "daily"
    /\ RetryMayStart(k)
    /\ Admit(r, k)

\* Unknown source (404) or a lane conflict (409).
RetryRefused(r) ==
    /\ Serving /\ sup[r] = "resolving"
    /\ sup' = [sup EXCEPT ![r] = "none"]
    /\ UNCHANGED <<procVars, kind, cancel, fetch, fstat, task, scorer, ops,
                   outcome, th, dbVars, fanVars, histVars>>

\* _deliver_cancel: the flag, the fetch's cancel event (which the fetch reads
\* with the flag), and the stage task if one is registered and not done.
TaskAfterCancel(r) == IF task[r] \in {"run", "append"} THEN "cancelling" ELSE task[r]

DeliverCancel(S) ==
    /\ cancel' = cancel \cup S
    /\ task' = [r \in Runs |-> IF r \in S THEN TaskAfterCancel(r) ELSE task[r]]

CancelRun(r) ==
    /\ Serving /\ IsActive(r)
    /\ DeliverCancel({r})
    /\ UNCHANGED <<procVars, sup, kind, fetch, fstat, scorer, ops, outcome,
                   th, dbVars, fanVars, tail, opsAfter>>

Aclose ==
    /\ Serving
    /\ closing' = TRUE
    /\ DeliverCancel({r \in Runs : IsActive(r)})
    /\ UNCHANGED <<up, crashes, faults, legacy, sup, kind, fetch, fstat, scorer, ops,
                   outcome, th, dbVars, fanVars, tail, opsAfter>>

\* The legacy runner (sweeprunner.Runner.start, and the end of its run): it
\* refuses a second legacy run, and looks at no canonical run.
LegacyRuns ==
    /\ Serving
    /\ LegacyWrites
    /\ legacy' = ~legacy
    /\ UNCHANGED <<up, closing, crashes, faults, runVars, th, dbVars, fanVars, histVars>>

-----------------------------------------------------------------------------
(* The fetch: scheduler._execute as the service sees it *)

\* Variant: recovery protects no run.
RecoveredAll(except) ==
    [r \in Runs |-> IF row[r] = "running" THEN "interrupted" ELSE row[r]]

\* runstore.recover_orphans: the running rows of runs this process does not
\* own become interrupted.
Recovered(except) ==
    [r \in Runs |-> IF row[r] = "running" /\ r \notin except
                    THEN "interrupted" ELSE row[r]]

LiveRuns == {r \in Runs : Live(r)}

\* The run ends: handle is done, with this status (an exception is "failed").
FetchOver(r, s) ==
    /\ fetch' = [fetch EXCEPT ![r] = "over"]
    /\ fstat' = [fstat EXCEPT ![r] = s]

\* Preflight recovers orphans under the write lock.
Preflight(r) ==
    /\ fetch[r] = "preflight" /\ leak = {}
    /\ fetch' = [fetch EXCEPT ![r] = "begin"]
    /\ row' = Recovered(LiveRuns \ {r})
    /\ UNCHANGED <<procVars, sup, kind, cancel, fstat, task, scorer, ops,
                   outcome, th, leak, log, fanVars, histVars>>

\* It may die there (schema, lock): no row, no events, an exception.
PreflightFails(r) ==
    /\ fetch[r] = "preflight"
    /\ FetchOver(r, "failed")
    /\ UNCHANGED <<procVars, sup, kind, cancel, task, scorer, ops, outcome,
                   th, dbVars, fanVars, histVars>>

\* The writer commits StartRun, with run.started; the hook rings later.
StartRunCommits(r) ==
    /\ fetch[r] = "begin" /\ leak = {}
    /\ fetch' = [fetch EXCEPT ![r] = "sweep"]
    /\ row' = [row EXCEPT ![r] = "running"]
    /\ LogEvent(r, "run.started")
    /\ bell' = bell \cup {r}
    /\ UNCHANGED <<procVars, sup, kind, cancel, fstat, task, scorer, ops,
                   outcome, th, leak, subs, token, opsAfter>>

SourceEvent(r) ==
    /\ fetch[r] = "sweep" /\ leak = {}
    /\ Len(log[r]) <= MaxProgress
    /\ LogEvent(r, "source")
    /\ bell' = bell \cup {r}
    /\ UNCHANGED <<procVars, runVars, th, leak, row, subs, token,
                   opsAfter>>

\* Every target has settled: the status is decided.  A cancel after this
\* point no longer changes it.
SweepEnds(r, s) ==
    /\ fetch[r] = "sweep"
    /\ s \in IF r \in cancel THEN {"cancelled"} ELSE Terminal \ {"cancelled"}
    /\ fetch' = [fetch EXCEPT ![r] = "finish"]
    /\ fstat' = [fstat EXCEPT ![r] = s]
    /\ UNCHANGED <<procVars, sup, kind, cancel, task, scorer, ops, outcome,
                   th, dbVars, fanVars, histVars>>

\* FinishRun: the terminal row and its event, in one transaction.
Finish(r) ==
    /\ row' = [row EXCEPT ![r] = fstat[r]]
    /\ LogEvent(r, fstat[r])

FinishRunCommits(r) ==
    /\ fetch[r] = "finish" /\ leak = {}
    /\ FetchOver(r, fstat[r])
    /\ Finish(r)
    /\ bell' = bell \cup {r}
    /\ UNCHANGED <<procVars, sup, kind, cancel, task, scorer, ops, outcome,
                   th, leak, subs, token, opsAfter>>

\* The writer died on a transaction: nothing more of this run commits, and
\* its row stays as it was.  Once the status is decided, a death on the
\* operations behind it (FinishRun too) no longer changes what handle returns.
WriterFails(r, s) ==
    /\ fetch[r] \in {"begin", "sweep", "finish"}
    /\ IF fetch[r] = "finish" THEN s = fstat[r]
       ELSE s = "failed" \/ (s = "cancelled" /\ r \in cancel)
    /\ FetchOver(r, s)
    /\ UNCHANGED <<procVars, sup, kind, cancel, task, scorer, ops, outcome,
                   th, dbVars, fanVars, histVars>>

\* aclose gave up on a commit still running: the transaction stays open
\* behind the run ...
WriterLeaks(r) ==
    /\ MayLeak /\ fetch[r] = "finish" /\ leak = {}
    /\ FetchOver(r, fstat[r])
    /\ leak' = {r}
    /\ UNCHANGED <<procVars, sup, kind, cancel, task, scorer, ops, outcome,
                   th, row, log, fanVars, histVars>>

\* ... and ends at some later time.
StragglerEnds(r, ok) ==
    /\ r \in leak
    /\ leak' = {}
    /\ IF ok THEN Finish(r) ELSE UNCHANGED <<row, log, tail>>
    /\ UNCHANGED <<procVars, runVars, th, fanVars, opsAfter>>

-----------------------------------------------------------------------------
(* The supervisor *)

\* The supervisor moves to pc p, to wait for the append of e.
SupAwaits(r, p) == sup' = [sup EXCEPT ![r] = p]

Licensed(r) ==
    /\ kind[r] \in StagedKinds
    /\ fstat[r] \in {"succeeded", "partial"}
    /\ r \notin cancel

\* await record.handle returns; the writer's hooks have run by then.
AfterFetch(r) ==
    /\ sup[r] = "fetch" /\ fetch[r] = "over" /\ r \notin bell
    /\ SupAwaits(r, IF Licensed(r) THEN "enrich_open" ELSE "skip")
    /\ th' = [th EXCEPT ![r]["sup"] =
                New(IF Licensed(r) THEN "enrich.started" ELSE "skipped")]
    /\ UNCHANGED <<procVars, kind, cancel, fetch, fstat, task, scorer, ops,
                   outcome, dbVars, fanVars, histVars>>

\* The stage task is created and registered; nothing reads the cancel flag
\* between the append and here.
EnrichBegins(r) ==
    /\ sup[r] = "enrich_open"
    /\ Resume(r, "sup", Idle)
    /\ SupAwaits(r, "enrich")
    /\ task' = [task EXCEPT ![r] = "run"]
    /\ UNCHANGED <<procVars, kind, cancel, fetch, fstat, scorer, ops, outcome,
                   dbVars, bell, subs, histVars>>

\* The pass returns or raises, and its task appends the result.
EnrichReturns(r, e) ==
    /\ task[r] = "run"
    /\ task' = [task EXCEPT ![r] = "append"]
    /\ th' = [th EXCEPT ![r]["task"] = New(e)]
    /\ UNCHANGED <<procVars, sup, kind, cancel, fetch, fstat, scorer, ops,
                   outcome, dbVars, fanVars, histVars>>

EnrichTaskEnds(r) ==
    /\ task[r] = "append"
    /\ Resume(r, "task", Idle)
    /\ task' = [task EXCEPT ![r] =
                  IF th[r]["task"].ev = "enrich.finished" THEN "ok" ELSE "failed"]
    /\ UNCHANGED <<procVars, sup, kind, cancel, fetch, fstat, scorer, ops,
                   outcome, dbVars, bell, subs, histVars>>

\* Variant: the handler waits for the stage to report before it goes on.
EnrichCancelledWaits(r) ==
    /\ sup[r] = "enrich" /\ task[r] = "cancelling" /\ Ended(r, "task")
    /\ task' = [task EXCEPT ![r] = "cancelled"]
    /\ SupAwaits(r, "enrich_cancelled")
    /\ th' = [th EXCEPT ![r]["sup"] = New("enrich.cancelled")]
    /\ UNCHANGED <<procVars, kind, cancel, fetch, fstat, scorer, ops, outcome,
                   dbVars, fanVars, histVars>>

\* The stage task ends in CancelledError.  An append it was waiting for goes
\* on by itself, and nobody publishes for it.
EnrichCancelled(r) ==
    /\ sup[r] = "enrich" /\ task[r] = "cancelling"
    /\ task' = [task EXCEPT ![r] = "cancelled"]
    /\ SupAwaits(r, "enrich_cancelled")
    /\ th' = [th EXCEPT ![r]["sup"] = New("enrich.cancelled")]
    /\ UNCHANGED <<procVars, kind, cancel, fetch, fstat, scorer, ops, outcome,
                   dbVars, fanVars, histVars>>

\* Scoring starts unless the run has been cancelled by now.
AfterEnrich(r) ==
    LET cancelled == r \in cancel
        next == New(IF cancelled THEN "score.cancelled" ELSE "score.started")
    IN
    /\ \/ /\ sup[r] = "enrich" /\ task[r] \in {"ok", "failed"}
          /\ th' = [th EXCEPT ![r]["sup"] = next]
          /\ UNCHANGED token
       \/ sup[r] = "enrich_cancelled" /\ Resume(r, "sup", next)
    /\ SupAwaits(r, IF cancelled THEN "score_skip" ELSE "score_open")
    /\ UNCHANGED <<procVars, kind, cancel, fetch, fstat, task, scorer, ops,
                   outcome, dbVars, bell, subs, histVars>>

ScoreBegins(r) ==
    /\ sup[r] = "score_open"
    /\ Resume(r, "sup", Idle)
    /\ SupAwaits(r, "score")
    /\ scorer' = [scorer EXCEPT ![r] = "go"]
    /\ UNCHANGED <<procVars, kind, cancel, fetch, fstat, task, ops, outcome,
                   dbVars, bell, subs, histVars>>

\* _graph_pass on its thread: OpenPass commits first; stop_if_cancelled runs
\* before every later operation.
ScoreStops(r) == ops[r] > 0 /\ r \in cancel

ScoreChecks(r) ==
    /\ scorer[r] = "check"
    /\ scorer' = [scorer EXCEPT ![r] =
                    IF ScoreStops(r) THEN "score.cancelled" ELSE "go"]
    /\ UNCHANGED <<procVars, sup, kind, cancel, fetch, fstat, task, ops,
                   outcome, th, dbVars, fanVars, histVars>>

\* _commit_op: apply, events and commit under BEGIN IMMEDIATE, then notify.
ScoreOpCommits(r) ==
    /\ scorer[r] = "go" /\ leak = {}
    /\ ops' = [ops EXCEPT ![r] = @ + 1]
    /\ scorer' = [scorer EXCEPT ![r] =
                    IF ops[r] + 1 = ScoreOps THEN "score.finished" ELSE "check"]
    /\ LogEvent(r, "graph")
    /\ bell' = bell \cup {r}
    /\ opsAfter' = [opsAfter EXCEPT ![r] = IF r \in cancel THEN @ + 1 ELSE @]
    /\ UNCHANGED <<procVars, sup, kind, cancel, fetch, fstat, task, outcome,
                   th, leak, row, subs, token>>

ScoreRaises(r) ==
    /\ scorer[r] \in {"go", "check"}
    /\ scorer' = [scorer EXCEPT ![r] = "score.failed"]
    /\ UNCHANGED <<procVars, sup, kind, cancel, fetch, fstat, task, ops,
                   outcome, th, dbVars, fanVars, histVars>>

\* Variant: a cancel does not wait for the thread.
ScoreEndsUnawaited(r) ==
    /\ sup[r] = "score"
    /\ r \in cancel \/ scorer[r] \in {"score.finished", "score.failed"}
    /\ SupAwaits(r, "score_close")
    /\ th' = [th EXCEPT ![r]["sup"] =
                New(IF r \in cancel THEN "score.cancelled" ELSE scorer[r])]
    /\ UNCHANGED <<procVars, kind, cancel, fetch, fstat, task, scorer, ops,
                   outcome, dbVars, fanVars, histVars>>

\* The thread is done: the supervisor appends what became of the pass.
ScoreEnds(r) ==
    /\ sup[r] = "score"
    /\ scorer[r] \in {"score.finished", "score.cancelled", "score.failed"}
    /\ SupAwaits(r, "score_close")
    /\ th' = [th EXCEPT ![r]["sup"] = New(scorer[r])]
    /\ UNCHANGED <<procVars, kind, cancel, fetch, fstat, task, scorer, ops,
                   outcome, dbVars, fanVars, histVars>>

Failures(r) == task[r] = "failed" \/ scorer[r] = "score.failed"

\* Variant: a failed stage does not show in the outcome.
OutcomeOfFetch(r) ==
    IF r \in cancel \/ fstat[r] = "cancelled" THEN "cancelled" ELSE fstat[r]

OutcomeOf(r) ==
    CASE r \in cancel \/ fstat[r] = "cancelled" -> "cancelled"
      [] r \notin cancel /\ fstat[r] # "cancelled" /\ Failures(r) -> "degraded"
      [] OTHER -> fstat[r]

\* The outcome is computed, and the settled event goes to a thread with it.
Settle(r) ==
    /\ sup[r] \in {"skip", "score_skip", "score_close"}
    /\ Resume(r, "sup", New("settled"))
    /\ SupAwaits(r, "settle")
    /\ outcome' = [outcome EXCEPT ![r] = OutcomeOf(r)]
    /\ UNCHANGED <<procVars, kind, cancel, fetch, fstat, task, scorer, ops,
                   dbVars, bell, subs, histVars>>

\* The finally of _supervise: settled, out of _active, and one more publish.
SettledToken(r) == Published(r)

SupervisorEnds(r) ==
    /\ sup[r] = "settle" /\ Ended(r, "sup")
    /\ SupAwaits(r, "done")
    /\ th' = [th EXCEPT ![r]["sup"] = Idle]
    /\ token' = SettledToken(r)
    /\ UNCHANGED <<procVars, kind, cancel, fetch, fstat, task, scorer, ops,
                   outcome, dbVars, bell, subs, histVars>>

-----------------------------------------------------------------------------
(* Process death and the next start *)

\* A crash, or the end of a shutdown whether or not the supervisors made it in
\* time.  Transactions in flight roll back; the tables stay.
ProcessDies ==
    /\ up /\ crashes + faults < MaxCrashes
    /\ up' = FALSE /\ closing' = FALSE /\ crashes' = crashes + 1
    /\ legacy' = FALSE
    /\ sup' = [r \in Runs |-> IF sup[r] = "resolving" THEN "none"
                              ELSE IF IsActive(r) THEN "dead" ELSE sup[r]]
    /\ fetch' = [r \in Runs |-> IF fetch[r] = "none" THEN "none" ELSE "over"]
    /\ task' = [r \in Runs |-> IF IsActive(r) THEN "none" ELSE task[r]]
    /\ scorer' = [r \in Runs |-> IF IsActive(r) THEN "none" ELSE scorer[r]]
    /\ th' = [r \in Runs |-> [w \in Slots |-> Idle]]
    /\ leak' = {} /\ bell' = {} /\ subs' = {} /\ token' = {}
    /\ UNCHANGED <<faults, kind, cancel, fstat, ops, outcome, row, log, histVars>>

\* lifespan: recovery runs before the first request, and a start survives its
\* failure.
Restarts(ok) ==
    /\ ~up
    /\ up' = TRUE
    /\ row' = IF ok THEN Recovered({}) ELSE row
    /\ UNCHANGED <<closing, crashes, faults, legacy, runVars, th, leak, log, fanVars,
                   histVars>>

-----------------------------------------------------------------------------
ServiceInit ==
    /\ up = TRUE /\ closing = FALSE /\ crashes = 0 /\ faults = 0 /\ legacy = FALSE
    /\ sup = [r \in Runs |-> "none"]
    /\ kind = [r \in Runs |-> "none"]
    /\ cancel = {}
    /\ fetch = [r \in Runs |-> "none"]
    /\ fstat = [r \in Runs |-> "none"]
    /\ task = [r \in Runs |-> "none"]
    /\ scorer = [r \in Runs |-> "none"]
    /\ ops = [r \in Runs |-> 0]
    /\ outcome = [r \in Runs |-> "none"]
    /\ th = [r \in Runs |-> [w \in Slots |-> Idle]]
    /\ leak = {} /\ bell = {} /\ subs = {} /\ token = {}
    /\ row = [r \in Runs |-> "absent"]
    /\ log = [r \in Runs |-> <<>>]
    /\ tail = [r \in Runs |-> 0]
    /\ opsAfter = [r \in Runs |-> 0]

Request(r) ==
    \/ \E k \in Kinds : StartRun(r, k) \/ RetryStarts(r, k)
    \/ RetrySource(r) \/ RetryRefused(r)
    \/ CancelRun(r)

Fetching(r) ==
    \/ Preflight(r) \/ PreflightFails(r)
    \/ StartRunCommits(r) \/ SourceEvent(r)
    \/ \E s \in Terminal : SweepEnds(r, s) \/ WriterFails(r, s)
    \/ FinishRunCommits(r) \/ WriterLeaks(r)
    \/ \E ok \in BOOLEAN : StragglerEnds(r, ok)

Appending(r) ==
    \E w \in Slots : AppendRead(r, w) \/ AppendInsert(r, w) \/ AppendFails(r, w)

Enriching(r) ==
    \/ \E e \in {"enrich.finished", "enrich.failed"} : EnrichReturns(r, e)
    \/ EnrichTaskEnds(r)

Scoring(r) == ScoreChecks(r) \/ ScoreOpCommits(r) \/ ScoreRaises(r)

Supervising(r) ==
    \/ AfterFetch(r) \/ EnrichBegins(r) \/ EnrichCancelled(r) \/ AfterEnrich(r)
    \/ ScoreBegins(r) \/ ScoreEnds(r) \/ Settle(r) \/ SupervisorEnds(r)

RunStep(r) ==
    Fetching(r) \/ Appending(r) \/ Enriching(r) \/ Scoring(r) \/
    Supervising(r) \/ Ring(r)

\* Steps of the service that leave the process up.
ServiceStep ==
    \/ \E r \in Runs : Request(r) \/ RunStep(r)
    \/ Aclose \/ LegacyRuns
    \/ \E ok \in BOOLEAN : Restarts(ok)

ServiceNext == ServiceStep \/ ProcessDies

=============================================================================
