----------------------------- MODULE EventStream ----------------------------
(***************************************************************************)
(* The run event stream (event_stream in webapp/backend/routers/runsapi.py)*)
(* on top of the run service.  A reader subscribes to the doorbell, then   *)
(* loops: sample is_active, read one page of rows past its cursor on a     *)
(* worker thread, deliver them, and close on the settled event or when the *)
(* sample said that the run was over.                                      *)
(*                                                                         *)
(* A client may disconnect at any time and come back with the sequence of  *)
(* the last event it was given (Last-Event-ID).                            *)
(***************************************************************************)
EXTENDS RunService

CONSTANTS
    PageSize,    \* EVENT_PAGE_SIZE
    MaxAfter     \* bound: the ?after= cursors a client asks for are below it

ASSUME StreamAssumption ==
    /\ PageSize \in Nat \ {0}
    /\ MaxAfter \in Nat

VARIABLES
    stream,    \* where each reader's event_stream is
    of,        \* the run it reads
    from,      \* the cursor of its first connection
    cursor,    \* the sequence of the last event it yielded
    sampled,   \* the is_active sample of this turn of the loop
    got,       \* events the client was given, over all its connections
    ended      \* how its last stream ended

streamVars == <<stream, of, from, cursor, sampled, got, ended>>
vars == <<serviceVars, streamVars>>

-----------------------------------------------------------------------------
(* Connecting *)

\* run_exists: a live run, or a row.
RunExists(r) == IsActive(r) \/ row[r] # "absent"

\* subscribe comes before the first read.
Opened(d, r) ==
    /\ subs' = subs \cup {<<d, r>>}
    /\ stream' = [stream EXCEPT ![d] = "sample"]
    /\ ended' = [ended EXCEPT ![d] = "open"]
    /\ UNCHANGED <<procVars, runVars, th, dbVars, bell, token, histVars, sampled>>

\* A new client: ?after=c, or the beginning of the run (-1).
Connect(d, r, c) ==
    /\ Serving /\ of[d] \notin Runs /\ RunExists(r)
    /\ of' = [of EXCEPT ![d] = r]
    /\ from' = [from EXCEPT ![d] = c]
    /\ cursor' = [cursor EXCEPT ![d] = c]
    /\ UNCHANGED got
    /\ Opened(d, r)

\* Variant: ?after= wins over Last-Event-ID.
ResumeAfter(d) == from[d]

\* resume_cursor: the last id wins; a client given nothing yet has none, and
\* asks again for what it asked first.
ResumeCursor(d) == IF got[d] = <<>> THEN from[d] ELSE cursor[d]

Reconnect(d) ==
    /\ Serving /\ stream[d] = "off" /\ of[d] \in Runs /\ RunExists(of[d])
    /\ cursor' = [cursor EXCEPT ![d] = ResumeCursor(d)]
    /\ UNCHANGED <<of, from, got>>
    /\ Opened(d, of[d])

\* unsubscribe, in the finally of event_stream; the queue goes with it.
Closed(d, how) ==
    /\ stream' = [stream EXCEPT ![d] = "off"]
    /\ ended' = [ended EXCEPT ![d] = how]
    /\ subs' = {x \in subs : x[1] # d}
    /\ token' = token \ {d}

Disconnect(d) ==
    /\ stream[d] # "off"
    /\ Closed(d, "dropped")
    /\ UNCHANGED <<procVars, runVars, th, dbVars, bell, histVars,
                   of, from, cursor, sampled, got>>

-----------------------------------------------------------------------------
(* The loop *)

\* Liveness is sampled before the read.
Sample(d) ==
    /\ stream[d] = "sample"
    /\ sampled' = [sampled EXCEPT ![d] = IsActive(of[d])]
    /\ stream' = [stream EXCEPT ![d] = "read"]
    /\ UNCHANGED <<serviceVars, of, from, cursor, got, ended>>

\* events_after: rows with sequence > cursor, ORDER BY sequence, LIMIT.
Page(r, c) ==
    LET last == IF Len(log[r]) < c + 1 + PageSize THEN Len(log[r])
                ELSE c + 1 + PageSize
    IN SubSeq(log[r], c + 2, last)

\* The rows that are yielded: up to the settled event, if it is among them.
Yielded(rows) ==
    LET S == {i \in 1 .. Len(rows) : rows[i] = "settled"}
    IN IF S = {} THEN rows
       ELSE SubSeq(rows, 1, CHOOSE i \in S : \A j \in S : i <= j)

\* Variant: the liveness sample is taken after the read.
VerdictSampledLate(d, rows) ==
    IF \E i \in 1 .. Len(rows) : rows[i] = "settled" THEN "settled"
    ELSE IF ~sampled[d] \/ ~IsActive(of[d]) THEN "drained"
    ELSE IF Len(rows) >= PageSize THEN "again" ELSE "wait"

\* What the loop does behind a page: go round at once when the page is full,
\* stop when the run was sampled dead, wait for the doorbell otherwise.
Verdict(d, rows) ==
    IF \E i \in 1 .. Len(rows) : rows[i] = "settled" THEN "settled"
    ELSE IF Len(rows) >= PageSize THEN "again"
    ELSE IF ~sampled[d] THEN "drained" ELSE "wait"

ReadPage(d) ==
    LET rows == Page(of[d], cursor[d])
        out == Yielded(rows)
        v == Verdict(d, rows)
    IN
    /\ stream[d] = "read"
    /\ got' = [got EXCEPT ![d] = @ \o out]
    /\ cursor' = [cursor EXCEPT ![d] = @ + Len(out)]
    /\ IF v \in {"settled", "drained"}
       THEN Closed(d, v)
       ELSE /\ stream' = [stream EXCEPT ![d] = IF v = "again" THEN "sample" ELSE v]
            /\ UNCHANGED <<ended, subs, token>>
    /\ UNCHANGED <<procVars, runVars, th, dbVars, bell, histVars,
                   of, from, sampled>>

\* queue.get() takes the token; the heartbeat timer goes round without one.
Wakes(d) ==
    /\ stream[d] = "wait" /\ d \in token
    /\ token' = token \ {d}
    /\ stream' = [stream EXCEPT ![d] = "sample"]
    /\ UNCHANGED <<procVars, runVars, th, dbVars, bell, subs, histVars,
                   of, from, cursor, sampled, got, ended>>

Heartbeat(d) ==
    /\ stream[d] = "wait" /\ d \notin token
    /\ stream' = [stream EXCEPT ![d] = "sample"]
    /\ UNCHANGED <<serviceVars, of, from, cursor, sampled, got, ended>>

\* The process takes its connections with it.
Dies ==
    /\ ProcessDies
    /\ stream' = [d \in Readers |-> "off"]
    /\ ended' = [d \in Readers |-> IF stream[d] = "off" THEN ended[d] ELSE "dropped"]
    /\ UNCHANGED <<of, from, cursor, sampled, got>>

-----------------------------------------------------------------------------
Init ==
    /\ ServiceInit
    /\ stream = [d \in Readers |-> "off"]
    /\ of = [d \in Readers |-> "none"]
    /\ from = [d \in Readers |-> -1]
    /\ cursor = [d \in Readers |-> -1]
    /\ sampled = [d \in Readers |-> FALSE]
    /\ got = [d \in Readers |-> <<>>]
    /\ ended = [d \in Readers |-> "none"]

StreamStep(d) == Sample(d) \/ ReadPage(d) \/ Wakes(d) \/ Heartbeat(d)

Client(d) ==
    \/ \E r \in Runs, c \in -1 .. MaxAfter - 1 : Connect(d, r, c)
    \/ Reconnect(d) \/ Disconnect(d)

Next ==
    \/ ServiceStep /\ UNCHANGED streamVars
    \/ Dies
    \/ \E d \in Readers : StreamStep(d) \/ Client(d)

Spec == Init /\ [][Next]_vars

-----------------------------------------------------------------------------
(* Properties *)

\* Every variable has its type; the fan-out's subscriptions are exactly the
\* open streams, so a closed stream leaves no queue behind.
TypeOK ==
    /\ up \in BOOLEAN /\ closing \in BOOLEAN /\ legacy \in BOOLEAN
    /\ crashes \in 0 .. MaxCrashes /\ faults \in 0 .. MaxFaults
    /\ sup \in [Runs -> SupPcs]
    /\ fetch \in [Runs -> FetchPcs]
    /\ cancel \subseteq Runs /\ leak \subseteq Runs
    /\ ops \in [Runs -> 0 .. ScoreOps]
    /\ token \subseteq {d \in Readers : \E r \in Runs : <<d, r>> \in subs}
    /\ subs = {<<d, of[d]>> : d \in {x \in Readers : stream[x] # "off"}}
    /\ stream \in [Readers -> {"off", "sample", "read", "wait"}]
    /\ \A d \in Readers : cursor[d] \in Int /\ from[d] \in -1 .. MaxAfter - 1

\* Two runs of one lane are never active together (_EXCLUSION_GROUPS), retries
\* that resolve their source while another run starts included.
LaneExclusive ==
    \A q, r \in Runs :
        q # r /\ IsActive(q) /\ IsActive(r) => Lane(kind[q]) # Lane(kind[r])

\* While the legacy runner runs no canonical run becomes active, a retry that
\* went to resolve its source before the runner started included: whatever it
\* knew then, it looks again when it comes back (_check_conflicts).
LegacyExcludesRuns ==
    [][\A r \in Runs : legacy /\ ~IsActive(r) => ~IsActive(r)']_vars

\* Orphan recovery, in the preflight of one run or at start-up, never takes
\* the row of a run this process is fetching (exclude_run_uids).
LiveRunKeepsItsRow ==
    \A r \in Runs : fetch[r] \in {"sweep", "finish"} => row[r] = "running"

\* A run with stages that settles as succeeded or partial has been enriched
\* and has been scored to its ClosePass, whatever was cancelled, lost or
\* failed on the way (_supervise).
SuccessMeansStagesRan ==
    \A r \in Runs :
        /\ sup[r] \in {"settle", "done"}
        /\ kind[r] \in StagedKinds
        /\ outcome[r] \in {"succeeded", "partial"}
        => task[r] = "ok" /\ scorer[r] = "score.finished" /\ ops[r] = ScoreOps

\* Behind a cancel the scoring thread commits one more operation at the most:
\* the one whose check it had passed, or OpenPass (_graph_pass).
ScoringStopsSoon == \A r \in Runs : opsAfter[r] <= 1

\* A run settles once, and the only events that can follow its settled event
\* are the two whose transactions nobody waits for: the enrichment result of a
\* cancelled stage task and the commit a timed-out close left behind.
OnlyOrphansFollowSettled ==
    \A r \in Runs : \A i, j \in 1 .. Len(log[r]) :
        log[r][i] = "settled" /\ i < j =>
            log[r][j] \in {"enrich.finished", "enrich.failed"} \cup
                          (IF MayLeak THEN Terminal ELSE {})

\* What a client has been given, over all its connections, is the run's events
\* from its first cursor on: no gap, no duplicate, no reordering, and none
\* that the table does not hold - across disconnects and process deaths.
StreamFaithful ==
    \A d \in Readers : of[d] \in Runs =>
        got[d] = SubSeq(log[of[d]], from[d] + 2, cursor[d] + 1)

\* A stream that closes because the run is over has delivered every event the
\* run had when its supervisor ended: no lost tail (event_stream samples
\* is_active before it reads).
CleanClose ==
    \A d \in Readers :
        ended[d] = "drained" => cursor[d] + 1 + tail[of[d]] >= Len(log[of[d]])

\* A reader waits on an empty doorbell only for a run that is active: whatever
\* the last append did, the end of the run wakes it, not the heartbeat.
WaitsOnlyForActiveRuns ==
    \A d \in Readers :
        stream[d] = "wait" /\ d \notin token => IsActive(of[d])

\* A reader that waits while its run has rows it has not read has a token, or
\* a publish for those rows is on its way: the doorbell is rung behind the
\* commit, never before it, and no commit is silent but one: the last row may
\* be the FinishRun a leaked transaction committed behind its writer.
NoLostWakeup ==
    \A d \in Readers :
        /\ stream[d] = "wait" /\ d \notin token
        /\ cursor[d] + 1 < Len(log[of[d]])
        => \/ of[d] \in bell
           \/ \E w \in Slots : th[of[d]][w].st = "landed"
           \/ MayLeak /\ log[of[d]][Len(log[of[d]])] = fstat[of[d]]

-----------------------------------------------------------------------------
(* Liveness *)

\* The event loop and its worker threads never leave a run that can take a step
\* at rest for ever (busy_timeout and the deadlines of the scheduler and of the
\* enrichment bound the threads), and a stream's timer fires.  Which of a run's
\* steps goes first is left open, and nothing is assumed of failing appends,
\* of clients, of the API's callers or of process death.
Fairness ==
    /\ \A r \in Runs :
         WF_vars(/\ \/ Fetching(r) \/ Enriching(r) \/ Scoring(r) \/ Supervising(r) \/ Ring(r)
                    \/ \E w \in Slots : AppendRead(r, w) \/ AppendInsert(r, w)
                 /\ UNCHANGED streamVars)
    /\ \A d \in Readers : WF_vars(StreamStep(d))

LiveSpec == Spec /\ Fairness

\* Every admitted run settles and frees its lane, or dies with the process,
\* however it is cancelled and whatever its stages do.
RunsSettle ==
    \A r \in Runs : sup[r] = "fetch" ~> sup[r] \in {"done", "dead"}

\* A stream on a run ends, even if the settled event was lost: no client waits
\* for a dead run.
StreamsEnd ==
    \A d \in Readers : stream[d] = "wait" ~> stream[d] = "off"

\* An open stream is subscribed, sleeps only while there is nothing to read and
\* more to come, and closes only with everything delivered.
ReadersKeepUp == TypeOK /\ CleanClose /\ NoLostWakeup /\ WaitsOnlyForActiveRuns

\* A run's outcome says what its stages did, a cancel stops them soon, and the
\* settled event is the last one but for the transactions nobody waits for.
OutcomeIsTrue == SuccessMeansStagesRan /\ ScoringStopsSoon /\ OnlyOrphansFollowSettled

\* Runs settle and their streams end.
EverythingEnds == RunsSettle /\ StreamsEnd

-----------------------------------------------------------------------------
(* What the code's comments claim *)

\* _deliver_cancel: "a cancel that lands after the handle is done still stops
\* everything that has not run yet".
CancelStopsEnrichment == \A r \in Runs : task[r] = "run" => r \notin cancel

=============================================================================
