-------------------------- MODULE EventStreamProofs -------------------------
(***************************************************************************)
(* Proofs about the lanes and the rows of the run service, what the stages *)
(* of a run leave behind, the event log and the readers of the event       *)
(* stream, for every set of runs and of readers and every bound.  The      *)
(* invariant is built in layers, each inductive on top of the ones below   *)
(* it: the rows (ServiceInv), the stages of a run, its append threads and  *)
(* its log, the readers.                                                   *)
(***************************************************************************)
EXTENDS EventStream, SequenceTheorems, WellFoundedInduction, TLAPS

(* The inductive invariant *)

\* The functions the lanes and the rows are read from.
Shape ==
    /\ sup \in [Runs -> SupPcs]
    /\ kind \in [Runs -> Kinds \cup {"none"}]
    /\ fetch \in [Runs -> FetchPcs]
    /\ row \in [Runs -> Terminal \cup {"absent", "running", "interrupted"}]
    /\ fstat \in [Runs -> Terminal \cup {"none"}]

\* A run that has not been admitted has no fetch.
UnadmittedIdle ==
    \A r \in Runs : sup[r] \in {"none", "resolving"} => fetch[r] = "none"

\* A transaction is left behind only by a fetch that is over, with a status.
LeakedIsOver ==
    \A r \in leak : r \in Runs /\ fetch[r] = "over" /\ fstat[r] \in Terminal

\* A process that is down fetches nothing.
DownIsQuiet == ~up => \A r \in Runs : fetch[r] \in {"none", "over"}

\* A fetch past its preflight has decided nothing but a terminal status.
DecidedStatus == \A r \in Runs : fetch[r] = "finish" => fstat[r] \in Terminal

ServiceInv ==
    /\ Shape /\ UnadmittedIdle /\ LeakedIsOver /\ DownIsQuiet /\ DecidedStatus
    /\ LaneExclusive
    /\ LiveRunKeepsItsRow

LEMMA InitHolds == Init => ServiceInv
  BY DEF Init, ServiceInit, ServiceInv, Shape, UnadmittedIdle, LeakedIsOver,
         DownIsQuiet, DecidedStatus, LaneExclusive, LiveRunKeepsItsRow, IsActive,
         SupPcs, FetchPcs, Terminal

\* A step that makes no run active and changes no kind keeps the lanes.
LEMMA LanesKept ==
  ASSUME LaneExclusive, kind' = kind,
         \A r \in Runs : IsActive(r)' => IsActive(r)
  PROVE  LaneExclusive'
  BY DEF LaneExclusive

\* The rest of the invariant depends on these variables only.
LEMMA RestKept ==
  ASSUME ServiceInv, UNCHANGED <<sup, kind, fetch, row, fstat, leak, up>>
  PROVE  ServiceInv'
  BY DEF ServiceInv, Shape, UnadmittedIdle, LeakedIsOver, DownIsQuiet,
         DecidedStatus, LaneExclusive, LiveRunKeepsItsRow, IsActive

\* The supervisor's steps move it between places of an admitted run.
LEMMA SupervisorMoves ==
  ASSUME ServiceInv, NEW r \in Runs, NEW p \in SupPcs \ {"none", "resolving"},
         IsActive(r), SupAwaits(r, p),
         UNCHANGED <<kind, fetch, row, fstat, leak, up>>
  PROVE  ServiceInv'
  <1>1. Shape' /\ UnadmittedIdle' /\ LeakedIsOver' /\ DownIsQuiet' /\ DecidedStatus'
    BY DEF ServiceInv, SupAwaits, Shape, UnadmittedIdle, LeakedIsOver,
           DownIsQuiet, DecidedStatus
  <1>2. \A q \in Runs : IsActive(q)' => IsActive(q)
    BY DEF ServiceInv, Shape, SupAwaits, IsActive
  <1>3. LaneExclusive'
    BY <1>2, LanesKept DEF ServiceInv
  <1>4. LiveRunKeepsItsRow'
    BY DEF ServiceInv, LiveRunKeepsItsRow
  <1> QED BY <1>1, <1>3, <1>4 DEF ServiceInv

LEMMA AdmitPreserves ==
  ASSUME ServiceInv, NEW r \in Runs, NEW k \in Kinds, up,
         sup[r] \in {"none", "resolving"}, CheckConflicts(k), Admit(r, k)
  PROVE  ServiceInv'
  <1>1. Shape' /\ UnadmittedIdle' /\ DownIsQuiet' /\ DecidedStatus'
    BY DEF ServiceInv, Admit, Shape, UnadmittedIdle, DownIsQuiet, DecidedStatus,
           SupPcs, FetchPcs, procVars, dbVars
  <1>2. LeakedIsOver'
    BY DEF ServiceInv, Admit, Shape, UnadmittedIdle, LeakedIsOver, dbVars
  <1>3. ASSUME NEW q \in Runs, NEW s \in Runs, q # s, IsActive(q)', IsActive(s)'
        PROVE  Lane(kind[q])' # Lane(kind[s])'
    <2>1. /\ kind'[r] = k
          /\ \A v \in Runs \ {r} : kind'[v] = kind[v] /\ sup'[v] = sup[v]
      BY DEF ServiceInv, Admit, Shape
    <2>2. \A v \in Runs \ {r} : IsActive(v)' => IsActive(v)
      BY <2>1 DEF IsActive
    <2>3. CASE q = r
      BY <1>3, <2>1, <2>2, <2>3 DEF CheckConflicts, Lane
    <2>4. CASE s = r
      BY <1>3, <2>1, <2>2, <2>4 DEF CheckConflicts, Lane
    <2>5. CASE q # r /\ s # r
      BY <1>3, <2>1, <2>2, <2>5 DEF ServiceInv, LaneExclusive, Lane
    <2> QED BY <2>3, <2>4, <2>5
  <1>4. LaneExclusive'
    BY <1>3 DEF LaneExclusive
  <1>5. LiveRunKeepsItsRow'
    BY DEF ServiceInv, Admit, Shape, LiveRunKeepsItsRow, dbVars
  <1> QED BY <1>1, <1>2, <1>4, <1>5 DEF ServiceInv

\* A step of the fetch that leaves the supervisor and the process alone.
LEMMA FetchMoves ==
  ASSUME ServiceInv, UNCHANGED <<sup, kind>>, Shape', LeakedIsOver',
         DownIsQuiet', DecidedStatus', LiveRunKeepsItsRow',
         \A r \in Runs : fetch[r] = "none" => fetch'[r] = "none"
  PROVE  ServiceInv'
  BY DEF ServiceInv, UnadmittedIdle, LaneExclusive, IsActive

LEMMA RequestPreserves ==
  ASSUME ServiceInv, NEW r \in Runs, Request(r)
  PROVE  ServiceInv'
  <1>1. ASSUME NEW k \in Kinds, StartRun(r, k) PROVE ServiceInv'
    BY <1>1, AdmitPreserves DEF StartRun, Serving
  <1>2. ASSUME NEW k \in Kinds, RetryStarts(r, k) PROVE ServiceInv'
    BY <1>2, AdmitPreserves DEF RetryStarts, RetryMayStart, Serving
  <1>3. ASSUME RetrySource(r) \/ RetryRefused(r) PROVE ServiceInv'
    <2>1. /\ UNCHANGED <<kind, fetch, fstat, row, leak, up>>
          /\ sup[r] \in {"none", "resolving"}
          /\ \E p \in {"none", "resolving"} : sup' = [sup EXCEPT ![r] = p]
      BY <1>3 DEF RetrySource, RetryRefused, procVars, dbVars
    <2>2. Shape' /\ UnadmittedIdle' /\ LeakedIsOver' /\ DownIsQuiet' /\ DecidedStatus'
      BY <2>1 DEF ServiceInv, Shape, UnadmittedIdle, LeakedIsOver, DownIsQuiet,
                  DecidedStatus, SupPcs
    <2>3. \A q \in Runs : IsActive(q)' => IsActive(q)
      BY <2>1 DEF ServiceInv, Shape, IsActive
    <2>4. LaneExclusive' /\ LiveRunKeepsItsRow'
      BY <2>1, <2>3, LanesKept DEF ServiceInv, LiveRunKeepsItsRow
    <2> QED BY <2>2, <2>4 DEF ServiceInv
  <1>4. ASSUME CancelRun(r) PROVE ServiceInv'
    BY <1>4, RestKept DEF CancelRun, procVars, dbVars
  <1> QED BY <1>1, <1>2, <1>3, <1>4 DEF Request

LEMMA FetchingPreserves ==
  ASSUME ServiceInv, NEW r \in Runs, Fetching(r)
  PROVE  ServiceInv'
  <1> USE DEF ServiceInv
  <1>1. ASSUME Preflight(r) PROVE ServiceInv'
    <2>1. Shape' /\ LeakedIsOver' /\ DownIsQuiet' /\ DecidedStatus'
      BY <1>1 DEF Preflight, Recovered, Shape, LeakedIsOver, DownIsQuiet,
                  DecidedStatus, FetchPcs, procVars
    <2>2. LiveRunKeepsItsRow'
      BY <1>1 DEF Preflight, Recovered, LiveRuns, Live, Shape, LiveRunKeepsItsRow
    <2> QED BY <1>1, <2>1, <2>2, FetchMoves DEF Preflight, Shape
  <1>2. ASSUME PreflightFails(r) PROVE ServiceInv'
    <2>1. Shape' /\ LeakedIsOver' /\ DownIsQuiet' /\ DecidedStatus' /\ LiveRunKeepsItsRow'
      BY <1>2 DEF PreflightFails, FetchOver, Shape, LeakedIsOver, DownIsQuiet,
                  DecidedStatus, LiveRunKeepsItsRow, FetchPcs, Terminal, procVars, dbVars
    <2> QED BY <1>2, <2>1, FetchMoves DEF PreflightFails, FetchOver, Shape
  <1>3. ASSUME StartRunCommits(r) PROVE ServiceInv'
    <2>1. Shape' /\ LeakedIsOver' /\ DownIsQuiet' /\ DecidedStatus' /\ LiveRunKeepsItsRow'
      BY <1>3 DEF StartRunCommits, Shape, LeakedIsOver, DownIsQuiet, DecidedStatus,
                  LiveRunKeepsItsRow, FetchPcs, procVars
    <2> QED BY <1>3, <2>1, FetchMoves DEF StartRunCommits, Shape
  <1>4. ASSUME SourceEvent(r) PROVE ServiceInv'
    BY <1>4, RestKept DEF SourceEvent, procVars, runVars
  <1>5. ASSUME NEW s \in Terminal, SweepEnds(r, s) PROVE ServiceInv'
    <2>1. Shape' /\ LeakedIsOver' /\ DownIsQuiet' /\ DecidedStatus' /\ LiveRunKeepsItsRow'
      BY <1>5 DEF SweepEnds, Shape, LeakedIsOver, DownIsQuiet, DecidedStatus,
                  LiveRunKeepsItsRow, FetchPcs, procVars, dbVars
    <2> QED BY <1>5, <2>1, FetchMoves DEF SweepEnds, Shape
  <1>6. ASSUME NEW s \in Terminal, WriterFails(r, s) PROVE ServiceInv'
    <2>1. Shape' /\ LeakedIsOver' /\ DownIsQuiet' /\ DecidedStatus' /\ LiveRunKeepsItsRow'
      BY <1>6 DEF WriterFails, FetchOver, Shape, LeakedIsOver, DownIsQuiet,
                  DecidedStatus, LiveRunKeepsItsRow, FetchPcs, procVars, dbVars
    <2> QED BY <1>6, <2>1, FetchMoves DEF WriterFails, FetchOver, Shape
  <1>7. ASSUME FinishRunCommits(r) PROVE ServiceInv'
    <2>1. Shape' /\ LeakedIsOver' /\ DownIsQuiet' /\ DecidedStatus' /\ LiveRunKeepsItsRow'
      BY <1>7 DEF FinishRunCommits, FetchOver, Finish, Shape, LeakedIsOver,
                  DownIsQuiet, DecidedStatus, LiveRunKeepsItsRow, FetchPcs, procVars
    <2> QED BY <1>7, <2>1, FetchMoves DEF FinishRunCommits, FetchOver, Shape
  <1>8. ASSUME WriterLeaks(r) PROVE ServiceInv'
    <2>1. Shape' /\ LeakedIsOver' /\ DownIsQuiet' /\ DecidedStatus' /\ LiveRunKeepsItsRow'
      BY <1>8 DEF WriterLeaks, FetchOver, Shape, LeakedIsOver, DownIsQuiet,
                  DecidedStatus, LiveRunKeepsItsRow, FetchPcs, procVars
    <2> QED BY <1>8, <2>1, FetchMoves DEF WriterLeaks, FetchOver, Shape
  <1>9. ASSUME NEW ok \in BOOLEAN, StragglerEnds(r, ok) PROVE ServiceInv'
    <2>1. /\ UNCHANGED <<sup, kind, fetch, fstat, up>>
          /\ fetch[r] = "over"
          /\ leak' = {}
          /\ fstat[r] \in Terminal
          /\ row' = row \/ row' = [row EXCEPT ![r] = fstat[r]]
      BY <1>9 DEF StragglerEnds, Finish, runVars, procVars, LeakedIsOver
    <2>2. Shape' /\ LeakedIsOver' /\ DownIsQuiet' /\ DecidedStatus' /\ LiveRunKeepsItsRow'
      BY <2>1 DEF Shape, LeakedIsOver, DownIsQuiet, DecidedStatus, LiveRunKeepsItsRow
    <2> QED BY <2>1, <2>2, FetchMoves
  <1> QED BY <1>1, <1>2, <1>3, <1>4, <1>5, <1>6, <1>7, <1>8, <1>9 DEF Fetching

\* Appends, the stage task, the scoring thread and the doorbell touch neither
\* the lanes nor the rows.
LEMMA WorkersPreserve ==
  ASSUME ServiceInv, NEW r \in Runs,
         Appending(r) \/ Enriching(r) \/ Scoring(r) \/ Ring(r)
  PROVE  ServiceInv'
  <1>1. ASSUME Appending(r)
        PROVE  UNCHANGED <<sup, kind, fetch, row, fstat, leak, up>>
    BY <1>1, ZenonT(60) DEF Appending, AppendRead, AppendInsert, AppendFails, LogEvent,
                            procVars, runVars, dbVars
  <1>2. ASSUME Enriching(r)
        PROVE  UNCHANGED <<sup, kind, fetch, row, fstat, leak, up>>
    BY <1>2 DEF Enriching, EnrichReturns, EnrichTaskEnds, procVars, dbVars
  <1>3. ASSUME Scoring(r)
        PROVE  UNCHANGED <<sup, kind, fetch, row, fstat, leak, up>>
    BY <1>3 DEF Scoring, ScoreChecks, ScoreOpCommits, ScoreRaises, procVars, dbVars
  <1>4. ASSUME Ring(r)
        PROVE  UNCHANGED <<sup, kind, fetch, row, fstat, leak, up>>
    BY <1>4 DEF Ring, procVars, runVars, dbVars
  <1>5. UNCHANGED <<sup, kind, fetch, row, fstat, leak, up>>
    BY <1>1, <1>2, <1>3, <1>4, Zenon
  <1> QED BY <1>5, RestKept

LEMMA SupervisingPreserves ==
  ASSUME ServiceInv, NEW r \in Runs, Supervising(r)
  PROVE  ServiceInv'
  <1>1. PICK p \in SupPcs \ {"none", "resolving"} : SupAwaits(r, p)
    <2>1. ASSUME AfterFetch(r) PROVE SupAwaits(r, "enrich_open") \/ SupAwaits(r, "skip")
      BY <2>1 DEF AfterFetch
    <2>2. ASSUME EnrichBegins(r) PROVE SupAwaits(r, "enrich")
      BY <2>2 DEF EnrichBegins
    <2>3. ASSUME EnrichCancelled(r) PROVE SupAwaits(r, "enrich_cancelled")
      BY <2>3 DEF EnrichCancelled
    <2>4. ASSUME AfterEnrich(r) PROVE SupAwaits(r, "score_skip") \/ SupAwaits(r, "score_open")
      BY <2>4 DEF AfterEnrich
    <2>5. ASSUME ScoreBegins(r) PROVE SupAwaits(r, "score")
      BY <2>5 DEF ScoreBegins
    <2>6. ASSUME ScoreEnds(r) PROVE SupAwaits(r, "score_close")
      BY <2>6 DEF ScoreEnds
    <2>7. ASSUME Settle(r) PROVE SupAwaits(r, "settle")
      BY <2>7 DEF Settle
    <2>8. ASSUME SupervisorEnds(r) PROVE SupAwaits(r, "done")
      BY <2>8 DEF SupervisorEnds
    <2>9. {"enrich_open", "skip", "enrich", "enrich_cancelled", "score_skip",
           "score_open", "score", "score_close", "settle", "done"}
          \subseteq SupPcs \ {"none", "resolving"}
      BY DEF SupPcs
    <2> QED BY <2>1, <2>2, <2>3, <2>4, <2>5, <2>6, <2>7, <2>8, <2>9 DEF Supervising
  <1>2. IsActive(r) /\ UNCHANGED <<kind, fetch, row, fstat, leak, up>>
    BY DEF Supervising, AfterFetch, EnrichBegins, EnrichCancelled, AfterEnrich,
           ScoreBegins, ScoreEnds, Settle, SupervisorEnds, IsActive, procVars, dbVars
  <1> QED BY <1>1, <1>2, SupervisorMoves

\* A new process finds no fetch running, so recovery may take every row.
LEMMA RestartPreserves ==
  ASSUME ServiceInv, NEW ok \in BOOLEAN, Restarts(ok)
  PROVE  ServiceInv'
  <1> USE DEF ServiceInv
  <1>1. /\ UNCHANGED <<sup, kind, fetch, fstat, leak>> /\ up' = TRUE /\ ~up
        /\ row' = row \/ row' = Recovered({})
    BY DEF Restarts, runVars
  <1>2. Shape' /\ LeakedIsOver' /\ DownIsQuiet' /\ DecidedStatus'
    BY <1>1 DEF Shape, LeakedIsOver, DownIsQuiet, DecidedStatus, Recovered
  <1>3. LiveRunKeepsItsRow'
    BY <1>1 DEF DownIsQuiet, LiveRunKeepsItsRow
  <1> QED BY <1>1, <1>2, <1>3, FetchMoves

LEMMA DeathPreserves ==
  ASSUME ServiceInv, ProcessDies
  PROVE  ServiceInv'
  <1> USE DEF ServiceInv
  <1>1. /\ UNCHANGED <<kind, row, fstat>> /\ leak' = {} /\ up' = FALSE
        /\ fetch' = [r \in Runs |-> IF fetch[r] = "none" THEN "none" ELSE "over"]
        /\ sup' = [r \in Runs |-> IF sup[r] = "resolving" THEN "none"
                                  ELSE IF IsActive(r) THEN "dead" ELSE sup[r]]
    BY DEF ProcessDies
  <1>2. Shape' /\ LeakedIsOver' /\ DownIsQuiet' /\ DecidedStatus' /\ LiveRunKeepsItsRow'
    BY <1>1 DEF Shape, LeakedIsOver, DownIsQuiet, DecidedStatus,
                LiveRunKeepsItsRow, SupPcs, FetchPcs
  <1>3. UnadmittedIdle'
    BY <1>1 DEF UnadmittedIdle, Shape, IsActive
  <1>4. \A r \in Runs : IsActive(r)' => IsActive(r)
    BY <1>1 DEF Shape, IsActive
  <1>5. LaneExclusive'
    BY <1>1, <1>4, LanesKept
  <1> QED BY <1>2, <1>3, <1>5

LEMMA StreamPreserves ==
  ASSUME ServiceInv, NEW d \in Readers, StreamStep(d) \/ Client(d)
  PROVE  ServiceInv'
  <1>1. ASSUME StreamStep(d)
        PROVE  UNCHANGED <<sup, kind, fetch, row, fstat, leak, up>>
    BY <1>1 DEF StreamStep, Sample, ReadPage, Wakes, Heartbeat, serviceVars,
                procVars, runVars, dbVars
  <1>2. ASSUME Client(d)
        PROVE  UNCHANGED <<sup, kind, fetch, row, fstat, leak, up>>
    BY <1>2 DEF Client, Connect, Reconnect, Disconnect, Opened,
                procVars, runVars, dbVars
  <1> QED BY <1>1, <1>2, RestKept

\* ServiceInv is inductive.
LEMMA NextPreserves ==
  ASSUME ServiceInv, [Next]_vars
  PROVE  ServiceInv'
  <1>1. ASSUME NEW r \in Runs, Request(r) PROVE ServiceInv'
    BY <1>1, RequestPreserves
  <1>2. ASSUME NEW r \in Runs, RunStep(r) PROVE ServiceInv'
    BY <1>2, FetchingPreserves, WorkersPreserve, SupervisingPreserves DEF RunStep
  <1>3. ASSUME Aclose \/ LegacyRuns PROVE ServiceInv'
    BY <1>3, RestKept DEF Aclose, LegacyRuns, runVars, dbVars
  <1>4. ASSUME NEW ok \in BOOLEAN, Restarts(ok) PROVE ServiceInv'
    BY <1>4, RestartPreserves
  <1>5. ASSUME Dies PROVE ServiceInv'
    BY <1>5, DeathPreserves DEF Dies
  <1>6. ASSUME NEW d \in Readers, StreamStep(d) \/ Client(d) PROVE ServiceInv'
    BY <1>6, StreamPreserves
  <1>7. ASSUME UNCHANGED vars PROVE ServiceInv'
    BY <1>7, RestKept DEF vars, serviceVars, procVars, runVars, dbVars
  <1> QED BY <1>1, <1>2, <1>3, <1>4, <1>5, <1>6, <1>7 DEF Next, ServiceStep

\* start_run and retry_source never put two active runs in one lane, whatever
\* runs, retries, cancels, deaths and restarts interleave.
THEOREM LanesExclude == Spec => []LaneExclusive
  <1>1. ServiceInv => LaneExclusive
    BY DEF ServiceInv
  <1> QED BY InitHolds, NextPreserves, <1>1, PTL DEF Spec

\* No recovery - in the preflight of another run, or at a start - takes the row
\* of a run that is being fetched.
THEOREM LiveRowsKept == Spec => []LiveRunKeepsItsRow
  <1>1. ServiceInv => LiveRunKeepsItsRow
    BY DEF ServiceInv
  <1> QED BY InitHolds, NextPreserves, <1>1, PTL DEF Spec

(* Stages, log and readers *)

TaskPcs == {"none", "run", "append", "cancelling", "ok", "failed", "cancelled"}

ScorerPcs == {"none", "go", "check", "score.finished", "score.cancelled",
              "score.failed"}

(* The stages of a run *)

StageShape ==
    /\ cancel \subseteq Runs
    /\ task \in [Runs -> TaskPcs]
    /\ scorer \in [Runs -> ScorerPcs]
    /\ ops \in [Runs -> Nat]
    /\ opsAfter \in [Runs -> Nat]
    /\ outcome \in [Runs -> Terminal \cup {"none", "degraded"}]

\* The fetch is decided once, and is over before anything runs behind it.
FetchPlace(r) ==
    /\ sup[r] \in {"none", "resolving"} => r \notin cancel
    /\ sup[r] = "fetch" => fetch[r] # "none"
    /\ sup[r] \notin {"none", "resolving", "fetch"} => fetch[r] = "over"
    /\ fetch[r] \in {"none", "preflight", "begin", "sweep"} => fstat[r] = "none"

\* The stage task runs while the supervisor waits for it, and ends cancelled
\* only in a cancelled run.
TaskPlace(r) ==
    /\ sup[r] \in {"none", "resolving", "fetch", "enrich_open", "skip", "dead"} =>
          task[r] = "none"
    /\ task[r] \in {"run", "append", "cancelling"} => sup[r] = "enrich"
    /\ sup[r] \in {"enrich_cancelled", "score_skip", "score_open", "score", "score_close"} =>
          task[r] \in {"ok", "failed", "cancelled"}
    /\ task[r] \in {"cancelling", "cancelled"} => r \in cancel

\* So does the scoring thread; what it has committed follows from where it is.
ScorerPlace(r) ==
    /\ sup[r] \in SupPcs \ {"score", "score_close", "settle", "done", "dead"} =>
          scorer[r] = "none" /\ ops[r] = 0
    /\ sup[r] = "dead" => scorer[r] = "none"
    /\ scorer[r] \in {"go", "check"} => sup[r] = "score" /\ ops[r] < ScoreOps
    /\ sup[r] \in {"score", "score_close"} => scorer[r] # "none"
    /\ scorer[r] = "check" => ops[r] > 0
    /\ ops[r] <= ScoreOps
    /\ scorer[r] = "score.finished" => ops[r] = ScoreOps
    /\ scorer[r] = "score.cancelled" => r \in cancel

\* An operation behind the cancel is the last one.
CancelCount(r) ==
    /\ r \notin cancel => opsAfter[r] = 0
    /\ scorer[r] \in {"none", "go"} /\ sup[r] # "dead" => opsAfter[r] = 0
    /\ opsAfter[r] <= 1

\* Stages are skipped for a reason that shows in the outcome.
SkipReasons(r) ==
    /\ sup[r] = "skip" => ~Licensed(r)
    /\ sup[r] = "score_skip" => r \in cancel
    /\ sup[r] = "score_close" => scorer[r] \notin {"go", "check"}

StageInv ==
    /\ StageShape
    /\ \A r \in Runs : /\ FetchPlace(r) /\ TaskPlace(r) /\ ScorerPlace(r)
                       /\ CancelCount(r) /\ SkipReasons(r)
    /\ SuccessMeansStagesRan

LEMMA StageInit == Init => StageInv
  BY ServiceAssumption DEF Init, ServiceInit, StageInv, StageShape, FetchPlace, TaskPlace,
         ScorerPlace, CancelCount, SkipReasons, SuccessMeansStagesRan, SupPcs, TaskPcs,
         ScorerPcs, Licensed

LEMMA StageKept ==
  ASSUME StageInv,
         UNCHANGED <<sup, kind, cancel, fetch, fstat, task, scorer, ops, opsAfter, outcome>>
  PROVE  StageInv'
  BY DEF StageInv, StageShape, FetchPlace, TaskPlace, ScorerPlace, CancelCount,
         SkipReasons, SuccessMeansStagesRan, Licensed

LEMMA AdmitKeepsStages ==
  ASSUME ServiceInv, StageInv, NEW r \in Runs, NEW k \in Kinds,
         sup[r] \in {"none", "resolving"}, Admit(r, k)
  PROVE  StageInv'
  BY ServiceAssumption DEF Admit, ServiceInv, Shape, UnadmittedIdle, StageInv, StageShape,
         FetchPlace, TaskPlace, ScorerPlace, CancelCount, SkipReasons,
         SuccessMeansStagesRan, Licensed, SupPcs, FetchPcs, histVars

LEMMA CancelKeepsStages ==
  ASSUME ServiceInv, StageInv, NEW S \in SUBSET Runs, \A r \in S : IsActive(r),
         DeliverCancel(S), UNCHANGED <<sup, kind, fetch, fstat, scorer, ops, opsAfter, outcome>>
  PROVE  StageInv'
  BY DEF DeliverCancel, TaskAfterCancel, ServiceInv, Shape, StageInv, StageShape,
         FetchPlace, TaskPlace, ScorerPlace, CancelCount, SkipReasons,
         SuccessMeansStagesRan, Licensed, SupPcs, TaskPcs, IsActive

\* The scheduler's steps move the fetch forward and decide its status once.
LEMMA FetchingKeepsStages ==
  ASSUME ServiceInv, StageInv, NEW r \in Runs, Fetching(r)
  PROVE  StageInv'
  <1> DEFINE Moves(p, s) == /\ fetch[r] \notin {"none", "over"}
                            /\ fetch' = [fetch EXCEPT ![r] = p]
                            /\ fstat' = [fstat EXCEPT ![r] = s]
                            /\ p \in {"begin", "sweep"} => fstat[r] = "none" /\ s = "none"
                            /\ p \in {"begin", "sweep", "finish", "over"}
  <1> USE DEF ServiceInv
  <1>1. UNCHANGED <<sup, kind, cancel, task, scorer, ops, opsAfter, outcome>>
    BY DEF Fetching, Preflight, PreflightFails, StartRunCommits, SourceEvent, SweepEnds,
           FinishRunCommits, WriterFails, WriterLeaks, StragglerEnds, runVars, histVars
  <1>2. \/ UNCHANGED <<fetch, fstat>>
        \/ \E p \in FetchPcs, s \in Terminal \cup {"none"} : Moves(p, s)
    <2>1. ASSUME Preflight(r) PROVE Moves("begin", "none")
      BY <2>1 DEF Preflight, Shape, StageInv, FetchPlace
    <2>2. ASSUME PreflightFails(r) PROVE Moves("over", "failed")
      BY <2>2 DEF PreflightFails, FetchOver
    <2>3. ASSUME StartRunCommits(r) PROVE Moves("sweep", "none")
      BY <2>3 DEF StartRunCommits, Shape, StageInv, FetchPlace
    <2>4. ASSUME SourceEvent(r) PROVE UNCHANGED <<fetch, fstat>>
      BY <2>4 DEF SourceEvent, runVars
    <2>5. ASSUME NEW s \in Terminal, SweepEnds(r, s) PROVE Moves("finish", s)
      BY <2>5 DEF SweepEnds
    <2>6. ASSUME FinishRunCommits(r) PROVE Moves("over", fstat[r])
      BY <2>6 DEF FinishRunCommits, FetchOver
    <2>7. ASSUME NEW s \in Terminal, WriterFails(r, s) PROVE Moves("over", s)
      BY <2>7 DEF WriterFails, FetchOver
    <2>8. ASSUME WriterLeaks(r) PROVE Moves("over", fstat[r])
      BY <2>8 DEF WriterLeaks, FetchOver
    <2>9. ASSUME NEW ok \in BOOLEAN, StragglerEnds(r, ok) PROVE UNCHANGED <<fetch, fstat>>
      BY <2>9 DEF StragglerEnds, runVars
    <2>10. fstat[r] \in Terminal \cup {"none"} /\ "failed" \in Terminal
      BY DEF Shape, Terminal
    <2> HIDE DEF Moves
    <2> QED BY <2>1, <2>2, <2>3, <2>4, <2>5, <2>6, <2>7, <2>8, <2>9, <2>10
            DEF Fetching, FetchPcs
  <1>3. CASE UNCHANGED <<fetch, fstat>>
    BY <1>1, <1>3, StageKept
  <1>4. ASSUME NEW p \in FetchPcs, NEW s \in Terminal \cup {"none"}, Moves(p, s)
        PROVE  StageInv'
    <2>1. sup[r] = "fetch" \/ sup[r] \in {"none", "resolving"}
      BY <1>4 DEF Shape, StageInv, FetchPlace
    <2>2. StageShape' /\ SuccessMeansStagesRan'
      BY <1>1 DEF StageInv, StageShape, SuccessMeansStagesRan
    <2>3. ASSUME NEW q \in Runs
          PROVE  /\ TaskPlace(q)' /\ ScorerPlace(q)' /\ CancelCount(q)'
                 /\ FetchPlace(q)'
      BY <1>1, <1>4, <2>1 DEF StageInv, TaskPlace, ScorerPlace, CancelCount, FetchPlace, Shape
    <2>4. ASSUME NEW q \in Runs PROVE SkipReasons(q)'
      BY <1>1, <1>4, <2>1 DEF StageInv, SkipReasons, Licensed, Shape
    <2> QED BY <2>2, <2>3, <2>4 DEF StageInv
  <1> QED BY <1>2, <1>3, <1>4

LEMMA WorkersKeepStages ==
  ASSUME ServiceInv, StageInv, NEW r \in Runs, Enriching(r) \/ Scoring(r)
  PROVE  StageInv'
  <1>1. ASSUME Enriching(r) PROVE StageInv'
    BY <1>1 DEF Enriching, EnrichReturns, EnrichTaskEnds, ServiceInv, Shape, StageInv,
           StageShape, FetchPlace, TaskPlace, ScorerPlace, CancelCount, SkipReasons,
           SuccessMeansStagesRan, Licensed, TaskPcs, histVars
  <1>2. ASSUME ScoreChecks(r) PROVE StageInv'
    BY <1>2 DEF ScoreChecks, ScoreStops, ServiceInv, Shape, StageInv,
           StageShape, FetchPlace, TaskPlace, ScorerPlace, CancelCount, SkipReasons,
           SuccessMeansStagesRan, Licensed, ScorerPcs, histVars
  <1>3. ASSUME ScoreOpCommits(r) PROVE StageInv'
    BY <1>3, ServiceAssumption DEF ScoreOpCommits, ServiceInv, Shape, StageInv,
           StageShape, FetchPlace, TaskPlace, ScorerPlace, CancelCount, SkipReasons,
           SuccessMeansStagesRan, Licensed, ScorerPcs
  <1>4. ASSUME ScoreRaises(r) PROVE StageInv'
    BY <1>4 DEF ScoreRaises, ServiceInv, Shape, StageInv,
           StageShape, FetchPlace, TaskPlace, ScorerPlace, CancelCount, SkipReasons,
           SuccessMeansStagesRan, Licensed, ScorerPcs, histVars
  <1> QED BY <1>1, <1>2, <1>3, <1>4 DEF Scoring

LEMMA SupervisingKeepsStages ==
  ASSUME ServiceInv, StageInv, NEW r \in Runs, Supervising(r)
  PROVE  StageInv'
  <1>1. ASSUME AfterFetch(r) PROVE StageInv'
    BY <1>1 DEF AfterFetch, SupAwaits, ServiceInv, Shape, StageInv, StageShape, FetchPlace,
           TaskPlace, ScorerPlace, CancelCount, SkipReasons, SuccessMeansStagesRan,
           Licensed, SupPcs, histVars
  <1>2. ASSUME EnrichBegins(r) PROVE StageInv'
    BY <1>2 DEF EnrichBegins, SupAwaits, ServiceInv, Shape, StageInv, StageShape, FetchPlace,
           TaskPlace, ScorerPlace, CancelCount, SkipReasons, SuccessMeansStagesRan,
           Licensed, SupPcs, histVars, TaskPcs
  <1>3. ASSUME EnrichCancelled(r) PROVE StageInv'
    BY <1>3 DEF EnrichCancelled, SupAwaits, ServiceInv, Shape, StageInv, StageShape, FetchPlace,
           TaskPlace, ScorerPlace, CancelCount, SkipReasons, SuccessMeansStagesRan,
           Licensed, SupPcs, histVars, TaskPcs
  <1>4. ASSUME AfterEnrich(r) PROVE StageInv'
    BY <1>4 DEF AfterEnrich, SupAwaits, ServiceInv, Shape, StageInv, StageShape, FetchPlace,
           TaskPlace, ScorerPlace, CancelCount, SkipReasons, SuccessMeansStagesRan,
           Licensed, SupPcs, histVars
  <1>5. ASSUME ScoreBegins(r) PROVE StageInv'
    BY <1>5, ServiceAssumption DEF ScoreBegins, SupAwaits, ServiceInv, Shape, StageInv, StageShape, FetchPlace,
           TaskPlace, ScorerPlace, CancelCount, SkipReasons, SuccessMeansStagesRan,
           Licensed, SupPcs, histVars, ScorerPcs
  <1>6. ASSUME ScoreEnds(r) PROVE StageInv'
    BY <1>6 DEF ScoreEnds, SupAwaits, ServiceInv, Shape, StageInv, StageShape, FetchPlace,
           TaskPlace, ScorerPlace, CancelCount, SkipReasons, SuccessMeansStagesRan,
           Licensed, SupPcs, histVars
  \* The outcome: what was skipped or failed shows in it.
  <1>7. ASSUME Settle(r) PROVE StageInv'
    <2>1. OutcomeOf(r) \in Terminal \cup {"none", "degraded"}
      BY DEF OutcomeOf, Terminal, ServiceInv, Shape
    <2>2. StageShape' /\ \A q \in Runs : /\ FetchPlace(q)' /\ TaskPlace(q)' /\ ScorerPlace(q)'
                                         /\ CancelCount(q)' /\ SkipReasons(q)'
      BY <1>7, <2>1 DEF Settle, SupAwaits, ServiceInv, Shape, StageInv, StageShape,
             FetchPlace, TaskPlace, ScorerPlace, CancelCount, SkipReasons, Licensed,
             SupPcs, histVars
    <2>3. ASSUME kind[r] \in StagedKinds, OutcomeOf(r) \in {"succeeded", "partial"}
          PROVE  task[r] = "ok" /\ scorer[r] = "score.finished" /\ ops[r] = ScoreOps
      <3>1. /\ r \notin cancel /\ ~Failures(r)
            /\ fstat[r] \in {"succeeded", "partial"}
        BY <2>3 DEF OutcomeOf
      <3> QED BY <1>7, <2>3, <3>1 DEF Settle, Failures, StageInv, StageShape, TaskPlace,
                 ScorerPlace, SkipReasons, Licensed, ScorerPcs
    <2>4. SuccessMeansStagesRan'
      BY <1>7, <2>1, <2>3 DEF Settle, SupAwaits, ServiceInv, Shape, StageInv, StageShape,
             SuccessMeansStagesRan
    <2> QED BY <2>2, <2>4 DEF StageInv
  <1>8. ASSUME SupervisorEnds(r) PROVE StageInv'
    BY <1>8 DEF SupervisorEnds, SupAwaits, ServiceInv, Shape, StageInv, StageShape, FetchPlace,
           TaskPlace, ScorerPlace, CancelCount, SkipReasons, SuccessMeansStagesRan,
           Licensed, SupPcs, histVars
  <1> QED BY <1>1, <1>2, <1>3, <1>4, <1>5, <1>6, <1>7, <1>8 DEF Supervising

LEMMA DeathKeepsStages ==
  ASSUME ServiceInv, StageInv, ProcessDies
  PROVE  StageInv'
  BY DEF ProcessDies, IsActive, TaskPcs, ScorerPcs, FetchPcs, ServiceInv, Shape, StageInv, StageShape, FetchPlace,
           TaskPlace, ScorerPlace, CancelCount, SkipReasons, SuccessMeansStagesRan,
           Licensed, SupPcs, histVars

\* StageInv is inductive on top of ServiceInv.
LEMMA NextKeepsStages ==
  ASSUME ServiceInv, StageInv, [Next]_vars
  PROVE  StageInv'
  <1> DEFINE Quiet == UNCHANGED <<sup, kind, cancel, fetch, fstat, task, scorer, ops,
                                  opsAfter, outcome>>
  <1>1. ASSUME NEW r \in Runs, Request(r) PROVE StageInv'
    <2>1. ASSUME NEW k \in Kinds, StartRun(r, k) \/ RetryStarts(r, k) PROVE StageInv'
      BY <2>1, AdmitKeepsStages DEF StartRun, RetryStarts
    <2>2. ASSUME RetrySource(r) \/ RetryRefused(r) PROVE StageInv'
      BY <2>2 DEF RetrySource, RetryRefused, UnadmittedIdle, ServiceInv, Shape, StageInv, StageShape, FetchPlace,
           TaskPlace, ScorerPlace, CancelCount, SkipReasons, SuccessMeansStagesRan,
           Licensed, SupPcs, histVars
    <2>3. ASSUME CancelRun(r) PROVE StageInv'
      BY <2>3, CancelKeepsStages DEF CancelRun
    <2> QED BY <1>1, <2>1, <2>2, <2>3 DEF Request
  <1>2. ASSUME NEW r \in Runs, RunStep(r) PROVE StageInv'
    <2>1. ASSUME Appending(r) \/ Ring(r) PROVE Quiet
      BY <2>1, ZenonT(60) DEF Appending, AppendRead, AppendInsert, AppendFails, LogEvent, Ring,
             runVars, histVars
    <2> QED BY <1>2, <2>1, FetchingKeepsStages, WorkersKeepStages, SupervisingKeepsStages,
               StageKept DEF RunStep
  <1>3. ASSUME Aclose PROVE StageInv'
    BY <1>3, CancelKeepsStages DEF Aclose
  <1>4. ASSUME LegacyRuns \/ (\E ok \in BOOLEAN : Restarts(ok)) \/ UNCHANGED vars PROVE StageInv'
    <2>1. Quiet
      BY <1>4 DEF LegacyRuns, Restarts, runVars, histVars, vars, serviceVars
    <2> QED BY <2>1, StageKept
  <1>5. ASSUME Dies PROVE StageInv'
    BY <1>5, DeathKeepsStages DEF Dies
  <1>6. ASSUME NEW d \in Readers, StreamStep(d) \/ Client(d) PROVE StageInv'
    <2>1. Quiet
      BY <1>6 DEF StreamStep, Client, Sample, ReadPage, Wakes, Heartbeat, Connect, Reconnect,
             Disconnect, Opened, serviceVars, runVars, histVars
    <2> QED BY <2>1, StageKept
  <1> QED BY <1>1, <1>2, <1>3, <1>4, <1>5, <1>6 DEF Next, ServiceStep

(* The append threads and the log *)

Events == Terminal \cup
    {"run.started", "source", "skipped", "enrich.started", "enrich.finished",
     "enrich.failed", "enrich.cancelled", "score.started", "graph", "score.finished",
     "score.cancelled", "score.failed", "settled"}

ThreadStates == [ev : Events \cup {"none"}, seq : Int,
                 st : {"idle", "begin", "read", "landed", "lost"}]

LogShape ==
    /\ th \in [Runs -> [Slots -> ThreadStates]]
    /\ log \in [Runs -> Seq(Events)]
    /\ tail \in [Runs -> Nat]
    /\ bell \subseteq Runs /\ leak \subseteq Runs

\* A thread that works has an event; the slots are free where the next append
\* is made, and each appends the events of its own task.
ThreadPlace(r) ==
    /\ \A w \in Slots : th[r][w].st # "idle" => th[r][w].ev # "none"
    /\ sup[r] \in {"none", "resolving", "fetch", "enrich", "score", "done", "dead"} =>
          th[r]["sup"] = Idle
    /\ sup[r] = "settle" => th[r]["sup"].ev = "settled"
    /\ sup[r] # "settle" => th[r]["sup"].ev # "settled"
    /\ th[r]["task"].ev \in {"none", "enrich.finished", "enrich.failed"}
    /\ task[r] \in {"none", "run"} => th[r]["task"] = Idle

\* A run has no row before its fetch, and nobody writes for the runs of a dead
\* process.
RowPlace(r) ==
    /\ sup[r] \in {"none", "resolving"} => row[r] = "absent"
    /\ sup[r] = "dead" => r \notin leak
    /\ r \in leak => MayLeak

\* The settled event is appended once, by the last append of the supervisor.
SettledPlace(r) ==
    \A i \in 1 .. Len(log[r]) : log[r][i] = "settled" =>
        /\ sup[r] \in {"settle", "done", "dead"}
        /\ sup[r] = "settle" => th[r]["sup"].st = "landed"

LogInv ==
    /\ LogShape
    /\ \A r \in Runs : ThreadPlace(r) /\ RowPlace(r) /\ SettledPlace(r)
    /\ OnlyOrphansFollowSettled

Orphans == {"enrich.finished", "enrich.failed"} \cup (IF MayLeak THEN Terminal ELSE {})

Unsettled(r) == \A i \in 1 .. Len(log[r]) : log[r][i] # "settled"

LEMMA LogInit == Init => LogInv
  BY DEF Init, ServiceInit, LogInv, LogShape, ThreadPlace, RowPlace, SettledPlace,
         OnlyOrphansFollowSettled, ThreadStates, Idle, Slots

\* An event may be logged behind the settled event only if it is an orphan's.
LEMMA LogGrows ==
  ASSUME LogShape, OnlyOrphansFollowSettled, NEW r \in Runs, NEW e \in Events,
         LogEvent(r, e), e \in Orphans \/ Unsettled(r)
  PROVE  /\ log' \in [Runs -> Seq(Events)]
         /\ tail' \in [Runs -> Nat]
         /\ OnlyOrphansFollowSettled'
         /\ \A q \in Runs : q # r => log'[q] = log[q]
         /\ log'[r] = Append(log[r], e)
         /\ \A i \in 1 .. Len(log'[r]) :
               log'[r][i] = "settled" => e = "settled" \/ \E j \in 1 .. Len(log[r]) : log[r][j] = "settled"
  <1>1. /\ log' = [log EXCEPT ![r] = Append(@, e)]
        /\ log[r] \in Seq(Events)
        /\ Append(log[r], e) \in Seq(Events)
        /\ tail' \in [Runs -> Nat]
    BY DEF LogEvent, LogShape
  <1>2. /\ log' \in [Runs -> Seq(Events)]
        /\ log'[r] = Append(log[r], e)
        /\ \A q \in Runs : q # r => log'[q] = log[q]
    BY <1>1 DEF LogShape
  <1>3. /\ Len(log'[r]) = Len(log[r]) + 1
        /\ log'[r][Len(log[r]) + 1] = e
        /\ \A i \in 1 .. Len(log[r]) : log'[r][i] = log[r][i]
    BY <1>1, <1>2
  <1>4. \A i \in 1 .. Len(log'[r]) : i \in 1 .. Len(log[r]) \/ i = Len(log[r]) + 1
    BY <1>1, <1>3
  <1>5. ASSUME NEW q \in Runs, NEW i \in 1 .. Len(log'[q]), NEW j \in 1 .. Len(log'[q]),
               log'[q][i] = "settled", i < j
        PROVE  log'[q][j] \in Orphans
    <2>1. CASE q # r
      BY <1>2, <1>5, <2>1 DEF OnlyOrphansFollowSettled, Orphans
    <2>2. CASE q = r /\ j \in 1 .. Len(log[r])
      <3>1. i \in 1 .. Len(log[r])
        BY <1>1, <1>5, <2>2
      <3> QED BY <1>3, <1>5, <2>2, <3>1 DEF OnlyOrphansFollowSettled, Orphans
    <2>3. CASE q = r /\ j = Len(log[r]) + 1
      <3>1. i \in 1 .. Len(log[r])
        BY <1>1, <1>5, <2>3
      <3> QED BY <1>3, <1>5, <2>3, <3>1 DEF Unsettled
    <2> QED BY <1>4, <1>5, <2>1, <2>2, <2>3
  <1>6. OnlyOrphansFollowSettled'
    BY <1>5 DEF OnlyOrphansFollowSettled, Orphans
  <1> QED BY <1>1, <1>2, <1>3, <1>4, <1>6

LEMMA LogKept ==
  ASSUME LogInv, UNCHANGED <<sup, task, row, log, tail, th, bell, leak>>
  PROVE  LogInv'
  BY DEF LogInv, LogShape, ThreadPlace, RowPlace, SettledPlace, OnlyOrphansFollowSettled

\* A step of the threads and of the supervisor that logs nothing.
LEMMA ThreadsMove ==
  ASSUME LogInv, UNCHANGED <<log, tail>>, LogShape',
         \A r \in Runs : ThreadPlace(r)' /\ RowPlace(r)',
         \A r \in Runs : Unsettled(r) \/ UNCHANGED <<sup[r], th[r]["sup"]>>
                        \/ sup'[r] \in {"done", "dead"}
  PROVE  LogInv'
  <1>1. OnlyOrphansFollowSettled'
    BY DEF LogInv, OnlyOrphansFollowSettled
  <1>2. ASSUME NEW r \in Runs PROVE SettledPlace(r)'
    BY DEF LogInv, SettledPlace, Unsettled
  <1> QED BY <1>1, <1>2 DEF LogInv

\* A working thread moves on, with its event.
ThreadMoves(r, w, s) ==
    \E t \in ThreadStates : /\ t.ev = th[r][w].ev /\ t.st = s
                            /\ th' = [th EXCEPT ![r][w] = t]

LEMMA AppendMoves ==
  ASSUME LogInv, NEW r \in Runs, NEW w \in Slots
  PROVE  /\ AppendRead(r, w) => /\ ThreadMoves(r, w, "read") \/ ThreadMoves(r, w, "lost")
                                /\ UNCHANGED <<log, tail>>
         /\ AppendFails(r, w) => ThreadMoves(r, w, "lost") /\ UNCHANGED <<log, tail>>
         /\ AppendInsert(r, w) =>
               \/ ThreadMoves(r, w, "lost") /\ UNCHANGED <<log, tail>>
               \/ ThreadMoves(r, w, "landed") /\ LogEvent(r, th[r][w].ev)
  <1> DEFINE x == th[r][w]
  <1>1. x \in ThreadStates /\ Len(log[r]) \in Int
    BY DEF LogInv, LogShape
  <1>2. ASSUME NEW s \in {"read", "landed", "lost"}
        PROVE  /\ th' = [th EXCEPT ![r][w].st = s] => ThreadMoves(r, w, s)
               /\ th' = [th EXCEPT ![r][w] = [@ EXCEPT !.st = s]] => ThreadMoves(r, w, s)
               /\ th' = [th EXCEPT ![r][w] = [@ EXCEPT !.st = s, !.seq = Len(log[r])]] =>
                     ThreadMoves(r, w, s)
    <2> DEFINE t == [x EXCEPT !.st = s]
               u == [x EXCEPT !.st = s, !.seq = Len(log[r])]
    <2>1. /\ t \in ThreadStates /\ t.ev = x.ev /\ t.st = s
          /\ u \in ThreadStates /\ u.ev = x.ev /\ u.st = s
      <3> HIDE DEF x
      <3>1. s \in {"idle", "begin", "read", "landed", "lost"} /\ Len(log[r]) \in Int /\ x \in ThreadStates
        BY <1>1
      <3> QED BY <3>1 DEF ThreadStates
    <2>2. /\ th' = [th EXCEPT ![r][w].st = s] => th' = [th EXCEPT ![r][w] = t]
          /\ th' = [th EXCEPT ![r][w] = [@ EXCEPT !.st = s]] => th' = [th EXCEPT ![r][w] = t]
          /\ th' = [th EXCEPT ![r][w] = [@ EXCEPT !.st = s, !.seq = Len(log[r])]] =>
                th' = [th EXCEPT ![r][w] = u]
      OBVIOUS
    <2> HIDE DEF t, u
    <2> QED BY <2>1, <2>2 DEF ThreadMoves
  <1>3. AppendRead(r, w) => /\ ThreadMoves(r, w, "read") \/ ThreadMoves(r, w, "lost")
                            /\ UNCHANGED <<log, tail>>
    BY <1>2 DEF AppendRead, dbVars, histVars
  <1>4. AppendFails(r, w) => ThreadMoves(r, w, "lost") /\ UNCHANGED <<log, tail>>
    BY <1>2 DEF AppendFails, dbVars, histVars
  <1>5. AppendInsert(r, w) =>
               \/ ThreadMoves(r, w, "lost") /\ UNCHANGED <<log, tail>>
               \/ ThreadMoves(r, w, "landed") /\ LogEvent(r, th[r][w].ev)
    BY <1>2 DEF AppendInsert
  <1> QED BY <1>3, <1>4, <1>5

LEMMA AppendingKeepsLog ==
  ASSUME StageInv, LogInv, NEW r \in Runs, Appending(r)
  PROVE  LogInv'
  <1> PICK w \in Slots : AppendRead(r, w) \/ AppendInsert(r, w) \/ AppendFails(r, w)
    BY DEF Appending
  <1>1. /\ UNCHANGED <<sup, task, row, bell, leak>>
        /\ th[r][w].st \in {"begin", "read"}
    BY DEF AppendRead, AppendInsert, AppendFails, runVars, dbVars, fanVars
  <1>2. \E s \in {"read", "landed", "lost"} : ThreadMoves(r, w, s)
    BY AppendMoves
  <1>3. /\ th' \in [Runs -> [Slots -> ThreadStates]]
        /\ \A q \in Runs : ThreadPlace(q)' /\ RowPlace(q)'
    BY <1>1, <1>2 DEF ThreadMoves, LogInv, LogShape, ThreadPlace, RowPlace, Idle, Slots
  <1>4. th[r][w].ev = "settled" => w = "sup" /\ sup[r] = "settle" /\ Unsettled(r)
    BY <1>1 DEF LogInv, ThreadPlace, SettledPlace, Unsettled, Slots
  <1>5. CASE UNCHANGED <<log, tail>>
    <2>1. OnlyOrphansFollowSettled'
      BY <1>5 DEF LogInv, OnlyOrphansFollowSettled
    <2>2. ASSUME NEW q \in Runs PROVE SettledPlace(q)'
      BY <1>1, <1>2, <1>5 DEF ThreadMoves, LogInv, LogShape, SettledPlace, Slots
    <2> QED BY <1>1, <1>3, <1>5, <2>1, <2>2 DEF LogInv, LogShape
  <1>6. CASE ThreadMoves(r, w, "landed") /\ LogEvent(r, th[r][w].ev)
    <2> DEFINE e == th[r][w].ev
    <2>1. e \in Events
      BY <1>1 DEF LogInv, LogShape, ThreadPlace, ThreadStates
    <2>2. e \in Orphans \/ Unsettled(r)
      <3>1. CASE w = "task"
        BY <1>1, <3>1 DEF LogInv, ThreadPlace, Orphans, Slots
      <3>2. CASE w = "sup" /\ e # "settled"
        BY <1>1, <3>2 DEF LogInv, ThreadPlace, SettledPlace, Unsettled, Idle
      <3> QED BY <1>4, <3>1, <3>2 DEF Slots
    <2>3. LogEvent(r, e)
      BY <1>6
    <2> HIDE DEF e
    <2>4. /\ log' \in [Runs -> Seq(Events)] /\ tail' \in [Runs -> Nat]
          /\ OnlyOrphansFollowSettled'
          /\ \A q \in Runs : q # r => log'[q] = log[q]
          /\ \A i \in 1 .. Len(log'[r]) : log'[r][i] = "settled" =>
                e = "settled" \/ \E j \in 1 .. Len(log[r]) : log[r][j] = "settled"
      BY <2>1, <2>2, <2>3, LogGrows DEF LogInv
    <2>5. ASSUME NEW q \in Runs PROVE SettledPlace(q)'
      <3>1. CASE q # r
        BY <1>1, <1>6, <2>4, <3>1 DEF ThreadMoves, LogInv, LogShape, SettledPlace
      <3>2. CASE q = r /\ e = "settled"
        BY <1>1, <1>4, <1>6, <3>2 DEF ThreadMoves, LogInv, LogShape, SettledPlace, e
      <3>3. CASE q = r /\ e # "settled"
        BY <1>1, <1>6, <2>4, <3>3 DEF ThreadMoves, LogInv, LogShape, SettledPlace, Slots
      <3> QED BY <3>1, <3>2, <3>3
    <2> QED BY <1>1, <1>3, <2>4, <2>5 DEF LogInv, LogShape
  <1> QED BY <1>5, <1>6, AppendMoves

\* A step that logs another event than the settled one.
LEMMA LogMoves ==
  ASSUME LogInv, NEW r \in Runs, NEW e \in Events, LogEvent(r, e),
         e \in Orphans \/ Unsettled(r), e # "settled",
         UNCHANGED <<sup, task, th>>, bell' \subseteq Runs, leak' \subseteq leak,
         sup[r] \notin {"none", "resolving"}, \A q \in Runs : row'[q] = row[q] \/ q = r
  PROVE  LogInv'
  <1>1. LogShape /\ OnlyOrphansFollowSettled
    BY DEF LogInv
  <1>2. /\ log' \in [Runs -> Seq(Events)] /\ tail' \in [Runs -> Nat]
        /\ OnlyOrphansFollowSettled'
        /\ \A q \in Runs : q # r => log'[q] = log[q]
        /\ \A i \in 1 .. Len(log'[r]) : log'[r][i] = "settled" =>
              \E j \in 1 .. Len(log[r]) : log[r][j] = "settled"
    BY <1>1, LogGrows
  <1>3. LogShape' /\ \A q \in Runs : ThreadPlace(q)' /\ RowPlace(q)'
    BY <1>1, <1>2, ZenonT(60) DEF LogInv, LogShape, ThreadPlace, RowPlace
  <1>4. ASSUME NEW q \in Runs PROVE SettledPlace(q)'
    <2>1. CASE q # r
      BY <1>2, <2>1, SMTT(60) DEF LogInv, SettledPlace
    <2>2. CASE q = r
      BY <1>2, <2>2 DEF LogInv, SettledPlace
    <2> QED BY <2>1, <2>2
  <1> QED BY <1>2, <1>3, <1>4 DEF LogInv

\* The fetch logs only before the supervisor goes on behind it.
LEMMA FetchingKeepsLog ==
  ASSUME ServiceInv, StageInv, LogInv, NEW r \in Runs, Fetching(r)
  PROVE  LogInv'
  <1>1. UNCHANGED <<sup, task, th>> /\ LogShape /\ OnlyOrphansFollowSettled
    BY DEF Fetching, Preflight, PreflightFails, StartRunCommits, SourceEvent, SweepEnds,
           FinishRunCommits, WriterFails, WriterLeaks, StragglerEnds, runVars, histVars, LogInv
  <1>2. CASE UNCHANGED <<log, tail, bell>> /\ leak' \in {leak, {}} /\ (row' = row \/ Preflight(r))
    <2>1. \A q \in Runs : row[q] = "absent" => row'[q] = "absent"
      BY <1>2 DEF Preflight, Recovered
    <2>2. LogShape' /\ \A q \in Runs : ThreadPlace(q)' /\ RowPlace(q)'
      BY <1>1, <1>2, <2>1 DEF LogInv, LogShape, ThreadPlace, RowPlace
    <2> QED BY <1>1, <1>2, <2>2, ThreadsMove DEF LogInv
  <1>3. ASSUME WriterLeaks(r) PROVE LogInv'
    <2>1. sup[r] # "dead" /\ MayLeak /\ leak' = {r} /\ UNCHANGED <<log, tail, row, bell>>
      BY <1>3 DEF WriterLeaks, StageInv, FetchPlace, fanVars, histVars
    <2>2. LogShape' /\ \A q \in Runs : ThreadPlace(q)' /\ RowPlace(q)'
      BY <1>1, <2>1 DEF LogInv, LogShape, ThreadPlace, RowPlace
    <2> QED BY <1>1, <2>1, <2>2, ThreadsMove DEF LogInv
  <1>5. fetch[r] \in {"begin", "sweep", "finish"} =>
          Unsettled(r) /\ sup[r] \notin {"none", "resolving", "dead"}
    BY DEF ServiceInv, UnadmittedIdle, StageInv, FetchPlace, LogInv, SettledPlace, Unsettled
  <1>6. ASSUME StartRunCommits(r) PROVE LogInv'
    <2>1. "run.started" \in Events /\ bell' \subseteq Runs /\ leak' \subseteq leak
      BY <1>1, <1>6 DEF StartRunCommits, LogShape, Events
    <2>2. LogEvent(r, "run.started") /\ \A q \in Runs : row'[q] = row[q] \/ q = r
      BY <1>6 DEF StartRunCommits, ServiceInv, Shape
    <2> QED BY LogMoves, <1>1, <1>5, <1>6, <2>1, <2>2 DEF StartRunCommits
  <1>7. ASSUME SourceEvent(r) PROVE LogInv'
    <2>1. "source" \in Events /\ bell' \subseteq Runs /\ leak' \subseteq leak
      BY <1>1, <1>7 DEF SourceEvent, LogShape, Events
    <2> QED BY LogMoves, <1>1, <1>5, <1>7, <2>1 DEF SourceEvent
  <1>8. ASSUME FinishRunCommits(r) PROVE LogInv'
    <2>1. fstat[r] \in Events \ {"settled"} /\ bell' \subseteq Runs /\ leak' \subseteq leak
      BY <1>1, <1>8 DEF FinishRunCommits, LogShape, Events, ServiceInv, DecidedStatus, Terminal
    <2>2. LogEvent(r, fstat[r]) /\ \A q \in Runs : row'[q] = row[q] \/ q = r
      BY <1>8 DEF FinishRunCommits, Finish, ServiceInv, Shape
    <2> QED BY LogMoves, <1>1, <1>5, <1>8, <2>1, <2>2 DEF FinishRunCommits
  <1>9. ASSUME StragglerEnds(r, TRUE) PROVE LogInv'
    <2>1. /\ fstat[r] \in Events \ {"settled"} /\ fstat[r] \in Orphans
          /\ bell' \subseteq Runs /\ leak' \subseteq leak
          /\ sup[r] \notin {"none", "resolving"}
      BY <1>1, <1>9 DEF StragglerEnds, LogShape, Events, ServiceInv, LeakedIsOver, Terminal,
             fanVars, Orphans, LogInv, RowPlace, UnadmittedIdle
    <2>2. LogEvent(r, fstat[r]) /\ \A q \in Runs : row'[q] = row[q] \/ q = r
      BY <1>9 DEF StragglerEnds, Finish, ServiceInv, Shape
    <2> QED BY LogMoves, <1>1, <2>1, <2>2
  <1> QED BY <1>2, <1>3, <1>6, <1>7, <1>8, <1>9
          DEF Fetching, Preflight, PreflightFails, SweepEnds, WriterFails, StragglerEnds,
              dbVars, fanVars, histVars

LEMMA WorkersKeepLog ==
  ASSUME ServiceInv, StageInv, LogInv, NEW r \in Runs, Enriching(r) \/ Scoring(r)
  PROVE  LogInv'
  <1>1. LogShape /\ OnlyOrphansFollowSettled
    BY DEF LogInv
  <1>2. ASSUME NEW e \in {"enrich.finished", "enrich.failed"}, EnrichReturns(r, e)
        PROVE  LogInv'
    <2>1. New(e) \in ThreadStates /\ New(e).ev = e /\ New(e).st = "begin"
      BY DEF New, ThreadStates, Events
    <2>2. LogShape' /\ \A q \in Runs : ThreadPlace(q)' /\ RowPlace(q)'
      BY <1>2, <2>1 DEF EnrichReturns, StageInv, StageShape, LogInv, LogShape, ThreadPlace,
             RowPlace, Slots, dbVars, fanVars, histVars
    <2> QED BY <1>1, <1>2, <2>2, ThreadsMove
            DEF EnrichReturns, LogShape, Slots, dbVars, histVars
  <1>3. ASSUME EnrichTaskEnds(r) PROVE LogInv'
    <2>1. Idle \in ThreadStates /\ Idle.ev = "none" /\ Idle.st = "idle"
      BY DEF Idle, ThreadStates
    <2>2. LogShape' /\ \A q \in Runs : ThreadPlace(q)' /\ RowPlace(q)'
      BY <1>3, <2>1 DEF EnrichTaskEnds, Resume, StageInv, StageShape, LogInv, LogShape,
             ThreadPlace, RowPlace, Slots, dbVars, histVars
    <2> QED BY <1>1, <1>3, <2>2, ThreadsMove
            DEF EnrichTaskEnds, Resume, LogShape, Slots, dbVars, histVars
  <1>4. ASSUME ScoreChecks(r) \/ ScoreRaises(r) PROVE LogInv'
    BY <1>4, LogKept DEF ScoreChecks, ScoreRaises, dbVars, fanVars, histVars
  <1>5. ASSUME ScoreOpCommits(r) PROVE LogInv'
    <2>1. Unsettled(r)
      BY <1>5 DEF ScoreOpCommits, StageInv, ScorerPlace, LogInv, SettledPlace, Unsettled
    <2>2. /\ UNCHANGED <<sup, task, th, row, leak>> /\ LogEvent(r, "graph")
          /\ bell' \subseteq Runs /\ "graph" \in Events
      BY <1>1, <1>5 DEF ScoreOpCommits, LogShape, Events
    <2> QED BY <1>5, <2>1, <2>2, LogMoves DEF ScoreOpCommits, StageInv, ScorerPlace
  <1> QED BY <1>2, <1>3, <1>4, <1>5 DEF Enriching, Scoring

\* A step of the supervisor: it moves, and its slot is free or has a new event.
SupTurns(r, p, e, tk) ==
    /\ sup' = [sup EXCEPT ![r] = p]
    /\ th' = [th EXCEPT ![r]["sup"] = IF e = "none" THEN Idle ELSE New(e)]
    /\ task' = [task EXCEPT ![r] = tk]
    /\ UNCHANGED <<log, tail, row, bell, leak>>

LEMMA SupervisingKeepsLog ==
  ASSUME ServiceInv, StageInv, LogInv, NEW r \in Runs, Supervising(r)
  PROVE  LogInv'
  <1> DEFINE Waits == {"enrich_open", "skip", "enrich_cancelled", "score_skip", "score_open",
                       "score_close"}
  <1>1. UNCHANGED <<log, tail, row, bell, leak>>
    BY DEF Supervising, AfterFetch, EnrichBegins, EnrichCancelled, AfterEnrich,
           ScoreBegins, ScoreEnds, Settle, SupervisorEnds, dbVars, fanVars, histVars
  <1>2. task[r] \in TaskPcs /\ task = [task EXCEPT ![r] = task[r]]
    BY DEF StageInv, StageShape
  <1>3. ASSUME NEW p \in SupPcs \ {"none", "resolving", "fetch", "dead"},
               NEW e \in Events \cup {"none"}, NEW tk \in TaskPcs, SupTurns(r, p, e, tk),
               e = "none" => p \in {"enrich", "score", "done"},
               e # "none" => p \in Waits \cup {"settle"},
               e = "settled" <=> p = "settle",
               tk \in {"none", "run"} => task[r] \in {"none", "run"},
               sup[r] = "settle" => p = "done",
               sup[r] \notin {"none", "resolving", "done", "dead"}
        PROVE  LogInv'
    <2> DEFINE t == IF e = "none" THEN Idle ELSE New(e)
    <2>1. /\ t \in ThreadStates /\ t.ev = e /\ (t.st = "idle" <=> e = "none")
          /\ (e = "none" => t = Idle)
      BY DEF New, Idle, ThreadStates
    <2>2. th' = [th EXCEPT ![r]["sup"] = t]
      BY <1>3 DEF SupTurns
    <2> HIDE DEF t
    <2>3. LogShape'
      BY <1>3, <2>1, <2>2 DEF SupTurns, LogInv, LogShape, Slots
    <2>4. ASSUME NEW q \in Runs PROVE ThreadPlace(q)'
      BY <1>3, <2>1, <2>2 DEF SupTurns, LogInv, LogShape, ThreadPlace, Slots,
             ServiceInv, Shape, StageInv, StageShape
    <2>5. ASSUME NEW q \in Runs PROVE RowPlace(q)'
      BY <1>3 DEF SupTurns, LogInv, RowPlace, ServiceInv, Shape
    <2>6. ASSUME NEW q \in Runs
          PROVE  \/ Unsettled(q) \/ UNCHANGED <<sup[q], th[q]["sup"]>>
                 \/ sup'[q] \in {"done", "dead"}
      <3>1. CASE q # r
        BY <1>3, <2>2, <3>1 DEF SupTurns, LogInv, LogShape, ServiceInv, Shape
      <3>2. CASE q = r
        BY <1>3, <3>2 DEF SupTurns, LogInv, SettledPlace, Unsettled, ServiceInv, Shape
      <3> QED BY <3>1, <3>2
    <2> QED BY <1>1, <2>3, <2>4, <2>5, <2>6, ThreadsMove
  <1>4. Waits \cup {"enrich", "score", "settle", "done"} \subseteq SupPcs
    BY DEF SupPcs
  <1>5. ASSUME AfterFetch(r) PROVE LogInv'
    <2>1. \/ SupTurns(r, "enrich_open", "enrich.started", task[r])
          \/ SupTurns(r, "skip", "skipped", task[r])
      BY <1>1, <1>2, <1>5 DEF AfterFetch, SupAwaits, SupTurns
    <2> QED BY <1>2, <1>3, <1>4, <1>5, <2>1 DEF AfterFetch, Events
  <1>6. ASSUME EnrichBegins(r) PROVE LogInv'
    <2>1. SupTurns(r, "enrich", "none", "run") /\ task[r] = "none"
      BY <1>1, <1>6 DEF EnrichBegins, SupAwaits, Resume, SupTurns, StageInv, TaskPlace
    <2> QED BY <1>3, <1>4, <1>6, <2>1 DEF EnrichBegins, TaskPcs
  <1>7. ASSUME EnrichCancelled(r) PROVE LogInv'
    <2>1. SupTurns(r, "enrich_cancelled", "enrich.cancelled", "cancelled")
      BY <1>1, <1>7 DEF EnrichCancelled, SupAwaits, SupTurns
    <2> QED BY <1>3, <1>4, <1>7, <2>1 DEF EnrichCancelled, TaskPcs, Events
  <1>8. ASSUME AfterEnrich(r) PROVE LogInv'
    <2>1. \/ SupTurns(r, "score_skip", "score.cancelled", task[r])
          \/ SupTurns(r, "score_open", "score.started", task[r])
      BY <1>1, <1>2, <1>8 DEF AfterEnrich, SupAwaits, Resume, SupTurns
    <2> QED BY <1>2, <1>3, <1>4, <1>8, <2>1 DEF AfterEnrich, Events
  <1>9. ASSUME ScoreBegins(r) PROVE LogInv'
    <2>1. SupTurns(r, "score", "none", task[r])
      BY <1>1, <1>2, <1>9 DEF ScoreBegins, SupAwaits, Resume, SupTurns
    <2> QED BY <1>2, <1>3, <1>4, <1>9, <2>1 DEF ScoreBegins
  <1>10. ASSUME ScoreEnds(r) PROVE LogInv'
    <2>1. \E e \in {"score.finished", "score.cancelled", "score.failed"} :
             SupTurns(r, "score_close", e, task[r])
      BY <1>1, <1>2, <1>10 DEF ScoreEnds, SupAwaits, SupTurns
    <2> QED BY <1>2, <1>3, <1>4, <1>10, <2>1 DEF ScoreEnds, Events
  <1>11. ASSUME Settle(r) PROVE LogInv'
    <2>1. SupTurns(r, "settle", "settled", task[r])
      BY <1>1, <1>2, <1>11 DEF Settle, SupAwaits, Resume, SupTurns
    <2> QED BY <1>2, <1>3, <1>4, <1>11, <2>1 DEF Settle, Events
  <1>12. ASSUME SupervisorEnds(r) PROVE LogInv'
    <2>1. SupTurns(r, "done", "none", task[r])
      BY <1>1, <1>2, <1>12 DEF SupervisorEnds, SupAwaits, SupTurns
    <2> QED BY <1>2, <1>3, <1>4, <1>12, <2>1 DEF SupervisorEnds
  <1> QED BY <1>5, <1>6, <1>7, <1>8, <1>9, <1>10, <1>11, <1>12 DEF Supervising

LEMMA CancelKeepsLog ==
  ASSUME LogInv, NEW S \in SUBSET Runs, DeliverCancel(S),
         UNCHANGED <<sup, th, dbVars, fanVars, tail>>
  PROVE  LogInv'
  <1>1. LogShape' /\ \A q \in Runs : ThreadPlace(q)' /\ RowPlace(q)'
    BY DEF DeliverCancel, TaskAfterCancel, LogInv, LogShape, ThreadPlace, RowPlace,
           dbVars, fanVars
  <1> QED BY <1>1, ThreadsMove DEF dbVars

LEMMA RequestKeepsLog ==
  ASSUME ServiceInv, StageInv, LogInv, NEW r \in Runs, Request(r)
  PROVE  LogInv'
  <1>1. ASSUME NEW p \in SupPcs, sup' = [sup EXCEPT ![r] = p], sup[r] \in {"none", "resolving"},
               p \in {"none", "resolving", "fetch"},
               UNCHANGED <<task, th, log, tail, row, bell, leak>>
        PROVE  LogInv'
    <2>1. LogShape' /\ \A q \in Runs : ThreadPlace(q)' /\ RowPlace(q)'
      BY <1>1 DEF LogInv, LogShape, ThreadPlace, RowPlace, ServiceInv, Shape
    <2>2. \A q \in Runs : Unsettled(q) \/ UNCHANGED <<sup[q], th[q]["sup"]>>
      BY <1>1 DEF LogInv, SettledPlace, Unsettled, ServiceInv, Shape
    <2> QED BY <1>1, <2>1, <2>2, ThreadsMove
  <1>2. ASSUME NEW k \in Kinds, StartRun(r, k) \/ RetryStarts(r, k) PROVE LogInv'
    BY <1>1, <1>2 DEF StartRun, RetryStarts, Admit, SupPcs, dbVars, fanVars, histVars
  <1>3. ASSUME RetrySource(r) \/ RetryRefused(r) PROVE LogInv'
    BY <1>1, <1>3 DEF RetrySource, RetryRefused, SupPcs, dbVars, fanVars, histVars
  <1>4. ASSUME CancelRun(r) PROVE LogInv'
    BY <1>4, CancelKeepsLog DEF CancelRun
  <1> QED BY <1>2, <1>3, <1>4 DEF Request

LEMMA DeathKeepsLog ==
  ASSUME ServiceInv, StageInv, LogInv, ProcessDies
  PROVE  LogInv'
  <1>1. /\ th' = [r \in Runs |-> [w \in Slots |-> Idle]] /\ leak' = {} /\ bell' = {}
        /\ sup' = [r \in Runs |-> IF sup[r] = "resolving" THEN "none"
                                  ELSE IF IsActive(r) THEN "dead" ELSE sup[r]]
        /\ task' = [r \in Runs |-> IF IsActive(r) THEN "none" ELSE task[r]]
        /\ UNCHANGED <<log, tail, row>>
    BY DEF ProcessDies, histVars
  <1>2. Idle \in ThreadStates /\ Idle.ev = "none" /\ Idle.st = "idle"
    BY DEF Idle, ThreadStates
  <1>3. LogShape'
    BY <1>1, <1>2 DEF LogInv, LogShape
  <1>4. ASSUME NEW r \in Runs PROVE ThreadPlace(r)' /\ RowPlace(r)'
    BY <1>1, <1>2 DEF LogInv, ThreadPlace, RowPlace, Slots, IsActive
  <1>5. ASSUME NEW r \in Runs
        PROVE  \/ Unsettled(r) \/ UNCHANGED <<sup[r], th[r]["sup"]>>
               \/ sup'[r] \in {"done", "dead"}
    BY <1>1 DEF LogInv, SettledPlace, Unsettled, IsActive
  <1> QED BY <1>1, <1>3, <1>4, <1>5, ThreadsMove

\* LogInv is inductive on top of ServiceInv and StageInv.
LEMMA NextKeepsLog ==
  ASSUME ServiceInv, StageInv, LogInv, [Next]_vars
  PROVE  LogInv'
  <1>1. ASSUME NEW r \in Runs, RunStep(r) PROVE LogInv'
    <2>1. ASSUME Ring(r) PROVE LogInv'
      <3>1. UNCHANGED <<sup, task, row, log, tail, th, leak>> /\ bell' \subseteq bell
        BY <2>1 DEF Ring, runVars, dbVars, histVars
      <3>2. LogShape' /\ \A q \in Runs : ThreadPlace(q)' /\ RowPlace(q)'
        BY <3>1 DEF LogInv, LogShape, ThreadPlace, RowPlace
      <3> QED BY <3>1, <3>2, ThreadsMove
    <2> QED BY <1>1, <2>1, FetchingKeepsLog, AppendingKeepsLog, WorkersKeepLog,
               SupervisingKeepsLog DEF RunStep
  <1>2. ASSUME Aclose PROVE LogInv'
    BY <1>2, CancelKeepsLog DEF Aclose
  <1>3. ASSUME NEW ok \in BOOLEAN, Restarts(ok) PROVE LogInv'
    <2>1. /\ UNCHANGED <<sup, task, log, tail, th, bell, leak>>
          /\ \A q \in Runs : row[q] = "absent" => row'[q] = "absent"
      BY <1>3 DEF Restarts, Recovered, runVars, fanVars, histVars
    <2>2. LogShape' /\ \A q \in Runs : ThreadPlace(q)' /\ RowPlace(q)'
      BY <2>1 DEF LogInv, LogShape, ThreadPlace, RowPlace
    <2> QED BY <2>1, <2>2, ThreadsMove
  <1>4. ASSUME \/ LegacyRuns \/ UNCHANGED vars
               \/ \E d \in Readers : StreamStep(d) \/ Client(d)
        PROVE  LogInv'
    <2>1. UNCHANGED <<sup, task, row, log, tail, th, bell, leak>>
      BY <1>4 DEF LegacyRuns, vars, serviceVars, runVars, dbVars, fanVars, histVars,
             StreamStep, Client, Sample, ReadPage, Wakes, Heartbeat, Connect, Reconnect,
             Disconnect, Opened
    <2> QED BY <2>1, LogKept
  <1>5. ASSUME Dies PROVE LogInv'
    BY <1>5, DeathKeepsLog DEF Dies
  <1> QED BY <1>1, <1>2, <1>3, <1>4, <1>5, RequestKeepsLog DEF Next, ServiceStep

\* What a run settles as is true: success means that every stage ran, scoring
\* stops at the operation behind a cancel, and only transactions nobody waits
\* for follow the settled event (_supervise, _graph_pass, _append_event).
THEOREM OutcomesAreTrue == Spec => []OutcomeIsTrue
  <1>1. ServiceInv /\ StageInv /\ LogInv => OutcomeIsTrue
    BY DEF StageInv, CancelCount, ScoringStopsSoon, LogInv, OutcomeIsTrue
  <1>2. Init => ServiceInv /\ StageInv /\ LogInv
    BY InitHolds, StageInit, LogInit
  <1>3. ServiceInv /\ StageInv /\ LogInv /\ [Next]_vars => (ServiceInv /\ StageInv /\ LogInv)'
    BY NextPreserves, NextKeepsStages, NextKeepsLog
  <1> QED BY <1>1, <1>2, <1>3, PTL DEF Spec

(* The readers *)

ReaderShape ==
    /\ stream \in [Readers -> {"off", "sample", "read", "wait"}]
    /\ of \in [Readers -> Runs \cup {"none"}]
    /\ from \in [Readers -> -1 .. MaxAfter - 1]
    /\ cursor \in [Readers -> Int]
    /\ sampled \in [Readers -> BOOLEAN]
    /\ got \in [Readers -> Seq(Events)]
    /\ ended \in [Readers -> {"none", "open", "settled", "drained", "dropped"}]
    /\ subs = {<<d, of[d]>> : d \in {x \in Readers : stream[x] # "off"}}
    /\ token \subseteq {d \in Readers : stream[d] # "off"}

\* What a reader has got, and where its cursor stands.
GotPlace(d) ==
    /\ of[d] \notin Runs => got[d] = <<>> /\ ended[d] = "none" /\ cursor[d] = from[d]
    /\ stream[d] # "off" <=> ended[d] = "open"
    /\ cursor[d] >= from[d]
    /\ cursor[d] = from[d] \/ cursor[d] + 1 <= Len(log[of[d]])
    /\ of[d] \in Runs => Len(got[d]) = cursor[d] - from[d]

\* A run that is over when a reader looks at it stays over, and what is logged
\* behind that is in the tail.
OverPlace(d) ==
    LET r == of[d] IN r \in Runs /\ ended[d] # "none" =>
        /\ sup[r] \notin {"none", "resolving"}
        /\ stream[d] = "read" /\ ~sampled[d] => sup[r] \in {"done", "dead"}
        /\ ended[d] = "drained" => sup[r] \in {"done", "dead"}
        /\ stream[d] = "read" /\ sampled[d] /\ d \notin token => IsActive(r)

ReaderInv ==
    /\ ReaderShape
    /\ \A d \in Readers : GotPlace(d) /\ OverPlace(d)
    /\ StreamFaithful
    /\ CleanClose /\ NoLostWakeup /\ WaitsOnlyForActiveRuns

\* An append leaves what a reader has got.
LEMMA SubSeqKept ==
  ASSUME NEW S, NEW s \in Seq(S), NEW e \in S, NEW m \in Nat \ {0}, NEW n \in Int,
         n <= Len(s) \/ n < m
  PROVE  SubSeq(Append(s, e), m, n) = SubSeq(s, m, n)
  <1>1. CASE n < m
    BY <1>1, SubSeqEmpty
  <1>2. CASE n >= m
    <2>1. /\ SubSeq(s, m, n) \in Seq(S) /\ Len(SubSeq(s, m, n)) = n - m + 1
          /\ \A i \in 1 .. n - m + 1 : SubSeq(s, m, n)[i] = s[m + i - 1]
      <3>1. \A i \in m .. n : s[i] \in S
        BY <1>2, ElementOfSeq
      <3> QED BY <1>2, <3>1, SubSeqProperties
    <2>2. /\ Append(s, e) \in Seq(S)
          /\ \A i \in m .. n : Append(s, e)[i] = s[i]
      BY <1>2
    <2>3. /\ SubSeq(Append(s, e), m, n) \in Seq(S)
          /\ Len(SubSeq(Append(s, e), m, n)) = n - m + 1
          /\ \A i \in 1 .. n - m + 1 : SubSeq(Append(s, e), m, n)[i] = Append(s, e)[m + i - 1]
      <3>1. \A i \in m .. n : Append(s, e)[i] \in S
        BY <1>2, <2>2, ElementOfSeq
      <3> QED BY <1>2, <3>1, SubSeqProperties
    <2>4. \A i \in 1 .. n - m + 1 : m + i - 1 \in m .. n
      OBVIOUS
    <2>5. \A i \in 1 .. n - m + 1 : SubSeq(Append(s, e), m, n)[i] = SubSeq(s, m, n)[i]
      BY <2>1, <2>2, <2>3, <2>4
    <2> QED BY <1>2, <2>1, <2>3, <2>5, SeqEqual
  <1> QED BY <1>1, <1>2

\* The rows that are yielded are the first rows of the page, all of them unless
\* the settled event is among them.
LEMMA YieldedIsPrefix ==
  ASSUME NEW rows \in Seq(Events)
  PROVE  \E k \in 0 .. Len(rows) :
            /\ Yielded(rows) = SubSeq(rows, 1, k)
            /\ (\A i \in 1 .. Len(rows) : rows[i] # "settled") => k = Len(rows)
  <1> DEFINE S == {i \in 1 .. Len(rows) : rows[i] = "settled"}
  <1>1. CASE S = {}
    BY <1>1, SubSeqFull DEF Yielded
  <1>2. CASE S # {}
    <2> DEFINE k == CHOOSE i \in S : \A j \in S : i <= j
    <2>1. S \subseteq Nat
      OBVIOUS
    <2>2. k \in S
      <3> HIDE DEF S
      <3>1. PICK i \in S : \A j \in S : ~ (<<j, i>> \in OpToRel(<, Nat))
        BY <1>2, <2>1, NatLessThanWellFounded, WFMin, Zenon
      <3>2. \A j \in S : ~(j < i)
        BY <2>1, <3>1, Zenon DEF OpToRel
      <3>3. \A j \in S : i <= j
        BY <2>1, <3>2
      <3> QED BY <3>3, Zenon
    <2>3. k \in 1 .. Len(rows) /\ rows[k] = "settled"
      BY <2>2
    <2>4. Yielded(rows) = SubSeq(rows, 1, k)
      BY <1>2 DEF Yielded
    <2> HIDE DEF k
    <2> QED BY <2>3, <2>4
  <1> QED BY <1>1, <1>2

(* What a step of the service means to the readers of a run *)

\* A publish for the rows of r is on its way, or its last row is the FinishRun
\* of a leaked transaction.
Ringing(r) ==
    \/ r \in bell
    \/ \E w \in Slots : th[r][w].st = "landed"
    \/ MayLeak /\ Len(log[r]) > 0 /\ log[r][Len(log[r])] = fstat[r]

Told(r) == Subscribers(r) \subseteq token'

Seen(r) ==
    /\ log'[r] = log[r] \/ \E e \in Events : log'[r] = Append(log[r], e)
    /\ log'[r] = log[r] => tail'[r] = tail[r]
    /\ log'[r] # log[r] => /\ sup[r] \notin {"none", "resolving", "dead"}
                           /\ sup[r] = "done" => tail'[r] = tail[r] + 1
    /\ sup[r] \notin {"none", "resolving"} => sup'[r] \notin {"none", "resolving"}
    /\ sup[r] \in {"done", "dead"} => sup'[r] = sup[r]
    /\ IsActive(r) /\ ~IsActive(r)' => Told(r)
    /\ log'[r] # log[r] \/ Ringing(r) => Ringing(r)' \/ Told(r)

Tokens == subs' = subs /\ (token' = token \/ \E r \in Runs : token' = Published(r))

\* Nothing that Seen speaks of changes.
LEMMA SeenStill ==
  ASSUME NEW q \in Runs, sup'[q] = sup[q], fstat'[q] = fstat[q], th'[q] = th[q],
         log'[q] = log[q], tail'[q] = tail[q], q \in bell => q \in bell'
  PROVE  Seen(q)
  BY DEF Seen, Ringing, IsActive

\* A decided or a deciding fetch: its status is no event of the log before.
LEMMA SeenStatus ==
  ASSUME ServiceInv, StageInv, LogInv, NEW r \in Runs,
         fetch[r] \in {"preflight", "begin", "sweep"},
         \A q \in Runs : q # r => fstat'[q] = fstat[q],
         UNCHANGED <<sup, th, log, tail, bell>>
  PROVE  \A q \in Runs : Seen(q)
  <1>1. Len(log[r]) > 0 => log[r][Len(log[r])] # fstat[r]
    <2>1. fstat[r] = "none"
      BY DEF StageInv, FetchPlace
    <2>2. log[r] \in Seq(Events) /\ "none" \notin Events
      BY DEF LogInv, LogShape, Events, Terminal
    <2> QED BY <2>1, <2>2, ElementOfSeq
  <1>2. Seen(r)
    BY <1>1 DEF Seen, Ringing, IsActive
  <1> QED BY <1>2, SeenStill

\* A commit rings the bell behind it.
LEMMA SeenCommit ==
  ASSUME LogInv, NEW r \in Runs, NEW e \in Events, LogEvent(r, e),
         sup[r] \notin {"none", "resolving", "dead"},
         UNCHANGED <<sup, th>>, \A q \in Runs : q # r => fstat'[q] = fstat[q],
         bell \subseteq bell', Ringing(r)'
  PROVE  \A q \in Runs : Seen(q)
  <1>1. /\ log'[r] = Append(log[r], e)
        /\ \A q \in Runs : q # r => log'[q] = log[q] /\ tail'[q] = tail[q]
        /\ sup[r] = "done" => tail'[r] = tail[r] + 1
        /\ log'[r] # log[r]
    BY DEF LogEvent, LogInv, LogShape
  <1>2. Seen(r)
    BY <1>1 DEF Seen, IsActive
  <1> QED BY <1>1, <1>2, SeenStill

LEMMA FetchingSeen ==
  ASSUME ServiceInv, StageInv, LogInv, NEW r \in Runs, Fetching(r)
  PROVE  Tokens /\ \A q \in Runs : Seen(q)
  <1>1. UNCHANGED <<sup, th, subs, token>>
    BY DEF Fetching, Preflight, PreflightFails, StartRunCommits, SourceEvent, SweepEnds,
           FinishRunCommits, WriterFails, WriterLeaks, StragglerEnds, runVars, fanVars
  <1>2. fetch[r] \in {"begin", "sweep", "finish"} => sup[r] \notin {"none", "resolving", "dead"}
    BY DEF ServiceInv, UnadmittedIdle, StageInv, FetchPlace
  <1>3. ASSUME UNCHANGED <<fstat, log, tail, bell>> PROVE \A q \in Runs : Seen(q)
    BY <1>1, <1>3, SeenStill
  <1>4. ASSUME fetch[r] \in {"preflight", "begin", "sweep"}, UNCHANGED <<log, tail, bell>>,
               \A q \in Runs : q # r => fstat'[q] = fstat[q]
        PROVE  \A q \in Runs : Seen(q)
    BY <1>1, <1>4, SeenStatus
  <1>5. ASSUME PreflightFails(r) \/ \E s \in Terminal : SweepEnds(r, s) \/ WriterFails(r, s)
        PROVE  \A q \in Runs : Seen(q)
    <2>1. \A q \in Runs : q # r => fstat'[q] = fstat[q]
      BY <1>5 DEF PreflightFails, SweepEnds, WriterFails, FetchOver, ServiceInv, Shape
    <2>2. UNCHANGED <<log, tail, bell>>
      BY <1>5 DEF PreflightFails, SweepEnds, WriterFails, dbVars, fanVars, histVars
    <2>3. CASE fetch[r] \in {"preflight", "begin", "sweep"}
      BY <1>4, <2>1, <2>2, <2>3
    <2>4. CASE fetch[r] = "finish"
      <3>1. fstat' = fstat
        BY <1>5, <2>4 DEF PreflightFails, SweepEnds, WriterFails, FetchOver, ServiceInv, Shape
      <3> QED BY <1>3, <2>2, <3>1
    <2> QED BY <1>5, <2>3, <2>4 DEF PreflightFails, SweepEnds, WriterFails
  <1>6. ASSUME StartRunCommits(r) \/ SourceEvent(r) PROVE \A q \in Runs : Seen(q)
    <2>1. /\ \E e \in Events : LogEvent(r, e)
          /\ bell' = bell \cup {r} /\ fstat' = fstat
          /\ fetch[r] \in {"begin", "sweep"}
      BY <1>6 DEF StartRunCommits, SourceEvent, Events, runVars
    <2>2. Ringing(r)'
      BY <2>1 DEF Ringing
    <2> QED BY <1>1, <1>2, <2>1, <2>2, SeenCommit
  <1>7. ASSUME FinishRunCommits(r) PROVE \A q \in Runs : Seen(q)
    <2>1. /\ LogEvent(r, fstat[r]) /\ fstat[r] \in Events
          /\ bell' = bell \cup {r} /\ \A q \in Runs : q # r => fstat'[q] = fstat[q]
          /\ fetch[r] = "finish"
      BY <1>7 DEF FinishRunCommits, FetchOver, Finish, Events, ServiceInv, Shape, DecidedStatus
    <2>2. Ringing(r)'
      BY <2>1 DEF Ringing
    <2> QED BY <1>1, <1>2, <2>1, <2>2, SeenCommit
  <1>8. ASSUME WriterLeaks(r) PROVE UNCHANGED <<fstat, log, tail, bell>>
    BY <1>8 DEF WriterLeaks, FetchOver, ServiceInv, Shape, fanVars, histVars
  <1>9. ASSUME NEW ok \in BOOLEAN, StragglerEnds(r, ok) PROVE \A q \in Runs : Seen(q)
    <2>1. UNCHANGED <<fstat, bell>>
      BY <1>9 DEF StragglerEnds, runVars, fanVars
    <2>2. CASE ~ok
      BY <1>3, <1>9, <2>1, <2>2 DEF StragglerEnds
    <2>3. CASE ok
      <3>1. LogEvent(r, fstat[r]) /\ fstat[r] \in Events
        BY <1>9, <2>3 DEF StragglerEnds, Finish, ServiceInv, LeakedIsOver, Events
      <3>2. MayLeak /\ sup[r] \notin {"none", "resolving", "dead"}
        BY <1>9 DEF StragglerEnds, ServiceInv, LeakedIsOver, UnadmittedIdle, LogInv, RowPlace
      <3>3. log'[r] = Append(log[r], fstat[r]) /\ log[r] \in Seq(Events)
        BY <3>1 DEF LogEvent, LogInv, LogShape
      <3>4. Ringing(r)'
        BY <2>1, <3>1, <3>2, <3>3 DEF Ringing
      <3> QED BY <1>1, <2>1, <3>1, <3>2, <3>4, SeenCommit
    <2> QED BY <2>2, <2>3
  <1>10. ASSUME Preflight(r) PROVE UNCHANGED <<fstat, log, tail, bell>>
    BY <1>10 DEF Preflight, fanVars, histVars
  <1>11. Tokens
    BY <1>1 DEF Tokens
  <1> QED BY <1>3, <1>5, <1>6, <1>7, <1>8, <1>9, <1>10, <1>11 DEF Fetching

LEMMA AppendingSeen ==
  ASSUME StageInv, LogInv, NEW r \in Runs, Appending(r)
  PROVE  Tokens /\ \A q \in Runs : Seen(q)
  <1> PICK w \in Slots : AppendRead(r, w) \/ AppendInsert(r, w) \/ AppendFails(r, w)
    BY DEF Appending
  <1>1. /\ UNCHANGED <<sup, fstat, bell, subs, token>>
        /\ th[r][w].st \in {"begin", "read"}
    BY DEF AppendRead, AppendInsert, AppendFails, runVars, fanVars
  <1>2. ASSUME NEW s \in {"read", "lost"}, ThreadMoves(r, w, s), UNCHANGED <<log, tail>>
        PROVE  \A q \in Runs : Seen(q)
    <2>1. \A q \in Runs : q # r => th'[q] = th[q]
      BY <1>2 DEF ThreadMoves, LogInv, LogShape
    <2>2. \A v \in Slots : th[r][v].st = "landed" => th'[r][v].st = "landed"
      BY <1>1, <1>2 DEF ThreadMoves, LogInv, LogShape
    <2>3. Seen(r)
      BY <1>1, <1>2, <2>2 DEF Seen, Ringing, IsActive
    <2> QED BY <1>1, <1>2, <2>1, <2>3, SeenStill
  <1>3. ASSUME ThreadMoves(r, w, "landed"), LogEvent(r, th[r][w].ev)
        PROVE  \A q \in Runs : Seen(q)
    <2> DEFINE e == th[r][w].ev
    <2>1. e \in Events
      BY <1>1 DEF LogInv, LogShape, ThreadPlace, ThreadStates
    <2>2. /\ log'[r] = Append(log[r], e) /\ log'[r] # log[r]
          /\ sup[r] = "done" => tail'[r] = tail[r] + 1
          /\ \A q \in Runs : q # r => log'[q] = log[q] /\ tail'[q] = tail[q]
      BY <1>3, <2>1 DEF LogEvent, LogInv, LogShape
    <2>3. \A q \in Runs : q # r => th'[q] = th[q]
      BY <1>3 DEF ThreadMoves, LogInv, LogShape
    <2>4. th'[r][w].st = "landed"
      BY <1>3 DEF ThreadMoves, LogInv, LogShape
    <2>5. sup[r] \notin {"none", "resolving", "dead"}
      <3>1. th[r][w] # Idle
        BY <1>1 DEF Idle
      <3> QED BY <3>1 DEF Slots, LogInv, ThreadPlace, StageInv, TaskPlace
    <2>6. Seen(r)
      BY <1>1, <2>1, <2>2, <2>4, <2>5 DEF Seen, Ringing, IsActive
    <2> QED BY <1>1, <2>2, <2>3, <2>6, SeenStill
  <1>4. Tokens
    BY <1>1 DEF Tokens
  <1> QED BY <1>2, <1>3, <1>4, AppendMoves

\* A slot that is resumed has its publish made; one that is taken was free.
LEMMA SlotSeen ==
  ASSUME LogInv, NEW r \in Runs, NEW w \in Slots, NEW t \in ThreadStates,
         th' = [th EXCEPT ![r][w] = t],
         th[r][w].st = "landed" => Told(r),
         UNCHANGED <<log, tail, bell, fstat>>,
         \A q \in Runs : q # r => sup'[q] = sup[q],
         sup[r] \notin {"none", "resolving"} => sup'[r] \notin {"none", "resolving"},
         sup[r] \in {"done", "dead"} => sup'[r] = sup[r],
         sup'[r] \in {"done", "dead"} /\ sup'[r] # sup[r] => Told(r)
  PROVE  \A q \in Runs : Seen(q)
  <1>1. \A q \in Runs : q # r => th'[q] = th[q]
    BY DEF LogInv, LogShape
  <1>2. \A v \in Slots : v # w => th'[r][v] = th[r][v]
    BY DEF LogInv, LogShape
  <1>3. Ringing(r) => Ringing(r)' \/ Told(r)
    BY <1>2 DEF Ringing
  <1>4. Seen(r)
    BY <1>3 DEF Seen, IsActive
  <1> QED BY <1>1, <1>4, SeenStill

LEMMA WorkersSeen ==
  ASSUME ServiceInv, StageInv, LogInv, NEW r \in Runs, Enriching(r) \/ Scoring(r)
  PROVE  Tokens /\ \A q \in Runs : Seen(q)
  <1>1. ASSUME NEW e \in {"enrich.finished", "enrich.failed"}, EnrichReturns(r, e)
        PROVE  Tokens /\ \A q \in Runs : Seen(q)
    <2>1. New(e) \in ThreadStates /\ th[r]["task"].st = "idle" /\ "task" \in Slots
      BY <1>1 DEF EnrichReturns, New, ThreadStates, Events, LogInv, ThreadPlace, Idle, Slots
    <2>2. UNCHANGED <<sup, fstat, log, tail, bell, subs, token>>
      BY <1>1 DEF EnrichReturns, dbVars, fanVars, histVars
    <2> QED BY <1>1, <2>1, <2>2, SlotSeen DEF EnrichReturns, Tokens
  <1>2. ASSUME EnrichTaskEnds(r) PROVE Tokens /\ \A q \in Runs : Seen(q)
    <2>1. Idle \in ThreadStates /\ "task" \in Slots
      BY DEF Idle, ThreadStates, Slots
    <2>2. UNCHANGED <<sup, fstat, log, tail, bell, subs>>
      BY <1>2 DEF EnrichTaskEnds, dbVars, histVars
    <2>3. th[r]["task"].st = "landed" => Told(r)
      BY <1>2 DEF EnrichTaskEnds, Resume, Published, Told
    <2>4. Tokens
      BY <1>2, <2>2 DEF EnrichTaskEnds, Resume, Tokens
    <2> QED BY <1>2, <2>1, <2>2, <2>3, <2>4, SlotSeen DEF EnrichTaskEnds, Resume
  <1>3. ASSUME ScoreChecks(r) \/ ScoreRaises(r) PROVE Tokens /\ \A q \in Runs : Seen(q)
    <2>1. UNCHANGED <<sup, fstat, th, log, tail, bell, subs, token>>
      BY <1>3 DEF ScoreChecks, ScoreRaises, dbVars, fanVars, histVars
    <2> QED BY <2>1, SeenStill DEF Tokens
  <1>4. ASSUME ScoreOpCommits(r) PROVE Tokens /\ \A q \in Runs : Seen(q)
    <2>1. /\ UNCHANGED <<sup, th, fstat, subs, token>> /\ LogEvent(r, "graph")
          /\ bell' = bell \cup {r} /\ "graph" \in Events
      BY <1>4 DEF ScoreOpCommits, Events
    <2>2. sup[r] = "score" /\ Ringing(r)'
      BY <1>4, <2>1 DEF ScoreOpCommits, StageInv, ScorerPlace, Ringing
    <2> QED BY <2>1, <2>2, SeenCommit DEF Tokens
  <1> QED BY <1>1, <1>2, <1>3, <1>4 DEF Enriching, Scoring

LEMMA SupervisingSeen ==
  ASSUME ServiceInv, StageInv, LogInv, NEW r \in Runs, Supervising(r)
  PROVE  Tokens /\ \A q \in Runs : Seen(q)
  <1>1. UNCHANGED <<fstat, log, tail, bell, subs>>
    BY DEF Supervising, AfterFetch, EnrichBegins, EnrichCancelled, AfterEnrich,
           ScoreBegins, ScoreEnds, Settle, SupervisorEnds, dbVars, fanVars, histVars
  <1>2. "sup" \in Slots /\ Idle \in ThreadStates /\ \A e \in Events : New(e) \in ThreadStates
    BY DEF Slots, Idle, New, ThreadStates
  <1>3. ASSUME NEW p \in SupPcs \ {"none", "resolving"}, SupAwaits(r, p),
               NEW t \in ThreadStates, th' = [th EXCEPT ![r]["sup"] = t],
               token' = token \/ token' = Published(r),
               th[r]["sup"].st = "landed" \/ p \in {"done", "dead"} => token' = Published(r),
               IsActive(r)
        PROVE  Tokens /\ \A q \in Runs : Seen(q)
    <2>1. token' = Published(r) => Told(r)
      BY DEF Published, Told
    <2>2. sup'[r] = p /\ \A q \in Runs : q # r => sup'[q] = sup[q]
      BY <1>3 DEF SupAwaits, ServiceInv, Shape
    <2>3. \A q \in Runs : Seen(q)
      BY <1>1, <1>2, <1>3, <2>1, <2>2, SlotSeen DEF IsActive
    <2> QED BY <1>1, <1>3, <2>3 DEF Tokens
  <1>4. {"enrich_open", "skip", "enrich", "enrich_cancelled", "score_skip", "score_open",
         "score", "score_close", "settle", "done"} \subseteq SupPcs \ {"none", "resolving"}
    BY DEF SupPcs
  <1>5. IsActive(r)
    BY DEF Supervising, AfterFetch, EnrichBegins, EnrichCancelled, AfterEnrich,
           ScoreBegins, ScoreEnds, Settle, SupervisorEnds, IsActive
  <1>6. sup[r] \in {"fetch", "enrich", "score"} => th[r]["sup"].st # "landed"
    BY DEF LogInv, ThreadPlace, Idle
  <1>7. ASSUME AfterFetch(r) \/ EnrichCancelled(r) \/ ScoreEnds(r)
        PROVE  Tokens /\ \A q \in Runs : Seen(q)
    <2>1. \E e \in Events, p \in {"enrich_open", "skip", "enrich_cancelled", "score_close"} :
            SupAwaits(r, p) /\ th' = [th EXCEPT ![r]["sup"] = New(e)]
      BY <1>7 DEF AfterFetch, EnrichCancelled, ScoreEnds, Events
    <2>2. token' = token /\ sup[r] \in {"fetch", "enrich", "score"}
      BY <1>7 DEF AfterFetch, EnrichCancelled, ScoreEnds, fanVars
    <2> QED BY <1>2, <1>3, <1>4, <1>5, <1>6, <2>1, <2>2
  <1>8. ASSUME EnrichBegins(r) \/ ScoreBegins(r) \/ Settle(r)
        PROVE  Tokens /\ \A q \in Runs : Seen(q)
    <2>1. \E t \in ThreadStates, p \in {"enrich", "score", "settle"} :
            SupAwaits(r, p) /\ Resume(r, "sup", t)
      BY <1>2, <1>8 DEF EnrichBegins, ScoreBegins, Settle, Events
    <2> QED BY <1>3, <1>4, <1>5, <2>1 DEF Resume
  <1>9. ASSUME AfterEnrich(r) PROVE Tokens /\ \A q \in Runs : Seen(q)
    <2>1. \E e \in Events, p \in {"score_skip", "score_open"} :
            /\ SupAwaits(r, p)
            /\ \/ Resume(r, "sup", New(e))
               \/ /\ th' = [th EXCEPT ![r]["sup"] = New(e)]
                  /\ token' = token /\ sup[r] = "enrich"
      BY <1>9 DEF AfterEnrich, Events
    <2> QED BY <1>2, <1>3, <1>4, <1>5, <1>6, <2>1 DEF Resume
  <1>10. ASSUME SupervisorEnds(r) PROVE Tokens /\ \A q \in Runs : Seen(q)
    BY <1>2, <1>3, <1>4, <1>5, <1>10 DEF SupervisorEnds, SettledToken
  <1> QED BY <1>7, <1>8, <1>9, <1>10 DEF Supervising

\* The steps of the service that leave the process up.
LEMMA ServiceSeen ==
  ASSUME ServiceInv, StageInv, LogInv, ServiceStep
  PROVE  Tokens /\ \A q \in Runs : Seen(q)
  <1>1. ASSUME NEW r \in Runs, Request(r) PROVE Tokens /\ \A q \in Runs : Seen(q)
    <2>1. UNCHANGED <<fstat, th, log, tail, bell, subs, token>>
      BY <1>1 DEF Request, StartRun, RetryStarts, Admit, RetrySource, RetryRefused, CancelRun,
             dbVars, fanVars, histVars
    <2>2. \/ sup' = sup
          \/ sup[r] \in {"none", "resolving"} /\ \A q \in Runs : q # r => sup'[q] = sup[q]
      BY <1>1 DEF Request, StartRun, RetryStarts, Admit, RetrySource, RetryRefused, CancelRun,
             ServiceInv, Shape
    <2>3. sup'[r] = sup[r] \/ sup[r] \in {"none", "resolving"} => Seen(r)
      BY <2>1 DEF Seen, Ringing, IsActive
    <2> QED BY <2>1, <2>2, <2>3, SeenStill DEF Tokens
  <1>2. ASSUME NEW r \in Runs, Ring(r) PROVE Tokens /\ \A q \in Runs : Seen(q)
    <2>1. UNCHANGED <<sup, fstat, th, log, tail, subs>> /\ bell' = bell \ {r}
          /\ token' = Published(r) /\ Told(r)
      BY <1>2 DEF Ring, runVars, dbVars, histVars, Published, Told
    <2>2. Seen(r)
      BY <2>1 DEF Seen, IsActive
    <2> QED BY <2>1, <2>2, SeenStill DEF Tokens
  <1>3. ASSUME Aclose \/ LegacyRuns \/ \E ok \in BOOLEAN : Restarts(ok)
        PROVE  Tokens /\ \A q \in Runs : Seen(q)
    <2>1. UNCHANGED <<sup, fstat, th, log, tail, bell, subs, token>>
      BY <1>3 DEF Aclose, LegacyRuns, Restarts, runVars, dbVars, fanVars, histVars
    <2> QED BY <2>1, SeenStill DEF Tokens
  <1> QED BY <1>1, <1>2, <1>3, FetchingSeen, AppendingSeen, WorkersSeen, SupervisingSeen
          DEF ServiceStep, RunStep

(* The readers keep up *)

LEMMA ReaderInit == Init => ReaderInv
  <1> SUFFICES ASSUME Init PROVE ReaderInv
    OBVIOUS
  <1>1. ReaderShape
    BY StreamAssumption DEF Init, ServiceInit, ReaderShape
  <1>2. \A d \in Readers : GotPlace(d) /\ OverPlace(d)
    BY DEF Init, GotPlace, OverPlace
  <1>3. StreamFaithful
    BY SubSeqEmpty DEF Init, ServiceInit, StreamFaithful
  <1>4. CleanClose /\ NoLostWakeup /\ WaitsOnlyForActiveRuns
    BY DEF Init, CleanClose, NoLostWakeup, WaitsOnlyForActiveRuns
  <1> QED BY <1>1, <1>2, <1>3, <1>4 DEF ReaderInv

LEMMA OpenIsSubscribed ==
  ASSUME ReaderShape, NEW r \in Runs
  PROVE  Subscribers(r) = {d \in Readers : stream[d] # "off" /\ of[d] = r}
  BY DEF ReaderShape, Subscribers

LEMMA ReaderKept ==
  ASSUME ReaderInv, UNCHANGED <<sup, fstat, th, log, tail, bell, subs, token, streamVars>>
  PROVE  ReaderInv'
  BY DEF ReaderInv, ReaderShape, GotPlace, OverPlace, StreamFaithful, CleanClose,
         NoLostWakeup, WaitsOnlyForActiveRuns, IsActive, streamVars

\* The service moves on under the readers.
LEMMA ReadersFollow ==
  ASSUME LogInv, LogInv', ReaderInv, Tokens, \A r \in Runs : Seen(r), UNCHANGED streamVars
  PROVE  ReaderInv'
  <1> USE DEF streamVars
  <1>1. /\ token \subseteq token'
        /\ token' \subseteq {d \in Readers : stream[d] # "off"}
        /\ UNCHANGED <<subs, stream, of, from, cursor, sampled, got, ended>>
    BY OpenIsSubscribed DEF Tokens, Published, ReaderInv, ReaderShape
  <1>2. ReaderShape'
    BY <1>1 DEF ReaderInv, ReaderShape
  <1>3. ASSUME NEW r \in Runs
        PROVE  /\ log[r] \in Seq(Events) /\ log'[r] \in Seq(Events)
               /\ Len(log'[r]) = Len(log[r]) \/ Len(log'[r]) = Len(log[r]) + 1
               /\ log'[r] # log[r] => Len(log'[r]) = Len(log[r]) + 1
               /\ tail[r] \in Nat
    BY DEF Seen, LogInv, LogShape
  <1>4. ASSUME NEW d \in Readers PROVE GotPlace(d)'
    <2>1. of[d] \in Runs \/ of[d] \notin Runs
      OBVIOUS
    <2>2. cursor[d] \in Int
      BY DEF ReaderInv, ReaderShape
    <2>3. of[d] \in Runs => Len(log[of[d]]) \in Nat /\ Len(log'[of[d]]) >= Len(log[of[d]])
      BY <1>3
    <2> QED BY <1>1, <2>1, <2>2, <2>3 DEF ReaderInv, GotPlace
  <1>5. ASSUME NEW d \in Readers, of[d] \in Runs, stream[d] # "off", d \notin token'
        PROVE  ~Told(of[d])
    BY <1>5, OpenIsSubscribed DEF Told, ReaderInv
  <1>6. ASSUME NEW d \in Readers PROVE OverPlace(d)'
    BY <1>1, <1>5 DEF ReaderInv, OverPlace, Seen, IsActive
  <1>7. ASSUME NEW d \in Readers, of[d] \in Runs
        PROVE  SubSeq(log'[of[d]], from[d] + 2, cursor[d] + 1) =
               SubSeq(log[of[d]], from[d] + 2, cursor[d] + 1)
    <2>1. /\ from[d] + 2 \in Nat \ {0} /\ cursor[d] + 1 \in Int
          /\ cursor[d] + 1 <= Len(log[of[d]]) \/ cursor[d] + 1 < from[d] + 2
      <3>1. from[d] \in -1 .. MaxAfter - 1 /\ cursor[d] \in Int
        BY DEF ReaderInv, ReaderShape
      <3> QED BY <3>1, StreamAssumption DEF ReaderInv, GotPlace
    <2>2. CASE log'[of[d]] = log[of[d]]
      BY <2>2
    <2>3. ASSUME NEW e \in Events, log'[of[d]] = Append(log[of[d]], e)
          PROVE  SubSeq(log'[of[d]], from[d] + 2, cursor[d] + 1) =
                 SubSeq(log[of[d]], from[d] + 2, cursor[d] + 1)
      <3>1. log[of[d]] \in Seq(Events)
        BY <1>3, <1>7
      <3>2. SubSeq(Append(log[of[d]], e), from[d] + 2, cursor[d] + 1) =
            SubSeq(log[of[d]], from[d] + 2, cursor[d] + 1)
        <4> DEFINE m == from[d] + 2
        <4> DEFINE n == cursor[d] + 1
        <4>1. m \in Nat \ {0} /\ n \in Int /\ (n <= Len(log[of[d]]) \/ n < m)
          BY <2>1
        <4> HIDE DEF m, n
        <4>2. SubSeq(Append(log[of[d]], e), m, n) = SubSeq(log[of[d]], m, n)
          BY <3>1, <4>1, SubSeqKept
        <4> QED BY <4>2 DEF m, n
      <3> QED BY <2>3, <3>2
    <2> QED BY <1>7, <2>2, <2>3 DEF Seen
  <1>8. StreamFaithful'
    BY <1>1, <1>7 DEF ReaderInv, StreamFaithful
  <1>9. CleanClose'
    <2> SUFFICES ASSUME NEW d \in Readers, ended[d] = "drained"
                 PROVE  cursor[d] + 1 + tail'[of[d]] >= Len(log'[of[d]])
      BY <1>1 DEF CleanClose
    <2>1. of[d] \in Runs /\ sup[of[d]] \in {"done", "dead"} /\ cursor[d] \in Int
      BY DEF ReaderInv, ReaderShape, GotPlace, OverPlace
    <2>2. cursor[d] + 1 + tail[of[d]] >= Len(log[of[d]])
      BY DEF ReaderInv, CleanClose
    <2>3. CASE log'[of[d]] = log[of[d]]
      BY <2>1, <2>2, <2>3 DEF Seen
    <2>4. CASE log'[of[d]] # log[of[d]]
      <3>1. tail'[of[d]] = tail[of[d]] + 1
        BY <2>1, <2>4 DEF Seen
      <3>2. Len(log'[of[d]]) = Len(log[of[d]]) + 1 /\ tail[of[d]] \in Nat
            /\ Len(log[of[d]]) \in Nat
        BY <1>3, <2>1, <2>4
      <3> QED BY <2>1, <2>2, <3>1, <3>2, SMTT(60)
    <2> QED BY <2>3, <2>4
  <1>10. ASSUME NEW d \in Readers, stream[d] = "wait" PROVE of[d] \in Runs
    BY <1>10 DEF ReaderInv, GotPlace
  <1>11. NoLostWakeup'
    <2> SUFFICES ASSUME NEW d \in Readers, stream[d] = "wait", d \notin token',
                        cursor[d] + 1 < Len(log'[of[d]])
                 PROVE  Ringing(of[d])'
      BY <1>1 DEF NoLostWakeup, Ringing
    <2>1. of[d] \in Runs /\ ~Told(of[d]) /\ d \notin token
      BY <1>1, <1>5, <1>10
    <2>2. log'[of[d]] # log[of[d]] \/ Ringing(of[d])
      <3>1. cursor[d] \in Int /\ cursor[d] + 1 >= 0
        BY DEF ReaderInv, ReaderShape, GotPlace
      <3>2. Len(log[of[d]]) \in Nat
        BY <1>3, <2>1
      <3>3. CASE log'[of[d]] = log[of[d]]
        <4>1. cursor[d] + 1 < Len(log[of[d]]) /\ Len(log[of[d]]) > 0
          BY <3>1, <3>2, <3>3
        <4> QED BY <2>1, <4>1 DEF ReaderInv, NoLostWakeup, Ringing
      <3> QED BY <3>3
    <2> QED BY <2>1, <2>2 DEF Seen
  <1>12. WaitsOnlyForActiveRuns'
    BY <1>1, <1>5, <1>10 DEF ReaderInv, WaitsOnlyForActiveRuns, Seen
  <1> QED BY <1>2, <1>4, <1>6, <1>8, <1>9, <1>11, <1>12 DEF ReaderInv

LEMMA ReadersDie ==
  ASSUME LogInv, ReaderInv, Dies
  PROVE  ReaderInv'
  <1>1. /\ stream' = [d \in Readers |-> "off"] /\ subs' = {} /\ token' = {}
        /\ ended' = [d \in Readers |-> IF stream[d] = "off" THEN ended[d] ELSE "dropped"]
        /\ UNCHANGED <<of, from, cursor, sampled, got, log, tail>>
        /\ sup' = [r \in Runs |-> IF sup[r] = "resolving" THEN "none"
                                  ELSE IF IsActive(r) THEN "dead" ELSE sup[r]]
    BY DEF Dies, ProcessDies, histVars
  <1>2. ReaderShape'
    BY <1>1 DEF ReaderInv, ReaderShape
  <1>3. \A d \in Readers : GotPlace(d)'
    BY <1>1 DEF ReaderInv, GotPlace
  <1>4. \A d \in Readers : OverPlace(d)'
    BY <1>1 DEF ReaderInv, OverPlace, GotPlace, IsActive
  <1>5. StreamFaithful' /\ CleanClose' /\ NoLostWakeup' /\ WaitsOnlyForActiveRuns'
    BY <1>1 DEF ReaderInv, StreamFaithful, CleanClose, NoLostWakeup, WaitsOnlyForActiveRuns
  <1> QED BY <1>2, <1>3, <1>4, <1>5 DEF ReaderInv

\* What the steps of the readers leave alone.
LEMMA ReaderStepFrame ==
  ASSUME NEW d \in Readers, StreamStep(d) \/ Client(d)
  PROVE  UNCHANGED <<sup, fstat, th, log, tail, bell, row>>
  <1>1. CASE StreamStep(d)
    BY <1>1 DEF StreamStep, Sample, ReadPage, Wakes, Heartbeat, serviceVars, runVars,
           dbVars, fanVars, histVars
  <1>2. CASE Client(d)
    BY <1>2 DEF Client, Connect, Reconnect, Disconnect, Opened, runVars, dbVars, histVars
  <1> QED BY <1>1, <1>2

\* A reader's own step, from what it does to the reader's own values.
LEMMA ReaderMoves ==
  ASSUME ReaderInv, NEW d \in Readers,
         UNCHANGED <<sup, fstat, th, log, tail, bell>>, ReaderShape',
         \A x \in Readers : x # d =>
            /\ stream'[x] = stream[x] /\ of'[x] = of[x] /\ from'[x] = from[x]
            /\ cursor'[x] = cursor[x] /\ sampled'[x] = sampled[x] /\ got'[x] = got[x]
            /\ ended'[x] = ended[x] /\ (x \in token' <=> x \in token),
         GotPlace(d)', OverPlace(d)',
         of'[d] \in Runs => got'[d] = SubSeq(log[of'[d]], from'[d] + 2, cursor'[d] + 1),
         ended'[d] = "drained" => cursor'[d] + 1 + tail[of'[d]] >= Len(log[of'[d]]),
         stream'[d] = "wait" /\ d \notin token' => IsActive(of'[d]),
         stream'[d] = "wait" => cursor'[d] + 1 >= Len(log[of'[d]])
  PROVE  ReaderInv'
  <1>1. ASSUME NEW x \in Readers PROVE GotPlace(x)' /\ OverPlace(x)'
    <2>1. CASE x = d
      BY <2>1
    <2>2. CASE x # d
      BY <2>2 DEF ReaderInv, GotPlace, OverPlace, IsActive
    <2> QED BY <2>1, <2>2
  <1>2. StreamFaithful'
    BY DEF ReaderInv, StreamFaithful
  <1>3. CleanClose'
    BY DEF ReaderInv, CleanClose
  <1>4. ASSUME NEW x \in Readers, stream'[x] = "wait", x \notin token',
               cursor'[x] + 1 < Len(log[of'[x]])
        PROVE  \/ of'[x] \in bell
               \/ \E w \in Slots : th[of'[x]][w].st = "landed"
               \/ MayLeak /\ log[of'[x]][Len(log[of'[x]])] = fstat[of'[x]]
    <2>1. CASE x = d
      <3>1. of'[d] \in Runs
        BY <1>4, <2>1 DEF GotPlace
      <3> QED BY <1>4, <2>1, <3>1 DEF ReaderShape, ReaderInv
    <2>2. CASE x # d
      BY <1>4, <2>2 DEF ReaderInv, NoLostWakeup
    <2> QED BY <2>1, <2>2
  <1>5. NoLostWakeup'
    BY <1>4 DEF NoLostWakeup
  <1>6. WaitsOnlyForActiveRuns'
    BY DEF ReaderInv, WaitsOnlyForActiveRuns, IsActive
  <1> QED BY <1>1, <1>2, <1>3, <1>5, <1>6 DEF ReaderInv

\* A page continues what the reader has, and a page that is not full and holds
\* no settled event reaches the end of the log.
LEMMA PageContinues ==
  ASSUME NEW r \in Runs, log[r] \in Seq(Events), NEW f \in Int, NEW c \in Int,
         f >= -1, c >= f, c = f \/ c + 1 <= Len(log[r])
  PROVE  LET rows == Page(r, c)
             out == Yielded(rows)
         IN  /\ rows \in Seq(Events) /\ out \in Seq(Events)
             /\ SubSeq(log[r], f + 2, c + 1) \o out = SubSeq(log[r], f + 2, c + Len(out) + 1)
             /\ Len(out) = 0 \/ c + Len(out) + 1 <= Len(log[r])
             /\ (\A i \in 1 .. Len(rows) : rows[i] # "settled") /\ Len(rows) < PageSize =>
                   c + Len(out) + 1 >= Len(log[r])
  <1> DEFINE s == log[r]
             last == IF Len(s) < c + 1 + PageSize THEN Len(s) ELSE c + 1 + PageSize
             rows == SubSeq(s, c + 2, last)
             out == Yielded(rows)
  <1>1. Page(r, c) = rows
    BY DEF Page
  <1> SUFFICES /\ rows \in Seq(Events) /\ out \in Seq(Events)
               /\ SubSeq(s, f + 2, c + 1) \o out = SubSeq(s, f + 2, c + Len(out) + 1)
               /\ Len(out) = 0 \/ c + Len(out) + 1 <= Len(s)
               /\ (\A i \in 1 .. Len(rows) : rows[i] # "settled") /\ Len(rows) < PageSize =>
                     c + Len(out) + 1 >= Len(s)
    BY <1>1, SMTT(60)
  <1>2. s \in Seq(Events) /\ Len(s) \in Nat /\ PageSize \in Nat \ {0}
    BY StreamAssumption
  <1> HIDE DEF s
  <1>3. \A i \in c + 2 .. last : s[i] \in Events
    BY <1>2, ElementOfSeq
  <1>4. rows \in Seq(Events) /\ Len(rows) = IF c + 2 <= last THEN last - c - 1 ELSE 0
    BY <1>2, <1>3, SubSeqProperties
  <1> HIDE DEF rows
  <1>5. PICK k \in 0 .. Len(rows) :
          /\ out = SubSeq(rows, 1, k)
          /\ (\A i \in 1 .. Len(rows) : rows[i] # "settled") => k = Len(rows)
    BY <1>4, YieldedIsPrefix
  <1>6. out \in Seq(Events) /\ Len(out) = k
    <2>1. \A i \in 1 .. k : rows[i] \in Events
      BY <1>4, <1>5, ElementOfSeq
    <2> QED BY <1>4, <1>5, <2>1, SubSeqProperties
  <1> HIDE DEF out
  <1>7. CASE c + 1 >= Len(s)
    <2>1. Len(rows) = 0 /\ k = 0
      BY <1>2, <1>4, <1>5, <1>7
    <2>2. out = <<>>
      BY <1>6, <2>1
    <2>3. SubSeq(s, f + 2, c + 1) \o out = SubSeq(s, f + 2, c + Len(out) + 1)
      <3>1. SubSeq(s, f + 2, c + 1) \in Seq(Events)
        <4>1. CASE c = f
          BY <4>1, SubSeqEmpty
        <4>2. CASE c + 1 <= Len(s)
          <5>1. \A i \in f + 2 .. c + 1 : s[i] \in Events
            BY <1>2, <4>2, ElementOfSeq
          <5> QED BY <5>1, SubSeqProperties
        <4> QED BY <4>1, <4>2 DEF s
      <3> QED BY <1>6, <2>1, <2>2, <3>1, ConcatEmptySeq
    <2> QED BY <1>2, <1>4, <1>6, <1>7, <2>1, <2>3
  <1>8. CASE c + 1 < Len(s)
    <2>1. last \in c + 2 .. Len(s) /\ Len(rows) = last - c - 1
      BY <1>2, <1>4, <1>8
    <2>2. out = SubSeq(s, c + 2, c + 1 + k)
      <3>1. CASE k = 0
        <4>1. out = <<>>
          BY <1>6, <3>1
        <4>2. SubSeq(s, c + 2, c + 1 + k) = <<>>
          BY <3>1, SubSeqEmpty
        <4> QED BY <4>1, <4>2
      <3>2. CASE k > 0
        <4>1. /\ c + 2 \in 1 .. Len(s) /\ last \in 1 .. Len(s)
              /\ 1 \in 1 .. last - (c + 2) + 1 /\ k \in 1 .. last - (c + 2) + 1
          BY <1>2, <1>5, <2>1, <3>2
        <4> HIDE DEF last
        <4>2. SubSeq(SubSeq(s, c + 2, last), 1, k) = SubSeq(s, (c + 2) + 1 - 1, (c + 2) + k - 1)
          BY <1>2, <1>4, <4>1, SubSeqOfSubSeq DEF rows
        <4> QED BY <1>5, <4>1, <4>2 DEF rows
      <3> QED BY <1>5, <3>1, <3>2
    <2>3. SubSeq(s, f + 2, c + 1) \o out = SubSeq(s, f + 2, c + 1 + k)
      <3>1. /\ f + 2 \in 1 .. Len(s) + 1 /\ c + 1 \in (f + 2) - 1 .. Len(s)
            /\ c + 1 + k \in c + 1 .. Len(s)
        BY <1>2, <1>5, <1>8, <2>1
      <3>2. SubSeq(s, f + 2, c + 1) \o SubSeq(s, (c + 1) + 1, c + 1 + k) =
            SubSeq(s, f + 2, c + 1 + k)
        BY <1>2, <3>1, ConcatAdjacentSubSeq
      <3> QED BY <2>2, <3>2
    <2>4. c + k + 1 <= Len(s) /\ c + 1 + k = c + k + 1
      BY <1>2, <1>5, <2>1
    <2>5. (\A i \in 1 .. Len(rows) : rows[i] # "settled") /\ Len(rows) < PageSize =>
             c + k + 1 >= Len(s)
      BY <1>2, <1>5, <2>1
    <2>6. Len(out) = k /\ rows \in Seq(Events) /\ out \in Seq(Events)
      BY <1>4, <1>6
    <2>7. SubSeq(s, f + 2, c + 1) \o out = SubSeq(s, f + 2, c + Len(out) + 1)
      <3>1. c + 1 + k = c + Len(out) + 1
        BY <2>6
      <3> QED BY <2>3, <3>1
    <2>8. Len(out) = 0 \/ c + Len(out) + 1 <= Len(s)
      BY <2>4, <2>6
    <2>9. (\A i \in 1 .. Len(rows) : rows[i] # "settled") /\ Len(rows) < PageSize =>
             c + Len(out) + 1 >= Len(s)
      BY <2>5, <2>6
    <2> QED BY <2>6, <2>7, <2>8, <2>9
  <1> QED BY <1>2, <1>7, <1>8

\* A closed stream takes its subscription and its token with it.
LEMMA ClosedShape ==
  ASSUME ReaderShape, NEW d \in Readers, NEW how, Closed(d, how), of' = of
  PROVE  /\ subs' = {<<x, of[x]>> : x \in {y \in Readers : stream'[y] # "off"}}
         /\ token' \subseteq {y \in Readers : stream'[y] # "off"}
         /\ stream' \in [Readers -> {"off", "sample", "read", "wait"}]
         /\ stream'[d] = "off" /\ d \notin token'
         /\ \A x \in Readers : x # d => stream'[x] = stream[x] /\ (x \in token' <=> x \in token)
  <1>1. /\ stream' = [stream EXCEPT ![d] = "off"] /\ token' = token \ {d}
        /\ subs' = {x \in subs : x[1] # d}
    BY DEF Closed
  <1>2. /\ stream' \in [Readers -> {"off", "sample", "read", "wait"}]
        /\ stream'[d] = "off" /\ \A x \in Readers : x # d => stream'[x] = stream[x]
    BY <1>1 DEF ReaderShape
  <1>3. subs' = {<<x, of[x]>> : x \in {y \in Readers : stream'[y] # "off"}}
    BY <1>1, <1>2 DEF ReaderShape
  <1> QED BY <1>1, <1>2, <1>3 DEF ReaderShape

\* A stream that stays open keeps its subscription.
LEMMA OpenShape ==
  ASSUME ReaderShape, NEW d \in Readers, stream[d] # "off",
         NEW p \in {"sample", "read", "wait"}, stream' = [stream EXCEPT ![d] = p],
         of' = of, subs' = subs, token' \subseteq token
  PROVE  /\ subs' = {<<x, of[x]>> : x \in {y \in Readers : stream'[y] # "off"}}
         /\ token' \subseteq {y \in Readers : stream'[y] # "off"}
         /\ stream' \in [Readers -> {"off", "sample", "read", "wait"}]
         /\ stream'[d] = p /\ \A x \in Readers : x # d => stream'[x] = stream[x]
  <1>1. /\ stream' \in [Readers -> {"off", "sample", "read", "wait"}]
        /\ stream'[d] = p /\ \A x \in Readers : x # d => stream'[x] = stream[x]
    BY DEF ReaderShape
  <1>2. {y \in Readers : stream'[y] # "off"} = {y \in Readers : stream[y] # "off"}
    BY <1>1
  <1> QED BY <1>1, <1>2 DEF ReaderShape

LEMMA VerdictCases ==
  ASSUME NEW d \in Readers, NEW rows \in Seq(Events)
  PROVE  /\ Verdict(d, rows) \in {"settled", "again", "drained", "wait"}
         /\ Verdict(d, rows) \in {"drained", "wait"} =>
              /\ \A i \in 1 .. Len(rows) : rows[i] # "settled"
              /\ Len(rows) < PageSize
         /\ Verdict(d, rows) = "drained" => ~sampled[d]
         /\ Verdict(d, rows) = "wait" => sampled[d]
  <1>1. Len(rows) >= PageSize \/ Len(rows) < PageSize
    BY StreamAssumption
  <1>2. CASE \E i \in 1 .. Len(rows) : rows[i] = "settled"
    BY <1>2 DEF Verdict
  <1>3. CASE ~(\E i \in 1 .. Len(rows) : rows[i] = "settled")
    BY <1>1, <1>3 DEF Verdict
  <1> QED BY <1>2, <1>3

LEMMA ReadPageKeeps ==
  ASSUME LogInv, ReaderInv, NEW d \in Readers, ReadPage(d)
  PROVE  ReaderInv'
  <1> DEFINE r == of[d]
             rows == Page(r, cursor[d])
             out == Yielded(rows)
             v == Verdict(d, rows)
  <1>1. UNCHANGED <<sup, fstat, th, log, tail, bell, row>>
    BY ReaderStepFrame DEF StreamStep
  <1>2. /\ stream[d] = "read" /\ UNCHANGED <<of, from, sampled>>
        /\ got' = [got EXCEPT ![d] = @ \o out]
        /\ cursor' = [cursor EXCEPT ![d] = @ + Len(out)]
        /\ IF v \in {"settled", "drained"}
           THEN Closed(d, v)
           ELSE /\ stream' = [stream EXCEPT ![d] = IF v = "again" THEN "sample" ELSE v]
                /\ UNCHANGED <<ended, subs, token>>
    BY DEF ReadPage
  <1>3. /\ r \in Runs /\ log[r] \in Seq(Events) /\ ended[d] = "open" /\ ReaderShape
        /\ cursor[d] \in Int /\ from[d] \in Int /\ from[d] >= -1 /\ from[d] <= MaxAfter - 1
        /\ got[d] = SubSeq(log[r], from[d] + 2, cursor[d] + 1) /\ got[d] \in Seq(Events)
        /\ cursor[d] >= from[d]
        /\ cursor[d] = from[d] \/ cursor[d] + 1 <= Len(log[r])
        /\ Len(got[d]) = cursor[d] - from[d]
    <2>1. r \in Runs /\ ended[d] = "open"
      BY <1>2 DEF ReaderInv, GotPlace
    <2>2. from[d] \in -1 .. MaxAfter - 1
      BY DEF ReaderInv, ReaderShape
    <2> QED BY <2>1, <2>2, StreamAssumption, SMTT(60)
            DEF ReaderInv, ReaderShape, GotPlace, StreamFaithful, LogInv, LogShape
  <1>4. /\ rows \in Seq(Events) /\ out \in Seq(Events)
        /\ SubSeq(log[r], from[d] + 2, cursor[d] + 1) \o out =
              SubSeq(log[r], from[d] + 2, cursor[d] + Len(out) + 1)
        /\ Len(out) = 0 \/ cursor[d] + Len(out) + 1 <= Len(log[r])
        /\ (\A i \in 1 .. Len(rows) : rows[i] # "settled") /\ Len(rows) < PageSize =>
              cursor[d] + Len(out) + 1 >= Len(log[r])
    BY <1>3, PageContinues
  <1>5. /\ v \in {"settled", "again", "drained", "wait"}
        /\ v \in {"drained", "wait"} => /\ \A i \in 1 .. Len(rows) : rows[i] # "settled"
                                        /\ Len(rows) < PageSize
        /\ v = "drained" => ~sampled[d]
        /\ v = "wait" => sampled[d]
    <2> HIDE DEF rows
    <2> QED BY <1>4, VerdictCases
  <1> HIDE DEF v, out, rows
  <1>count. /\ Len(log[r]) \in Nat /\ Len(got[d]) \in Nat
            /\ cursor[d] \in Int /\ from[d] \in Int /\ cursor[d] >= from[d]
            /\ cursor[d] = from[d] \/ cursor[d] + 1 <= Len(log[r])
            /\ Len(got[d]) = cursor[d] - from[d]
            /\ Len(out) = 0 \/ cursor[d] + Len(out) + 1 <= Len(log[r])
            /\ v \in {"drained", "wait"} => cursor[d] + Len(out) + 1 >= Len(log[r])
    BY <1>3, <1>4, <1>5, LenProperties
  <1>6. /\ got' \in [Readers -> Seq(Events)] /\ got'[d] = got[d] \o out
        /\ Len(got'[d]) = Len(got[d]) + Len(out)
        /\ cursor' \in [Readers -> Int] /\ cursor'[d] = cursor[d] + Len(out)
        /\ \A x \in Readers : x # d => got'[x] = got[x] /\ cursor'[x] = cursor[x]
        /\ Len(out) \in Nat
    <2>1. /\ got \in [Readers -> Seq(Events)] /\ cursor \in [Readers -> Int]
          /\ got[d] \o out \in Seq(Events) /\ Len(got[d] \o out) = Len(got[d]) + Len(out)
          /\ Len(out) \in Nat
      <3>1. got[d] \in Seq(Events) /\ out \in Seq(Events) /\ ReaderShape
        BY <1>3, <1>4
      <3> QED BY <3>1, ConcatProperties DEF ReaderShape
    <2>2. got' = [got EXCEPT ![d] = got[d] \o out]
      BY <1>2
    <2>3. got' \in [Readers -> Seq(Events)] /\ got'[d] = got[d] \o out
          /\ \A x \in Readers : x # d => got'[x] = got[x]
      BY <2>1, <2>2
    <2>4. cursor' \in [Readers -> Int] /\ cursor'[d] = cursor[d] + Len(out)
          /\ \A x \in Readers : x # d => cursor'[x] = cursor[x]
      BY <1>2, <2>1
    <2> QED BY <2>1, <2>3, <2>4
  <1>7. /\ subs' = {<<x, of[x]>> : x \in {y \in Readers : stream'[y] # "off"}}
        /\ token' \subseteq {y \in Readers : stream'[y] # "off"}
        /\ stream' \in [Readers -> {"off", "sample", "read", "wait"}]
        /\ \A x \in Readers : x # d => /\ stream'[x] = stream[x] /\ ended'[x] = ended[x]
                                       /\ (x \in token' <=> x \in token)
        /\ ended' \in [Readers -> {"none", "open", "settled", "drained", "dropped"}]
        /\ \/ /\ v \in {"settled", "drained"} /\ stream'[d] = "off" /\ ended'[d] = v
           \/ /\ v \in {"again", "wait"} /\ UNCHANGED <<token, ended>>
              /\ stream'[d] = IF v = "again" THEN "sample" ELSE "wait"
    <2>1. CASE v \in {"settled", "drained"}
      <3>1. Closed(d, v)
        BY <1>2, <2>1
      <3>2. /\ ended' \in [Readers -> {"none", "open", "settled", "drained", "dropped"}]
            /\ ended'[d] = v /\ \A x \in Readers : x # d => ended'[x] = ended[x]
        BY <1>3, <2>1, <3>1 DEF Closed, ReaderShape
      <3> QED BY <1>2, <1>3, <2>1, <3>1, <3>2, ClosedShape
    <2>2. CASE v = "again"
      BY <1>2, <1>3, <2>2, OpenShape DEF ReaderShape
    <2>3. CASE v = "wait"
      BY <1>2, <1>3, <2>3, OpenShape DEF ReaderShape
    <2> QED BY <1>5, <2>1, <2>2, <2>3
  <1>8. ReaderShape'
    <2>1. of' = of /\ from' = from /\ sampled' = sampled
      BY <1>2
    <2>2. /\ of' \in [Readers -> Runs \cup {"none"}] /\ from' \in [Readers -> -1 .. MaxAfter - 1]
          /\ sampled' \in [Readers -> BOOLEAN]
      BY <1>3, <2>1, Zenon DEF ReaderShape
    <2>3. /\ got' \in [Readers -> Seq(Events)] /\ cursor' \in [Readers -> Int]
      BY <1>6, Zenon
    <2>4. subs' = {<<x, of'[x]>> : x \in {y \in Readers : stream'[y] # "off"}}
      BY <1>7, <2>1, Zenon
    <2> QED BY <1>7, <2>2, <2>3, <2>4, Zenon DEF ReaderShape
  <1>9. GotPlace(d)'
    <2>1. /\ stream'[d] # "off" <=> ended'[d] = "open"
          /\ of'[d] = r /\ from'[d] = from[d]
      <3>1. of'[d] = r /\ from'[d] = from[d]
        BY <1>2
      <3>2. CASE v \in {"settled", "drained"}
        BY <1>7, <3>1, <3>2
      <3>3. CASE v \in {"again", "wait"}
        BY <1>3, <1>7, <3>1, <3>3
      <3> QED BY <1>5, <3>2, <3>3
    <2>2. /\ cursor'[d] >= from[d] /\ Len(got'[d]) = cursor'[d] - from[d]
          /\ cursor'[d] = from[d] \/ cursor'[d] + 1 <= Len(log[r])
      <3>1. cursor'[d] = cursor[d] + Len(out) /\ Len(got'[d]) = Len(got[d]) + Len(out)
            /\ Len(out) \in Nat
        BY <1>6
      <3>2. /\ cursor[d] + Len(out) >= from[d]
            /\ Len(got[d]) + Len(out) = (cursor[d] + Len(out)) - from[d]
            /\ cursor[d] + Len(out) = from[d] \/ cursor[d] + Len(out) + 1 <= Len(log[r])
        BY <1>count, <3>1
      <3> QED BY <3>1, <3>2
    <2> QED BY <1>1, <1>3, <2>1, <2>2 DEF GotPlace
  <1>10. OverPlace(d)'
    BY <1>1, <1>2, <1>3, <1>5, <1>7 DEF ReaderInv, OverPlace, IsActive
  <1>11. got'[d] = SubSeq(log[r], from[d] + 2, cursor'[d] + 1)
    <2>1. cursor'[d] + 1 = cursor[d] + Len(out) + 1
      BY <1>3, <1>6
    <2> QED BY <1>3, <1>4, <1>6, <2>1
  <1>12. ended'[d] = "drained" => cursor'[d] + 1 + tail[r] >= Len(log[r])
    <2>1. tail[r] \in Nat
      BY <1>3 DEF LogInv, LogShape
    <2>2. ended'[d] = "drained" => v = "drained"
      BY <1>3, <1>7
    <2>3. ended'[d] = "drained" => cursor'[d] + 1 >= Len(log[r]) /\ cursor'[d] \in Int
      BY <1>count, <1>6, <2>2
    <2> QED BY <1>count, <2>1, <2>3
  <1>13. stream'[d] = "wait" => /\ cursor'[d] + 1 >= Len(log[r])
                                /\ d \notin token' => IsActive(r)
    <2>1. stream'[d] = "wait" => v = "wait" /\ sampled[d] /\ token' = token
      BY <1>5, <1>7
    <2>2. stream'[d] = "wait" => cursor'[d] + 1 >= Len(log[r])
      BY <1>count, <1>6, <2>1
    <2> QED BY <1>2, <1>3, <2>1, <2>2 DEF ReaderInv, OverPlace
  <1> QED BY <1>1, <1>2, <1>6, <1>7, <1>8, <1>9, <1>10, <1>11, <1>12, <1>13, ReaderMoves

\* The other steps of an open stream, and of its client.
LEMMA LoopKeeps ==
  ASSUME ServiceInv, LogInv, ReaderInv, NEW d \in Readers,
         Sample(d) \/ Wakes(d) \/ Heartbeat(d) \/ Disconnect(d)
  PROVE  ReaderInv'
  <1>1. UNCHANGED <<sup, fstat, th, log, tail, bell, row>>
    BY ReaderStepFrame DEF StreamStep, Client
  <1>2. /\ stream[d] # "off" /\ ReaderShape /\ GotPlace(d) /\ OverPlace(d)
        /\ UNCHANGED <<of, from, cursor, got>>
    BY DEF Sample, Wakes, Heartbeat, Disconnect, ReaderInv
  <1>3. of[d] \in Runs /\ ended[d] = "open" /\ sup[of[d]] \notin {"none", "resolving"}
    BY <1>2 DEF GotPlace, OverPlace
  <1>4. CASE Disconnect(d)
    <2>1. Closed(d, "dropped") /\ sampled' = sampled
      BY <1>4 DEF Disconnect
    <2>2. /\ ended' \in [Readers -> {"none", "open", "settled", "drained", "dropped"}]
          /\ ended'[d] = "dropped" /\ \A x \in Readers : x # d => ended'[x] = ended[x]
      BY <1>2, <2>1 DEF Closed, ReaderShape
    <2>3. ReaderShape' /\ stream'[d] = "off" /\ d \notin token'
          /\ \A x \in Readers : x # d => stream'[x] = stream[x] /\ (x \in token' <=> x \in token)
      BY <1>2, <2>1, <2>2, ClosedShape DEF ReaderShape
    <2>4. GotPlace(d)' /\ OverPlace(d)'
      BY <1>1, <1>2, <1>3, <2>1, <2>2, <2>3 DEF GotPlace, OverPlace
    <2> QED BY <1>1, <1>2, <2>1, <2>2, <2>3, <2>4, ReaderMoves DEF ReaderInv, StreamFaithful
  <1>5. CASE Sample(d)
    <2>1. /\ stream' = [stream EXCEPT ![d] = "read"] /\ UNCHANGED <<subs, token, ended>>
          /\ sampled' = [sampled EXCEPT ![d] = IsActive(of[d])]
      BY <1>5 DEF Sample, serviceVars, fanVars
    <2>2. /\ sampled' \in [Readers -> BOOLEAN] /\ sampled'[d] = IsActive(of[d])
          /\ \A x \in Readers : x # d => sampled'[x] = sampled[x]
      BY <1>2, <2>1, Zenon DEF ReaderShape, IsActive
    <2>3. ReaderShape' /\ stream'[d] = "read"
          /\ \A x \in Readers : x # d => stream'[x] = stream[x]
      BY <1>2, <2>1, <2>2, OpenShape DEF ReaderShape
    <2>4. GotPlace(d)' /\ OverPlace(d)'
      BY <1>1, <1>2, <1>3, <2>1, <2>2, <2>3 DEF GotPlace, OverPlace, IsActive
    <2> QED BY <1>1, <1>2, <2>1, <2>2, <2>3, <2>4, ReaderMoves
            DEF ReaderInv, StreamFaithful, CleanClose
  <1>6. CASE Wakes(d) \/ Heartbeat(d)
    <2>1. /\ stream' = [stream EXCEPT ![d] = "sample"] /\ UNCHANGED <<subs, ended, sampled>>
          /\ token' = token \/ token' = token \ {d}
      BY <1>6 DEF Wakes, Heartbeat, serviceVars, fanVars
    <2>2. ReaderShape' /\ stream'[d] = "sample"
          /\ \A x \in Readers : x # d => stream'[x] = stream[x] /\ (x \in token' <=> x \in token)
      BY <1>2, <2>1, OpenShape DEF ReaderShape
    <2>3. GotPlace(d)' /\ OverPlace(d)'
      BY <1>1, <1>2, <1>3, <2>1, <2>2 DEF GotPlace, OverPlace
    <2> QED BY <1>1, <1>2, <2>1, <2>2, <2>3, ReaderMoves
            DEF ReaderInv, StreamFaithful, CleanClose
  <1> QED BY <1>4, <1>5, <1>6

LEMMA OpenedKeeps ==
  ASSUME ServiceInv, LogInv, ReaderInv, NEW d \in Readers, NEW r \in Runs, Opened(d, r),
         UNCHANGED <<sup, fstat, th, log, tail, bell, row, got>>,
         RunExists(r), stream[d] = "off",
         of' = [of EXCEPT ![d] = r], of[d] \in Runs => of[d] = r,
         \E c \in -1 .. MaxAfter - 1 :
            /\ from' = [from EXCEPT ![d] = c]
            /\ IF of[d] \in Runs THEN c = from[d] /\ cursor' = cursor
               ELSE cursor' = [cursor EXCEPT ![d] = c]
  PROVE  ReaderInv'
  <1>1. /\ subs' = subs \cup {<<d, r>>} /\ stream' = [stream EXCEPT ![d] = "sample"]
        /\ ended' = [ended EXCEPT ![d] = "open"] /\ UNCHANGED <<token, sampled>>
        /\ ReaderShape /\ GotPlace(d)
    BY DEF Opened, ReaderInv
  <1>2. PICK c \in -1 .. MaxAfter - 1 :
            /\ from' = [from EXCEPT ![d] = c]
            /\ IF of[d] \in Runs THEN c = from[d] /\ cursor' = cursor
               ELSE cursor' = [cursor EXCEPT ![d] = c]
    OBVIOUS
  <1>3. /\ of'[d] = r /\ stream'[d] = "sample" /\ ended'[d] = "open" /\ from'[d] = c
        /\ cursor'[d] = (IF of[d] \in Runs THEN cursor[d] ELSE c)
        /\ \A x \in Readers : x # d => /\ of'[x] = of[x] /\ stream'[x] = stream[x]
                                       /\ ended'[x] = ended[x] /\ from'[x] = from[x]
                                      /\ cursor'[x] = cursor[x]
        /\ of' \in [Readers -> Runs \cup {"none"}]
        /\ stream' \in [Readers -> {"off", "sample", "read", "wait"}]
        /\ ended' \in [Readers -> {"none", "open", "settled", "drained", "dropped"}]
        /\ from' \in [Readers -> -1 .. MaxAfter - 1] /\ cursor' \in [Readers -> Int]
    BY <1>1, <1>2 DEF ReaderShape
  <1>4. subs' = {<<x, of'[x]>> : x \in {y \in Readers : stream'[y] # "off"}}
    BY <1>1, <1>3 DEF ReaderShape
  <1>5. ReaderShape'
    BY <1>1, <1>3, <1>4 DEF ReaderShape
  <1>6. sup[r] \notin {"none", "resolving"}
    BY DEF RunExists, IsActive, LogInv, RowPlace
  <1>7. CASE of[d] \in Runs
    <2>1. GotPlace(d)'
      BY <1>1, <1>2, <1>3, <1>7 DEF GotPlace
    <2>2. OverPlace(d)'
      BY <1>3, <1>6 DEF OverPlace
    <2> QED BY <1>1, <1>2, <1>3, <1>5, <1>7, <2>1, <2>2, ReaderMoves, ZenonT(60)
            DEF ReaderInv, StreamFaithful, CleanClose
  <1>8. CASE of[d] \notin Runs
    <2>1. GotPlace(d)'
      <3>1. Len(got[d]) = 0 /\ got'[d] = got[d] /\ c \in Int
        BY <1>1, <1>8, StreamAssumption DEF GotPlace
      <3> QED BY <1>1, <1>3, <1>8, <3>1 DEF GotPlace
    <2>2. OverPlace(d)'
      BY <1>3, <1>6 DEF OverPlace
    <2>3. got'[d] = SubSeq(log[r], from'[d] + 2, cursor'[d] + 1)
      <3>1. c \in Int /\ c + 1 < c + 2
        BY StreamAssumption
      <3>2. SubSeq(log[r], c + 2, c + 1) = <<>>
        BY <3>1, SubSeqEmpty
      <3> QED BY <1>1, <1>3, <1>8, <3>2 DEF GotPlace
    <2> QED BY <1>1, <1>3, <1>5, <2>1, <2>2, <2>3, ReaderMoves
  <1> QED BY <1>7, <1>8

\* ReaderInv is inductive on top of the other layers.
LEMMA NextKeepsReaders ==
  ASSUME ServiceInv, StageInv, LogInv, LogInv', ReaderInv, [Next]_vars
  PROVE  ReaderInv'
  <1>1. ASSUME ServiceStep, UNCHANGED streamVars PROVE ReaderInv'
    BY <1>1, ServiceSeen, ReadersFollow
  <1>2. ASSUME Dies PROVE ReaderInv'
    BY <1>2, ReadersDie
  <1>3. ASSUME NEW d \in Readers, StreamStep(d) PROVE ReaderInv'
    BY <1>3, LoopKeeps, ReadPageKeeps DEF StreamStep
  <1>4. ASSUME NEW d \in Readers, Client(d) PROVE ReaderInv'
    <2>1. UNCHANGED <<sup, fstat, th, log, tail, bell, row>>
      BY <1>4, ReaderStepFrame
    <2>2. ReaderShape /\ GotPlace(d)
      BY DEF ReaderInv
    <2>3. ASSUME NEW r \in Runs, NEW c \in -1 .. MaxAfter - 1, Connect(d, r, c) PROVE ReaderInv'
      <3>1. /\ of[d] \notin Runs /\ RunExists(r) /\ Opened(d, r) /\ UNCHANGED got
            /\ of' = [of EXCEPT ![d] = r] /\ from' = [from EXCEPT ![d] = c]
            /\ cursor' = [cursor EXCEPT ![d] = c]
        BY <2>3 DEF Connect
      <3>2. stream[d] = "off"
        BY <2>2, <3>1 DEF GotPlace
      <3> QED BY <2>1, <3>1, <3>2, OpenedKeeps
    <2>4. ASSUME Reconnect(d) PROVE ReaderInv'
      <3>1. /\ of[d] \in Runs /\ stream[d] = "off" /\ RunExists(of[d]) /\ Opened(d, of[d])
            /\ cursor' = [cursor EXCEPT ![d] = ResumeCursor(d)] /\ UNCHANGED <<of, from, got>>
        BY <2>4 DEF Reconnect
      <3>2. ResumeCursor(d) = cursor[d]
        <4>1. CASE got[d] = <<>>
          <5>1. Len(got[d]) = 0 /\ cursor[d] \in Int /\ from[d] \in Int
            BY <2>2, <4>1, StreamAssumption DEF ReaderShape
          <5>2. cursor[d] = from[d]
            BY <2>2, <3>1, <5>1 DEF GotPlace
          <5> QED BY <4>1, <5>2 DEF ResumeCursor
        <4>2. CASE got[d] # <<>>
          BY <4>2 DEF ResumeCursor
        <4> QED BY <4>1, <4>2
      <3>3. /\ cursor' = cursor /\ of' = [of EXCEPT ![d] = of[d]]
            /\ from' = [from EXCEPT ![d] = from[d]] /\ from[d] \in -1 .. MaxAfter - 1
        BY <2>2, <3>1, <3>2 DEF ReaderShape
      <3> QED BY <2>1, <3>1, <3>3, OpenedKeeps
    <2>5. ASSUME Disconnect(d) PROVE ReaderInv'
      BY <2>5, LoopKeeps
    <2> QED BY <1>4, <2>3, <2>4, <2>5 DEF Client
  <1>5. ASSUME UNCHANGED vars PROVE ReaderInv'
    BY <1>5, ReaderKept DEF vars, serviceVars, runVars, dbVars, fanVars, histVars
  <1> QED BY <1>1, <1>2, <1>3, <1>4, <1>5 DEF Next

(* The theorems *)

\* The flags and the counts.
CountShape ==
    /\ up \in BOOLEAN /\ closing \in BOOLEAN /\ legacy \in BOOLEAN
    /\ crashes \in 0 .. MaxCrashes /\ faults \in 0 .. MaxFaults

LEMMA NextKeepsCounts ==
  ASSUME CountShape, [Next]_vars
  PROVE  CountShape'
  <1>1. CASE UNCHANGED procVars
    BY <1>1 DEF CountShape, procVars
  <1>2. ASSUME NEW r \in Runs, Request(r) PROVE UNCHANGED procVars
    BY <1>2 DEF Request, StartRun, RetryStarts, Admit, RetrySource, RetryRefused, CancelRun
  <1>3. ASSUME NEW r \in Runs, Fetching(r) PROVE UNCHANGED procVars
    BY <1>3 DEF Fetching, Preflight, PreflightFails, StartRunCommits, SourceEvent, SweepEnds,
           FinishRunCommits, WriterFails, WriterLeaks, StragglerEnds
  <1>4. ASSUME NEW r \in Runs, Enriching(r) \/ Scoring(r) \/ Supervising(r) \/ Ring(r)
        PROVE  UNCHANGED procVars
    BY <1>4 DEF Enriching, EnrichReturns, EnrichTaskEnds, Scoring, ScoreChecks, ScoreOpCommits,
           ScoreRaises, Supervising, AfterFetch, EnrichBegins, EnrichCancelled, AfterEnrich,
           ScoreBegins, ScoreEnds, Settle, SupervisorEnds, Ring
  <1>5. ASSUME NEW r \in Runs, NEW w \in Slots, AppendRead(r, w) \/ AppendInsert(r, w)
        PROVE  UNCHANGED procVars
    BY <1>5 DEF AppendRead, AppendInsert
  <1>6. ASSUME NEW r \in Runs, NEW w \in Slots, AppendFails(r, w) PROVE CountShape'
    BY <1>6, ServiceAssumption DEF AppendFails, CountShape
  <1>7. ASSUME Aclose \/ LegacyRuns \/ \E ok \in BOOLEAN : Restarts(ok) PROVE CountShape'
    BY <1>7 DEF Aclose, LegacyRuns, Restarts, CountShape
  <1>8. ASSUME Dies PROVE CountShape'
    <2>1. /\ crashes + faults < MaxCrashes /\ crashes' = crashes + 1 /\ faults' = faults
          /\ up' = FALSE /\ closing' = FALSE /\ legacy' = FALSE
      BY <1>8 DEF Dies, ProcessDies
    <2>2. crashes + 1 \in 0 .. MaxCrashes
      BY <2>1, ServiceAssumption DEF CountShape
    <2> QED BY <2>1, <2>2 DEF CountShape
  <1>9. ASSUME NEW d \in Readers, StreamStep(d) \/ Client(d) PROVE UNCHANGED procVars
    <2>1. CASE StreamStep(d)
      BY <2>1 DEF StreamStep, Sample, ReadPage, Wakes, Heartbeat, serviceVars
    <2>2. CASE Client(d)
      BY <2>2 DEF Client, Connect, Reconnect, Disconnect, Opened
    <2> QED BY <1>9, <2>1, <2>2
  <1>10. ASSUME UNCHANGED vars PROVE UNCHANGED procVars
    BY <1>10 DEF vars, serviceVars
  <1> QED BY <1>1, <1>2, <1>3, <1>4, <1>5, <1>6, <1>7, <1>8, <1>9, <1>10
          DEF Next, ServiceStep, RunStep, Appending

AllInv == ServiceInv /\ StageInv /\ LogInv /\ ReaderInv /\ CountShape

LEMMA AllInvHolds == Spec => []AllInv
  <1>1. Init => AllInv
    <2>1. Init => CountShape
      <3>1. Init => up = TRUE /\ closing = FALSE /\ crashes = 0 /\ faults = 0 /\ legacy = FALSE
        BY DEF Init, ServiceInit
      <3>2. 0 \in 0 .. MaxCrashes /\ 0 \in 0 .. MaxFaults
        BY ServiceAssumption
      <3>3. TRUE \in BOOLEAN /\ FALSE \in BOOLEAN
        OBVIOUS
      <3> QED BY <3>1, <3>2, <3>3, Zenon DEF CountShape
    <2> QED BY <2>1, InitHolds, StageInit, LogInit, ReaderInit DEF AllInv
  <1>2. AllInv /\ [Next]_vars => AllInv'
    BY NextPreserves, NextKeepsStages, NextKeepsLog, NextKeepsReaders, NextKeepsCounts DEF AllInv
  <1> QED BY <1>1, <1>2, PTL DEF Spec

\* A client is given the run's events from its first cursor on, each once and in
\* order, across any number of disconnects, process deaths and restarts, for
\* every page size (event_stream, resume_cursor, events_after).
THEOREM StreamsAreFaithful == Spec => []StreamFaithful
  <1>1. AllInv => StreamFaithful
    BY DEF AllInv, ReaderInv
  <1> QED BY <1>1, AllInvHolds, PTL

\* An open stream is subscribed, sleeps only while there is nothing to read and
\* more to come, and closes only with everything delivered (event_stream,
\* _Fanout, the finally of _supervise).
THEOREM ReadersAreWoken == Spec => []ReadersKeepUp
  <1>1. AllInv => ReadersKeepUp
    <2> SUFFICES ASSUME AllInv PROVE ReadersKeepUp
      OBVIOUS
    <2>1. ReaderShape /\ CountShape /\ Shape /\ StageShape /\ LogShape
      BY DEF AllInv, ReaderInv, ServiceInv, StageInv, LogInv
    <2>2. token \subseteq {d \in Readers : \E r \in Runs : <<d, r>> \in subs}
      <3>1. ASSUME NEW d \in token PROVE d \in Readers /\ of[d] \in Runs /\ <<d, of[d]>> \in subs
        BY <2>1 DEF AllInv, ReaderInv, ReaderShape, GotPlace
      <3> QED BY <3>1
    <2>3. ops \in [Runs -> 0 .. ScoreOps]
      BY <2>1, ServiceAssumption DEF AllInv, StageInv, StageShape, ScorerPlace
    <2>4. TypeOK
      BY <2>1, <2>2, <2>3 DEF TypeOK, ReaderShape, CountShape, Shape, StageShape, LogShape
    <2> QED BY <2>4 DEF ReadersKeepUp, AllInv, ReaderInv
  <1> QED BY <1>1, AllInvHolds, PTL

\* While the legacy runner runs no canonical run becomes active, a retry that
\* was resolving its source when the runner started included (_check_conflicts).
THEOREM LegacyKeepsRunsOut == Spec => LegacyExcludesRuns
  <1> DEFINE A == \A r \in Runs : legacy /\ ~IsActive(r) => ~IsActive(r)'
  <1>1. AllInv /\ [Next]_vars => [A]_vars
    <2> SUFFICES ASSUME AllInv, Next, NEW r \in Runs, legacy, ~IsActive(r)
                 PROVE  ~IsActive(r)'
      BY DEF IsActive
    <2>1. ASSUME NEW q \in Runs, Request(q) PROVE ~IsActive(r)'
      BY <2>1 DEF Request, StartRun, RetryStarts, RetryMayStart, CheckConflicts, RetrySource,
             RetryRefused, CancelRun, AllInv, ServiceInv, Shape, IsActive
    <2>2. ASSUME NEW q \in Runs, RunStep(q) PROVE ~IsActive(r)'
      <3>1. ASSUME Supervising(q) PROVE q # r
        BY <3>1 DEF Supervising, AfterFetch, EnrichBegins, EnrichCancelled, AfterEnrich,
               ScoreBegins, ScoreEnds, Settle, SupervisorEnds, IsActive
      <3>2. ASSUME Supervising(q) PROVE sup'[r] = sup[r]
        BY <3>1, <3>2 DEF Supervising, AfterFetch, EnrichBegins, EnrichCancelled, AfterEnrich,
               ScoreBegins, ScoreEnds, Settle, SupervisorEnds, SupAwaits, AllInv, ServiceInv, Shape
      <3>3. ASSUME Fetching(q) \/ Enriching(q) \/ Scoring(q) \/ Ring(q) PROVE sup' = sup
        BY <3>3 DEF Fetching, Preflight, PreflightFails, StartRunCommits, SourceEvent, SweepEnds,
               FinishRunCommits, WriterFails, WriterLeaks, StragglerEnds, Enriching, EnrichReturns,
               EnrichTaskEnds, Scoring, ScoreChecks, ScoreOpCommits, ScoreRaises, Ring, runVars
      <3>4. ASSUME Appending(q) PROVE sup' = sup
        BY <3>4 DEF Appending, AppendRead, AppendInsert, AppendFails, runVars
      <3> QED BY <2>2, <3>2, <3>3, <3>4 DEF RunStep, IsActive
    <2>3. ASSUME Aclose \/ LegacyRuns \/ \E ok \in BOOLEAN : Restarts(ok) PROVE ~IsActive(r)'
      BY <2>3 DEF Aclose, LegacyRuns, Restarts, runVars, IsActive
    <2>4. ASSUME Dies PROVE ~IsActive(r)'
      BY <2>4 DEF Dies, ProcessDies, IsActive
    <2>5. ASSUME NEW d \in Readers, StreamStep(d) \/ Client(d) PROVE ~IsActive(r)'
      BY <2>5, ReaderStepFrame DEF IsActive
    <2> QED BY <2>1, <2>2, <2>3, <2>4, <2>5 DEF Next, ServiceStep
  <1> QED BY <1>1, AllInvHolds, PTL DEF Spec, LegacyExcludesRuns

=============================================================================
