----------------------------- MODULE LegacySweep -----------------------------
(***************************************************************************)
(* The legacy sweep: one runner in the backend that drives sweep.py as a   *)
(* subprocess, step after step, ingests what it produced and tells any     *)
(* number of stream readers, and the ledger sweep.py keeps on disk, which  *)
(* a sweep started from a shell, or one that outlived a crashed backend,   *)
(* may be writing as well.                                                 *)
(*                                                                         *)
(* Awaits are the only places the runner yields, so each action below runs *)
(* from one await to the next.  Consecutive frames with equal stamps are   *)
(* one frame here: ProcLog adds as many as it likes.                       *)
(***************************************************************************)
EXTENDS Naturals, Sequences, FiniteSets

CONSTANTS
    Steps,       \* the steps of sweep.py in order; the first is the tests gate
    QuickSteps,  \* the number of steps of a quick refresh
    AttemptCap,  \* SWEEP_STEP_ATTEMPT_CAP
    QueueMax,    \* SUB_QUEUE_MAX
    MaxStarts,   \* bound: runs started in one process
    MaxBoots,    \* bound: processes of the backend
    MaxExternal  \* bound: sweeps started from a shell or orphaned by a crash

ASSUME SweepAssumption ==
    /\ Steps \in Seq(STRING) /\ Len(Steps) >= 1 /\ \A i \in DOMAIN Steps : Steps[i] # "none"
    /\ QuickSteps \in Nat \ {0} /\ AttemptCap \in Nat \ {0} /\ QueueMax \in Nat \ {0}
    /\ MaxStarts \in Nat /\ MaxBoots \in Nat \ {0} /\ MaxExternal \in Nat

VARIABLES
    at,        \* where the runner's task is
    kind,      \* quick or full
    cmd,       \* the command being run
    cancel,    \* _cancel
    tries,     \* full: attempts per step in this run
    reset,     \* full: did_reset
    proc,      \* the runner's subprocess
    ledger,    \* sweep_state.json
    foreign,   \* its mtime is later than the runner's own mark and within EXTERNAL_SWEEP_WINDOW
    outside,   \* a sweep process the runner does not own
    externals, \* such sweeps so far
    finished,  \* runs completed since boot
    starts,    \* runs started since boot
    boot,      \* BOOT
    reader,    \* a stream reader
    execs,     \* history: executions per step by the current run
    mixed,     \* history: two sweeps held the ledger at once
    stopped    \* history: the current run was cancelled before it began to ingest

runVars == <<at, kind, cmd, cancel, tries, reset, proc, execs, stopped>>
fileVars == <<ledger, foreign, outside, externals, mixed>>
vars == <<runVars, fileVars, finished, starts, boot, reader>>

StepSet == {Steps[i] : i \in DOMAIN Steps}
Tests == Steps[1]
NoStep == "none"
Fresh == [s \in StepSet |-> [status |-> "pending", attempts |-> 0]]
NoTries == [s \in StepSet |-> 0]

Idle == [state |-> "none"]
Cmd(do, step) == [do |-> do, step |-> step, n |-> 0]
Quick(n) == [do |-> "quick", step |-> NoStep, n |-> n]
Nothing == Cmd("none", NoStep)

Away == [on |-> FALSE, q |-> <<>>, overflow |-> FALSE, seen |-> [boot |-> 0, finished |-> 0]]

Init ==
    /\ at = "idle" /\ kind = "none" /\ cmd = Nothing /\ cancel = FALSE
    /\ tries = NoTries /\ reset = FALSE /\ proc = Idle
    /\ ledger = Fresh /\ foreign = FALSE /\ outside = Idle /\ externals = 0
    /\ finished = 0 /\ starts = 0 /\ boot = 1 /\ reader = Away
    /\ execs = NoTries /\ mixed = FALSE /\ stopped = FALSE

Running == at \notin {"idle", "down"}

-----------------------------------------------------------------------------
(* Events.                                                                 *)

Stamp(n) == [boot |-> boot, finished |-> n]

\* Mutant of Fed: a full queue loses the frame and nobody notices.
FedLossy(n) ==
    IF ~reader.on \/ Len(reader.q) >= QueueMax THEN reader
    ELSE IF reader.q # <<>> /\ reader.q[Len(reader.q)] = Stamp(n) THEN reader
    ELSE [reader EXCEPT !.q = Append(@, Stamp(n))]

\* _emit to the subscriber: a full queue marks it overflowed, and it gets no more.
Fed(n) ==
    IF ~reader.on \/ reader.overflow THEN reader
    ELSE IF Len(reader.q) >= QueueMax THEN [reader EXCEPT !.overflow = TRUE]
    ELSE IF reader.q # <<>> /\ reader.q[Len(reader.q)] = Stamp(n) THEN reader
    ELSE [reader EXCEPT !.q = Append(@, Stamp(n))]

Emit == reader' = Fed(finished) /\ UNCHANGED finished

\* The task is gone and its locals with it.
NoRun(there) ==
    /\ at' = there
    /\ cmd' = Nothing /\ proc' = Idle /\ kind' = "none" /\ cancel' = FALSE
    /\ tries' = NoTries /\ reset' = FALSE /\ execs' = NoTries /\ stopped' = FALSE

\* A terminal event counts the run before it is stamped; the task then returns.
End ==
    /\ finished' = finished + 1
    /\ reader' = Fed(finished + 1)
    /\ NoRun("idle")

\* subscribe: the sync frame is a reading of the runner, taken as the queue is added.
Attach ==
    /\ ~reader.on /\ at # "down"
    /\ reader' = [on |-> TRUE, q |-> <<>>, overflow |-> FALSE, seen |-> Stamp(finished)]
    /\ UNCHANGED <<runVars, fileVars, finished, starts, boot>>

Read ==
    /\ reader.on /\ ~reader.overflow /\ reader.q # <<>>
    /\ reader' = [reader EXCEPT !.seen = Head(reader.q), !.q = Tail(@)]
    /\ UNCHANGED <<runVars, fileVars, finished, starts, boot>>

\* Overflow or the stream's deadline recycles the connection; a client may also leave.
Bye ==
    /\ reader.on
    /\ reader' = Away
    /\ UNCHANGED <<runVars, fileVars, finished, starts, boot>>

-----------------------------------------------------------------------------
(* sweep.py, as the runner's subprocess or another's.                      *)

Pending(st) == {i \in DOMAIN Steps : st[Steps[i]].status # "done"}

FirstPending(st) ==
    IF Pending(st) = {} THEN NoStep
    ELSE Steps[CHOOSE i \in Pending(st) : \A j \in Pending(st) : i =< j]

Attempted(st, step, ok) ==
    [st EXCEPT ![step] = [status |-> IF ok THEN "done" ELSE "failed", attempts |-> @.attempts + 1]]

Skipped(st, step) == [st EXCEPT ![step].status = "done"]

\* What a command leaves of the ledger it loaded, saved in one replace of the file.
Saved(p, ok) ==
    IF p.cmd.do = "reset" THEN Fresh
    ELSE IF p.cmd.do = "skip" THEN Skipped(p.loaded, p.cmd.step)
    ELSE IF FirstPending(p.loaded) = NoStep THEN p.loaded
    ELSE Attempted(p.loaded, FirstPending(p.loaded), ok)

Touches(p) == p.cmd.do # "quick" /\ (p.cmd.do # "next" \/ FirstPending(p.loaded) # NoStep)

\* The process does its work and saves; a step may fail.
ProcSave(ok) ==
    /\ at = "wait" /\ proc.state = "run"
    /\ proc' = [proc EXCEPT !.state = "saved", !.ok = ok]
    /\ IF Touches(proc)
       THEN ledger' = Saved(proc, ok) /\ foreign' = TRUE
       ELSE UNCHANGED <<ledger, foreign>>
    /\ UNCHANGED <<at, kind, cmd, cancel, tries, reset, execs, stopped,
                   outside, externals, mixed, finished, starts, boot, reader>>

ProcLog ==
    /\ at = "wait"
    /\ Emit
    /\ UNCHANGED <<runVars, fileVars, starts, boot>>

\* A sweep from a shell.
OutsideStart ==
    /\ externals < MaxExternal
    /\ outside.state = "none"
    /\ externals' = externals + 1
    /\ outside' = [state |-> "run", cmd |-> Cmd("next", NoStep), loaded |-> ledger, ok |-> FALSE]
    /\ mixed' = (mixed \/ proc.state = "run")
    /\ UNCHANGED <<runVars, ledger, foreign, finished, starts, boot, reader>>

OutsideSave(ok) ==
    /\ outside.state = "run"
    /\ outside' = Idle
    /\ IF Touches(outside)
       THEN ledger' = Saved(outside, ok) /\ foreign' = TRUE
       ELSE UNCHANGED <<ledger, foreign>>
    /\ UNCHANGED <<runVars, externals, mixed, finished, starts, boot, reader>>

\* Three minutes without a write.
WindowPasses ==
    /\ foreign
    /\ foreign' = FALSE
    /\ UNCHANGED <<runVars, ledger, outside, externals, mixed, finished, starts, boot, reader>>

-----------------------------------------------------------------------------
(* The runner.                                                             *)

ExternalSweepActive == foreign

Start(k) ==
    /\ at = "idle"
    /\ ~ExternalSweepActive
    /\ starts < MaxStarts
    /\ starts' = starts + 1
    /\ at' = "top" /\ kind' = k /\ cmd' = Nothing /\ cancel' = FALSE
    /\ tries' = NoTries /\ reset' = FALSE /\ execs' = NoTries /\ stopped' = FALSE
    /\ UNCHANGED <<proc, fileVars, finished, boot, reader>>

\* A killed process keeps what it saved.  One that is still being spawned is not killed.
Kill(p) == IF p.state \in {"run", "saved"} THEN [p EXCEPT !.state = "killed"] ELSE p

Cancel ==
    /\ at # "down"
    /\ cancel' = Running   \* start resets a flag set while idle
    /\ proc' = Kill(proc)
    /\ stopped' = (stopped \/ (Running /\ at # "ingest"))
    /\ Emit
    /\ UNCHANGED <<at, kind, cmd, tries, reset, execs, fileVars, starts, boot>>

Spawn(c) ==
    /\ at' = "spawn" /\ cmd' = c /\ proc' = Idle
    /\ Emit
    /\ UNCHANGED <<kind, cancel, tries, reset, execs, stopped>>

CappedSteps ==
    {s \in StepSet \ {Tests} : ledger[s].status # "done" /\ ledger[s].attempts >= AttemptCap}

StartIngest ==
    /\ at' = "ingest" /\ cmd' = Nothing /\ proc' = Idle
    /\ Emit
    /\ UNCHANGED <<kind, cancel, tries, reset, execs, stopped>>

IngestUnlessCancelled == IF cancel THEN End ELSE StartIngest

\* The head of the loop of either kind: cancelled, out of time, or the next command.
\* The quick refresh counts its steps in cmd.
Top ==
    /\ at = "top"
    /\ IF cancel THEN End
       ELSE IF kind = "quick" THEN Spawn(Quick(1))
       ELSE IF CappedSteps # {}
       THEN Spawn(Cmd("skip", CHOOSE s \in CappedSteps : TRUE))
       ELSE Spawn(Cmd("next", NoStep))
    /\ UNCHANGED <<fileVars, starts, boot>>

WallClock ==
    /\ at = "top" /\ kind = "full" /\ ~cancel
    /\ End
    /\ UNCHANGED <<fileVars, starts, boot>>

\* The subprocess exists and has loaded the ledger; or it could not be made.
Spawned ==
    /\ at = "spawn"
    /\ at' = "wait"
    /\ proc' = [state |-> "run", cmd |-> cmd, loaded |-> ledger, ok |-> FALSE]
    /\ execs' = IF cmd.do = "next" /\ FirstPending(ledger) # NoStep
                THEN [execs EXCEPT ![FirstPending(ledger)] = @ + 1] ELSE execs
    /\ mixed' = (mixed \/ (outside.state = "run" /\ cmd.do # "quick"))
    /\ UNCHANGED <<kind, cmd, cancel, tries, reset, stopped, ledger, foreign, outside, externals,
                   finished, starts, boot, reader>>

SpawnFails ==
    /\ at = "spawn"
    /\ End
    /\ UNCHANGED <<fileVars, starts, boot>>

Again ==
    /\ at' = "top" /\ cmd' = Nothing /\ proc' = Idle
    /\ Emit
    /\ UNCHANGED <<kind, cancel, reset, execs, stopped>>

QuickReturns(rc) ==
    IF rc # "zero" THEN End
    ELSE IF cmd.n = QuickSteps THEN IngestUnlessCancelled
    ELSE Spawn(Quick(cmd.n + 1))

SkipReturns(rc) == IF rc = "zero" THEN Again /\ UNCHANGED tries ELSE End

ResetReturns(rc) ==
    IF rc # "zero" THEN End
    ELSE /\ at' = "top" /\ cmd' = Nothing /\ proc' = Idle /\ reset' = TRUE
         /\ Emit
         /\ UNCHANGED <<kind, cancel, tries, execs, stopped>>

\* Mutant of Counted: only the attempts sweep.py wrote down count.
CountedPersisted(step) == [tries EXCEPT ![step] = ledger[step].attempts]

Counted(step) ==
    LET mine == tries[step] + 1
    IN [tries EXCEPT ![step] = IF ledger[step].attempts > mine THEN ledger[step].attempts ELSE mine]

\* What --next printed: its step, and what remains once it had saved.  A process killed
\* before its buffer was flushed printed nothing.
NextReturns(rc, printed) ==
    LET step   == IF printed THEN FirstPending(proc.loaded) ELSE NoStep
        after  == FirstPending(Saved(proc, proc.ok))
        told   == printed /\ proc.state = "saved"
        alldone == told /\ after = NoStep
        ranAny == \E s \in StepSet : tries[s] > 0
    IN IF told /\ step = Tests /\ ~proc.ok THEN End
       ELSE IF alldone
       THEN IF step = NoStep /\ ~ranAny /\ ~reset THEN Spawn(Cmd("reset", NoStep))
            ELSE IngestUnlessCancelled
       ELSE IF step = NoStep THEN End
       ELSE IF (rc = "none" \/ after = step) /\ Counted(step)[step] >= AttemptCap
       THEN /\ at' = "spawn" /\ cmd' = Cmd("skip", step) /\ proc' = Idle /\ tries' = Counted(step)
            /\ Emit
            /\ UNCHANGED <<kind, cancel, reset, execs, stopped>>
       ELSE Again /\ tries' = Counted(step)

\* Mutant of Returns: a cancel is looked at only by the head of the loop.
ReturnsUnchecked(rc, printed) ==
    /\ at = "wait"
    /\ foreign' = IF cmd.do = "quick" THEN foreign ELSE FALSE
    /\ IF cmd.do = "quick" THEN QuickReturns(rc)
       ELSE IF cmd.do = "skip" THEN SkipReturns(rc)
       ELSE IF cmd.do = "reset" THEN ResetReturns(rc)
       ELSE NextReturns(rc, printed)
    /\ UNCHANGED <<ledger, outside, externals, mixed, starts, boot>>

\* The process is gone and the runner marks the file as its own: rc "none" when the
\* deadline killed it.
Returns(rc, printed) ==
    /\ at = "wait"
    /\ foreign' = IF cmd.do = "quick" THEN foreign ELSE FALSE
    /\ IF cancel THEN End
       ELSE IF cmd.do = "quick" THEN QuickReturns(rc)
       ELSE IF cmd.do = "skip" THEN SkipReturns(rc)
       ELSE IF cmd.do = "reset" THEN ResetReturns(rc)
       ELSE NextReturns(rc, printed)
    /\ UNCHANGED <<ledger, outside, externals, mixed, starts, boot>>

\* A step of sweep.py that fails is a success of --next; only the tests gate exits 2.
Exit == proc.state = "saved" /\ Returns(IF cmd.do = "quick" /\ ~proc.ok THEN "error" ELSE "zero", TRUE)
Killed == proc.state = "killed" /\ Returns("error", FALSE)
Timeout(printed) == proc.state \in {"run", "saved"} /\ Returns("none", printed)

IngestReturns ==
    /\ at = "ingest"
    /\ End
    /\ UNCHANGED <<fileVars, starts, boot>>

\* Shutdown cancels the task: no terminal event; the process is going away.
Shutdown ==
    /\ at # "down"
    /\ NoRun("down") /\ reader' = Away
    /\ UNCHANGED <<fileVars, finished, starts, boot>>

\* The backend dies: its child has a session of its own and goes on.
Crash ==
    /\ at # "down"
    /\ LET orphaned == proc.state = "run" /\ proc.cmd.do # "quick"
       IN /\ orphaned => externals < MaxExternal /\ outside.state = "none"
          /\ outside' = IF orphaned THEN proc ELSE outside
          /\ externals' = IF orphaned THEN externals + 1 ELSE externals
    /\ NoRun("down") /\ reader' = Away
    /\ UNCHANGED <<ledger, foreign, mixed, finished, starts, boot>>

\* A new process: counters from zero, the file as it stands marked its own.
Boot ==
    /\ at = "down" /\ boot < MaxBoots
    /\ boot' = boot + 1
    /\ NoRun("idle")
    /\ finished' = 0 /\ starts' = 0
    /\ foreign' = FALSE
    /\ UNCHANGED <<ledger, outside, externals, mixed, reader>>

-----------------------------------------------------------------------------
RunnerStep ==
    \/ Top \/ Spawned
    \/ \E ok \in BOOLEAN : ProcSave(ok)
    \/ Exit \/ Killed \/ IngestReturns
    \/ \E printed \in BOOLEAN : Timeout(printed)

Next ==
    \/ RunnerStep \/ WallClock \/ SpawnFails
    \/ \E k \in {"quick", "full"} : Start(k)
    \/ Cancel \/ Shutdown \/ Crash \/ Boot
    \/ ProcLog
    \/ OutsideStart \/ WindowPasses
    \/ \E ok \in BOOLEAN : OutsideSave(ok)
    \/ Attach \/ Read \/ Bye

\* The event loop runs ready tasks, a subprocess ends or meets its deadline, a stream
\* writes what is queued and a client reconnects after a recycle.
Fairness ==
    /\ WF_vars(RunnerStep)
    /\ WF_vars(Read) /\ WF_vars(Attach) /\ WF_vars(reader.overflow /\ Bye)

Spec == Init /\ [][Next]_vars /\ Fairness
-----------------------------------------------------------------------------
(* Properties.                                                             *)

Records == [StepSet -> [status : {"pending", "failed", "done"}, attempts : Nat]]

TypeOK ==
    /\ at \in {"idle", "top", "spawn", "wait", "ingest", "down"}
    /\ cancel \in BOOLEAN /\ tries \in [StepSet -> Nat] /\ ledger \in Records
    /\ proc.state \in {"none", "run", "saved", "killed"} /\ outside.state \in {"none", "run"}
    /\ Len(reader.q) =< QueueMax

\* Every run the process accepted has exactly one terminal event, whichever way it
\* went: a client that counts `finished` never waits for a run that is over.
EndsOnce == at # "down" => starts = finished + (IF Running THEN 1 ELSE 0)

\* A reader with nothing queued and no overflow is up to date, whatever it missed while
\* it was away: the sync frame and the stamps carry the count of finished runs.
DrainedIsCurrent ==
    reader.on /\ reader.q = <<>> /\ ~reader.overflow /\ at # "down" => reader.seen = Stamp(finished)

\* One run executes a step at most AttemptCap times, killed executions that left no
\* trace in the ledger included, unless another sweep undid a skip.
AttemptsBounded == ~mixed => \A s \in StepSet : execs[s] =< AttemptCap

\* A full run ingests only when every step is done or was skipped, failed steps of an
\* earlier process included, unless another sweep held the ledger at the same time.
IngestOnlyWhenComplete ==
    at = "ingest" /\ kind = "full" /\ ~mixed => \A s \in StepSet : ledger[s].status = "done"

\* A step recorded as done is undone only by a reset, wherever the writer was killed;
\* two sweeps on one ledger are the exception.
DoneIsKept ==
    [][\A s \in StepSet :
         ledger[s].status = "done" /\ ledger'[s].status # "done" => ledger' = Fresh \/ mixed]_vars

\* After a cancel the run starts no further command and does not ingest.
CancelStops == [][stopped /\ at \in {"top", "wait"} => at' \in {at, "idle", "down"}]_vars

\* Every run ends, even when each command is killed at its deadline and the wall-clock
\* cap never strikes.
RunEnds == Running ~> ~Running

\* A reader that keeps reconnecting learns of the end of every run of a process that
\* lives on, through queue overflow and recycled connections.
ReaderLearns ==
    \A n \in 1 .. MaxStarts, b \in 1 .. MaxBoots :
        (finished = n /\ boot = b) ~> (at = "down" \/ boot # b \/ reader.seen = [boot |-> b, finished |-> n]
                                        \/ finished > n)

\* The runner's bookkeeping holds on every path a run can end by: one end each, attempts
\* capped, readers in step, and no ingest of half a sweep.
SweepSound == TypeOK /\ EndsOnce /\ AttemptsBounded /\ DrainedIsCurrent /\ IngestOnlyWhenComplete

\* What is done stays done, and a cancel is obeyed.
SweepObeys == DoneIsKept /\ CancelStops

\* Every run ends and every persistent reader learns of it.
SweepEnds == RunEnds /\ ReaderLearns
=============================================================================
