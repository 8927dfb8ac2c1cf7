--------------------------- MODULE LegacySweepProofs ---------------------------
(***************************************************************************)
(* Proofs about the legacy sweep, for any steps, caps, queue length and    *)
(* number of runs, processes and sweeps from elsewhere.  The invariant has *)
(* a part for each thing that goes on at once: what the runner's task      *)
(* holds (PlaceInv), who holds the ledger (LedgerInv), what has been tried *)
(* (TriesInv), what readers have been told (ReaderInv).                    *)
(***************************************************************************)
EXTENDS LegacySweep, SequenceTheorems, WellFoundedInduction, TLAPS

Places == {"idle", "top", "spawn", "wait", "ingest", "down"}
Cmds == [do : {"none", "next", "skip", "reset", "quick"}, step : StepSet \cup {NoStep}, n : Nat]
Sweeps(states) == [state : states, cmd : Cmds, loaded : Records, ok : BOOLEAN]
Stamps == [boot : Nat, finished : Nat]

\* What each variable holds.
TypeInv ==
    /\ at \in Places /\ kind \in {"none", "quick", "full"} /\ cmd \in Cmds
    /\ cancel \in BOOLEAN /\ mixed \in BOOLEAN /\ stopped \in BOOLEAN
    /\ tries \in [StepSet -> Nat] /\ execs \in [StepSet -> Nat] /\ ledger \in Records
    /\ proc \in {Idle} \cup Sweeps({"run", "saved", "killed"})
    /\ outside \in {Idle} \cup Sweeps({"run"})
    /\ finished \in Nat /\ starts \in Nat /\ boot \in Nat
    /\ reader \in [on : BOOLEAN, q : Seq(Stamps), overflow : BOOLEAN, seen : Stamps]
    /\ Len(reader.q) <= QueueMax

\* What the task holds where it is: the process it waits for runs its command,
\* a quick refresh tries nothing, and a run that is over has left nothing.
PlaceInv ==
    /\ kind = "none" <=> at \in {"idle", "down"}
    /\ at \in {"idle", "down"} => ~cancel /\ ~stopped /\ tries = NoTries /\ execs = NoTries
    /\ at = "wait" <=> proc.state # "none"
    /\ at = "wait" => proc.cmd = cmd
    /\ at \in {"spawn", "wait"} =>
         \/ kind = "quick" /\ cmd.do = "quick"
         \/ kind = "full" /\ cmd.do \in {"next", "skip", "reset"}
    /\ kind # "full" => tries = NoTries /\ execs = NoTries
    /\ stopped => cancel

\* The run has seen the ledger.
Begun == kind = "full" /\ (at \in {"wait", "ingest"} \/ tries # NoTries \/ execs # NoTries)

\* As long as no two sweeps held the ledger: a process that has not saved has
\* read what is there; what it saved as done is done; and a sweep from
\* elsewhere that runs beside a run does no more than the next step.
LedgerInv ==
    ~mixed =>
        /\ proc.state = "run" /\ proc.cmd.do # "quick" =>
             outside.state = "none" /\ proc.loaded = ledger
        /\ outside.state = "run" => outside.loaded = ledger
        /\ outside.state = "run" /\ Begun => outside.cmd.do = "next"
        /\ proc.state = "saved" /\ kind = "full" =>
             \A s \in StepSet : Saved(proc, proc.ok)[s].status = "done" => ledger[s].status = "done"
        /\ IngestOnlyWhenComplete

\* Step s is being executed.
UnderWay(s) == at = "wait" /\ cmd.do = "next" /\ FirstPending(proc.loaded) = s

\* The runner is about to skip s.
Skipping(s) == at \in {"spawn", "wait"} /\ cmd.do = "skip" /\ cmd.step = s

\* What was executed has been tried or is under way, and what has been tried as
\* often as the cap allows is done or about to be skipped.
TriesInv ==
    /\ \A s \in StepSet : UnderWay(s) => execs[s] <= tries[s] + 1
    /\ \A s \in StepSet : at # "ingest" /\ ~UnderWay(s) => execs[s] <= tries[s]
    /\ at \in {"spawn", "wait"} /\ cmd.do = "reset" => tries = NoTries
    /\ ~mixed =>
         \A s \in StepSet :
            /\ UnderWay(s) => tries[s] < AttemptCap
            /\ at \in {"top", "spawn", "wait"} /\ tries[s] >= AttemptCap =>
                 ledger[s].status = "done" \/ Skipping(s)
    /\ AttemptsBounded

\* The last thing a reader was told, or will read, is how many runs have ended.
ReaderInv ==
    /\ at = "down" => ~reader.on
    /\ reader.on /\ ~reader.overflow =>
         IF reader.q = <<>> THEN reader.seen = Stamp(finished)
         ELSE reader.q[Len(reader.q)] = Stamp(finished)

SweepInv == TypeInv /\ PlaceInv /\ LedgerInv /\ TriesInv /\ ReaderInv /\ EndsOnce

-----------------------------------------------------------------------------
(* The ledger                                                              *)

LEMMA StepFacts ==
  /\ \A i \in DOMAIN Steps : Steps[i] \in StepSet
  /\ \A s \in StepSet : \E i \in DOMAIN Steps : Steps[i] = s
  /\ DOMAIN Steps = 1 .. Len(Steps) /\ Len(Steps) \in Nat \ {0}
  /\ NoStep \notin StepSet /\ Tests \in StepSet
  <1>1. DOMAIN Steps = 1 .. Len(Steps) /\ Len(Steps) \in Nat \ {0}
    BY SweepAssumption, LenProperties
  <1>2. 1 \in DOMAIN Steps
    BY <1>1
  <1> QED BY <1>1, <1>2, SweepAssumption DEF StepSet, NoStep, Tests

\* The first pending step is one that is not done, if there is any.
LEMMA FirstPendingFacts ==
  ASSUME NEW st
  PROVE  /\ FirstPending(st) \in StepSet \cup {NoStep}
         /\ FirstPending(st) # NoStep => st[FirstPending(st)].status # "done"
         /\ FirstPending(st) = NoStep <=> \A s \in StepSet : st[s].status = "done"
  <1>1. CASE Pending(st) = {}
    BY <1>1, StepFacts DEF Pending, FirstPending
  <1>2. CASE Pending(st) # {}
    <2>1. Pending(st) \subseteq Nat
      BY StepFacts DEF Pending
    <2>2. \E i \in Pending(st) : \A j \in Pending(st) : ~(<<j, i>> \in OpToRel(<, Nat))
      BY <1>2, <2>1, NatLessThanWellFounded, WFMin, Zenon
    <2>3. PICK i \in Pending(st) : \A j \in Pending(st) : ~(j < i)
      BY <2>1, <2>2, Zenon DEF OpToRel
    <2>4. \E k \in Pending(st) : \A j \in Pending(st) : k <= j
      BY <2>1, <2>3
    <2>5. (CHOOSE k \in Pending(st) : \A j \in Pending(st) : k <= j) \in Pending(st)
      BY <2>4
    <2>6. PICK h \in Pending(st) : FirstPending(st) = Steps[h]
      BY <1>2, <2>5 DEF FirstPending
    <2> QED BY <2>6, StepFacts DEF Pending
  <1> QED BY <1>1, <1>2

\* What a command saves is a ledger, and only a reset takes anything back.
LEMMA SavedFacts ==
  ASSUME NEW states, NEW p \in Sweeps(states), NEW ok \in BOOLEAN
  PROVE  /\ Saved(p, ok) \in Records
         /\ p.cmd.do = "reset" => Saved(p, ok) = Fresh
         /\ p.cmd.do # "reset" =>
              \A s \in StepSet : p.loaded[s].status = "done" => Saved(p, ok)[s].status = "done"
         /\ p.cmd.do = "skip" /\ p.cmd.step \in StepSet => Saved(p, ok)[p.cmd.step].status = "done"
  <1>1. p.loaded \in Records /\ p.cmd \in Cmds
    BY DEF Sweeps
  <1>2. Fresh \in Records
    BY DEF Fresh, Records
  <1>3. ASSUME NEW t
        PROVE  /\ Skipped(p.loaded, t) \in Records
               /\ \A s \in StepSet : p.loaded[s].status = "done" => Skipped(p.loaded, t)[s].status = "done"
               /\ t \in StepSet => Skipped(p.loaded, t)[t].status = "done"
    BY <1>1 DEF Skipped, Records
  <1>4. ASSUME NEW t \in StepSet, p.loaded[t].status # "done"
        PROVE  /\ Attempted(p.loaded, t, ok) \in Records
               /\ \A s \in StepSet : p.loaded[s].status = "done" => Attempted(p.loaded, t, ok)[s].status = "done"
    BY <1>1, <1>4 DEF Attempted, Records
  <1> QED BY <1>1, <1>2, <1>3, <1>4, FirstPendingFacts DEF Saved

\* A process that does not touch the ledger would save what it read.
LEMMA UntouchedFacts ==
  ASSUME NEW states, NEW p \in Sweeps(states), NEW ok \in BOOLEAN, ~Touches(p), p.cmd.do # "quick"
  PROVE  Saved(p, ok) = p.loaded
  BY DEF Touches, Saved

-----------------------------------------------------------------------------
(* Readers                                                                 *)

ReaderType == [on : BOOLEAN, q : Seq(Stamps), overflow : BOOLEAN, seen : Stamps]

\* A reader that is fed and still in step has the stamp at the end of its queue.
LEMMA FedFacts ==
  ASSUME NEW n \in Nat, boot \in Nat, reader \in ReaderType, Len(reader.q) <= QueueMax
  PROVE  /\ Fed(n) \in ReaderType /\ Len(Fed(n).q) <= QueueMax /\ Fed(n).on = reader.on
         /\ Fed(n).on /\ ~Fed(n).overflow =>
              Fed(n).q # <<>> /\ Fed(n).q[Len(Fed(n).q)] = Stamp(n)
  <1>0. /\ reader.q \in Seq(Stamps) /\ Len(reader.q) \in Nat /\ QueueMax \in Nat
        /\ Stamp(n) \in Stamps
    BY SweepAssumption, LenProperties DEF ReaderType, Stamp, Stamps
  <1>1. CASE ~reader.on \/ reader.overflow
    BY <1>1 DEF Fed
  <1>2. CASE reader.on /\ ~reader.overflow /\ Len(reader.q) >= QueueMax
    <2>1. Fed(n) = [reader EXCEPT !.overflow = TRUE]
      BY <1>2 DEF Fed
    <2> QED BY <1>0, <2>1 DEF ReaderType
  <1>3. CASE /\ reader.on /\ ~reader.overflow /\ ~(Len(reader.q) >= QueueMax)
             /\ reader.q # <<>> /\ reader.q[Len(reader.q)] = Stamp(n)
    BY <1>3 DEF Fed
  <1>4. CASE /\ reader.on /\ ~reader.overflow /\ ~(Len(reader.q) >= QueueMax)
             /\ ~(reader.q # <<>> /\ reader.q[Len(reader.q)] = Stamp(n))
    <2> DEFINE q == Append(reader.q, Stamp(n))
    <2>1. /\ q \in Seq(Stamps) /\ q # <<>> /\ Len(q) = Len(reader.q) + 1
          /\ q[Len(q)] = Stamp(n)
      BY <1>0, AppendProperties
    <2>2. Fed(n) = [reader EXCEPT !.q = q]
      BY <1>4 DEF Fed
    <2>3. Len(q) <= QueueMax
      BY <1>0, <1>4, <2>1
    <2> HIDE DEF q
    <2>4. /\ Fed(n).q = q /\ Fed(n).on = reader.on /\ Fed(n).overflow = reader.overflow
          /\ Fed(n) \in ReaderType
      BY <2>1, <2>2 DEF ReaderType
    <2> QED BY <1>4, <2>1, <2>3, <2>4
  <1> QED BY <1>1, <1>2, <1>3, <1>4

-----------------------------------------------------------------------------
(* What the runner does next                                               *)

\* A command of a run of this kind.
Fits(c) ==
    /\ c \in Cmds
    /\ \/ kind = "quick" /\ c.do = "quick"
       \/ kind = "full" /\ c.do \in {"next", "skip", "reset"}

\* The loop goes on: at its head, with another command, or to the ingest.
GoesOn ==
    /\ at \in {"top", "wait"} /\ ~cancel
    /\ proc' = Idle /\ Emit /\ UNCHANGED <<kind, cancel, execs, stopped>>
    /\ \/ at' = "top" /\ cmd' = Nothing
       \/ at' = "spawn" /\ Fits(cmd')
       \/ at' = "ingest" /\ cmd' = Nothing

QuickGoesOn == kind = "quick" /\ tries' = tries

HeadTurns ==
    /\ kind = "full" /\ at = "top" /\ tries' = tries
    /\ at' = "spawn" /\ cmd'.do \in {"next", "skip"}

\* A skip or a reset has been saved.
SavedTurns ==
    /\ kind = "full" /\ at = "wait" /\ tries' = tries
    /\ at' = "top" /\ cmd.do \in {"skip", "reset"} /\ proc.state = "saved"

\* There was nothing to do and nothing has been done: the ledger is an old one.
ResetTurns ==
    /\ kind = "full" /\ at = "wait" /\ cmd.do = "next"
    /\ FirstPending(proc.loaded) = NoStep
    /\ tries = NoTries /\ tries' = tries
    /\ at' = "spawn" /\ cmd'.do = "reset"

CompleteTurns ==
    /\ kind = "full" /\ at = "wait" /\ cmd.do = "next" /\ proc.state = "saved"
    /\ FirstPending(Saved(proc, proc.ok)) = NoStep
    /\ tries' = tries
    /\ at' = "ingest"

\* Step s has been tried: it is skipped at the cap, and else done or tried again.
TriedTurns ==
    \E s \in StepSet :
        /\ kind = "full" /\ at = "wait" /\ cmd.do = "next" /\ FirstPending(proc.loaded) = s
        /\ tries' = Counted(s)
        /\ \/ at' = "spawn" /\ cmd' = Cmd("skip", s)
           \/ /\ at' = "top"
              /\ \/ Counted(s)[s] < AttemptCap
                 \/ proc.state = "saved" /\ Saved(proc, proc.ok)[s].status = "done"

Turn ==
    /\ GoesOn
    /\ \/ QuickGoesOn \/ HeadTurns \/ SavedTurns \/ ResetTurns \/ CompleteTurns \/ TriedTurns

LEMMA CmdFacts ==
  /\ Nothing \in Cmds
  /\ \A n \in Nat : Quick(n) \in Cmds /\ Quick(n).do = "quick"
  /\ \A do \in {"none", "next", "skip", "reset", "quick"}, s \in StepSet \cup {NoStep} :
        Cmd(do, s) \in Cmds /\ Cmd(do, s).do = do /\ Cmd(do, s).step = s
  BY DEF Nothing, Cmd, Quick, Cmds

LEMMA HeadMoves ==
  ASSUME TypeInv, PlaceInv, Top
  PROVE  End \/ Turn
  <1>1. CASE cancel
    BY <1>1 DEF Top
  <1>2. CASE ~cancel /\ kind = "quick"
    <2>1. at = "top" /\ Spawn(Quick(1)) /\ Quick(1).do = "quick" /\ Quick(1) \in Cmds
      BY <1>2, CmdFacts DEF Top
    <2> QED BY <1>2, <2>1 DEF Spawn, Turn, GoesOn, QuickGoesOn, Fits
  <1>3. CASE ~cancel /\ kind # "quick"
    <2>1. kind = "full"
      BY <1>3 DEF TypeInv, PlaceInv, Top
    <2>2. PICK c \in Cmds : Spawn(c) /\ c.do \in {"next", "skip"}
      <3>1. CASE CappedSteps # {}
        <4>1. (CHOOSE s \in CappedSteps : TRUE) \in StepSet
          BY <3>1 DEF CappedSteps
        <4> QED BY <1>3, <3>1, <4>1, CmdFacts DEF Top
      <3>2. CASE CappedSteps = {}
        BY <1>3, <3>2, CmdFacts DEF Top
      <3> QED BY <3>1, <3>2
    <2> QED BY <1>3, <2>1, <2>2 DEF Top, Spawn, Turn, GoesOn, HeadTurns, Fits
  <1> QED BY <1>1, <1>2, <1>3

\* A step that failed is still the first that is pending.
LEMMA FailedStays ==
  ASSUME NEW states, NEW p \in Sweeps(states), NEW s \in StepSet, p.cmd.do = "next",
         FirstPending(p.loaded) = s, FirstPending(Saved(p, p.ok)) # s
  PROVE  Saved(p, p.ok)[s].status = "done"
  <1>1. p.loaded \in Records /\ p.ok \in BOOLEAN /\ s # NoStep
    BY StepFacts DEF Sweeps
  <1>2. Saved(p, p.ok) = Attempted(p.loaded, s, p.ok)
    BY <1>1 DEF Saved
  <1>3. CASE p.ok
    BY <1>1, <1>2, <1>3 DEF Attempted, Records
  <1>4. CASE ~p.ok
    <2>1. \A t \in StepSet : Saved(p, p.ok)[t].status # "done" <=> p.loaded[t].status # "done"
      BY <1>1, <1>2, <1>4, FirstPendingFacts DEF Attempted, Records
    <2>2. Pending(Saved(p, p.ok)) = Pending(p.loaded)
      BY <2>1, StepFacts DEF Pending
    <2> QED BY <2>2 DEF FirstPending
  <1> QED BY <1>3, <1>4

LEMMA NextReturnMoves ==
  ASSUME TypeInv, PlaceInv, at = "wait", kind = "full", cmd.do = "next", ~cancel,
         NEW rc, NEW printed \in BOOLEAN, NextReturns(rc, printed),
         rc # "none" => proc.state = "saved" \/ ~printed
  PROVE  End \/ Turn
  <1> DEFINE step == IF printed THEN FirstPending(proc.loaded) ELSE NoStep
             after == FirstPending(Saved(proc, proc.ok))
             told == printed /\ proc.state = "saved"
             alldone == told /\ after = NoStep
             ranAny == \E s \in StepSet : tries[s] > 0
  <1>1. /\ proc \in Sweeps({"run", "saved", "killed"}) /\ proc.cmd = cmd
        /\ step \in StepSet \cup {NoStep}
    BY FirstPendingFacts DEF TypeInv, PlaceInv, Idle
  <1>2. IF told /\ step = Tests /\ ~proc.ok THEN End
        ELSE IF alldone
        THEN IF step = NoStep /\ ~ranAny /\ ~reset THEN Spawn(Cmd("reset", NoStep)) /\ UNCHANGED tries
             ELSE IngestUnlessCancelled
        ELSE IF step = NoStep THEN End
        ELSE IF (rc = "none" \/ after = step) /\ Counted(step)[step] >= AttemptCap
        THEN /\ at' = "spawn" /\ cmd' = Cmd("skip", step) /\ proc' = Idle /\ tries' = Counted(step)
             /\ Emit
             /\ UNCHANGED <<kind, cancel, reset, execs, stopped>>
        ELSE Again /\ tries' = Counted(step)
    BY DEF NextReturns, Spawn
  <1> HIDE DEF alldone
  <1>3. CASE alldone /\ step = NoStep /\ ~ranAny /\ ~reset /\ ~End
    <2>1. FirstPending(proc.loaded) = NoStep /\ tries = NoTries
      BY <1>3 DEF alldone, TypeInv, NoTries
    <2>2. Spawn(Cmd("reset", NoStep))
      BY <1>2, <1>3
    <2> HIDE DEF step, after, told, ranAny
    <2> QED BY <2>1, <2>2, CmdFacts DEF Spawn, Turn, GoesOn, ResetTurns, Fits
  <1>4. CASE alldone /\ ~(step = NoStep /\ ~ranAny /\ ~reset) /\ ~End
    <2>1. StartIngest
      BY <1>2, <1>4 DEF IngestUnlessCancelled
    <2>2. proc.state = "saved" /\ FirstPending(Saved(proc, proc.ok)) = NoStep
      BY <1>4 DEF alldone
    <2> HIDE DEF step, after, told, ranAny
    <2> QED BY <2>1, <2>2 DEF StartIngest, Turn, GoesOn, CompleteTurns
  <1>5. CASE ~alldone /\ ~End
    <2>1. step \in StepSet /\ step # NoStep /\ printed /\ FirstPending(proc.loaded) = step
      BY <1>1, <1>2, <1>5
    <2>2. CASE (rc = "none" \/ after = step) /\ Counted(step)[step] >= AttemptCap
      <3>1. /\ at' = "spawn" /\ cmd' = Cmd("skip", step) /\ proc' = Idle /\ tries' = Counted(step)
            /\ Emit
            /\ UNCHANGED <<kind, cancel, reset, execs, stopped>>
        BY <1>2, <1>5, <2>1, <2>2
      <3>2. Fits(cmd')
        BY <2>1, <3>1, CmdFacts DEF Fits
      <3> HIDE DEF step, after, told, ranAny
      <3> QED BY <2>1, <3>1, <3>2 DEF Turn, GoesOn, TriedTurns
    <2>3. CASE ~((rc = "none" \/ after = step) /\ Counted(step)[step] >= AttemptCap)
      <3>1. Again /\ tries' = Counted(step)
        BY <1>2, <1>5, <2>1, <2>3
      <3>2. Counted(step)[step] < AttemptCap \/ (rc # "none" /\ after # step)
        <4>1. Counted(step)[step] \in Nat /\ AttemptCap \in Nat
          BY <2>1, SweepAssumption DEF TypeInv, Counted, Records
        <4> HIDE DEF step, after
        <4> QED BY <2>3, <4>1
      <3>3. rc # "none" /\ after # step =>
              proc.state = "saved" /\ Saved(proc, proc.ok)[step].status = "done"
        BY <1>1, <2>1, FailedStays
      <3> HIDE DEF step, after, told, ranAny
      <3> QED BY <2>1, <3>1, <3>2, <3>3 DEF Again, Turn, GoesOn, TriedTurns
    <2> QED BY <2>2, <2>3
  <1> QED BY <1>3, <1>4, <1>5

LEMMA ReturnMoves ==
  ASSUME TypeInv, PlaceInv, NEW rc, NEW printed \in BOOLEAN, Returns(rc, printed),
         rc # "none" => proc.state = "saved" \/ (rc # "zero" /\ ~printed)
  PROVE  End \/ Turn
  <1>1. at = "wait" /\ cmd \in Cmds
    BY DEF Returns, TypeInv
  <1>2. CASE cancel
    BY <1>2 DEF Returns
  <1>3. CASE ~cancel /\ cmd.do = "quick"
    <2>1. kind = "quick" /\ QuickReturns(rc)
      BY <1>1, <1>3 DEF Returns, PlaceInv
    <2>2. cmd.n + 1 \in Nat
      BY <1>1 DEF Cmds
    <2>3. CASE Spawn(Quick(cmd.n + 1))
      BY <1>1, <1>3, <2>1, <2>2, <2>3, CmdFacts DEF Spawn, Turn, GoesOn, QuickGoesOn, Fits
    <2>4. CASE StartIngest
      BY <1>1, <1>3, <2>1, <2>4 DEF StartIngest, Turn, GoesOn, QuickGoesOn
    <2> QED BY <1>3, <2>1, <2>3, <2>4 DEF QuickReturns, IngestUnlessCancelled
  <1>4. CASE ~cancel /\ cmd.do = "skip"
    <2>1. kind = "full" /\ SkipReturns(rc)
      BY <1>1, <1>4 DEF Returns, PlaceInv
    <2>2. CASE rc = "zero"
      BY <1>1, <1>4, <2>1, <2>2 DEF SkipReturns, Again, Turn, GoesOn, SavedTurns
    <2> QED BY <2>1, <2>2 DEF SkipReturns
  <1>5. CASE ~cancel /\ cmd.do = "reset"
    <2>1. kind = "full" /\ ResetReturns(rc)
      BY <1>1, <1>5 DEF Returns, PlaceInv
    <2>2. CASE rc = "zero"
      BY <1>1, <1>5, <2>1, <2>2 DEF ResetReturns, Turn, GoesOn, SavedTurns
    <2> QED BY <2>1, <2>2 DEF ResetReturns
  <1>6. CASE ~cancel /\ cmd.do \notin {"quick", "skip", "reset"}
    <2>1. kind = "full" /\ cmd.do = "next" /\ NextReturns(rc, printed)
      BY <1>1, <1>6 DEF Returns, PlaceInv
    <2> QED BY <1>1, <1>6, <2>1, NextReturnMoves
  <1> QED BY <1>2, <1>3, <1>4, <1>5, <1>6

\* Every step ends the run, goes on with it, or is one of the others.
RunEndsHere == End /\ at \notin {"idle", "down"} /\ UNCHANGED <<ledger, outside, mixed, starts, boot>>

RunGoesOn == Turn /\ UNCHANGED <<ledger, outside, mixed, starts, boot, finished>>

OtherSteps ==
    \/ Spawned
    \/ \E ok \in BOOLEAN : ProcSave(ok) \/ OutsideSave(ok)
    \/ \E k \in {"quick", "full"} : Start(k)
    \/ Cancel \/ Shutdown \/ Crash \/ Boot \/ ProcLog \/ OutsideStart \/ WindowPasses
    \/ Attach \/ Read \/ Bye \/ UNCHANGED vars

LEMMA StepKinds ==
  ASSUME TypeInv, PlaceInv, [Next]_vars
  PROVE  RunEndsHere \/ RunGoesOn \/ OtherSteps
  <1>1. ASSUME Top PROVE RunEndsHere \/ RunGoesOn
    <2>1. at = "top" /\ UNCHANGED <<ledger, outside, mixed, starts, boot>>
      BY <1>1 DEF Top, fileVars
    <2> QED BY <1>1, <2>1, HeadMoves DEF RunEndsHere, RunGoesOn, Turn, GoesOn, Emit
  <1>2. ASSUME WallClock \/ SpawnFails \/ IngestReturns PROVE RunEndsHere
    BY <1>2 DEF WallClock, SpawnFails, IngestReturns, RunEndsHere, fileVars
  <1>3. ASSUME NEW rc, NEW printed \in BOOLEAN, Returns(rc, printed),
               rc # "none" => proc.state = "saved" \/ (rc # "zero" /\ ~printed)
        PROVE  RunEndsHere \/ RunGoesOn
    <2>1. at = "wait" /\ UNCHANGED <<ledger, outside, mixed, starts, boot>>
      BY <1>3 DEF Returns
    <2> QED BY <1>3, <2>1, ReturnMoves DEF RunEndsHere, RunGoesOn, Turn, GoesOn, Emit
  <1>4. ASSUME Exit \/ Killed \/ \E printed \in BOOLEAN : Timeout(printed)
        PROVE  RunEndsHere \/ RunGoesOn
    <2>1. CASE Exit
      BY <1>3, <2>1 DEF Exit
    <2>2. CASE Killed
      BY <1>3, <2>2 DEF Killed
    <2>3. ASSUME NEW printed \in BOOLEAN, Timeout(printed) PROVE RunEndsHere \/ RunGoesOn
      BY <1>3, <2>3 DEF Timeout
    <2> QED BY <1>4, <2>1, <2>2, <2>3
  <1> QED BY <1>1, <1>2, <1>4 DEF Next, RunnerStep, OtherSteps

-----------------------------------------------------------------------------
(* Types and places                                                        *)

LEMMA RestingFacts ==
  /\ NoTries \in [StepSet -> Nat] /\ Fresh \in Records
  /\ Idle.state = "none" /\ Nothing \in Cmds /\ Nothing.do = "none"
  BY DEF NoTries, Fresh, Records, Idle, Nothing, Cmd, Cmds

LEMMA AwayFacts ==
  Away \in ReaderType /\ ~Away.on /\ Len(Away.q) <= QueueMax
  <1>1. <<>> \in Seq(Stamps) /\ Len(<<>>) = 0
    BY EmptySeq
  <1> QED BY <1>1, SweepAssumption DEF Away, ReaderType, Stamps

\* A process that is saved or killed runs the same command.
LEMMA ProcFacts ==
  ASSUME TypeInv
  PROVE  /\ proc.state # "none" => proc \in Sweeps({"run", "saved", "killed"})
         /\ Kill(proc) \in {Idle} \cup Sweeps({"run", "saved", "killed"})
         /\ Kill(proc).state = "none" <=> proc.state = "none"
         /\ proc.state # "none" => Kill(proc).cmd = proc.cmd
         /\ Kill(proc).state \in {"none", "killed"}
         /\ outside.state # "none" => outside \in Sweeps({"run"})
  BY SMTT(60) DEF TypeInv, Kill, Sweeps, Idle

\* Readers and counts.
ReaderTypes ==
    /\ finished \in Nat /\ starts \in Nat /\ boot \in Nat
    /\ reader \in ReaderType /\ Len(reader.q) <= QueueMax

LEMMA ReaderTypeStep ==
  ASSUME TypeInv, PlaceInv, [Next]_vars
  PROVE  ReaderTypes'
  <1>0. ReaderTypes
    BY DEF TypeInv, ReaderTypes, ReaderType
  <1>1. CASE RunEndsHere
    <2>1. finished + 1 \in Nat
      BY <1>0 DEF ReaderTypes
    <2> QED BY <1>0, <1>1, <2>1, FedFacts DEF RunEndsHere, End, ReaderTypes
  <1>2. CASE RunGoesOn
    BY <1>0, <1>2, FedFacts DEF RunGoesOn, Turn, GoesOn, Emit, ReaderTypes
  <1>3. CASE OtherSteps
    <2>1. CASE Cancel \/ ProcLog
      BY <1>0, <2>1, FedFacts DEF Cancel, ProcLog, Emit, ReaderTypes
    <2>2. CASE Shutdown \/ Crash
      BY <1>0, <2>2, AwayFacts DEF Shutdown, Crash, ReaderTypes
    <2>3. CASE Boot
      BY <1>0, <2>3 DEF Boot, ReaderTypes
    <2>4. CASE Attach
      <3>1. <<>> \in Seq(Stamps) /\ Len(<<>>) = 0
        BY EmptySeq
      <3> QED BY <1>0, <2>4, <3>1, SweepAssumption
              DEF Attach, ReaderTypes, ReaderType, Stamps, Stamp
    <2>5. CASE Read
      <3>1. reader.q \in Seq(Stamps) /\ reader.q # <<>> /\ Len(reader.q) \in Nat /\ QueueMax \in Nat
        BY <1>0, <2>5, LenProperties, SweepAssumption DEF Read, ReaderTypes, ReaderType
      <3>2. /\ Head(reader.q) \in Stamps /\ Tail(reader.q) \in Seq(Stamps)
            /\ Len(Tail(reader.q)) = Len(reader.q) - 1
        BY <3>1, HeadTailProperties
      <3>3. Len(Tail(reader.q)) <= QueueMax
        BY <1>0, <3>1, <3>2 DEF ReaderTypes
      <3>4. reader' = [reader EXCEPT !.seen = Head(reader.q), !.q = Tail(reader.q)]
        BY <2>5 DEF Read
      <3> QED BY <1>0, <2>5, <3>2, <3>3, <3>4 DEF Read, ReaderTypes, ReaderType
    <2>6. CASE Bye
      BY <1>0, <2>6, AwayFacts DEF Bye, ReaderTypes
    <2>7. CASE \E k \in {"quick", "full"} : Start(k)
      BY <1>0, <2>7 DEF Start, ReaderTypes
    <2>8. CASE \/ Spawned \/ \E ok \in BOOLEAN : ProcSave(ok) \/ OutsideSave(ok)
               \/ OutsideStart \/ WindowPasses \/ UNCHANGED vars
      BY <1>0, <2>8 DEF Spawned, ProcSave, OutsideSave, OutsideStart, WindowPasses, vars, ReaderTypes
    <2> QED BY <1>3, <2>1, <2>2, <2>3, <2>4, <2>5, <2>6, <2>7, <2>8 DEF OtherSteps
  <1> QED BY <1>1, <1>2, <1>3, StepKinds

\* The task.
TaskTypes ==
    /\ at \in Places /\ kind \in {"none", "quick", "full"} /\ cmd \in Cmds
    /\ cancel \in BOOLEAN /\ stopped \in BOOLEAN
    /\ tries \in [StepSet -> Nat] /\ execs \in [StepSet -> Nat]
    /\ proc \in {Idle} \cup Sweeps({"run", "saved", "killed"})

LEMMA CountedType ==
  ASSUME TypeInv, NEW s \in StepSet
  PROVE  /\ Counted(s) \in [StepSet -> Nat]
         /\ Counted(s)[s] >= tries[s] + 1
         /\ \A t \in StepSet \ {s} : Counted(s)[t] = tries[t]
  BY DEF TypeInv, Counted, Records

LEMMA TaskTypeStep ==
  ASSUME TypeInv, PlaceInv, [Next]_vars
  PROVE  TaskTypes'
  <1>0. TaskTypes /\ ledger \in Records /\ mixed \in BOOLEAN
    BY DEF TypeInv, TaskTypes
  <1>1. CASE RunEndsHere
    BY <1>1, RestingFacts DEF RunEndsHere, End, NoRun, TaskTypes, Places
  <1>2. CASE RunGoesOn
    <2>1. tries' \in [StepSet -> Nat]
      BY <1>0, <1>2, CountedType DEF RunGoesOn, Turn, QuickGoesOn, HeadTurns, SavedTurns, ResetTurns,
             CompleteTurns, TriedTurns, TaskTypes
    <2> QED BY <1>0, <1>2, <2>1, RestingFacts DEF RunGoesOn, Turn, GoesOn, Fits, TaskTypes, Places
  <1>3. CASE OtherSteps
    <2>1. CASE Cancel
      BY <1>0, <2>1, ProcFacts DEF Cancel, Running, TaskTypes
    <2>2. CASE Shutdown \/ Crash \/ Boot
      BY <2>2, RestingFacts DEF Shutdown, Crash, Boot, NoRun, TaskTypes, Places
    <2>3. CASE Spawned
      <3>1. /\ proc' = [state |-> "run", cmd |-> cmd, loaded |-> ledger, ok |-> FALSE]
            /\ proc' \in Sweeps({"run", "saved", "killed"})
        BY <1>0, <2>3 DEF Spawned, TaskTypes, Sweeps
      <3>2. execs' \in [StepSet -> Nat]
        <4>1. FirstPending(ledger) # NoStep => FirstPending(ledger) \in StepSet
          BY FirstPendingFacts
        <4> QED BY <1>0, <2>3, <4>1 DEF Spawned, TaskTypes
      <3> QED BY <1>0, <2>3, <3>1, <3>2 DEF Spawned, TaskTypes, Places
    <2>4. ASSUME NEW ok \in BOOLEAN, ProcSave(ok) PROVE TaskTypes'
      <3>1. proc \in Sweeps({"run", "saved", "killed"})
        BY <2>4, ProcFacts DEF ProcSave
      <3>2. proc' \in Sweeps({"run", "saved", "killed"})
        BY <2>4, <3>1 DEF ProcSave, Sweeps
      <3> QED BY <1>0, <2>4, <3>2 DEF ProcSave, TaskTypes
    <2>5. CASE \E k \in {"quick", "full"} : Start(k)
      BY <1>0, <2>5, RestingFacts DEF Start, TaskTypes, Places
    <2>6. CASE \/ \E ok \in BOOLEAN : OutsideSave(ok)
               \/ ProcLog \/ OutsideStart \/ WindowPasses
               \/ Attach \/ Read \/ Bye \/ UNCHANGED vars
      <3>1. UNCHANGED runVars
        BY <2>6 DEF OutsideSave, ProcLog, OutsideStart, WindowPasses, Attach, Read, Bye, vars, runVars
      <3> QED BY <1>0, <3>1 DEF runVars, TaskTypes
    <2> QED BY <1>3, <2>1, <2>2, <2>3, <2>4, <2>5, <2>6 DEF OtherSteps
  <1> QED BY <1>1, <1>2, <1>3, StepKinds

LEMMA TypeStep ==
  ASSUME TypeInv, PlaceInv, [Next]_vars
  PROVE  TypeInv'
  <1>1. ledger' \in Records /\ outside' \in {Idle} \cup Sweeps({"run"}) /\ mixed' \in BOOLEAN
    <2>0. ledger \in Records /\ outside \in {Idle} \cup Sweeps({"run"}) /\ mixed \in BOOLEAN
      BY DEF TypeInv
    <2>1. CASE RunEndsHere \/ RunGoesOn
      BY <2>0, <2>1 DEF RunEndsHere, RunGoesOn
    <2>2. ASSUME NEW ok \in BOOLEAN, ProcSave(ok) \/ OutsideSave(ok)
          PROVE  ledger' \in Records /\ outside' \in {Idle} \cup Sweeps({"run"}) /\ mixed' \in BOOLEAN
      BY <2>0, <2>2, ProcFacts, SavedFacts DEF ProcSave, OutsideSave
    <2>3. CASE OutsideStart
      BY <2>0, <2>3, CmdFacts DEF OutsideStart, Sweeps
    <2>4. CASE Crash
      BY <2>0, <2>4, ProcFacts DEF Crash, Sweeps
    <2>5. CASE \/ Spawned \/ \E k \in {"quick", "full"} : Start(k)
               \/ Cancel \/ Shutdown \/ Boot \/ ProcLog \/ WindowPasses
               \/ Attach \/ Read \/ Bye \/ UNCHANGED vars
      BY <2>0, <2>5 DEF Spawned, Start, Cancel, Shutdown, Boot, ProcLog, WindowPasses, Attach, Read, Bye,
             vars, fileVars
    <2> QED BY <2>1, <2>2, <2>3, <2>4, <2>5, StepKinds DEF OtherSteps
  <1> QED BY <1>1, ReaderTypeStep, TaskTypeStep DEF TypeInv, ReaderTypes, TaskTypes, ReaderType

LEMMA PlaceStep ==
  ASSUME TypeInv, PlaceInv, [Next]_vars
  PROVE  PlaceInv'
  <1>1. CASE RunEndsHere
    BY <1>1, RestingFacts DEF RunEndsHere, End, NoRun, PlaceInv
  <1>2. CASE RunGoesOn
    <2>1. /\ at \in {"top", "wait"} /\ ~cancel /\ kind # "none"
          /\ proc'.state = "none" /\ UNCHANGED <<kind, cancel, execs, stopped>>
          /\ at' \in {"top", "spawn", "ingest"}
          /\ at' = "spawn" => Fits(cmd')
      BY <1>2, RestingFacts DEF RunGoesOn, Turn, GoesOn, PlaceInv
    <2>2. kind # "full" => tries' = NoTries
      BY <1>2 DEF RunGoesOn, Turn, QuickGoesOn, HeadTurns, SavedTurns, ResetTurns,
             CompleteTurns, TriedTurns, PlaceInv
    <2> QED BY <2>1, <2>2 DEF Fits, PlaceInv
  <1>3. CASE OtherSteps
    <2>1. CASE Cancel
      BY <2>1, ProcFacts DEF Cancel, Running, PlaceInv, TypeInv
    <2>2. CASE Shutdown \/ Crash \/ Boot
      BY <2>2, RestingFacts DEF Shutdown, Crash, Boot, NoRun, PlaceInv
    <2>3. CASE Spawned
      <3>1. kind # "full" => cmd.do = "quick"
        BY <2>3 DEF Spawned, PlaceInv
      <3> QED BY <2>3, <3>1 DEF Spawned, PlaceInv
    <2>4. CASE \E ok \in BOOLEAN : ProcSave(ok)
      BY <2>4, ProcFacts DEF ProcSave, PlaceInv, Sweeps
    <2>5. ASSUME NEW k \in {"quick", "full"}, Start(k) PROVE PlaceInv'
      BY <2>5 DEF Start, PlaceInv
    <2>6. CASE \/ \E ok \in BOOLEAN : OutsideSave(ok)
               \/ ProcLog \/ OutsideStart \/ WindowPasses
               \/ Attach \/ Read \/ Bye \/ UNCHANGED vars
      <3>1. UNCHANGED runVars
        BY <2>6 DEF OutsideSave, ProcLog, OutsideStart, WindowPasses, Attach, Read, Bye, vars, runVars
      <3> QED BY <3>1 DEF runVars, PlaceInv
    <2> QED BY <1>3, <2>1, <2>2, <2>3, <2>4, <2>5, <2>6 DEF OtherSteps
  <1> QED BY <1>1, <1>2, <1>3, StepKinds

-----------------------------------------------------------------------------
(* The ledger                                                              *)

\* Steps that leave the task, the ledger and the other sweep as they are.
Aside == UNCHANGED <<runVars, ledger, outside, mixed>>

LEMMA AsideSteps ==
  ASSUME ProcLog \/ WindowPasses \/ Attach \/ Read \/ Bye \/ UNCHANGED vars
  PROVE  Aside
  BY DEF ProcLog, WindowPasses, Attach, Read, Bye, vars, fileVars, Aside

\* A process that saves or is killed keeps its command and what it has read.
LEMMA SameProc ==
  ASSUME NEW p \in Sweeps({"run", "saved", "killed"}), NEW ok \in BOOLEAN
  PROVE  /\ [p EXCEPT !.state = "saved", !.ok = ok].cmd = p.cmd
         /\ [p EXCEPT !.state = "saved", !.ok = ok].loaded = p.loaded
         /\ [p EXCEPT !.state = "saved", !.ok = ok].state = "saved"
         /\ [p EXCEPT !.state = "saved", !.ok = ok].ok = ok
         /\ Kill(p).loaded = p.loaded /\ Kill(p).cmd = p.cmd
         /\ Saved([p EXCEPT !.state = "saved", !.ok = ok], ok) = Saved(p, ok)
  <1>1. /\ [p EXCEPT !.state = "saved", !.ok = ok].cmd = p.cmd
        /\ [p EXCEPT !.state = "saved", !.ok = ok].loaded = p.loaded
        /\ [p EXCEPT !.state = "saved", !.ok = ok].state = "saved"
        /\ [p EXCEPT !.state = "saved", !.ok = ok].ok = ok
    BY DEF Sweeps
  <1>2. Kill(p).loaded = p.loaded /\ Kill(p).cmd = p.cmd
    BY DEF Sweeps, Kill
  <1> QED BY <1>1, <1>2 DEF Saved

\* What the runner's process does to the ledger.
LEMMA ProcSaveEffect ==
  ASSUME TypeInv, PlaceInv, LedgerInv, NEW ok \in BOOLEAN, ProcSave(ok), ~mixed
  PROVE  /\ cmd.do = "quick" => ledger' = ledger
         /\ cmd.do # "quick" =>
              outside.state = "none" /\ ledger' = Saved(proc, ok)
         /\ cmd.do \notin {"quick", "reset"} =>
              \A s \in StepSet : ledger[s].status = "done" => ledger'[s].status = "done"
         /\ cmd.do = "reset" => ledger' = Fresh
  <1>1. /\ proc \in Sweeps({"run", "saved", "killed"}) /\ proc.cmd = cmd /\ proc.state = "run"
        /\ at = "wait"
    BY ProcFacts DEF ProcSave, PlaceInv
  <1>2. CASE cmd.do = "quick"
    BY <1>1, <1>2 DEF ProcSave, Touches
  <1>3. CASE cmd.do # "quick"
    <2>1. outside.state = "none" /\ proc.loaded = ledger
      BY <1>1, <1>3 DEF LedgerInv
    <2>2. ledger' = Saved(proc, ok)
      BY <1>1, <1>3, <2>1, UntouchedFacts DEF ProcSave
    <2> QED BY <1>1, <1>3, <2>1, <2>2, SavedFacts
  <1> QED BY <1>2, <1>3

\* What another sweep does to it.
LEMMA OutsideSaveEffect ==
  ASSUME TypeInv, PlaceInv, LedgerInv, NEW ok \in BOOLEAN, OutsideSave(ok), ~mixed
  PROVE  /\ outside.cmd.do # "reset" =>
              \A s \in StepSet : ledger[s].status = "done" => ledger'[s].status = "done"
         /\ outside.cmd.do = "reset" => ledger' = ledger \/ ledger' = Fresh
  <1>1. outside \in Sweeps({"run"}) /\ outside.state = "run"
    BY ProcFacts DEF OutsideSave
  <1>2. outside.loaded = ledger
    BY <1>1 DEF LedgerInv
  <1>3. ledger' = ledger \/ ledger' = Saved(outside, ok)
    BY DEF OutsideSave
  <1> QED BY <1>1, <1>2, <1>3, SavedFacts

LEMMA LedgerStep ==
  ASSUME TypeInv, PlaceInv, LedgerInv, [Next]_vars
  PROVE  LedgerInv'
  <1> SUFFICES ASSUME ~mixed' PROVE LedgerInv'
    BY DEF LedgerInv
  <1>1. CASE RunEndsHere
    BY <1>1, RestingFacts
       DEF RunEndsHere, End, NoRun, LedgerInv, Begun, IngestOnlyWhenComplete
  <1>2. CASE RunGoesOn
    <2>1. /\ proc'.state = "none" /\ at \in {"top", "wait"} /\ UNCHANGED <<kind, execs>>
          /\ UNCHANGED <<ledger, outside, mixed>>
      BY <1>2, RestingFacts DEF RunGoesOn, Turn, GoesOn
    <2>2. Begun' => Begun
      BY <1>2, <2>1 DEF RunGoesOn, Turn, QuickGoesOn, HeadTurns, SavedTurns, ResetTurns,
             CompleteTurns, TriedTurns, Begun
    <2>3. IngestOnlyWhenComplete'
      <3> SUFFICES ASSUME at' = "ingest", kind' = "full" PROVE \A s \in StepSet : ledger'[s].status = "done"
        BY DEF IngestOnlyWhenComplete
      <3>1. CompleteTurns
        BY <1>2, <2>1 DEF RunGoesOn, Turn, QuickGoesOn, HeadTurns, SavedTurns, ResetTurns, TriedTurns
      <3>2. \A s \in StepSet : Saved(proc, proc.ok)[s].status = "done"
        BY <3>1, FirstPendingFacts DEF CompleteTurns
      <3> QED BY <2>1, <3>1, <3>2 DEF CompleteTurns, LedgerInv
    <2> QED BY <2>1, <2>2, <2>3 DEF LedgerInv
  <1>3. CASE OtherSteps
    <2>1. CASE Cancel
      <3>1. proc'.state \notin {"run", "saved"} /\ UNCHANGED <<at, kind, tries, execs, ledger, outside, mixed>>
        BY <2>1, ProcFacts DEF Cancel, fileVars
      <3> QED BY <3>1 DEF LedgerInv, Begun, IngestOnlyWhenComplete
    <2>2. CASE Shutdown \/ Boot
      BY <2>2, RestingFacts
         DEF Shutdown, Boot, NoRun, fileVars, LedgerInv, Begun, IngestOnlyWhenComplete
    <2>3. CASE Crash
      <3>1. /\ proc'.state = "none" /\ kind' = "none" /\ at' = "down" /\ UNCHANGED <<ledger, mixed>>
            /\ outside' = outside \/ (outside' = proc /\ proc.state = "run" /\ proc.cmd.do # "quick")
        BY <2>3, RestingFacts DEF Crash, NoRun
      <3> QED BY <3>1 DEF LedgerInv, Begun, IngestOnlyWhenComplete
    <2>4. CASE Spawned
      <3>1. /\ at' = "wait" /\ kind' = kind /\ UNCHANGED <<ledger, outside>>
            /\ proc'.state = "run" /\ proc'.cmd = cmd /\ proc'.loaded = ledger
            /\ ~mixed /\ (outside.state = "run" => cmd.do = "quick")
            /\ kind = "full" => cmd.do # "quick"
        BY <2>4 DEF Spawned, PlaceInv
      <3>2. outside.state \in {"none", "run"}
        BY DEF TypeInv, Idle, Sweeps
      <3> QED BY <3>1, <3>2 DEF LedgerInv, Begun, IngestOnlyWhenComplete
    <2>5. ASSUME NEW ok \in BOOLEAN, ProcSave(ok) PROVE LedgerInv'
      <3>1. /\ ~mixed /\ proc \in Sweeps({"run", "saved", "killed"}) /\ proc.cmd = cmd
            /\ at = "wait" /\ UNCHANGED <<at, kind, tries, execs, outside>>
            /\ proc' = [proc EXCEPT !.state = "saved", !.ok = ok]
        BY <2>5, ProcFacts DEF ProcSave, PlaceInv
      <3>2. proc'.state = "saved" /\ proc'.ok = ok /\ Saved(proc', ok) = Saved(proc, ok)
        <4> DEFINE saved == [proc EXCEPT !.state = "saved", !.ok = ok]
        <4>1. saved.state = "saved" /\ saved.ok = ok /\ Saved(saved, ok) = Saved(proc, ok)
          BY <3>1, SameProc, Zenon
        <4> QED BY <3>1, <4>1
      <3>3. kind = "full" => cmd.do # "quick"
        BY <3>1 DEF PlaceInv
      <3> QED BY <2>5, <3>1, <3>2, <3>3, ProcSaveEffect DEF LedgerInv, Begun, IngestOnlyWhenComplete
    <2>6. ASSUME NEW ok \in BOOLEAN, OutsideSave(ok) PROVE LedgerInv'
      <3>1. ~mixed /\ outside.state = "run" /\ outside'.state = "none" /\ UNCHANGED runVars
        BY <2>6, RestingFacts DEF OutsideSave
      <3>2. Begun => \A s \in StepSet : ledger[s].status = "done" => ledger'[s].status = "done"
        BY <2>6, <3>1, OutsideSaveEffect DEF LedgerInv
      <3>3. (proc.state = "saved" \/ at = "ingest") /\ kind = "full" => Begun
        BY DEF PlaceInv, Begun
      <3>4. proc'.state = "run" /\ proc'.cmd.do # "quick" => FALSE
        BY <3>1 DEF LedgerInv, runVars
      <3> QED BY <3>1, <3>2, <3>3, <3>4 DEF LedgerInv, runVars, IngestOnlyWhenComplete
    <2>7. CASE OutsideStart
      BY <2>7 DEF OutsideStart, runVars, Cmd, LedgerInv, Begun, IngestOnlyWhenComplete
    <2>8. ASSUME NEW k \in {"quick", "full"}, Start(k) PROVE LedgerInv'
      BY <2>8 DEF Start, fileVars, PlaceInv, LedgerInv, Begun, IngestOnlyWhenComplete
    <2>9. CASE Aside
      BY <2>9 DEF Aside, runVars, LedgerInv, Begun, IngestOnlyWhenComplete
    <2> QED BY <1>3, <2>1, <2>2, <2>3, <2>4, <2>5, <2>6, <2>7, <2>8, <2>9, AsideSteps DEF OtherSteps
  <1> QED BY <1>1, <1>2, <1>3, StepKinds

-----------------------------------------------------------------------------
(* What has been tried                                                     *)

\* A run that has tried nothing keeps every bound.
LEMMA NothingTried ==
  ASSUME tries' = NoTries, execs' = NoTries
  PROVE  TriesInv'
  <1>1. \A s \in StepSet : tries'[s] = 0 /\ execs'[s] = 0
    BY DEF NoTries
  <1>2. AttemptCap \in Nat /\ AttemptCap > 0
    BY SweepAssumption
  <1>3. \A s \in StepSet : execs'[s] <= tries'[s] + 1 /\ execs'[s] <= tries'[s] /\ execs'[s] <= AttemptCap
    BY <1>1, <1>2
  <1>4. \A s \in StepSet : tries'[s] < AttemptCap /\ ~(tries'[s] >= AttemptCap)
    BY <1>1, <1>2
  <1> QED BY <1>3, <1>4 DEF TriesInv, AttemptsBounded

\* The runner goes on, and no process is under way.
LEMMA TurnTries ==
  ASSUME TypeInv, PlaceInv, LedgerInv, TriesInv, RunGoesOn, kind = "full"
  PROVE  TriesInv'
  <1>1. /\ at' \in {"top", "spawn", "ingest"} /\ at' # "wait" /\ execs' = execs
        /\ UNCHANGED <<ledger, mixed>>
        /\ \A s \in StepSet : ~UnderWay(s)'
    BY DEF RunGoesOn, Turn, GoesOn, UnderWay
  <1>2. /\ tries \in [StepSet -> Nat] /\ execs \in [StepSet -> Nat] /\ AttemptCap \in Nat
    BY SweepAssumption DEF TypeInv
  <1>3. AttemptsBounded'
    BY <1>1 DEF TriesInv, AttemptsBounded
  <1> SUFFICES /\ at' # "ingest" => \A s \in StepSet : execs'[s] <= tries'[s]
               /\ at' = "spawn" /\ cmd'.do = "reset" => tries' = NoTries
               /\ ~mixed /\ at' # "ingest" => \A s \in StepSet : tries'[s] >= AttemptCap =>
                     ledger[s].status = "done" \/ Skipping(s)'
    BY <1>1, <1>3 DEF TriesInv
  <1>4. CASE HeadTurns
    <2>1. at = "top" /\ \A s \in StepSet : ~UnderWay(s) /\ ~Skipping(s)
      BY <1>4 DEF HeadTurns, UnderWay, Skipping
    <2> QED BY <1>1, <1>4, <2>1 DEF HeadTurns, TriesInv
  <1>5. CASE SavedTurns
    <2>1. at = "wait" /\ at' = "top" /\ tries' = tries /\ \A s \in StepSet : ~UnderWay(s)
      BY <1>5 DEF SavedTurns, UnderWay
    <2>2. /\ proc \in Sweeps({"run", "saved", "killed"}) /\ proc.cmd = cmd /\ proc.state = "saved"
          /\ proc.ok \in BOOLEAN
      BY <1>5, ProcFacts DEF SavedTurns, PlaceInv, Sweeps
    <2>3. ASSUME NEW s \in StepSet, Skipping(s), ~mixed PROVE ledger[s].status = "done"
      <3>1. Saved(proc, proc.ok)[s].status = "done"
        BY <2>2, <2>3, SavedFacts DEF Skipping
      <3> QED BY <2>2, <2>3, <3>1, kind = "full" DEF LedgerInv
    <2> QED BY <1>1, <2>1, <2>3 DEF TriesInv
  <1>6. CASE ResetTurns
    <2>1. at = "wait" /\ tries' = tries /\ tries = NoTries /\ \A s \in StepSet : ~UnderWay(s)
      BY <1>6, StepFacts DEF ResetTurns, UnderWay
    <2>2. \A s \in StepSet : ~(tries'[s] >= AttemptCap)
      BY <2>1, SweepAssumption DEF NoTries
    <2>3. \A s \in StepSet : execs'[s] <= tries'[s]
      BY <1>1, <2>1 DEF TriesInv
    <2> QED BY <2>1, <2>2, <2>3
  <1>7. CASE CompleteTurns
    BY <1>7 DEF CompleteTurns
  <1>8. CASE TriedTurns
    <2>1. PICK s \in StepSet :
            /\ at = "wait" /\ cmd.do = "next" /\ FirstPending(proc.loaded) = s
            /\ tries' = Counted(s)
            /\ \/ at' = "spawn" /\ cmd' = Cmd("skip", s)
               \/ /\ at' = "top"
                  /\ \/ Counted(s)[s] < AttemptCap
                     \/ proc.state = "saved" /\ Saved(proc, proc.ok)[s].status = "done"
      BY <1>8 DEF TriedTurns
    <2>2. /\ tries' \in [StepSet -> Nat] /\ tries'[s] >= tries[s] + 1
          /\ \A t \in StepSet \ {s} : tries'[t] = tries[t]
      BY <2>1, CountedType
    <2>3. UnderWay(s) /\ \A t \in StepSet \ {s} : ~UnderWay(t)
      BY <2>1 DEF UnderWay
    <2>4. \A t \in StepSet : ~Skipping(t)
      BY <2>1 DEF Skipping
    <2>5. \A t \in StepSet : execs'[t] <= tries'[t]
      <3>1. execs[s] <= tries[s] + 1 /\ \A t \in StepSet \ {s} : execs[t] <= tries[t]
        BY <2>1, <2>3 DEF TriesInv
      <3>2. execs'[s] <= tries'[s]
        BY <1>1, <1>2, <2>2, <3>1
      <3> QED BY <1>1, <2>2, <3>1, <3>2
    <2>6. cmd'.do # "reset" \/ at' # "spawn"
      BY <2>1 DEF Cmd
    <2>7. ASSUME ~mixed, NEW t \in StepSet, tries'[t] >= AttemptCap
          PROVE  ledger[t].status = "done" \/ Skipping(t)'
      <3>1. CASE t # s
        BY <2>1, <2>2, <2>4, <2>7, <3>1 DEF TriesInv
      <3>2. CASE t = s /\ at' = "spawn"
        BY <2>1, <3>2 DEF Skipping, Cmd
      <3>3. CASE t = s /\ at' = "top"
        <4>1. ~(Counted(s)[s] < AttemptCap)
          BY <1>2, <2>1, <2>2, <2>7, <3>3
        <4>2. proc.state = "saved" /\ Saved(proc, proc.ok)[s].status = "done"
          BY <2>1, <3>3, <4>1
        <4> QED BY <2>7, <3>3, <4>2, kind = "full" DEF LedgerInv
      <3> QED BY <2>1, <3>1, <3>2, <3>3
    <2> QED BY <2>5, <2>6, <2>7
  <1> QED BY <1>4, <1>5, <1>6, <1>7, <1>8, kind = "full" DEF RunGoesOn, Turn, QuickGoesOn

LEMMA SpawnedTries ==
  ASSUME TypeInv, PlaceInv, TriesInv, Spawned
  PROVE  TriesInv'
  <1> DEFINE f == FirstPending(ledger)
  <1>1. /\ at = "spawn" /\ at' = "wait" /\ UNCHANGED <<cmd, tries, ledger>> /\ proc'.loaded = ledger
        /\ mixed => mixed'
        /\ \A s \in StepSet : Skipping(s)' <=> Skipping(s)
    BY DEF Spawned, Skipping
  <1>2. /\ tries \in [StepSet -> Nat] /\ execs \in [StepSet -> Nat] /\ AttemptCap \in Nat
    BY SweepAssumption DEF TypeInv
  <1>3. \A s \in StepSet : ~UnderWay(s) /\ execs[s] <= tries[s]
    BY <1>1 DEF UnderWay, TriesInv
  <1>4. \A s \in StepSet : UnderWay(s)' <=> cmd.do = "next" /\ f = s
    BY <1>1 DEF UnderWay
  <1>5. ASSUME NEW s \in StepSet
        PROVE  /\ UnderWay(s)' => execs'[s] = execs[s] + 1
               /\ ~UnderWay(s)' => execs'[s] = execs[s]
    <2>1. f \in StepSet \cup {NoStep} /\ NoStep \notin StepSet
      BY FirstPendingFacts, StepFacts
    <2>2. execs' = IF cmd.do = "next" /\ f # NoStep THEN [execs EXCEPT ![f] = @ + 1] ELSE execs
      BY DEF Spawned
    <2> HIDE DEF f
    <2> QED BY <1>2, <1>4, <2>1, <2>2
  <1>6. ASSUME NEW s \in StepSet, ~mixed', UnderWay(s)' PROVE tries[s] < AttemptCap
    <2>1. cmd.do = "next" /\ ledger[s].status # "done" /\ ~mixed /\ ~Skipping(s)
      BY <1>1, <1>4, <1>6, FirstPendingFacts, StepFacts DEF Skipping
    <2>2. ~(tries[s] >= AttemptCap)
      BY <1>1, <2>1 DEF TriesInv
    <2> QED BY <1>2, <2>2
  <1>7. ASSUME NEW s \in StepSet
        PROVE  /\ UnderWay(s)' => execs'[s] <= tries'[s] + 1
               /\ ~UnderWay(s)' => execs'[s] <= tries'[s]
    BY <1>1, <1>2, <1>3, <1>5
  <1>8. AttemptsBounded'
    <2> SUFFICES ASSUME ~mixed', NEW s \in StepSet PROVE execs'[s] <= AttemptCap
      BY DEF AttemptsBounded
    <2>1. CASE UnderWay(s)'
      <3>1. tries[s] < AttemptCap /\ execs[s] <= tries[s] /\ execs'[s] = execs[s] + 1
        BY <1>3, <1>5, <1>6, <2>1
      <3> QED BY <1>2, <3>1
    <2>2. CASE ~UnderWay(s)'
      BY <1>1, <1>5, <2>2 DEF TriesInv, AttemptsBounded
    <2> QED BY <2>1, <2>2
  <1>9. ~mixed' => \A s \in StepSet : tries'[s] >= AttemptCap => ledger'[s].status = "done" \/ Skipping(s)'
    BY <1>1 DEF TriesInv
  <1>10. at' \in {"spawn", "wait"} /\ cmd'.do = "reset" => tries' = NoTries
    BY <1>1 DEF TriesInv
  <1> QED BY <1>1, <1>6, <1>7, <1>8, <1>9, <1>10 DEF TriesInv

\* A step that tries nothing, and takes back nothing that has been tried often.
LEMMA SameTries ==
  ASSUME TriesInv, UNCHANGED <<at, cmd, tries, execs>>, mixed => mixed',
         \A s \in StepSet : UnderWay(s)' <=> UnderWay(s),
         ~mixed' => \A s \in StepSet : tries[s] >= AttemptCap /\ ledger[s].status = "done" =>
                        ledger'[s].status = "done"
  PROVE  TriesInv'
  <1>1. \A s \in StepSet : Skipping(s)' <=> Skipping(s)
    BY DEF Skipping
  <1>2. AttemptsBounded'
    BY DEF TriesInv, AttemptsBounded
  <1> QED BY <1>1, <1>2 DEF TriesInv

LEMMA TriesStep ==
  ASSUME TypeInv, PlaceInv, LedgerInv, TriesInv, [Next]_vars
  PROVE  TriesInv'
  <1>1. CASE RunEndsHere
    BY <1>1, NothingTried DEF RunEndsHere, End, NoRun
  <1>2. CASE RunGoesOn
    <2>1. CASE kind # "full"
      <3>1. tries' = NoTries /\ execs' = NoTries
        BY <1>2, <2>1 DEF RunGoesOn, Turn, GoesOn, QuickGoesOn, HeadTurns, SavedTurns, ResetTurns,
               CompleteTurns, TriedTurns, PlaceInv
      <3> QED BY <3>1, NothingTried
    <2> QED BY <1>2, <2>1, TurnTries
  <1>3. CASE OtherSteps
    <2>1. CASE Cancel
      <3>1. UNCHANGED <<at, cmd, tries, execs, ledger, mixed>> /\ proc' = Kill(proc)
        BY <2>1 DEF Cancel, fileVars
      <3>2. at = "wait" => Kill(proc).loaded = proc.loaded
        BY ProcFacts, SameProc DEF PlaceInv
      <3>3. \A s \in StepSet : UnderWay(s)' <=> UnderWay(s)
        BY <3>1, <3>2 DEF UnderWay
      <3> QED BY <3>1, <3>3, SameTries
    <2>2. CASE Shutdown \/ Boot \/ Crash \/ \E k \in {"quick", "full"} : Start(k)
      BY <2>2, NothingTried DEF Shutdown, Boot, Crash, NoRun, Start
    <2>3. CASE Spawned
      BY <2>3, SpawnedTries
    <2>4. ASSUME NEW ok \in BOOLEAN, ProcSave(ok) PROVE TriesInv'
      <3>1. /\ proc \in Sweeps({"run", "saved", "killed"}) /\ proc.cmd = cmd /\ at = "wait"
            /\ proc' = [proc EXCEPT !.state = "saved", !.ok = ok]
            /\ UNCHANGED <<at, cmd, tries, execs, mixed>>
        BY <2>4, ProcFacts DEF ProcSave, PlaceInv
      <3>2. [proc EXCEPT !.state = "saved", !.ok = ok].loaded = proc.loaded
        BY <3>1, SameProc
      <3>3. \A s \in StepSet : UnderWay(s)' <=> UnderWay(s)
        BY <3>1, <3>2 DEF UnderWay
      <3>4. ASSUME ~mixed', NEW s \in StepSet, tries[s] >= AttemptCap, ledger[s].status = "done"
            PROVE  ledger'[s].status = "done"
        <4>1. tries # NoTries
          BY <3>4, SweepAssumption DEF NoTries
        <4>2. cmd.do # "reset" /\ ~mixed
          BY <3>1, <3>4, <4>1 DEF TriesInv
        <4> QED BY <2>4, <3>4, <4>2, ProcSaveEffect
      <3> QED BY <3>1, <3>3, <3>4, SameTries
    <2>5. ASSUME NEW ok \in BOOLEAN, OutsideSave(ok) PROVE TriesInv'
      <3>1. UNCHANGED <<at, cmd, proc, tries, execs, mixed>> /\ outside.state = "run"
        BY <2>5 DEF OutsideSave, runVars
      <3>2. \A s \in StepSet : UnderWay(s)' <=> UnderWay(s)
        BY <3>1 DEF UnderWay
      <3>3. ASSUME ~mixed', NEW s \in StepSet, tries[s] >= AttemptCap, ledger[s].status = "done"
            PROVE  ledger'[s].status = "done"
        <4>1. tries # NoTries
          BY <3>3, SweepAssumption DEF NoTries
        <4>2. Begun /\ ~mixed
          BY <3>1, <3>3, <4>1 DEF PlaceInv, Begun
        <4>3. outside.cmd.do = "next"
          BY <3>1, <4>2 DEF LedgerInv
        <4> QED BY <2>5, <3>3, <4>2, <4>3, OutsideSaveEffect
      <3> QED BY <3>1, <3>2, <3>3, SameTries
    <2>6. CASE OutsideStart
      <3>1. UNCHANGED <<at, cmd, proc, tries, execs, ledger>> /\ (mixed => mixed')
        BY <2>6 DEF OutsideStart, runVars
      <3>2. \A s \in StepSet : UnderWay(s)' <=> UnderWay(s)
        BY <3>1 DEF UnderWay
      <3> QED BY <3>1, <3>2, SameTries
    <2>7. CASE Aside
      <3>1. UNCHANGED <<at, cmd, proc, tries, execs, ledger, mixed>>
        BY <2>7 DEF Aside, runVars
      <3>2. \A s \in StepSet : UnderWay(s)' <=> UnderWay(s)
        BY <3>1 DEF UnderWay
      <3> QED BY <3>1, <3>2, SameTries
    <2> QED BY <1>3, <2>1, <2>2, <2>3, <2>4, <2>5, <2>6, <2>7, AsideSteps DEF OtherSteps
  <1> QED BY <1>1, <1>2, <1>3, StepKinds

-----------------------------------------------------------------------------
(* Readers and ends                                                        *)

LEMMA ReaderStep ==
  ASSUME TypeInv, PlaceInv, ReaderInv, [Next]_vars
  PROVE  ReaderInv'
  <1>0. /\ finished \in Nat /\ finished + 1 \in Nat /\ boot \in Nat
        /\ reader \in ReaderType /\ Len(reader.q) <= QueueMax
    BY DEF TypeInv, ReaderType
  <1>1. CASE RunEndsHere
    <2>1. reader' = Fed(finished + 1) /\ finished' = finished + 1 /\ boot' = boot /\ at' = "idle"
      BY <1>1 DEF RunEndsHere, End, NoRun
    <2>2. Fed(finished + 1).on /\ ~Fed(finished + 1).overflow =>
            /\ Fed(finished + 1).q # <<>>
            /\ Fed(finished + 1).q[Len(Fed(finished + 1).q)] = Stamp(finished + 1)
      BY <1>0, FedFacts
    <2> QED BY <2>1, <2>2 DEF ReaderInv, Stamp
  <1>2. ASSUME Emit, UNCHANGED boot, at' # "down" PROVE ReaderInv'
    <2>1. reader' = Fed(finished) /\ finished' = finished
      BY <1>2 DEF Emit
    <2>2. Fed(finished).on /\ ~Fed(finished).overflow =>
            Fed(finished).q # <<>> /\ Fed(finished).q[Len(Fed(finished).q)] = Stamp(finished)
      BY <1>0, FedFacts
    <2> QED BY <1>2, <2>1, <2>2 DEF ReaderInv, Stamp
  <1>3. CASE RunGoesOn
    BY <1>2, <1>3 DEF RunGoesOn, Turn, GoesOn
  <1>4. CASE OtherSteps
    <2>1. CASE Cancel \/ ProcLog
      BY <1>2, <2>1 DEF Cancel, ProcLog, runVars
    <2>2. CASE Shutdown \/ Crash \/ Bye
      BY <2>2, AwayFacts DEF Shutdown, Crash, Bye, ReaderInv
    <2>3. CASE Boot
      BY <2>3 DEF Boot, ReaderInv
    <2>4. CASE Attach
      BY <2>4 DEF Attach, runVars, ReaderInv, Stamp
    <2>5. CASE Read
      <3> DEFINE q == reader.q
      <3>1. q \in Seq(Stamps) /\ q # <<>> /\ Len(q) \in Nat /\ Len(q) # 0
        BY <1>0, <2>5, LenProperties, EmptySeq DEF Read, ReaderType
      <3>2. /\ Tail(q) \in Seq(Stamps) /\ Len(Tail(q)) = Len(q) - 1
            /\ \A i \in 1 .. Len(Tail(q)) : Tail(q)[i] = q[i + 1]
            /\ Tail(q) = <<>> <=> Len(Tail(q)) = 0
        BY <3>1, HeadTailProperties, EmptySeq
      <3>3. /\ reader'.q = Tail(q) /\ reader'.seen = Head(q)
            /\ reader'.on = reader.on /\ reader'.overflow = reader.overflow
            /\ reader.on /\ ~reader.overflow /\ UNCHANGED <<finished, boot, at>>
        BY <1>0, <2>5 DEF Read, ReaderType, runVars
      <3>4. q[Len(q)] = Stamp(finished) /\ at # "down"
        BY <3>1, <3>3 DEF ReaderInv
      <3>5. Stamp(finished)' = Stamp(finished)
        BY <3>3 DEF Stamp
      <3>6. CASE Tail(q) = <<>>
        <4>1. Len(q) = 1
          <5>1. Len(Tail(q)) = 0
            BY <3>2, <3>6, Zenon
          <5>2. \A m, n \in Nat : m = n - 1 /\ m = 0 => n = 1
            OBVIOUS
          <5>3. Len(q) \in Nat /\ Len(Tail(q)) \in Nat /\ Len(Tail(q)) = Len(q) - 1
            BY <3>1, <3>2, LenProperties, Zenon
          <5> QED BY <5>1, <5>2, <5>3, Zenon
        <4>2. Head(q) = q[1]
          BY <3>1
        <4> QED BY <3>3, <3>4, <3>5, <3>6, <4>1, <4>2 DEF ReaderInv
      <3>7. CASE Tail(q) # <<>>
        <4>1. Len(Tail(q)) # 0
          BY <3>2, <3>7, Zenon
        <4>2. Tail(q)[Len(Tail(q))] = q[Len(q)]
          <5> HIDE DEF q
          <5> DEFINE n == Len(q) - 1
          <5>1. n \in 1 .. Len(Tail(q)) /\ Len(Tail(q)) = n /\ n + 1 = Len(q)
            BY <3>1, <3>2, <4>1
          <5>2. Tail(q)[n] = q[n + 1]
            BY <3>2, <5>1, Zenon
          <5> QED BY <5>1, <5>2, Zenon
        <4> QED BY <3>3, <3>4, <3>5, <3>7, <4>2 DEF ReaderInv
      <3> QED BY <3>6, <3>7
    <2>6. CASE \E k \in {"quick", "full"} : Start(k)
      BY <2>6 DEF Start, ReaderInv, Stamp
    <2>7. CASE Spawned \/ \E ok \in BOOLEAN : ProcSave(ok)
      BY <2>7 DEF Spawned, ProcSave, ReaderInv, Stamp
    <2>8. CASE (\E ok \in BOOLEAN : OutsideSave(ok)) \/ OutsideStart \/ WindowPasses \/ UNCHANGED vars
      <3>1. UNCHANGED <<at, reader, finished, boot>>
        BY <2>8 DEF OutsideSave, OutsideStart, WindowPasses, vars, runVars
      <3> QED BY <3>1 DEF ReaderInv, Stamp
    <2> QED BY <1>4, <2>1, <2>2, <2>3, <2>4, <2>5, <2>6, <2>7, <2>8 DEF OtherSteps
  <1> QED BY <1>1, <1>3, <1>4, StepKinds

LEMMA EndsStep ==
  ASSUME TypeInv, PlaceInv, EndsOnce, [Next]_vars
  PROVE  EndsOnce'
  <1>0. finished \in Nat /\ starts \in Nat
    BY DEF TypeInv
  <1>1. CASE RunEndsHere
    <2>1. /\ at # "down" /\ Running /\ at' = "idle" /\ ~Running'
          /\ finished' = finished + 1 /\ starts' = starts
      BY <1>1 DEF RunEndsHere, End, NoRun, Running
    <2> QED BY <1>0, <2>1 DEF EndsOnce
  <1>2. CASE RunGoesOn
    <2>1. at # "down" /\ Running /\ Running' /\ finished' = finished /\ starts' = starts
      BY <1>2 DEF RunGoesOn, Turn, GoesOn, Running
    <2> QED BY <2>1 DEF EndsOnce
  <1>3. CASE OtherSteps
    <2>1. CASE \E k \in {"quick", "full"} : Start(k)
      <3>1. /\ at # "down" /\ ~Running /\ Running' /\ finished' = finished /\ starts' = starts + 1
        BY <2>1 DEF Start, Running
      <3> QED BY <1>0, <3>1 DEF EndsOnce
    <2>2. CASE Shutdown \/ Crash
      BY <2>2 DEF Shutdown, Crash, NoRun, EndsOnce
    <2>3. CASE Boot
      BY <2>3 DEF Boot, NoRun, EndsOnce, Running
    <2>4. CASE Spawned
      BY <2>4 DEF Spawned, EndsOnce, Running
    <2>5. CASE Cancel \/ \E ok \in BOOLEAN : ProcSave(ok)
      BY <2>5 DEF Cancel, ProcSave, Emit, EndsOnce, Running
    <2>6. CASE OutsideStart \/ \E ok \in BOOLEAN : OutsideSave(ok)
      BY <2>6 DEF OutsideStart, OutsideSave, runVars, EndsOnce, Running
    <2>7. CASE ProcLog \/ WindowPasses \/ Attach \/ Read \/ Bye \/ UNCHANGED vars
      <3>1. UNCHANGED <<at, finished, starts>>
        BY <2>7 DEF ProcLog, Emit, WindowPasses, Attach, Read, Bye, vars, runVars
      <3> QED BY <3>1 DEF EndsOnce, Running
    <2> QED BY <1>3, <2>1, <2>2, <2>3, <2>4, <2>5, <2>6, <2>7 DEF OtherSteps
  <1> QED BY <1>1, <1>2, <1>3, StepKinds

-----------------------------------------------------------------------------
(* The sweep                                                               *)

LEMMA SweepInit == Init => SweepInv
  <1> SUFFICES ASSUME Init PROVE SweepInv
    OBVIOUS
  <1>1. TypeInv
    BY RestingFacts, AwayFacts DEF Init, TypeInv, Places, ReaderType
  <1>2. PlaceInv
    BY RestingFacts DEF Init, PlaceInv
  <1>3. LedgerInv
    BY RestingFacts DEF Init, LedgerInv, Begun, IngestOnlyWhenComplete
  <1>4. TriesInv
    <2>1. \A s \in StepSet : tries[s] = 0 /\ execs[s] = 0
      BY DEF Init, NoTries
    <2>2. AttemptCap \in Nat /\ AttemptCap > 0
      BY SweepAssumption
    <2> QED BY <2>1, <2>2 DEF Init, TriesInv, AttemptsBounded, UnderWay
  <1>5. ReaderInv /\ EndsOnce
    BY AwayFacts DEF Init, ReaderInv, EndsOnce, Running
  <1> QED BY <1>1, <1>2, <1>3, <1>4, <1>5 DEF SweepInv

LEMMA SweepStep == SweepInv /\ [Next]_vars => SweepInv'
  BY TypeStep, PlaceStep, LedgerStep, TriesStep, ReaderStep, EndsStep DEF SweepInv

LEMMA InvSound == SweepInv => SweepSound
  <1> SUFFICES ASSUME SweepInv PROVE SweepSound
    OBVIOUS
  <1>1. TypeOK
    <2>1. proc.state \in {"none", "run", "saved", "killed"} /\ outside.state \in {"none", "run"}
      BY DEF SweepInv, TypeInv, Idle, Sweeps
    <2> QED BY <2>1 DEF SweepInv, TypeInv, TypeOK, Places
  <1>2. AttemptsBounded /\ EndsOnce
    BY DEF SweepInv, TriesInv
  <1>3. DrainedIsCurrent
    BY DEF SweepInv, ReaderInv, DrainedIsCurrent
  <1>4. IngestOnlyWhenComplete
    BY DEF SweepInv, LedgerInv, IngestOnlyWhenComplete
  <1> QED BY <1>1, <1>2, <1>3, <1>4 DEF SweepSound

\* Whichever way a run goes - through its steps, a cancel, a deadline, a process that is
\* killed or cannot be made, a shutdown or a crash - it has one end, a reader with nothing
\* queued knows of it, no step is executed more often than the cap, and a full run ingests
\* only a sweep whose steps are all done or skipped, as long as no other sweep held the ledger.
THEOREM RunsAreSound == Spec => []SweepSound
<1> QED BY SweepInit, SweepStep, InvSound, PTL DEF Spec

\* A step that is done is taken back by a reset alone.
LEMMA KeepsDone ==
  ASSUME SweepInv, [Next]_vars, ~mixed, NEW s \in StepSet,
         ledger[s].status = "done", ledger'[s].status # "done"
  PROVE  ledger' = Fresh
  <1>0. TypeInv /\ PlaceInv /\ LedgerInv
    BY DEF SweepInv
  <1>1. PICK ok \in BOOLEAN : ProcSave(ok) \/ OutsideSave(ok)
    <2>1. ledger' # ledger
      OBVIOUS
    <2> QED BY <1>0, <2>1, StepKinds
            DEF OtherSteps, RunEndsHere, RunGoesOn, Spawned, Start, Cancel, Shutdown, Crash, Boot,
                ProcLog, OutsideStart, WindowPasses, Attach, Read, Bye, vars, fileVars
  <1>2. CASE ProcSave(ok)
    BY <1>0, <1>2, ProcSaveEffect
  <1>3. CASE OutsideSave(ok)
    BY <1>0, <1>3, OutsideSaveEffect
  <1> QED BY <1>1, <1>2, <1>3

\* The runner's task, once stopped, has nothing left but to end.
LEMMA StopsAt ==
  ASSUME SweepInv, [Next]_vars, stopped, at \in {"top", "wait"}
  PROVE  at' \in {at, "idle", "down"}
  <1>0. TypeInv /\ PlaceInv /\ cancel
    BY DEF SweepInv, PlaceInv
  <1>1. CASE RunEndsHere
    BY <1>1 DEF RunEndsHere, End, NoRun
  <1>2. ~RunGoesOn
    BY <1>0 DEF RunGoesOn, Turn, GoesOn
  <1>3. CASE OtherSteps
    BY <1>3 DEF OtherSteps, Spawned, ProcSave, OutsideSave, Start, Cancel, Shutdown, Crash, Boot, NoRun,
         ProcLog, OutsideStart, WindowPasses, Attach, Read, Bye, vars, runVars
  <1> QED BY <1>0, <1>1, <1>2, <1>3, StepKinds

\* The ledger never forgets a step that is done, wherever its writer was killed, except by a
\* reset or when two sweeps held it at once; and a run that was cancelled before its ingest
\* starts no further command and does not ingest.
THEOREM CancelsAreObeyed == Spec => SweepObeys
<1> DEFINE Kept == \A s \in StepSet :
                     ledger[s].status = "done" /\ ledger'[s].status # "done" => ledger' = Fresh \/ mixed
           Stops == stopped /\ at \in {"top", "wait"} => at' \in {at, "idle", "down"}
<1>1. SweepInv /\ [Next]_vars => Kept
  BY KeepsDone
<1>2. SweepInv /\ [Next]_vars => Stops
  BY StopsAt
<1> HIDE DEF Kept, Stops
<1>3. Spec => [][Kept]_vars /\ [][Stops]_vars
  BY SweepInit, SweepStep, <1>1, <1>2, PTL DEF Spec
<1> QED BY <1>3 DEF SweepObeys, DoneIsKept, CancelStops, Kept, Stops
==============================================================================
