---------------------------- MODULE MCEventStream ---------------------------
EXTENDS EventStream, TLC
RunSymmetry == Permutations(Runs)

-----------------------------------------------------------------------------
(* What a service without readers acts on: no guard of it, and neither of   *)
(* the lanes' properties, reads what a log holds, a history, the outcome,   *)
(* or anything of a run that is done but that it is done.                   *)
Thread(t) == IF t.st = "lost" THEN "landed" ELSE t.st

RunView(r) ==
    IF sup[r] = "done" THEN <<"done", Thread(th[r]["task"])>>
    ELSE <<sup[r], kind[r], r \in cancel, fetch[r], fstat[r], task[r], scorer[r], ops[r],
           Thread(th[r]["sup"]), Thread(th[r]["task"]), th[r]["task"].ev,
           IF Live(r) THEN row[r] = "running" ELSE row[r] = "absent", r \in bell,
           Len(log[r]) <= MaxProgress>>

LaneView == <<procVars, [r \in Runs |-> RunView(r)], leak>>
=============================================================================
