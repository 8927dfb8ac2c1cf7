------------------------------- MODULE MCBackend -------------------------------
(* The start of the backend on its database and the legacy sweep runner it  *)
(* then owns share no state: each behaviour is of one of them, the other at *)
(* rest.                                                                    *)
EXTENDS LegacySweep, MCDatabase

VARIABLE part

backendVars == <<part, vars, databaseVars>>

MCSteps == <<"tests", "score">>

BackendInit ==
    /\ Init /\ DatabaseInit /\ part \in {"sweep", "database"}
    /\ part = "sweep" => db = Empty /\ Cardinality(budget.crew) = 1

\* The bound of the sweep: beside the runner's second life runs the orphan of the first,
\* or a sweep a shell started while the backend was down, but none after a shell's.
SweepBound ==
    /\ at # "down" /\ at' = "down" => boot = MaxBoots \/ externals = 0
    /\ boot = 2 /\ outside.state = "none" => outside'.state = "none"

BackendNext ==
    \/ part = "sweep" /\ Next /\ SweepBound /\ UNCHANGED <<part, databaseVars>>
    \/ part = "database" /\ DatabaseNext /\ UNCHANGED <<part, vars>>

\* LegacySweep's Fairness, of the behaviours that are its own.
BackendFairness ==
    /\ WF_vars(part = "sweep" /\ RunnerStep)
    /\ WF_vars(part = "sweep" /\ Read) /\ WF_vars(part = "sweep" /\ Attach)
    /\ WF_vars(part = "sweep" /\ reader.overflow /\ Bye)

BackendSpec == BackendInit /\ [][BackendNext]_backendVars /\ BackendFairness
==============================================================================
