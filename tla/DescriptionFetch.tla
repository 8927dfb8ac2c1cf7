-------------------------- MODULE DescriptionFetch --------------------------
(* One enrichment pass per run of the service: choose the run's postings   *)
(* that deserve a description, fetch them behind a global gate and a gate  *)
(* per host, and commit one row for each.  Passes of two runs share the    *)
(* event loop and the table; each has gates and a connection of its own.   *)
(* A step is what the loop runs between two awaits.                        *)
EXTENDS Naturals, Sequences, FiniteSets

CONSTANTS
    Passes,
    Versions,      \* posting versions, ranked 1.. by when they were observed
    Cheap,         \* what a source says of a version: remote, location, title, company, host
    Settings,      \* what a behaviour starts from, and its bounds: the dirty set of
                   \* each run, the versions described before, the calls of
                   \* enrich_run, the failing commits and deaths of the process
    GlobalSlots, HostSlots

Usable == {"available", "empty"}
NoHost == "none"

\* The prefilter.  Each part names its reason or passes.
LocationDecision(c) == ~c.remote /\ c.location = "excluded"
TitleDecision(c) == c.title \in {"people management", "off focus"}
BlockerDecision(c) == c.company = "staffing agency"

Prefilter(c) ==
    CASE LocationDecision(c) -> "location"
      [] ~LocationDecision(c) /\ TitleDecision(c) -> "title"
      [] ~LocationDecision(c) /\ ~TitleDecision(c) /\ BlockerDecision(c) -> "blocker"
      [] OTHER -> "fetch"
------------------------------------------------------------------------------
VARIABLES
    desc,     \* the descriptions table: per version, no row or its fetch_status
    order,    \* usable rows by fetched_at: the versions from the oldest to the newest
    setting,  \* which of Settings
    call,     \* per pass: where the call of enrich_run is
    item,     \* per pass and version: where run_one is
    inflight, \* per pass: slots taken in the global gate and in each host's
    late,     \* per pass: the deadline is behind
    tally,    \* per pass: the counters of the report
    calls, broken

enrichVars == <<desc, order, setting, call, item, inflight, late, tally, calls, broken>>

Hosts == {Cheap[v].host : v \in Versions} \ {NoHost}

\* enrich_run is called with its defaults, 8 requests and 2 at a host.
ASSUME FetchAssumption ==
    /\ IsFiniteSet(Versions) /\ "all" \notin Hosts
    /\ GlobalSlots \in Nat \ {0} /\ HostSlots \in Nat \ {0}
    /\ \A s \in Settings : /\ s.passes \in Nat /\ s.broken \in Nat
                          /\ s.load \in [Passes -> SUBSET Versions]

NoTally == [considered |-> 0, skipped |-> 0, described |-> 0, fetched |-> 0,
            available |-> 0, empty |-> 0, unavailable |-> 0, written |-> 0]
NoItems == [v \in Versions |-> "none"]
FreeGates == [h \in Hosts \cup {"all"} |-> 0]

EnrichInit ==
    /\ setting \in Settings
    /\ order = setting.described
    /\ desc = [v \in Versions |-> IF \E n \in DOMAIN order : order[n] = v THEN "available" ELSE "none"]
    /\ call = [p \in Passes |-> "idle"]
    /\ item = [p \in Passes |-> NoItems]
    /\ inflight = [p \in Passes |-> FreeGates]
    /\ late = [p \in Passes |-> FALSE]
    /\ tally = [p \in Passes |-> NoTally]
    /\ calls = 0 /\ broken = 0

Put(p, v, where) == item' = [item EXCEPT ![p][v] = where]
Live(p) == {v \in Versions : item[p][v] \notin {"none", "done", "lost"}}
Sending(p) == {v \in Versions : item[p][v] \in {"first send", "second send"}}

\* Versions with a usable description.
AlreadyDescribed(vs) == {v \in vs : desc[v] \in Usable}

\* Up to the gather: the whole selection is one step of the loop.
Select(p) ==
    LET worklist == {v \in setting.load[p] : Prefilter(Cheap[v]) = "fetch"}
        settled == AlreadyDescribed(worklist)
        toFetch == worklist \ settled
    IN
    /\ call[p] \in {"idle", "reported", "failed", "cancelled"} /\ Live(p) = {}
    /\ calls < setting.passes /\ calls' = calls + 1
    /\ call' = [call EXCEPT ![p] = "gather"]
    /\ item' = [item EXCEPT ![p] = [v \in Versions |-> IF v \in toFetch THEN "task" ELSE "none"]]
    /\ tally' = [tally EXCEPT ![p] =
                   [NoTally EXCEPT !.considered = Cardinality(setting.load[p]),
                                   !.skipped = Cardinality(setting.load[p] \ worklist),
                                   !.described = Cardinality(settled),
                                   !.fetched = Cardinality(toFetch)]]
    /\ late' = [late EXCEPT ![p] = FALSE]
    /\ inflight' = [inflight EXCEPT ![p] = FreeGates]
    /\ UNCHANGED <<desc, order, setting, broken>>

\* time.monotonic() reaches deadline_at.
DeadlinePasses(p) ==
    /\ call[p] = "gather" /\ ~late[p]
    /\ late' = [late EXCEPT ![p] = TRUE]
    /\ UNCHANGED <<desc, order, setting, call, item, inflight, tally, calls, broken>>

\* Upsert, commit, and the counters: the row is keyed by the version and only
\* an unavailable one is overwritten.
\* Mutant of Upserted: the last writer wins.
UpsertedAlways(v, status) == status
Upserted(v, status) == IF desc[v] \in Usable THEN desc[v] ELSE status
Persist(p, v, status) ==
    /\ desc' = [desc EXCEPT ![v] = Upserted(v, status)]
    /\ order' = IF desc[v] \in Usable \/ desc'[v] \notin Usable THEN order ELSE Append(order, v)
    /\ tally' = [tally EXCEPT ![p][status] = @ + 1, ![p].written = @ + 1]
    /\ Put(p, v, "done")
    /\ UNCHANGED <<call, broken>>

\* The commit raises: gather hands the first exception to enrich_run and lets
\* the other fetches go on; once the stage has closed the connection all raise.
PersistRaises(p, v) ==
    /\ \/ call[p] = "failed" /\ UNCHANGED <<call, broken>>
       \/ /\ call[p] \in {"gather", "raising"} /\ broken < setting.broken /\ broken' = broken + 1
          /\ call' = [call EXCEPT ![p] = "raising"]
    /\ Put(p, v, "lost")
    /\ UNCHANGED <<desc, order, tally>>

Settle(p, v, status) ==
    \/ call[p] \in {"gather", "raising"} /\ Persist(p, v, status)
    \/ PersistRaises(p, v)

HostFree(p, v) == inflight[p][Cheap[v].host] < HostSlots
TakeHost(p, v) ==
    IF HostFree(p, v)
    THEN /\ Put(p, v, "first send")
         /\ inflight' = [inflight EXCEPT ![p][Cheap[v].host] = @ + 1, ![p]["all"] = @ + 1]
    ELSE /\ Put(p, v, "at host gate")
         /\ inflight' = [inflight EXCEPT ![p]["all"] = @ + 1]

GlobalFree(p) == inflight[p]["all"] < GlobalSlots

\* run_one starts, in the order of the gather: the deadline and the url are
\* looked at before the gates.
FirstTask(p, v) == item[p][v] = "task" /\ \A w \in Versions : item[p][w] = "task" => v <= w
BeginsAnyway(p, v) ==
    /\ FirstTask(p, v)
    /\ \/ /\ Cheap[v].host = NoHost /\ UNCHANGED inflight /\ Settle(p, v, "unavailable")
       \/ /\ Cheap[v].host # NoHost
          /\ IF GlobalFree(p) THEN TakeHost(p, v) ELSE Put(p, v, "at global gate") /\ UNCHANGED inflight
          /\ UNCHANGED <<desc, order, call, tally, broken>>
    /\ UNCHANGED <<setting, late, calls>>
Begin(p, v) ==
    \/ /\ late[p] /\ FirstTask(p, v) /\ Settle(p, v, "unavailable")
       /\ UNCHANGED <<setting, inflight, late, calls>>
    \/ ~late[p] /\ BeginsAnyway(p, v)

\* A released slot wakes a waiter.
WakeGlobal(p, v) ==
    /\ item[p][v] = "at global gate" /\ GlobalFree(p) /\ TakeHost(p, v)
    /\ UNCHANGED <<desc, order, setting, call, late, tally, calls, broken>>
WakeHost(p, v) ==
    /\ item[p][v] = "at host gate" /\ HostFree(p, v)
    /\ Put(p, v, "first send")
    /\ inflight' = [inflight EXCEPT ![p][Cheap[v].host] = @ + 1]
    /\ UNCHANGED <<desc, order, setting, call, late, tally, calls, broken>>

\* The answer of the host, classified; the slot is given back before the write.
Retried(p, v, reply) == reply = "transient" /\ item[p][v] = "first send"
StatusOf(reply) == IF reply \in Usable THEN reply ELSE "unavailable"
\* Mutant of Released: the deadline path keeps its slots.
HeldOnError(p, v) == IF late[p] THEN inflight ELSE [inflight EXCEPT ![p][Cheap[v].host] = @ - 1, ![p]["all"] = @ - 1]
Released(p, v) == [inflight EXCEPT ![p][Cheap[v].host] = @ - 1, ![p]["all"] = @ - 1]
Answer(p, v, reply) ==
    /\ v \in Sending(p)
    /\ \/ /\ Retried(p, v, reply) /\ Put(p, v, "second send")
          /\ UNCHANGED <<desc, order, call, inflight, tally, broken>>
       \/ /\ ~Retried(p, v, reply) /\ inflight' = Released(p, v) /\ Settle(p, v, StatusOf(reply))
    /\ UNCHANGED <<setting, late, calls>>

\* gather returns once every fetch has; the report is built from the counters.
Report(p) ==
    /\ call[p] = "gather" /\ Live(p) = {}
    /\ call' = [call EXCEPT ![p] = "reported"]
    /\ UNCHANGED <<desc, order, setting, item, inflight, late, tally, calls, broken>>

\* The stage records the failure and closes the connection.
Failed(p) ==
    /\ call[p] = "raising" /\ call' = [call EXCEPT ![p] = "failed"]
    /\ UNCHANGED <<desc, order, setting, item, inflight, late, tally, calls, broken>>

\* Cancelling the stage cancels the gather and with it every fetch at its await.
Cancel(p) ==
    /\ call[p] = "gather" /\ call' = [call EXCEPT ![p] = "cancelled"]
    /\ item' = [item EXCEPT ![p] = [v \in Versions |-> IF v \in Live(p) THEN "lost" ELSE @[v]]]
    /\ inflight' = [inflight EXCEPT ![p] = FreeGates]
    /\ UNCHANGED <<desc, order, setting, late, tally, calls, broken>>

\* The process dies; only the table is left.
Dies ==
    /\ broken < setting.broken /\ broken' = broken + 1
    /\ \E p \in Passes : call[p] \in {"gather", "raising"}
    /\ call' = [p \in Passes |-> "idle"]
    /\ item' = [p \in Passes |-> NoItems]
    /\ inflight' = [p \in Passes |-> FreeGates]
    /\ late' = [p \in Passes |-> FALSE]
    /\ tally' = [p \in Passes |-> NoTally]
    /\ UNCHANGED <<desc, order, setting, calls>>

FetchStep(p) ==
    \/ Select(p) \/ DeadlinePasses(p) \/ Report(p) \/ Failed(p) \/ Cancel(p)
    \/ \E v \in Versions :
          \/ Begin(p, v) \/ WakeGlobal(p, v) \/ WakeHost(p, v)
          \/ \E reply \in Usable \cup {"transient", "permanent"} : Answer(p, v, reply)
EnrichNext == Dies \/ \E p \in Passes : FetchStep(p)

EnrichSpec == EnrichInit /\ [][EnrichNext]_enrichVars
------------------------------------------------------------------------------
(* Properties.                                                             *)

EnrichTypeOK ==
    /\ desc \in [Versions -> Usable \cup {"none", "unavailable"}]
    /\ call \in [Passes -> {"idle", "gather", "raising", "reported", "failed", "cancelled"}]
    /\ item \in [Passes -> [Versions ->
           {"none", "task", "at global gate", "at host gate", "first send", "second send", "done", "lost"}]]
    /\ \A p \in Passes : DOMAIN inflight[p] = Hosts \cup {"all"}
    /\ late \in [Passes -> BOOLEAN]
    /\ calls \in 0 .. setting.passes /\ broken \in 0 .. setting.broken

\* A pass never has more requests in flight than its global gate allows, nor
\* more at one host than that host's, whatever fails, waits or is retried.
SlotLimits ==
    \A p \in Passes :
        /\ Cardinality(Sending(p)) <= GlobalSlots
        /\ \A h \in Hosts : Cardinality({v \in Sending(p) : Cheap[v].host = h}) <= HostSlots

\* No fetch is stranded: as long as one waits at a gate, one that holds a slot
\* it needs is on the wire, or the gate is open.  A slot lost on a failing path
\* would leave the gather waiting for ever.
NothingStranded ==
    \A p \in Passes, v \in Versions :
        /\ item[p][v] = "at global gate" => GlobalFree(p) \/ Sending(p) # {}
                                            \/ \E w \in Versions : item[p][w] = "at host gate" /\ HostFree(p, w)
        /\ item[p][v] = "at host gate" =>
               HostFree(p, v) \/ \E w \in Sending(p) : Cheap[w].host = Cheap[v].host

\* The report's accounting invariant, and what it stands for: every version the
\* pass set out to fetch has a row when the report is built, even those the
\* deadline or a missing url kept from being fetched.
ReportBalances ==
    \A p \in Passes : call[p] = "reported" =>
        LET t == tally[p] IN
        /\ t.considered = t.described + t.skipped + t.fetched
        /\ t.fetched = t.available + t.empty + t.unavailable
        /\ t.written = t.fetched
        /\ \A v \in setting.load[p] : Prefilter(Cheap[v]) = "fetch" => desc[v] # "none"

\* A description that could be read is never replaced: not by the failure of a
\* slower pass over the same version, nor by a later call.
UsableIsFinal == [][\A v \in Versions : desc[v] \in Usable => desc'[v] = desc[v]]_desc

\* The gates of a pass neither overfill nor strand a fetch, and its report adds up.
FetchesSound == EnrichTypeOK /\ SlotLimits /\ NothingStranded /\ ReportBalances
==============================================================================
