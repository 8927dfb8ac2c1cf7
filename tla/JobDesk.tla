------------------------------- MODULE JobDesk -------------------------------
(***************************************************************************)
(* The legacy tables the user works on: the jobs cache, the state a user   *)
(* keeps for each role, the audit trail of its changes, and the notes kept *)
(* per company.  Requests run in a thread pool, each on a connection of    *)
(* its own, and read in autocommit: a request that reads and then writes   *)
(* is two steps here.  The ingest of a sweep's results is one transaction. *)
(*                                                                         *)
(* A job is known by its url, a role by its seen_key; the same url may be  *)
(* recycled for another role, and a role may move to another url.          *)
(***************************************************************************)
EXTENDS Naturals, FiniteSets, Sequences

CONSTANTS
    Urls,        \* 1 .. n, in the order of the text
    Keys,        \* seen_keys
    NoKey,
    Requests,    \* bound: requests made in all, each used once
    Patches,     \* the changes a request may ask for
    Batches,     \* the rows of a results file: partial functions from urls to keys
    Loaded,      \* the rows of the file ingested last
    MaxIngests,  \* bound: ingests in all
    MaxDay       \* bound: days that pass

Null == 0

Statuses == {"New", "Interested", "Applied", "Passed"}
Fields == {"status", "starred", "applied_date"}

ASSUME DeskAssumption ==
    /\ Urls \subseteq Nat \ {Null} /\ NoKey \notin Keys
    /\ MaxIngests \in Nat /\ MaxDay \in Nat \ {0}
    /\ \A b \in Batches \cup {Loaded} : DOMAIN b \subseteq Urls /\ \A u \in DOMAIN b : b[u] \in Keys
    /\ \A c \in Patches :
         /\ DOMAIN c \subseteq Fields
         /\ "status" \in DOMAIN c => c["status"] \in Statuses
         /\ "starred" \in DOMAIN c => c["starred"] \in {0, 1}
         /\ "applied_date" \in DOMAIN c => c["applied_date"] \in 0 .. MaxDay

VARIABLES
    jobs,     \* url -> [key, present, described]; key = NoKey when there is no row
    desk,     \* seen_key -> its job_state row
    trail,    \* seen_key -> field -> the last new_value in state_events
    company,  \* the company_state row of the one company
    req,      \* request -> what it has read and is about to write
    today,
    ingests,
    raced,    \* history: rows written by a request whose reading of them was stale
    astray    \* history: roles whose display url was resolved before an ingest moved it

deskVars == <<jobs, desk, trail, company, req, today, ingests, raced, astray>>

NoJob == [key |-> NoKey, present |-> FALSE, described |-> NoKey]

\* The columns' defaults; exists tells a row from its absence.
NoState == [exists |-> FALSE, url |-> Null, status |-> "New", starred |-> 0, applied_date |-> Null]

Unlogged == [status |-> "New", starred |-> 0, applied_date |-> Null]

DeskInit ==
    /\ jobs = [u \in Urls |-> IF u \in DOMAIN Loaded
                             THEN [key |-> Loaded[u], present |-> TRUE, described |-> Loaded[u]]
                             ELSE NoJob]
    /\ desk = [k \in Keys |-> NoState]
    /\ trail = [k \in Keys |-> Unlogged]
    /\ company = [contact |-> 0, notes |-> 0]
    /\ req = [r \in Requests |-> [op |-> "new"]]
    /\ today = 1
    /\ ingests = 0
    /\ raced = {}
    /\ astray = {}

-----------------------------------------------------------------------------
(* Requests.                                                               *)

OwnersOf(url) == {k \in Keys : desk[k].exists /\ desk[k].url = url}

Known(url) == jobs[url].key # NoKey \/ OwnersOf(url) # {}

\* The jobs cache wins; a dormant state row addressed by its last url is the fallback.
ResolveSeenKey(url) ==
    IF jobs[url].key # NoKey THEN jobs[url].key
    ELSE IF OwnersOf(url) # {} THEN CHOOSE k \in OwnersOf(url) : TRUE
    ELSE NoKey

AutoApplied(changes) ==
    /\ "status" \in DOMAIN changes /\ changes["status"] = "Applied"
    /\ "applied_date" \notin DOMAIN changes

\* Mutant: the row is written as the request read it, application date included.
UpsertReplacing(row, url, changes, day) ==
    [exists |-> TRUE, url |-> url,
     status |-> IF "status" \in DOMAIN changes THEN changes["status"] ELSE "New",
     starred |-> IF "starred" \in DOMAIN changes THEN changes["starred"] ELSE row.starred,
     applied_date |-> IF AutoApplied(changes) THEN day ELSE row.applied_date]

\* The upsert of one statement: only the supplied fields, and an application date that
\* fills an empty one.
Upsert(row, url, changes, day) ==
    [exists |-> TRUE, url |-> url,
     status |-> IF "status" \in DOMAIN changes THEN changes["status"] ELSE row.status,
     starred |-> IF "starred" \in DOMAIN changes THEN changes["starred"] ELSE row.starred,
     applied_date |-> IF "applied_date" \in DOMAIN changes THEN changes["applied_date"]
                      ELSE IF AutoApplied(changes) /\ row.applied_date = Null THEN day
                      ELSE row.applied_date]

\* What the request believes it writes, from the row it read before.
NewValues(changes, old, day) ==
    [f \in DOMAIN changes \cup (IF AutoApplied(changes) THEN {"applied_date"} ELSE {}) |->
        IF f \in DOMAIN changes THEN changes[f]
        ELSE IF old.applied_date # Null THEN old.applied_date ELSE day]

\* One event per field that differs from the old row; an absent row has no values.
RecordFieldEvents(log, old, new) ==
    [f \in Fields |->
        IF f \in DOMAIN new /\ (~old.exists \/ new[f] # old[f]) THEN new[f] ELSE log[f]]

PatchRead(r, url, changes) ==
    /\ req[r].op = "new"
    /\ Known(url)
    /\ LET key == ResolveSeenKey(url)
       IN req' = [req EXCEPT ![r] = [op |-> "apply", url |-> url, key |-> key,
                                     changes |-> changes, old |-> desk[key]]]
    /\ UNCHANGED <<jobs, desk, trail, company, today, ingests, raced, astray>>

PatchWrite(r) ==
    /\ req[r].op = "apply"
    /\ LET q == req[r] IN
         /\ desk' = [desk EXCEPT ![q.key] = Upsert(@, q.url, q.changes, today)]
         /\ trail' = [trail EXCEPT ![q.key] =
                         RecordFieldEvents(@, q.old, NewValues(q.changes, q.old, today))]
         /\ raced' = IF q.old # desk[q.key] THEN raced \cup {q.key} ELSE raced
         /\ astray' = IF jobs[q.url].key \notin {q.key, NoKey} THEN astray \cup {q.key} ELSE astray
    /\ req' = [req EXCEPT ![r] = [op |-> "done"]]
    /\ UNCHANGED <<jobs, company, today, ingests>>

\* A read-modify-write of the whole row.
CompanyRead(r, field) ==
    /\ req[r].op = "new"
    /\ req' = [req EXCEPT ![r] = [op |-> "company", row |-> [company EXCEPT ![field] = 1],
                                  old |-> company]]
    /\ UNCHANGED <<jobs, desk, trail, company, today, ingests, raced, astray>>

CompanyWrite(r) ==
    /\ req[r].op = "company"
    /\ company' = req[r].row
    /\ raced' = IF req[r].old # company THEN raced \cup {"company"} ELSE raced
    /\ req' = [req EXCEPT ![r] = [op |-> "done"]]
    /\ UNCHANGED <<jobs, desk, trail, today, ingests, astray>>

-----------------------------------------------------------------------------
(* Ingest.                                                                 *)

\* The jobs table after the latest file's rows: all absent, then each row upserted.  A
\* description joins a present row that has none and is never replaced, though the row's
\* role may be.
IngestedJobs(batch) ==
    [u \in Urls |->
        IF u \in DOMAIN batch
        THEN [key |-> batch[u], present |-> TRUE,
              described |-> IF jobs[u].described = NoKey THEN batch[u]
                            ELSE jobs[u].described]
        ELSE [jobs[u] EXCEPT !.present = FALSE]]

PresentUrls(table, key) == {u \in Urls : table[u].present /\ table[u].key = key}

\* Mutant: a dormant role keeps the url another job recycled.
DisplayUrlKept(table, key) ==
    LET mine == PresentUrls(table, key)
    IN IF mine # {} THEN CHOOSE u \in mine : \A v \in mine : u =< v ELSE desk[key].url

\* A role with a present job adopts its first url; a dormant one whose url is now some
\* present job's lets go of it.
DisplayUrl(table, key) ==
    LET mine == PresentUrls(table, key)
        old  == desk[key].url
    IN IF mine # {} THEN CHOOSE u \in mine : \A v \in mine : u =< v
       ELSE IF old # Null /\ table[old].present THEN Null
       ELSE old

\* The picks seed a state only for a role that has none; the first pick of a role wins.
SeedFrom(table, picks, key) ==
    {u \in picks : table[u].present /\ table[u].key = key}

Ingest(batch, picks) ==
    LET table     == IngestedJobs(batch)
        seeded(k) == ~desk[k].exists /\ SeedFrom(table, picks, k) # {}
    IN /\ ingests < MaxIngests
       /\ ingests' = ingests + 1
       /\ jobs' = table
       /\ desk' = [k \in Keys |->
                     IF desk[k].exists THEN [desk[k] EXCEPT !.url = DisplayUrl(table, k)]
                     ELSE IF seeded(k)
                     THEN [exists |-> TRUE, status |-> "Interested", starred |-> 1, applied_date |-> Null,
                           url |-> CHOOSE u \in SeedFrom(table, picks, k) : TRUE]
                     ELSE NoState]
       /\ trail' = [k \in Keys |->
                     IF seeded(k)
                     THEN RecordFieldEvents(trail[k], NoState, [status |-> "Interested", starred |-> 1])
                     ELSE trail[k]]
       /\ astray' = {}
       /\ UNCHANGED <<company, req, today, raced>>

\* The clock passes midnight.
Midnight ==
    /\ today < MaxDay
    /\ today' = today + 1
    /\ UNCHANGED <<jobs, desk, trail, company, req, ingests, raced, astray>>

Edit(r) ==
    \/ \E url \in Urls, changes \in Patches : PatchRead(r, url, changes)
    \/ PatchWrite(r)
    \/ \E field \in DOMAIN company : CompanyRead(r, field)
    \/ CompanyWrite(r)

Elapse ==
    \/ \E batch \in Batches : \E picks \in SUBSET DOMAIN batch : Ingest(batch, picks)
    \/ Midnight

-----------------------------------------------------------------------------
(* Properties.                                                             *)

DeskTypeOK ==
    /\ jobs \in [Urls -> [key : Keys \cup {NoKey}, present : BOOLEAN, described : Keys \cup {NoKey}]]
    /\ desk \in [Keys -> [exists : BOOLEAN, url : Urls \cup {Null}, status : Statuses,
                          starred : {0, 1}, applied_date : 0 .. MaxDay]]
    /\ trail \in [Keys -> [status : Statuses, starred : {0, 1}, applied_date : 0 .. MaxDay]]
    /\ company \in [contact : {0, 1}, notes : {0, 1}]
    /\ today \in 1 .. MaxDay /\ ingests \in 0 .. MaxIngests

\* A present job's url belongs to at most its own role's state row, which is what the
\* reads join on: after any interleaving the only exception is a role edited through a
\* url an ingest recycled in between, and the next ingest repairs it.
OwnCard ==
    \A k \in Keys :
        LET url == desk[k].url
        IN desk[k].exists /\ url # Null /\ jobs[url].present /\ jobs[url].key # k => k \in astray

\* The audit trail replays to the state: the last event of a field holds its value,
\* unless two requests on one role overlapped.
TrailReplays ==
    \A k \in Keys : k \notin raced => \A f \in Fields : trail[k][f] = desk[k][f]

\* A row is replaced field by field: what no request or seed names in this step stays,
\* whatever the request had read before.  (The display url is the ingest's to move.)
DisjointEditsSurvive ==
    [][\A k \in Keys : \A f \in Fields :
         desk[k].exists /\ desk'[k][f] # desk[k][f] =>
            \E r \in Requests :
               /\ req[r].op = "apply" /\ req'[r].op = "done" /\ req[r].key = k
               /\ \/ f \in DOMAIN req[r].changes
                  \/ f = "applied_date" /\ desk[k].applied_date = Null]_deskVars

\* An edit of a company's contact or notes is undone only by a request that overlapped it.
CompanyKept ==
    [][\A f \in DOMAIN company : company'[f] < company[f] => "company" \in raced']_deskVars
=============================================================================
