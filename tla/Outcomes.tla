------------------------------ MODULE Outcomes ------------------------------
(***************************************************************************)
(* What was recommended and what came of it: snapshots of a served queue,  *)
(* the recommendations they stand for, the outcome events that refer to    *)
(* them, and the Today queue that captures the day's snapshot as it is     *)
(* served.  The corpus moves underneath: postings gain versions and scores *)
(* and urls change hands while a request is between its reads and writes.  *)
(***************************************************************************)
EXTENDS JobDesk, QueueRanking

CONSTANTS
    Postings,     \* postings the corpus knows
    Ghost,        \* a posting id it does not know
    Bridge,       \* seen_key -> job_state.posting_id, NoKey where it is NULL
    Traits,       \* url -> what the queue's ranking reads of its job
    ItemLists,    \* the item lists a client may send
    EventBodies,  \* the outcome events a client may send
    NoRequest,    \* no snapshot
    Aliases,      \* the alias tables the run starts from
    Editors,      \* the requests that may edit the desk
    Moving,       \* the postings the lanes change meanwhile
    DailyCap,     \* daily_queue_size
    MaxVersions   \* bound: versions and scores of a posting

\* What a client may send and what the tables relate; a position that is not given is 0.
ASSUME OutcomesAssumption ==
    /\ IsFiniteSet(Urls) /\ Editors \subseteq Requests /\ Moving \subseteq Postings
    /\ Ghost # NoKey /\ {Ghost, NoKey} \cap Postings = {} /\ NoRequest \notin Requests
    /\ MaxVersions \in Nat \ {0} /\ DailyCap \in Nat
    /\ Bridge \in [Keys -> Postings \cup {NoKey}]
    /\ Aliases \subseteq [Urls -> Postings \cup {NoKey}]
    /\ Traits \in [Urls -> [url : Urls, company : Nat, status : Statuses, hidden : BOOLEAN, snoozed : BOOLEAN,
                            tier : Nat, match : Nat, competition : Nat, odds_score : Nat, age : Nat,
                            described : BOOLEAN]]
    /\ ItemLists \subseteq Seq([rank : Int, posting : Postings \cup {Ghost}, version : Nat])
    /\ EventBodies \subseteq [posting : Postings \cup {NoKey, Ghost}, url : Urls,
                               snapshot : Requests \cup {NoRequest}, rank : Nat, key : Nat]

Profile == "p1"   \* the profile version; capture reads it once

VARIABLES
    version,    \* posting -> its latest version
    score,      \* posting -> the version its current score was given to, Null when unscored
    alias,      \* url -> the posting of its live alias, NoKey when none
    snapshots,  \* request -> the snapshot it captured
    recommended,\* recommendations, by their idempotency key
    events,     \* outcome_events
    reply       \* request -> what it answered: a snapshot, none, or an event

outcomeVars == <<version, score, alias, snapshots, recommended, events, reply>>

OutcomesInit ==
    /\ version = [p \in Postings |-> 1]
    /\ score = [p \in Postings |-> IF p \in Moving THEN 1 ELSE Null]
    /\ alias \in Aliases
    /\ snapshots = [r \in {} |-> Null]
    /\ recommended = {}
    /\ events = {}
    /\ reply = [r \in {} |-> Null]

\* A row joins a table under its key, or finds it taken.
Joined(table, key, row) ==
    [k \in DOMAIN table \cup {key} |-> IF k \in DOMAIN table THEN table[k] ELSE row]

Reply(r, kind, what) == reply' = Joined(reply, r, [kind |-> kind, what |-> what])

-----------------------------------------------------------------------------
(* Capturing a snapshot.                                                   *)

Ranks(items) == {items[i].rank : i \in DOMAIN items}
Named(items) == {items[i].posting : i \in DOMAIN items}

\* Every check of capture_snapshot before it writes.
Acceptable(items) ==
    /\ \A i \in DOMAIN items :
         /\ items[i].rank >= 1
         /\ items[i].posting \in Postings
         /\ items[i].version =< version[items[i].posting]
    /\ Cardinality(Ranks(items)) = Len(items)
    /\ Cardinality(Named(items)) = Len(items)

\* The current score: of the named version, or of whichever version has it.
CurrentScore(p, named) == IF named \in {Null, score[p]} THEN score[p] ELSE Null

\* Mutant: the version is the latest one, whichever was scored.
EnrichItemLatest(item) ==
    [rank |-> item.rank, posting |-> item.posting, score |-> CurrentScore(item.posting, item.version),
     version |-> IF item.version # Null THEN item.version ELSE version[item.posting]]

EnrichItem(item) ==
    LET scored == CurrentScore(item.posting, item.version)
    IN [rank    |-> item.rank,
        posting |-> item.posting,
        version |-> IF item.version # Null THEN item.version
                    ELSE IF scored # Null THEN scored ELSE version[item.posting],
        score   |-> scored]

Enriched(items) == {EnrichItem(items[i]) : i \in DOMAIN items}

EnsureRecommendations(items) ==
    recommended \cup {[posting |-> i.posting, profile |-> Profile, version |-> i.version,
                       score |-> i.score] : i \in items}

SnapshotRead(r, items) ==
    /\ req[r].op = "new"
    /\ req' = [req EXCEPT ![r] = IF Acceptable(items)
                                 THEN [op |-> "capture", items |-> Enriched(items)]
                                 ELSE [op |-> "refused"]]
    /\ UNCHANGED <<outcomeVars, jobs, desk, trail, company, today, ingests, raced, astray>>

SnapshotWrite(r) ==
    /\ req[r].op = "capture"
    /\ snapshots' = Joined(snapshots, r, [surface |-> "client", day |-> today, size |-> 0,
                                          items |-> req[r].items])
    /\ recommended' = EnsureRecommendations(req[r].items)
    /\ Reply(r, "snapshot", r)
    /\ req' = [req EXCEPT ![r] = [op |-> "done"]]
    /\ UNCHANGED <<version, score, alias, events, jobs, desk, trail, company, today, ingests, raced, astray>>

-----------------------------------------------------------------------------
(* Outcome events.                                                         *)

\* The url's live alias names the posting, else the bridge of the role behind the url.
PostingIdForUrl(url) ==
    IF alias[url] # NoKey THEN alias[url]
    ELSE LET key == ResolveSeenKey(url)
         IN IF key # NoKey /\ desk[key].exists THEN Bridge[key] ELSE NoKey

ItemAt(snapshot, rank) == {i \in snapshots[snapshot].items : i.rank = rank}
ItemOf(snapshot, p) == {i \in snapshots[snapshot].items : i.posting = p}

\* Mutant: a snapshot alone attributes the event to its first item.
AttributionFirst(body, p) ==
    IF body.snapshot = NoRequest THEN [snapshot |-> NoRequest, rank |-> Null]
    ELSE [snapshot |-> body.snapshot, rank |-> IF body.rank # Null THEN body.rank ELSE 1]

\* Where the event says it happened: an explicit position must exist, a snapshot alone
\* yields the rank of its posting's item, and anything else is unattributed.
Attribution(body, p) ==
    IF body.snapshot = NoRequest THEN [snapshot |-> NoRequest, rank |-> Null]
    ELSE IF body.rank # Null THEN [snapshot |-> body.snapshot, rank |-> body.rank]
    ELSE IF ItemOf(body.snapshot, p) = {} THEN [snapshot |-> NoRequest, rank |-> Null]
    ELSE [snapshot |-> body.snapshot, rank |-> (CHOOSE i \in ItemOf(body.snapshot, p) : TRUE).rank]

EventRefused(body) ==
    \/ body.posting = Ghost
    \/ body.snapshot # NoRequest /\ body.snapshot \notin DOMAIN snapshots
    \/ body.snapshot \in DOMAIN snapshots /\ body.rank # Null /\ ItemAt(body.snapshot, body.rank) = {}

EventRead(r, body) ==
    /\ req[r].op = "new"
    /\ req' = [req EXCEPT ![r] =
         IF EventRefused(body) THEN [op |-> "refused"]
         ELSE LET p  == IF body.posting # NoKey THEN body.posting ELSE PostingIdForUrl(body.url)
                  at == Attribution(body, p)
              IN [op |-> "record",
                  row |-> [id |-> r, key |-> body.key, posting |-> p, snapshot |-> at.snapshot,
                           rank |-> at.rank, derived |-> body.rank = Null]]]
    /\ UNCHANGED <<outcomeVars, jobs, desk, trail, company, today, ingests, raced, astray>>

Stored(key) == {e \in events : e.key = key}

\* Insert unless the idempotency key is taken, and commit.
EventWrite(r) ==
    /\ req[r].op = "record"
    /\ LET row == req[r].row
       IN events' = IF row.key # Null /\ Stored(row.key) # {} THEN events ELSE events \cup {row}
    /\ req' = [req EXCEPT ![r] = [@ EXCEPT !.op = "readback"]]
    /\ UNCHANGED <<version, score, alias, snapshots, recommended, reply,
                   jobs, desk, trail, company, today, ingests, raced, astray>>

EventReply(r) ==
    /\ req[r].op = "readback"
    /\ LET row == req[r].row
       IN Reply(r, "event", IF row.key # Null THEN CHOOSE e \in Stored(row.key) : TRUE ELSE row)
    /\ req' = [req EXCEPT ![r] = [op |-> "done"]]
    /\ UNCHANGED <<version, score, alias, snapshots, recommended, events,
                   jobs, desk, trail, company, today, ingests, raced, astray>>

-----------------------------------------------------------------------------
(* Serving the Today queue.                                                *)

Candidates ==
    {[Traits[u] EXCEPT !.url = u,
                       !.status = LET k == {x \in Keys : desk[x].exists /\ desk[x].url = u}
                                  IN IF k = {} THEN "New" ELSE desk[CHOOSE x \in k : TRUE].status]
        : u \in {v \in Urls : jobs[v].present}}

\* The entries whose posting resolves, the better ranked of two that share one.
ResolvedEntry(entries, i) ==
    LET url == entries[i].job.url
    IN IF alias[url] # NoKey THEN alias[url] ELSE Bridge[jobs[url].key]

SnapshotItems(entries) ==
    {i \in DOMAIN entries :
        /\ ResolvedEntry(entries, i) # NoKey
        /\ \A h \in 1 .. i - 1 : ResolvedEntry(entries, h) # ResolvedEntry(entries, i)}

QueueRead(r) ==
    /\ req[r].op = "new"
    /\ req' = [req EXCEPT ![r] = [op |-> "serve", queue |-> BuildQueue(Candidates, DailyCap).entries]]
    /\ UNCHANGED <<outcomeVars, jobs, desk, trail, company, today, ingests, raced, astray>>

TodaySnapshots(day) == {r \in DOMAIN snapshots : snapshots[r].surface = "today" /\ snapshots[r].day = day}

\* One BEGIN IMMEDIATE: look for the day's snapshot and capture it when there is none.
QueueCapture(r) ==
    /\ req[r].op = "serve"
    /\ DailyCap >= 1
    /\ IF TodaySnapshots(today) # {}
       THEN /\ Reply(r, "snapshot", CHOOSE s \in TodaySnapshots(today) : TRUE)
            /\ UNCHANGED <<snapshots, recommended>>
       ELSE LET entries == req[r].queue
                items   == {EnrichItem([rank |-> i, posting |-> ResolvedEntry(entries, i), version |-> Null])
                              : i \in SnapshotItems(entries)}
            IN /\ snapshots' = Joined(snapshots, r, [surface |-> "today", day |-> today,
                                                     size |-> Len(entries), items |-> items])
               /\ recommended' = EnsureRecommendations(items)
               /\ Reply(r, "snapshot", r)
    /\ req' = [req EXCEPT ![r] = [op |-> "done"]]
    /\ UNCHANGED <<version, score, alias, events, jobs, desk, trail, company, today, ingests, raced, astray>>

\* The capture fails (a locked database): the queue is served all the same.
QueueUncaptured(r) ==
    /\ req[r].op = "serve"
    /\ Reply(r, "none", NoRequest)
    /\ req' = [req EXCEPT ![r] = [op |-> "done"]]
    /\ UNCHANGED <<version, score, alias, snapshots, recommended, events,
                   jobs, desk, trail, company, today, ingests, raced, astray>>

-----------------------------------------------------------------------------
(* The corpus underneath, written by the canonical lanes.                  *)

Reversion(p) ==
    /\ version[p] < MaxVersions
    /\ version' = [version EXCEPT ![p] = @ + 1]
    /\ UNCHANGED <<score, alias, snapshots, recommended, events, reply, deskVars>>

Rescore(p) ==
    /\ score[p] # version[p]
    /\ score' = [score EXCEPT ![p] = version[p]]
    /\ UNCHANGED <<version, alias, snapshots, recommended, events, reply, deskVars>>

Next ==
    \/ Elapse /\ UNCHANGED outcomeVars
    \/ \E r \in Editors : Edit(r) /\ UNCHANGED outcomeVars
    \/ \E r \in Requests :
         \/ \E items \in ItemLists : SnapshotRead(r, items)
         \/ \E body \in EventBodies : EventRead(r, body)
         \/ SnapshotWrite(r) \/ EventWrite(r) \/ EventReply(r)
         \/ QueueRead(r) \/ QueueCapture(r) \/ QueueUncaptured(r)
    \/ \E p \in Moving : Reversion(p) \/ Rescore(p)

Init == DeskInit /\ OutcomesInit

vars == <<deskVars, outcomeVars>>
Spec == Init /\ [][Next]_vars

-----------------------------------------------------------------------------
(* Properties.                                                             *)

Items == [rank : Nat \ {0}, posting : Postings, version : 1 .. MaxVersions, score : 0 .. MaxVersions]

TypeOK ==
    /\ DeskTypeOK
    /\ version \in [Postings -> 1 .. MaxVersions]
    /\ score \in [Postings -> 0 .. MaxVersions]
    /\ \A r \in DOMAIN snapshots : snapshots[r].items \subseteq Items
    /\ \A e \in events : e.posting \in Postings \cup {NoKey}

\* Snapshot-on-serve keeps one record of a day however many first requests arrive at
\* once, and every request of the day that got an id got that one.
OneSnapshotADay ==
    /\ \A r, q \in DOMAIN snapshots :
         snapshots[r].surface = "today" /\ snapshots[q].surface = "today" /\ snapshots[r].day = snapshots[q].day
            => r = q
    /\ \A r \in DOMAIN reply : reply[r].kind = "snapshot" => reply[r].what \in DOMAIN snapshots

\* A snapshot names a posting once and a rank once, two urls of one posting included.
SnapshotsAreRankings ==
    \A r \in DOMAIN snapshots : \A a, b \in snapshots[r].items :
        a # b => a.rank # b.rank /\ a.posting # b.posting

\* The version and the score of an item describe the same listing, though the corpus
\* gains versions and scores between the reads and the write.  (A client may also name
\* the score; nothing ties that one to the version, so such items are left out here.)
PairsAgree ==
    \A r \in DOMAIN snapshots : \A i \in snapshots[r].items : i.score \in {Null, i.version}

\* An attributed event points at an item that exists, and a rank the server derived is
\* the position of the event's own posting.
AttributedTruly ==
    \A e \in events : e.snapshot # NoRequest =>
        /\ e.snapshot \in DOMAIN snapshots
        /\ \E i \in snapshots[e.snapshot].items :
             i.rank = e.rank /\ (e.derived => i.posting = e.posting)

\* A retried event is stored once, and every attempt is answered with the stored row.
RetriesAreOneEvent ==
    /\ \A e, f \in events : e.key # Null /\ e.key = f.key => e = f
    /\ \A r \in DOMAIN reply : reply[r].kind = "event" => reply[r].what \in events

\* What was recommended and what came of it is history: no step edits or drops it.
HistoryKept ==
    [][/\ events \subseteq events' /\ recommended \subseteq recommended'
       /\ \A r \in DOMAIN snapshots : r \in DOMAIN snapshots' /\ snapshots'[r] = snapshots[r]]_vars

\* The desk says what its users did: cards are their roles', the trail replays to the row.
DeskSound == TypeOK /\ OwnCard /\ TrailReplays

\* A snapshot is one ranking of a day, and each of its items one listing.
SnapshotsSound == OneSnapshotADay /\ SnapshotsAreRankings /\ PairsAgree

\* An outcome event is stored once and attributed to what was really recommended.
EventsSound == AttributedTruly /\ RetriesAreOneEvent

\* No step undoes another request's edit or rewrites history.
EditsSurvive == DisjointEditsSurvive /\ CompanyKept /\ HistoryKept
=============================================================================
