------------------------------ MODULE Migrations ------------------------------
(***************************************************************************)
(* The migration ladder of app.db as a function on the content of the      *)
(* file: the schema objects it holds, the versions stamped in it, and the  *)
(* user's rows that migrations 2, 3, 6, 11 and 13 rewrite.  Dates, statuses *)
(* (by index), urls and keys are numbers; 0 is NULL or blank.              *)
(***************************************************************************)
EXTENDS Naturals, Sequences, FiniteSets, SequencesExt, FiniteSetsExt

CONSTANT Orphan  \* the 'orphaned:' url surrogate of a parked row

ASSUME OrphanAssumption == Orphan \in Nat

TopVersion == 21
AppliedIdx == 2  \* STATUSES.index("Applied")

-----------------------------------------------------------------------------
(* Schema objects: a table, view or index t, or its column (a view's text) c. *)

T(t) == [t |-> t, c |-> ""]
Col(t, c) == [t |-> t, c |-> c]

\* CREATE ... IF NOT EXISTS skips a name that is taken, whatever columns it has.
Create(objs, new) == objs \cup {o \in new : \A p \in objs : p.t # o.t}
Replace(objs, o) == {p \in objs : p.t # o.t} \cup {o}
Has(objs, t) == T(t) \in objs

JobsTable == {T("jobs")}
Baseline == {T("job_state"), Col("job_state", "applied_via"), Col("job_state", "posting_id"),
             T("company_state"), T("runs"), T("job_history"), T("app_settings")}
StateEvents == {T("state_events")}
StateEventsCanonical == StateEvents \cup {Col("state_events", "posting_id")}
Archive == {T("job_state_archive")}
UniquePosting == Col("uq_job_state_posting_id", "index")

Profiles == {T("profile_versions")}
RunTables == {T("pipeline_runs"), T("source_runs"), T("run_events")}
Identity == {T("postings"), T("posting_aliases"), T("posting_redirects"), T("identity_evidence"),
             T("legacy_identity_map"), T("identity_migration_archive")}
Content == {T("posting_versions"), T("descriptions"), Col("idx_posting_versions_source_run", "index")}
Decisions == {T("score_versions"), T("llm_reviews"), T("recommendations"), T("recommendation_events")}
Views == {Col("compat_jobs", "legacy only"), Col("compat_runs", "all"), Col("compat_job_history", "all")}
Compatibility == {T("run_postings")} \cup Views
Artifacts == {T("legacy_artifact_imports")}
Membership == Col("run_postings", "membership_kind")
HistoryView == Col("compat_job_history", "snapshot")
Scope == Col("source_runs", "inventory_scope")
ContentHash == Col("run_postings", "content_hash")
Presence == Col("postings", "presence")
SourceState == Col("run_postings", "source_state_json")
Supersession == Col("score_versions", "supersession")
ScoreTables == {T("score_passes"), T("score_invalidations")}
OutcomeTables == {T("recommendation_snapshots"), T("recommendation_snapshot_items"), T("outcome_events")}

\* The statements of init_db, each of which commits by itself.
Make(objs) == [do |-> "create", objs |-> objs]
Add(o) == [do |-> "add", objs |-> {o}]
Redo(o) == [do |-> "replace", objs |-> {o}]

Always == <<Make(JobsTable), Make(Baseline), Make(StateEventsCanonical), Make(Archive)>>

Canonical ==
    <<Make(Profiles \cup RunTables \cup Identity), Make(Content \cup Decisions), Make(Compatibility),
      Make(Artifacts), Add(Membership), Redo(HistoryView), Add(Scope), Add(ContentHash), Add(Presence),
      Add(SourceState), Add(Supersession), Make(ScoreTables \cup OutcomeTables), Add(UniquePosting)>>

Script(fresh) == IF fresh THEN Always \o Canonical ELSE Always

\* A bare ALTER or CREATE INDEX fails when the object is there.
Refused(s, objs) == s.do = "add" /\ s.objs \subseteq objs

Executed(s, objs) ==
    IF s.do = "create" THEN Create(objs, s.objs)
    ELSE IF s.do = "add" THEN objs \cup s.objs
    ELSE UNION {Replace(objs, o) : o \in s.objs}

\* What a fresh database has when its script is through.
Latest == FoldLeft(LAMBDA objs, s : Executed(s, objs), {}, Script(TRUE))

\* Mutant of PostingColumns: the upgrade forgets the index a fresh file has.
PostingColumnsBare(objs) ==
    LET kept == {o \in objs : o.t \notin {v.t : v \in Views}}
    IN Create(kept \cup {Col("job_state", "posting_id"), Col("state_events", "posting_id")}, Compatibility)

\* Migration 11 on the schema.
PostingColumns(objs) ==
    LET kept == {o \in objs : o.t \notin {v.t : v \in Views}}
        all == Create(kept, {UniquePosting}) \cup {Col("job_state", "posting_id"), Col("state_events", "posting_id")}
    IN Create(all, Compatibility)

\* Each migration on the schema; every column is guarded by a look at the table.
Schema(v, objs) ==
    CASE v = 1 -> Create(objs, StateEvents)
      [] v = 2 -> objs
      [] v = 3 -> IF Col("job_state", "needs_review") \notin objs THEN Create(objs, Archive)
                  ELSE Create({o \in objs : o.t # "job_state"}, Archive) \cup {T("job_state")}
      [] v = 4 -> objs \cup {Col("job_state", "applied_via")}
      [] v = 5 -> Create(objs, Profiles)
      [] v = 6 -> Create(objs, RunTables)
      [] v = 7 -> Create(objs, Identity)
      [] v = 8 -> Create(objs, Content)
      [] v = 9 -> Create(objs, Decisions)
      [] v = 10 -> Create(objs, Compatibility)
      [] v = 11 -> IF Membership \in objs THEN Replace(PostingColumns(objs), HistoryView) ELSE PostingColumns(objs)
      [] v = 12 -> Create(objs, Artifacts)
      [] v = 13 -> Replace(objs \cup {Membership}, HistoryView)
      [] v = 14 -> objs \cup {Scope, ContentHash}
      [] v = 15 -> objs \cup {Presence}
      [] v = 16 -> Create(objs, Content)
      [] v = 17 -> Replace(objs, Col("compat_jobs", "legacy only"))
      [] v = 18 -> objs \cup {SourceState}
      [] v = 19 -> objs \cup {Supersession}
      [] v = 20 -> Create(objs, ScoreTables)
      [] v = 21 -> Create(objs, OutcomeTables)

-----------------------------------------------------------------------------
(* The user's rows.                                                        *)

NoLineage == <<0, 0>>
Event(r, field, old, new) == [row |-> r.id, key |-> r.key, field |-> field, old |-> old, new |-> new,
                              posting |-> NoLineage]

\* Migration 2: the events that may have led to a row.
EventsOf(r) ==
    (IF r.status = 0 THEN {}
     ELSE IF r.applied /\ r.status = AppliedIdx THEN {Event(r, "status", 0, AppliedIdx)}
     ELSE IF r.applied /\ r.status > AppliedIdx
     THEN {Event(r, "status", 0, AppliedIdx), Event(r, "status", AppliedIdx, r.status)}
     ELSE {Event(r, "status", 0, r.status)})
    \cup (IF r.starred THEN {Event(r, "starred", 0, 1)} ELSE {})

Backfilled(c) == UNION {EventsOf(r) : r \in c.rows}

\* Migration 3: of the rows that share a key, the furthest advanced wins, then the latest,
\* then by url; max() keeps the first of those that are alike.
Beats(a, b) ==
    \/ a.status > b.status
    \/ a.status = b.status /\ a.upd > b.upd
    \/ a.status = b.status /\ a.upd = b.upd /\ a.url > b.url
    \/ a.status = b.status /\ a.upd = b.upd /\ a.url = b.url /\ a.id <= b.id

Namesakes(c, r) == {o \in c.rows : o.key = r.key}
Winners(c) == {r \in c.rows : \A o \in Namesakes(c, r) : Beats(r, o)}

Losers(c) == c.rows \ Winners(c)

Present(c) == {j \in c.jobs : j.present}

\* The winner's url: its present job's, or its own unless another present role has it.
DisplayUrl(c, r) ==
    LET own == {j.url : j \in {k \in Present(c) : k.key = r.key}}
    IN IF own # {} THEN CHOOSE u \in own : TRUE
       ELSE IF r.url = Orphan \/ \E j \in Present(c) : j.url = r.url THEN 0
       ELSE r.url

Rekeyed(c) ==
    IF Col("job_state", "needs_review") \notin c.objs THEN c
    ELSE [c EXCEPT !.rows = {[r EXCEPT !.url = DisplayUrl(c, r)] : r \in Winners(c)},
                   !.archived = @ \cup Losers(c),
                   !.events = @ \o SetToSeq({Event(r, "archived", r.status, 0) : r \in Losers(c)})]

\* Migration 11: a lineage is a (url, key) pair that jobs or history ever had.
Lineage(x) == <<x.url, x.key>>
Seen(c) == {Lineage(j) : j \in c.jobs} \cup {Lineage(h) : h \in c.hist}
Lineages(c) == {l \in Seen(c) : l[2] # 0}

Dates(c, l) ==
    {h.date : h \in {x \in c.hist : Lineage(x) = l}}
    \cup UNION {{j.first, j.last} : j \in {x \in c.jobs : Lineage(x) = l}}
FirstSeen(c, l) == Min(Dates(c, l))
LastSeen(c, l) == Max(Dates(c, l))

\* The lineages of a url in the order they were first seen; each alias is open until the next.
Precedes(c, a, b) ==
    \/ FirstSeen(c, a) < FirstSeen(c, b)
    \/ FirstSeen(c, a) = FirstSeen(c, b) /\ LastSeen(c, a) < LastSeen(c, b)
    \/ FirstSeen(c, a) = FirstSeen(c, b) /\ LastSeen(c, a) = LastSeen(c, b) /\ a[2] < b[2]

Alias(c, l) ==
    LET next == {FirstSeen(c, m) : m \in {x \in Lineages(c) : x[1] = l[1] /\ Precedes(c, l, x)}}
    IN [url |-> l[1], posting |-> l, from |-> FirstSeen(c, l), to |-> IF next = {} THEN 0 ELSE Min(next)]

Ambiguous(c) ==
    {l[1] : l \in {x \in Lineages(c) : \E m \in Lineages(c) : m[1] = x[1] /\ m # x
                                          /\ LastSeen(c, m) = LastSeen(c, x)}}

\* Memberships: one per history row, and one for each current job its run did not have.
Recorded(c) == {[run |-> h.date, posting |-> Lineage(h), version |-> "history", kind |-> "snapshot",
                 present |-> h.present] : h \in {x \in c.hist : x.key # 0}}
Current(c) == {[run |-> j.last, posting |-> Lineage(j), version |-> "current", kind |-> "snapshot",
                present |-> j.present] : j \in {x \in c.jobs : x.key # 0}}
Members(c) ==
    Recorded(c) \cup {m \in Current(c) : ~\E n \in Recorded(c) : n.run = m.run /\ n.posting = m.posting}

\* A row is linked when its key has one lineage, and archived for a later look otherwise.
Candidates(c, key) == {l \in Lineages(c) : l[2] = key}
Link(c, key) ==
    IF Cardinality(Candidates(c, key)) = 1 THEN CHOOSE l \in Candidates(c, key) : TRUE ELSE NoLineage

Misfits(c) ==
    {[what |-> "lineage", at |-> l] : l \in Seen(c) \ Lineages(c)}
    \cup {[what |-> "history", at |-> <<h.url, h.date>>] : h \in {x \in c.hist : x.key = 0}}
    \cup {[what |-> "jobs", at |-> <<j.url>>] : j \in {x \in c.jobs : x.key = 0}}
    \cup {[what |-> "alias", at |-> <<u>>] : u \in Ambiguous(c)}
    \cup {[what |-> "state", at |-> <<r.id>>] : r \in {x \in c.rows : Link(c, x.key) = NoLineage}}
    \cup {[what |-> "event", at |-> <<i>>] :
             i \in {n \in DOMAIN c.events : Link(c, c.events[n].key) = NoLineage}}

Imported(c) == [c EXCEPT !.imported = @ \cup c.runs]

Canonicalised(c) ==
    [c EXCEPT !.imported = @ \cup c.runs \cup {m.run : m \in Members(c)},
              !.aliases = {Alias(c, l) : l \in Lineages(c)},
              !.members = Members(c),
              !.rows = {[r EXCEPT !.posting = Link(c, r.key)] : r \in c.rows},
              !.events = [i \in DOMAIN c.events |-> [c.events[i] EXCEPT !.posting = Link(c, c.events[i].key)]],
              !.misfits = @ \cup Misfits(c)]

\* Migration 13: memberships that only say what is current are not history.
Classified(c) ==
    [c EXCEPT !.members = {IF m.version = "current" THEN [m EXCEPT !.kind = "current-only"] ELSE m : m \in @}]

Rows(v, c) ==
    CASE v = 2 -> [c EXCEPT !.events = @ \o SetToSeq(Backfilled(c))]
      [] v = 3 -> Rekeyed(c)
      [] v = 6 -> Imported(c)
      [] v = 11 -> Canonicalised(c)
      [] v = 13 -> Classified(c)
      [] OTHER -> c

\* An event row that names a table the file does not have yet cannot be inserted.
Fails(v, c) ==
    /\ Col("state_events", "posting_id") \in c.objs /\ ~Has(c.objs, "postings")
    /\ \/ v = 2 /\ Backfilled(c) # {}
       \/ v = 3 /\ Col("job_state", "needs_review") \in c.objs /\ Losers(c) # {}

\* One migration and its schema_version row.
Migrated(v, c) == [Rows(v, c) EXCEPT !.objs = Schema(v, @), !.applied = @ \cup {v}]

-----------------------------------------------------------------------------
Empty == [objs |-> {}, applied |-> {}, rows |-> {}, archived |-> {}, events |-> <<>>, jobs |-> {}, hist |-> {},
          runs |-> {}, imported |-> {}, aliases |-> {}, members |-> {}, misfits |-> {}]

\* The schema before the first migration.
OldObjs == {T("jobs"), T("job_state"), Col("job_state", "needs_review"), T("company_state"), T("runs"),
            T("job_history"), T("app_settings")}

\* A database an earlier release left at version v.
Origin(v, old) ==
    LET up[n \in 0 .. TopVersion] == IF n = 0 THEN [old EXCEPT !.objs = OldObjs] ELSE Migrated(n, up[n - 1])
    IN up[v]

Accounting(c) ==
    [version |-> IF c.applied = {} THEN 0 ELSE Max(c.applied), tables |-> {o.t : o \in {x \in c.objs : x.c = ""}},
     rows |-> Cardinality(c.rows), archived |-> Cardinality(c.archived), events |-> Len(c.events),
     members |-> Cardinality(c.members)]

-----------------------------------------------------------------------------
(* What a release leaves in the file.                                      *)

RowRecords == [id : Nat, key : Nat, url : Nat, status : Nat, applied : BOOLEAN, starred : BOOLEAN, upd : Nat,
               posting : Nat \X Nat]
Tracked == {"status", "notes", "follow_up_date", "applied_date", "starred", "hidden", "contact", "snoozed_until",
            "applied_via"}
EventRecords == [row : Nat, key : Nat, field : Tracked \cup {"archived"}, old : Nat, new : Nat,
                 posting : Nat \X Nat]
JobRecords == [url : Nat, key : Nat, first : Nat \ {0}, last : Nat \ {0}, present : BOOLEAN]
HistRecords == [url : Nat, key : Nat, date : Nat \ {0}, present : BOOLEAN]

Ids(rows) == {r.id : r \in rows}
Tabled(c) ==
    /\ DOMAIN c = DOMAIN Empty /\ c = [x \in DOMAIN c |-> c[x]]
    /\ c.rows \subseteq RowRecords /\ IsFiniteSet(c.rows) /\ c.archived \subseteq RowRecords /\ IsFiniteSet(c.archived)
    /\ c.events \in Seq(EventRecords)
    /\ c.jobs \subseteq JobRecords /\ IsFiniteSet(c.jobs) /\ c.hist \subseteq HistRecords /\ IsFiniteSet(c.hist)

\* A row is live or archived, once, and from migration 3 on a role has one.
RowsApart(c) ==
    /\ \A r, s \in c.rows : r.id = s.id => r = s
    /\ Ids(c.rows) \cap Ids(c.archived) = {}
    /\ 3 \in c.applied => \A r, s \in c.rows : r.key = s.key => r = s
    /\ 3 \notin c.applied /\ c.rows # {} => Col("job_state", "needs_review") \in c.objs

\* At no date do two lineages of a url both own it, and each url has one open alias.
Windows(aliases) ==
    \A a, b \in aliases : a.url = b.url /\ a # b => (a.to # 0 /\ a.to =< b.from) \/ (b.to # 0 /\ b.to =< a.from)

\* The memberships that are history are the legacy history; the other ones say what is
\* current, and from migration 13 on say so.
Shown(members) == {[run |-> m.run, posting |-> m.posting, present |-> m.present] : m \in members}
Told(c) == {[run |-> h.date, posting |-> Lineage(h), present |-> h.present] : h \in {x \in c.hist : x.key # 0}}
Columned(members) == \A m \in members : DOMAIN m = {"run", "posting", "version", "kind", "present"}
MembersTrue(c) ==
    /\ Columned(c.members)
    /\ 11 \in c.applied => Shown({m \in c.members : m.kind = "snapshot" /\ m.version # "current"}) = Told(c)
    /\ 13 \in c.applied => \A m \in c.members : m.kind = "snapshot" => m.version # "current"

Consistent(c) ==
    /\ Tabled(c) /\ RowsApart(c)
    /\ \E h \in 0 .. TopVersion : c.applied = 1 .. h
    /\ 2 \notin c.applied => c.events = <<>>
    /\ 11 \notin c.applied => c.aliases = {} /\ c.members = {}
    /\ Windows(c.aliases) /\ MembersTrue(c)
    /\ c.objs = {} => c.applied = {} /\ c.rows = {} /\ c.archived = {} /\ c.jobs = {} /\ c.hist = {}
=============================================================================
