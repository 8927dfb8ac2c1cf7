------------------------------- MODULE Database -------------------------------
(***************************************************************************)
(* app.db and the processes that open it: init_db runs at every start of   *)
(* the backend and in every ingest, statement by statement, then the       *)
(* ladder, one transaction per migration.  A second process may be at it   *)
(* as well, either may crash or meet a full disk or a lock, and the backup *)
(* tool may copy the file or restore a copy meanwhile.                     *)
(*                                                                         *)
(* A transaction holds the write lock to its end, so it is one step.       *)
(***************************************************************************)
EXTENDS Migrations

CONSTANTS
    Procs,     \* processes that open the database
    Origins,   \* what the file may hold at first
    Budgets    \* bounds: which processes take part, calls of init_db, faults and crashes, backups

ASSUME DatabaseAssumption ==
    /\ \A b \in Budgets : b.crew \subseteq Procs /\ {b.opens, b.faults, b.dumps} \subseteq Nat
    /\ \A c \in Origins : Consistent(c)

VARIABLES
    db,      \* the committed content of the file
    base,    \* history: the content an operator put in place
    pc,      \* per process: where in init_db
    pos,     \* per process: the next statement of the script
    fresh,   \* per process: the file was empty when it looked
    pending, \* per process: migrations to run
    baks,    \* the .bak files: content as copied
    dumps,   \* the backups directory, one entry per create_backup
    tool,    \* what the backup tool is doing, and with which entry
    dest,    \* the destination of restore
    opens, faults,
    budget     \* the bounds of this behaviour

procVars == <<pc, pos, fresh, pending>>
toolVars == <<dumps, tool, dest>>
databaseVars == <<db, base, procVars, baks, toolVars, opens, faults, budget>>

NoDest == [state |-> "absent", content |-> Empty]
Resting == [at |-> "idle", n |-> 0]

DatabaseInit ==
    /\ db \in Origins /\ base = db
    /\ pc = [p \in Procs |-> "down"]
    /\ pos = [p \in Procs |-> 0]
    /\ fresh = [p \in Procs |-> FALSE]
    /\ pending = [p \in Procs |-> {}]
    /\ baks = {} /\ dumps = <<>> /\ tool = Resting /\ dest = NoDest
    /\ opens = 0 /\ faults = 0 /\ budget \in Budgets

At(p, there) == pc' = [pc EXCEPT ![p] = there]

-----------------------------------------------------------------------------
(* init_db and run_migrations.                                             *)

\* A database with tables but no jobs is not one of ours.
Open(p) ==
    /\ pc[p] \in {"down", "failed"} /\ p \in budget.crew /\ opens < budget.opens
    /\ opens' = opens + 1
    /\ fresh' = [fresh EXCEPT ![p] = db.objs = {}]
    /\ IF db.objs # {} /\ ~Has(db.objs, "jobs")
       THEN At(p, "failed") /\ UNCHANGED pos
       ELSE At(p, "script") /\ pos' = [pos EXCEPT ![p] = 1]
    /\ UNCHANGED <<db, base, pending, baks, toolVars, faults, budget>>

ScriptStep(p) ==
    /\ pc[p] = "script"
    /\ LET s == Script(fresh[p])[pos[p]]
           last == pos[p] = Len(Script(fresh[p]))
       IN IF Refused(s, db.objs)
          THEN At(p, "failed") /\ UNCHANGED <<db, pos>>
          ELSE /\ db' = [db EXCEPT !.objs = Executed(s, @)]
               /\ At(p, IF last THEN "version" ELSE "script")
               /\ pos' = [pos EXCEPT ![p] = IF last THEN 0 ELSE @ + 1]
    /\ UNCHANGED <<base, fresh, pending, baks, toolVars, opens, faults, budget>>

\* A fresh file has the latest schema: every version is stamped in one transaction.
StampVersion(p) ==
    /\ pc[p] = "version" /\ fresh[p]
    /\ db' = [db EXCEPT !.applied = 1 .. TopVersion]
    /\ At(p, "up")
    /\ UNCHANGED <<base, pos, fresh, pending, baks, toolVars, opens, faults, budget>>

\* What is missing is read once, outside of any transaction.
FindPending(p) ==
    /\ pc[p] = "version" /\ ~fresh[p]
    /\ pending' = [pending EXCEPT ![p] = (1 .. TopVersion) \ db.applied]
    /\ At(p, IF pending'[p] = {} THEN "up" ELSE "backup")
    /\ UNCHANGED <<db, base, pos, fresh, baks, toolVars, opens, faults, budget>>

\* Mutant of BackUp: one backup is thought to be enough.
BackUpOnce(p) ==
    /\ pc[p] = "backup"
    /\ baks' = IF baks = {} THEN {db} ELSE baks
    /\ At(p, "migrate")
    /\ UNCHANGED <<db, base, pos, fresh, pending, toolVars, opens, faults, budget>>

BackUp(p) ==
    /\ pc[p] = "backup"
    /\ baks' = baks \cup {db}
    /\ At(p, "migrate")
    /\ UNCHANGED <<db, base, pos, fresh, pending, toolVars, opens, faults, budget>>

\* Mutant of Migrate: the version is inserted unless it is there already.
MigrateAgain(p) ==
    /\ pc[p] = "migrate"
    /\ LET v == Min(pending[p])
       IN IF Fails(v, db)
          THEN At(p, "failed") /\ UNCHANGED db /\ pending' = [pending EXCEPT ![p] = {}]
          ELSE /\ db' = Migrated(v, db)
               /\ pending' = [pending EXCEPT ![p] = @ \ {v}]
               /\ At(p, IF pending'[p] = {} THEN "up" ELSE "migrate")
    /\ UNCHANGED <<base, pos, fresh, baks, toolVars, opens, faults, budget>>

\* Its version is the primary key of schema_version: a migration another process has
\* committed rolls back here.
Migrate(p) ==
    /\ pc[p] = "migrate"
    /\ LET v == Min(pending[p])
       IN IF v \in db.applied \/ Fails(v, db)
          THEN At(p, "failed") /\ UNCHANGED db /\ pending' = [pending EXCEPT ![p] = {}]
          ELSE /\ db' = Migrated(v, db)
               /\ pending' = [pending EXCEPT ![p] = @ \ {v}]
               /\ At(p, IF pending'[p] = {} THEN "up" ELSE "migrate")
    /\ UNCHANGED <<base, pos, fresh, baks, toolVars, opens, faults, budget>>

\* Locked for too long, disk full, integrity check failed: rolled back and raised.  Or
\* the process is gone.
Fault(p) ==
    /\ pc[p] \in {"script", "version", "backup", "migrate"} /\ faults < budget.faults
    /\ faults' = faults + 1
    /\ At(p, "failed")
    /\ pos' = [pos EXCEPT ![p] = 0] /\ pending' = [pending EXCEPT ![p] = {}]
    /\ UNCHANGED <<db, base, fresh, baks, toolVars, opens, budget>>

Close(p) ==
    /\ pc[p] = "up"
    /\ At(p, "down")
    /\ UNCHANGED <<db, base, pos, fresh, pending, baks, toolVars, opens, faults, budget>>

-----------------------------------------------------------------------------
(* The backup tool.                                                        *)

toolOnly == <<db, base, procVars, baks, opens, budget>>

\* Refused on a file without tables or without a schema version.
CreateBackup ==
    /\ tool.at = "idle" /\ Len(dumps) < budget.dumps
    /\ db.objs # {} /\ db.applied # {}
    /\ dumps' = Append(dumps, [file |-> "partial", content |-> Empty, listed |-> FALSE,
                               manifest |-> Accounting(Empty), damaged |-> FALSE])
    /\ tool' = [at |-> "copy", n |-> Len(dumps) + 1]
    /\ UNCHANGED <<toolOnly, dest, faults>>

CopyBackup ==
    /\ tool.at = "copy"
    /\ dumps' = [dumps EXCEPT ![tool.n].file = "whole", ![tool.n].content = db]
    /\ tool' = [tool EXCEPT !.at = "manifest"]
    /\ UNCHANGED <<toolOnly, dest, faults>>

\* The accounting is read back from the copy.
AccountingOf(n) == Accounting(dumps[n].content)

WriteManifest ==
    /\ tool.at = "manifest"
    /\ dumps' = [dumps EXCEPT ![tool.n].listed = TRUE, ![tool.n].manifest = AccountingOf(tool.n)]
    /\ tool' = Resting
    /\ UNCHANGED <<toolOnly, dest, faults>>

\* An exception removes what was written; a crash does not.
Removed == [file |-> "gone", content |-> Empty, listed |-> FALSE, manifest |-> Accounting(Empty),
            damaged |-> FALSE]

BackupFails(tidy) ==
    /\ tool.at \in {"copy", "manifest"} /\ faults < budget.faults
    /\ faults' = faults + 1
    /\ dumps' = IF tidy THEN [dumps EXCEPT ![tool.n] = Removed] ELSE dumps
    /\ tool' = Resting
    /\ UNCHANGED <<toolOnly, dest>>

\* A stored copy loses rows.
Damage(n) ==
    /\ faults < budget.faults
    /\ n # tool.n /\ dumps[n].file = "whole" /\ dumps[n].content.rows # {}
    /\ faults' = faults + 1
    /\ dumps' = [dumps EXCEPT ![n].content.rows = {}, ![n].damaged = TRUE]
    /\ UNCHANGED <<toolOnly, tool, dest>>

\* A fresh destination only, and a manifest that names this backup.
Restore(n) ==
    /\ tool.at = "idle" /\ dest.state = "absent"
    /\ dumps[n].file # "gone" /\ dumps[n].listed
    /\ dest' = [state |-> "partial", content |-> Empty]
    /\ tool' = [at |-> "restore", n |-> n]
    /\ UNCHANGED <<toolOnly, dumps, faults>>

\* The restored copy is what is checked.
Matches(n, c) == Accounting(c) = dumps[n].manifest

RestoreCheck ==
    /\ tool.at = "restore"
    /\ dest' = IF Matches(tool.n, dumps[tool.n].content)
               THEN [state |-> "ok", content |-> dumps[tool.n].content] ELSE NoDest
    /\ tool' = Resting
    /\ UNCHANGED <<toolOnly, dumps, faults>>

RestoreFails(tidy) ==
    /\ tool.at = "restore" /\ faults < budget.faults
    /\ faults' = faults + 1
    /\ dest' = IF tidy THEN NoDest ELSE dest
    /\ tool' = Resting
    /\ UNCHANGED <<toolOnly, dumps>>

\* With the server down an operator puts a restored file in the place of app.db, or
\* removes what a crashed restore left.
Adopt ==
    /\ tool.at = "idle" /\ dest.state # "absent"
    /\ \A p \in Procs : pc[p] \in {"down", "failed"}
    /\ IF dest.state = "ok" THEN db' = dest.content /\ base' = dest.content ELSE UNCHANGED <<db, base>>
    /\ dest' = NoDest
    /\ UNCHANGED <<procVars, baks, dumps, tool, opens, faults, budget>>

-----------------------------------------------------------------------------
DatabaseNext ==
    \/ \E p \in Procs :
          Open(p) \/ ScriptStep(p) \/ StampVersion(p) \/ FindPending(p) \/ BackUp(p) \/ Migrate(p) \/ Fault(p) \/ Close(p)
    \/ CreateBackup \/ CopyBackup \/ WriteManifest \/ RestoreCheck \/ Adopt
    \/ \E tidy \in BOOLEAN : BackupFails(tidy) \/ RestoreFails(tidy)
    \/ \E n \in DOMAIN dumps : Damage(n) \/ Restore(n)

DatabaseSpec == DatabaseInit /\ [][DatabaseNext]_databaseVars
-----------------------------------------------------------------------------
(* Properties.                                                             *)

DatabaseTypeOK ==
    /\ db.applied \subseteq 1 .. TopVersion
    /\ \A p \in Procs : pc[p] \in {"down", "script", "version", "backup", "migrate", "up", "failed"}
                        /\ (pc[p] = "migrate" => pending[p] # {}) /\ (pc[p] = "script" => pos[p] > 0)
    /\ tool.at \in {"idle", "copy", "manifest", "restore"} /\ dest.state \in {"absent", "partial", "ok"}

\* The stamped versions are a run from the first, whatever crashed and whoever raced.
LadderIsPrefix == db.applied = 1 .. Cardinality(db.applied)

\* A process that init_db let through works on the schema a new database has, from
\* whichever release and through whichever half-done script it came.
UpMeansLatest == \A p \in Procs : pc[p] = "up" => db.objs = Latest /\ db.applied = 1 .. TopVersion

\* Migration 3 drops no row: each is live or archived as it was, and only one of a key lives.
RowsAccounted ==
    /\ Ids(db.rows) \cup Ids(db.archived) = Ids(base.rows) \cup Ids(base.archived)
    /\ Ids(db.rows) \cap Ids(db.archived) = {}
    /\ 3 \in db.applied => \A r, s \in db.rows : r.key = s.key => r = s

\* An event before a lineage was linked to it.
Plain(e) == [e EXCEPT !.posting = NoLineage]

\* Every event the backfill derives is in the log once, after races and restarts.
BackfilledOnce ==
    2 \in db.applied =>
        \A e \in Backfilled(base) :
            2 \notin base.applied =>
                Cardinality({i \in DOMAIN db.events : Plain(db.events[i]) = e}) = 1

\* Once the file is not what it was, a whole copy of what it was is beside it.
UpgradeIsBackedUp ==
    base.objs # {} /\ db.applied # base.applied =>
        \E b \in baks : [b EXCEPT !.objs = base.objs] = base

\* The history view of an upgraded file shows the legacy history, row for row.
HistoryParity ==
    13 \in db.applied =>
        Shown({m \in db.members : m.kind = "snapshot"}) = Told(db)

\* At no date do two lineages of a url both own it, and each url has one open alias.
AliasWindows == Windows(db.aliases)

\* A manifest beside an undamaged copy tells the truth about it, whatever was written to
\* the live file meanwhile.
ManifestsAgree ==
    \A n \in DOMAIN dumps : dumps[n].listed /\ ~dumps[n].damaged =>
        dumps[n].file = "whole" /\ Accounting(dumps[n].content) = dumps[n].manifest

\* What restore lets through has every row of the file it was copied from, though the
\* stored copy may have been damaged since.
RestoredIsIntact ==
    dest.state = "ok" =>
        Ids(dest.content.rows) \cup Ids(dest.content.archived) = Ids(base.rows) \cup Ids(base.archived)

\* "so every process start converges the schema" (migrations.py): a start that meets no
\* fault and no other process, on one of our files, is not refused.
StartConverges ==
    faults = 0 /\ Cardinality(budget.crew) = 1 /\ (base.objs # {} => Has(base.objs, "jobs")) => \A p \in Procs : pc[p] # "failed"

\* Every start climbs to the one latest schema, version by version.
UpgradeSound == DatabaseTypeOK /\ LadderIsPrefix /\ UpMeansLatest

\* An upgrade loses no row, repeats no event and keeps the history readable.
RowsKept == RowsAccounted /\ BackfilledOnce /\ HistoryParity /\ AliasWindows

\* The way back exists: a copy before the upgrade, true manifests, whole restores.
CopiesSound == UpgradeIsBackedUp /\ ManifestsAgree /\ RestoredIsIntact
=============================================================================
