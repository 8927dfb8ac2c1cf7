------------------------------ MODULE JobSpyChild ------------------------------
(***************************************************************************)
(* The one adapter that works in a process of its own: the fetch of a site  *)
(* hands its queries to a child over stdin and reads records, progress and   *)
(* an error from its stdout, while a task drains its stderr.  Both pipes are *)
(* bounded, so either side can block on them.  The child may fail, be killed *)
(* in the middle of a line or ignore SIGTERM; the fetch may be cancelled or  *)
(* closed at any await.                                                      *)
(***************************************************************************)
EXTENDS Naturals, Sequences, FiniteSets

CONSTANTS
    Errands,        \* what a fetch may be asked for, and what its site answers
    PipeLines,      \* bound: lines that fit a pipe
    DefaultCap,     \* DEFAULT_TITLE_CAP
    MaxLogs         \* bound: lines the scraping library logs

\* A row without an url or a title carries "" for its url.
ASSUME ChildAssumption ==
    /\ PipeLines \in Nat \ {0} /\ DefaultCap \in Nat \ {0}
    /\ \A e \in Errands :
         /\ e.rows \in Seq(Seq([url : STRING, title : STRING]))
         /\ e.cap \in Nat /\ e.from \in Nat /\ e.overlong \in BOOLEAN

VARIABLES
    errand,         \* [rows: query -> rows of [url, title], cap, from, overlong]
    fetch,          \* where the parent is
    child,          \* [is, query, row, code]: where the child process is
    spec,           \* whether the task has been written to its stdin
    stdout, stderr, \* lines in its pipes; of stderr only their number
    drain,          \* the task that reads stderr
    keep,           \* RepostFilter: urls seen and titles counted
    delivered,      \* rows yielded, as <<query, row>>
    marked,         \* query_index of the last checkpoint
    reported,       \* the error line read, if any
    verdict,        \* how the fetch ended
    logs

childVars == <<errand, fetch, child, spec, stdout, stderr, drain, keep, delivered, marked, reported, verdict, logs>>
pipes == <<stdout, stderr, drain>>
reader == <<keep, delivered, marked, reported, verdict>>

Queued == Len(errand.rows)
At(place) == errand.rows[place[1]][place[2]]
Alive == child.is \notin {"absent", "exited"}
Exit(code) == child' = [child EXCEPT !.is = "exited", !.code = code]

ChildInit ==
    /\ errand \in Errands
    /\ fetch = "starting"
    /\ child = [is |-> "absent", query |-> 0, row |-> 0, code |-> "none"]
    /\ spec = FALSE /\ stdout = <<>> /\ stderr = 0 /\ drain = "absent" /\ logs = 0
    /\ keep = [urls |-> {}, titles |-> <<>>]
    /\ delivered = {} /\ marked = 0 /\ reported = "none" /\ verdict = "none"

----------------------------------------------------------------------------
\* A resumed target with nothing left spawns nothing.
Spawn ==
    /\ fetch = "starting"
    /\ IF errand.from >= Queued
       THEN fetch' = "ended" /\ verdict' = "succeeded" /\ UNCHANGED <<child, drain>>
       ELSE /\ fetch' = "feeding" /\ drain' = "running" /\ UNCHANGED verdict
            /\ child' = [child EXCEPT !.is = "reading"]
    /\ UNCHANGED <<errand, spec, stdout, stderr, keep, delivered, marked, reported, logs>>

\* A child gone before it read is not an error here: its exit code will tell.
Feed ==
    /\ fetch = "feeding" /\ fetch' = "reading" /\ spec' = TRUE
    /\ UNCHANGED <<errand, child, stdout, stderr, drain, keep, delivered, marked, reported, verdict, logs>>

----------------------------------------------------------------------------
(* The child. *)
Fits == Len(stdout) < PipeLines
Say(line) == Fits /\ stdout' = Append(stdout, line)
Quiet == UNCHANGED <<errand, fetch, spec, stderr, drain, keep, delivered, marked, reported, verdict, logs>>

\* It reads the whole task, then imports the library, which may not be there.
ReadSpec ==
    /\ child.is = "reading" /\ spec
    /\ \/ child' = [child EXCEPT !.is = "scraping", !.query = errand.from + 1] /\ UNCHANGED stdout
       \/ Say([kind |-> "error", what |-> "permanent"]) /\ Exit("permanent")
    /\ Quiet

Scrape ==
    /\ child.is = "scraping"
    /\ \/ child' = [child EXCEPT !.is = "emitting", !.row = 1] /\ UNCHANGED stdout
       \/ Say([kind |-> "error", what |-> "transient"]) /\ Exit("transient")
    /\ Quiet

\* A row without a title or a url is passed over.
Emit ==
    /\ child.is = "emitting" /\ child.row <= Len(errand.rows[child.query])
    /\ child' = [child EXCEPT !.row = @ + 1]
    /\ LET place == <<child.query, child.row>> IN
       IF At(place).url = "" THEN UNCHANGED stdout ELSE Say([kind |-> "record", what |-> place])
    /\ Quiet

Progress ==
    /\ child.is = "emitting" /\ child.row > Len(errand.rows[child.query])
    /\ Say([kind |-> "progress", what |-> child.query])
    /\ IF child.query = Queued THEN Exit("ok") ELSE child' = [child EXCEPT !.is = "scraping", !.query = @ + 1]
    /\ Quiet

\* The library logs to stderr and waits there while the pipe is full.
Logs ==
    /\ child.is = "scraping" /\ logs < MaxLogs /\ stderr < PipeLines
    /\ logs' = logs + 1 /\ stderr' = stderr + 1
    /\ UNCHANGED <<errand, fetch, child, spec, stdout, drain, keep, delivered, marked, reported, verdict>>
BlockedOnStderr == child.is = "scraping" /\ stderr = PipeLines /\ logs < MaxLogs

\* It is killed from outside, perhaps with half a line written, obeys SIGTERM, or crashes.
Killed ==
    /\ Alive
    /\ \/ \E code \in {"signal", "permanent"} : Exit(code) /\ UNCHANGED stdout
       \/ child.is = "emitting" /\ Exit("signal") /\ Say([kind |-> "torn", what |-> "signal"])
    /\ Quiet

\* A line beyond the stream's limit ends the draining task with an exception.
Drain ==
    /\ drain = "running"
    /\ \/ stderr > 0 /\ stderr' = stderr - 1
          /\ drain' = IF errand.overlong THEN "broken" ELSE "running"
       \/ stderr = 0 /\ child.is = "exited" /\ drain' = "done" /\ UNCHANGED stderr
    /\ UNCHANGED <<errand, fetch, child, spec, stdout, keep, delivered, marked, reported, verdict, logs>>

----------------------------------------------------------------------------
(* The parent. *)
Cap == IF errand.cap = 0 THEN DefaultCap ELSE errand.cap
Counted(title) == IF title \in DOMAIN keep.titles THEN keep.titles[title] ELSE 0
Count(title) == [t \in DOMAIN keep.titles \cup {title} |-> Counted(t) + (IF t = title THEN 1 ELSE 0)]

\* RepostFilter.accept: a url once, a title of one company so many times.
Accept(place) ==
    LET r == At(place) IN
    IF r.url \in keep.urls THEN UNCHANGED <<keep, delivered>>
    ELSE /\ keep' = [urls |-> keep.urls \cup {r.url}, titles |-> Count(r.title)]
         /\ delivered' = IF Counted(r.title) + 1 <= Cap THEN delivered \cup {place} ELSE delivered

ReadLine ==
    /\ fetch = "reading" /\ stdout # <<>> /\ stdout' = Tail(stdout)
    /\ LET line == Head(stdout) IN
       \/ line.kind = "record" /\ Accept(line.what) /\ UNCHANGED <<fetch, marked, reported, verdict>>
       \/ line.kind = "progress" /\ marked' = line.what /\ UNCHANGED <<fetch, keep, delivered, reported, verdict>>
       \/ line.kind = "error" /\ reported' = line.what /\ fetch' = "awaiting" /\ UNCHANGED <<keep, delivered, marked, verdict>>
       \/ line.kind = "torn" /\ verdict' = "permanent" /\ fetch' = "stopping" /\ UNCHANGED <<keep, delivered, marked, reported>>
    /\ UNCHANGED <<errand, child, spec, stderr, drain, logs>>

EndOfOutput ==
    /\ fetch = "reading" /\ stdout = <<>> /\ child.is = "exited" /\ fetch' = "awaiting"
    /\ UNCHANGED <<errand, child, spec, pipes, reader, logs>>

Reap ==
    /\ fetch = "awaiting" /\ child.is = "exited" /\ fetch' = "stopping"
    /\ verdict' = IF reported # "none" THEN reported ELSE IF child.code = "ok" THEN "succeeded"
                  ELSE IF child.code = "permanent" THEN "permanent" ELSE "transient"
    /\ UNCHANGED <<errand, child, spec, pipes, keep, delivered, marked, reported, logs>>

\* Mutant of Interrupt: a cancelled fetch skips the cleanup of its child.
InterruptAtOnce ==
    /\ fetch \in {"feeding", "reading", "awaiting"}
    /\ verdict' = "cancelled" /\ fetch' = "closing"
    /\ UNCHANGED <<errand, child, spec, pipes, keep, delivered, marked, reported, logs>>

\* The deadline, a cancelled run, or the scheduler closing the generator.
Interrupt ==
    /\ fetch \in {"feeding", "reading", "awaiting"}
    /\ verdict' = "cancelled" /\ fetch' = "stopping"
    /\ UNCHANGED <<errand, child, spec, pipes, keep, delivered, marked, reported, logs>>

\* _stop_child: nothing to do for a reaped child; SIGTERM, a grace, then SIGKILL.
Stop ==
    /\ fetch = "stopping"
    /\ fetch' = IF child.is = "exited" THEN "closing" ELSE "terminating"
    /\ UNCHANGED <<errand, child, spec, pipes, reader, logs>>

Terminated ==
    /\ fetch = "terminating" /\ fetch' = "closing"
    /\ IF child.is = "exited" THEN UNCHANGED child ELSE Exit("signal")
    /\ UNCHANGED <<errand, spec, pipes, reader, logs>>

\* stderr_task is cancelled and awaited; its own exception, if it had one, comes out here.
Close ==
    /\ fetch = "closing" /\ fetch' = "ended"
    /\ drain' = IF drain = "running" THEN "done" ELSE drain
    /\ verdict' = IF drain = "broken" THEN "unclassified" ELSE verdict
    /\ UNCHANGED <<errand, child, spec, stdout, stderr, keep, delivered, marked, reported, logs>>

ChildNext ==
    \/ Spawn \/ Feed \/ ReadSpec \/ Scrape \/ Emit \/ Progress \/ Logs \/ Killed \/ Drain
    \/ ReadLine \/ EndOfOutput \/ Reap \/ Interrupt \/ Stop \/ Terminated \/ Close

ChildSpec == ChildInit /\ [][ChildNext]_childVars

----------------------------------------------------------------------------
\* The pipes hold what fits and no mark is beyond the task.
ChildTypeOK ==
    /\ Len(stdout) <= PipeLines /\ stderr \in 0..PipeLines
    /\ marked \in 0..Queued
    /\ fetch \in {"starting", "feeding", "reading", "awaiting", "stopping", "terminating", "closing", "ended"}

\* However a fetch ends, its child is dead and nothing still reads from it.
NoOrphan == fetch = "ended" => ~Alive /\ drain # "running"

\* The rows a complete walk yields, told from the whole answer: the first of each url,
\* and of these the first few of each title.
Emitted(q) == {n \in DOMAIN errand.rows[q] : errand.rows[q][n].url # ""}
Walked == UNION {{<<q, n>> : n \in Emitted(q)} : q \in errand.from + 1 .. Queued}
Earlier(a, b) == a[1] < b[1] \/ (a[1] = b[1] /\ a[2] < b[2])
Firsts == {p \in Walked : \A o \in Walked : Earlier(o, p) => At(o).url # At(p).url}
Due(places) == {p \in Firsts \cap places : Cardinality({o \in Firsts : Earlier(o, p) /\ At(o).title = At(p).title}) < Cap}

\* A fetch succeeds only when its child walked every query and exited in order, and then
\* it has yielded exactly the rows the filter's rule leaves.
SuccessIsWhole ==
    fetch = "ended" /\ verdict = "succeeded" => delivered = Due(Walked) /\ (child.is = "exited" => child.code = "ok")

\* The cursor never passes a row that was not yielded: a resume from it loses nothing.
CursorCovers == marked > 0 => {p \in Due(Walked) : p[1] <= marked} \subseteq delivered

\* While its lines fit the stream's limit, a child waiting on a full stderr has someone
\* emptying it: parent and child never wait for each other.
NeverStalled ==
    fetch = "reading" /\ stdout = <<>> /\ BlockedOnStderr => drain = "running" \/ errand.overlong

\* The child never outlives or stalls its fetch, and what the fetch says it read it read.
ChildSound == ChildTypeOK /\ NoOrphan /\ SuccessIsWhole /\ CursorCovers /\ NeverStalled
=============================================================================
