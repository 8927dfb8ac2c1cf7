------------------------------ MODULE SourceWalk ------------------------------
(***************************************************************************)
(* One target of a run, fetched by one of the paging source adapters: the   *)
(* plan that makes the target, the walk over queries and pages, the rows a   *)
(* page parser keeps, the checkpoint after each page, and the scheduler's    *)
(* handling of that walk: batches that carry the checkpoint, one clean retry *)
(* after a transient failure, and a resume of the run after its process died.*)
(*                                                                           *)
(* A row is the set of the fields it carries.  Time, identity and the text   *)
(* of a posting are left out: a posting is its place on the board when the   *)
(* walk began.                                                               *)
(***************************************************************************)
EXTENDS Naturals, Sequences, FiniteSets

CONSTANTS
    Sites,          \* the adapters, boards and configurations to walk
    PageSize,       \* rows a page holds
    DepthCap,       \* pages an adapter asks of one query (each has its own number in the code)
    MaxAttempts,    \* attempts of a target in one process life (RunSchedulerConfig.max_attempts)
    MaxLives,       \* bound: process lives
    MaxFaults,      \* bound: requests that fail
    NoMark          \* no checkpoint

ASSUME WalkAssumption == {PageSize, DepthCap, MaxAttempts, MaxLives} \subseteq Nat \ {0}

VARIABLES
    site,           \* [adapter, entry, terms (by process life), links, counted]
    board,          \* query -> the rows the source would list for it, each with its posting
    life,           \* process lives so far
    stage,          \* where the target is
    attempt,        \* attempts made, over all lives
    inLife,         \* attempts made in this life
    list, cursor,   \* the generator's queries and its place in them
    page,           \* the page being yielded: its rows, and where the walk goes after it
    given,          \* postings this walk has yielded
    buffer,         \* yielded to the scheduler, not committed
    mark,           \* FetchContext._checkpoint
    saved,          \* attempt -> checkpoint_json of its source_runs row
    stored,         \* postings committed for this run
    asked,          \* requests of this walk
    faults, withdrawn

walkVars == <<site, board, life, stage, attempt, inLife, list, cursor, page, given, buffer, mark, saved, stored, asked, faults, withdrawn>>

Adapter == site.adapter
Terms == site.terms[life]
Single == {"lever", "ashby", "greenhouse", "recruitee", "workable"}
Complete == Single \cup {"smartrecruiters", "icims", "yc"}
Termed == {"amazon", "workday", "eightfold", "jibe", "phenom", "builtin"}

----------------------------------------------------------------------------
(* What a parser keeps of a page's rows; the rest is skipped, never raised. *)
HasAny(row, fields) == row \cap fields # {}
AmazonKeeps(row) == {"title", "url"} \subseteq row
WorkdayKeeps(row) == {"title", "url"} \subseteq row
EightfoldKeeps(row) == "title" \in row /\ HasAny(row, {"id", "alt"}) /\ HasAny(row, {"url", "id"})
JibeKeeps(row) == {"title", "focus"} \subseteq row /\ HasAny(row, {"id", "alt"})
PhenomKeeps(row) == "title" \in row /\ HasAny(row, {"url", "id"})
SmartKeeps(row) == {"title", "id"} \subseteq row
BuiltInKeeps(row) == "title" \in row
IcimsKeeps(row) == "title" \in row
YcKeeps(row) == "title" \in row /\ HasAny(row, {"url", "alt"})
LeverKeeps(row) == {"title", "url"} \subseteq row
AshbyKeeps(row) == {"title", "url"} \subseteq row
GreenhouseKeeps(row) == {"title", "url"} \subseteq row
RecruiteeKeeps(row) == {"title", "url"} \subseteq row
WorkableKeeps(row) == "title" \in row /\ HasAny(row, {"url", "alt"})

Keeps(a, row) ==
    CASE a = "amazon" -> AmazonKeeps(row) [] a = "workday" -> WorkdayKeeps(row)
      [] a = "eightfold" -> EightfoldKeeps(row) [] a \in {"jibe", "jibe state"} -> JibeKeeps(row)
      [] a = "phenom" -> PhenomKeeps(row) [] a = "smartrecruiters" -> SmartKeeps(row)
      [] a = "builtin" -> BuiltInKeeps(row) [] a = "icims" -> IcimsKeeps(row) [] a = "yc" -> YcKeeps(row)
      [] a = "lever" -> LeverKeeps(row) [] a = "ashby" -> AshbyKeeps(row)
      [] a = "greenhouse" -> GreenhouseKeeps(row) [] a = "recruitee" -> RecruiteeKeeps(row)
      [] a = "workable" -> WorkableKeeps(row)

Kept(rows) == SelectSeq(rows, LAMBDA r : Keeps(Adapter, r.fields))

----------------------------------------------------------------------------
(* plan(): a target, no target, or a ConfigError that refuses the whole run. *)
Entry(blank, broken, bare) ==
    CASE site.entry = "blank key" -> blank [] site.entry = "not an object" -> broken
      [] site.entry = "bare" -> bare [] OTHER -> "target"
IfTermed(then) == IF Terms = <<>> THEN "nothing" ELSE then
AmazonPlan == IfTermed("target")
WorkdayPlan == Entry("nothing", "error", "target")
EightfoldPlan == IfTermed(Entry("nothing", "nothing", "nothing"))
JibePlan == LET made == Entry("nothing", "error", "error") IN IF made = "target" THEN IfTermed(made) ELSE made
JibeStatePlan == Entry("nothing", "error", "error")
PhenomPlan == Entry("nothing", "error", "error")
SmartPlan == Entry("nothing", "target", "target")
BuiltInPlan == IfTermed("target")
IcimsPlan == Entry("nothing", "error", "target")
YcPlan == "target"
SinglePlan == Entry("nothing", "target", "target")

Planned ==
    CASE Adapter = "amazon" -> AmazonPlan [] Adapter = "workday" -> WorkdayPlan
      [] Adapter = "eightfold" -> EightfoldPlan [] Adapter = "jibe" -> JibePlan
      [] Adapter = "jibe state" -> JibeStatePlan [] Adapter = "phenom" -> PhenomPlan
      [] Adapter = "smartrecruiters" -> SmartPlan [] Adapter = "builtin" -> BuiltInPlan
      [] Adapter = "icims" -> IcimsPlan [] Adapter = "yc" -> YcPlan [] OTHER -> SinglePlan

\* fetch() raises a ConfigError of its own for what its plan let through.
Unfetchable == Adapter = "workday" /\ (site.entry = "bare" \/ Terms = <<>>)

----------------------------------------------------------------------------
(* The queries of a target and the page each request gets. *)
Query(term, variant) == [term |-> term, variant |-> variant]
\* Every term crossed with the variants: for each term all of them, or all terms for each.
ByTerm(variants) == [n \in 1..(Len(Terms) * Len(variants)) |->
    Query(Terms[1 + ((n - 1) \div Len(variants))], variants[1 + ((n - 1) % Len(variants))])]
ByVariant(variants) == [n \in 1..(Len(Terms) * Len(variants)) |->
    Query(Terms[1 + ((n - 1) % Len(Terms))], variants[1 + ((n - 1) \div Len(Terms))])]
WorkdayQueries == ByTerm(<<"washington", "anywhere">>)
BuiltInQueries == ByVariant(<<"sf-metro", "remote-us">>)
Queries ==
    IF Adapter \in Termed /\ Terms = <<>> THEN <<>>
    ELSE CASE Adapter = "workday" -> WorkdayQueries [] Adapter = "builtin" -> BuiltInQueries
      [] Adapter \in {"amazon", "eightfold", "jibe", "phenom"} -> ByTerm(<<"anywhere">>) [] OTHER -> <<Query("board", "anywhere")>>

Lesser(m, n) == IF m < n THEN m ELSE n
Slice(rows, from) == SubSeq(rows, from + 1, Lesser(from + PageSize, Len(rows)))
Total == Len(board[list[cursor.q]])
Response ==
    LET rows == board[list[cursor.q]] IN
    CASE Adapter \in {"jibe", "jibe state", "builtin"} -> Slice(rows, (cursor.at - 1) * PageSize)
      [] Adapter = "icims" -> Slice(rows, cursor.at * PageSize)
      [] Adapter \in {"amazon", "workday", "eightfold", "phenom", "smartrecruiters"} -> Slice(rows, cursor.at)
      [] OTHER -> rows

Begins == IF Adapter \in {"jibe", "jibe state", "builtin"} THEN 1 ELSE 0
Start == [q |-> 1, at |-> Begins, n |-> 0]
NextQuery == [q |-> cursor.q + 1, at |-> Begins, n |-> 0]
NextPage(at) == [cursor EXCEPT !.at = at, !.n = @ + 1]

\* A checkpoint names the query and the place in it; yc's also carries the paths found.
Marked(place) == [to |-> place, mark |-> place]
Unmarked(place) == [to |-> place, mark |-> NoMark]

AmazonTurn(rows) ==
    LET next == cursor.at + PageSize
        cap == Lesser(IF site.counted THEN Total ELSE 0, DepthCap * PageSize)
    IN Marked(IF rows # <<>> /\ next < cap THEN NextPage(next) ELSE NextQuery)
WorkdayTurn(rows) ==
    LET next == cursor.at + PageSize
        exhausted == rows = <<>> \/ (site.counted /\ next >= Total)
    IN Marked(IF exhausted \/ cursor.n + 1 = DepthCap THEN NextQuery ELSE NextPage(next))
EightfoldTurn(rows) ==
    Marked(IF rows = <<>> \/ cursor.n + 1 >= DepthCap THEN NextQuery ELSE NextPage(cursor.at + PageSize))
JibeTurn(rows) ==
    Marked(IF rows = <<>> \/ cursor.at + 1 > DepthCap THEN NextQuery ELSE NextPage(cursor.at + 1))
JibeStateTurn(rows) == IF rows = <<>> THEN Unmarked(NextQuery) ELSE Marked(NextPage(cursor.at + 1))
PhenomTurn(rows) ==
    Marked(IF rows = <<>> \/ (cursor.at \div PageSize) + 1 >= DepthCap THEN NextQuery ELSE NextPage(cursor.at + PageSize))
SmartTurn(rows) ==
    LET next == NextPage(cursor.at + Len(rows)) IN
    [to |-> IF rows = <<>> \/ next.at >= (IF site.counted THEN Total ELSE 0) THEN NextQuery ELSE next, mark |-> next]
BuiltInTurn(rows) ==
    Marked(IF Kept(rows) = <<>> \/ cursor.at + 1 > DepthCap THEN NextQuery ELSE NextPage(cursor.at + 1))
IcimsTurn(rows) == IF rows = <<>> THEN Unmarked(NextQuery) ELSE Marked(NextPage(cursor.at + 1))
YcTurn(rows) == Marked(NextQuery)
SingleTurn(rows) == Unmarked(NextQuery)

Turn(rows) ==
    CASE Adapter = "amazon" -> AmazonTurn(rows) [] Adapter = "workday" -> WorkdayTurn(rows)
      [] Adapter = "eightfold" -> EightfoldTurn(rows) [] Adapter = "jibe" -> JibeTurn(rows)
      [] Adapter = "jibe state" -> JibeStateTurn(rows) [] Adapter = "phenom" -> PhenomTurn(rows)
      [] Adapter = "smartrecruiters" -> SmartTurn(rows) [] Adapter = "builtin" -> BuiltInTurn(rows)
      [] Adapter = "icims" -> IcimsTurn(rows) [] Adapter = "yc" -> YcTurn(rows) [] OTHER -> SingleTurn(rows)

Finished ==
    \/ cursor.q > Len(list)
    \/ Adapter = "jibe state" /\ cursor.at > DepthCap
    \/ Adapter = "icims" /\ cursor.at >= DepthCap

\* yc appends the facet pages it discovers, each once.
Discovered ==
    LET found == SelectSeq(IF Adapter = "yc" THEN site.links[list[cursor.q].term] ELSE <<>>,
                           LAMBDA path : \A n \in 1..Len(list) : list[n].term # path)
    IN [n \in 1..Len(found) |-> Query(found[n], "anywhere")]

----------------------------------------------------------------------------
(* Checkpoints: SourceTarget.config_fingerprint() and Checkpoint.is_valid_for(). *)
Fingerprint == IF Adapter \in Termed THEN Terms ELSE <<>>
Checkpoint(place) == [place |-> place, list |-> list, fingerprint |-> Fingerprint]
IsValid(checkpoint) == checkpoint.fingerprint = Fingerprint

\* latest_checkpoint_json: of the newest attempt that saved one.
Latest == LET marked == {n \in 1..Len(saved) : saved[n] # NoMark} IN
          IF marked = {} THEN NoMark ELSE saved[CHOOSE n \in marked : \A k \in marked : k <= n]
\* Mutant of Resumable: the fingerprint is not compared.
ResumableAnyway == inLife = 0 /\ Latest # NoMark
Resumable == inLife = 0 /\ Latest # NoMark /\ IsValid(Latest)

\* Only eightfold takes the pages already read of a query from its cursor.
ResumeAt(place) == [place EXCEPT !.n = IF Adapter = "eightfold" THEN place.at \div PageSize ELSE 0]

----------------------------------------------------------------------------
NoPage == [rows |-> <<>>, next |-> NoMark]

WalkInit ==
    /\ \E s \in Sites : site = s.site /\ board = s.board
    /\ life = 1 /\ stage = "planning" /\ attempt = 0 /\ inLife = 0
    /\ list = <<>> /\ cursor = [q |-> 1, at |-> 0, n |-> 0] /\ page = NoPage
    /\ given = {} /\ buffer = {} /\ mark = NoMark /\ saved = <<>> /\ stored = {}
    /\ asked = 0 /\ faults = 0 /\ withdrawn = {}

Plan ==
    /\ stage = "planning"
    /\ stage' = CASE Planned = "target" -> "ready" [] Planned = "nothing" -> "unplanned" [] OTHER -> "rejected"
    /\ UNCHANGED <<site, board, life, attempt, inLife, list, cursor, page, given, buffer, mark, saved, stored, asked, faults, withdrawn>>

\* _run_attempt: a context of its own; only the first attempt of a life may resume.
BeginAttempt ==
    /\ stage = "ready"
    /\ attempt' = attempt + 1 /\ inLife' = inLife + 1
    /\ saved' = Append(saved, NoMark)
    /\ stage' = IF Unfetchable THEN "failed" ELSE "walking"
    /\ cursor' = IF Resumable THEN ResumeAt(Latest.place) ELSE Start
    /\ list' = IF Resumable /\ Adapter = "yc" THEN Latest.list ELSE Queries
    /\ page' = NoPage /\ given' = {} /\ buffer' = {} /\ mark' = NoMark /\ asked' = 0
    /\ UNCHANGED <<site, board, life, stored, faults, withdrawn>>

\* Mutant of Ask: the checkpoint is marked as soon as the page has been parsed.
AskMarking ==
    /\ stage = "walking" /\ page = NoPage /\ ~Finished
    /\ asked' = asked + 1
    /\ list' = list \o Discovered
    /\ page' = [rows |-> Kept(Response), next |-> Turn(Response)]
    /\ mark' = IF Turn(Response).mark = NoMark THEN mark ELSE Checkpoint(Turn(Response).mark)
    /\ UNCHANGED <<site, board, life, stage, attempt, inLife, cursor, given, buffer, saved, stored, faults, withdrawn>>

\* ctx.http().send(), check_status() and the parser accept the page.
Ask ==
    /\ stage = "walking" /\ page = NoPage /\ ~Finished
    /\ asked' = asked + 1
    /\ list' = list \o Discovered
    /\ page' = [rows |-> Kept(Response), next |-> Turn(Response)]
    /\ UNCHANGED <<site, board, life, stage, attempt, inLife, cursor, given, buffer, mark, saved, stored, faults, withdrawn>>

\* RecordBatch: the rows and the checkpoint of the moment commit together.
Commit(rows) ==
    /\ stored' = stored \cup rows
    /\ saved' = IF mark = NoMark THEN saved ELSE [saved EXCEPT ![attempt] = mark]

\* workday, icims and yc pass over what this walk has yielded already.
Repeats(posting) == Adapter \in {"workday", "icims", "yc"} /\ posting \in given

\* The generator is pulled once; the scheduler may flush on any record.
Pull ==
    /\ stage = "walking" /\ page # NoPage /\ page.rows # <<>>
    /\ page' = [page EXCEPT !.rows = Tail(@)]
    /\ LET posting == Head(page.rows).posting IN
       IF Repeats(posting) THEN UNCHANGED <<given, buffer, stored, saved>>
       ELSE /\ given' = given \cup {posting}
            /\ \/ buffer' = buffer \cup {posting} /\ UNCHANGED <<stored, saved>>
               \/ buffer' = {} /\ Commit(buffer \cup {posting})
    /\ UNCHANGED <<site, board, life, stage, attempt, inLife, list, cursor, mark, asked, faults, withdrawn>>

\* The pull after a page's last record: mark_checkpoint, and on to the next request.
TurnPage ==
    /\ stage = "walking" /\ page # NoPage /\ page.rows = <<>>
    /\ cursor' = page.next.to /\ page' = NoPage
    /\ mark' = IF page.next.mark = NoMark THEN mark ELSE Checkpoint(page.next.mark)
    /\ UNCHANGED <<site, board, life, stage, attempt, inLife, list, given, buffer, saved, stored, asked, faults, withdrawn>>

EndAttempt(to) ==
    /\ stage' = to /\ Commit(buffer) /\ buffer' = {} /\ page' = NoPage
    /\ UNCHANGED <<site, board, life, attempt, inLife, list, cursor, given, mark, asked, withdrawn>>

Exhausted == stage = "walking" /\ page = NoPage /\ Finished /\ EndAttempt("succeeded") /\ UNCHANGED faults

\* A transient status or transport error buys the one retry; a permanent status, a
\* malformed envelope, the deadline and a cancel do not.
RequestFails ==
    /\ stage = "walking" /\ page = NoPage /\ ~Finished /\ faults < MaxFaults
    /\ faults' = faults + 1
    /\ \/ EndAttempt(IF inLife < MaxAttempts THEN "ready" ELSE "failed")
       \/ EndAttempt("failed")

\* The process dies, the search terms may be edited, and the run is resumed.
ProcessDies ==
    /\ stage \in {"ready", "walking"} /\ life < MaxLives
    /\ life' = life + 1 /\ inLife' = 0 /\ stage' = "planning"
    /\ page' = NoPage /\ given' = {} /\ buffer' = {} /\ mark' = NoMark /\ asked' = 0
    /\ UNCHANGED <<site, board, attempt, list, cursor, saved, stored, faults, withdrawn>>

\* A posting leaves a whole-board source and the rows behind it move up.
Withdraw ==
    /\ site.shifts /\ stage \in {"walking", "planning"} /\ withdrawn = {}
    /\ \E q \in DOMAIN board : \E k \in 1..Len(board[q]) :
          /\ withdrawn' = {board[q][k].posting}
          /\ board' = [board EXCEPT ![q] = SubSeq(@, 1, k - 1) \o SubSeq(@, k + 1, Len(@))]
    /\ UNCHANGED <<site, life, stage, attempt, inLife, list, cursor, page, given, buffer, mark, saved, stored, asked, faults>>

WalkNext == Plan \/ BeginAttempt \/ Ask \/ Pull \/ TurnPage \/ Exhausted \/ RequestFails \/ ProcessDies \/ Withdraw

WalkSpec == WalkInit /\ [][WalkNext]_walkVars

----------------------------------------------------------------------------
\* Each variable keeps its form and the generator never leaves its query list.
WalkTypeOK ==
    /\ stage \in {"planning", "unplanned", "rejected", "ready", "walking", "succeeded", "failed"}
    /\ life \in 1..MaxLives /\ inLife \in 0..MaxAttempts /\ attempt = Len(saved)
    /\ cursor.q \in 1..(Len(list) + 1) /\ (page # NoPage => cursor.q <= Len(list))
    /\ buffer \subseteq given \cup stored /\ faults \in 0..MaxFaults

\* What a walk is for: of each query, the rows its parser keeps among the pages the
\* adapter reads on an undisturbed source.
Sought(q) ==
    LET rows == board[q]
        horizon == IF Adapter \in {"amazon", "smartrecruiters"} /\ ~site.counted THEN PageSize
                   ELSE IF Adapter \in Single \cup {"smartrecruiters", "yc"} THEN Len(rows)
                   ELSE DepthCap * PageSize
        begun(k) == ((k - 1) \div PageSize) * PageSize
        alive(k) == \A n \in 0..(begun(k) \div PageSize - 1) :
                        \E i \in (n * PageSize + 1)..((n + 1) * PageSize) : Keeps(Adapter, rows[i].fields)
    IN {rows[k].posting : k \in {k \in 1..Len(rows) :
          k <= horizon /\ Keeps(Adapter, rows[k].fields) /\ (Adapter = "builtin" => alive(k))}}

\* The queries a target walks; yc's are all the pages its links lead to.
Reached ==
    LET closure[n \in Nat] == IF n = 0 THEN {"board"}
                              ELSE closure[n - 1] \cup {p \in DOMAIN site.links :
                                     \E o \in closure[n - 1] : \E k \in 1..Len(site.links[o]) : site.links[o][k] = p}
    IN IF Adapter = "yc" THEN {Query(p, "anywhere") : p \in closure[Cardinality(DOMAIN site.links)]}
       ELSE {Queries[n] : n \in 1..Len(Queries)}

\* A target that succeeds has stored everything its walk is for under the configuration
\* it ended with, whatever failed, was retried, died or was resumed on the way.
PromiseKept == stage = "succeeded" /\ withdrawn = {} => UNION {Sought(q) : q \in Reached} \subseteq stored

\* A checkpoint that a resume would take never runs ahead of what is committed: all the
\* queries before it, and in its own query the pages before it, are in the database.
CheckpointCovers ==
    LET c == Latest
        queries == IF Adapter = "yc" THEN c.list ELSE Queries
        read(q) == IF Adapter = "icims" THEN c.place.at * PageSize
                   ELSE IF Begins = 1 THEN (c.place.at - 1) * PageSize ELSE c.place.at
        before(q) == {board[q][k].posting : k \in 1..Lesser(read(q), Len(board[q]))}
    IN withdrawn = {} /\ stage # "rejected" /\ c # NoMark /\ IsValid(c) =>
         /\ \A n \in 1..Lesser(c.place.q - 1, Len(queries)) : Sought(queries[n]) \subseteq stored
         /\ c.place.q <= Len(queries) =>
              before(queries[c.place.q]) \cap Sought(queries[c.place.q]) \subseteq stored

\* A success on a whole-board source retires what it did not see.  When postings leave
\* the board during the walk, the rows behind move up, and as many that are still listed
\* can be missed: never more than left.
WrongAbsenceBounded ==
    stage = "succeeded" /\ Adapter \in Complete /\ site.counted =>
        Cardinality(UNION {Sought(q) : q \in Reached} \ stored) <= Cardinality(withdrawn)

\* Every walk ends: no query is asked more often than its cap and one empty page.
RequestsBounded ==
    asked <= IF Adapter = "smartrecruiters" THEN 2 + Len(board[Query("board", "anywhere")])
             ELSE IF Adapter \in Complete \ {"icims"} THEN Len(list) ELSE Len(list) * DepthCap

\* The walk's cursor is honest, and its end and its cost are bounded.
WalkSound == WalkTypeOK /\ CheckpointCovers /\ WrongAbsenceBounded /\ RequestsBounded
=============================================================================
