----------------------------- MODULE ScoreGraph -----------------------------
(***************************************************************************)
(* webapp/backend/sources/graph.py and scoring.py over the resolver's      *)
(* tables: choosing a posting's canonical version, deciding between a full *)
(* and an incremental pass, paging through the work, and the supersession  *)
(* chain of score_versions.                                                *)
(*                                                                         *)
(* A profile version and a scorer hash together are one identity.  Both    *)
(* are content hashes, so an edit that is taken back brings an identity    *)
(* back.  A score_version_id is derived from the posting version, the      *)
(* identity and the description, so it is the triple of them.  What the    *)
(* rubric makes of the inputs is not modelled.                             *)
(***************************************************************************)
EXTENDS Resolver, TLC

CONSTANTS
    NsOrder,      \* the namespaces, sorted
    BatchSize,    \* DEFAULT_BATCH_SIZE
    Identities,   \* the profiles and scorers that come into force
    Bodies        \* what a description can say; Blank is a page with no text

NoIdentity == "no identity"
NoText == "no description"

ASSUME GraphAssumption ==
    /\ BatchSize \in Nat \ {0}
    /\ NoIdentity \notin Identities
    /\ ToSet(NsOrder) = Namespaces
    /\ NoText \notin Bodies

VARIABLES
    description, \* description_for of each posting: its newest usable body
    described,   \* the versions with a usable description
    passes,      \* score_passes of each run: [status, mode, who]
    score,       \* score_versions: [current, by] of each triple
    pass         \* the pass in memory: [run, stage, cursor, touched]

graphVars == <<description, described, passes, score, pass>>

NoPass == [status |-> "none", mode |-> "none", who |-> NoIdentity]
Idle == [run |-> 0, stage |-> "idle", cursor |-> 0, touched |-> {}]
Nobody == <<>>

GraphInit ==
    /\ description = [p \in Postings |-> NoText]
    /\ described = {}
    /\ passes = [n \in Runs |-> NoPass]
    /\ score = <<>>
    /\ pass = Idle

-----------------------------------------------------------------------------
(* The canonical version *)

CATEGORY_RANK == [direct |-> 3, startup_board |-> 3, manual |-> 2, aggregator |-> 1]

HasState(p) == \E n \in Runs : Recorded(n, p)

\* The posting's own state first, then those redirected into it, one hop, sorted.
StateMaps(p) ==
    SelectSeq(<<p>> \o SelectSeq(PostingOrder, LAMBDA q : redirect[q] = p), HasState)

\* Who speaks for a namespace: the first state map that mentions it.
Speakers(p, ns) == SelectSeq(StateMaps(p), LAMBDA q : CurrentState(q)[ns] # NoRecord)

\* The version of the best category, ties by namespace: <<owning posting, record>>.
SelectCanonicalVersion(p) ==
    LET spoken == SelectSeq(NsOrder, LAMBDA ns : Speakers(p, ns) # <<>>)
        rank(ns) == CATEGORY_RANK[Category[ns]]
        best == SelectSeq(spoken, LAMBDA ns : \A o \in ToSet(spoken) : rank(o) <= rank(ns))
        owner == Head(Speakers(p, Head(best)))
    IN  IF spoken = <<>> THEN <<NoPosting, NoRecord>>
        ELSE <<owner, CurrentState(owner)[Head(best)]>>

NoVersion == <<NoPosting, NoRecord>>

\* build_work_rows skips a posting that resolves elsewhere or has no state.
Scorable(p) == redirect[p] = NoPosting /\ SelectCanonicalVersion(p) # NoVersion

-----------------------------------------------------------------------------
(* Which pass, and over what *)

Succeeded(n) == runs[n].status = "succeeded"

\* The completed pass of the newest succeeded run before n.
BaselinePass(n) ==
    LET before == {m \in 1 .. (n - 1) : Succeeded(m)}
    IN  IF before = {} THEN NoPass
        ELSE LET row == passes[Latest(before)]
             IN  IF row.status = "completed" THEN row ELSE NoPass

DecideMode(n, who) ==
    IF BaselinePass(n) # NoPass /\ BaselinePass(n).who = who THEN "incremental" ELSE "full"

CorpusPostings == {p \in Postings : HasState(p)}

Work(n, mode) ==
    IF mode = "full" THEN CorpusPostings ELSE DirtyPostingIds(n) \cup OpenInvalidations

\* Positions in PostingOrder of one page after the cursor.
SelectWork(n, mode, after) ==
    LET ahead == {i \in DOMAIN PostingOrder : i > after /\ PostingOrder[i] \in Work(n, mode)}
    IN  {i \in ahead : Cardinality({j \in ahead : j < i}) < BatchSize}

-----------------------------------------------------------------------------
(* persist_scores *)

\* The newest body of the posting that is not unavailable.
DescriptionFor(p) == description[p]

ScoreId(p, who) == <<SelectCanonicalVersion(p), who, DescriptionFor(p)>>

Same(k, l) == k[1] = l[1] /\ k[2] = l[2]

\* The current rows of the version and identity of k.
CurrentRows(rows, k) == {l \in DOMAIN rows : Same(k, l) /\ rows[l].current}

\* Variant: the replaced row is not told by what.
LandedWithoutPointer(rows, k) ==
    [l \in DOMAIN rows \cup {k} |->
       IF l = k THEN [current |-> TRUE, by |-> Nobody]
       ELSE IF l \in CurrentRows(rows, k) THEN [current |-> FALSE, by |-> Nobody] ELSE rows[l]]

\* A fresh row, or a superseded one revived; either replaces the current one.
Landed(rows, k) ==
    [l \in DOMAIN rows \cup {k} |->
       IF l = k THEN [current |-> TRUE, by |-> Nobody]
       ELSE IF l \in CurrentRows(rows, k) THEN [current |-> FALSE, by |-> k] ELSE rows[l]]

\* Inputs that are those of the current row are reused.
PersistScore(rows, k) == IF k \in CurrentRows(rows, k) THEN rows ELSE Landed(rows, k)

-----------------------------------------------------------------------------
(* The operations of a pass, one transaction each *)

Open(n) == pass.run = n /\ n # 0
Who == passes[pass.run].who
Mode == passes[pass.run].mode

\* The profile document and the scorer are those of this moment: an edit since the
\* last pass is seen here and nowhere else.
OpenPass(n, who) ==
    /\ pass = Idle
    /\ passes' = [passes EXCEPT ![n] =
                    [status |-> "running", mode |-> DecideMode(n, who), who |-> who]]
    /\ pass' = [Idle EXCEPT !.run = n, !.stage = "bridge"]
    /\ UNCHANGED <<storeVars, resolverVars, description, described, score>>

BridgeStage(n) ==
    /\ Open(n) /\ pass.stage = "bridge"
    /\ BridgeLegacyUrls(n)
    /\ pass' = [pass EXCEPT !.stage = "resolve"]
    /\ UNCHANGED <<description, described, passes, score>>

ResolvePass(n) ==
    /\ Open(n) /\ pass.stage = "resolve"
    /\ ResolveAggregators(n)
    /\ pass' = [pass EXCEPT !.stage = "score"]
    /\ UNCHANGED <<description, described, passes, score>>

\* One page: the rows it skips count as selected all the same.
ScoreGraphPass(n) ==
    /\ Open(n) /\ pass.stage = "score"
    /\ LET page == SelectWork(n, Mode, pass.cursor)
           ids  == {PostingOrder[i] : i \in page}
       IN  /\ page # {}
           /\ score' = FoldSet(LAMBDA p, rows : PersistScore(rows, ScoreId(p, Who)),
                               score, {p \in ids : Scorable(p)})
           /\ pass' = [pass EXCEPT !.cursor = Latest(page), !.touched = @ \cup ids]
    /\ UNCHANGED <<storeVars, resolverVars, description, described, passes>>

ClosePass(n) ==
    /\ Open(n) /\ pass.stage = "score"
    /\ SelectWork(n, Mode, pass.cursor) = {}
    /\ invalid' = Consumed(IF Mode = "full" THEN Postings ELSE pass.touched)
    /\ passes' = [passes EXCEPT ![n].status = "completed"]
    /\ pass' = Idle
    /\ UNCHANGED <<storeVars, redirect, evidence, description, described, score>>

\* A cancel or a failure between two operations: the row stays running.
AbandonPass(n) ==
    /\ Open(n)
    /\ pass' = Idle
    /\ UNCHANGED <<storeVars, resolverVars, description, described, passes, score>>

\* One posting of enrichment: a usable answer is kept per version, and only a
\* version without one is fetched.  An unusable answer reads back as nothing.
EnrichPosting(n, p, body) ==
    /\ p \in DirtyPostingIds(n)
    /\ <<p, member[n][p].version>> \notin described
    /\ described' = described \cup {<<p, member[n][p].version>>}
    /\ description' = [description EXCEPT ![p] = body]
    /\ UNCHANGED <<storeVars, resolverVars, passes, score, pass>>

-----------------------------------------------------------------------------
GraphTypeOK ==
    /\ description \in [Postings -> Bodies \cup {NoText}]
    /\ described \subseteq versions
    /\ \A n \in Runs :
         /\ passes[n].status \in {"none", "running", "completed"}
         /\ passes[n].mode \in {"none", "full", "incremental"}
         /\ passes[n].who \in Identities \cup {NoIdentity}
    /\ \A k \in DOMAIN score :
         /\ k[1] \in versions /\ k[2] \in Identities /\ k[3] \in Bodies \cup {NoText}
         /\ score[k].by \in DOMAIN score \cup {Nobody}
    /\ pass.stage \in {"idle", "bridge", "resolve", "score"}
    /\ pass.touched \subseteq Postings
=============================================================================
