------------------------------ MODULE LlmReview ------------------------------
(* The review pass: walk a work list page by page, weigh each posting, ask *)
(* the model about the borderline ones and commit one row per answer.  It  *)
(* reads what DescriptionFetch writes; passes of two processes, rescoring  *)
(* and enrichment interleave with it between its reads and its commits.    *)
EXTENDS DescriptionFetch, SequencesExt

CONSTANTS
    Reviewers,    \* calls of review_run that may overlap
    Reviewed,     \* postings, ranked by id
    PostingOf,    \* the posting each version describes
    NoWorkRow,    \* postings build_work_rows skips
    Tiers,        \* tiers a score pass may give; 0 stands for no current score
    Models,
    Responses,    \* what the client may return, by name
    BatchSize, MaxReviews

ASSUME ReviewAssumption ==
    /\ IsFiniteSet(Reviewed) /\ Reviewed \subseteq Nat \ {0}
    /\ BatchSize \in Nat \ {0} /\ MaxReviews \in Nat
    /\ \A s \in Settings : /\ s.reviews \in Nat /\ s.work \subseteq SUBSET Reviewed
                           /\ s.tiers \subseteq [Versions -> Tiers]
    /\ Tiers \subseteq Nat

MinReviewTier == 3

\* The newest usable row of a posting, 0 if it has none.
Newest(posting) ==
    LET mine == SelectSeq(order, LAMBDA v : PostingOf[v] = posting)
    IN  IF mine = <<>> THEN 0 ELSE Last(mine)
HasDescription(v) == v # 0 /\ desc[v] = "available"

\* The version build_work_rows picks: the last observed.
Current(posting) ==
    CHOOSE v \in Versions : PostingOf[v] = posting /\ \A w \in Versions : PostingOf[w] = posting => w <= v
\* A posting with a work row was observed.
ASSUME RowAssumption == \A n \in Reviewed \ NoWorkRow : Current(n) \in Versions

Eligibility(t, described) ==
    IF t = 0 THEN "not scored"
    ELSE IF t < MinReviewTier THEN "below the band"
    ELSE IF described THEN "eligible" ELSE "no description"

\* review_hash, with the two columns that complete the key.
ReviewKey(posting, described, t, model) ==
    [version |-> Current(posting), desc |-> described, tier |-> t, model |-> model]

\* parse_verdict: the whole answer, exactly the three keys, each in its range.
Valid(r) ==
    /\ r.text = "one object"
    /\ r.keys = {"tier", "why", "confidence"}
    /\ r.tier \in 1 .. 5
    /\ r.confidence \in {"high", "medium", "low"}
    /\ r.why = "fits"

\* The three endings of an attempt, and the one retry before them.
RetriesCall(reply, try) == reply = "transient" /\ try = 1
OutcomeOf(reply) ==
    IF reply \in {"transient", "permanent"} THEN "transport failed"
    ELSE IF Valid(Responses[reply]) THEN "ok" ELSE "invalid response"
Outcomes == {"ok", "invalid response", "transport failed"}
------------------------------------------------------------------------------
VARIABLES
    tier,     \* per version: the tier of its current score
    reviews,  \* llm_reviews: the outcome on file per key
    rev,      \* per reviewer: its call of review_run
    found,    \* history: per reviewer, the keys its call found eligible
    spent,    \* history: per reviewer, the keys of this page it has asked about
    reviewCalls, rescores

reviewVars == <<tier, reviews, rev, found, spent, reviewCalls, rescores>>
allVars == <<enrichVars, reviewVars>>

NoCall == [at |-> "idle", work |-> {}, model |-> "", cursor |-> 0, page |-> {}, bodies |-> <<>>,
           pending |-> {}, try |-> 1, considered |-> 0, eligible |-> 0, skipped |-> 0,
           cached |-> 0, attempted |-> 0, ok |-> 0, written |-> 0, deferred |-> 0, exhausted |-> FALSE]

ReviewInit ==
    /\ tier \in setting.tiers /\ reviews = <<>>
    /\ rev = [q \in Reviewers |-> NoCall] /\ found = [q \in Reviewers |-> {}] /\ spent = found
    /\ reviewCalls = 0 /\ rescores = 0

Running(q) == rev[q].at \notin {"idle", "reported"}
OnFile(key) == IF key \in DOMAIN reviews THEN reviews[key] ELSE "none"

StartReview(q) ==
    /\ ~Running(q) /\ reviewCalls < setting.reviews /\ reviewCalls' = reviewCalls + 1
    /\ \E work \in setting.work, model \in Models :
          rev' = [rev EXCEPT ![q] = [NoCall EXCEPT !.at = "select", !.work = work, !.model = model]]
    /\ found' = [found EXCEPT ![q] = {}] /\ spent' = [spent EXCEPT ![q] = {}]
    /\ UNCHANGED <<enrichVars, tier, reviews, rescores>>

\* select_work after the cursor: the first BatchSize postings.
SelectedPage(work, cursor) ==
    LET rest == {n \in work : n > cursor}
    IN  {n \in rest : Cardinality({m \in rest : m < n}) < BatchSize}

\* A page and its work rows, the bodies among them.
ReadPage(q) ==
    LET r == rev[q]
        page == SelectedPage(r.work, r.cursor)
        rows == page \ NoWorkRow
    IN
    /\ r.at = "select"
    /\ \/ page = {} /\ rev' = [rev EXCEPT ![q].at = "reported"]
       \/ \E last \in page :
             /\ \A n \in page : n <= last
             /\ rev' = [rev EXCEPT ![q] =
                  [r EXCEPT !.at = "weigh", !.page = page, !.cursor = last, !.bodies = [n \in rows |-> Newest(n)],
                            !.considered = @ + Cardinality(page), !.skipped = @ + Cardinality(page \ rows)]]
    /\ spent' = [spent EXCEPT ![q] = {}]
    /\ UNCHANGED <<enrichVars, tier, reviews, found, reviewCalls, rescores>>

\* Scores, description identities and reviews on file are read after the work rows.
CandidateKey(q, n) == ReviewKey(n, Newest(n), tier[Current(n)], rev[q].model)
Eligible(q) ==
    {n \in DOMAIN rev[q].bodies : Eligibility(tier[Current(n)], HasDescription(rev[q].bodies[n])) = "eligible"}
Settled(key) == OnFile(key) = "ok"
Ahead(a, b) == \/ a.tier > b.tier
               \/ a.tier = b.tier /\ PostingOf[a.version] < PostingOf[b.version]
Weigh(q) ==
    LET r == rev[q]
        keys == {CandidateKey(q, n) : n \in Eligible(q)}
        pending == {k \in keys : ~Settled(k)}
    IN
    /\ r.at = "weigh"
    /\ rev' = [rev EXCEPT ![q] =
         [r EXCEPT !.at = "review", !.try = 1, !.pending = pending,
                   !.eligible = @ + Cardinality(keys),
                   !.skipped = @ + Cardinality(DOMAIN r.bodies) - Cardinality(keys),
                   !.cached = @ + Cardinality(keys \ pending)]]
    /\ found' = [found EXCEPT ![q] = @ \cup keys]
    /\ UNCHANGED <<enrichVars, tier, reviews, spent, reviewCalls, rescores>>

Affordable(q) == rev[q].attempted < MaxReviews

\* The upsert rewrites a row only while it is not settled.
Written(key, outcome) == IF OnFile(key) = "ok" THEN "ok" ELSE outcome

\* The client answers or raises about the first posting by the order of the page.
Foremost(q, key) == \A k \in rev[q].pending : ~Ahead(k, key)
Replied(q, reply) ==
    LET r == rev[q] IN
    /\ r.at = "review" /\ Affordable(q)
    /\ \E key \in r.pending : Foremost(q, key) /\
       \/ /\ RetriesCall(reply, r.try)
          /\ rev' = [rev EXCEPT ![q].try = 2] /\ UNCHANGED <<reviews, spent>>
       \/ /\ ~RetriesCall(reply, r.try)
          /\ reviews' = [k \in DOMAIN reviews \cup {key} |->
                            IF k = key THEN Written(k, OutcomeOf(reply)) ELSE reviews[k]]
          /\ spent' = [spent EXCEPT ![q] = @ \cup {key}]
          /\ rev' = [rev EXCEPT ![q] =
               [r EXCEPT !.pending = @ \ {key}, !.try = 1, !.attempted = @ + 1, !.written = @ + 1,
                         !.ok = IF OutcomeOf(reply) = "ok" THEN @ + 1 ELSE @]]
    /\ UNCHANGED <<enrichVars, tier, found, reviewCalls, rescores>>

\* The budget is spent: the rest of the page is left for another call.
Defer(q) ==
    LET r == rev[q] IN
    /\ r.at = "review" /\ r.pending # {} /\ ~Affordable(q)
    /\ rev' = [rev EXCEPT ![q] = [r EXCEPT !.deferred = @ + Cardinality(r.pending), !.pending = {}, !.exhausted = TRUE]]
    /\ UNCHANGED <<enrichVars, tier, reviews, found, spent, reviewCalls, rescores>>

\* Mutant of LastPage: a full page is taken for the last.
LastPageFull(r) == r.exhausted \/ Cardinality(r.page) <= BatchSize
LastPage(r) == r.exhausted \/ Cardinality(r.page) < BatchSize
EndPage(q) ==
    LET r == rev[q] IN
    /\ r.at = "review" /\ r.pending = {}
    /\ rev' = [rev EXCEPT ![q].at = IF LastPage(r) THEN "reported" ELSE "select"]
    /\ UNCHANGED <<enrichVars, tier, reviews, found, spent, reviewCalls, rescores>>

\* Its process dies, or the database fails under it: what is committed stays.
ReviewerDies(q) ==
    /\ Running(q) /\ broken < setting.broken /\ broken' = broken + 1
    /\ rev' = [rev EXCEPT ![q] = NoCall]
    /\ UNCHANGED <<desc, order, setting, call, item, inflight, late, tally, calls, tier, reviews, found, spent, reviewCalls, rescores>>

\* A score pass replaces the current score of a version.
ScoreMoves(v) ==
    /\ v \in setting.rescored /\ rescores = 0 /\ rescores' = 1
    /\ \E t \in Tiers \ {tier[v]} : tier' = [tier EXCEPT ![v] = t]
    /\ UNCHANGED <<enrichVars, reviews, rev, found, spent, reviewCalls>>

ReviewStep(q) ==
    \/ StartReview(q) \/ ReadPage(q) \/ Weigh(q) \/ Defer(q) \/ EndPage(q) \/ ReviewerDies(q)
    \/ \E reply \in DOMAIN Responses \cup {"transient", "permanent"} : Replied(q, reply)
ReviewNext ==
    \/ EnrichNext /\ UNCHANGED reviewVars
    \/ \E q \in Reviewers : ReviewStep(q)
    \/ \E v \in Versions : ScoreMoves(v)

ReviewSpec == EnrichInit /\ ReviewInit /\ [][ReviewNext]_allVars
------------------------------------------------------------------------------
(* Properties.                                                             *)

ReviewTypeOK ==
    /\ tier \in [Versions -> Tiers]
    /\ \A key \in DOMAIN reviews : reviews[key] \in Outcomes
    /\ \A q \in Reviewers :
          /\ rev[q].at \in {"idle", "select", "weigh", "review", "reported"}
          /\ rev[q].page \subseteq Reviewed /\ rev[q].try \in 1 .. 2
    /\ reviewCalls \in 0 .. setting.reviews /\ rescores \in 0 .. 1

\* A settled review stays: no later, failed or concurrent answer about the same
\* key changes it, and no row is lost.
SettledReviewsStay ==
    [][\A key \in DOMAIN reviews : key \in DOMAIN reviews' /\ (reviews[key] = "ok" => reviews'[key] = "ok")]_reviews

\* The report's accounting invariants, and the budget.
ReviewBalances ==
    \A q \in Reviewers : LET r == rev[q] IN r.at = "reported" =>
        /\ r.considered = r.eligible + r.skipped
        /\ r.eligible = r.cached + r.attempted + r.deferred
        /\ r.written = r.attempted /\ r.ok <= r.attempted
        /\ r.attempted <= MaxReviews

\* A call that did not run out of budget has looked at its whole work list and
\* left a row, of success or of failure, for every key it found eligible.
NothingPassedOver ==
    \A q \in Reviewers : LET r == rev[q] IN
        r.at = "reported" /\ ~r.exhausted =>
            r.considered = Cardinality(r.work) /\ found[q] \subseteq DOMAIN reviews

\* Within a page the budget goes to the highest tiers: nothing still to ask, or
\* left when the budget ran out, had a higher tier than what was asked.
HighestTierFirst ==
    \A q \in Reviewers : \A key \in spent[q] : \A k \in rev[q].pending : k.tier <= key.tier

\* A review call spends its budget on the best first, misses nothing and counts right.
ReviewsSound == ReviewTypeOK /\ ReviewBalances /\ NothingPassedOver /\ HighestTierFirst

\* What a pass has read or a reviewer has settled, no later or slower answer replaces.
AnswersStay == UsableIsFinal /\ SettledReviewsStay
==============================================================================
