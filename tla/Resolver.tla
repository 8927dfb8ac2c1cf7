------------------------------ MODULE Resolver ------------------------------
(***************************************************************************)
(* webapp/backend/sources/resolver.py over the tables of PostingStore: the *)
(* normalization bridge from migration 11's raw urls to canonical aliases, *)
(* the local match of a run's aggregator postings against its direct       *)
(* inventory, redirects, and the queue of score invalidations.             *)
(*                                                                         *)
(* A text is a record [company, title, location] of token sequences.  Both *)
(* stages are one transaction each.                                        *)
(***************************************************************************)
EXTENDS PostingStore

CONSTANTS
    Category,     \* SourceCategory of each namespace
    Ad,           \* the tokens of each text
    CompanyNoise, \* legal-form tokens
    ShortTokens   \* location tokens shorter than MIN_LOCATION_TOKEN

VARIABLES
    redirect,  \* posting_redirects
    invalid,   \* score_invalidations by posting and run: none, open, consumed
    evidence   \* identity_evidence of the resolver

resolverVars == <<redirect, invalid, evidence>>

DirectCategories == {"direct", "startup_board"}

ResolverInit ==
    /\ redirect = [p \in Postings |-> NoPosting]
    /\ invalid = [p \in Postings |-> [n \in Runs |-> "none"]]
    /\ evidence = {}

-----------------------------------------------------------------------------
(* The pure match *)

CompanyKey(name) == SelectSeq(name, LAMBDA t : t \notin CompanyNoise)

\* MIN_TITLE_JACCARD = 3/4 of the token union; an empty side scores 0.
TitleJaccard(left, right) ==
    LET a == ToSet(left)
        b == ToSet(right)
    IN  /\ a # {} /\ b # {}
        /\ 4 * Cardinality(a \cap b) >= 3 * Cardinality(a \cup b)

LocationTokens(location) == ToSet(location) \ ShortTokens

LocationsCompatible(left, right) ==
    LET a == LocationTokens(left)
        b == LocationTokens(right)
    IN  a = {} \/ b = {} \/ a \cap b # {}

Text(n, p) == Ad[member[n][p].version.text]
ObservedCategory(n, p) == Category[member[n][p].version.ns]
RunObservations(n) == {p \in Postings : Recorded(n, p)}

\* build_direct_index, asked for one company.
DirectCandidates(n, company) ==
    {p \in RunObservations(n) :
       /\ ObservedCategory(n, p) \in DirectCategories
       /\ CompanyKey(Text(n, p).company) # <<>>
       /\ CompanyKey(Text(n, p).company) = CompanyKey(company)}

Survivors(n, p) ==
    LET mine == Text(n, p)
    IN  {q \in DirectCandidates(n, mine.company) \ {p} :
           /\ \/ Text(n, q).title = mine.title
              \/ TitleJaccard(mine.title, Text(n, q).title)
           /\ LocationsCompatible(mine.location, Text(n, q).location)}

\* Exactly one survivor is a match.
ResolveLocal(n, p) ==
    LET s == Survivors(n, p)
    IN  IF Cardinality(s) = 1 THEN CHOOSE q \in s : TRUE ELSE NoPosting

-----------------------------------------------------------------------------
(* Persistence primitives; acc holds the tables of the transaction *)

HasRank0Alias(al, p) == \E c \in DOMAIN al : c[1] = "source_req" /\ al[c] = p

HasDirectRank0Alias(al, p) ==
    \E c \in DOMAIN al :
      c[1] = "source_req" /\ al[c] = p /\ Category[c[2]] \in DirectCategories

Position(p) == CHOOSE i \in DOMAIN PostingOrder : PostingOrder[i] = p

\* A requisition wins, then the older posting, then the smaller id.
ChooseSurvivor(al, left, right) ==
    IF HasRank0Alias(al, left) # HasRank0Alias(al, right)
    THEN IF HasRank0Alias(al, left) THEN left ELSE right
    ELSE IF \/ born[left] < born[right]
            \/ born[left] = born[right] /\ Position(left) <= Position(right)
         THEN left ELSE right

RecordRedirect(acc, from, to) ==
    IF from = to \/ acc.redirect[from] # NoPosting THEN acc
    ELSE [acc EXCEPT !.redirect[from] = to]

\* One row per posting and run; a row that is there is left alone.
EmitInvalidation(acc, p, n) ==
    IF acc.invalid[p][n] # "none" THEN acc ELSE [acc EXCEPT !.invalid[p][n] = "open"]

Evidence(acc, p, kind, others) ==
    [acc EXCEPT !.evidence = @ \cup {[posting |-> p, kind |-> kind, others |-> others]}]

OpenInvalidations == {p \in Postings : \E n \in Runs : invalid[p][n] = "open"}

Consumed(ps) ==
    [p \in Postings |-> [n \in Runs |->
       IF p \in ps /\ invalid[p][n] = "open" THEN "consumed" ELSE invalid[p][n]]]

-----------------------------------------------------------------------------
(* The two stages *)

LegacyPostings(al, url) ==
    {p \in DOMAIN LegacyUrls : al[LegacyAlias(p)] = p /\ Normal[LegacyUrls[p]] = url}

\* Everything is gated on the redirect being new.
Merged(acc, loser, survivor, n) ==
    LET done == RecordRedirect(acc, loser, survivor)
    IN  IF done = acc THEN acc
        ELSE EmitInvalidation(Evidence(done, survivor, "canonical-match", {loser}), survivor, n)

\* One normalized url of the bridge: ambiguous, bridged, known, or a match.
BridgeOne(n, acc, url) ==
    LET group == LegacyPostings(acc.alias, url)
        claim == Claim("url", "url", url)
        mine  == CHOOSE p \in group : TRUE
        other == acc.alias[claim]
        wins  == ChooseSurvivor(acc.alias, other, mine)
    IN  IF group = {} THEN acc
        ELSE IF Cardinality(group) > 1
        THEN FoldSet(LAMBDA p, a : Evidence(a, p, "normalization-bridge-ambiguous", group),
                     acc, group)
        ELSE IF other = NoPosting THEN [acc EXCEPT !.alias[claim] = mine]
        ELSE IF other = mine THEN acc
        ELSE Merged(acc, IF wins = mine THEN other ELSE mine, wins, n)

Tables == [alias |-> alias, redirect |-> redirect, invalid |-> invalid, evidence |-> evidence]

Write(acc) ==
    /\ alias' = acc.alias
    /\ redirect' = acc.redirect
    /\ invalid' = acc.invalid
    /\ evidence' = acc.evidence

\* The urls the legacy aliases normalize to; one group never touches another's rows.
BridgedUrls == {Normal[u] : u \in DOMAIN Normal} \ {Blank}

BridgeLegacyUrls(n) ==
    /\ Write(FoldSet(LAMBDA url, acc : BridgeOne(n, acc, url), Tables, BridgedUrls))
    /\ UNCHANGED <<runs, born, conflicts, versions, member>>

\* This run's aggregator observations that resolve to nothing else yet.
Subjects(n) ==
    {p \in RunObservations(n) :
       ObservedCategory(n, p) = "aggregator" /\ redirect[p] = NoPosting}

ResolveOne(n, acc, p) ==
    LET to == ResolveLocal(n, p)
    IN  IF HasDirectRank0Alias(acc.alias, p) THEN acc
        ELSE IF to # NoPosting
        THEN EmitInvalidation(Evidence(RecordRedirect(acc, p, to), to, "canonical-match", {p}), to, n)
        ELSE IF Cardinality(Survivors(n, p)) > 1
        THEN Evidence(acc, p, "canonical-match-ambiguous", Survivors(n, p))
        ELSE acc

ResolveAggregators(n) ==
    /\ Write(FoldLeft(LAMBDA acc, p : ResolveOne(n, acc, p), Tables,
                      SelectSeq(PostingOrder, LAMBDA p : p \in Subjects(n))))
    /\ UNCHANGED <<runs, born, conflicts, versions, member>>

-----------------------------------------------------------------------------
ResolverTypeOK ==
    /\ redirect \in [Postings -> Postings \cup {NoPosting}]
    /\ invalid \in [Postings -> [Runs -> {"none", "open", "consumed"}]]
    /\ \A e \in evidence : e.posting \in Postings /\ e.others \subseteq Postings
=============================================================================
