---------------------------- MODULE CorpusLanes -----------------------------
(***************************************************************************)
(* The corpus under the run service: two lanes of runs write postings at   *)
(* the same time, a staged run enriches and scores after it has finished,  *)
(* any of it may be cancelled or lost with the process, and the profile    *)
(* may be edited in between.                                               *)
(*                                                                         *)
(* A staged run holds its lane until its stages are over.  Runs that have  *)
(* no stages share a lane of their own and may overlap.                    *)
(***************************************************************************)
EXTENDS ScoreGraph

CONSTANTS
    Staged,   \* STAGED_KINDS
    Batches,  \* the batches a source may deliver
    MaxBatches \* bound: batches delivered in all

ASSUME LanesAssumption == Staged \subseteq Kinds /\ MaxBatches \in Nat

VARIABLES
    stage,     \* the task of each active run: none, fetch, enrich, score
    delivered  \* batches so far

vars == <<storeVars, resolverVars, graphVars, stage, delivered>>

Init ==
    /\ StoreInit /\ ResolverInit /\ GraphInit
    /\ stage = [n \in Runs |-> "none"]
    /\ delivered = 0

IsStaged(kind) == kind \in Staged
Busy == {n \in Runs : stage[n] # "none"}

StartRun(n, kind) ==
    /\ \A m \in Busy : IsStaged(runs[m].kind) # IsStaged(kind)
    /\ CreateRun(n, kind)
    /\ stage' = [stage EXCEPT ![n] = "fetch"]
    /\ UNCHANGED <<resolverVars, graphVars, delivered>>

Fetch(n, batch) ==
    /\ stage[n] = "fetch"
    /\ delivered < MaxBatches
    /\ delivered' = delivered + 1
    /\ Deliver(n, batch)
    /\ UNCHANGED <<resolverVars, graphVars, stage>>

\* The scheduler is done; a staged run goes on to its stages.  A cancelled run is a
\* partial one whose stages stop at once: no query here tells the statuses apart.
Settle(n, status) ==
    /\ stage[n] = "fetch"
    /\ FinishRun(n, status)
    /\ stage' = [stage EXCEPT ![n] = IF IsStaged(runs[n].kind) THEN "enrich" ELSE "none"]
    /\ UNCHANGED <<resolverVars, graphVars, delivered>>

Enrich(n, p, body) ==
    /\ stage[n] = "enrich"
    /\ EnrichPosting(n, p, body)
    /\ UNCHANGED <<stage, delivered>>

\* Enrichment over, whatever it fetched; scoring follows.
Score(n) ==
    /\ stage[n] = "enrich"
    /\ \E who \in Identities : OpenPass(n, who)
    /\ stage' = [stage EXCEPT ![n] = "score"]
    /\ UNCHANGED delivered

ScoreStep(n) ==
    /\ BridgeStage(n) \/ ResolvePass(n) \/ ScoreGraphPass(n)
    /\ UNCHANGED <<stage, delivered>>

Close(n) ==
    /\ ClosePass(n)
    /\ stage' = [stage EXCEPT ![n] = "none"]
    /\ UNCHANGED delivered

\* A cancel or an error ends the stages; the run's status stays what it was.
StopEnriching(n) ==
    /\ stage[n] = "enrich"
    /\ stage' = [stage EXCEPT ![n] = "none"]
    /\ UNCHANGED <<storeVars, resolverVars, graphVars, delivered>>

StopScoring(n) ==
    /\ AbandonPass(n)
    /\ stage' = [stage EXCEPT ![n] = "none"]
    /\ UNCHANGED delivered

\* The process dies; the next one marks the runs it finds running interrupted.
Restart ==
    /\ Busy # {}
    /\ runs' = [n \in Runs |-> IF Active(n) THEN [runs[n] EXCEPT !.status = "interrupted"] ELSE runs[n]]
    /\ stage' = [n \in Runs |-> "none"]
    /\ pass' = Idle
    /\ UNCHANGED <<alias, born, conflicts, versions, member, resolverVars,
                   description, described, passes, score, delivered>>

Next ==
    \/ \E n \in Runs :
         \/ \E kind \in Kinds : StartRun(n, kind)
         \/ \E batch \in Batches : Fetch(n, batch)
         \/ \E status \in {"succeeded", "partial"} : Settle(n, status)
         \/ \E p \in Postings, body \in Bodies : Enrich(n, p, body)
         \/ Score(n) \/ ScoreStep(n) \/ Close(n)
         \/ StopEnriching(n) \/ StopScoring(n)
    \/ Restart

Spec == Init /\ [][Next]_vars

-----------------------------------------------------------------------------
TypeOK ==
    /\ StoreTypeOK /\ ResolverTypeOK /\ GraphTypeOK
    /\ stage \in [Runs -> {"none", "fetch", "enrich", "score"}]
    /\ delivered \in 0 .. MaxBatches

\* No requisition is ever folded into another's posting: write_records resolves a
\* record that has a requisition by it alone, so a url two requisitions share never
\* merges them, whatever the order of the batches (runstore.py write_records).
RequisitionsStayApart ==
    \A p \in Postings :
      Cardinality({c \in ClaimsOnFile : c[1] = "source_req" /\ alias[c] = p}) <= 1

\* Every claim a stored version makes leads to its posting, or the dispute is on
\* file as evidence: nothing is moved and nothing is dropped in silence.
ClaimsAccounted ==
    \A v \in versions : \A c \in ToSet(IdentityClaims(v[2])) :
      \/ alias[c] = v[1]
      \/ \E e \in conflicts : e.claim = c /\ e.posting = v[1]

\* Every redirect has its evidence and has told the scorer: the posting that now
\* speaks for both carries an invalidation, whichever lane or death came between.
MergeAnnounced ==
    \A p \in Postings :
      LET q == redirect[p]
      IN  q # NoPosting =>
            /\ q # p
            /\ \E e \in evidence : e.posting = q /\ e.kind = "canonical-match" /\ p \in e.others
            /\ \E n \in Runs : invalid[q][n] # "none"

\* A posting version has at most one current score per profile and scorer, however
\* often it is scored, reverted and scored again (scoring.py persist_scores).
OneCurrentScore ==
    \A k, l \in DOMAIN score : Same(k, l) /\ score[k].current /\ score[l].current => k = l

\* Following superseded_by from any row ends at a current row: reviving a row never
\* closes a cycle.
SupersessionEnds ==
    \A k \in DOMAIN score :
      LET next(l) == IF l = Nobody \/ score[l].current THEN l ELSE score[l].by
          last == FoldLeft(LAMBDA l, i : next(l), k, [i \in 1 .. Cardinality(DOMAIN score) |-> i])
      IN  last # Nobody /\ score[last].current /\ score[last].by = Nobody

HasCurrentScore(p, who) ==
    \E k \in DOMAIN score :
      k[1] = SelectCanonicalVersion(p) /\ k[2] = who /\ score[k].current

Private(p) == \A m \in Runs : Recorded(m, p) => IsStaged(runs[m].kind)

\* When a pass completes, every posting its run observed that is not redirected has
\* a current score of its canonical version under the pass's identity: the dirty
\* set, the open invalidations and the licence for an incremental pass miss nothing
\* across partial, cancelled and interrupted runs, abandoned passes and profile
\* edits.  Said of the postings only staged runs have touched.
ObservedIsScored ==
    [][\A n \in Runs :
         passes[n].status # "completed" /\ passes[n]'.status = "completed" =>
           \A p \in RunObservations(n) :
             Private(p) /\ Scorable(p) => HasCurrentScore(p, passes[n].who)]_vars

\* Identities stay sound: no two requisitions under one posting, every claim
\* accounted for, every merge evidenced and announced to the scorer.
IdentitiesSound == TypeOK /\ RequisitionsStayApart /\ ClaimsAccounted /\ MergeAnnounced

\* Score chains stay sound: one current row, and every superseded row leads to it.
ScoreChainsSound == OneCurrentScore /\ SupersessionEnds
=============================================================================
