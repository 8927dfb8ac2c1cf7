---------------------------- MODULE PostingStore ----------------------------
(***************************************************************************)
(* The corpus side of webapp/backend/sources/runstore.py: how a batch of   *)
(* records becomes postings, aliases, conflicts, versions and membership   *)
(* rows, and which postings of a run are dirty.                            *)
(*                                                                         *)
(* A record is what a source says of one job: its namespace, requisition   *)
(* id, normalized url and text, the text standing for the other hashed     *)
(* fields.  A content hash covers all of them, so a version of a posting   *)
(* is the record itself.  A posting id is derived from a claim, so it is   *)
(* the claim.  Runs are numbered in the order of their requested_at.       *)
(***************************************************************************)
EXTENDS Integers, Sequences, FiniteSets, SequencesExt

CONSTANTS
    Records,      \* [ns, req, url, text]; req and url may be Blank
    Kinds,        \* kinds of run
    Members,      \* descriptor.run_kinds of each namespace
    LegacyUrls,   \* raw url of each posting migration 11 imported: [posting -> raw url]
    Normal,       \* normalize_url of each raw url, Blank when there is none
    PostingOrder, \* every posting id, in the order SQLite sorts them
    MaxRuns       \* bound: runs requested

Blank == ""
Namespaces == DOMAIN Members
Runs == 1 .. MaxRuns
Postings == {PostingOrder[i] : i \in DOMAIN PostingOrder}
NoPosting == <<"none", Blank, Blank>>
NoRecord == [ns |-> Blank, req |-> Blank, url |-> Blank, text |-> Blank]

Claim(kind, ns, value) == <<kind, ns, value>>

\* Precedence-ordered: the requisition claim first, whenever there is one.
IdentityClaims(r) ==
    (IF r.req = Blank THEN <<>> ELSE <<Claim("source_req", r.ns, r.req)>>)
      \o (IF r.url = Blank THEN <<>> ELSE <<Claim("url", "url", r.url)>>)

Usable == {r \in Records : IdentityClaims(r) # <<>>}

\* posting_id_for_claim is deterministic and injective.
PostingIdForClaim(c) == c

LegacyAlias(p) == Claim("url", "legacy-url", LegacyUrls[p])

ClaimsOnFile == UNION {ToSet(IdentityClaims(r)) : r \in Records}
                  \cup {LegacyAlias(p) : p \in DOMAIN LegacyUrls}
                  \cup {Claim("url", "url", Normal[LegacyUrls[p]]) : p \in DOMAIN LegacyUrls}

ASSUME StoreAssumption ==
    /\ MaxRuns \in Nat \ {0}
    /\ \A r \in Records : r.ns \in Namespaces
    /\ \A ns \in Namespaces : Members[ns] \subseteq Kinds
    /\ DOMAIN LegacyUrls \subseteq Postings
    /\ \A p \in DOMAIN LegacyUrls : LegacyUrls[p] \in DOMAIN Normal
    /\ \A r \in Usable : PostingIdForClaim(Head(IdentityClaims(r))) \in Postings

VARIABLES
    runs,      \* pipeline_runs: [kind, status] of each run
    alias,     \* the active alias of each claim
    born,      \* the run that minted a posting, 0: imported, -1: no row
    conflicts, \* identity_evidence of kind alias-conflict
    versions,  \* posting_versions: <<posting, record>>
    member     \* run_postings: [version, state, first] by run and posting

storeVars == <<runs, alias, born, conflicts, versions, member>>

EmptyState == [ns \in Namespaces |-> NoRecord]
NoRow == [version |-> NoRecord, state |-> EmptyState, first |-> FALSE]
Absent == [kind |-> "none", status |-> "none"]

StoreInit ==
    /\ runs = [n \in Runs |-> Absent]
    /\ alias = [c \in ClaimsOnFile |->
                  IF \E p \in DOMAIN LegacyUrls : c = LegacyAlias(p)
                  THEN CHOOSE p \in DOMAIN LegacyUrls : c = LegacyAlias(p)
                  ELSE NoPosting]
    /\ born = [p \in Postings |-> IF p \in DOMAIN LegacyUrls THEN 0 ELSE -1]
    /\ conflicts = {}
    /\ versions = {}
    /\ member = [n \in Runs |-> [p \in Postings |-> NoRow]]

-----------------------------------------------------------------------------
(* Reading the rows *)

Recorded(n, p) == member[n][p].version # NoRecord

Latest(S) == CHOOSE n \in S : \A m \in S : m <= n

\* The last recorded state of a posting, by the run's requested_at.
CurrentState(p) ==
    LET at == {n \in Runs : Recorded(n, p)}
    IN  IF at = {} THEN EmptyState ELSE member[Latest(at)][p].state

ConsumedStatuses == {"succeeded"}

\* The runs before n that recorded p and whose dirty set counts as consumed.
ConsumedBefore(n, p) ==
    {m \in 1 .. (n - 1) : Recorded(m, p) /\ runs[m].status \in ConsumedStatuses}

\* Variant: any earlier observation is a baseline.
DirtyAgainstAny(n) ==
    {p \in Postings :
       /\ Recorded(n, p)
       /\ LET before == {m \in 1 .. (n - 1) : Recorded(m, p)}
          IN  before # {} => member[Latest(before)][p].state # member[n][p].state}

DirtyPostingIds(n) ==
    {p \in Postings :
       /\ Recorded(n, p)
       /\ LET before == ConsumedBefore(n, p)
          IN  before # {} => member[Latest(before)][p].state # member[n][p].state}

-----------------------------------------------------------------------------
(* write_records: pass one, identity *)

\* Variant: a url may stand in for a requisition nobody has claimed.
ResolvingAnyClaim(r, al) ==
    LET cs == IdentityClaims(r)
        hit == {i \in DOMAIN cs : al[cs[i]] # NoPosting}
    IN  IF hit = {} THEN NoPosting ELSE al[cs[CHOOSE i \in hit : \A j \in hit : i <= j]]

\* The posting a record resolves to: by its requisition alone when it has one,
\* and a record without one has no claim but its url.
Resolving(r, al) == al[Head(IdentityClaims(r))]

\* A claim that points at another posting is evidence, and is not moved.
Conflicts(r, p, al) ==
    {[claim |-> c, posting |-> p, other |-> al[c], record |-> r] :
       c \in {d \in ToSet(IdentityClaims(r)) : al[d] \notin {NoPosting, p}}}

\* One record of pass one; acc is what the pass has written so far.
Identify(n, acc, r) ==
    LET found == Resolving(r, acc.alias)
        p     == IF found = NoPosting
                 THEN PostingIdForClaim(Head(IdentityClaims(r))) ELSE found
        mint  == found = NoPosting /\ acc.born[p] = -1
    IN  [alias |-> [c \in DOMAIN acc.alias |->
                      IF c \in ToSet(IdentityClaims(r)) /\ acc.alias[c] = NoPosting
                      THEN p ELSE acc.alias[c]],
         born |-> IF mint THEN [acc.born EXCEPT ![p] = n] ELSE acc.born,
         conflicts |-> acc.conflicts \cup Conflicts(r, p, acc.alias),
         resolved |-> Append(acc.resolved, [record |-> r, posting |-> p, first |-> mint])]

-----------------------------------------------------------------------------
(* write_records: pass two, content *)

\* A record moves the entry of its own source and no other.
Moved(state, r) == [state EXCEPT ![r.ns] = r]

\* INSERT OR IGNORE: a revert to content already on file adds no version.
LinkSourceVersion(on_file, x) == on_file \cup {<<x.posting, x.record>>}

\* INSERT OR IGNORE of the membership row, and the update of a row that is there:
\* everything that describes the observation moves, first_seen_in_run stays.
Describe(acc, x) ==
    LET state == Moved(acc.states[x.posting], x.record)
        old   == acc.rows[x.posting]
    IN  [states |-> [acc.states EXCEPT ![x.posting] = state],
         versions |-> LinkSourceVersion(acc.versions, x),
         rows |-> [acc.rows EXCEPT ![x.posting] =
                     [version |-> x.record, state |-> state,
                      first |-> IF old = NoRow THEN x.first ELSE old.first]]]

\* One batch in one transaction.  Identity is resolved for the whole batch
\* first; the states are read once, after that.
WriteRecords(n, batch) ==
    LET usable == SelectSeq(batch, LAMBDA r : IdentityClaims(r) # <<>>)
        one == FoldLeft(LAMBDA acc, r : Identify(n, acc, r),
                        [alias |-> alias, born |-> born, conflicts |-> conflicts,
                         resolved |-> <<>>], usable)
        two == FoldLeft(Describe,
                        [states |-> [p \in Postings |-> CurrentState(p)],
                         versions |-> versions, rows |-> member[n]], one.resolved)
    IN  /\ alias' = one.alias
        /\ born' = one.born
        /\ conflicts' = one.conflicts
        /\ versions' = two.versions
        /\ member' = [member EXCEPT ![n] = two.rows]

-----------------------------------------------------------------------------
(* Runs *)

Active(n) == runs[n].status = "running"

Unused(n) == runs[n].status = "none" /\ \A m \in 1 .. (n - 1) : runs[m].status # "none"

CreateRun(n, kind) ==
    /\ Unused(n)
    /\ runs' = [runs EXCEPT ![n] = [kind |-> kind, status |-> "running"]]
    /\ UNCHANGED <<alias, born, conflicts, versions, member>>

\* A batch of an attempt: records of one source that belongs to the run's kind.
Deliver(n, batch) ==
    /\ Active(n)
    /\ \A i \in DOMAIN batch : runs[n].kind \in Members[batch[i].ns]
    /\ \A i, j \in DOMAIN batch : batch[i].ns = batch[j].ns
    /\ WriteRecords(n, batch)
    /\ UNCHANGED runs

FinishRun(n, status) ==
    /\ Active(n)
    /\ runs' = [runs EXCEPT ![n].status = status]
    /\ UNCHANGED <<alias, born, conflicts, versions, member>>

-----------------------------------------------------------------------------
StoreTypeOK ==
    /\ \A n \in Runs : runs[n].status \in
         {"none", "running", "succeeded", "partial", "cancelled", "interrupted"}
    /\ alias \in [ClaimsOnFile -> Postings \cup {NoPosting}]
    /\ born \in [Postings -> -1 .. MaxRuns]
    /\ versions \subseteq Postings \X Records
    /\ \A n \in Runs, p \in Postings :
         /\ member[n][p].version \in Records \cup {NoRecord}
         /\ member[n][p].state \in [Namespaces -> Records \cup {NoRecord}]
         /\ member[n][p].first \in BOOLEAN
=============================================================================
