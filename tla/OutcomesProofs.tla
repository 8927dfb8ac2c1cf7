--------------------------- MODULE OutcomesProofs ---------------------------
(***************************************************************************)
(* Proofs about the job desk, the snapshots of the Today queue and the     *)
(* outcome events, for every set of urls, roles, requests and postings.    *)
(***************************************************************************)
EXTENDS Outcomes, FiniteSetTheorems, SequenceTheorems, WellFoundedInduction, TLAPS

(* The queue *)

Lanes == {"bank", "aim"}
Slots(S) == [job : S, lane : Lanes]
Fillings(S) ==
    [entries : Seq(Slots(S)), decided : SUBSET S,
     capped : [{"company-cap", "uncertainty-cap"} -> SUBSET S]]

LEMMA TryTyped ==
  ASSUME NEW S, NEW acc \in Fillings(S), NEW place \in SUBSET S, NEW lane \in Lanes, NEW cap
  PROVE  Try(acc, place, lane, cap) \in Fillings(S)
<1>1. CASE place = {}
  BY <1>1 DEF Try
<1>2. CASE place # {}
  <2> DEFINE j == CHOOSE x \in place : TRUE
             turn == [job |-> j, lane |-> lane]
  <2>1. j \in S
    BY <1>2
  <2> HIDE DEF j
  <2>2. turn \in Slots(S) /\ turn.job = j
    BY <2>1 DEF Slots
  <2> HIDE DEF turn
  <2>3. [acc EXCEPT !.decided = @ \cup {j}, !.capped["company-cap"] = @ \cup {j}] \in Fillings(S)
    BY <2>1 DEF Fillings
  <2>4. [acc EXCEPT !.decided = @ \cup {j}, !.capped["uncertainty-cap"] = @ \cup {j}] \in Fillings(S)
    BY <2>1 DEF Fillings
  <2>5. [acc EXCEPT !.decided = @ \cup {j}, !.entries = Append(@, turn)] \in Fillings(S)
    <3>1. Append(acc.entries, turn) \in Seq(Slots(S))
      BY <2>2, AppendProperties DEF Fillings
    <3>2. acc.decided \cup {j} \in SUBSET S
      BY <2>1 DEF Fillings
    <3> QED BY <3>1, <3>2 DEF Fillings
  <2>6. TryPush(acc, turn, cap) \in Fillings(S)
    BY <2>2, <2>3, <2>4, <2>5 DEF TryPush
  <2>7. Try(acc, place, lane, cap) = TryPush(acc, turn, cap)
    BY <1>2 DEF Try, turn, j
  <2> QED BY <2>6, <2>7
<1> QED BY <1>1, <1>2

LEMMA RoundTyped ==
  ASSUME NEW S, NEW acc \in Fillings(S), NEW i, NEW cap
  PROVE  Round(acc, S, i, cap) \in Fillings(S)
<1>1. Bank(S, i) \in SUBSET S /\ Aim(S, i) \in SUBSET S
  BY DEF Bank, Aim
<1>2. Try(acc, Bank(S, i), "bank", cap) \in Fillings(S)
  BY <1>1, TryTyped DEF Lanes
<1>3. Try(Try(acc, Bank(S, i), "bank", cap), Aim(S, i), "aim", cap) \in Fillings(S)
  BY <1>1, <1>2, TryTyped DEF Lanes
<1> QED BY <1>3 DEF Round

\* A set of numbers that holds 0 and every successor of its members holds them all.
LEMMA EveryNumber ==
  ASSUME NEW P \in SUBSET Nat, 0 \in P, \A n \in P : n + 1 \in P
  PROVE  P = Nat
<1> SUFFICES ASSUME P # Nat PROVE FALSE
  OBVIOUS
<1> DEFINE B == Nat \ P
<1>1. B \subseteq Nat /\ B # {}
  OBVIOUS
<1> HIDE DEF B
<1>2. PICK m \in B : \A n \in B : ~(<<n, m>> \in OpToRel(<, Nat))
  BY <1>1, NatLessThanWellFounded, WFMin, Zenon
<1>3. \A n \in B : ~(n < m)
  BY <1>1, <1>2, Zenon DEF OpToRel
<1>4. m \in Nat /\ m \notin P /\ m # 0
  BY DEF B
<1>5. m - 1 \in Nat /\ m - 1 < m
  BY <1>4
<1>6. m - 1 \in P
  BY <1>3, <1>5 DEF B
<1>7. (m - 1) + 1 \in P
  BY <1>6
<1> QED BY <1>4, <1>7

\* The queue holds candidates only, each in a lane (ranking.py build_queue).
LEMMA FilledTyped ==
  ASSUME NEW S, IsFiniteSet(S), NEW cap
  PROVE  Filled(S, cap) \in Fillings(S)
<1> DEFINE F(f, n) == f = [i \in 0 .. n |-> IF i = 0 THEN Unfilled ELSE Round(f[i - 1], S, i, cap)]
           P == {n \in Nat : \E f : F(f, n)}
           N == Cardinality(S)
           after == CHOOSE f : F(f, N)
<1>1. N \in Nat
  BY FS_CardinalityType
<1>2. 0 \in P
  <2>1. F([i \in 0 .. 0 |-> Unfilled], 0)
    OBVIOUS
  <2> QED BY <2>1
<1>3. ASSUME NEW n \in P PROVE n + 1 \in P
  <2>1. PICK f : F(f, n)
    OBVIOUS
  <2> DEFINE g == [i \in 0 .. (n + 1) |-> IF i = 0 THEN Unfilled ELSE Round(f[i - 1], S, i, cap)]
  <2>2. \A i \in 0 .. n : g[i] = f[i]
    BY <2>1
  <2>3. F(g, n + 1)
    <3>1. \A i \in 0 .. (n + 1) : i # 0 => i - 1 \in 0 .. n
      OBVIOUS
    <3>2. \A i \in 0 .. (n + 1) : i # 0 => g[i - 1] = f[i - 1]
      BY <2>2, <3>1
    <3> QED BY <3>2
  <2> HIDE DEF F, g
  <2>4. \E h : F(h, n + 1)
    BY <2>3
  <2> QED BY <2>4
<1>4. P = Nat
  <2> HIDE DEF P
  <2>1. P \subseteq Nat
    BY DEF P
  <2> QED BY <1>2, <1>3, <2>1, EveryNumber
<1>5. F(after, N)
  <2>1. \E f : F(f, N)
    BY <1>1, <1>4
  <2> HIDE DEF F
  <2> QED BY <2>1
<1>6. Filled(S, cap) = after[N]
  BY DEF Filled
<1> HIDE DEF after
<1> DEFINE G == {n \in Nat : n <= N => after[n] \in Fillings(S)}
<1>7. 0 \in G
  <2>1. Unfilled \in Fillings(S)
    BY DEF Unfilled, Fillings
  <2> QED BY <1>1, <1>5, <2>1
<1>8. ASSUME NEW n \in G PROVE n + 1 \in G
  <2>1. CASE n + 1 <= N
    <3>1. after[n] \in Fillings(S)
      BY <1>1, <2>1
    <3>2. after[n + 1] = Round(after[(n + 1) - 1], S, n + 1, cap)
      BY <1>1, <1>5, <2>1
    <3>3. (n + 1) - 1 = n
      OBVIOUS
    <3>4. after[n + 1] = Round(after[n], S, n + 1, cap)
      BY <3>2, <3>3
    <3> QED BY <3>1, <3>4, RoundTyped
  <2> QED BY <1>1, <2>1
<1>9. G = Nat
  <2> HIDE DEF G
  <2>1. G \subseteq Nat
    BY DEF G
  <2> QED BY <1>7, <1>8, <2>1, EveryNumber
<1> QED BY <1>1, <1>6, <1>9

LEMMA QueueTyped ==
  ASSUME NEW S, IsFiniteSet(S), NEW cap
  PROVE  BuildQueue(S, cap).entries \in Seq(Slots(S))
<1>1. EligibleJobs(S) \subseteq S /\ IsFiniteSet(EligibleJobs(S))
  BY FS_Subset DEF EligibleJobs
<1>2. Filled(EligibleJobs(S), cap).entries \in Seq(Slots(EligibleJobs(S)))
  BY <1>1, FilledTyped DEF Fillings
<1>3. Slots(EligibleJobs(S)) \subseteq Slots(S)
  BY <1>1 DEF Slots
<1>4. Filled(EligibleJobs(S), cap).entries \in Seq(Slots(S))
  BY <1>2, <1>3
<1> QED BY <1>4 DEF BuildQueue

(* The inductive invariant *)

StateRows == [exists : BOOLEAN, url : Urls \cup {Null}, status : Statuses,
              starred : {0, 1}, applied_date : 0 .. MaxDay]
CompanyRows == [contact : {0, 1}, notes : {0, 1}]
EventRows == [id : Requests, key : Nat, posting : Postings \cup {NoKey},
              snapshot : Requests \cup {NoRequest}, rank : Nat, derived : BOOLEAN]

\* A job that is present has a role, and a role without a row has the columns' defaults.
RowsWhole ==
    /\ \A u \in Urls : jobs[u].present => jobs[u].key # NoKey
    /\ \A k \in Keys : ~desk[k].exists => desk[k] = NoState

\* An event that names a snapshot stands for one of its items.
Attributed(e) ==
    e.snapshot # NoRequest =>
        /\ e.snapshot \in DOMAIN snapshots
        /\ \E i \in snapshots[e.snapshot].items :
             i.rank = e.rank /\ (e.derived => i.posting = e.posting)

\* A set of items that is one ranking, each of one listing.
IsRanking(items) ==
    /\ items \in SUBSET Items
    /\ \A a, b \in items : a # b => a.rank # b.rank /\ a.posting # b.posting
    /\ \A i \in items : i.score \in {Null, i.version}

PatchWaits(q) ==
    /\ q.url \in Urls /\ q.key \in Keys /\ q.changes \in Patches /\ q.old \in StateRows

CompanyWaits(q) ==
    /\ q.row \in CompanyRows /\ q.old \in CompanyRows
    /\ q.row.contact >= q.old.contact /\ q.row.notes >= q.old.notes

QueueWaits(q) ==
    /\ Len(q.queue) \in Nat /\ DOMAIN q.queue = 1 .. Len(q.queue)
    /\ \A i \in DOMAIN q.queue : q.queue[i].job.url \in Urls /\ jobs[q.queue[i].job.url].key # NoKey

\* What a request carries from its reads to its writes.
RequestSound(r) ==
    \/ req[r].op \in {"new", "done", "refused"}
    \/ req[r].op = "apply" /\ PatchWaits(req[r])
    \/ req[r].op = "company" /\ CompanyWaits(req[r])
    \/ req[r].op = "capture" /\ IsRanking(req[r].items)
    \/ req[r].op = "serve" /\ QueueWaits(req[r])
    \/ /\ req[r].op = "record" /\ req[r] = [op |-> "record", row |-> req[r].row]
       /\ req[r].row \in EventRows /\ Attributed(req[r].row)
    \/ /\ req[r].op = "readback" /\ req[r].row \in EventRows
       /\ IF req[r].row.key # Null THEN Stored(req[r].row.key) # {} ELSE req[r].row \in events

RequestsSound ==
    /\ req = [r \in Requests |-> req[r]]
    /\ \A r \in Requests : RequestSound(r)

CorpusTyped ==
    /\ version \in [Postings -> 1 .. MaxVersions]
    /\ score \in [Postings -> 0 .. MaxVersions]
    /\ alias \in [Urls -> Postings \cup {NoKey}]

SnapshotsKept ==
    /\ snapshots = [r \in DOMAIN snapshots |-> snapshots[r]]
    /\ DOMAIN snapshots \subseteq Requests
    /\ \A r \in DOMAIN snapshots : IsRanking(snapshots[r].items)
    /\ \A r, q \in DOMAIN snapshots :
         snapshots[r].surface = "today" /\ snapshots[q].surface = "today" /\ snapshots[r].day = snapshots[q].day
            => r = q

EventsKept ==
    /\ events \subseteq EventRows
    /\ \A e \in events : Attributed(e)
    /\ \A e, f \in events : e.key # Null /\ e.key = f.key => e = f

RepliesKept ==
    /\ reply = [r \in DOMAIN reply |-> reply[r]]
    /\ \A r \in DOMAIN reply : reply[r].kind = "snapshot" => reply[r].what \in DOMAIN snapshots
    /\ \A r \in DOMAIN reply : reply[r].kind = "event" => reply[r].what \in events

DeskInv == DeskTypeOK /\ RowsWhole /\ OwnCard /\ TrailReplays

OutcomesInv ==
    /\ DeskInv
    /\ RequestsSound
    /\ CorpusTyped /\ SnapshotsKept /\ EventsKept /\ RepliesKept

DeskTables == <<jobs, desk, trail, company, today, ingests, raced, astray>>

\* The tables only grow: no snapshot is dropped or edited, no event is dropped, and a
\* url that has had a job keeps one.
Kept ==
    /\ \A u \in Urls : jobs[u].key # NoKey => jobs'[u].key # NoKey
    /\ \A r \in DOMAIN snapshots : r \in DOMAIN snapshots' /\ snapshots'[r] = snapshots[r]
    /\ events \subseteq events'

LEMMA DeskStays == ASSUME DeskInv, UNCHANGED DeskTables PROVE DeskInv'
<1>1. DeskTypeOK'
  BY DEF DeskInv, DeskTypeOK, DeskTables
<1>2. RowsWhole'
  BY DEF DeskInv, RowsWhole, DeskTables
<1>3. OwnCard' /\ TrailReplays'
  BY DEF DeskInv, OwnCard, TrailReplays, DeskTables
<1> QED BY <1>1, <1>2, <1>3 DEF DeskInv

LEMMA CorpusStays ==
  ASSUME CorpusTyped, UNCHANGED <<version, score, alias>> PROVE CorpusTyped'
BY DEF CorpusTyped

LEMMA SnapshotsStay == ASSUME SnapshotsKept, UNCHANGED snapshots PROVE SnapshotsKept'
BY DEF SnapshotsKept, IsRanking

LEMMA AttributedStays ==
  ASSUME NEW e, Attributed(e), Kept PROVE Attributed(e)'
BY DEF Attributed, Kept

LEMMA EventsStay == ASSUME EventsKept, Kept, UNCHANGED events PROVE EventsKept'
<1>1. \A e \in events : Attributed(e)'
  BY AttributedStays DEF EventsKept
<1>2. \A e \in events' : Attributed(e)'
  BY <1>1
<1> QED BY <1>2 DEF EventsKept

LEMMA RepliesStay == ASSUME RepliesKept, Kept, UNCHANGED reply PROVE RepliesKept'
BY DEF RepliesKept, Kept

LEMMA RequestStays ==
  ASSUME NEW r \in Requests, RequestSound(r), req'[r] = req[r], Kept
  PROVE  RequestSound(r)'
<1>1. CASE req[r].op \in {"new", "done", "refused"}
  BY <1>1 DEF RequestSound
<1>2. CASE req[r].op = "apply" /\ PatchWaits(req[r])
  BY <1>2 DEF RequestSound, PatchWaits
<1>3. CASE req[r].op = "company" /\ CompanyWaits(req[r])
  BY <1>3 DEF RequestSound, CompanyWaits
<1>4. CASE req[r].op = "capture" /\ IsRanking(req[r].items)
  BY <1>4 DEF RequestSound, IsRanking
<1>5. CASE req[r].op = "serve" /\ QueueWaits(req[r])
  BY <1>5 DEF RequestSound, QueueWaits, Kept
<1>6. CASE /\ req[r].op = "record" /\ req[r] = [op |-> "record", row |-> req[r].row]
           /\ req[r].row \in EventRows /\ Attributed(req[r].row)
  <2>1. Attributed(req[r].row)'
    BY <1>6 DEF Attributed, Kept
  <2> QED BY <1>6, <2>1 DEF RequestSound
<1>7. CASE /\ req[r].op = "readback" /\ req[r].row \in EventRows
           /\ IF req[r].row.key # Null THEN Stored(req[r].row.key) # {} ELSE req[r].row \in events
  BY <1>7 DEF RequestSound, Stored, Kept
<1> QED BY <1>1, <1>2, <1>3, <1>4, <1>5, <1>6, <1>7 DEF RequestSound

\* One request moves, the others wait as they did.
LEMMA RequestsMove ==
  ASSUME RequestsSound, Kept, NEW r \in Requests, NEW new, req' = [req EXCEPT ![r] = new], RequestSound(r)'
  PROVE  RequestsSound'
<1>1. ASSUME NEW q \in Requests, q # r PROVE RequestSound(q)'
  <2>1. req'[q] = req[q]
    BY <1>1 DEF RequestsSound
  <2> QED BY <2>1, RequestStays DEF RequestsSound
<1>2. \A q \in Requests : RequestSound(q)'
  BY <1>1
<1>3. req' = [q \in Requests |-> req'[q]]
  BY DEF RequestsSound
<1> QED BY <1>2, <1>3 DEF RequestsSound

LEMMA RequestsStay ==
  ASSUME RequestsSound, Kept, UNCHANGED req PROVE RequestsSound'
<1>1. \A q \in Requests : RequestSound(q)'
  BY RequestStays DEF RequestsSound
<1> QED BY <1>1 DEF RequestsSound

LEMMA NothingLost == ASSUME UNCHANGED <<jobs, snapshots, events>> PROVE Kept
BY DEF Kept

(* The desk *)

LEMMA OwnerFacts ==
  ASSUME DeskTypeOK, NEW url \in Urls, Known(url)
  PROVE  ResolveSeenKey(url) \in Keys
<1>1. CASE jobs[url].key # NoKey
  BY <1>1 DEF ResolveSeenKey, DeskTypeOK
<1>2. CASE jobs[url].key = NoKey
  <2>1. OwnersOf(url) # {} /\ OwnersOf(url) \subseteq Keys
    BY <1>2 DEF Known, OwnersOf
  <2> QED BY <1>2, <2>1 DEF ResolveSeenKey
<1> QED BY <1>1, <1>2

LEMMA PatchReadKeeps ==
  ASSUME OutcomesInv, NEW r \in Requests, NEW url \in Urls, NEW changes \in Patches,
         PatchRead(r, url, changes), UNCHANGED outcomeVars
  PROVE  OutcomesInv'
<1> DEFINE new == [op |-> "apply", url |-> url, key |-> ResolveSeenKey(url),
                   changes |-> changes, old |-> desk[ResolveSeenKey(url)]]
<1>1. req' = [req EXCEPT ![r] = new] /\ UNCHANGED DeskTables /\ Known(url)
  BY DEF PatchRead, DeskTables
<1>2. Kept
  BY NothingLost, <1>1 DEF DeskTables, outcomeVars
<1>3. ResolveSeenKey(url) \in Keys
  BY <1>1, OwnerFacts DEF OutcomesInv, DeskInv
<1>4. desk[ResolveSeenKey(url)] \in StateRows
  BY <1>3 DEF OutcomesInv, DeskInv, DeskTypeOK, StateRows
<1>5. req'[r] = new
  BY <1>1 DEF OutcomesInv, RequestsSound
<1>6. RequestSound(r)'
  BY <1>3, <1>4, <1>5 DEF RequestSound, PatchWaits
<1> HIDE DEF new
<1>7. RequestsSound'
  BY <1>1, <1>2, <1>6, RequestsMove DEF OutcomesInv
<1> QED BY <1>1, <1>2, <1>7, DeskStays, CorpusStays, SnapshotsStay, EventsStay, RepliesStay DEF OutcomesInv, outcomeVars

LEMMA UpsertTyped ==
  ASSUME NEW row \in StateRows, NEW url \in Urls, NEW changes \in Patches, NEW day \in 1 .. MaxDay
  PROVE  /\ Upsert(row, url, changes, day) \in StateRows
         /\ Upsert(row, url, changes, day).exists /\ Upsert(row, url, changes, day).url = url
<1>1. /\ "status" \in DOMAIN changes => changes["status"] \in Statuses
      /\ "starred" \in DOMAIN changes => changes["starred"] \in {0, 1}
      /\ "applied_date" \in DOMAIN changes => changes["applied_date"] \in 0 .. MaxDay
  BY DeskAssumption
<1>2. day \in 0 .. MaxDay
  BY DeskAssumption
<1> QED BY <1>1, <1>2 DEF Upsert, StateRows

\* The trail of a field after an edit whose reading of the row was still true.
LEMMA TrailFollows ==
  ASSUME NEW row \in StateRows, NEW url, NEW changes \in Patches, NEW day \in 1 .. MaxDay,
         NEW log, \A f \in Fields : log[f] = row[f], NEW f \in Fields
  PROVE  RecordFieldEvents(log, row, NewValues(changes, row, day))[f] = Upsert(row, url, changes, day)[f]
<1> DEFINE new == NewValues(changes, row, day)
<1>1. RecordFieldEvents(log, row, new)[f] = IF f \in DOMAIN new /\ (~row.exists \/ new[f] # row[f]) THEN new[f] ELSE row[f]
  BY DEF RecordFieldEvents
<1>2. DOMAIN changes \subseteq Fields
  BY DeskAssumption
<1>3. DOMAIN new = DOMAIN changes \cup (IF AutoApplied(changes) THEN {"applied_date"} ELSE {})
  BY DEF NewValues
<1>4. \A g \in DOMAIN new : new[g] = IF g \in DOMAIN changes THEN changes[g]
                                     ELSE IF row.applied_date # Null THEN row.applied_date ELSE day
  BY DEF NewValues
<1> DEFINE U == Upsert(row, url, changes, day)
<1>5. /\ U.status = IF "status" \in DOMAIN changes THEN changes["status"] ELSE row.status
      /\ U.starred = IF "starred" \in DOMAIN changes THEN changes["starred"] ELSE row.starred
      /\ U.applied_date = IF "applied_date" \in DOMAIN changes THEN changes["applied_date"]
                         ELSE IF AutoApplied(changes) /\ row.applied_date = Null THEN day ELSE row.applied_date
  BY DEF Upsert
<1> HIDE DEF new, U
<1>6. CASE f = "status"
  <2>1. RecordFieldEvents(log, row, new)["status"] = U["status"]
    BY <1>1, <1>3, <1>4, <1>5, <1>6
  <2> QED BY <2>1, <1>6 DEF new, U
<1>7. CASE f = "starred"
  <2>1. RecordFieldEvents(log, row, new)["starred"] = U["starred"]
    BY <1>1, <1>3, <1>4, <1>5, <1>7
  <2> QED BY <2>1, <1>7 DEF new, U
<1>8. CASE f = "applied_date"
  <2>1. RecordFieldEvents(log, row, new)["applied_date"] = U["applied_date"]
    BY <1>1, <1>3, <1>4, <1>5, <1>8 DEF AutoApplied
  <2> QED BY <2>1, <1>8 DEF new, U
<1> QED BY <1>6, <1>7, <1>8 DEF Fields

LEMMA TrailTyped ==
  ASSUME NEW row, NEW changes \in Patches, NEW day \in 1 .. MaxDay, row.applied_date \in 0 .. MaxDay,
         NEW log \in [status : Statuses, starred : {0, 1}, applied_date : 0 .. MaxDay]
  PROVE  RecordFieldEvents(log, row, NewValues(changes, row, day))
           \in [status : Statuses, starred : {0, 1}, applied_date : 0 .. MaxDay]
<1> DEFINE new == NewValues(changes, row, day)
           U == RecordFieldEvents(log, row, new)
<1>1. /\ DOMAIN changes \subseteq Fields
      /\ "status" \in DOMAIN changes => changes["status"] \in Statuses
      /\ "starred" \in DOMAIN changes => changes["starred"] \in {0, 1}
      /\ "applied_date" \in DOMAIN changes => changes["applied_date"] \in 0 .. MaxDay
  BY DeskAssumption
<1>2. DOMAIN new = DOMAIN changes \cup (IF AutoApplied(changes) THEN {"applied_date"} ELSE {})
  BY DEF NewValues
<1>3. \A g \in DOMAIN new : new[g] = IF g \in DOMAIN changes THEN changes[g]
                                     ELSE IF row.applied_date # Null THEN row.applied_date ELSE day
  BY DEF NewValues
<1>4. day \in 0 .. MaxDay
  BY DeskAssumption
<1>5. U = [f \in Fields |-> IF f \in DOMAIN new /\ (~row.exists \/ new[f] # row[f]) THEN new[f] ELSE log[f]]
  BY DEF RecordFieldEvents
<1> HIDE DEF new, U
<1>6. U["status"] \in Statuses
  BY <1>1, <1>2, <1>3, <1>5 DEF Fields
<1>7. U["starred"] \in {0, 1}
  BY <1>1, <1>2, <1>3, <1>5 DEF Fields
<1>8. U["applied_date"] \in 0 .. MaxDay
  BY <1>1, <1>2, <1>3, <1>4, <1>5 DEF Fields
<1>9. U \in [status : Statuses, starred : {0, 1}, applied_date : 0 .. MaxDay]
  BY <1>5, <1>6, <1>7, <1>8 DEF Fields
<1> QED BY <1>9 DEF U, new

LEMMA PatchWriteKeeps ==
  ASSUME OutcomesInv, NEW r \in Requests, PatchWrite(r), UNCHANGED outcomeVars
  PROVE  OutcomesInv'
<1>1. PICK q : q = req[r]
  OBVIOUS
<1>2. req[r].op = "apply" /\ PatchWaits(req[r])
  BY DEF PatchWrite, OutcomesInv, RequestsSound, RequestSound
<1>3. q.url \in Urls /\ q.key \in Keys /\ q.changes \in Patches /\ q.old \in StateRows
  BY <1>1, <1>2 DEF PatchWaits
<1>4. /\ desk' = [desk EXCEPT ![q.key] = Upsert(desk[q.key], q.url, q.changes, today)]
      /\ trail' = [trail EXCEPT ![q.key] = RecordFieldEvents(trail[q.key], q.old, NewValues(q.changes, q.old, today))]
      /\ raced' = IF q.old # desk[q.key] THEN raced \cup {q.key} ELSE raced
      /\ astray' = IF jobs[q.url].key \notin {q.key, NoKey} THEN astray \cup {q.key} ELSE astray
      /\ req' = [req EXCEPT ![r] = [op |-> "done"]]
      /\ UNCHANGED <<jobs, company, today, ingests>>
  BY <1>1 DEF PatchWrite
<1>5. DeskTypeOK /\ RowsWhole /\ OwnCard /\ TrailReplays
  BY DEF OutcomesInv, DeskInv
<1>6. /\ desk \in [Keys -> StateRows] /\ today \in 1 .. MaxDay
      /\ trail \in [Keys -> [status : Statuses, starred : {0, 1}, applied_date : 0 .. MaxDay]]
  BY <1>5 DEF DeskTypeOK, StateRows
<1> DEFINE new == Upsert(desk[q.key], q.url, q.changes, today)
           log == RecordFieldEvents(trail[q.key], q.old, NewValues(q.changes, q.old, today))
<1>7. new \in StateRows /\ new.exists /\ new.url = q.url
  BY <1>3, <1>6, UpsertTyped
<1>8. log \in [status : Statuses, starred : {0, 1}, applied_date : 0 .. MaxDay]
  BY <1>3, <1>6, TrailTyped DEF StateRows
<1>9. q.old = desk[q.key] /\ q.key \notin raced => \A f \in Fields : log[f] = new[f]
  <2> SUFFICES ASSUME q.old = desk[q.key], q.key \notin raced, NEW f \in Fields PROVE log[f] = new[f]
    OBVIOUS
  <2>1. \A g \in Fields : trail[q.key][g] = desk[q.key][g]
    BY <1>3, <1>5 DEF TrailReplays
  <2>2. desk[q.key] \in StateRows
    BY <1>3, <1>6
  <2>3. PICK row \in StateRows : row = desk[q.key]
    BY <2>2
  <2>4. PICK earlier : earlier = trail[q.key]
    OBVIOUS
  <2>5. PICK day \in 1 .. MaxDay : day = today
    BY <1>6
  <2>6. RecordFieldEvents(earlier, row, NewValues(q.changes, row, day))[f] = Upsert(row, q.url, q.changes, day)[f]
    BY <1>3, <2>1, <2>3, <2>4, TrailFollows
  <2> QED BY <2>3, <2>4, <2>5, <2>6
<1> HIDE DEF new, log
<1>10. desk' = [desk EXCEPT ![q.key] = new] /\ trail' = [trail EXCEPT ![q.key] = log]
  BY <1>4 DEF new, log
<1>11. DeskTypeOK'
  <2>1. desk' \in [Keys -> StateRows]
    BY <1>3, <1>6, <1>7, <1>10
  <2>2. trail' \in [Keys -> [status : Statuses, starred : {0, 1}, applied_date : 0 .. MaxDay]]
    BY <1>3, <1>6, <1>8, <1>10
  <2> QED BY <1>4, <1>5, <2>1, <2>2 DEF DeskTypeOK, StateRows
<1>12. RowsWhole'
  <2>1. ASSUME NEW k \in Keys, ~desk'[k].exists PROVE desk'[k] = NoState
    <3>1. k # q.key
      BY <1>3, <1>6, <1>7, <1>10, <2>1
    <3>2. desk'[k] = desk[k]
      BY <1>6, <1>10, <3>1
    <3> QED BY <1>5, <2>1, <3>2 DEF RowsWhole
  <2>2. \A u \in Urls : jobs'[u].present => jobs'[u].key # NoKey
    BY <1>4, <1>5 DEF RowsWhole
  <2>3. NoState' = NoState
    BY DEF NoState
  <2> QED BY <2>1, <2>2, <2>3 DEF RowsWhole
<1>13. OwnCard'
  <2>1. ASSUME NEW k \in Keys, k # q.key PROVE desk'[k] = desk[k]
    BY <1>6, <1>10, <2>1
  <2>2. desk'[q.key] = new
    BY <1>3, <1>6, <1>10
  <2>3. jobs[q.url].present => jobs[q.url].key # NoKey
    BY <1>3, <1>5 DEF RowsWhole
  <2> QED BY <1>4, <1>5, <1>7, <2>1, <2>2, <2>3 DEF OwnCard
<1>14. TrailReplays'
  <2>1. ASSUME NEW k \in Keys, k # q.key PROVE desk'[k] = desk[k] /\ trail'[k] = trail[k]
    BY <1>6, <1>10, <2>1
  <2>2. desk'[q.key] = new /\ trail'[q.key] = log
    BY <1>3, <1>6, <1>10
  <2> QED BY <1>4, <1>5, <1>9, <2>1, <2>2 DEF TrailReplays
<1>15. Kept
  BY <1>4, NothingLost DEF outcomeVars
<1>16. RequestsSound'
  <2>1. req'[r].op = "done"
    BY <1>4 DEF OutcomesInv, RequestsSound
  <2>2. RequestSound(r)'
    BY <2>1 DEF RequestSound
  <2> QED BY <1>4, <1>15, <2>2, RequestsMove DEF OutcomesInv
<1> QED BY <1>11, <1>12, <1>13, <1>14, <1>15, <1>16, CorpusStays, SnapshotsStay, EventsStay, RepliesStay
    DEF OutcomesInv, DeskInv, outcomeVars

LEMMA CompanyReadKeeps ==
  ASSUME OutcomesInv, NEW r \in Requests, NEW field \in DOMAIN company, CompanyRead(r, field), UNCHANGED outcomeVars
  PROVE  OutcomesInv'
<1> DEFINE new == [op |-> "company", row |-> [company EXCEPT ![field] = 1], old |-> company]
<1>1. req' = [req EXCEPT ![r] = new] /\ UNCHANGED DeskTables
  BY DEF CompanyRead, DeskTables
<1>2. Kept
  BY NothingLost, <1>1 DEF DeskTables, outcomeVars
<1>3. company \in CompanyRows
  BY DEF OutcomesInv, DeskInv, DeskTypeOK, CompanyRows
<1>4. field \in {"contact", "notes"}
  BY <1>3 DEF CompanyRows
<1>5. CompanyWaits(new)
  BY <1>3, <1>4 DEF CompanyWaits, CompanyRows
<1>6. req'[r] = new
  BY <1>1 DEF OutcomesInv, RequestsSound
<1>7. new.op = "company"
  OBVIOUS
<1> HIDE DEF new
<1>8. RequestSound(r)'
  BY <1>5, <1>6, <1>7 DEF RequestSound, CompanyWaits
<1>9. RequestsSound'
  BY <1>1, <1>2, <1>8, RequestsMove DEF OutcomesInv
<1> QED BY <1>1, <1>2, <1>9, DeskStays, CorpusStays, SnapshotsStay, EventsStay, RepliesStay DEF OutcomesInv, outcomeVars

LEMMA CompanyWriteKeeps ==
  ASSUME OutcomesInv, NEW r \in Requests, CompanyWrite(r), UNCHANGED outcomeVars
  PROVE  OutcomesInv'
<1>1. req[r].op = "company" /\ CompanyWaits(req[r])
  BY DEF CompanyWrite, OutcomesInv, RequestsSound, RequestSound
<1>2. /\ company' \in CompanyRows /\ req' = [req EXCEPT ![r] = [op |-> "done"]]
      /\ raced \subseteq raced' /\ UNCHANGED <<jobs, desk, trail, today, ingests, astray>>
  BY <1>1 DEF CompanyWrite, CompanyWaits
<1>3. Kept
  BY <1>2, NothingLost DEF outcomeVars
<1>4. DeskInv'
  <2>1. DeskTypeOK'
    BY <1>2 DEF OutcomesInv, DeskInv, DeskTypeOK, CompanyRows
  <2>2. RowsWhole' /\ OwnCard'
    BY <1>2 DEF OutcomesInv, DeskInv, RowsWhole, OwnCard
  <2>3. TrailReplays'
    BY <1>2 DEF OutcomesInv, DeskInv, TrailReplays
  <2> QED BY <2>1, <2>2, <2>3 DEF DeskInv
<1>5. RequestsSound'
  <2>1. req'[r].op = "done"
    BY <1>2 DEF OutcomesInv, RequestsSound
  <2>2. RequestSound(r)'
    BY <2>1 DEF RequestSound
  <2> QED BY <1>2, <1>3, <2>2, RequestsMove DEF OutcomesInv
<1> QED BY <1>3, <1>4, <1>5, CorpusStays, SnapshotsStay, EventsStay, RepliesStay DEF OutcomesInv, outcomeVars

\* A set of urls that is not empty has a first.
LEMMA FirstUrl ==
  ASSUME NEW T \in SUBSET Nat, T # {}
  PROVE  (CHOOSE u \in T : \A v \in T : u =< v) \in T
<1>1. PICK m \in T : \A n \in T : ~(<<n, m>> \in OpToRel(<, Nat))
  BY NatLessThanWellFounded, WFMin, Zenon
<1>2. \A n \in T : ~(n < m)
  BY <1>1, Zenon DEF OpToRel
<1>3. \E u \in T : \A v \in T : u =< v
  BY <1>2
<1> QED BY <1>3

LEMMA IngestedTyped ==
  ASSUME DeskTypeOK, RowsWhole, NEW batch \in Batches
  PROVE  LET table == IngestedJobs(batch) IN
         /\ table \in [Urls -> [key : Keys \cup {NoKey}, present : BOOLEAN, described : Keys \cup {NoKey}]]
         /\ \A u \in Urls : table[u].present => table[u].key # NoKey
         /\ \A u \in Urls : jobs[u].key # NoKey => table[u].key # NoKey
<1>1. /\ DOMAIN batch \subseteq Urls /\ \A u \in DOMAIN batch : batch[u] \in Keys
      /\ NoKey \notin Keys
  BY DeskAssumption
<1>2. ASSUME NEW u \in Urls
      PROVE  /\ IngestedJobs(batch)[u] \in [key : Keys \cup {NoKey}, present : BOOLEAN, described : Keys \cup {NoKey}]
             /\ IngestedJobs(batch)[u].present => IngestedJobs(batch)[u].key # NoKey
             /\ jobs[u].key # NoKey => IngestedJobs(batch)[u].key # NoKey
  <2>1. jobs[u] \in [key : Keys \cup {NoKey}, present : BOOLEAN, described : Keys \cup {NoKey}]
    BY DEF DeskTypeOK
  <2>2. CASE u \in DOMAIN batch
    BY <1>1, <2>1, <2>2 DEF IngestedJobs
  <2>3. CASE u \notin DOMAIN batch
    BY <1>1, <2>1, <2>3 DEF IngestedJobs
  <2> QED BY <2>2, <2>3
<1>3. IngestedJobs(batch) = [u \in Urls |-> IngestedJobs(batch)[u]]
  BY DEF IngestedJobs
<1> QED BY <1>2, <1>3

\* After an ingest the display url of a role is one of its own jobs', an absent job's, or
\* none (ingest.py step 7).
LEMMA DisplayUrlTrue ==
  ASSUME NEW k \in Keys, NEW table, desk[k].url \in Urls \cup {Null}
  PROVE  /\ DisplayUrl(table, k) \in Urls \cup {Null}
         /\ DisplayUrl(table, k) # Null /\ table[DisplayUrl(table, k)].present
              => table[DisplayUrl(table, k)].key = k
<1> DEFINE mine == PresentUrls(table, k)
<1>1. mine \subseteq Urls /\ Urls \subseteq Nat \ {Null}
  BY DeskAssumption DEF PresentUrls
<1>2. CASE mine # {}
  <2>1. (CHOOSE u \in mine : \A v \in mine : u =< v) \in mine
    BY <1>1, <1>2, FirstUrl
  <2>2. DisplayUrl(table, k) \in mine
    BY <1>2, <2>1 DEF DisplayUrl
  <2> QED BY <1>1, <2>2 DEF PresentUrls
<1>3. CASE mine = {}
  <2>1. DisplayUrl(table, k) = IF desk[k].url # Null /\ table[desk[k].url].present THEN Null ELSE desk[k].url
    BY <1>3 DEF DisplayUrl
  <2> QED BY <2>1
<1> QED BY <1>2, <1>3

LEMMA IngestKeeps ==
  ASSUME OutcomesInv, NEW batch \in Batches, NEW picks \in SUBSET DOMAIN batch,
         Ingest(batch, picks), UNCHANGED outcomeVars
  PROVE  OutcomesInv'
<1> DEFINE table == IngestedJobs(batch)
           seeded(k) == ~desk[k].exists /\ SeedFrom(table, picks, k) # {}
           first(k) == CHOOSE u \in SeedFrom(table, picks, k) : TRUE
           row(k) == IF desk[k].exists THEN [desk[k] EXCEPT !.url = DisplayUrl(table, k)]
                     ELSE IF seeded(k)
                     THEN [exists |-> TRUE, status |-> "Interested", starred |-> 1, applied_date |-> Null,
                           url |-> first(k)]
                     ELSE NoState
           log(k) == IF seeded(k)
                     THEN RecordFieldEvents(trail[k], NoState, [status |-> "Interested", starred |-> 1])
                     ELSE trail[k]
<1>1. /\ jobs' = table /\ desk' = [k \in Keys |-> row(k)] /\ trail' = [k \in Keys |-> log(k)]
      /\ astray' = {} /\ ingests < MaxIngests /\ ingests' = ingests + 1
      /\ UNCHANGED <<company, req, today, raced>>
  BY DEF Ingest
<1>2. DeskTypeOK /\ RowsWhole /\ TrailReplays
  BY DEF OutcomesInv, DeskInv
<1>3. /\ table \in [Urls -> [key : Keys \cup {NoKey}, present : BOOLEAN, described : Keys \cup {NoKey}]]
      /\ \A u \in Urls : table[u].present => table[u].key # NoKey
      /\ \A u \in Urls : jobs[u].key # NoKey => table[u].key # NoKey
  BY <1>2, IngestedTyped
<1>4. DOMAIN batch \subseteq Urls /\ Urls \subseteq Nat \ {Null} /\ MaxIngests \in Nat /\ MaxDay \in Nat
  BY DeskAssumption
<1>5. /\ desk \in [Keys -> StateRows] /\ ingests \in 0 .. MaxIngests
      /\ trail \in [Keys -> [status : Statuses, starred : {0, 1}, applied_date : 0 .. MaxDay]]
  BY <1>2 DEF DeskTypeOK, StateRows
<1> HIDE DEF table
<1>6. ASSUME NEW k \in Keys, seeded(k) PROVE first(k) \in Urls /\ table[first(k)].present /\ table[first(k)].key = k
  <2>1. first(k) \in SeedFrom(table, picks, k)
    BY <1>6
  <2> QED BY <1>4, <2>1 DEF SeedFrom
<1>7. ASSUME NEW k \in Keys
      PROVE  /\ row(k) \in StateRows
             /\ ~row(k).exists => row(k) = NoState
             /\ row(k).exists /\ row(k).url # Null /\ table[row(k).url].present => table[row(k).url].key = k
  <2>1. CASE desk[k].exists
    <3>1. desk[k] \in StateRows
      BY <1>5
    <3>2. /\ DisplayUrl(table, k) \in Urls \cup {Null}
          /\ DisplayUrl(table, k) # Null /\ table[DisplayUrl(table, k)].present
               => table[DisplayUrl(table, k)].key = k
      BY <3>1, DisplayUrlTrue DEF StateRows
    <3>3. row(k) = [desk[k] EXCEPT !.url = DisplayUrl(table, k)]
      BY <2>1
    <3> HIDE DEF row
    <3> QED BY <2>1, <3>1, <3>2, <3>3 DEF StateRows
  <2>2. CASE seeded(k)
    <3>1. first(k) \in Urls /\ table[first(k)].present /\ table[first(k)].key = k
      BY <1>6, <2>2
    <3>2. row(k) = [exists |-> TRUE, status |-> "Interested", starred |-> 1, applied_date |-> Null, url |-> first(k)]
      BY <2>2
    <3> HIDE DEF row, first
    <3> QED BY <1>4, <3>1, <3>2 DEF StateRows, Statuses, Null
  <2>3. CASE ~desk[k].exists /\ ~seeded(k)
    <3>1. row(k) = NoState
      BY <2>3
    <3> HIDE DEF row
    <3> QED BY <1>4, <3>1 DEF NoState, StateRows, Statuses, Null
  <2> QED BY <2>1, <2>2, <2>3
<1>8. ASSUME NEW k \in Keys
      PROVE  /\ log(k) \in [status : Statuses, starred : {0, 1}, applied_date : 0 .. MaxDay]
             /\ k \notin raced => \A f \in Fields : log(k)[f] = row(k)[f]
  <2>1. trail[k] \in [status : Statuses, starred : {0, 1}, applied_date : 0 .. MaxDay]
    BY <1>5
  <2>2. k \notin raced => \A f \in Fields : trail[k][f] = desk[k][f]
    BY <1>2 DEF TrailReplays
  <2>3. ~desk[k].exists => desk[k] = NoState
    BY <1>2 DEF RowsWhole
  <2>4. CASE seeded(k)
    <3>1. log(k) = [f \in Fields |-> IF f = "status" THEN "Interested" ELSE IF f = "starred" THEN 1 ELSE trail[k][f]]
      <4>1. log(k) = RecordFieldEvents(trail[k], NoState, [status |-> "Interested", starred |-> 1])
        BY <2>4
      <4> QED BY <4>1 DEF RecordFieldEvents, NoState
    <3>2. row(k) = [exists |-> TRUE, status |-> "Interested", starred |-> 1, applied_date |-> Null, url |-> first(k)]
      BY <2>4
    <3>3. k \notin raced => trail[k]["applied_date"] = Null
      BY <2>2, <2>3, <2>4 DEF NoState, Fields
    <3> HIDE DEF row, log, first
    <3> QED BY <2>1, <3>1, <3>2, <3>3 DEF Fields, Statuses
  <2>5. CASE ~seeded(k)
    <3>1. log(k) = trail[k]
      BY <2>5
    <3>2. \A f \in Fields : row(k)[f] = desk[k][f]
      <4>1. CASE desk[k].exists
        <5>1. row(k) = [desk[k] EXCEPT !.url = DisplayUrl(table, k)]
          BY <4>1
        <5>2. desk[k] \in StateRows
          BY <1>5
        <5> HIDE DEF row
        <5> QED BY <5>1, <5>2 DEF StateRows, Fields
      <4>2. CASE ~desk[k].exists
        BY <2>3, <2>5, <4>2
      <4> QED BY <4>1, <4>2
    <3> HIDE DEF row, log
    <3> QED BY <2>1, <2>2, <3>1, <3>2
  <2> QED BY <2>4, <2>5
<1> HIDE DEF row, log, seeded, first
<1>9. DeskTypeOK'
  <2>1. desk' \in [Keys -> StateRows]
    BY <1>1, <1>7
  <2>2. trail' \in [Keys -> [status : Statuses, starred : {0, 1}, applied_date : 0 .. MaxDay]]
    BY <1>1, <1>8
  <2>3. ingests' \in 0 .. MaxIngests
    BY <1>1, <1>4, <1>5
  <2> QED BY <1>1, <1>2, <1>3, <2>1, <2>2, <2>3 DEF DeskTypeOK, StateRows
<1>10. RowsWhole'
  BY <1>1, <1>3, <1>7 DEF RowsWhole, NoState
<1>11. OwnCard'
  BY <1>1, <1>7 DEF OwnCard
<1>12. TrailReplays'
  BY <1>1, <1>8 DEF TrailReplays
<1>13. Kept
  BY <1>1, <1>3 DEF Kept, outcomeVars
<1>14. RequestsSound'
  BY <1>1, <1>13, RequestsStay DEF OutcomesInv
<1> QED BY <1>9, <1>10, <1>11, <1>12, <1>13, <1>14, CorpusStays, SnapshotsStay, EventsStay, RepliesStay
    DEF OutcomesInv, DeskInv, outcomeVars

LEMMA MidnightKeeps ==
  ASSUME OutcomesInv, Midnight, UNCHANGED outcomeVars PROVE OutcomesInv'
<1>1. DeskInv'
  <2>1. DeskTypeOK'
    BY DeskAssumption DEF Midnight, OutcomesInv, DeskInv, DeskTypeOK
  <2>2. RowsWhole' /\ OwnCard' /\ TrailReplays'
    BY DEF Midnight, OutcomesInv, DeskInv, RowsWhole, OwnCard, TrailReplays
  <2> QED BY <2>1, <2>2 DEF DeskInv
<1>2. Kept /\ UNCHANGED req
  BY NothingLost DEF Midnight, outcomeVars
<1> QED BY <1>1, <1>2, RequestsStay, CorpusStays, SnapshotsStay, EventsStay, RepliesStay DEF OutcomesInv, outcomeVars

(* Snapshots *)

\* Positions of a list that no two share are no fewer than its entries (capture_snapshot).
LEMMA NoneShared ==
  ASSUME NEW n \in Nat, NEW f, Cardinality({f[i] : i \in 1 .. n}) = n, NEW i \in 1 .. n, NEW j \in 1 .. n, f[i] = f[j]
  PROVE  i = j
<1> DEFINE T == {f[h] : h \in 1 .. n}
           g == [h \in 1 .. n |-> f[h]]
<1>1. IsFiniteSet(1 .. n) /\ Cardinality(1 .. n) = n
  BY FS_Interval
<1>2. g \in Surjection(1 .. n, T)
  BY DEF Surjection
<1>3. Cardinality(T) = Cardinality(1 .. n) <=> g \in Injection(1 .. n, T)
  BY <1>1, <1>2, FS_Surjection
<1>4. g \in Injection(1 .. n, T)
  BY <1>1, <1>3
<1>5. g[i] = g[j] => i = j
  BY <1>4 DEF Injection, IsInjective
<1> QED BY <1>5

LEMMA EnrichedItem ==
  ASSUME CorpusTyped, NEW item, item.rank \in Nat \ {0}, item.posting \in Postings,
         item.version \in Nat, item.version =< version[item.posting]
  PROVE  /\ EnrichItem(item) \in Items
         /\ EnrichItem(item).rank = item.rank /\ EnrichItem(item).posting = item.posting
         /\ EnrichItem(item).score \in {Null, EnrichItem(item).version}
<1>1. /\ version[item.posting] \in 1 .. MaxVersions /\ score[item.posting] \in 0 .. MaxVersions
      /\ MaxVersions \in Nat
  BY OutcomesAssumption DEF CorpusTyped
<1> DEFINE s == CurrentScore(item.posting, item.version)
           v == IF item.version # Null THEN item.version ELSE IF s # Null THEN s ELSE version[item.posting]
<1>2. s \in 0 .. MaxVersions /\ s \in {Null, v} /\ v \in 1 .. MaxVersions
  BY <1>1 DEF CurrentScore, Null
<1>3. EnrichItem(item) = [rank |-> item.rank, posting |-> item.posting, version |-> v, score |-> s]
  BY DEF EnrichItem
<1> HIDE DEF s, v
<1> QED BY <1>2, <1>3 DEF Items

LEMMA AcceptedRanking ==
  ASSUME CorpusTyped, NEW items \in ItemLists, Acceptable(items)
  PROVE  IsRanking(Enriched(items))
<1>1. items \in Seq([rank : Int, posting : Postings \cup {Ghost}, version : Nat])
  BY OutcomesAssumption
<1>2. /\ Len(items) \in Nat /\ DOMAIN items = 1 .. Len(items)
      /\ \A i \in DOMAIN items : items[i] \in [rank : Int, posting : Postings \cup {Ghost}, version : Nat]
  BY <1>1, LenProperties, ElementOfSeq
<1>3. ASSUME NEW i \in DOMAIN items
      PROVE  /\ EnrichItem(items[i]) \in Items
             /\ EnrichItem(items[i]).rank = items[i].rank /\ EnrichItem(items[i]).posting = items[i].posting
             /\ EnrichItem(items[i]).score \in {Null, EnrichItem(items[i]).version}
  <2>1. items[i].rank >= 1 /\ items[i].posting \in Postings /\ items[i].version =< version[items[i].posting]
    BY DEF Acceptable
  <2>2. items[i].rank \in Nat \ {0} /\ items[i].version \in Nat
    BY <1>2, <2>1
  <2> QED BY <2>1, <2>2, EnrichedItem
<1>4. ASSUME NEW i \in DOMAIN items, NEW j \in DOMAIN items, items[i].rank = items[j].rank PROVE i = j
  <2> DEFINE f == [h \in 1 .. Len(items) |-> items[h].rank]
  <2>1. Ranks(items) = {f[h] : h \in 1 .. Len(items)}
    BY <1>2 DEF Ranks
  <2>2. Cardinality({f[h] : h \in 1 .. Len(items)}) = Len(items)
    BY <2>1 DEF Acceptable
  <2>3. f[i] = f[j]
    BY <1>2, <1>4
  <2> HIDE DEF f
  <2> QED BY <1>2, <2>2, <2>3, NoneShared
<1>5. ASSUME NEW i \in DOMAIN items, NEW j \in DOMAIN items, items[i].posting = items[j].posting PROVE i = j
  <2> DEFINE f == [h \in 1 .. Len(items) |-> items[h].posting]
  <2>1. Named(items) = {f[h] : h \in 1 .. Len(items)}
    BY <1>2 DEF Named
  <2>2. Cardinality({f[h] : h \in 1 .. Len(items)}) = Len(items)
    BY <2>1 DEF Acceptable
  <2>3. f[i] = f[j]
    BY <1>2, <1>5
  <2> HIDE DEF f
  <2> QED BY <1>2, <2>2, <2>3, NoneShared
<1>6. ASSUME NEW a \in Enriched(items), NEW b \in Enriched(items), a # b PROVE a.rank # b.rank /\ a.posting # b.posting
  <2>1. PICK i \in DOMAIN items : a = EnrichItem(items[i])
    BY DEF Enriched
  <2>2. PICK j \in DOMAIN items : b = EnrichItem(items[j])
    BY DEF Enriched
  <2>3. i # j
    BY <1>6, <2>1, <2>2
  <2>4. a.rank = items[i].rank /\ a.posting = items[i].posting
    BY <1>3, <2>1
  <2>5. b.rank = items[j].rank /\ b.posting = items[j].posting
    BY <1>3, <2>2
  <2> QED BY <1>4, <1>5, <2>3, <2>4, <2>5
<1>7. ASSUME NEW a \in Enriched(items) PROVE a \in Items /\ a.score \in {Null, a.version}
  <2>1. PICK i \in DOMAIN items : a = EnrichItem(items[i])
    BY DEF Enriched
  <2> QED BY <1>3, <2>1
<1>8. Enriched(items) \subseteq Items
  BY <1>7
<1> QED BY <1>6, <1>7, <1>8 DEF IsRanking

LEMMA SnapshotReadKeeps ==
  ASSUME OutcomesInv, NEW r \in Requests, NEW items \in ItemLists, SnapshotRead(r, items)
  PROVE  OutcomesInv'
<1> DEFINE new == IF Acceptable(items) THEN [op |-> "capture", items |-> Enriched(items)] ELSE [op |-> "refused"]
<1>1. req' = [req EXCEPT ![r] = new] /\ UNCHANGED DeskTables /\ UNCHANGED outcomeVars
  BY DEF SnapshotRead, DeskTables
<1>2. Kept
  BY NothingLost, <1>1 DEF DeskTables, outcomeVars
<1>3. Acceptable(items) => IsRanking(Enriched(items))
  BY AcceptedRanking DEF OutcomesInv
<1>4. req'[r] = new
  BY <1>1 DEF OutcomesInv, RequestsSound
<1>5. RequestSound(r)'
  BY <1>3, <1>4 DEF RequestSound, IsRanking
<1> HIDE DEF new
<1>6. RequestsSound'
  BY <1>1, <1>2, <1>5, RequestsMove DEF OutcomesInv
<1> QED BY <1>1, <1>2, <1>6, DeskStays, CorpusStays, SnapshotsStay, EventsStay, RepliesStay DEF OutcomesInv, outcomeVars

\* A snapshot joins the table: it is one ranking, and of its day the only one.
LEMMA SnapshotJoins ==
  ASSUME SnapshotsKept, NEW r \in Requests, NEW shot, IsRanking(shot.items),
         shot.surface = "today" => TodaySnapshots(shot.day) = {},
         snapshots' = Joined(snapshots, r, shot)
  PROVE  SnapshotsKept'
<1>1. /\ snapshots' = [x \in DOMAIN snapshots' |-> snapshots'[x]]
      /\ DOMAIN snapshots' = DOMAIN snapshots \cup {r}
      /\ \A x \in DOMAIN snapshots : snapshots'[x] = snapshots[x]
      /\ r \notin DOMAIN snapshots => snapshots'[r] = shot
  BY DEF Joined, SnapshotsKept
<1>2. \A x \in DOMAIN snapshots' : IsRanking(snapshots'[x].items)
  BY <1>1 DEF SnapshotsKept
<1>3. ASSUME NEW x \in DOMAIN snapshots', NEW y \in DOMAIN snapshots', x # y,
             snapshots'[x].surface = "today", snapshots'[y].surface = "today", snapshots'[x].day = snapshots'[y].day
      PROVE  FALSE
  <2>1. CASE r \in DOMAIN snapshots
    BY <1>1, <1>3, <2>1 DEF SnapshotsKept
  <2>2. CASE r \notin DOMAIN snapshots /\ x # r /\ y # r
    BY <1>1, <1>3, <2>2 DEF SnapshotsKept
  <2>3. CASE r \notin DOMAIN snapshots /\ x = r /\ y # r
    <3>1. y \in TodaySnapshots(shot.day) /\ shot.surface = "today"
      BY <1>1, <1>3, <2>3 DEF TodaySnapshots
    <3> QED BY <3>1
  <2>4. CASE r \notin DOMAIN snapshots /\ x # r /\ y = r
    <3>1. x \in TodaySnapshots(shot.day) /\ shot.surface = "today"
      BY <1>1, <1>3, <2>4 DEF TodaySnapshots
    <3> QED BY <3>1
  <2> QED BY <1>3, <2>1, <2>2, <2>3, <2>4
<1> QED BY <1>1, <1>2, <1>3 DEF SnapshotsKept, IsRanking

\* A reply joins: it names a snapshot or an event on file, or nothing.
LEMMA ReplyJoins ==
  ASSUME RepliesKept, Kept, NEW r, NEW kind, NEW what, Reply(r, kind, what),
         kind = "snapshot" => what \in DOMAIN snapshots',
         kind = "event" => what \in events'
  PROVE  RepliesKept'
<1> DEFINE a == [kind |-> kind, what |-> what]
<1>1. /\ reply' = [x \in DOMAIN reply' |-> reply'[x]]
      /\ DOMAIN reply' = DOMAIN reply \cup {r}
      /\ \A x \in DOMAIN reply : reply'[x] = reply[x]
      /\ r \notin DOMAIN reply => reply'[r] = a
  <2>1. reply' = Joined(reply, r, a)
    BY DEF Reply
  <2> QED BY <2>1 DEF Joined, RepliesKept
<1> QED BY <1>1 DEF RepliesKept, Kept

LEMMA SnapshotWriteKeeps ==
  ASSUME OutcomesInv, NEW r \in Requests, SnapshotWrite(r) PROVE OutcomesInv'
<1> DEFINE shot == [surface |-> "client", day |-> today, size |-> 0, items |-> req[r].items]
<1>1. IsRanking(req[r].items)
  BY DEF SnapshotWrite, OutcomesInv, RequestsSound, RequestSound
<1>2. /\ snapshots' = Joined(snapshots, r, shot) /\ Reply(r, "snapshot", r)
      /\ req' = [req EXCEPT ![r] = [op |-> "done"]]
      /\ UNCHANGED <<version, score, alias, events>> /\ UNCHANGED DeskTables
  BY DEF SnapshotWrite, DeskTables
<1>3. shot.items = req[r].items /\ shot.surface # "today"
  OBVIOUS
<1> HIDE DEF shot
<1>4. SnapshotsKept'
  <2>1. PICK s : s = shot
    OBVIOUS
  <2> QED BY <1>1, <1>2, <1>3, SnapshotJoins DEF OutcomesInv
<1>5. /\ DOMAIN snapshots' = DOMAIN snapshots \cup {r}
      /\ \A x \in DOMAIN snapshots : snapshots'[x] = snapshots[x]
  BY <1>2 DEF Joined, OutcomesInv, SnapshotsKept
<1>6. Kept
  BY <1>2, <1>5 DEF Kept, DeskTables
<1>7. RepliesKept'
  BY <1>2, <1>5, <1>6, ReplyJoins DEF OutcomesInv
<1>8. RequestsSound'
  <2>1. req'[r].op = "done"
    BY <1>2 DEF OutcomesInv, RequestsSound
  <2>2. RequestSound(r)'
    BY <2>1 DEF RequestSound
  <2> QED BY <1>2, <1>6, <2>2, RequestsMove DEF OutcomesInv
<1> QED BY <1>2, <1>4, <1>6, <1>7, <1>8, DeskStays, CorpusStays, EventsStay DEF OutcomesInv

(* Events *)

LEMMA UrlPosting ==
  ASSUME DeskTypeOK, CorpusTyped, NEW url \in Urls
  PROVE  PostingIdForUrl(url) \in Postings \cup {NoKey}
<1>1. alias[url] \in Postings \cup {NoKey}
  BY DEF CorpusTyped
<1>2. \A k \in Keys : Bridge[k] \in Postings \cup {NoKey}
  BY OutcomesAssumption
<1>3. Known(url) => ResolveSeenKey(url) \in Keys
  BY OwnerFacts
<1>4. ~Known(url) => ResolveSeenKey(url) = NoKey
  BY DEF Known, ResolveSeenKey
<1> QED BY <1>1, <1>2, <1>3, <1>4 DEF PostingIdForUrl

LEMMA EventReadKeeps ==
  ASSUME OutcomesInv, NEW r \in Requests, NEW body \in EventBodies, EventRead(r, body)
  PROVE  OutcomesInv'
<1> DEFINE p == IF body.posting # NoKey THEN body.posting ELSE PostingIdForUrl(body.url)
           at == Attribution(body, p)
           row == [id |-> r, key |-> body.key, posting |-> p, snapshot |-> at.snapshot,
                   rank |-> at.rank, derived |-> body.rank = Null]
           new == IF EventRefused(body) THEN [op |-> "refused"] ELSE [op |-> "record", row |-> row]
<1>1. req' = [req EXCEPT ![r] = new] /\ UNCHANGED DeskTables /\ UNCHANGED outcomeVars
  BY DEF EventRead, DeskTables
<1>2. Kept
  BY NothingLost, <1>1 DEF DeskTables, outcomeVars
<1>3. /\ body.posting \in Postings \cup {NoKey, Ghost} /\ body.url \in Urls /\ body.rank \in Nat /\ body.key \in Nat
      /\ body.snapshot \in Requests \cup {NoRequest}
  BY OutcomesAssumption
<1>4. req'[r] = new
  BY <1>1 DEF OutcomesInv, RequestsSound
<1>5. ASSUME EventRefused(body) PROVE RequestSound(r)'
  BY <1>4, <1>5 DEF RequestSound
<1>6. ASSUME ~EventRefused(body) PROVE RequestSound(r)'
  <2>1. p \in Postings \cup {NoKey}
    BY <1>3, <1>6, UrlPosting DEF EventRefused, OutcomesInv, DeskInv
  <2>2. body.snapshot # NoRequest => body.snapshot \in DOMAIN snapshots
    BY <1>6 DEF EventRefused
  <2>3. body.snapshot # NoRequest => snapshots[body.snapshot].items \subseteq Items
    BY <2>2 DEF OutcomesInv, SnapshotsKept, IsRanking
  <2>4. /\ at.snapshot \in Requests \cup {NoRequest} /\ at.rank \in Nat
        /\ at.snapshot # NoRequest =>
             /\ at.snapshot \in DOMAIN snapshots
             /\ \E i \in snapshots[at.snapshot].items : i.rank = at.rank /\ (body.rank = Null => i.posting = p)
    <3>1. CASE body.snapshot = NoRequest
      BY <3>1 DEF Attribution, Null
    <3>2. CASE body.snapshot # NoRequest /\ body.rank # Null
      <4>1. ItemAt(body.snapshot, body.rank) # {}
        BY <1>6, <2>2, <3>2 DEF EventRefused
      <4>2. at = [snapshot |-> body.snapshot, rank |-> body.rank]
        BY <3>2 DEF Attribution
      <4> HIDE DEF at, p
      <4> QED BY <1>3, <2>2, <3>2, <4>1, <4>2 DEF ItemAt
    <3>3. CASE body.snapshot # NoRequest /\ body.rank = Null /\ ItemOf(body.snapshot, p) = {}
      BY <3>3 DEF Attribution, Null
    <3>4. CASE body.snapshot # NoRequest /\ body.rank = Null /\ ItemOf(body.snapshot, p) # {}
      <4> DEFINE i == CHOOSE x \in ItemOf(body.snapshot, p) : TRUE
      <4>1. i \in ItemOf(body.snapshot, p)
        BY <3>4
      <4>2. at = [snapshot |-> body.snapshot, rank |-> i.rank]
        BY <3>4 DEF Attribution
      <4> HIDE DEF i, at, p
      <4>3. i \in snapshots[body.snapshot].items /\ i.posting = p
        BY <4>1 DEF ItemOf
      <4>4. i.rank \in Nat
        BY <2>3, <3>4, <4>3 DEF Items
      <4> QED BY <1>3, <2>2, <3>4, <4>2, <4>3, <4>4
    <3> QED BY <3>1, <3>2, <3>3, <3>4
  <2> HIDE DEF p, at
  <2>5. row \in EventRows
    BY <1>3, <2>1, <2>4 DEF EventRows
  <2>6. Attributed(row)
    BY <2>4 DEF Attributed
  <2>7. PICK c : c = row
    OBVIOUS
  <2> HIDE DEF row
  <2>8. req'[r] = [op |-> "record", row |-> c]
    BY <1>4, <1>6, <2>7
  <2>9. c \in EventRows /\ Attributed(c)
    BY <2>5, <2>6, <2>7 DEF Attributed
  <2>10. Attributed(c)'
    BY <1>2, <2>9, AttributedStays
  <2> HIDE DEF new
  <2> QED BY <2>8, <2>9, <2>10 DEF RequestSound, Attributed
<1>7. RequestSound(r)'
  BY <1>5, <1>6
<1> HIDE DEF new
<1>8. RequestsSound'
  BY <1>1, <1>2, <1>7, RequestsMove DEF OutcomesInv
<1> QED BY <1>1, <1>2, <1>8, DeskStays, CorpusStays, SnapshotsStay, EventsStay, RepliesStay DEF OutcomesInv, outcomeVars

LEMMA EventWriteKeeps ==
  ASSUME OutcomesInv, NEW r \in Requests, EventWrite(r) PROVE OutcomesInv'
<1>1. PICK row : row = req[r].row
  OBVIOUS
<1>2. /\ req[r].op = "record" /\ req[r] = [op |-> "record", row |-> row]
      /\ row \in EventRows /\ Attributed(req[r].row)
  BY <1>1 DEF EventWrite, OutcomesInv, RequestsSound, RequestSound
<1>3. Attributed(row)
  BY <1>1, <1>2 DEF Attributed
<1>4. /\ events' = IF row.key # Null /\ Stored(row.key) # {} THEN events ELSE events \cup {row}
      /\ req' = [req EXCEPT ![r] = [req[r] EXCEPT !.op = "readback"]]
      /\ UNCHANGED <<version, score, alias, snapshots, recommended, reply>> /\ UNCHANGED DeskTables
  BY <1>1 DEF EventWrite, DeskTables
<1>5. Kept
  BY <1>4 DEF Kept, DeskTables
<1>6. EventsKept'
  <2>1. events' \subseteq EventRows
    BY <1>2, <1>4 DEF OutcomesInv, EventsKept
  <2>2. Attributed(row)' /\ \A e \in events : Attributed(e)'
    BY <1>3, <1>5, AttributedStays DEF OutcomesInv, EventsKept
  <2>3. \A e \in events' : Attributed(e)'
    BY <1>4, <2>2
  <2>4. \A e, f \in events' : e.key # Null /\ e.key = f.key => e = f
    BY <1>4 DEF OutcomesInv, EventsKept, Stored
  <2> QED BY <2>1, <2>3, <2>4 DEF EventsKept
<1>7. RepliesKept'
  BY <1>4, <1>5, RepliesStay DEF OutcomesInv
<1>8. RequestSound(r)'
  <2>1. req'[r] = [op |-> "readback", row |-> row]
    BY <1>2, <1>4 DEF OutcomesInv, RequestsSound
  <2>2. IF row.key # Null THEN Stored(row.key)' # {} ELSE row \in events'
    BY <1>4 DEF Stored
  <2> QED BY <1>2, <2>1, <2>2 DEF RequestSound, Stored
<1>9. RequestsSound'
  <2> DEFINE new == [req[r] EXCEPT !.op = "readback"]
  <2>1. req' = [req EXCEPT ![r] = new]
    BY <1>4
  <2> HIDE DEF new
  <2> QED BY <1>5, <1>8, <2>1, RequestsMove DEF OutcomesInv
<1> QED BY <1>4, <1>6, <1>7, <1>9, DeskStays, CorpusStays, SnapshotsStay DEF OutcomesInv

LEMMA EventReplyKeeps ==
  ASSUME OutcomesInv, NEW r \in Requests, EventReply(r) PROVE OutcomesInv'
<1> DEFINE row == req[r].row
           what == IF row.key # Null THEN CHOOSE e \in Stored(row.key) : TRUE ELSE row
<1>1. IF row.key # Null THEN Stored(row.key) # {} ELSE row \in events
  BY DEF EventReply, OutcomesInv, RequestsSound, RequestSound
<1>2. what \in events
  BY <1>1 DEF Stored
<1>3. /\ Reply(r, "event", what) /\ req' = [req EXCEPT ![r] = [op |-> "done"]]
      /\ UNCHANGED <<version, score, alias, snapshots, recommended, events>> /\ UNCHANGED DeskTables
  BY DEF EventReply, DeskTables
<1> HIDE DEF what
<1>4. Kept
  BY <1>3, NothingLost DEF DeskTables
<1>5. RepliesKept'
  BY <1>2, <1>3, <1>4, ReplyJoins DEF OutcomesInv
<1>6. RequestsSound'
  <2>1. req'[r].op = "done"
    BY <1>3 DEF OutcomesInv, RequestsSound
  <2>2. RequestSound(r)'
    BY <2>1 DEF RequestSound
  <2> QED BY <1>3, <1>4, <2>2, RequestsMove DEF OutcomesInv
<1> QED BY <1>3, <1>4, <1>5, <1>6, DeskStays, CorpusStays, SnapshotsStay, EventsStay DEF OutcomesInv

(* The Today queue *)

LEMMA QueueReadKeeps ==
  ASSUME OutcomesInv, NEW r \in Requests, QueueRead(r) PROVE OutcomesInv'
<1> DEFINE queue == BuildQueue(Candidates, DailyCap).entries
           new == [op |-> "serve", queue |-> queue]
<1>1. req' = [req EXCEPT ![r] = new] /\ UNCHANGED DeskTables /\ UNCHANGED outcomeVars
  BY DEF QueueRead, DeskTables
<1>2. Kept
  BY NothingLost, <1>1 DEF DeskTables, outcomeVars
<1>3. IsFiniteSet(Candidates) /\ \A j \in Candidates : j.url \in Urls /\ jobs[j.url].present
  <2> DEFINE live == {v \in Urls : jobs[v].present}
             job(u) == [Traits[u] EXCEPT !.url = u,
                          !.status = LET k == {x \in Keys : desk[x].exists /\ desk[x].url = u}
                                     IN IF k = {} THEN "New" ELSE desk[CHOOSE x \in k : TRUE].status]
  <2>1. Candidates = {job(u) : u \in live}
    BY DEF Candidates
  <2>2. IsFiniteSet(live)
    BY OutcomesAssumption, FS_Subset
  <2>3. ASSUME NEW u \in live PROVE job(u).url = u
    <3>1. Traits[u] \in [url : Urls, company : Nat, status : Statuses, hidden : BOOLEAN, snoozed : BOOLEAN,
                         tier : Nat, match : Nat, competition : Nat, odds_score : Nat, age : Nat,
                         described : BOOLEAN]
      BY OutcomesAssumption
    <3> QED BY <3>1
  <2> HIDE DEF job
  <2>4. IsFiniteSet({job(u) : u \in live})
    <3> DEFINE f == [u \in live |-> job(u)]
    <3>1. f \in [live -> {job(u) : u \in live}] /\ \A x \in {job(u) : u \in live} : \E u \in live : f[u] = x
      OBVIOUS
    <3>2. f \in Surjection(live, {job(u) : u \in live})
      BY <3>1 DEF Surjection
    <3> HIDE DEF f
    <3> QED BY <2>2, <3>2, FS_Surjection
  <2> QED BY <2>1, <2>3, <2>4
<1>4. queue \in Seq(Slots(Candidates))
  BY <1>3, QueueTyped
<1>5. /\ Len(queue) \in Nat /\ DOMAIN queue = 1 .. Len(queue)
      /\ \A i \in DOMAIN queue : queue[i].job \in Candidates
  <2> HIDE DEF queue
  <2>1. /\ Len(queue) \in Nat /\ DOMAIN queue = 1 .. Len(queue)
        /\ \A i \in DOMAIN queue : queue[i] \in Slots(Candidates)
    BY <1>4, LenProperties, ElementOfSeq
  <2> QED BY <2>1 DEF Slots
<1>6. QueueWaits(new)
  <2>1. \A i \in DOMAIN queue : queue[i].job.url \in Urls /\ jobs[queue[i].job.url].key # NoKey
    BY <1>3, <1>5 DEF OutcomesInv, DeskInv, RowsWhole
  <2> HIDE DEF queue
  <2> QED BY <1>5, <2>1 DEF QueueWaits
<1>7. req'[r] = new /\ new.op = "serve"
  BY <1>1 DEF OutcomesInv, RequestsSound
<1> HIDE DEF new
<1>8. RequestSound(r)'
  <2>1. jobs' = jobs
    BY <1>1 DEF DeskTables
  <2> QED BY <1>6, <1>7, <2>1 DEF RequestSound, QueueWaits
<1>9. RequestsSound'
  BY <1>1, <1>2, <1>8, RequestsMove DEF OutcomesInv
<1> QED BY <1>1, <1>2, <1>9, DeskStays, CorpusStays, SnapshotsStay, EventsStay, RepliesStay DEF OutcomesInv, outcomeVars

\* What the served queue is captured as: its resolved entries, each once (today.py, snapshots.py).
LEMMA CapturedRanking ==
  ASSUME DeskTypeOK, CorpusTyped, NEW entries, Len(entries) \in Nat, DOMAIN entries = 1 .. Len(entries),
         \A i \in DOMAIN entries : entries[i].job.url \in Urls /\ jobs[entries[i].job.url].key # NoKey
  PROVE  IsRanking({EnrichItem([rank |-> i, posting |-> ResolvedEntry(entries, i), version |-> Null])
                      : i \in SnapshotItems(entries)})
<1> DEFINE sent(i) == [rank |-> i, posting |-> ResolvedEntry(entries, i), version |-> Null]
           items == {EnrichItem(sent(i)) : i \in SnapshotItems(entries)}
<1>1. ASSUME NEW i \in SnapshotItems(entries)
      PROVE  /\ EnrichItem(sent(i)) \in Items
             /\ EnrichItem(sent(i)).rank = i /\ EnrichItem(sent(i)).posting = ResolvedEntry(entries, i)
             /\ EnrichItem(sent(i)).score \in {Null, EnrichItem(sent(i)).version}
  <2>1. i \in DOMAIN entries /\ i \in Nat \ {0} /\ ResolvedEntry(entries, i) # NoKey
    BY DEF SnapshotItems
  <2>2. PICK url \in Urls : url = entries[i].job.url /\ jobs[url].key # NoKey
    BY <2>1
  <2>3. alias[url] \in Postings \cup {NoKey} /\ jobs[url].key \in Keys
    BY <2>2 DEF CorpusTyped, DeskTypeOK
  <2>4. Bridge[jobs[url].key] \in Postings \cup {NoKey}
    BY <2>3, OutcomesAssumption
  <2>5. ResolvedEntry(entries, i) \in Postings
    BY <2>1, <2>2, <2>3, <2>4 DEF ResolvedEntry
  <2>6. version[ResolvedEntry(entries, i)] \in 1 .. MaxVersions
    BY <2>5 DEF CorpusTyped
  <2>7. PICK item : item = sent(i)
    OBVIOUS
  <2>8. item.rank = i /\ item.posting = ResolvedEntry(entries, i) /\ item.version = 0
    BY <2>7 DEF Null
  <2>9. item.rank \in Nat \ {0} /\ item.posting \in Postings /\ item.version \in Nat /\ item.version =< version[item.posting]
    BY <2>1, <2>5, <2>6, <2>8
  <2>10. /\ EnrichItem(item) \in Items
         /\ EnrichItem(item).rank = item.rank /\ EnrichItem(item).posting = item.posting
         /\ EnrichItem(item).score \in {Null, EnrichItem(item).version}
    BY <2>9, EnrichedItem
  <2> HIDE DEF sent
  <2> QED BY <2>7, <2>8, <2>10
<1>2. ASSUME NEW i \in SnapshotItems(entries), NEW j \in SnapshotItems(entries),
             ResolvedEntry(entries, i) = ResolvedEntry(entries, j)
      PROVE  i = j
  <2>1. i \in 1 .. Len(entries) /\ j \in 1 .. Len(entries)
    BY DEF SnapshotItems
  <2>2. ~(i < j) /\ ~(j < i)
    BY <1>2, <2>1 DEF SnapshotItems
  <2> QED BY <2>1, <2>2
<1> HIDE DEF sent
<1>3. \A a \in items : a \in Items /\ a.score \in {Null, a.version}
  BY <1>1
<1>4. ASSUME NEW a \in items, NEW b \in items, a # b PROVE a.rank # b.rank /\ a.posting # b.posting
  <2>1. PICK i \in SnapshotItems(entries) : a = EnrichItem(sent(i))
    OBVIOUS
  <2>2. PICK j \in SnapshotItems(entries) : b = EnrichItem(sent(j))
    OBVIOUS
  <2>3. i # j
    BY <1>4, <2>1, <2>2
  <2> QED BY <1>1, <1>2, <2>1, <2>2, <2>3
<1>5. IsRanking(items)
  <2> HIDE DEF items
  <2>1. items \subseteq Items
    BY <1>3
  <2> QED BY <1>3, <1>4, <2>1 DEF IsRanking
<1> QED BY <1>5 DEF sent

LEMMA QueueCaptureKeeps ==
  ASSUME OutcomesInv, NEW r \in Requests, QueueCapture(r) PROVE OutcomesInv'
<1>1. PICK entries : entries = req[r].queue
  OBVIOUS
<1> DEFINE items == {EnrichItem([rank |-> i, posting |-> ResolvedEntry(entries, i), version |-> Null])
                       : i \in SnapshotItems(entries)}
           shot == [surface |-> "today", day |-> today, size |-> Len(entries), items |-> items]
           first == CHOOSE s \in TodaySnapshots(today) : TRUE
<1>2. req[r].op = "serve" /\ QueueWaits(req[r])
  BY DEF QueueCapture, OutcomesInv, RequestsSound, RequestSound
<1>3. IsRanking(items)
  BY <1>1, <1>2, CapturedRanking DEF QueueWaits, OutcomesInv, DeskInv
<1>4. /\ req' = [req EXCEPT ![r] = [op |-> "done"]]
      /\ UNCHANGED <<version, score, alias, events>> /\ UNCHANGED DeskTables
  BY DEF QueueCapture, DeskTables
<1>5. ASSUME TodaySnapshots(today) # {} PROVE SnapshotsKept' /\ Kept /\ RepliesKept'
  <2>1. Reply(r, "snapshot", first) /\ UNCHANGED <<snapshots, recommended>>
    BY <1>5 DEF QueueCapture
  <2>2. first \in DOMAIN snapshots
    BY <1>5 DEF TodaySnapshots
  <2> HIDE DEF first
  <2>3. Kept
    BY <1>4, <2>1, NothingLost DEF DeskTables
  <2>4. RepliesKept'
    BY <2>1, <2>2, <2>3, ReplyJoins DEF OutcomesInv
  <2>5. SnapshotsKept'
    BY <2>1, SnapshotsStay DEF OutcomesInv
  <2> QED BY <2>3, <2>4, <2>5
<1>6. ASSUME TodaySnapshots(today) = {} PROVE SnapshotsKept' /\ Kept /\ RepliesKept'
  <2>1. snapshots' = Joined(snapshots, r, shot) /\ Reply(r, "snapshot", r)
    BY <1>1, <1>6 DEF QueueCapture
  <2>2. shot.items = items /\ shot.day = today
    OBVIOUS
  <2> HIDE DEF shot, items
  <2>3. PICK s : s = shot
    OBVIOUS
  <2>4. TodaySnapshots(s.day) = {} /\ IsRanking(s.items)
    BY <1>3, <1>6, <2>2, <2>3
  <2>5. SnapshotsKept'
    BY <2>1, <2>3, <2>4, SnapshotJoins DEF OutcomesInv
  <2>6. /\ DOMAIN snapshots' = DOMAIN snapshots \cup {r}
        /\ \A x \in DOMAIN snapshots : snapshots'[x] = snapshots[x]
    BY <2>1 DEF Joined
  <2>7. Kept
    BY <1>4, <2>6 DEF Kept, DeskTables
  <2>8. RepliesKept'
    BY <2>1, <2>6, <2>7, ReplyJoins DEF OutcomesInv
  <2> QED BY <2>5, <2>7, <2>8
<1>7. SnapshotsKept' /\ Kept /\ RepliesKept'
  BY <1>5, <1>6
<1>8. RequestsSound'
  <2>1. req'[r].op = "done"
    BY <1>4 DEF OutcomesInv, RequestsSound
  <2>2. RequestSound(r)'
    BY <2>1 DEF RequestSound
  <2> QED BY <1>4, <1>7, <2>2, RequestsMove DEF OutcomesInv
<1> QED BY <1>4, <1>7, <1>8, DeskStays, CorpusStays, EventsStay DEF OutcomesInv

LEMMA QueueUncapturedKeeps ==
  ASSUME OutcomesInv, NEW r \in Requests, QueueUncaptured(r) PROVE OutcomesInv'
<1>1. /\ req' = [req EXCEPT ![r] = [op |-> "done"]] /\ Reply(r, "none", NoRequest)
      /\ UNCHANGED <<version, score, alias, snapshots, recommended, events>> /\ UNCHANGED DeskTables
  BY DEF QueueUncaptured, DeskTables
<1>2. Kept
  BY <1>1, NothingLost DEF DeskTables
<1>3. RepliesKept'
  BY <1>1, <1>2, ReplyJoins DEF OutcomesInv
<1>4. RequestsSound'
  <2>1. req'[r].op = "done"
    BY <1>1 DEF OutcomesInv, RequestsSound
  <2>2. RequestSound(r)'
    BY <2>1 DEF RequestSound
  <2> QED BY <1>1, <1>2, <2>2, RequestsMove DEF OutcomesInv
<1> QED BY <1>1, <1>2, <1>3, <1>4, DeskStays, CorpusStays, SnapshotsStay, EventsStay DEF OutcomesInv

(* Every step *)

LEMMA CorpusMoves ==
  ASSUME OutcomesInv, NEW p \in Moving, Reversion(p) \/ Rescore(p) PROVE OutcomesInv'
<1>1. UNCHANGED <<alias, snapshots, recommended, events, reply>> /\ UNCHANGED DeskTables /\ UNCHANGED req
  BY DEF Reversion, Rescore, deskVars, DeskTables
<1>2. p \in Postings /\ MaxVersions \in Nat
  BY OutcomesAssumption
<1>3. CorpusTyped'
  BY <1>1, <1>2 DEF Reversion, Rescore, OutcomesInv, CorpusTyped
<1>4. Kept
  BY <1>1, NothingLost DEF DeskTables
<1> QED BY <1>1, <1>3, <1>4, DeskStays, RequestsStay, SnapshotsStay, EventsStay, RepliesStay DEF OutcomesInv

LEMMA OutcomesStart == Init => OutcomesInv
<1> SUFFICES ASSUME Init PROVE OutcomesInv
  OBVIOUS
<1>1. /\ DOMAIN Loaded \subseteq Urls /\ \A u \in DOMAIN Loaded : Loaded[u] \in Keys
      /\ NoKey \notin Keys /\ MaxIngests \in Nat /\ MaxDay \in Nat \ {0}
  BY DeskAssumption
<1>2. DeskInit /\ OutcomesInit
  BY DEF Init
<1>3. DeskTypeOK
  <2>1. jobs \in [Urls -> [key : Keys \cup {NoKey}, present : BOOLEAN, described : Keys \cup {NoKey}]]
    BY <1>1, <1>2 DEF DeskInit, NoJob
  <2>2. /\ desk \in [Keys -> [exists : BOOLEAN, url : Urls \cup {Null}, status : Statuses,
                              starred : {0, 1}, applied_date : 0 .. MaxDay]]
        /\ trail \in [Keys -> [status : Statuses, starred : {0, 1}, applied_date : 0 .. MaxDay]]
    BY <1>1, <1>2 DEF DeskInit, NoState, Unlogged, Statuses, Null
  <2>3. company \in [contact : {0, 1}, notes : {0, 1}] /\ today \in 1 .. MaxDay /\ ingests \in 0 .. MaxIngests
    BY <1>1, <1>2 DEF DeskInit
  <2> QED BY <2>1, <2>2, <2>3 DEF DeskTypeOK
<1>4. RowsWhole /\ OwnCard /\ TrailReplays
  <2>1. \A u \in Urls : jobs[u].present => jobs[u].key # NoKey
    BY <1>1, <1>2 DEF DeskInit, NoJob
  <2>2. \A k \in Keys : desk[k] = NoState /\ trail[k] = Unlogged
    BY <1>2 DEF DeskInit
  <2>3. \A k \in Keys : \A f \in Fields : trail[k][f] = desk[k][f]
    BY <2>2 DEF Fields, NoState, Unlogged
  <2>4. \A k \in Keys : ~desk[k].exists
    BY <2>2 DEF NoState
  <2>5. RowsWhole
    BY <2>1, <2>2 DEF RowsWhole
  <2>6. OwnCard
    BY <2>4 DEF OwnCard
  <2> QED BY <2>3, <2>5, <2>6 DEF TrailReplays
<1>5. RequestsSound
  BY <1>2 DEF DeskInit, RequestsSound, RequestSound
<1>6. CorpusTyped
  BY <1>2, OutcomesAssumption DEF OutcomesInit, CorpusTyped, Null
<1>7. SnapshotsKept /\ EventsKept /\ RepliesKept
  BY <1>2 DEF OutcomesInit, SnapshotsKept, EventsKept, RepliesKept
<1> QED BY <1>3, <1>4, <1>5, <1>6, <1>7 DEF OutcomesInv, DeskInv

LEMMA OutcomesKeep == OutcomesInv /\ [Next]_vars => OutcomesInv'
<1> SUFFICES ASSUME OutcomesInv, [Next]_vars PROVE OutcomesInv'
  OBVIOUS
<1>1. CASE Elapse /\ UNCHANGED outcomeVars
  BY <1>1, IngestKeeps, MidnightKeeps DEF Elapse
<1>2. CASE \E r \in Editors : Edit(r) /\ UNCHANGED outcomeVars
  <2>1. PICK r \in Editors : Edit(r) /\ UNCHANGED outcomeVars
    BY <1>2
  <2>2. r \in Requests
    BY OutcomesAssumption
  <2> QED BY <2>1, <2>2, PatchReadKeeps, PatchWriteKeeps, CompanyReadKeeps, CompanyWriteKeeps DEF Edit
<1>3. CASE \E r \in Requests :
             \/ \E items \in ItemLists : SnapshotRead(r, items)
             \/ \E body \in EventBodies : EventRead(r, body)
             \/ SnapshotWrite(r) \/ EventWrite(r) \/ EventReply(r)
             \/ QueueRead(r) \/ QueueCapture(r) \/ QueueUncaptured(r)
  BY <1>3, SnapshotReadKeeps, EventReadKeeps, SnapshotWriteKeeps, EventWriteKeeps, EventReplyKeeps,
     QueueReadKeeps, QueueCaptureKeeps, QueueUncapturedKeeps
<1>4. CASE \E p \in Moving : Reversion(p) \/ Rescore(p)
  BY <1>4, CorpusMoves
<1>5. CASE UNCHANGED vars
  <2>1. /\ UNCHANGED <<version, score, alias, snapshots, events, reply>> /\ UNCHANGED req /\ UNCHANGED DeskTables
    BY <1>5 DEF vars, deskVars, outcomeVars, DeskTables
  <2>2. Kept
    BY <2>1, NothingLost DEF DeskTables
  <2> QED BY <2>1, <2>2, DeskStays, RequestsStay, CorpusStays, SnapshotsStay, EventsStay, RepliesStay DEF OutcomesInv
<1> QED BY <1>1, <1>2, <1>3, <1>4, <1>5 DEF Next

LEMMA OutcomesHold == Spec => []OutcomesInv
  BY OutcomesStart, OutcomesKeep, PTL DEF Spec

\* The cards, the trail and the rows the handlers of notes.py write are what the users
\* did, whatever requests, ingests and midnights interleave.
THEOREM DeskIsSound == Spec => []DeskSound
<1>1. OutcomesInv => DeskSound
  <2> SUFFICES ASSUME OutcomesInv PROVE DeskSound
    OBVIOUS
  <2>1. DeskTypeOK /\ OwnCard /\ TrailReplays
    BY DEF OutcomesInv, DeskInv
  <2>2. \A r \in DOMAIN snapshots : snapshots[r].items \subseteq Items
    BY DEF OutcomesInv, SnapshotsKept, IsRanking
  <2>3. \A e \in events : e.posting \in Postings \cup {NoKey}
    BY DEF OutcomesInv, EventsKept, EventRows
  <2>4. TypeOK
    BY <2>1, <2>2, <2>3 DEF TypeOK, OutcomesInv, CorpusTyped
  <2> QED BY <2>1, <2>4 DEF DeskSound
<1> QED BY <1>1, OutcomesHold, PTL

\* Snapshot-on-serve leaves one snapshot a day, and every snapshot is one ranking whose
\* items pair a version with its own score, though the corpus moves between the reads
\* and the write.
THEOREM SnapshotsAreSound == Spec => []SnapshotsSound
<1>1. OutcomesInv => SnapshotsSound
  <2> SUFFICES ASSUME OutcomesInv PROVE SnapshotsSound
    OBVIOUS
  <2>1. OneSnapshotADay
    BY DEF OutcomesInv, SnapshotsKept, RepliesKept, OneSnapshotADay
  <2>2. SnapshotsAreRankings /\ PairsAgree
    BY DEF OutcomesInv, SnapshotsKept, IsRanking, SnapshotsAreRankings, PairsAgree
  <2> QED BY <2>1, <2>2 DEF SnapshotsSound
<1> QED BY <1>1, OutcomesHold, PTL

\* An outcome event is stored once under its idempotency key, each retry is answered with
\* that row, and where it says it happened is an item that was recommended.
THEOREM EventsAreSound == Spec => []EventsSound
<1>1. OutcomesInv => EventsSound
  BY DEF OutcomesInv, EventsKept, RepliesKept, Attributed, EventsSound, AttributedTruly, RetriesAreOneEvent
<1> QED BY <1>1, OutcomesHold, PTL

(* What no step does *)

\* An upsert changes only what the request names, or fills an empty application date.
LEMMA UpsertChanges ==
  ASSUME NEW row \in StateRows, NEW url, NEW changes, NEW day, NEW f \in Fields,
         Upsert(row, url, changes, day)[f] # row[f]
  PROVE  f \in DOMAIN changes \/ (f = "applied_date" /\ row.applied_date = Null)
<1> DEFINE U == Upsert(row, url, changes, day)
<1>1. /\ U.status = IF "status" \in DOMAIN changes THEN changes["status"] ELSE row.status
      /\ U.starred = IF "starred" \in DOMAIN changes THEN changes["starred"] ELSE row.starred
      /\ U.applied_date = IF "applied_date" \in DOMAIN changes THEN changes["applied_date"]
                         ELSE IF AutoApplied(changes) /\ row.applied_date = Null THEN day ELSE row.applied_date
  BY DEF Upsert
<1>2. U[f] # row[f]
  OBVIOUS
<1> HIDE DEF U
<1>3. CASE f = "status"
  BY <1>1, <1>2, <1>3
<1>4. CASE f = "starred"
  BY <1>1, <1>2, <1>4
<1>5. CASE f = "applied_date"
  BY <1>1, <1>2, <1>5
<1> QED BY <1>3, <1>4, <1>5 DEF Fields

EditStep ==
    \A k \in Keys : \A f \in Fields :
        desk[k].exists /\ desk'[k][f] # desk[k][f] =>
           \E r \in Requests :
              /\ req[r].op = "apply" /\ req'[r].op = "done" /\ req[r].key = k
              /\ \/ f \in DOMAIN req[r].changes
                 \/ f = "applied_date" /\ desk[k].applied_date = Null

LEMMA PatchEdits == ASSUME OutcomesInv, NEW r \in Requests, PatchWrite(r) PROVE EditStep
<1> SUFFICES ASSUME NEW k \in Keys, NEW f \in Fields, desk[k].exists, desk'[k][f] # desk[k][f]
             PROVE  /\ req[r].op = "apply" /\ req'[r].op = "done" /\ req[r].key = k
                    /\ \/ f \in DOMAIN req[r].changes
                       \/ f = "applied_date" /\ desk[k].applied_date = Null
  BY DEF EditStep
<1>1. PICK q : q = req[r]
  OBVIOUS
<1>2. /\ desk' = [desk EXCEPT ![q.key] = Upsert(desk[q.key], q.url, q.changes, today)]
      /\ req' = [req EXCEPT ![r] = [op |-> "done"]] /\ req[r].op = "apply"
  BY <1>1 DEF PatchWrite
<1>3. desk \in [Keys -> StateRows]
  BY DEF OutcomesInv, DeskInv, DeskTypeOK, StateRows
<1>4. k = q.key
  BY <1>2, <1>3
<1>5. PICK row \in StateRows : row = desk[k]
  BY <1>3
<1>6. PICK day : day = today
  OBVIOUS
<1>7. Upsert(row, q.url, q.changes, day)[f] # row[f]
  BY <1>2, <1>3, <1>4, <1>5, <1>6
<1>8. f \in DOMAIN q.changes \/ (f = "applied_date" /\ row.applied_date = Null)
  BY <1>5, <1>7, UpsertChanges
<1>9. req'[r].op = "done"
  BY <1>2 DEF OutcomesInv, RequestsSound
<1> QED BY <1>1, <1>2, <1>4, <1>5, <1>8, <1>9

LEMMA IngestEdits ==
  ASSUME OutcomesInv, NEW batch \in Batches, NEW picks \in SUBSET DOMAIN batch, Ingest(batch, picks)
  PROVE  EditStep
<1> SUFFICES ASSUME NEW k \in Keys, NEW f \in Fields, desk[k].exists PROVE desk'[k][f] = desk[k][f]
  BY DEF EditStep
<1>1. desk'[k] = [desk[k] EXCEPT !.url = DisplayUrl(IngestedJobs(batch), k)]
  BY DEF Ingest
<1>2. desk[k] \in StateRows
  BY DEF OutcomesInv, DeskInv, DeskTypeOK, StateRows
<1> QED BY <1>1, <1>2 DEF StateRows, Fields

CompanyStep == \A f \in DOMAIN company : company'[f] < company[f] => "company" \in raced'

LEMMA CompanyEdits == ASSUME OutcomesInv, NEW r \in Requests, CompanyWrite(r) PROVE CompanyStep
<1>1. CompanyWaits(req[r])
  BY DEF CompanyWrite, OutcomesInv, RequestsSound, RequestSound
<1>2. company \in CompanyRows
  BY DEF OutcomesInv, DeskInv, DeskTypeOK, CompanyRows
<1>3. company' = req[r].row /\ raced' = IF req[r].old # company THEN raced \cup {"company"} ELSE raced
  BY DEF CompanyWrite
<1>4. CASE req[r].old # company
  BY <1>3, <1>4 DEF CompanyStep
<1>5. CASE req[r].old = company
  <2>1. company'.contact >= company.contact /\ company'.notes >= company.notes
    BY <1>1, <1>3, <1>5 DEF CompanyWaits
  <2>2. company' \in CompanyRows
    BY <1>1, <1>3 DEF CompanyWaits
  <2>3. ~(company'.contact < company.contact) /\ ~(company'.notes < company.notes)
    BY <1>2, <2>1, <2>2 DEF CompanyRows
  <2> QED BY <1>2, <2>3 DEF CompanyStep, CompanyRows
<1> QED BY <1>4, <1>5

LEMMA CompanyUntouched == ASSUME OutcomesInv, UNCHANGED company PROVE CompanyStep
<1>1. company \in CompanyRows
  BY DEF OutcomesInv, DeskInv, DeskTypeOK, CompanyRows
<1> QED BY <1>1 DEF CompanyStep, CompanyRows

HistoryStep ==
    /\ events \subseteq events' /\ recommended \subseteq recommended'
    /\ \A r \in DOMAIN snapshots : r \in DOMAIN snapshots' /\ snapshots'[r] = snapshots[r]

LEMMA HistoryUntouched == ASSUME UNCHANGED <<events, recommended, snapshots>> PROVE HistoryStep
BY DEF HistoryStep

LEMMA DeskUntouched == ASSUME UNCHANGED desk PROVE EditStep
BY DEF EditStep

LEMMA StepsSurvive == OutcomesInv /\ [Next]_vars => EditStep /\ CompanyStep /\ HistoryStep
<1> SUFFICES ASSUME OutcomesInv, [Next]_vars PROVE EditStep /\ CompanyStep /\ HistoryStep
  OBVIOUS
<1>1. ASSUME NEW batch \in Batches, NEW picks \in SUBSET DOMAIN batch, Ingest(batch, picks), UNCHANGED outcomeVars
      PROVE  EditStep /\ CompanyStep /\ HistoryStep
  BY <1>1, IngestEdits, CompanyUntouched, HistoryUntouched DEF Ingest, outcomeVars
<1>2. ASSUME Midnight, UNCHANGED outcomeVars PROVE EditStep /\ CompanyStep /\ HistoryStep
  BY <1>2, DeskUntouched, CompanyUntouched, HistoryUntouched DEF Midnight, outcomeVars
<1>3. ASSUME NEW r \in Requests, Edit(r), UNCHANGED outcomeVars PROVE EditStep /\ CompanyStep /\ HistoryStep
  <2>1. HistoryStep
    BY <1>3, HistoryUntouched DEF outcomeVars
  <2>2. CASE PatchWrite(r)
    BY <2>1, <2>2, PatchEdits, CompanyUntouched DEF PatchWrite
  <2>3. CASE CompanyWrite(r)
    BY <2>1, <2>3, CompanyEdits, DeskUntouched DEF CompanyWrite
  <2>4. CASE \/ \E url \in Urls, changes \in Patches : PatchRead(r, url, changes)
             \/ \E field \in DOMAIN company : CompanyRead(r, field)
    BY <2>1, <2>4, DeskUntouched, CompanyUntouched DEF PatchRead, CompanyRead
  <2> QED BY <1>3, <2>2, <2>3, <2>4 DEF Edit
<1>4. ASSUME NEW r \in Requests,
             \/ \E items \in ItemLists : SnapshotRead(r, items)
             \/ \E body \in EventBodies : EventRead(r, body)
             \/ SnapshotWrite(r) \/ EventWrite(r) \/ EventReply(r)
             \/ QueueRead(r) \/ QueueCapture(r) \/ QueueUncaptured(r)
      PROVE  EditStep /\ CompanyStep /\ HistoryStep
  <2>1. UNCHANGED <<desk, company>>
    BY <1>4 DEF SnapshotRead, EventRead, SnapshotWrite, EventWrite, EventReply, QueueRead, QueueCapture, QueueUncaptured
  <2>2. events \subseteq events'
    BY <1>4 DEF SnapshotRead, EventRead, SnapshotWrite, EventWrite, EventReply, QueueRead, QueueCapture,
                QueueUncaptured, outcomeVars
  <2>3. recommended \subseteq recommended'
    BY <1>4 DEF SnapshotRead, EventRead, SnapshotWrite, EventWrite, EventReply, QueueRead, QueueCapture,
                QueueUncaptured, outcomeVars, EnsureRecommendations
  <2>4. \A x \in DOMAIN snapshots : x \in DOMAIN snapshots' /\ snapshots'[x] = snapshots[x]
    <3>1. CASE SnapshotWrite(r)
      BY <3>1 DEF SnapshotWrite, Joined
    <3>2. CASE QueueCapture(r)
      BY <3>2 DEF QueueCapture, Joined
    <3>3. CASE ~SnapshotWrite(r) /\ ~QueueCapture(r)
      BY <1>4, <3>3 DEF SnapshotRead, EventRead, EventWrite, EventReply, QueueRead, QueueUncaptured, outcomeVars
    <3> QED BY <3>1, <3>2, <3>3
  <2>5. HistoryStep
    BY <2>2, <2>3, <2>4 DEF HistoryStep
  <2> QED BY <2>1, <2>5, DeskUntouched, CompanyUntouched
<1>5. ASSUME NEW p \in Moving, Reversion(p) \/ Rescore(p) PROVE EditStep /\ CompanyStep /\ HistoryStep
  BY <1>5, DeskUntouched, CompanyUntouched, HistoryUntouched DEF Reversion, Rescore, deskVars
<1>6. ASSUME UNCHANGED vars PROVE EditStep /\ CompanyStep /\ HistoryStep
  BY <1>6, DeskUntouched, CompanyUntouched, HistoryUntouched DEF vars, deskVars, outcomeVars
<1>7. Editors \subseteq Requests
  BY OutcomesAssumption
<1> QED BY <1>1, <1>2, <1>3, <1>4, <1>5, <1>6, <1>7 DEF Next, Elapse

\* No step undoes another request's edit - a field nobody named stays, a company's notes
\* are lost only to an overlap - and none drops or edits what was recommended or came of it.
THEOREM EditsDoSurvive == Spec => EditsSurvive
<1>1. OutcomesInv /\ [Next]_vars =>
        [\A k \in Keys : \A f \in Fields :
           desk[k].exists /\ desk'[k][f] # desk[k][f] =>
             \E r \in Requests :
                /\ req[r].op = "apply" /\ req'[r].op = "done" /\ req[r].key = k
                /\ \/ f \in DOMAIN req[r].changes
                   \/ f = "applied_date" /\ desk[k].applied_date = Null]_deskVars
  BY StepsSurvive DEF EditStep
<1>2. OutcomesInv /\ [Next]_vars =>
        [\A f \in DOMAIN company : company'[f] < company[f] => "company" \in raced']_deskVars
  BY StepsSurvive DEF CompanyStep
<1>3. OutcomesInv /\ [Next]_vars =>
        [/\ events \subseteq events' /\ recommended \subseteq recommended'
         /\ \A r \in DOMAIN snapshots : r \in DOMAIN snapshots' /\ snapshots'[r] = snapshots[r]]_vars
  BY StepsSurvive DEF HistoryStep
<1>4. Spec => DisjointEditsSurvive
  BY <1>1, OutcomesHold, PTL DEF Spec, DisjointEditsSurvive
<1>5. Spec => CompanyKept
  BY <1>2, OutcomesHold, PTL DEF Spec, CompanyKept
<1>6. Spec => HistoryKept
  BY <1>3, OutcomesHold, PTL DEF Spec, HistoryKept
<1> QED BY <1>4, <1>5, <1>6, PTL DEF EditsSurvive
=============================================================================
