---------------------------- MODULE DatabaseProofs ----------------------------
(***************************************************************************)
(* The rows of app.db on their way up the ladder, and the copies of the    *)
(* file, for any content an earlier release left, any number of processes, *)
(* starts, faults and backups.                                             *)
(***************************************************************************)
EXTENDS Database, FiniteSetTheorems, TLAPS

AllIds(c) == Ids(c.rows) \cup Ids(c.archived)
Once(events, e) == Cardinality({i \in DOMAIN events : Plain(events[i]) = e}) = 1

\* What the ladder leaves of the content b it began with.
Since(b, c) ==
    /\ AllIds(c) = AllIds(b) /\ c.jobs = b.jobs /\ c.hist = b.hist /\ b.applied \subseteq c.applied
    /\ 2 \notin c.applied => c.rows = b.rows
    /\ 2 \in c.applied /\ 2 \notin b.applied => \A e \in Backfilled(b) : Once(c.events, e)
    /\ c.applied = b.applied => [c EXCEPT !.objs = b.objs] = b
    /\ b.objs = {} => c.members = {} /\ c.aliases = {}

\* A process that climbs has a rest of the ladder before it, and what is below is applied.
Climbs(p) ==
    pc[p] \in {"backup", "migrate"} =>
        \E k \in 1 .. TopVersion : pending[p] = k .. TopVersion /\ 1 .. (k - 1) \subseteq db.applied

Pcs == {"down", "script", "version", "backup", "migrate", "up", "failed"}
ProcTypes ==
    /\ pc \in [Procs -> Pcs] /\ fresh \in [Procs -> BOOLEAN]
    /\ pos \in [Procs -> Nat] /\ pending \in [Procs -> SUBSET (1 .. TopVersion)]

ProcInv(p) ==
    /\ pc[p] = "script" => pos[p] \in 1 .. Len(Script(fresh[p]))
    /\ pc[p] \in {"script", "version"} /\ fresh[p] => base.objs = {}
    /\ pc[p] \in {"version", "backup", "migrate"} => db.objs # {}
    /\ Climbs(p)

BackedUp == \E b \in baks : [b EXCEPT !.objs = base.objs] = base
BackupInv ==
    base.objs # {} =>
        /\ db.objs # {}
        /\ db.applied # base.applied \/ (\E p \in Procs : pc[p] = "migrate") => BackedUp

\* A whole copy is a content of the file, unless it was damaged; then it has no rows,
\* and its manifest, if it has one, says that it had some.
CopyInv(d) ==
    /\ DOMAIN d = {"file", "content", "listed", "manifest", "damaged"}
    /\ d.listed \in BOOLEAN /\ d.damaged \in BOOLEAN
    /\ d.file = "whole" /\ ~d.damaged => Consistent(d.content) /\ AllIds(d.content) = AllIds(base)
    /\ d.listed /\ ~d.damaged => d.file = "whole" /\ d.manifest = Accounting(d.content)
    /\ d.damaged => d.content.rows = {} /\ (d.listed => d.manifest.rows # 0)

ToolInv ==
    /\ \E S : dumps \in Seq(S)
    /\ DOMAIN tool = {"at", "n"} /\ tool.at \in {"idle", "copy", "manifest", "restore"}
    /\ tool.at # "idle" => tool.n \in DOMAIN dumps
    /\ tool.at = "copy" => LET d == dumps[tool.n] IN d.file = "partial" /\ ~d.listed /\ ~d.damaged
    /\ tool.at = "manifest" => LET d == dumps[tool.n] IN d.file = "whole" /\ ~d.listed /\ ~d.damaged
    /\ tool.at = "restore" => dumps[tool.n].listed

DestInv ==
    dest.state = "ok" => Consistent(dest.content) /\ AllIds(dest.content) = AllIds(base)

FileInv == Consistent(db) /\ Consistent(base) /\ Since(base, db)
DatabaseInv ==
    /\ FileInv /\ BackupInv /\ ToolInv /\ DestInv
    /\ ProcTypes /\ \A p \in Procs : ProcInv(p)
    /\ \A n \in DOMAIN dumps : CopyInv(dumps[n])
-----------------------------------------------------------------------------
(* Numbers, finite sets and lists                                          *)

\* A set of numbers that is not empty has a least.
LEMMA LeastNumber ==
  ASSUME NEW S \in SUBSET Nat, S # {}
  PROVE  \E m \in S : \A n \in S : m <= n
  <1>1. PICK m \in S : \A n \in S : ~(<<n, m>> \in OpToRel(<, Nat))
    BY NatLessThanWellFounded, WFMin, Zenon
  <1>2. \A n \in S : ~(n < m)
    BY <1>1, Zenon DEF OpToRel
  <1> QED BY <1>2

LEMMA MinFacts ==
  ASSUME NEW S \in SUBSET Nat, S # {}
  PROVE  Min(S) \in S /\ \A n \in S : Min(S) <= n
  <1>1. \E m \in S : \A n \in S : m <= n
    BY LeastNumber
  <1> QED BY <1>1, Zenon DEF Min

\* A finite set of numbers that is not empty has a greatest.
LEMMA GreatestNumber ==
  ASSUME NEW S \in SUBSET Nat, IsFiniteSet(S), S # {}
  PROVE  \E m \in S : \A n \in S : n <= m
  <1> DEFINE Topped(V) == \E m \in V : \A n \in V : n <= m
             B == {k \in Nat : \E V \in SUBSET Nat : IsFiniteSet(V) /\ V # {} /\ Cardinality(V) = k /\ ~Topped(V)}
  <1> SUFFICES ASSUME ~Topped(S) PROVE FALSE
    OBVIOUS
  <1>1. B # {}
    BY FS_CardinalityType
  <1>2. PICK k \in B : \A j \in B : k <= j
    <2>1. B \in SUBSET Nat
      OBVIOUS
    <2> HIDE DEF B
    <2> QED BY <1>1, <2>1, LeastNumber
  <1>3. PICK V \in SUBSET Nat : IsFiniteSet(V) /\ V # {} /\ Cardinality(V) = k /\ ~Topped(V)
    BY <1>2
  <1>4. PICK x \in V : TRUE
    BY <1>3
  <1>5. IsFiniteSet(V \ {x}) /\ Cardinality(V \ {x}) = k - 1 /\ k \in Nat
    BY <1>2, <1>3, <1>4, FS_RemoveElement
  <1>6. V \ {x} # {}
    <2>1. V = {x} => Topped(V)
      OBVIOUS
    <2> QED BY <1>3, <2>1
  <1>7. Topped(V \ {x})
    <2>1. k - 1 \in Nat
      BY <1>5, FS_CardinalityType
    <2>2. ~(k <= k - 1)
      BY <1>5
    <2>3. k - 1 \notin B
      BY <1>2, <2>2
    <2> QED BY <1>3, <1>5, <1>6, <2>1, <2>3
  <1>8. PICK y \in V \ {x} : \A n \in V \ {x} : n <= y
    BY <1>7
  <1>9. Topped(V)
    <2>1. x \in Nat /\ y \in Nat
      BY <1>3, <1>4, <1>8
    <2>2. CASE x <= y
      <3>1. \A n \in V : n <= y
        BY <1>8, <2>2
      <3> QED BY <1>8, <3>1
    <2>3. CASE y <= x
      <3>1. \A n \in V : n <= x
        BY <1>3, <1>8, <2>1, <2>3
      <3> QED BY <1>4, <3>1
    <2> QED BY <2>1, <2>2, <2>3
  <1> QED BY <1>3, <1>9

LEMMA MaxFacts ==
  ASSUME NEW S \in SUBSET Nat, IsFiniteSet(S), S # {}
  PROVE  Max(S) \in S
  <1>1. PICK m \in S : \A n \in S : n <= m
    BY GreatestNumber
  <1>2. \A n \in S : m >= n
    BY <1>1
  <1> QED BY <1>2, Zenon DEF Max

\* A finite set has a list that names each of its members once.
LEMMA ListFacts ==
  ASSUME NEW S, IsFiniteSet(S), NEW L, L = SetToSeq(S)
  PROVE  /\ L \in Seq(S) /\ DOMAIN L = 1 .. Cardinality(S)
         /\ \A e \in S : \E i \in DOMAIN L : L[i] = e /\ \A j \in DOMAIN L : L[j] = e => j = i
  <1> DEFINE n == Cardinality(S)
  <1>1. n \in Nat /\ ExistsBijection(1 .. n, S)
    BY FS_CardinalityType
  <1>2. PICK f \in [1 .. n -> S] : IsInjective(f)
    BY <1>1 DEF ExistsBijection, Bijection, Injection
  <1>3. L \in [1 .. n -> S] /\ IsInjective(L)
    BY <1>2, Zenon DEF SetToSeq
  <1>4. L \in Surjection(1 .. n, S)
    <2>1. L \in Injection(1 .. n, S)
      BY <1>3 DEF Injection
    <2>2. Cardinality(1 .. n) = n
      BY <1>1, FS_Interval
    <2> QED BY <2>1, <2>2, FS_Injection
  <1>5. L \in Seq(S)
    BY <1>1, <1>3
  <1>6. \A e \in S : \E i \in 1 .. n : L[i] = e
    BY <1>4 DEF Surjection
  <1>7. \A i, j \in 1 .. n : L[i] = L[j] => i = j
    BY <1>3 DEF IsInjective
  <1> QED BY <1>3, <1>5, <1>6, <1>7

\* What one finite set is made into is finite.
LEMMA ImageFinite ==
  ASSUME NEW S, IsFiniteSet(S), NEW f, DOMAIN f = S
  PROVE  IsFiniteSet({f[x] : x \in S})
  <1> DEFINE V == {f[x] : x \in S}
             g == [x \in S |-> f[x]]
  <1>1. g \in Surjection(S, V)
    BY DEF Surjection
  <1>2. IsFiniteSet(V)
    <2> HIDE DEF g, V
    <2> QED BY <1>1, FS_Surjection
  <1> QED BY <1>2
-----------------------------------------------------------------------------
(* Lineages and their windows (migration 11)                               *)

LEMMA LineageFacts ==
  ASSUME NEW c, Tabled(c), NEW l \in Lineages(c)
  PROVE  /\ l \in Nat \X Nat /\ l = <<l[1], l[2]>>
         /\ FirstSeen(c, l) \in Nat /\ FirstSeen(c, l) # 0 /\ LastSeen(c, l) \in Nat
  <1> DEFINE H == {x \in c.hist : Lineage(x) = l}
             J == {x \in c.jobs : Lineage(x) = l}
             D == {h.date : h \in H} \cup {j.first : j \in J} \cup {j.last : j \in J}
  <1>1. /\ c.hist \subseteq HistRecords /\ IsFiniteSet(c.hist)
        /\ c.jobs \subseteq JobRecords /\ IsFiniteSet(c.jobs)
    BY DEF Tabled
  <1>2. \A h \in c.hist : h.date \in Nat \ {0} /\ h.url \in Nat /\ h.key \in Nat
    BY <1>1 DEF HistRecords
  <1>3. \A j \in c.jobs : j.first \in Nat \ {0} /\ j.last \in Nat \ {0} /\ j.url \in Nat /\ j.key \in Nat
    BY <1>1 DEF JobRecords
  <1>4. l \in Seen(c)
    BY DEF Lineages
  <1>5. H # {} \/ J # {}
    BY <1>4 DEF Seen
  <1>6. l \in Nat \X Nat
    BY <1>2, <1>3, <1>4 DEF Seen, Lineage
  <1>7. Dates(c, l) = D
    BY DEF Dates
  <1>8. D \subseteq Nat \ {0} /\ D # {}
    BY <1>2, <1>3, <1>5
  <1>9. IsFiniteSet(D)
    <2>1. IsFiniteSet(H) /\ IsFiniteSet(J)
      BY <1>1, FS_Subset
    <2>2. IsFiniteSet({h.date : h \in H})
      <3>1. PICK f : f = [h \in H |-> h.date]
        OBVIOUS
      <3>2. IsFiniteSet({f[h] : h \in H})
        BY <2>1, <3>1, ImageFinite
      <3>3. {f[h] : h \in H} = {h.date : h \in H}
        BY <3>1
      <3> QED BY <3>2, <3>3
    <2>3. IsFiniteSet({j.first : j \in J})
      <3>1. PICK f : f = [j \in J |-> j.first]
        OBVIOUS
      <3>2. IsFiniteSet({f[j] : j \in J})
        BY <2>1, <3>1, ImageFinite
      <3>3. {f[j] : j \in J} = {j.first : j \in J}
        BY <3>1
      <3> QED BY <3>2, <3>3
    <2>4. IsFiniteSet({j.last : j \in J})
      <3>1. PICK f : f = [j \in J |-> j.last]
        OBVIOUS
      <3>2. IsFiniteSet({f[j] : j \in J})
        BY <2>1, <3>1, ImageFinite
      <3>3. {f[j] : j \in J} = {j.last : j \in J}
        BY <3>1
      <3> QED BY <3>2, <3>3
    <2> QED BY <2>2, <2>3, <2>4, FS_Union
  <1> HIDE DEF D
  <1>10. D \in SUBSET Nat
    BY <1>8
  <1>11. Min(D) \in D /\ Max(D) \in D
    BY <1>8, <1>9, <1>10, MinFacts, MaxFacts
  <1>12. FirstSeen(c, l) \in D /\ LastSeen(c, l) \in D
    BY <1>7, <1>11 DEF FirstSeen, LastSeen
  <1>13. FirstSeen(c, l) \in Nat /\ FirstSeen(c, l) # 0 /\ LastSeen(c, l) \in Nat
    BY <1>8, <1>12
  <1>14. l = <<l[1], l[2]>>
    BY <1>6
  <1> QED BY <1>6, <1>13, <1>14

\* The window of a lineage ends where that of a later one of its url begins, or before.
LEMMA WindowEnds ==
  ASSUME NEW c, Tabled(c), NEW l \in Lineages(c), NEW m \in Lineages(c), l[1] = m[1], Precedes(c, l, m)
  PROVE  Alias(c, l).to # 0 /\ Alias(c, l).to =< Alias(c, m).from
  <1> DEFINE next == {FirstSeen(c, k) : k \in {x \in Lineages(c) : x[1] = l[1] /\ Precedes(c, l, x)}}
  <1>1. FirstSeen(c, m) \in next
    OBVIOUS
  <1>2. next \in SUBSET Nat /\ 0 \notin next
    <2>1. \A k \in Lineages(c) : FirstSeen(c, k) \in Nat /\ FirstSeen(c, k) # 0
      BY LineageFacts
    <2> QED BY <2>1
  <1>3. Alias(c, l).to = Min(next) /\ Alias(c, m).from = FirstSeen(c, m)
    BY <1>1 DEF Alias
  <1> HIDE DEF next
  <1>4. Min(next) \in next /\ \A n \in next : Min(next) <= n
    BY <1>1, <1>2, MinFacts
  <1> QED BY <1>1, <1>2, <1>3, <1>4

LEMMA WindowsHold ==
  ASSUME NEW c, Tabled(c)
  PROVE  Windows({Alias(c, l) : l \in Lineages(c)})
  <1> SUFFICES ASSUME NEW l \in Lineages(c), NEW m \in Lineages(c),
                      Alias(c, l).url = Alias(c, m).url, Alias(c, l) # Alias(c, m)
               PROVE  \/ Alias(c, l).to # 0 /\ Alias(c, l).to =< Alias(c, m).from
                      \/ Alias(c, m).to # 0 /\ Alias(c, m).to =< Alias(c, l).from
    BY DEF Windows
  <1>1. l[1] = m[1] /\ l # m
    BY DEF Alias
  <1>2. l[2] # m[2] /\ l[2] \in Nat /\ m[2] \in Nat
    BY <1>1, LineageFacts
  <1>3. Precedes(c, l, m) \/ Precedes(c, m, l)
    <2>1. PICK f1, f2, l1, l2 : /\ f1 = FirstSeen(c, l) /\ f2 = FirstSeen(c, m)
                                /\ l1 = LastSeen(c, l) /\ l2 = LastSeen(c, m)
      OBVIOUS
    <2>2. f1 \in Nat /\ f2 \in Nat /\ l1 \in Nat /\ l2 \in Nat
      BY <2>1, LineageFacts
    <2>3. f1 < f2 \/ f2 < f1 \/ f1 = f2
      BY <2>2
    <2>4. l1 < l2 \/ l2 < l1 \/ l1 = l2
      BY <2>2
    <2>5. l[2] < m[2] \/ m[2] < l[2]
      BY <1>2
    <2> QED BY <2>1, <2>3, <2>4, <2>5 DEF Precedes
  <1> QED BY <1>1, <1>3, WindowEnds
-----------------------------------------------------------------------------
(* What a migration does to the rows                                       *)

\* What every migration leaves: rows change their url and their posting, leave for the
\* archive, and no more; an event of the backfill that is in the log once stays so.
Moved(c, d) ==
    /\ Tabled(d) /\ AllIds(d) = AllIds(c) /\ d.jobs = c.jobs /\ d.hist = c.hist
    /\ d.objs = c.objs /\ d.applied = c.applied
    /\ \A r, s \in d.rows : r.id = s.id => r = s
    /\ Ids(d.rows) \cap Ids(d.archived) = {}
    /\ (\A r, s \in c.rows : r.key = s.key => r = s) => (\A r, s \in d.rows : r.key = s.key => r = s)
    /\ c.rows = {} => d.rows = {}
    /\ \A e \in EventRecords : e.field # "archived" /\ Once(c.events, e) => Once(d.events, e)

\* One of the rows of a role beats the others, and only one.
LEMMA OneWinner ==
  ASSUME NEW c, Tabled(c), RowsApart(c), NEW r \in Winners(c), NEW s \in Winners(c), r.key = s.key
  PROVE  r = s
  <1>1. r \in c.rows /\ s \in c.rows /\ Beats(r, s) /\ Beats(s, r)
    BY DEF Winners, Namesakes
  <1>2. /\ r.status \in Nat /\ s.status \in Nat /\ r.upd \in Nat /\ s.upd \in Nat
        /\ r.url \in Nat /\ s.url \in Nat /\ r.id \in Nat /\ s.id \in Nat
    BY <1>1 DEF Tabled, RowRecords
  <1>3. r.id = s.id
    BY <1>1, <1>2 DEF Beats
  <1> QED BY <1>1, <1>3 DEF RowsApart

LEMMA EventTyped ==
  ASSUME NEW r \in RowRecords, NEW field \in {"status", "starred", "archived"}, NEW old \in Nat, NEW new \in Nat
  PROVE  /\ Event(r, field, old, new) \in EventRecords /\ Event(r, field, old, new).field = field
         /\ Event(r, field, old, new).posting = NoLineage
  BY DEF Event, RowRecords, EventRecords, NoLineage, Tracked

\* The backfill derives finitely many events, none of them an archiving.
LEMMA BackfillFacts ==
  ASSUME NEW c, Tabled(c)
  PROVE  /\ IsFiniteSet(Backfilled(c)) /\ Backfilled(c) \subseteq EventRecords
         /\ \A e \in Backfilled(c) : e.field # "archived" /\ e.posting = NoLineage
         /\ c.rows = {} => Backfilled(c) = {}
  <1> DEFINE A(r) == Event(r, "status", 0, AppliedIdx)
             B(r) == Event(r, "status", AppliedIdx, r.status)
             C(r) == Event(r, "status", 0, r.status)
             D(r) == Event(r, "starred", 0, 1)
             All == {A(r) : r \in c.rows} \cup {B(r) : r \in c.rows} \cup {C(r) : r \in c.rows} \cup {D(r) : r \in c.rows}
  <1>1. c.rows \subseteq RowRecords /\ IsFiniteSet(c.rows)
    BY DEF Tabled
  <1>2. \A r \in c.rows : EventsOf(r) \subseteq {A(r), B(r), C(r), D(r)}
    BY DEF EventsOf
  <1>3. Backfilled(c) \subseteq All
    BY <1>2 DEF Backfilled
  <1>4. \A r \in c.rows : \A e \in {A(r), B(r), C(r), D(r)} :
           e \in EventRecords /\ e.field # "archived" /\ e.posting = NoLineage
    <2>1. ASSUME NEW r \in c.rows PROVE r \in RowRecords /\ r.status \in Nat
      BY <1>1 DEF RowRecords
    <2>2. AppliedIdx \in Nat
      BY DEF AppliedIdx
    <2> HIDE DEF All
    <2>3. ASSUME NEW r \in c.rows PROVE A(r) \in EventRecords /\ A(r).field # "archived" /\ A(r).posting = NoLineage
      BY <2>1, <2>2, EventTyped
    <2>4. ASSUME NEW r \in c.rows PROVE B(r) \in EventRecords /\ B(r).field # "archived" /\ B(r).posting = NoLineage
      BY <2>1, <2>2, EventTyped
    <2>5. ASSUME NEW r \in c.rows PROVE C(r) \in EventRecords /\ C(r).field # "archived" /\ C(r).posting = NoLineage
      BY <2>1, <2>2, EventTyped
    <2>6. ASSUME NEW r \in c.rows PROVE D(r) \in EventRecords /\ D(r).field # "archived" /\ D(r).posting = NoLineage
      BY <2>1, <2>2, EventTyped
    <2> HIDE DEF A, B, C, D
    <2> QED BY <2>3, <2>4, <2>5, <2>6
  <1>5. IsFiniteSet(All)
    <2>1. \A f : DOMAIN f = c.rows => IsFiniteSet({f[r] : r \in c.rows})
      BY <1>1, ImageFinite
    <2> HIDE DEF A, B, C, D
    <2>2. IsFiniteSet({A(r) : r \in c.rows})
      <3>1. PICK f : f = [r \in c.rows |-> A(r)]
        OBVIOUS
      <3>2. {f[r] : r \in c.rows} = {A(r) : r \in c.rows}
        BY <3>1
      <3> QED BY <2>1, <3>1, <3>2
    <2>3. IsFiniteSet({B(r) : r \in c.rows})
      <3>1. PICK f : f = [r \in c.rows |-> B(r)]
        OBVIOUS
      <3>2. {f[r] : r \in c.rows} = {B(r) : r \in c.rows}
        BY <3>1
      <3> QED BY <2>1, <3>1, <3>2
    <2>4. IsFiniteSet({C(r) : r \in c.rows})
      <3>1. PICK f : f = [r \in c.rows |-> C(r)]
        OBVIOUS
      <3>2. {f[r] : r \in c.rows} = {C(r) : r \in c.rows}
        BY <3>1
      <3> QED BY <2>1, <3>1, <3>2
    <2>5. IsFiniteSet({D(r) : r \in c.rows})
      <3>1. PICK f : f = [r \in c.rows |-> D(r)]
        OBVIOUS
      <3>2. {f[r] : r \in c.rows} = {D(r) : r \in c.rows}
        BY <3>1
      <3> QED BY <2>1, <3>1, <3>2
    <2> QED BY <2>2, <2>3, <2>4, <2>5, FS_Union
  <1>6. IsFiniteSet(Backfilled(c))
    BY <1>3, <1>5, FS_Subset
  <1>7. c.rows = {} => Backfilled(c) = {}
    BY DEF Backfilled
  <1>8. \A e \in Backfilled(c) : \E r \in c.rows : e \in {A(r), B(r), C(r), D(r)}
    BY <1>2 DEF Backfilled
  <1> HIDE DEF A, B, C, D
  <1> QED BY <1>4, <1>6, <1>7, <1>8

LEMMA Columns ==
  ASSUME NEW c, Tabled(c)
  PROVE  DOMAIN c = {"objs", "applied", "rows", "archived", "events", "jobs", "hist", "runs", "imported",
                     "aliases", "members", "misfits"}
  BY DEF Tabled, Empty

\* A row that gets another url or posting is one row as before.
LEMMA RowsEdited ==
  ASSUME NEW S \in SUBSET RowRecords, IsFiniteSet(S), NEW f, DOMAIN f = S,
         \A r \in S : f[r] \in RowRecords /\ f[r].id = r.id /\ f[r].key = r.key,
         \A r, s \in S : r.id = s.id => r = s
  PROVE  LET V == {f[r] : r \in S}
         IN /\ V \subseteq RowRecords /\ IsFiniteSet(V) /\ Ids(V) = Ids(S)
            /\ \A r, s \in V : r.id = s.id => r = s
            /\ (\A r, s \in S : r.key = s.key => r = s) => (\A r, s \in V : r.key = s.key => r = s)
            /\ S = {} => V = {}
  <1> DEFINE V == {f[r] : r \in S}
  <1>1. V \subseteq RowRecords
    OBVIOUS
  <1>2. IsFiniteSet(V)
    BY ImageFinite
  <1>3. Ids(V) = Ids(S)
    BY DEF Ids
  <1> QED BY <1>1, <1>2, <1>3

\* What migration 3 makes of the log: an event of the backfill in it once stays so.
LEMMA ArchivingAdds ==
  ASSUME NEW E \in Seq(EventRecords), NEW A \in Seq(EventRecords), \A i \in DOMAIN A : A[i].field = "archived",
         NEW e \in EventRecords, e.field # "archived", Once(E, e)
  PROVE  Once(E \o A, e)
  <1> DEFINE F == E \o A
  <1>1. ASSUME NEW i \in DOMAIN F, i \notin DOMAIN E PROVE Plain(F[i]) # e
    <2>1. i - Len(E) \in DOMAIN A /\ F[i] = A[i - Len(E)]
      BY <1>1
    <2>2. F[i].field = "archived" /\ F[i] \in EventRecords
      BY <2>1
    <2>3. Plain(F[i]).field = "archived"
      BY <2>2 DEF Plain, EventRecords
    <2> QED BY <2>3
  <1>2. \A i \in DOMAIN E : i \in DOMAIN F /\ F[i] = E[i]
    OBVIOUS
  <1>3. {i \in DOMAIN F : Plain(F[i]) = e} = {i \in DOMAIN E : Plain(E[i]) = e}
    <2> HIDE DEF F
    <2> QED BY <1>1, <1>2
  <1> QED BY <1>3 DEF Once

\* The other tables of the new model that a migration of the rows leaves alone.
Beside(c, d) == d.aliases = c.aliases /\ d.members = c.members

LEMMA DisplayUrlTyped ==
  ASSUME NEW c, Tabled(c), NEW r \in c.rows
  PROVE  DisplayUrl(c, r) \in Nat
  <1> DEFINE own == {j.url : j \in {k \in Present(c) : k.key = r.key}}
  <1>1. own \subseteq Nat
    BY DEF Tabled, JobRecords, Present
  <1>2. r.url \in Nat
    BY DEF Tabled, RowRecords
  <1>3. DisplayUrl(c, r) \in own \cup {0, r.url}
    <2>1. CASE own # {}
      <3>1. DisplayUrl(c, r) = CHOOSE u \in own : TRUE
        BY <2>1 DEF DisplayUrl
      <3> HIDE DEF own
      <3> QED BY <2>1, <3>1
    <2>2. CASE own = {}
      BY <2>2 DEF DisplayUrl
    <2> QED BY <2>1, <2>2
  <1> HIDE DEF own
  <1>4. own \cup {0, r.url} \subseteq Nat
    <2>1. 0 \in Nat
      OBVIOUS
    <2> QED BY <1>1, <1>2, <2>1, Zenon
  <1> QED BY <1>3, <1>4, Zenon

\* Migration 3 keeps every row, live or archived, and one of a role.
LEMMA RekeyedMoves ==
  ASSUME NEW c, Tabled(c), RowsApart(c), 3 \notin c.applied
  PROVE  /\ Moved(c, Rekeyed(c)) /\ Beside(c, Rekeyed(c))
         /\ \A r, s \in Rekeyed(c).rows : r.key = s.key => r = s
  <1>1. CASE Col("job_state", "needs_review") \notin c.objs
    <2>1. Rekeyed(c) = c /\ c.rows = {}
      BY <1>1 DEF Rekeyed, RowsApart
    <2> QED BY <2>1 DEF Moved, Beside, RowsApart
  <1>2. CASE Col("job_state", "needs_review") \in c.objs
    <2> DEFINE W == {[r EXCEPT !.url = DisplayUrl(c, r)] : r \in Winners(c)}
               f == [r \in Winners(c) |-> [r EXCEPT !.url = DisplayUrl(c, r)]]
               A == {Event(r, "archived", r.status, 0) : r \in Losers(c)}
               g == [r \in Losers(c) |-> Event(r, "archived", r.status, 0)]
               L == SetToSeq(A)
               d == Rekeyed(c)
    <2>1. /\ c.rows \subseteq RowRecords /\ IsFiniteSet(c.rows)
          /\ c.archived \subseteq RowRecords /\ IsFiniteSet(c.archived) /\ c.events \in Seq(EventRecords)
      BY DEF Tabled
    <2>2. Winners(c) \subseteq c.rows /\ Losers(c) \subseteq c.rows /\ c.rows = Winners(c) \cup Losers(c)
          /\ Winners(c) \cap Losers(c) = {}
      BY DEF Winners, Losers
    <2>3. IsFiniteSet(Winners(c)) /\ IsFiniteSet(Losers(c)) /\ Winners(c) \in SUBSET RowRecords
      BY <2>1, <2>2, FS_Subset
    <2>4. \A r, s \in c.rows : r.id = s.id => r = s
      BY DEF RowsApart
    <2>5. \A r \in Winners(c) : f[r] \in RowRecords /\ f[r].id = r.id /\ f[r].key = r.key
      <3>1. \A r \in Winners(c) : r \in RowRecords /\ DisplayUrl(c, r) \in Nat
        BY <2>1, <2>2, DisplayUrlTyped
      <3> QED BY <3>1 DEF RowRecords
    <2>6. W = {f[r] : r \in Winners(c)}
      OBVIOUS
    <2>7. /\ W \subseteq RowRecords /\ IsFiniteSet(W) /\ Ids(W) = Ids(Winners(c))
          /\ \A r, s \in W : r.id = s.id => r = s
          /\ \A r, s \in W : r.key = s.key => r = s
          /\ c.rows = {} => W = {}
      <3>1. \A r, s \in Winners(c) : r.key = s.key => r = s
        BY OneWinner
      <3>2. \A r, s \in Winners(c) : r.id = s.id => r = s
        BY <2>2, <2>4
      <3>3. PICK h : h = f
        OBVIOUS
      <3>4. DOMAIN h = Winners(c) /\ \A r \in Winners(c) : h[r] \in RowRecords /\ h[r].id = r.id /\ h[r].key = r.key
        BY <2>5, <3>3
      <3>5. W = {h[r] : r \in Winners(c)}
        BY <2>6, <3>3
      <3> HIDE DEF W, f
      <3> QED BY <2>2, <2>3, <3>1, <3>2, <3>4, <3>5, RowsEdited
    <2>8. IsFiniteSet(A)
      <3>1. PICK h : h = g
        OBVIOUS
      <3>2. DOMAIN h = Losers(c) /\ A = {h[r] : r \in Losers(c)}
        BY <3>1
      <3> HIDE DEF A, g
      <3> QED BY <2>3, <3>2, ImageFinite
    <2>9. A \subseteq EventRecords /\ \A e \in A : e.field = "archived"
      <3>1. \A r \in Losers(c) : r \in RowRecords /\ r.status \in Nat
        BY <2>1, <2>2 DEF RowRecords
      <3> QED BY <3>1, EventTyped
    <2>10. L \in Seq(A)
      <3> HIDE DEF A
      <3> QED BY <2>8, ListFacts
    <2>11. L \in Seq(EventRecords) /\ \A i \in DOMAIN L : L[i].field = "archived"
      <3> HIDE DEF A, L
      <3> QED BY <2>9, <2>10
    <2> HIDE DEF A, L, g
    <2>12. d = [c EXCEPT !.rows = W, !.archived = @ \cup Losers(c), !.events = @ \o L]
      BY <1>2 DEF Rekeyed, A, L
    <2> HIDE DEF d, W, f
    <2>13. /\ d.rows = W /\ d.archived = c.archived \cup Losers(c) /\ d.events = c.events \o L
           /\ d.jobs = c.jobs /\ d.hist = c.hist /\ d.objs = c.objs /\ d.applied = c.applied
           /\ d.aliases = c.aliases /\ d.members = c.members /\ DOMAIN d = DOMAIN c /\ d = [x \in DOMAIN d |-> d[x]]
      BY <2>12, Columns
    <2>14. Tabled(d)
      <3>3. IsFiniteSet(c.archived \cup Losers(c))
        BY <2>1, <2>3, FS_Union
      <3>1. d.archived \subseteq RowRecords /\ IsFiniteSet(d.archived)
        BY <2>1, <2>2, <2>13, <3>3
      <3>2. d.events \in Seq(EventRecords)
        BY <2>1, <2>11, <2>13
      <3> QED BY <2>7, <2>13, <3>1, <3>2 DEF Tabled
    <2>15. AllIds(d) = AllIds(c)
      <3>1. Ids(c.rows) = Ids(Winners(c)) \cup Ids(Losers(c))
        BY <2>2 DEF Ids
      <3>2. Ids(c.archived \cup Losers(c)) = Ids(c.archived) \cup Ids(Losers(c))
        BY DEF Ids
      <3>3. AllIds(d) = Ids(Winners(c)) \cup Ids(c.archived) \cup Ids(Losers(c))
        BY <2>7, <2>13, <3>2 DEF AllIds
      <3> QED BY <3>1, <3>3 DEF AllIds
    <2>16. Ids(d.rows) \cap Ids(d.archived) = {}
      <3>1. Ids(Winners(c)) \cap Ids(Losers(c)) = {}
        BY <2>2, <2>4 DEF Ids
      <3>2. Ids(Winners(c)) \cap Ids(c.archived) = {}
        BY <2>2 DEF Ids, RowsApart
      <3>3. Ids(d.archived) = Ids(c.archived) \cup Ids(Losers(c))
        BY <2>13 DEF Ids
      <3> QED BY <2>7, <2>13, <3>1, <3>2, <3>3
    <2>17. \A e \in EventRecords : e.field # "archived" /\ Once(c.events, e) => Once(d.events, e)
      BY <2>1, <2>11, <2>13, ArchivingAdds
    <2>18. Moved(c, d)
      BY <2>7, <2>13, <2>14, <2>15, <2>16, <2>17 DEF Moved
    <2>19. Beside(c, d) /\ \A r, s \in d.rows : r.key = s.key => r = s
      BY <2>7, <2>13 DEF Beside
    <2> QED BY <2>18, <2>19 DEF d
  <1> QED BY <1>1, <1>2

\* Migration 2 on a log that is empty: each event it derives is there once.
LEMMA BackfillMoves ==
  ASSUME NEW c, Tabled(c), RowsApart(c), c.events = <<>>
  PROVE  /\ Moved(c, Rows(2, c)) /\ Beside(c, Rows(2, c)) /\ Rows(2, c).rows = c.rows
         /\ \A e \in Backfilled(c) : Once(Rows(2, c).events, e)
  <1> DEFINE B == Backfilled(c)
             L == SetToSeq(B)
             d == Rows(2, c)
  <1>1. /\ IsFiniteSet(B) /\ B \subseteq EventRecords /\ \A e \in B : e.posting = NoLineage
    BY BackfillFacts
  <1>2. /\ L \in Seq(B) /\ \A e \in B : \E i \in DOMAIN L : L[i] = e /\ \A j \in DOMAIN L : L[j] = e => j = i
    <2> HIDE DEF B
    <2> QED BY <1>1, ListFacts
  <1> HIDE DEF B, L
  <1>3. L \in Seq(EventRecords) /\ c.events \o L = L
    BY <1>1, <1>2
  <1>4. d = [c EXCEPT !.events = @ \o L]
    BY DEF Rows, B, L
  <1> HIDE DEF d
  <1>5. /\ d.events = L /\ d.rows = c.rows /\ d.archived = c.archived
        /\ d.jobs = c.jobs /\ d.hist = c.hist /\ d.objs = c.objs /\ d.applied = c.applied
        /\ d.aliases = c.aliases /\ d.members = c.members /\ DOMAIN d = DOMAIN c /\ d = [x \in DOMAIN d |-> d[x]]
    BY <1>3, <1>4, Columns
  <1>6. \A i \in DOMAIN L : Plain(L[i]) = L[i]
    <2>1. \A i \in DOMAIN L : L[i] \in B
      BY <1>2
    <2>2. \A e \in B : e \in EventRecords /\ e.posting = NoLineage
      BY <1>1
    <2>3. \A e \in EventRecords : e.posting = NoLineage => Plain(e) = e
      BY DEF EventRecords, Plain
    <2> QED BY <2>1, <2>2, <2>3
  <1>7. ASSUME NEW e \in B PROVE Once(L, e)
    <2>1. PICK i \in DOMAIN L : L[i] = e /\ \A j \in DOMAIN L : L[j] = e => j = i
      BY <1>2
    <2>2. {j \in DOMAIN L : Plain(L[j]) = e} = {i}
      BY <1>6, <2>1
    <2> QED BY <2>2, FS_Singleton DEF Once
  <1>8. \A e : ~Once(c.events, e)
    <2>1. \A e : {i \in DOMAIN c.events : Plain(c.events[i]) = e} = {}
      OBVIOUS
    <2> QED BY <2>1, FS_EmptySet DEF Once
  <1>9. Tabled(d)
    BY <1>3, <1>5 DEF Tabled
  <1>10. Moved(c, d)
    BY <1>5, <1>8, <1>9 DEF Moved, RowsApart, AllIds
  <1> QED BY <1>5, <1>7, <1>10 DEF Beside, d, B

\* Two logs that agree but for the lineages hold an event equally often.
LEMMA LinkingKeeps ==
  ASSUME NEW E, NEW F, DOMAIN F = DOMAIN E, \A i \in DOMAIN E : Plain(F[i]) = Plain(E[i]), NEW e, Once(E, e)
  PROVE  Once(F, e)
  <1>1. {i \in DOMAIN F : Plain(F[i]) = e} = {i \in DOMAIN E : Plain(E[i]) = e}
    OBVIOUS
  <1> QED BY <1>1 DEF Once

LEMMA LinkTyped ==
  ASSUME NEW c, Tabled(c), NEW key
  PROVE  Link(c, key) \in Nat \X Nat
  <1> DEFINE C == Candidates(c, key)
  <1>1. \A l \in C : l \in Nat \X Nat
    BY LineageFacts DEF Candidates
  <1>2. CASE Cardinality(C) = 1
    <2>1. C # {}
      BY <1>2, FS_EmptySet
    <2>2. Link(c, key) = CHOOSE l \in C : TRUE
      BY <1>2 DEF Link
    <2> HIDE DEF C
    <2>3. Link(c, key) \in C
      BY <2>1, <2>2
    <2> QED BY <1>1, <2>3
  <1>3. CASE Cardinality(C) # 1
    BY <1>3 DEF Link, NoLineage
  <1> QED BY <1>2, <1>3

\* The memberships of the legacy history are that history; without one there are none.
LEMMA MembersFacts ==
  ASSUME NEW c
  PROVE  /\ Shown({m \in Members(c) : m.kind = "snapshot" /\ m.version # "current"}) = Told(c)
         /\ c.jobs = {} /\ c.hist = {} => Members(c) = {}
         /\ Columned(Members(c))
  <1>1. \A m \in Recorded(c) : m.kind = "snapshot" /\ m.version # "current"
    BY DEF Recorded
  <1>2. \A m \in Current(c) : m.version = "current"
    BY DEF Current
  <1>3. {m \in Members(c) : m.kind = "snapshot" /\ m.version # "current"} = Recorded(c)
    BY <1>1, <1>2 DEF Members
  <1>4. Shown(Recorded(c)) = Told(c)
    <2> DEFINE S == {x \in c.hist : x.key # 0}
               M(h) == [run |-> h.date, posting |-> Lineage(h), version |-> "history", kind |-> "snapshot",
                        present |-> h.present]
               V(m) == [run |-> m.run, posting |-> m.posting, present |-> m.present]
               W(h) == [run |-> h.date, posting |-> Lineage(h), present |-> h.present]
    <2>1. Recorded(c) = {M(h) : h \in S} /\ Told(c) = {W(h) : h \in S}
      BY DEF Recorded, Told
    <2>2. \A h \in S : V(M(h)) = W(h)
      OBVIOUS
    <2>3. Shown(Recorded(c)) = {V(m) : m \in Recorded(c)}
      BY DEF Shown
    <2> HIDE DEF S, M, V, W
    <2> QED BY <2>1, <2>2, <2>3
  <1>5. c.jobs = {} /\ c.hist = {} => Members(c) = {}
    BY DEF Members, Recorded, Current
  <1>6. Columned(Members(c))
    <2>1. \A m \in Recorded(c) \cup Current(c) : DOMAIN m = {"run", "posting", "version", "kind", "present"}
      BY DEF Recorded, Current
    <2> QED BY <2>1 DEF Columned, Members
  <1> QED BY <1>3, <1>4, <1>5, <1>6

\* Migration 11 links rows and events to lineages and leaves them alone otherwise; the
\* aliases and memberships it makes are those of the legacy tables.
LEMMA CanonicalisedMoves ==
  ASSUME NEW c, Tabled(c), RowsApart(c), 3 \in c.applied
  PROVE  LET d == Canonicalised(c)
         IN /\ Moved(c, d) /\ Windows(d.aliases) /\ Columned(d.members)
            /\ Shown({m \in d.members : m.kind = "snapshot" /\ m.version # "current"}) = Told(c)
            /\ c.jobs = {} /\ c.hist = {} => d.members = {} /\ d.aliases = {}
  <1> DEFINE R == {[r EXCEPT !.posting = Link(c, r.key)] : r \in c.rows}
             f == [r \in c.rows |-> [r EXCEPT !.posting = Link(c, r.key)]]
             E == [i \in DOMAIN c.events |-> [c.events[i] EXCEPT !.posting = Link(c, c.events[i].key)]]
             A == {Alias(c, l) : l \in Lineages(c)}
             d == Canonicalised(c)
  <1>1. c.rows \in SUBSET RowRecords /\ IsFiniteSet(c.rows) /\ c.events \in Seq(EventRecords)
    BY DEF Tabled
  <1>2. \A r, s \in c.rows : r.id = s.id => r = s
    BY DEF RowsApart
  <1>3. \A r \in c.rows : f[r] \in RowRecords /\ f[r].id = r.id /\ f[r].key = r.key
    <2>1. \A r \in c.rows : r \in RowRecords /\ Link(c, r.key) \in Nat \X Nat
      BY <1>1, LinkTyped
    <2> QED BY <2>1 DEF RowRecords
  <1>4. R = {f[r] : r \in c.rows}
    OBVIOUS
  <1>5. /\ R \subseteq RowRecords /\ IsFiniteSet(R) /\ Ids(R) = Ids(c.rows)
        /\ \A r, s \in R : r.id = s.id => r = s
        /\ (\A r, s \in c.rows : r.key = s.key => r = s) => (\A r, s \in R : r.key = s.key => r = s)
        /\ c.rows = {} => R = {}
    <2>1. PICK h : h = f
      OBVIOUS
    <2>2. DOMAIN h = c.rows /\ \A r \in c.rows : h[r] \in RowRecords /\ h[r].id = r.id /\ h[r].key = r.key
      BY <1>3, <2>1
    <2>3. R = {h[r] : r \in c.rows}
      BY <1>4, <2>1
    <2> HIDE DEF R, f
    <2> QED BY <1>1, <1>2, <2>2, <2>3, RowsEdited
  <1>6. \A i \in DOMAIN c.events : E[i] \in EventRecords /\ Plain(E[i]) = Plain(c.events[i])
    <2>1. \A e \in EventRecords, l \in Nat \X Nat :
             /\ [e EXCEPT !.posting = l] \in EventRecords
             /\ Plain([e EXCEPT !.posting = l]) = Plain(e)
      BY DEF EventRecords, Plain
    <2>2. \A i \in DOMAIN c.events : c.events[i] \in EventRecords /\ Link(c, c.events[i].key) \in Nat \X Nat
      BY <1>1, LinkTyped
    <2> QED BY <2>1, <2>2
  <1>7. E \in Seq(EventRecords) /\ DOMAIN E = DOMAIN c.events
    <2>1. DOMAIN c.events = 1 .. Len(c.events) /\ Len(c.events) \in Nat
      BY <1>1
    <2>2. E \in [1 .. Len(c.events) -> EventRecords]
      BY <1>6, <2>1
    <2> HIDE DEF E
    <2> QED BY <2>1, <2>2
  <1>8. Windows(A)
    BY WindowsHold
  <1>9. c.jobs = {} /\ c.hist = {} => A = {}
    BY DEF Lineages, Seen
  <1> HIDE DEF R, f, E, A
  <1>10. d = [c EXCEPT !.imported = @ \cup c.runs \cup {m.run : m \in Members(c)},
              !.aliases = A, !.members = Members(c), !.rows = R, !.events = E, !.misfits = @ \cup Misfits(c)]
    BY DEF Canonicalised, A, R, E
  <1> HIDE DEF d
  <1>11. /\ d.rows = R /\ d.archived = c.archived /\ d.events = E /\ d.aliases = A /\ d.members = Members(c)
         /\ d.jobs = c.jobs /\ d.hist = c.hist /\ d.objs = c.objs /\ d.applied = c.applied
         /\ DOMAIN d = DOMAIN c /\ d = [x \in DOMAIN d |-> d[x]]
    BY <1>10, Columns
  <1>12. Tabled(d)
    BY <1>5, <1>7, <1>11 DEF Tabled
  <1>13. \A e \in EventRecords : e.field # "archived" /\ Once(c.events, e) => Once(d.events, e)
    <2>1. DOMAIN E = DOMAIN c.events /\ \A i \in DOMAIN c.events : Plain(E[i]) = Plain(c.events[i])
      BY <1>6, <1>7
    <2> QED BY <1>11, <2>1, LinkingKeeps
  <1>14. AllIds(d) = AllIds(c) /\ Ids(d.rows) \cap Ids(d.archived) = {}
    BY <1>5, <1>11 DEF AllIds, RowsApart
  <1>15. Moved(c, d)
    BY <1>5, <1>11, <1>12, <1>13, <1>14 DEF Moved
  <1>16. Windows(d.aliases)
    BY <1>8, <1>11
  <1> QED BY <1>9, <1>11, <1>15, <1>16, MembersFacts DEF d

\* Migration 13 only renames the kind of memberships.
LEMMA ClassifiedMoves ==
  ASSUME NEW c, Tabled(c), RowsApart(c), Columned(c.members),
         Shown({m \in c.members : m.kind = "snapshot" /\ m.version # "current"}) = Told(c)
  PROVE  LET d == Classified(c)
         IN /\ Moved(c, d) /\ d.aliases = c.aliases /\ Columned(d.members)
            /\ Shown({m \in d.members : m.kind = "snapshot" /\ m.version # "current"}) = Told(c)
            /\ \A m \in d.members : m.kind = "snapshot" => m.version # "current"
            /\ c.members = {} => d.members = {}
  <1> DEFINE d == Classified(c)
             N == {IF m.version = "current" THEN [m EXCEPT !.kind = "current-only"] ELSE m : m \in c.members}
  <1>1. Columned(N) /\ \A m \in N : m.kind = "snapshot" => m \in c.members /\ m.version # "current"
    <2>1. ASSUME NEW m \in c.members, NEW n, n = IF m.version = "current" THEN [m EXCEPT !.kind = "current-only"] ELSE m
          PROVE  /\ DOMAIN n = {"run", "posting", "version", "kind", "present"}
                 /\ n.kind = "snapshot" => n \in c.members /\ n.version # "current"
      BY <2>1 DEF Columned
    <2> QED BY <2>1 DEF Columned
  <1>2. \A m \in c.members : m.version # "current" => m \in N
    OBVIOUS
  <1>3. {m \in N : m.kind = "snapshot" /\ m.version # "current"} =
           {m \in c.members : m.kind = "snapshot" /\ m.version # "current"}
    <2> HIDE DEF N
    <2> QED BY <1>1, <1>2
  <1>4. c.members = {} => N = {}
    OBVIOUS
  <1> HIDE DEF N
  <1>5. d = [c EXCEPT !.members = N]
    BY DEF Classified, N
  <1> HIDE DEF d
  <1>6. /\ d.members = N /\ d.rows = c.rows /\ d.archived = c.archived /\ d.events = c.events
        /\ d.jobs = c.jobs /\ d.hist = c.hist /\ d.objs = c.objs /\ d.applied = c.applied
        /\ d.aliases = c.aliases /\ DOMAIN d = DOMAIN c /\ d = [x \in DOMAIN d |-> d[x]]
    BY <1>5, Columns
  <1>7. Moved(c, d)
    BY <1>6 DEF Moved, Tabled, RowsApart, AllIds
  <1> QED BY <1>1, <1>3, <1>4, <1>6, <1>7 DEF d

\* A migration leaves a schema, and until the third one what it found is there still.
LEMMA SchemaFacts ==
  ASSUME NEW v \in 1 .. TopVersion, NEW objs, objs # {}
  PROVE  Schema(v, objs) # {} /\ (v \in {1, 2} => objs \subseteq Schema(v, objs))
  <1>1. \A new : objs \subseteq Create(objs, new)
    BY DEF Create
  <1>2. \A olds, o : Replace(olds, o) # {}
    BY DEF Replace
  <1>3. PostingColumns(objs) # {}
    BY DEF PostingColumns, Create
  <1>4. CASE v = 1
    BY <1>1, <1>4 DEF Schema
  <1>5. CASE v = 2
    BY <1>1, <1>5 DEF Schema
  <1>6. CASE v = 3
    BY <1>1, <1>6 DEF Schema
  <1>7. CASE v = 4
    BY <1>7 DEF Schema
  <1>8. CASE v = 5
    BY <1>1, <1>8 DEF Schema
  <1>9. CASE v = 6
    BY <1>1, <1>9 DEF Schema
  <1>10. CASE v = 7
    BY <1>1, <1>10 DEF Schema
  <1>11. CASE v = 8
    BY <1>1, <1>11 DEF Schema
  <1>12. CASE v = 9
    BY <1>1, <1>12 DEF Schema
  <1>13. CASE v = 10
    BY <1>1, <1>13 DEF Schema
  <1>14. CASE v = 11
    BY <1>2, <1>3, <1>14 DEF Schema
  <1>15. CASE v = 12
    BY <1>1, <1>15 DEF Schema
  <1>16. CASE v = 13
    BY <1>2, <1>16 DEF Schema
  <1>17. CASE v = 14
    BY <1>17 DEF Schema
  <1>18. CASE v = 15
    BY <1>18 DEF Schema
  <1>19. CASE v = 16
    BY <1>1, <1>19 DEF Schema
  <1>20. CASE v = 17
    <2>1. Schema(v, objs) = Replace(objs, Col("compat_jobs", "legacy only"))
      BY <1>20 DEF Schema
    <2>2. Replace(objs, Col("compat_jobs", "legacy only")) # {}
      BY <1>2, Zenon
    <2>3. Schema(v, objs) # {}
      BY <2>1, <2>2, Zenon
    <2>4. v \notin {1, 2}
      BY <1>20
    <2> QED BY <2>3, <2>4, Zenon
  <1>21. CASE v = 18
    BY <1>21 DEF Schema
  <1>22. CASE v = 19
    BY <1>22 DEF Schema
  <1>23. CASE v = 20
    BY <1>1, <1>23 DEF Schema
  <1>24. CASE v = 21
    BY <1>1, <1>24 DEF Schema
  <1> QED BY <1>4, <1>5, <1>6, <1>7, <1>8, <1>9, <1>10, <1>11, <1>12, <1>13, <1>14, <1>15, <1>16, <1>17, <1>18, <1>19, <1>20, <1>21, <1>22, <1>23, <1>24 DEF TopVersion

\* A migration other than these five leaves the rows alone.
LEMMA RowsAlone ==
  ASSUME NEW c, Tabled(c), RowsApart(c), NEW v \in 1 .. TopVersion, v \notin {2, 3, 11, 13}
  PROVE  LET d == Rows(v, c) IN /\ Moved(c, d) /\ Beside(c, d) /\ d.rows = c.rows /\ d.events = c.events
  <1>1. CASE v = 6
    <2>1. Rows(v, c) = [c EXCEPT !.imported = @ \cup c.runs]
      BY <1>1 DEF Rows, Imported
    <2> DEFINE d == Rows(v, c)
    <2>2. /\ d.rows = c.rows /\ d.archived = c.archived /\ d.events = c.events
          /\ d.jobs = c.jobs /\ d.hist = c.hist /\ d.objs = c.objs /\ d.applied = c.applied
          /\ d.aliases = c.aliases /\ d.members = c.members /\ DOMAIN d = DOMAIN c /\ d = [x \in DOMAIN d |-> d[x]]
      BY <2>1, Columns
    <2> HIDE DEF d
    <2>3. Moved(c, d)
      BY <2>2 DEF Moved, Tabled, RowsApart, AllIds
    <2> QED BY <2>2, <2>3 DEF Beside, d
  <1>2. CASE v # 6
    <2>1. Rows(v, c) = c
      BY <1>2 DEF Rows
    <2> QED BY <2>1 DEF Moved, RowsApart, Beside
  <1> QED BY <1>1, <1>2

\* What the next step of the ladder leaves of a file, and of what it climbed from.
LEMMA ClimbKeeps ==
  ASSUME NEW b, Consistent(b), NEW c, Consistent(c), Since(b, c), c.objs # {},
         NEW v \in 1 .. TopVersion, c.applied = 1 .. (v - 1)
  PROVE  LET d == Migrated(v, c) IN /\ Consistent(d) /\ Since(b, d) /\ d.objs # {}
                                     /\ d.applied = 1 .. v /\ d.applied # b.applied
  <1> DEFINE r == Rows(v, c)
             d == Migrated(v, c)
  <1>1. Tabled(c) /\ RowsApart(c) /\ v \in Nat
    BY DEF Consistent, TopVersion
  <1>2. /\ Moved(c, r)
        /\ v # 11 /\ v # 13 => Beside(c, r)
        /\ v \notin {2, 3, 11, 13} => r.rows = c.rows /\ r.events = c.events
        /\ v = 2 => r.rows = c.rows /\ \A e \in Backfilled(c) : Once(r.events, e)
        /\ v = 3 => \A x, y \in r.rows : x.key = y.key => x = y
    <2>1. CASE v = 2
      <3>1. 2 \notin c.applied
        BY <2>1
      <3>2. c.events = <<>>
        BY <3>1 DEF Consistent
      <3> QED BY <1>1, <2>1, <3>2, BackfillMoves
    <2>2. CASE v = 3
      <3>1. Rows(v, c) = Rekeyed(c) /\ 3 \notin c.applied
        BY <2>2 DEF Rows
      <3> QED BY <1>1, <2>2, <3>1, RekeyedMoves
    <2>3. CASE v = 11
      <3>1. Rows(v, c) = Canonicalised(c) /\ 3 \in c.applied
        BY <2>3 DEF Rows
      <3>2. Moved(c, Canonicalised(c))
        BY <1>1, <3>1, CanonicalisedMoves
      <3> QED BY <2>3, <3>1, <3>2
    <2>4. CASE v = 13
      <3>1. Rows(v, c) = Classified(c) /\ 11 \in c.applied
        BY <2>4 DEF Rows
      <3>2. Columned(c.members) /\ Shown({m \in c.members : m.kind = "snapshot" /\ m.version # "current"}) = Told(c)
        BY <3>1 DEF Consistent, MembersTrue
      <3>3. Moved(c, Classified(c))
        BY <1>1, <3>2, ClassifiedMoves
      <3> QED BY <2>4, <3>1, <3>3
    <2>5. CASE v \notin {2, 3, 11, 13}
      BY <1>1, <2>5, RowsAlone
    <2> QED BY <2>1, <2>2, <2>3, <2>4, <2>5
  <1>3. /\ v \notin {11, 13} => r.aliases = c.aliases /\ r.members = c.members
        /\ v = 11 => /\ Windows(r.aliases) /\ Columned(r.members)
                     /\ Shown({m \in r.members : m.kind = "snapshot" /\ m.version # "current"}) = Told(c)
                     /\ (c.jobs = {} /\ c.hist = {} => r.members = {} /\ r.aliases = {})
        /\ v = 13 => /\ r.aliases = c.aliases /\ Columned(r.members)
                     /\ Shown({m \in r.members : m.kind = "snapshot" /\ m.version # "current"}) = Told(c)
                     /\ \A m \in r.members : m.kind = "snapshot" => m.version # "current"
                     /\ (c.members = {} => r.members = {})
    <2>1. v \notin {11, 13} => r.aliases = c.aliases /\ r.members = c.members
      BY <1>2 DEF Beside
    <2>2. CASE v = 11
      <3>1. r = Canonicalised(c) /\ 3 \in c.applied
        BY <2>2 DEF Rows
      <3>2. PICK k : k = Canonicalised(c)
        OBVIOUS
      <3>3. /\ Windows(k.aliases) /\ Columned(k.members)
            /\ Shown({m \in k.members : m.kind = "snapshot" /\ m.version # "current"}) = Told(c)
            /\ (c.jobs = {} /\ c.hist = {} => k.members = {} /\ k.aliases = {})
        BY <1>1, <3>1, <3>2, CanonicalisedMoves
      <3> HIDE DEF r
      <3> QED BY <2>2, <3>1, <3>2, <3>3
    <2>3. CASE v = 13
      <3>1. r = Classified(c) /\ 11 \in c.applied
        BY <2>3 DEF Rows
      <3>2. Columned(c.members) /\ Shown({m \in c.members : m.kind = "snapshot" /\ m.version # "current"}) = Told(c)
        BY <3>1 DEF Consistent, MembersTrue
      <3>3. PICK k : k = Classified(c)
        OBVIOUS
      <3>4. /\ k.aliases = c.aliases /\ Columned(k.members)
            /\ Shown({m \in k.members : m.kind = "snapshot" /\ m.version # "current"}) = Told(c)
            /\ \A m \in k.members : m.kind = "snapshot" => m.version # "current"
            /\ (c.members = {} => k.members = {})
        BY <1>1, <3>2, <3>3, ClassifiedMoves
      <3> HIDE DEF r
      <3> QED BY <2>3, <3>1, <3>3, <3>4
    <2> QED BY <2>1, <2>2, <2>3
  <1> HIDE DEF r
  <1>4. d = [r EXCEPT !.objs = Schema(v, @), !.applied = @ \cup {v}]
    BY DEF Migrated, r
  <1> HIDE DEF d
  <1>5. Tabled(r) /\ r.objs = c.objs /\ r.applied = c.applied /\ r.jobs = c.jobs /\ r.hist = c.hist /\ AllIds(r) = AllIds(c)
    BY <1>2 DEF Moved
  <1>6. /\ d.rows = r.rows /\ d.archived = r.archived /\ d.events = r.events
        /\ d.jobs = c.jobs /\ d.hist = c.hist /\ d.objs = Schema(v, c.objs) /\ d.applied = c.applied \cup {v}
        /\ d.aliases = r.aliases /\ d.members = r.members /\ DOMAIN d = DOMAIN r /\ d = [x \in DOMAIN d |-> d[x]]
    BY <1>4, <1>5, Columns
  <1>7. d.applied = 1 .. v /\ v \notin c.applied
    BY <1>1, <1>6
  <1>8. d.objs # {} /\ (v \in {1, 2} => c.objs \subseteq d.objs)
    BY <1>6, SchemaFacts
  <1>9. Tabled(d)
    BY <1>5, <1>6 DEF Tabled
  <1>10. AllIds(d) = AllIds(c) /\ Told(d) = Told(c)
    BY <1>5, <1>6 DEF AllIds, Told
  <1>11. RowsApart(d)
    <2>1. \A x, y \in d.rows : x.id = y.id => x = y
      BY <1>2, <1>6 DEF Moved
    <2>2. Ids(d.rows) \cap Ids(d.archived) = {}
      BY <1>2, <1>6 DEF Moved
    <2>3. 3 \in d.applied => \A x, y \in d.rows : x.key = y.key => x = y
      <3>1. CASE v = 3
        BY <1>2, <1>6, <3>1
      <3>2. CASE 3 \in c.applied
        BY <1>1, <1>2, <1>6, <3>2 DEF Moved, RowsApart
      <3> QED BY <1>6, <3>1, <3>2
    <2>4. 3 \notin d.applied /\ d.rows # {} => Col("job_state", "needs_review") \in d.objs
      <3>1. SUFFICES ASSUME 3 \notin d.applied, d.rows # {} PROVE Col("job_state", "needs_review") \in d.objs
        OBVIOUS
      <3>2. v \in {1, 2} /\ 3 \notin c.applied
        BY <1>1, <1>6, <1>7, <3>1
      <3>3. c.rows # {}
        BY <1>2, <1>6, <3>1 DEF Moved
      <3> QED BY <1>1, <1>8, <3>2, <3>3 DEF RowsApart
    <2> QED BY <2>1, <2>2, <2>3, <2>4 DEF RowsApart
  <1>12. Windows(d.aliases) /\ MembersTrue(d) /\ (11 \notin d.applied => d.aliases = {} /\ d.members = {})
    <2>1. /\ 11 \notin c.applied => c.aliases = {} /\ c.members = {}
          /\ Windows(c.aliases) /\ MembersTrue(c)
      BY DEF Consistent
    <2>2. CASE v = 11
      BY <1>3, <1>6, <1>7, <1>10, <2>2 DEF MembersTrue
    <2>3. CASE v = 13
      BY <1>3, <1>6, <1>7, <1>10, <2>1, <2>3 DEF MembersTrue
    <2>4. CASE v \notin {11, 13}
      <3>1. (11 \in d.applied <=> 11 \in c.applied) /\ (13 \in d.applied <=> 13 \in c.applied)
        BY <1>6, <2>4
      <3>2. d.aliases = c.aliases /\ d.members = c.members
        BY <1>3, <1>6, <2>4
      <3> QED BY <1>10, <2>1, <3>1, <3>2 DEF MembersTrue
    <2> QED BY <2>2, <2>3, <2>4
  <1>13. 2 \notin d.applied => d.events = <<>> /\ d.rows = b.rows
    <2>1. SUFFICES ASSUME 2 \notin d.applied PROVE d.events = <<>> /\ d.rows = b.rows
      OBVIOUS
    <2>2. v = 1 /\ 2 \notin c.applied
      BY <1>1, <1>6, <1>7, <2>1
    <2> QED BY <1>2, <1>6, <2>2 DEF Consistent, Since
  <1>14. Consistent(d)
    <2>1. v \in 0 .. TopVersion
      BY DEF TopVersion
    <2> QED BY <1>7, <1>8, <1>9, <1>11, <1>12, <1>13, <2>1 DEF Consistent
  <1>15. 2 \in d.applied /\ 2 \notin b.applied => \A e \in Backfilled(b) : Once(d.events, e)
    <2>1. SUFFICES ASSUME 2 \in d.applied, 2 \notin b.applied, NEW e \in Backfilled(b) PROVE Once(d.events, e)
      OBVIOUS
    <2>2. CASE v = 2
      <3>1. 2 \notin c.applied
        BY <1>7, <2>2
      <3>2. c.rows = b.rows
        BY <3>1 DEF Since
      <3>3. Backfilled(c) = Backfilled(b)
        BY <3>2 DEF Backfilled
      <3> QED BY <1>2, <1>6, <2>2, <3>3
    <2>3. CASE v # 2
      <3>1. Once(c.events, e)
        BY <1>6, <2>1, <2>3 DEF Since
      <3>2. e \in EventRecords /\ e.field # "archived"
        BY BackfillFacts DEF Consistent
      <3> QED BY <1>2, <1>6, <3>1, <3>2 DEF Moved
    <2> QED BY <2>2, <2>3
  <1>16. d.applied # b.applied /\ b.applied \subseteq d.applied
    BY <1>6, <1>7 DEF Since
  <1>17. b.objs = {} => d.members = {} /\ d.aliases = {}
    <2>1. b.objs = {} => c.jobs = {} /\ c.hist = {} /\ c.members = {} /\ c.aliases = {}
      BY DEF Since, Consistent
    <2> QED BY <1>3, <1>6, <2>1
  <1>18. Since(b, d)
    BY <1>6, <1>10, <1>13, <1>15, <1>16, <1>17 DEF Since
  <1> QED BY <1>7, <1>8, <1>14, <1>16, <1>18 DEF d

-----------------------------------------------------------------------------
(* The script of a new file                                                *)

\* Each statement makes something, and none touches the tables of an older release.
Sound(s) ==
    \/ s.do \in {"create", "add"} /\ s.objs # {}
    \/ s.do = "replace" /\ \E o : s.objs = {o} /\ o.t # "job_state"

LEMMA AlwaysSound == \A i \in DOMAIN Always : Sound(Always[i])
  BY DEF Always, Sound, Make, JobsTable, Baseline, StateEventsCanonical, StateEvents, Archive

LEMMA CanonicalSound == \A i \in DOMAIN Canonical : Sound(Canonical[i])
  <1>1. \A x : x # {} => Sound(Make(x))
    BY DEF Sound, Make
  <1>2. \A o : Sound(Add(o))
    BY DEF Sound, Add
  <1>3. Sound(Redo(HistoryView))
    <2>1. HistoryView.t # "job_state"
      BY DEF HistoryView, Col
    <2>2. \A o : Redo(o).do = "replace" /\ Redo(o).objs = {o}
      BY DEF Redo
    <2> QED BY <2>1, <2>2 DEF Sound
  <1>4. /\ Profiles \cup RunTables \cup Identity # {} /\ Content \cup Decisions # {} /\ Compatibility # {}
        /\ Artifacts # {} /\ ScoreTables \cup OutcomeTables # {}
    BY DEF Profiles, Content, Compatibility, Artifacts, ScoreTables
  <1>5. /\ Sound(Make(Profiles \cup RunTables \cup Identity)) /\ Sound(Make(Content \cup Decisions))
        /\ Sound(Make(Compatibility)) /\ Sound(Make(Artifacts)) /\ Sound(Make(ScoreTables \cup OutcomeTables))
    BY <1>1, <1>4
  <1> QED BY <1>2, <1>3, <1>5 DEF Canonical

LEMMA ScriptFacts ==
  ASSUME NEW f \in BOOLEAN
  PROVE  Len(Script(f)) \in Nat /\ Len(Script(f)) > 0 /\ \A i \in 1 .. Len(Script(f)) : Sound(Script(f)[i])
  <1> DEFINE S == {Always[i] : i \in DOMAIN Always} \cup {Canonical[i] : i \in DOMAIN Canonical}
  <1>1. Always \in Seq(S) /\ Len(Always) > 0
    BY DEF Always
  <1>2. Canonical \in Seq(S)
    BY SMTT(60) DEF Canonical
  <1>3. \A s \in S : Sound(s)
    BY AlwaysSound, CanonicalSound
  <1> HIDE DEF S
  <1>4. Always \o Canonical \in Seq(S) /\ Len(Always \o Canonical) > 0
    BY <1>1, <1>2
  <1>5. Script(f) \in Seq(S) /\ Len(Script(f)) > 0
    BY <1>1, <1>4 DEF Script
  <1> QED BY <1>3, <1>5

LEMMA StatementKeeps ==
  ASSUME NEW s, Sound(s), NEW objs
  PROVE  /\ Executed(s, objs) # {}
         /\ Col("job_state", "needs_review") \in objs => Col("job_state", "needs_review") \in Executed(s, objs)
  <1>1. CASE s.do = "create" /\ s.objs # {}
    BY <1>1 DEF Executed, Create
  <1>2. CASE s.do = "add" /\ s.objs # {}
    BY <1>2 DEF Executed
  <1>3. CASE s.do = "replace" /\ \E o : s.objs = {o} /\ o.t # "job_state"
    <2>1. PICK o : s.objs = {o} /\ o.t # "job_state"
      BY <1>3
    <2>2. Executed(s, objs) = {p \in objs : p.t # o.t} \cup {o}
      BY <1>3, <2>1 DEF Executed, Replace
    <2>3. Col("job_state", "needs_review").t = "job_state"
      BY DEF Col
    <2> QED BY <2>1, <2>2, <2>3
  <1> QED BY <1>1, <1>2, <1>3 DEF Sound

\* Statements leave the file's versions and rows alone.
LEMMA ObjectsMove ==
  ASSUME NEW b, NEW c, Consistent(c), Since(b, c), NEW s, Sound(s)
  PROVE  LET d == [c EXCEPT !.objs = Executed(s, @)] IN Consistent(d) /\ Since(b, d) /\ d.objs # {} /\ d.applied = c.applied
  <1> DEFINE new == Executed(s, c.objs)
             d == [c EXCEPT !.objs = new]
  <1>1. new # {} /\ (Col("job_state", "needs_review") \in c.objs => Col("job_state", "needs_review") \in new)
    BY StatementKeeps
  <1> HIDE DEF new
  <1>2. Tabled(c)
    BY DEF Consistent
  <1>3. /\ d.rows = c.rows /\ d.archived = c.archived /\ d.events = c.events
        /\ d.jobs = c.jobs /\ d.hist = c.hist /\ d.objs = new /\ d.applied = c.applied
        /\ d.aliases = c.aliases /\ d.members = c.members /\ DOMAIN d = DOMAIN c /\ d = [x \in DOMAIN d |-> d[x]]
        /\ \A o : [d EXCEPT !.objs = o] = [c EXCEPT !.objs = o]
    BY <1>2, Columns
  <1> HIDE DEF d
  <1>4. Tabled(d) /\ RowsApart(d)
    BY <1>1, <1>3 DEF Consistent, Tabled, RowsApart
  <1>5. MembersTrue(d) /\ Told(d) = Told(c)
    BY <1>3 DEF Consistent, MembersTrue, Told
  <1>6. Consistent(d)
    BY <1>1, <1>3, <1>4, <1>5 DEF Consistent
  <1>7. Since(b, d)
    BY <1>3 DEF Since, AllIds
  <1> QED BY <1>1, <1>3, <1>6, <1>7 DEF d, new

-----------------------------------------------------------------------------
(* The steps                                                               *)

\* A content is a beginning of itself.
LEMMA SinceItself ==
  ASSUME NEW c, Consistent(c)
  PROVE  Since(c, c)
  <1>1. [c EXCEPT !.objs = c.objs] = c
    <2>1. Tabled(c)
      BY DEF Consistent
    <2> QED BY <2>1, Columns DEF Tabled
  <1>2. c.objs = {} => c.members = {} /\ c.aliases = {}
    BY DEF Consistent
  <1> QED BY <1>1, <1>2 DEF Since

LEMMA DatabaseStarts == DatabaseInit => DatabaseInv
  <1> SUFFICES ASSUME DatabaseInit PROVE DatabaseInv
    OBVIOUS
  <1> USE DEF DatabaseInit
  <1>1. Consistent(db) /\ base = db
    BY DatabaseAssumption
  <1>2. FileInv
    BY <1>1, SinceItself DEF FileInv
  <1>3. BackupInv
    BY <1>1 DEF BackupInv
  <1>4. ToolInv
    <2>1. dumps \in Seq({})
      OBVIOUS
    <2> QED BY <2>1 DEF ToolInv, Resting
  <1>5. DestInv
    BY DEF DestInv, NoDest
  <1>6. ProcTypes
    BY DEF ProcTypes, Pcs
  <1>7. \A p \in Procs : ProcInv(p)
    BY DEF ProcInv, Climbs
  <1>8. \A n \in DOMAIN dumps : CopyInv(dumps[n])
    OBVIOUS
  <1> QED BY <1>2, <1>3, <1>4, <1>5, <1>6, <1>7, <1>8 DEF DatabaseInv

\* A step of one process leaves what holds of the others, of the tool and its copies.
LEMMA ProcStep ==
  ASSUME DatabaseInv, NEW p \in Procs, UNCHANGED <<base, toolVars>>, FileInv', BackupInv', ProcTypes', ProcInv(p)',
         db.objs # {} => db'.objs # {}, db.applied \subseteq db'.applied,
         \A q \in Procs \ {p} : pc'[q] = pc[q] /\ pos'[q] = pos[q] /\ fresh'[q] = fresh[q] /\ pending'[q] = pending[q]
  PROVE  DatabaseInv'
  <1>1. ToolInv' /\ DestInv' /\ \A n \in DOMAIN dumps' : CopyInv(dumps[n])'
    BY DEF DatabaseInv, ToolInv, DestInv, CopyInv, toolVars
  <1>2. ASSUME NEW q \in Procs, q # p PROVE ProcInv(q)'
    <2>1. ProcInv(q) /\ pc'[q] = pc[q] /\ pos'[q] = pos[q] /\ fresh'[q] = fresh[q] /\ pending'[q] = pending[q]
      BY <1>2 DEF DatabaseInv
    <2>2. Climbs(q)'
      BY <2>1 DEF ProcInv, Climbs
    <2> QED BY <2>1, <2>2 DEF ProcInv
  <1>3. \A q \in Procs : ProcInv(q)'
    BY <1>2
  <1> QED BY <1>1, <1>3 DEF DatabaseInv

\* Backups stay; a process that migrates has made one.
LEMMA BackupsStay ==
  ASSUME BackupInv, ProcTypes, base' = base, baks' = baks, db.objs # {} => db'.objs # {},
         db'.applied = db.applied \/ \E q \in Procs : pc[q] = "migrate",
         \A q \in Procs : pc'[q] = "migrate" => pc[q] = "migrate"
  PROVE  BackupInv'
  <1>1. BackedUp => BackedUp'
    BY DEF BackedUp
  <1> QED BY <1>1 DEF BackupInv

LEMMA FileStays ==
  ASSUME FileInv, UNCHANGED <<db, base>>
  PROVE  FileInv'
  BY DEF FileInv

LEMMA OpenKeeps ==
  ASSUME DatabaseInv, NEW p \in Procs, Open(p)
  PROVE  DatabaseInv'
  <1>1. PICK to \in {"failed", "script"} : pc' = [pc EXCEPT ![p] = to] /\ (to = "script" => pos' = [pos EXCEPT ![p] = 1])
                                           /\ (to = "failed" => pos' = pos)
    BY DEF Open, At
  <1>2. fresh' = [fresh EXCEPT ![p] = db.objs = {}] /\ UNCHANGED <<db, base, pending, baks, toolVars>>
    BY DEF Open
  <1>3. ProcTypes /\ FileInv /\ BackupInv
    BY DEF DatabaseInv
  <1>4. (db.objs = {}) \in BOOLEAN
    OBVIOUS
  <1>5. ProcTypes'
    <2>1. pc' \in [Procs -> Pcs]
      BY <1>1, <1>3 DEF ProcTypes, Pcs
    <2>2. pos' \in [Procs -> Nat]
      BY <1>1, <1>3 DEF ProcTypes
    <2>3. fresh' \in [Procs -> BOOLEAN]
      BY <1>2, <1>3 DEF ProcTypes
    <2>4. pending' \in [Procs -> SUBSET (1 .. TopVersion)]
      BY <1>2, <1>3 DEF ProcTypes
    <2> QED BY <2>1, <2>2, <2>3, <2>4 DEF ProcTypes
  <1>6. pc'[p] = to /\ (to = "script" => pos'[p] = 1) /\ (fresh'[p] <=> db.objs = {})
    BY <1>1, <1>2, <1>3 DEF ProcTypes
  <1>7. \A q \in Procs \ {p} : pc'[q] = pc[q] /\ pos'[q] = pos[q] /\ fresh'[q] = fresh[q] /\ pending'[q] = pending[q]
    BY <1>1, <1>2, <1>3 DEF ProcTypes
  <1>8. ProcInv(p)'
    <2>1. db.objs = {} => base.objs = {}
      BY <1>3 DEF BackupInv
    <2>2. pos'[p] \in 1 .. Len(Script(fresh'[p])) \/ to = "failed"
      <3>1. fresh'[p] \in BOOLEAN
        BY <1>5 DEF ProcTypes
      <3>2. Len(Script(fresh'[p])) \in Nat /\ Len(Script(fresh'[p])) > 0
        BY <3>1, ScriptFacts
      <3> QED BY <1>6, <3>2
    <2> QED BY <1>2, <1>6, <2>1, <2>2 DEF ProcInv, Climbs
  <1>9. BackupInv'
    <2>1. \A q \in Procs : pc'[q] = "migrate" => pc[q] = "migrate"
      BY <1>6, <1>7
    <2> QED BY <1>2, <1>3, <2>1, BackupsStay
  <1> QED BY <1>2, <1>3, <1>5, <1>7, <1>8, <1>9, FileStays, ProcStep

LEMMA ScriptStepKeeps ==
  ASSUME DatabaseInv, NEW p \in Procs, ScriptStep(p)
  PROVE  DatabaseInv'
  <1> DEFINE s == Script(fresh[p])[pos[p]]
             last == pos[p] = Len(Script(fresh[p]))
  <1>1. \/ pc' = [pc EXCEPT ![p] = "failed"] /\ UNCHANGED <<db, pos>>
        \/ /\ db' = [db EXCEPT !.objs = Executed(s, @)]
           /\ pc' = [pc EXCEPT ![p] = IF last THEN "version" ELSE "script"]
           /\ pos' = [pos EXCEPT ![p] = IF last THEN 0 ELSE @ + 1]
    BY Zenon DEF ScriptStep, At
  <1>2. pc[p] = "script" /\ UNCHANGED <<base, fresh, pending, baks, toolVars>>
    BY DEF ScriptStep
  <1>3. ProcTypes /\ FileInv /\ BackupInv /\ ProcInv(p) /\ fresh[p] \in BOOLEAN
    BY DEF DatabaseInv, ProcTypes
  <1>4. pos[p] \in 1 .. Len(Script(fresh[p])) /\ Len(Script(fresh[p])) \in Nat /\ Sound(s)
    BY <1>2, <1>3, ScriptFacts DEF ProcInv
  <1> HIDE DEF s
  <1>5. FileInv' /\ db'.applied = db.applied /\ (db.objs # {} => db'.objs # {}) /\ (pc'[p] # "failed" => db'.objs # {})
    <2>1. CASE UNCHANGED db /\ pc' = [pc EXCEPT ![p] = "failed"]
      BY <1>2, <1>3, <2>1, FileStays DEF ProcTypes
    <2>2. CASE db' = [db EXCEPT !.objs = Executed(s, @)]
      BY <1>2, <1>3, <1>4, <2>2, ObjectsMove DEF FileInv
    <2> QED BY <1>1, <2>1, <2>2
  <1>6. PICK to \in {"failed", "version", "script"}, next \in Nat :
           /\ pc' = [pc EXCEPT ![p] = to] /\ pos' = [pos EXCEPT ![p] = next]
           /\ to = "script" => next \in 1 .. Len(Script(fresh[p]))
    <2>1. CASE pc' = [pc EXCEPT ![p] = "failed"] /\ UNCHANGED <<db, pos>>
      <3>1. pos' = [pos EXCEPT ![p] = pos[p]] /\ pos[p] \in Nat
        BY <1>3, <2>1 DEF ProcTypes
      <3>2. "failed" # "script"
        OBVIOUS
      <3> QED BY <2>1, <3>1, <3>2, Zenon
    <2>2. CASE /\ pc' = [pc EXCEPT ![p] = IF last THEN "version" ELSE "script"]
               /\ pos' = [pos EXCEPT ![p] = IF last THEN 0 ELSE @ + 1]
      <3>1. pos' = [pos EXCEPT ![p] = IF last THEN 0 ELSE pos[p] + 1]
        BY <1>3, <2>2 DEF ProcTypes
      <3>2. CASE last
        BY <2>2, <3>1, <3>2
      <3>3. CASE ~last
        <4>1. pos[p] + 1 \in 1 .. Len(Script(fresh[p])) /\ pos[p] + 1 \in Nat
          BY <1>4, <3>3
        <4> QED BY <2>2, <3>1, <3>3, <4>1
      <3> QED BY <3>2, <3>3
    <2> QED BY <1>1, <2>1, <2>2
  <1>7. ProcTypes'
    <2>1. pc' \in [Procs -> Pcs]
      BY <1>3, <1>6 DEF ProcTypes, Pcs
    <2>2. pos' \in [Procs -> Nat]
      BY <1>3, <1>6 DEF ProcTypes
    <2> QED BY <1>2, <1>3, <2>1, <2>2 DEF ProcTypes
  <1>8. pc'[p] = to /\ pos'[p] = next
    BY <1>3, <1>6 DEF ProcTypes
  <1>9. \A q \in Procs \ {p} : pc'[q] = pc[q] /\ pos'[q] = pos[q] /\ fresh'[q] = fresh[q] /\ pending'[q] = pending[q]
    BY <1>2, <1>3, <1>6 DEF ProcTypes
  <1>10. ProcInv(p)'
    BY <1>2, <1>3, <1>5, <1>6, <1>8 DEF ProcInv, Climbs
  <1>11. BackupInv'
    <2>1. \A q \in Procs : pc'[q] = "migrate" => pc[q] = "migrate"
      BY <1>8, <1>9
    <2> QED BY <1>2, <1>3, <1>5, <2>1, BackupsStay
  <1> QED BY <1>2, <1>5, <1>7, <1>9, <1>10, <1>11, ProcStep

\* A new file has no rows and no history, so that its stamps claim nothing.
LEMMA StampKeeps ==
  ASSUME DatabaseInv, NEW p \in Procs, StampVersion(p)
  PROVE  DatabaseInv'
  <1>1. /\ pc[p] = "version" /\ fresh[p] /\ db' = [db EXCEPT !.applied = 1 .. TopVersion]
        /\ pc' = [pc EXCEPT ![p] = "up"] /\ UNCHANGED <<base, pos, fresh, pending, baks, toolVars>>
    BY DEF StampVersion, At
  <1>2. ProcTypes /\ FileInv /\ BackupInv /\ ProcInv(p)
    BY DEF DatabaseInv
  <1>3. base.objs = {} /\ db.objs # {}
    BY <1>1, <1>2 DEF ProcInv
  <1>4. Consistent(db) /\ Consistent(base) /\ Since(base, db)
    BY <1>2 DEF FileInv
  <1>5. base.applied = {} /\ base.rows = {} /\ base.archived = {} /\ base.jobs = {} /\ base.hist = {}
    BY <1>3, <1>4 DEF Consistent
  <1>6. /\ db.jobs = {} /\ db.hist = {} /\ db.members = {} /\ db.aliases = {}
        /\ db.rows = {} /\ db.archived = {}
    BY <1>3, <1>4, <1>5 DEF Since, AllIds, Ids
  <1>7. Tabled(db)
    BY <1>4 DEF Consistent
  <1>8. PICK c : c = db'
    OBVIOUS
  <1>9. /\ c.rows = {} /\ c.archived = {} /\ c.events = db.events
        /\ c.jobs = {} /\ c.hist = {} /\ c.objs = db.objs /\ c.applied = 1 .. TopVersion
        /\ c.aliases = {} /\ c.members = {} /\ DOMAIN c = DOMAIN db /\ c = [x \in DOMAIN c |-> c[x]]
    BY <1>1, <1>6, <1>7, <1>8, Columns
  <1>10. Tabled(c) /\ RowsApart(c) /\ Windows(c.aliases) /\ MembersTrue(c)
    <2>1. Tabled(c)
      BY <1>6, <1>7, <1>9 DEF Tabled
    <2>2. RowsApart(c) /\ Windows(c.aliases)
      BY <1>9 DEF RowsApart, Windows, Ids
    <2>3. MembersTrue(c)
      BY <1>9 DEF MembersTrue, Columned, Shown, Told
    <2> QED BY <2>1, <2>2, <2>3
  <1>11. TopVersion \in 0 .. TopVersion /\ 2 \in 1 .. TopVersion /\ 11 \in 1 .. TopVersion
    BY DEF TopVersion
  <1>12. Consistent(c)
    BY <1>3, <1>9, <1>10, <1>11 DEF Consistent
  <1>13. Since(base, c)
    <2>1. Backfilled(base) = {}
      BY <1>5 DEF Backfilled
    <2>2. AllIds(c) = AllIds(base)
      BY <1>5, <1>9 DEF AllIds
    <2>3. c.applied # base.applied /\ base.applied \subseteq c.applied
      BY <1>5, <1>9, <1>11
    <2> QED BY <1>5, <1>9, <1>11, <2>1, <2>2, <2>3 DEF Since
  <1>14. FileInv'
    BY <1>1, <1>4, <1>8, <1>12, <1>13 DEF FileInv
  <1>15. BackupInv'
    BY <1>1, <1>3 DEF BackupInv
  <1>16. pc'[p] = "up" /\ ProcTypes'
    BY <1>1, <1>2 DEF ProcTypes, Pcs
  <1>17. \A q \in Procs \ {p} : pc'[q] = pc[q] /\ pos'[q] = pos[q] /\ fresh'[q] = fresh[q] /\ pending'[q] = pending[q]
    BY <1>1, <1>2 DEF ProcTypes
  <1>18. ProcInv(p)'
    BY <1>1, <1>2, <1>16 DEF ProcInv, Climbs, ProcTypes
  <1>19. db'.objs # {} /\ db.applied \subseteq db'.applied
    <2>1. db.applied \subseteq 1 .. TopVersion
      <3>1. PICK h \in 0 .. TopVersion : db.applied = 1 .. h
        BY <1>4 DEF Consistent
      <3> QED BY <3>1 DEF TopVersion
    <2> QED BY <1>3, <1>8, <1>9, <2>1
  <1> QED BY <1>1, <1>14, <1>15, <1>16, <1>17, <1>18, <1>19, ProcStep

LEMMA FindPendingKeeps ==
  ASSUME DatabaseInv, NEW p \in Procs, FindPending(p)
  PROVE  DatabaseInv'
  <1> DEFINE rest == (1 .. TopVersion) \ db.applied
  <1>1. ProcTypes /\ FileInv /\ BackupInv /\ ProcInv(p)
    BY DEF DatabaseInv
  <1>2. /\ pc[p] = "version" /\ pending' = [pending EXCEPT ![p] = rest]
        /\ UNCHANGED <<db, base, pos, fresh, baks, toolVars>>
        /\ pc' = [pc EXCEPT ![p] = IF pending'[p] = {} THEN "up" ELSE "backup"]
    BY DEF FindPending, At
  <1>3. pending'[p] = rest
    BY <1>1, <1>2 DEF ProcTypes
  <1>4. PICK to \in {"up", "backup"} : pc' = [pc EXCEPT ![p] = to] /\ (to = "backup" => rest # {})
    <2> HIDE DEF rest
    <2> QED BY <1>2, <1>3
  <1>5. ProcTypes' /\ pc'[p] = to
    BY <1>1, <1>2, <1>4 DEF ProcTypes, Pcs
  <1>6. \A q \in Procs \ {p} : pc'[q] = pc[q] /\ pos'[q] = pos[q] /\ fresh'[q] = fresh[q] /\ pending'[q] = pending[q]
    BY <1>1, <1>2, <1>4 DEF ProcTypes
  <1>7. to = "backup" => \E k \in 1 .. TopVersion : rest = k .. TopVersion /\ 1 .. (k - 1) \subseteq db.applied
    <2>1. SUFFICES ASSUME rest # {} PROVE \E k \in 1 .. TopVersion : rest = k .. TopVersion /\ 1 .. (k - 1) \subseteq db.applied
      BY <1>4
    <2>2. PICK h \in 0 .. TopVersion : db.applied = 1 .. h
      BY <1>1 DEF FileInv, Consistent
    <2>3. h + 1 \in 1 .. TopVersion /\ rest = (h + 1) .. TopVersion /\ 1 .. ((h + 1) - 1) \subseteq db.applied
      <3>1. h # TopVersion
        BY <2>1, <2>2
      <3>2. h + 1 \in 1 .. TopVersion /\ (h + 1) - 1 = h
        BY <3>1 DEF TopVersion
      <3>3. \A x \in Int : x \in rest <=> x \in (h + 1) .. TopVersion
        <4>1. \A x \in Int : x \in rest <=> x \in 1 .. TopVersion /\ x \notin 1 .. h
          BY <2>2
        <4>2. \A x \in Int : x \in (h + 1) .. TopVersion <=> x \in 1 .. TopVersion /\ x \notin 1 .. h
          BY <2>2 DEF TopVersion
        <4> QED BY <4>1, <4>2
      <3>4. rest \subseteq Int /\ (h + 1) .. TopVersion \subseteq Int
        BY DEF TopVersion
      <3>5. rest = (h + 1) .. TopVersion
        <4> HIDE DEF rest
        <4> QED BY <3>3, <3>4
      <3> QED BY <2>2, <3>2, <3>5
    <2> HIDE DEF rest
    <2> QED BY <2>3
  <1>8. ProcInv(p)'
    BY <1>1, <1>2, <1>3, <1>5, <1>7 DEF ProcInv, Climbs
  <1>9. BackupInv'
    <2>1. \A q \in Procs : pc'[q] = "migrate" => pc[q] = "migrate"
      BY <1>5, <1>6
    <2> QED BY <1>1, <1>2, <2>1, BackupsStay
  <1> QED BY <1>1, <1>2, <1>5, <1>6, <1>8, <1>9, FileStays, ProcStep

LEMMA BackUpKeeps ==
  ASSUME DatabaseInv, NEW p \in Procs, BackUp(p)
  PROVE  DatabaseInv'
  <1>1. ProcTypes /\ FileInv /\ BackupInv /\ ProcInv(p)
    BY DEF DatabaseInv
  <1>2. /\ pc[p] = "backup" /\ baks' = baks \cup {db} /\ pc' = [pc EXCEPT ![p] = "migrate"]
        /\ UNCHANGED <<db, base, pos, fresh, pending, toolVars>>
    BY DEF BackUp, At
  <1>3. ProcTypes' /\ pc'[p] = "migrate"
    BY <1>1, <1>2 DEF ProcTypes, Pcs
  <1>4. \A q \in Procs \ {p} : pc'[q] = pc[q] /\ pos'[q] = pos[q] /\ fresh'[q] = fresh[q] /\ pending'[q] = pending[q]
    BY <1>1, <1>2 DEF ProcTypes
  <1>5. ProcInv(p)'
    BY <1>1, <1>2, <1>3 DEF ProcInv, Climbs
  <1>6. BackupInv'
    <2>1. base.objs # {} => BackedUp'
      <3>1. CASE db.applied = base.applied
        BY <1>1, <1>2, <3>1 DEF FileInv, Since, BackedUp
      <3>2. CASE db.applied # base.applied
        BY <1>1, <1>2, <3>2 DEF BackupInv, BackedUp
      <3> QED BY <3>1, <3>2
    <2> QED BY <1>1, <1>2, <2>1 DEF BackupInv
  <1> QED BY <1>1, <1>2, <1>3, <1>4, <1>5, <1>6, FileStays, ProcStep

LEMMA MigrateKeeps ==
  ASSUME DatabaseInv, NEW p \in Procs, Migrate(p)
  PROVE  DatabaseInv'
  <1> DEFINE v == Min(pending[p])
  <1>1. ProcTypes /\ FileInv /\ BackupInv /\ ProcInv(p)
    BY DEF DatabaseInv
  <1>2. pc[p] = "migrate" /\ UNCHANGED <<base, pos, fresh, baks, toolVars>>
    BY DEF Migrate
  <1>3. \/ pc' = [pc EXCEPT ![p] = "failed"] /\ UNCHANGED db /\ pending' = [pending EXCEPT ![p] = {}]
        \/ /\ v \notin db.applied /\ db' = Migrated(v, db) /\ pending' = [pending EXCEPT ![p] = @ \ {v}]
           /\ pc' = [pc EXCEPT ![p] = IF pending'[p] = {} THEN "up" ELSE "migrate"]
    BY Zenon DEF Migrate, At
  <1>4. PICK k \in 1 .. TopVersion : pending[p] = k .. TopVersion /\ 1 .. (k - 1) \subseteq db.applied
    BY <1>1, <1>2 DEF ProcInv, Climbs
  <1>5. v = k
    <2>1. pending[p] \in SUBSET Nat /\ k \in pending[p] /\ k \in Nat
      BY <1>4, SMTT(60) DEF TopVersion
    <2>2. v \in pending[p] /\ v <= k
      BY <2>1, MinFacts
    <2> HIDE DEF v
    <2>3. k <= v /\ v \in Nat
      BY <1>4, <2>1, <2>2
    <2> QED BY <2>1, <2>2, <2>3
  <1> HIDE DEF v
  <1>6. CASE pc' = [pc EXCEPT ![p] = "failed"] /\ UNCHANGED db /\ pending' = [pending EXCEPT ![p] = {}]
    <2>1. ProcTypes' /\ pc'[p] = "failed"
      BY <1>1, <1>2, <1>6 DEF ProcTypes, Pcs
    <2>2. \A q \in Procs \ {p} : pc'[q] = pc[q] /\ pos'[q] = pos[q] /\ fresh'[q] = fresh[q] /\ pending'[q] = pending[q]
      BY <1>1, <1>2, <1>6 DEF ProcTypes
    <2>3. ProcInv(p)'
      BY <2>1 DEF ProcInv, Climbs
    <2>4. BackupInv'
      <3>1. \A q \in Procs : pc'[q] = "migrate" => pc[q] = "migrate"
        BY <2>1, <2>2
      <3> QED BY <1>1, <1>2, <1>6, <3>1, BackupsStay
    <2> QED BY <1>1, <1>2, <1>6, <2>1, <2>2, <2>3, <2>4, FileStays, ProcStep
  <1>7. CASE /\ v \notin db.applied /\ db' = Migrated(v, db) /\ pending' = [pending EXCEPT ![p] = @ \ {v}]
             /\ pc' = [pc EXCEPT ![p] = IF pending'[p] = {} THEN "up" ELSE "migrate"]
    <2>1. Consistent(db) /\ Consistent(base) /\ Since(base, db) /\ db.objs # {}
      BY <1>1, <1>2 DEF FileInv, ProcInv
    <2>2. db.applied = 1 .. (k - 1)
      <3>1. PICK h \in 0 .. TopVersion : db.applied = 1 .. h
        BY <2>1 DEF Consistent
      <3> QED BY <1>4, <1>5, <1>7, <3>1 DEF TopVersion
    <2>3. PICK d : d = db'
      OBVIOUS
    <2>4. Consistent(d) /\ Since(base, d) /\ d.objs # {} /\ d.applied = 1 .. k /\ d.applied # base.applied
      BY <1>5, <1>7, <2>1, <2>2, <2>3, ClimbKeeps
    <2>5. FileInv'
      BY <1>2, <2>1, <2>3, <2>4 DEF FileInv
    <2>6. db.applied \subseteq db'.applied /\ db'.objs # {}
      BY <2>2, <2>3, <2>4 DEF TopVersion
    <2>7. pending'[p] = (k + 1) .. TopVersion
      <3>1. pending'[p] = pending[p] \ {k}
        BY <1>1, <1>5, <1>7 DEF ProcTypes
      <3> QED BY <1>4, <3>1 DEF TopVersion
    <2>8. PICK to \in {"up", "migrate"} : pc' = [pc EXCEPT ![p] = to] /\ (to = "migrate" => pending'[p] # {})
      BY <1>7
    <2>9. pc'[p] = to
      BY <1>1, <2>8 DEF ProcTypes
    <2>10. ProcTypes'
      <3>1. pc' \in [Procs -> Pcs]
        BY <1>1, <2>8 DEF ProcTypes, Pcs
      <3>2. pending' \in [Procs -> SUBSET (1 .. TopVersion)]
        <4>1. pending[p] \ {v} \subseteq 1 .. TopVersion
          BY <1>1 DEF ProcTypes
        <4> QED BY <1>1, <1>7, <4>1 DEF ProcTypes
      <3> QED BY <1>1, <1>2, <3>1, <3>2 DEF ProcTypes
    <2>11. \A q \in Procs \ {p} : pc'[q] = pc[q] /\ pos'[q] = pos[q] /\ fresh'[q] = fresh[q] /\ pending'[q] = pending[q]
      BY <1>1, <1>2, <1>7, <2>8 DEF ProcTypes
    <2>12. ProcInv(p)'
      <3>1. to = "migrate" => \E j \in 1 .. TopVersion : pending'[p] = j .. TopVersion /\ 1 .. (j - 1) \subseteq db'.applied
        <4>1. SUFFICES ASSUME (k + 1) .. TopVersion # {}
                       PROVE \E j \in 1 .. TopVersion : pending'[p] = j .. TopVersion /\ 1 .. (j - 1) \subseteq db'.applied
          BY <2>7, <2>8
        <4>2. k + 1 \in 1 .. TopVersion /\ (k + 1) - 1 = k
          BY <4>1 DEF TopVersion
        <4> QED BY <2>3, <2>4, <2>7, <4>2
      <3> QED BY <2>6, <2>9, <3>1 DEF ProcInv, Climbs
    <2>13. BackupInv'
      <3>1. \A q \in Procs : pc'[q] = "migrate" => pc[q] = "migrate"
        BY <1>2, <2>11
      <3> QED BY <1>1, <1>2, <2>6, <3>1, BackupsStay
    <2> QED BY <1>2, <2>5, <2>6, <2>10, <2>11, <2>12, <2>13, ProcStep
  <1> QED BY <1>3, <1>6, <1>7

LEMMA FaultKeeps ==
  ASSUME DatabaseInv, NEW p \in Procs, Fault(p) \/ Close(p)
  PROVE  DatabaseInv'
  <1>1. ProcTypes /\ FileInv /\ BackupInv
    BY DEF DatabaseInv
  <1>2. UNCHANGED <<db, base, fresh, baks, toolVars>>
    BY DEF Fault, Close
  <1>3. PICK to \in {"down", "failed"}, next \in Nat, left \in SUBSET (1 .. TopVersion) :
           pc' = [pc EXCEPT ![p] = to] /\ pos' = [pos EXCEPT ![p] = next] /\ pending' = [pending EXCEPT ![p] = left]
    <2>1. CASE Fault(p)
      <3>1. pc' = [pc EXCEPT ![p] = "failed"] /\ pos' = [pos EXCEPT ![p] = 0] /\ pending' = [pending EXCEPT ![p] = {}]
        BY <2>1 DEF Fault, At
      <3> QED BY <3>1
    <2>2. CASE Close(p)
      <3>1. pc' = [pc EXCEPT ![p] = "down"] /\ pos' = [pos EXCEPT ![p] = pos[p]] /\ pending' = [pending EXCEPT ![p] = pending[p]]
        BY <1>1, <2>2 DEF Close, At, ProcTypes
      <3>2. pos[p] \in Nat /\ pending[p] \in SUBSET (1 .. TopVersion)
        BY <1>1 DEF ProcTypes
      <3> QED BY <3>1, <3>2
    <2> QED BY <2>1, <2>2
  <1>4. ProcTypes' /\ pc'[p] = to
    BY <1>1, <1>2, <1>3 DEF ProcTypes, Pcs
  <1>5. \A q \in Procs \ {p} : pc'[q] = pc[q] /\ pos'[q] = pos[q] /\ fresh'[q] = fresh[q] /\ pending'[q] = pending[q]
    BY <1>1, <1>2, <1>3 DEF ProcTypes
  <1>6. ProcInv(p)'
    BY <1>4 DEF ProcInv, Climbs
  <1>7. BackupInv'
    <2>1. \A q \in Procs : pc'[q] = "migrate" => pc[q] = "migrate"
      BY <1>4, <1>5
    <2> QED BY <1>1, <1>2, <2>1, BackupsStay
  <1> QED BY <1>1, <1>2, <1>4, <1>5, <1>6, <1>7, FileStays, ProcStep

\* A step of the tool leaves the file and its processes.
LEMMA ToolStep ==
  ASSUME DatabaseInv, UNCHANGED <<db, base, procVars, baks>>, ToolInv', DestInv',
         \A n \in DOMAIN dumps' : CopyInv(dumps[n])'
  PROVE  DatabaseInv'
  <1>1. FileInv' /\ BackupInv'
    BY DEF DatabaseInv, FileInv, BackupInv, BackedUp, procVars
  <1>2. ProcTypes' /\ \A p \in Procs : ProcInv(p)'
    BY DEF DatabaseInv, ProcTypes, ProcInv, Climbs, procVars
  <1> QED BY <1>1, <1>2 DEF DatabaseInv

LEMMA CreateBackupKeeps ==
  ASSUME DatabaseInv, CreateBackup
  PROVE  DatabaseInv'
  <1> DEFINE e == [file |-> "partial", content |-> Empty, listed |-> FALSE, manifest |-> Accounting(Empty),
                   damaged |-> FALSE]
  <1>1. /\ dumps' = Append(dumps, e) /\ tool' = [at |-> "copy", n |-> Len(dumps) + 1]
        /\ UNCHANGED <<db, base, procVars, baks, dest>>
    BY DEF CreateBackup, toolOnly
  <1>2. PICK S : dumps \in Seq(S)
    BY DEF DatabaseInv, ToolInv
  <1>3. e.file = "partial" /\ ~e.listed /\ ~e.damaged /\ CopyInv(e)'
    BY DEF CopyInv
  <1> HIDE DEF e
  <1>4. /\ dumps' \in Seq(S \cup {e}) /\ Len(dumps) + 1 \in DOMAIN dumps' /\ dumps'[Len(dumps) + 1] = e
        /\ \A n \in DOMAIN dumps' : (n \in DOMAIN dumps /\ dumps'[n] = dumps[n]) \/ dumps'[n] = e
    <2>1. dumps \in Seq(S \cup {e})
      BY <1>2
    <2> QED BY <1>1, <2>1
  <1>5. ToolInv'
    <2>1. tool'.at = "copy" /\ tool'.n = Len(dumps) + 1 /\ DOMAIN tool' = {"at", "n"}
      BY <1>1
    <2> QED BY <1>3, <1>4, <2>1 DEF ToolInv
  <1>6. DestInv'
    BY <1>1 DEF DatabaseInv, DestInv
  <1>7. \A n \in DOMAIN dumps' : CopyInv(dumps[n])'
    <2>1. \A n \in DOMAIN dumps : CopyInv(dumps[n])
      BY DEF DatabaseInv
    <2>2. ASSUME NEW n \in DOMAIN dumps' PROVE CopyInv(dumps[n])'
      <3>1. CASE n \in DOMAIN dumps /\ dumps'[n] = dumps[n]
        BY <1>1, <2>1, <3>1 DEF CopyInv
      <3>2. CASE dumps'[n] = e
        BY <1>3, <3>2 DEF CopyInv
      <3> QED BY <1>4, <3>1, <3>2
    <2> QED BY <2>2
  <1> QED BY <1>1, <1>5, <1>6, <1>7, ToolStep

\* A step that rewrites the entry of one backup and leaves the others.
LEMMA EntryStep ==
  ASSUME DatabaseInv, UNCHANGED <<db, base, procVars, baks>>, DestInv',
         NEW m \in DOMAIN dumps, NEW e, dumps' = [dumps EXCEPT ![m] = e], CopyInv(e)',
         \/ tool' = Resting
         \/ tool' = tool /\ tool.n # m
         \/ tool' = [tool EXCEPT !.at = "manifest"] /\ tool.n = m /\ e.file = "whole" /\ ~e.listed /\ ~e.damaged
  PROVE  DatabaseInv'
  <1>1. PICK S : dumps \in Seq(S)
    BY DEF DatabaseInv, ToolInv
  <1>2. dumps' \in Seq(S \cup {e}) /\ DOMAIN dumps' = DOMAIN dumps /\ dumps'[m] = e
        /\ \A n \in DOMAIN dumps \ {m} : dumps'[n] = dumps[n]
    <2>1. dumps \in Seq(S \cup {e})
      BY <1>1
    <2> QED BY <2>1
  <1>3. ToolInv
    BY DEF DatabaseInv
  <1>4. ToolInv'
    <2>1. \E V : dumps' \in Seq(V)
      BY <1>2
    <2>2. CASE tool' = Resting
      BY <2>1, <2>2 DEF ToolInv, Resting
    <2>3. CASE tool' = tool /\ tool.n # m
      <3>1. tool.at # "idle" => dumps'[tool.n] = dumps[tool.n] /\ tool.n \in DOMAIN dumps'
        BY <1>2, <1>3, <2>3 DEF ToolInv
      <3> QED BY <1>3, <2>1, <2>3, <3>1 DEF ToolInv
    <2>4. CASE tool' = [tool EXCEPT !.at = "manifest"] /\ tool.n = m /\ e.file = "whole" /\ ~e.listed /\ ~e.damaged
      <3>1. tool'.at = "manifest" /\ tool'.n = m /\ DOMAIN tool' = {"at", "n"}
        BY <1>3, <2>4 DEF ToolInv
      <3> QED BY <1>2, <2>1, <2>4, <3>1 DEF ToolInv
    <2> QED BY <2>2, <2>3, <2>4
  <1>5. \A n \in DOMAIN dumps' : CopyInv(dumps[n])'
    <2>1. \A n \in DOMAIN dumps : CopyInv(dumps[n])
      BY DEF DatabaseInv
    <2>2. ASSUME NEW n \in DOMAIN dumps' PROVE CopyInv(dumps[n])'
      <3>1. CASE n # m
        BY <1>2, <2>1, <3>1 DEF CopyInv
      <3>2. CASE n = m
        BY <1>2, <3>2 DEF CopyInv
      <3> QED BY <3>1, <3>2
    <2> QED BY <2>2
  <1> QED BY <1>4, <1>5, ToolStep

LEMMA CopyBackupKeeps ==
  ASSUME DatabaseInv, CopyBackup
  PROVE  DatabaseInv'
  <1>1. PICK m : m = tool.n
    OBVIOUS
  <1>2. PICK d : d = dumps[m]
    OBVIOUS
  <1>12. PICK e : e = [d EXCEPT !.file = "whole", !.content = db]
    OBVIOUS
  <1>3. /\ tool.at = "copy" /\ tool' = [tool EXCEPT !.at = "manifest"]
        /\ dumps' = [dumps EXCEPT ![m].file = "whole", ![m].content = db]
        /\ UNCHANGED <<db, base, procVars, baks, dest>>
    BY <1>1 DEF CopyBackup, toolOnly
  <1>4. m \in DOMAIN dumps /\ ~d.listed /\ ~d.damaged
    BY <1>1, <1>2, <1>3 DEF DatabaseInv, ToolInv
  <1>5. CopyInv(d)
    BY <1>2, <1>4 DEF DatabaseInv
  <1>6. dumps' = [dumps EXCEPT ![m] = e]
    BY <1>2, <1>3, <1>4, <1>12
  <1>7. /\ e.file = "whole" /\ e.content = db /\ e.listed = d.listed /\ e.damaged = d.damaged
        /\ DOMAIN e = {"file", "content", "listed", "manifest", "damaged"}
    BY <1>5, <1>12 DEF CopyInv
  <1>8. CopyInv(e)'
    <2>1. Consistent(db) /\ AllIds(db) = AllIds(base)
      BY DEF DatabaseInv, FileInv, Since
    <2>2. e.listed \in BOOLEAN /\ e.damaged \in BOOLEAN /\ ~e.listed /\ ~e.damaged
      BY <1>4, <1>5, <1>7 DEF CopyInv
    <2>3. Consistent(e.content) /\ AllIds(e.content) = AllIds(base)
      BY <1>7, <2>1, Zenon
    <2> QED BY <1>3, <1>7, <2>2, <2>3 DEF CopyInv
  <1>9. DestInv'
    BY <1>3 DEF DatabaseInv, DestInv
  <1>10. e.file = "whole" /\ ~e.listed /\ ~e.damaged
    BY <1>4, <1>5, <1>7 DEF CopyInv
  <1>11. tool' = [tool EXCEPT !.at = "manifest"] /\ tool.n = m /\ UNCHANGED <<db, base, procVars, baks>>
    BY <1>1, <1>3
  <1> QED BY <1>4, <1>6, <1>8, <1>9, <1>10, <1>11, EntryStep

LEMMA WriteManifestKeeps ==
  ASSUME DatabaseInv, WriteManifest
  PROVE  DatabaseInv'
  <1>1. PICK m : m = tool.n
    OBVIOUS
  <1>2. PICK d : d = dumps[m]
    OBVIOUS
  <1> DEFINE e == [d EXCEPT !.listed = TRUE, !.manifest = Accounting(d.content)]
  <1>3. /\ tool.at = "manifest" /\ tool' = Resting
        /\ dumps' = [dumps EXCEPT ![m].listed = TRUE, ![m].manifest = Accounting(d.content)]
        /\ UNCHANGED <<db, base, procVars, baks, dest>>
    BY <1>1, <1>2 DEF WriteManifest, toolOnly, AccountingOf
  <1>4. m \in DOMAIN dumps /\ d.file = "whole" /\ ~d.listed /\ ~d.damaged
    BY <1>1, <1>2, <1>3 DEF DatabaseInv, ToolInv
  <1>5. CopyInv(d)
    BY <1>2, <1>4 DEF DatabaseInv
  <1>6. dumps' = [dumps EXCEPT ![m] = e]
    BY <1>2, <1>3, <1>4
  <1>7. /\ e.file = d.file /\ e.content = d.content /\ e.listed = TRUE /\ e.damaged = d.damaged
        /\ e.manifest = Accounting(d.content)
        /\ DOMAIN e = {"file", "content", "listed", "manifest", "damaged"}
    BY <1>5 DEF CopyInv
  <1> HIDE DEF e
  <1>8. CopyInv(e)'
    BY <1>3, <1>4, <1>5, <1>7 DEF CopyInv
  <1>9. DestInv'
    BY <1>3 DEF DatabaseInv, DestInv
  <1> QED BY <1>3, <1>4, <1>6, <1>8, <1>9, EntryStep

LEMMA BackupFailsKeeps ==
  ASSUME DatabaseInv, NEW tidy \in BOOLEAN, BackupFails(tidy)
  PROVE  DatabaseInv'
  <1>1. PICK m : m = tool.n
    OBVIOUS
  <1>2. /\ tool.at \in {"copy", "manifest"} /\ tool' = Resting
        /\ dumps' = IF tidy THEN [dumps EXCEPT ![m] = Removed] ELSE dumps
        /\ UNCHANGED <<db, base, procVars, baks, dest>>
    BY <1>1 DEF BackupFails, toolOnly
  <1>3. m \in DOMAIN dumps
    BY <1>1, <1>2 DEF DatabaseInv, ToolInv
  <1>4. DestInv'
    BY <1>2 DEF DatabaseInv, DestInv
  <1>5. CASE tidy
    <2>1. CopyInv(Removed)'
      BY DEF CopyInv, Removed
    <2> QED BY <1>2, <1>3, <1>4, <1>5, <2>1, EntryStep
  <1>6. CASE ~tidy
    <2>2. dumps' = [dumps EXCEPT ![m] = dumps[m]]
      <3>1. PICK S : dumps \in Seq(S)
        BY DEF DatabaseInv, ToolInv
      <3> QED BY <1>2, <1>3, <1>6, <3>1
    <2>3. PICK d : d = dumps[m]
      OBVIOUS
    <2>4. CopyInv(d)'
      BY <1>2, <1>3, <1>6, <2>3 DEF DatabaseInv, CopyInv
    <2> QED BY <1>2, <1>3, <1>4, <2>2, <2>3, <2>4, EntryStep
  <1> QED BY <1>5, <1>6

LEMMA DamageKeeps ==
  ASSUME DatabaseInv, NEW n \in DOMAIN dumps, Damage(n)
  PROVE  DatabaseInv'
  <1>1. PICK d : d = dumps[n]
    OBVIOUS
  <1>2. /\ tool.n # n /\ d.file = "whole" /\ d.content.rows # {}
        /\ dumps' = [dumps EXCEPT ![n].content.rows = {}, ![n].damaged = TRUE]
        /\ UNCHANGED <<db, base, procVars, baks, dest, tool>>
    BY <1>1 DEF Damage, toolOnly
  <1> DEFINE e == [d EXCEPT !.content.rows = {}, !.damaged = TRUE]
  <1>3. CopyInv(d)
    BY <1>1 DEF DatabaseInv
  <1>4. dumps' = [dumps EXCEPT ![n] = e]
    BY <1>1, <1>2
  <1>5. ~d.damaged /\ Consistent(d.content)
    BY <1>2, <1>3 DEF CopyInv
  <1>6. /\ e.listed = d.listed /\ e.damaged = TRUE /\ e.manifest = d.manifest
        /\ DOMAIN e = {"file", "content", "listed", "manifest", "damaged"} /\ e.content.rows = {}
    <2>1. "rows" \in DOMAIN d.content
      BY <1>5, Columns DEF Consistent
    <2> QED BY <1>3, <2>1 DEF CopyInv
  <1> HIDE DEF e
  <1>7. d.listed => d.manifest.rows # 0
    <2>1. IsFiniteSet(d.content.rows)
      BY <1>5 DEF Consistent, Tabled
    <2>2. Cardinality(d.content.rows) # 0
      BY <1>2, <2>1, FS_EmptySet
    <2>3. d.listed => d.manifest = Accounting(d.content)
      BY <1>3, <1>5 DEF CopyInv
    <2>4. Accounting(d.content).rows = Cardinality(d.content.rows)
      BY DEF Accounting
    <2> QED BY <2>2, <2>3, <2>4
  <1>8. CopyInv(e)'
    BY <1>3, <1>6, <1>7 DEF CopyInv
  <1>9. DestInv'
    BY <1>2 DEF DatabaseInv, DestInv
  <1> QED BY <1>2, <1>4, <1>8, <1>9, EntryStep

\* A step of the tool that looks at its entries only.
LEMMA EntriesStay ==
  ASSUME DatabaseInv, UNCHANGED <<db, base, procVars, baks, dumps>>, DestInv', ToolInv'
  PROVE  DatabaseInv'
  <1>1. \A n \in DOMAIN dumps' : CopyInv(dumps[n])'
    BY DEF DatabaseInv, CopyInv
  <1> QED BY <1>1, ToolStep

LEMMA RestoreKeeps ==
  ASSUME DatabaseInv, NEW n \in DOMAIN dumps, Restore(n)
  PROVE  DatabaseInv'
  <1>1. /\ dumps[n].listed /\ dest' = [state |-> "partial", content |-> Empty]
        /\ tool' = [at |-> "restore", n |-> n] /\ UNCHANGED <<db, base, procVars, baks, dumps>>
    BY DEF Restore, toolOnly
  <1>2. DestInv'
    BY <1>1 DEF DestInv
  <1>3. ToolInv'
    BY <1>1 DEF DatabaseInv, ToolInv
  <1> QED BY <1>1, <1>2, <1>3, EntriesStay

\* What the check lets through is undamaged: a damaged copy has no rows, its manifest some.
LEMMA RestoreCheckKeeps ==
  ASSUME DatabaseInv, RestoreCheck
  PROVE  DatabaseInv'
  <1>1. PICK m : m = tool.n
    OBVIOUS
  <1>2. PICK d : d = dumps[m]
    OBVIOUS
  <1>3. /\ tool.at = "restore" /\ tool' = Resting
        /\ dest' = IF Accounting(d.content) = d.manifest THEN [state |-> "ok", content |-> d.content] ELSE NoDest
        /\ UNCHANGED <<db, base, procVars, baks, dumps>>
    BY <1>1, <1>2 DEF RestoreCheck, Matches, toolOnly
  <1>4. m \in DOMAIN dumps /\ d.listed
    BY <1>1, <1>2, <1>3 DEF DatabaseInv, ToolInv
  <1>5. CopyInv(d)
    BY <1>2, <1>4 DEF DatabaseInv
  <1>6. ToolInv'
    BY <1>3 DEF DatabaseInv, ToolInv, Resting
  <1>7. DestInv'
    <2>1. CASE Accounting(d.content) = d.manifest
      <3>1. ~d.damaged
        <4>1. SUFFICES ASSUME d.damaged PROVE FALSE
          OBVIOUS
        <4>2. d.content.rows = {} /\ d.manifest.rows # 0
          BY <1>4, <1>5, <4>1 DEF CopyInv
        <4>3. Accounting(d.content).rows = Cardinality(d.content.rows)
          BY DEF Accounting
        <4> QED BY <2>1, <4>2, <4>3, FS_EmptySet
      <3>2. Consistent(d.content) /\ AllIds(d.content) = AllIds(base)
        BY <1>4, <1>5, <3>1 DEF CopyInv
      <3>3. dest'.content = d.content /\ base' = base
        BY <1>3, <2>1
      <3> QED BY <3>2, <3>3 DEF DestInv
    <2>2. CASE Accounting(d.content) # d.manifest
      BY <1>3, <2>2 DEF DestInv, NoDest
    <2> QED BY <2>1, <2>2
  <1> QED BY <1>3, <1>6, <1>7, EntriesStay

LEMMA RestoreFailsKeeps ==
  ASSUME DatabaseInv, NEW tidy \in BOOLEAN, RestoreFails(tidy)
  PROVE  DatabaseInv'
  <1>1. /\ dest' = (IF tidy THEN NoDest ELSE dest) /\ tool' = Resting /\ UNCHANGED <<db, base, procVars, baks, dumps>>
    BY DEF RestoreFails, toolOnly
  <1>2. DestInv'
    BY <1>1 DEF DatabaseInv, DestInv, NoDest
  <1>3. ToolInv'
    BY <1>1 DEF DatabaseInv, ToolInv, Resting
  <1> QED BY <1>1, <1>2, <1>3, EntriesStay

\* A restored file that is put in place is what everything is measured by from then on.
LEMMA AdoptKeeps ==
  ASSUME DatabaseInv, Adopt
  PROVE  DatabaseInv'
  <1>1. /\ \A p \in Procs : pc[p] \in {"down", "failed"}
        /\ IF dest.state = "ok" THEN db' = dest.content /\ base' = dest.content ELSE UNCHANGED <<db, base>>
        /\ dest' = NoDest /\ UNCHANGED <<procVars, baks, dumps, tool>>
    BY DEF Adopt
  <1>2. CASE dest.state # "ok"
    <2>1. DestInv' /\ ToolInv'
      BY <1>1 DEF DatabaseInv, ToolInv, DestInv, NoDest
    <2> QED BY <1>1, <1>2, <2>1, EntriesStay
  <1>3. CASE dest.state = "ok"
    <2>1. PICK c : c = dest.content
      OBVIOUS
    <2>2. Consistent(c) /\ AllIds(c) = AllIds(base) /\ db' = c /\ base' = c
      BY <1>1, <1>3, <2>1 DEF DatabaseInv, DestInv
    <2>3. FileInv'
      BY <2>2, SinceItself DEF FileInv
    <2>4. BackupInv'
      <3>1. \A p \in Procs : pc'[p] # "migrate"
        BY <1>1 DEF procVars
      <3> QED BY <2>2, <3>1 DEF BackupInv
    <2>5. DestInv' /\ ToolInv'
      BY <1>1 DEF DatabaseInv, ToolInv, DestInv, NoDest
    <2>6. ProcTypes' /\ \A p \in Procs : ProcInv(p)'
      BY <1>1 DEF DatabaseInv, ProcTypes, ProcInv, Climbs, procVars
    <2>7. \A n \in DOMAIN dumps' : CopyInv(dumps[n])'
      <3>1. AllIds(base)' = AllIds(base)
        BY <2>2
      <3> QED BY <1>1, <3>1 DEF DatabaseInv, CopyInv
    <2> QED BY <2>3, <2>4, <2>5, <2>6, <2>7 DEF DatabaseInv
  <1> QED BY <1>2, <1>3

LEMMA DatabaseKeeps == DatabaseInv /\ [DatabaseNext]_databaseVars => DatabaseInv'
  <1> SUFFICES ASSUME DatabaseInv, [DatabaseNext]_databaseVars PROVE DatabaseInv'
    OBVIOUS
  <1>1. ASSUME NEW p \in Procs,
               Open(p) \/ ScriptStep(p) \/ StampVersion(p) \/ FindPending(p) \/ BackUp(p) \/ Migrate(p) \/ Fault(p) \/ Close(p)
        PROVE  DatabaseInv'
    BY <1>1, OpenKeeps, ScriptStepKeeps, StampKeeps, FindPendingKeeps, BackUpKeeps, MigrateKeeps, FaultKeeps
  <1>2. CASE CreateBackup \/ CopyBackup \/ WriteManifest \/ RestoreCheck \/ Adopt
    BY <1>2, CreateBackupKeeps, CopyBackupKeeps, WriteManifestKeeps, RestoreCheckKeeps, AdoptKeeps
  <1>3. ASSUME NEW tidy \in BOOLEAN, BackupFails(tidy) \/ RestoreFails(tidy) PROVE DatabaseInv'
    BY <1>3, BackupFailsKeeps, RestoreFailsKeeps
  <1>4. ASSUME NEW n \in DOMAIN dumps, Damage(n) \/ Restore(n) PROVE DatabaseInv'
    BY <1>4, DamageKeeps, RestoreKeeps
  <1>5. CASE UNCHANGED databaseVars
    <2>1. UNCHANGED <<db, base, procVars, baks, dumps, tool, dest>>
      BY <1>5 DEF databaseVars, toolVars
    <2>2. DestInv' /\ ToolInv'
      BY <2>1 DEF DatabaseInv, DestInv, ToolInv
    <2> QED BY <2>1, <2>2, EntriesStay
  <1> QED BY <1>1, <1>2, <1>3, <1>4, <1>5 DEF DatabaseNext

LEMMA DatabaseHolds == DatabaseSpec => []DatabaseInv
  BY DatabaseStarts, DatabaseKeeps, PTL DEF DatabaseSpec
-----------------------------------------------------------------------------
\* From any content an earlier release left, an upgrade keeps every row live or archived
\* once, logs each event it derives once, shows the legacy history and gives each url one owner
\* at a time, whichever starts, faults and restores come between (migrations 2, 3, 11 and 13).
THEOREM RowsAreKept == DatabaseSpec => []RowsKept
<1>1. ASSUME DatabaseInv PROVE RowsKept
  <2>1. Consistent(db) /\ Since(base, db)
    BY <1>1 DEF DatabaseInv, FileInv
  <2>2. RowsAccounted
    BY <2>1 DEF RowsAccounted, Consistent, RowsApart, Since, AllIds
  <2>3. BackfilledOnce
    BY <2>1 DEF BackfilledOnce, Since, Once
  <2>4. HistoryParity
    <3>1. SUFFICES ASSUME 13 \in db.applied PROVE Shown({m \in db.members : m.kind = "snapshot"}) = Told(db)
      BY DEF HistoryParity
    <3>2. 11 \in db.applied
      BY <2>1, <3>1 DEF Consistent
    <3>3. /\ Shown({m \in db.members : m.kind = "snapshot" /\ m.version # "current"}) = Told(db)
          /\ \A m \in db.members : m.kind = "snapshot" => m.version # "current"
      BY <2>1, <3>1, <3>2 DEF Consistent, MembersTrue
    <3>4. {m \in db.members : m.kind = "snapshot"} = {m \in db.members : m.kind = "snapshot" /\ m.version # "current"}
      BY <3>3
    <3> QED BY <3>3, <3>4
  <2>5. AliasWindows
    BY <2>1 DEF AliasWindows, Consistent
  <2> QED BY <2>2, <2>3, <2>4, <2>5 DEF RowsKept
<1> QED BY <1>1, DatabaseHolds, PTL

\* Before a file is changed a copy of it is made, the manifest of an undamaged copy tells the
\* truth about it, and what restore lets through has every row, for any number of processes
\* that open the file and any number of backups (run_migrations' backup, backup.py).
THEOREM CopiesAreSound == DatabaseSpec => []CopiesSound
<1>1. ASSUME DatabaseInv PROVE CopiesSound
  <2>1. UpgradeIsBackedUp
    BY <1>1 DEF DatabaseInv, BackupInv, BackedUp, UpgradeIsBackedUp
  <2>2. ManifestsAgree
    BY <1>1 DEF DatabaseInv, CopyInv, ManifestsAgree
  <2>3. RestoredIsIntact
    BY <1>1 DEF DatabaseInv, DestInv, RestoredIsIntact, AllIds
  <2> QED BY <2>1, <2>2, <2>3 DEF CopiesSound
<1> QED BY <1>1, DatabaseHolds, PTL
===============================================================================
