------------------------- MODULE RunSchedulerProofs -------------------------
(***************************************************************************)
(* What holds of a run of the scheduler for any plan, any boards, any      *)
(* number of attempts and lives.  In this order:                           *)
(*                                                                         *)
(*   a committed checkpoint covers only committed records, and a posting   *)
(*   is marked absent only when it has been proved gone (CoverInv);        *)
(*   types, and what each step does to the queue (TypeInv);                *)
(*   a run that settled has told the postings what it knows of presence:   *)
(*   where the pass and the end of the run stand in the queue (PlaceInv);  *)
(*   the tables refuse no operation and the attempts of a source run in    *)
(*   turn: the turns of the queued operations, and what each target has    *)
(*   in its hands (TablesInv);                                             *)
(*   a settled run accounts for every target it planned (AccountInv).      *)
(*                                                                         *)
(* Types and presence need no assumption; the others need a queue that     *)
(* keeps the order of deferred operations (~MayOvertake).                  *)
(***************************************************************************)
EXTENDS RunScheduler, SequenceTheorems, WellFoundedInduction, TLAPS

Kinds == {"start", "create", "batch", "finish", "unattempted", "presence", "end"}

Words == {"none", "new", "resume", "running", "interrupted", "succeeded", "partial",
          "failed", "timeout", "cancelled"}

OpRec == [k : Kinds, s : Sources \cup {"none"}, a : Int, lo : Int, hi : Int,
          ck : Int, st : Words, soon : BOOLEAN]

Row == [st : Words, ck : Int]

\* The operation delivers record j of source s.
Delivers(o, s, j) == o.k = "batch" /\ o.s = s /\ o.lo <= j /\ j <= o.hi

\* Record j of s is committed, or among the first i operations.
Held(q, sn, s, i, j) ==
    Inventory[s][j] \in sn \/ \E h \in 1 .. i : Delivers(q[h], s, j)

\* What a checkpoint and a status vouch for: the records up to the checkpoint,
\* and the whole board if the attempt succeeded.
Vouched(ck, st, s) ==
    (1 .. ck) \cup (IF st = "succeeded" THEN 1 .. Len(Inventory[s]) ELSE {})

OpVouches(o) == Vouched(o.ck, o.st, o.s)

RowCovered(r, s, sn) == \A i \in Vouched(r.ck, r.st, s) : Inventory[s][i] \in sn

\* An operation on its way vouches for what is committed or ahead of it.
OpsCovered(q, sn) ==
    \A i \in 1 .. Len(q) : q[i].k \in {"batch", "finish"} =>
        /\ q[i].s \in Sources
        /\ \A j \in OpVouches(q[i]) : Held(q, sn, q[i].s, i, j)

QueueShape == queue \in Seq(OpRec)

RowShape == rows \in [Sources -> [AttemptNos -> Row]]

StatusShape == status \in Words

TaskShape ==
    /\ pos \in [Sources -> Int] /\ flushed \in [Sources -> Int]
    /\ mark \in [Sources -> Int] /\ cursor \in [Sources -> Nat]
    /\ index \in [Sources -> Int] /\ offset \in [Sources -> Int]
    /\ ending \in [Sources -> Words]
    /\ task \in [Sources -> {"spawned", "gate", "create", "stream", "submit",
                             "closing", "backoff", "done"}]
    /\ \A s \in Sources : flushed[s] <= pos[s] /\ mark[s] <= pos[s]

\* Only a target in an attempt has records in its hands, and only while the
\* run gathers its targets.
Busy == {"stream", "submit", "closing"}

Clean ==
    /\ \A s \in Sources : task[s] \notin Busy => flushed[s] = 0 /\ pos[s] = 0
    /\ \A s \in Sources : task[s] = "closing" => ending[s] \in {"timeout", "failed"}
    /\ run # "gather" => \A s \in Sources : task[s] = "done"

\* What an attempt skipped or handed over is committed or on its way.
FlushedHeld ==
    ~dead => \A s \in Sources : \A j \in 1 .. flushed[s] :
                 Held(queue, seen, s, Len(queue), j)

CursorCovered ==
    \A s \in Sources : \A j \in 1 .. cursor[s] : Inventory[s][j] \in seen

RowsCovered ==
    \A s \in Sources, n \in AttemptNos : RowCovered(rows[s][n], s, seen)

CoverInv ==
    /\ QueueShape /\ RowShape /\ StatusShape /\ TaskShape /\ Clean
    /\ OpsCovered(queue, seen) /\ FlushedHeld /\ CursorCovered /\ RowsCovered

-----------------------------------------------------------------------------
(* Sequences of operations *)

\* Positions are integers.
LEMMA VouchedIntegers ==
    ASSUME NEW o \in OpRec, o.s \in Sources
    PROVE  OpVouches(o) \subseteq Int
<1>1. Len(Inventory[o.s]) \in Nat
  BY SchedulerAssumption
<1> QED BY <1>1 DEF OpRec, OpVouches, Vouched

\* A later operation takes nothing away, and is covered if it says so.
LEMMA CoveredAppend ==
    ASSUME NEW q \in Seq(OpRec), NEW sn, NEW o \in OpRec, OpsCovered(q, sn),
           o.k \in {"batch", "finish"} =>
               /\ o.s \in Sources
               /\ \A j \in OpVouches(o) :
                    Held(q, sn, o.s, Len(q), j) \/ Delivers(o, o.s, j)
    PROVE  /\ Append(q, o) \in Seq(OpRec)
           /\ Len(Append(q, o)) = Len(q) + 1
           /\ OpsCovered(Append(q, o), sn)
           /\ \A s, j : Held(q, sn, s, Len(q), j) =>
                  Held(Append(q, o), sn, s, Len(Append(q, o)), j)
           /\ \A s, j : Delivers(o, s, j) => Held(Append(q, o), sn, s, Len(Append(q, o)), j)
<1> DEFINE q2 == Append(q, o)
<1>1. /\ q2 \in Seq(OpRec) /\ Len(q2) = Len(q) + 1 /\ Len(q) \in Nat
      /\ \A i \in 1 .. Len(q) : q2[i] = q[i]
      /\ q2[Len(q) + 1] = o
  BY AppendProperties, LenProperties
<1> HIDE DEF q2
<1>2. \A s, j : \A i \in 1 .. Len(q) : Held(q, sn, s, i, j) => Held(q2, sn, s, i, j)
  BY <1>1 DEF Held
<1>3. \A s, j : Held(q, sn, s, Len(q), j) => Held(q2, sn, s, Len(q2), j)
  BY <1>1 DEF Held
<1>4. \A s, j : Delivers(o, s, j) => Held(q2, sn, s, Len(q2), j)
  BY <1>1 DEF Held
<1>5. OpsCovered(q2, sn)
  <2> SUFFICES ASSUME NEW i \in 1 .. Len(q2), q2[i].k \in {"batch", "finish"}
               PROVE  /\ q2[i].s \in Sources
                      /\ \A j \in OpVouches(q2[i]) : Held(q2, sn, q2[i].s, i, j)
    BY DEF OpsCovered
  <2>1. CASE i \in 1 .. Len(q)
    BY <1>1, <1>2, <2>1 DEF OpsCovered
  <2>2. CASE i = Len(q) + 1
    BY <1>1, <1>3, <1>4, <2>2
  <2> QED BY <1>1, <2>1, <2>2
<1> QED BY <1>1, <1>3, <1>4, <1>5 DEF q2

\* The first part of a covered queue is covered.
LEMMA CoveredPrefix ==
    ASSUME NEW q \in Seq(OpRec), NEW sn, OpsCovered(q, sn), NEW n \in 0 .. Len(q)
    PROVE  SubSeq(q, 1, n) \in Seq(OpRec) /\ OpsCovered(SubSeq(q, 1, n), sn)
<1> DEFINE p == SubSeq(q, 1, n)
<1>1. \A i \in 1 .. n : q[i] \in OpRec
  BY LenProperties, ElementOfSeq
<1>2. /\ p \in Seq(OpRec) /\ Len(p) = n
      /\ \A i \in 1 .. n : p[i] = q[i]
  <2>1. n \in Int /\ Len(q) \in Nat
    BY LenProperties
  <2> QED BY <1>1, <2>1, SubSeqProperties
<1> HIDE DEF p
<1>3. OpsCovered(p, sn)
  <2>1. \A s, j : \A i \in 1 .. n : Held(q, sn, s, i, j) => Held(p, sn, s, i, j)
    BY <1>2 DEF Held
  <2> SUFFICES ASSUME NEW i \in 1 .. n, q[i].k \in {"batch", "finish"}
               PROVE  /\ q[i].s \in Sources
                      /\ \A j \in OpVouches(q[i]) : Held(p, sn, q[i].s, i, j)
    BY <1>2 DEF OpsCovered
  <2>2. i \in 1 .. Len(q)
    BY LenProperties
  <2> QED BY <2>1, <2>2 DEF OpsCovered
<1> QED BY <1>2, <1>3 DEF p

\* A commit moves the records of the head into the table.
LEMMA CoveredTail ==
    ASSUME NEW q \in Seq(OpRec), NEW sn, NEW sn2, q # <<>>, OpsCovered(q, sn),
           sn \subseteq sn2,
           \A s : \A j \in Int : Delivers(Head(q), s, j) => Inventory[s][j] \in sn2
    PROVE  /\ Tail(q) \in Seq(OpRec)
           /\ OpsCovered(Tail(q), sn2)
           /\ \A s : \A j \in Int : Held(q, sn, s, Len(q), j) =>
                  Held(Tail(q), sn2, s, Len(Tail(q)), j)
<1> DEFINE p == Tail(q)
<1>1. /\ p \in Seq(OpRec) /\ Len(p) = Len(q) - 1 /\ Len(q) \in Nat
      /\ \A i \in 1 .. Len(p) : p[i] = q[i + 1]
      /\ Head(q) = q[1] /\ Len(q) >= 1
  BY HeadTailProperties, LenProperties, EmptySeq
<1> HIDE DEF p
<1>2. ASSUME NEW s, NEW j \in Int, NEW i \in 0 .. Len(p), Held(q, sn, s, i + 1, j)
      PROVE  Held(p, sn2, s, i, j)
  <2>1. CASE Inventory[s][j] \in sn
    BY <2>1 DEF Held
  <2>2. CASE \E h \in 1 .. i + 1 : Delivers(q[h], s, j)
    <3>1. PICK h \in 1 .. i + 1 : Delivers(q[h], s, j)
      BY <2>2
    <3>2. CASE h = 1
      BY <1>1, <3>1, <3>2 DEF Held
    <3>3. CASE h # 1
      <4>1. h - 1 \in 1 .. i /\ h - 1 \in 1 .. Len(p) /\ p[h - 1] = q[h]
        BY <1>1, <3>3
      <4> QED BY <3>1, <4>1 DEF Held
    <3> QED BY <3>2, <3>3
  <2>3. Held(q, sn, s, i + 1, j)
    BY <1>2
  <2> QED BY <2>1, <2>2, <2>3 DEF Held
<1>3. OpsCovered(p, sn2)
  <2> SUFFICES ASSUME NEW i \in 1 .. Len(p), p[i].k \in {"batch", "finish"}
               PROVE  /\ p[i].s \in Sources
                      /\ \A j \in OpVouches(p[i]) : Held(p, sn2, p[i].s, i, j)
    BY DEF OpsCovered
  <2>1. p[i] = q[i + 1] /\ i + 1 \in 1 .. Len(q) /\ i \in 0 .. Len(p)
    BY <1>1
  <2>2. /\ p[i].s \in Sources
        /\ \A j \in OpVouches(p[i]) : Held(q, sn, p[i].s, i + 1, j)
    BY <2>1 DEF OpsCovered
  <2>3. OpVouches(p[i]) \subseteq Int
    BY <1>1, <2>2, VouchedIntegers, ElementOfSeq
  <2> QED BY <1>2, <2>1, <2>2, <2>3
<1>4. \A s : \A j \in Int : Held(q, sn, s, Len(q), j) => Held(p, sn2, s, Len(p), j)
  BY <1>1, <1>2
<1> QED BY <1>1, <1>3, <1>4 DEF p

\* Operations that carry no checkpoint.
LEMMA CoveredConcat ==
    ASSUME NEW q \in Seq(OpRec), NEW sn, NEW r \in Seq(OpRec), OpsCovered(q, sn),
           \A i \in 1 .. Len(r) : r[i].k \notin {"batch", "finish"}
    PROVE  q \o r \in Seq(OpRec) /\ OpsCovered(q \o r, sn)
<1> DEFINE q2 == q \o r
<1>1. /\ q2 \in Seq(OpRec) /\ Len(q2) = Len(q) + Len(r)
      /\ Len(q) \in Nat /\ Len(r) \in Nat
      /\ \A i \in 1 .. Len(q) : q2[i] = q[i]
      /\ \A i \in Len(q) + 1 .. Len(q2) : q2[i] = r[i - Len(q)]
  BY ConcatProperties, LenProperties
<1> HIDE DEF q2
<1>2. \A s, j : \A i \in 1 .. Len(q) : Held(q, sn, s, i, j) => Held(q2, sn, s, i, j)
  BY <1>1 DEF Held
<1>3. OpsCovered(q2, sn)
  <2> SUFFICES ASSUME NEW i \in 1 .. Len(q2), q2[i].k \in {"batch", "finish"}
               PROVE  /\ q2[i].s \in Sources
                      /\ \A j \in OpVouches(q2[i]) : Held(q2, sn, q2[i].s, i, j)
    BY DEF OpsCovered
  <2>1. i \in 1 .. Len(q)
    <3>1. CASE i > Len(q)
      <4>1. i - Len(q) \in 1 .. Len(r) /\ q2[i] = r[i - Len(q)]
        BY <1>1, <3>1
      <4> QED BY <4>1
    <3> QED BY <1>1, <3>1
  <2> QED BY <1>1, <1>2, <2>1 DEF OpsCovered
<1> QED BY <1>1, <1>3 DEF q2

\* The queue r is covered and holds what q held.
Extends(q, r, sn) ==
    /\ r \in Seq(OpRec) /\ OpsCovered(r, sn)
    /\ \A s, j : Held(q, sn, s, Len(q), j) => Held(r, sn, s, Len(r), j)

\* What the end of an attempt sends: the rest of its records, if any, and
\* behind them the attempt's last checkpoint.
LEMMA CoveredSettling ==
    ASSUME NEW q \in Seq(OpRec), NEW sn, OpsCovered(q, sn), NEW s \in Sources,
           NEW b \in OpRec, b.k = "batch", b.s = s, b.lo <= b.hi + 1,
           OpVouches(b) \subseteq 1 .. b.hi,
           \A j \in 1 .. b.lo - 1 : Held(q, sn, s, Len(q), j),
           NEW f \in OpRec, f.k = "finish", f.s = s,
           OpVouches(f) \subseteq 1 .. b.hi
    PROVE  /\ Extends(q, q \o (<<b>> \o <<f>>), sn)
           /\ b.lo = b.hi + 1 => Extends(q, q \o (<<>> \o <<f>>), sn)
<1>0. b.lo \in Int /\ b.hi \in Int
  BY DEF OpRec
<1>1. \A j \in 1 .. b.hi : Held(q, sn, s, Len(q), j) \/ Delivers(b, s, j)
  BY <1>0 DEF Delivers
<1>2. Extends(q, q \o (<<b>> \o <<f>>), sn)
  <2> DEFINE q1 == Append(q, b)
             q2 == Append(q1, f)
  <2>2. /\ Extends(q, q1, sn)
        /\ \A t, j : Delivers(b, t, j) => Held(q1, sn, t, Len(q1), j)
    BY <1>1, CoveredAppend DEF Extends
  <2>3. q1 = q \o <<b>>
    BY AppendIsConcat
  <2> HIDE DEF q1
  <2>4. \A j \in OpVouches(f) : Held(q1, sn, s, Len(q1), j)
    BY <1>1, <2>2 DEF Extends
  <2>5. Extends(q1, q2, sn)
    BY <2>2, <2>4, CoveredAppend DEF Extends
  <2>6. q2 = q \o (<<b>> \o <<f>>)
    <3>1. <<b>> \in Seq(OpRec) /\ <<f>> \in Seq(OpRec)
      OBVIOUS
    <3>2. q2 = q1 \o <<f>>
      BY <2>2, AppendIsConcat DEF Extends
    <3>3. (q \o <<b>>) \o <<f>> = q \o (<<b>> \o <<f>>)
      BY <3>1, ConcatAssociative
    <3> QED BY <2>3, <3>2, <3>3
  <2> HIDE DEF q2
  <2> QED BY <2>2, <2>5, <2>6 DEF Extends
<1>3. ASSUME b.lo = b.hi + 1 PROVE Extends(q, q \o (<<>> \o <<f>>), sn)
  <2>1. <<f>> \in Seq(OpRec) /\ <<>> \o <<f>> = <<f>> /\ Append(q, f) = q \o <<f>>
    BY AppendIsConcat, ConcatEmptySeq
  <2>2. \A j \in OpVouches(f) : Held(q, sn, s, Len(q), j)
    BY <1>0, <1>3
  <2> QED BY <2>1, <2>2, CoveredAppend DEF Extends
<1> QED BY <1>2, <1>3

-----------------------------------------------------------------------------
(* Numbers and rows *)

\* A nonempty set of attempt numbers has a largest one.
LEMMA Maximum ==
    ASSUME NEW B \in Nat, NEW T \in SUBSET (1 .. B), T # {}
    PROVE  \E n \in T : \A j \in T : j <= n
<1> DEFINE U == {B - n : n \in T}
<1>1. U \subseteq Nat /\ U # {}
  <2>1. U \subseteq Nat
    OBVIOUS
  <2>2. PICK t : t \in T
    OBVIOUS
  <2>3. B - t \in U
    BY <2>2
  <2> QED BY <2>1, <2>3
<1> HIDE DEF U
<1>2. PICK x \in U : \A y \in U : ~ (<<y, x>> \in OpToRel(<, Nat))
  BY <1>1, NatLessThanWellFounded, WFMin, Zenon
<1>3. \A y \in U : ~(y < x)
  BY <1>1, <1>2, Zenon DEF OpToRel
<1> USE DEF U
<1>4. PICK n \in T : x = B - n
  OBVIOUS
<1>5. ASSUME NEW j \in T PROVE j <= n
  <2>1. B - j \in U
    OBVIOUS
  <2>2. ~(B - j < x)
    BY <1>3, <2>1
  <2>3. j \in Int /\ n \in Int /\ B \in Int
    OBVIOUS
  <2> HIDE DEF U
  <2> QED BY <1>4, <2>2, <2>3
<1> QED BY <1>5

\* So the newest attempt of a set of attempts is one of them (MaxAttempt and
\* LatestCheckpoint).
LEMMA AttemptNumbers ==
    /\ AttemptNos \subseteq Int
    /\ \A T \in SUBSET AttemptNos : T # {} =>
           (CHOOSE n \in T : \A j \in T : j <= n) \in T
<1>1. MaxAttempts * MaxLives \in Nat
  BY SchedulerAssumption
<1>2. AttemptNos = 1 .. (MaxAttempts * MaxLives)
  BY DEF AttemptNos
<1>3. ASSUME NEW T \in SUBSET AttemptNos, T # {}
      PROVE  (CHOOSE n \in T : \A j \in T : j <= n) \in T
  <2>1. \E n \in T : \A j \in T : j <= n
    BY <1>1, <1>2, <1>3, Maximum
  <2> QED BY <2>1
<1> QED BY <1>1, <1>2, <1>3

\* A committed checkpoint replaces the old one, or leaves it.
LEMMA RowUpdates ==
    ASSUME NEW r \in Row, NEW o \in OpRec, NEW s, NEW sn, RowCovered(r, s, sn),
           o.s = s, \A j \in OpVouches(o) : Inventory[s][j] \in sn
    PROVE  /\ Progress(r, o) \in Row /\ RowCovered(Progress(r, o), s, sn)
           /\ FinishRow(r, o) \in Row /\ RowCovered(FinishRow(r, o), s, sn)
  BY DEF Row, OpRec, RowCovered, OpVouches, Vouched, Progress, FinishRow, Coalesce

-----------------------------------------------------------------------------
(* The invariant *)

\* The tables of a run that was never started are empty.
LEMMA InitHolds == Init => CoverInv
<1> SUFFICES ASSUME Init PROVE CoverInv
  OBVIOUS
<1>1. queue \in Seq(OpRec) /\ Len(queue) = 0
  BY DEF Init
<1>2. RowShape /\ StatusShape
  BY DEF Init, RowShape, Row, StatusShape, Words
<1>5. TaskShape
  BY DEF Init, TaskShape, Words
<1>6. Clean
  BY DEF Init, Clean, Busy
<1>3. OpsCovered(queue, seen) /\ FlushedHeld
  BY <1>1 DEF Init, OpsCovered, FlushedHeld
<1>4. CursorCovered /\ RowsCovered
  BY DEF Init, CursorCovered, RowsCovered, RowCovered, Vouched
<1> QED BY <1>1, <1>2, <1>3, <1>4, <1>5, <1>6 DEF CoverInv, QueueShape

\* A step that leaves the queue, the tables and what was handed over alone.
LEMMA QuietStep ==
    ASSUME CoverInv, StatusShape', TaskShape', Clean',
           UNCHANGED <<queue, dead, rows, seen, cursor>>,
           \A s \in Sources : flushed'[s] = flushed[s] \/ flushed'[s] = 0
    PROVE  CoverInv'
<1> USE DEF CoverInv
<1>1. QueueShape' /\ RowShape' /\ OpsCovered(queue, seen)'
  BY DEF QueueShape, RowShape
<1>2. FlushedHeld'
  BY DEF FlushedHeld
<1>3. CursorCovered' /\ RowsCovered'
  BY DEF CursorCovered, RowsCovered
<1> QED BY <1>1, <1>2, <1>3

\* The steps of a target that submit nothing.
LEMMA QuietTarget ==
    \A s \in Sources :
        /\ CoverInv
        /\ \/ TargetStarts(s) \/ TakeGate(s) \/ CreateRaises(s)
           \/ \E flush \in BOOLEAN : Yields(s, flush)
           \/ Marks(s) \/ BackoffEnds(s) \/ BudgetSpent(s)
           \/ \E st \in Settled : SubmitCutShort(s, st)
        => CoverInv'
<1> USE DEF memVars, wVars, dbVars, Runs
<1>1. ASSUME CoverInv, NEW s \in Sources, TargetStarts(s) PROVE CoverInv'
  <2>1. TaskShape /\ Clean /\ StatusShape
    BY <1>1 DEF CoverInv
  <2>2. TaskShape'
    BY <1>1, <2>1 DEF TargetStarts, TaskShape, Words
  <2>3. Clean'
    BY <1>1, <2>1 DEF TargetStarts, TaskShape, Clean, Busy
  <2> QED BY <1>1, <2>1, <2>2, <2>3, QuietStep DEF TargetStarts, TaskShape, StatusShape
<1>2. ASSUME CoverInv, NEW s \in Sources, TakeGate(s) PROVE CoverInv'
  <2>1. TaskShape /\ Clean /\ StatusShape
    BY <1>2 DEF CoverInv
  <2>2. TaskShape'
    BY <1>2, <2>1 DEF TakeGate, TaskShape, Words
  <2>3. Clean'
    BY <1>2, <2>1 DEF TakeGate, TaskShape, Clean, Busy
  <2> QED BY <1>2, <2>1, <2>2, <2>3, QuietStep DEF TakeGate, TaskShape, StatusShape
<1>3. ASSUME CoverInv, NEW s \in Sources, CreateRaises(s) PROVE CoverInv'
  <2>1. TaskShape /\ Clean /\ StatusShape
    BY <1>3 DEF CoverInv
  <2>2. TaskShape'
    BY <1>3, <2>1 DEF CreateRaises, Returns, Locals, TaskShape, Words
  <2>3. Clean'
    BY <1>3, <2>1 DEF CreateRaises, Returns, Locals, TaskShape, Clean, Busy
  <2> QED BY <1>3, <2>1, <2>2, <2>3, QuietStep DEF CreateRaises, Returns, Locals, TaskShape, StatusShape
<1>4. ASSUME CoverInv, NEW s \in Sources, NEW flush \in BOOLEAN, Yields(s, flush) PROVE CoverInv'
  <2>1. TaskShape /\ Clean /\ StatusShape
    BY <1>4 DEF CoverInv
  <2>2. TaskShape'
    BY <1>4, <2>1 DEF Yields, TaskShape, Words
  <2>3. Clean'
    BY <1>4, <2>1 DEF Yields, TaskShape, Clean, Busy
  <2> QED BY <1>4, <2>1, <2>2, <2>3, QuietStep DEF Yields, TaskShape, StatusShape
<1>5. ASSUME CoverInv, NEW s \in Sources, Marks(s) PROVE CoverInv'
  <2>1. TaskShape /\ Clean /\ StatusShape
    BY <1>5 DEF CoverInv
  <2>2. TaskShape'
    BY <1>5, <2>1 DEF Marks, TaskShape, Words
  <2>3. Clean'
    BY <1>5, <2>1 DEF Marks, TaskShape, Clean, Busy
  <2> QED BY <1>5, <2>1, <2>2, <2>3, QuietStep DEF Marks, TaskShape, StatusShape
<1>6. ASSUME CoverInv, NEW s \in Sources, BackoffEnds(s) PROVE CoverInv'
  <2>1. TaskShape /\ Clean /\ StatusShape
    BY <1>6 DEF CoverInv
  <2>2. TaskShape'
    BY <1>6, <2>1 DEF BackoffEnds, TaskShape, Words
  <2>3. Clean'
    BY <1>6, <2>1 DEF BackoffEnds, TaskShape, Clean, Busy
  <2> QED BY <1>6, <2>1, <2>2, <2>3, QuietStep DEF BackoffEnds, TaskShape, StatusShape
<1>7. ASSUME CoverInv, NEW s \in Sources, BudgetSpent(s) PROVE CoverInv'
  <2>1. TaskShape /\ Clean /\ StatusShape
    BY <1>7 DEF CoverInv
  <2>2. TaskShape'
    BY <1>7, <2>1 DEF BudgetSpent, Returns, Locals, TaskShape, Words
  <2>3. Clean'
    BY <1>7, <2>1 DEF BudgetSpent, Returns, Locals, TaskShape, Clean, Busy
  <2> QED BY <1>7, <2>1, <2>2, <2>3, QuietStep DEF BudgetSpent, Returns, Locals, TaskShape, StatusShape
<1>8. ASSUME CoverInv, NEW s \in Sources, NEW st \in Settled, SubmitCutShort(s, st) PROVE CoverInv'
  <2>1. TaskShape /\ Clean /\ StatusShape
    BY <1>8 DEF CoverInv
  <2>2. TaskShape'
    BY <1>8, <2>1 DEF SubmitCutShort, Settled, TaskShape, Words
  <2>3. Clean'
    BY <1>8, <2>1 DEF SubmitCutShort, Settled, TaskShape, Clean, Busy
  <2> QED BY <1>8, <2>1, <2>2, <2>3, QuietStep DEF SubmitCutShort, Settled, TaskShape, StatusShape
<1> QED BY <1>1, <1>2, <1>3, <1>4, <1>5, <1>6, <1>7, <1>8

\* A step that leaves the tables alone.
LEMMA QueueStep ==
    ASSUME CoverInv, UNCHANGED <<rows, seen, cursor>>,
           StatusShape', TaskShape', Clean', FlushedHeld',
           queue' \in Seq(OpRec), OpsCovered(queue', seen)
    PROVE  CoverInv'
  BY DEF CoverInv, QueueShape, RowShape, CursorCovered, RowsCovered

\* What the end of an attempt adds to the queue.
LEMMA SettlingCovered ==
    ASSUME CoverInv, NEW s \in Sources, NEW st \in Settled,
           st = "succeeded" => pos[s] = Len(Inventory[s])
    PROVE  /\ Settling(s, st) \in Seq(OpRec) /\ OpsCovered(Settling(s, st), seen)
           /\ ~dead => Extends(queue, Settling(s, st), seen)
<1>1. /\ queue \in Seq(OpRec) /\ OpsCovered(queue, seen) /\ TaskShape
      /\ FlushedHeld
  BY DEF CoverInv, QueueShape
<1>2. CASE dead
  BY <1>1, <1>2 DEF Settling, Sent
<1>3. CASE ~dead
  <2> DEFINE b == BatchOp(s, Attempt(s), TRUE)
             f == FinishOp(s, Attempt(s), st, mark[s])
  <2>1. flushed[s] \in Int /\ pos[s] \in Int /\ mark[s] \in Int /\ Attempt(s) \in Int
    BY <1>1 DEF TaskShape, Attempt
  <2>2. b \in OpRec /\ b.k = "batch" /\ b.s = s /\ b.lo = flushed[s] + 1
        /\ b.hi = pos[s] /\ b.ck = mark[s] /\ b.st = "none"
    BY <2>1 DEF BatchOp, OpRec, Kinds, Words
  <2>3. f \in OpRec /\ f.k = "finish" /\ f.s = s /\ f.ck = mark[s] /\ f.st = st
    BY <2>1 DEF FinishOp, OpRec, Kinds, Words, Settled
  <2>4. Settling(s, st) = queue \o (Rest(s) \o <<f>>)
    BY <1>3 DEF Settling, Sent
  <2>5. Rest(s) = IF flushed[s] < pos[s] THEN <<b>> ELSE <<>>
    BY DEF Rest
  <2>6. flushed[s] <= pos[s] /\ mark[s] <= pos[s]
        /\ \A j \in 1 .. flushed[s] : Held(queue, seen, s, Len(queue), j)
    BY <1>1, <1>3 DEF TaskShape, FlushedHeld
  <2> HIDE DEF b, f
  <2>7. b.lo <= b.hi + 1 /\ \A j \in 1 .. b.lo - 1 : Held(queue, seen, s, Len(queue), j)
    BY <2>1, <2>2, <2>6
  <2>10. OpVouches(b) \subseteq 1 .. b.hi /\ OpVouches(f) \subseteq 1 .. b.hi
    BY <2>1, <2>2, <2>3, <2>6 DEF OpVouches, Vouched
  <2>8. /\ Extends(queue, queue \o (<<b>> \o <<f>>), seen)
        /\ b.lo = b.hi + 1 => Extends(queue, queue \o (<<>> \o <<f>>), seen)
    BY <1>1, <2>2, <2>3, <2>7, <2>10, CoveredSettling
  <2>9. Extends(queue, Settling(s, st), seen)
    <3>1. CASE flushed[s] < pos[s]
      BY <2>4, <2>5, <2>8, <3>1
    <3>2. CASE ~(flushed[s] < pos[s])
      <4>1. b.lo = b.hi + 1 /\ Rest(s) = <<>>
        BY <2>1, <2>2, <2>5, <2>6, <3>2
      <4> QED BY <2>4, <2>8, <4>1
    <3> QED BY <3>1, <3>2
  <2> QED BY <2>9 DEF Extends
<1> QED BY <1>2, <1>3

\* Ending an attempt, whatever became of it.
LEMMA SettleStep ==
    ASSUME CoverInv, NEW s \in Sources, NEW st \in Settled, queue' = Settling(s, st),
           st = "succeeded" => pos[s] = Len(Inventory[s]),
           UNCHANGED <<dead, rows, seen, cursor>>, StatusShape', TaskShape', Clean',
           \A t \in Sources : flushed'[t] = flushed[t] \/ flushed'[t] = 0
    PROVE  CoverInv'
<1>1. /\ queue' \in Seq(OpRec) /\ OpsCovered(queue', seen)
      /\ ~dead => Extends(queue, queue', seen)
  BY SettlingCovered
<1>2. FlushedHeld'
  <2> SUFFICES ASSUME ~dead, NEW t \in Sources, NEW j \in 1 .. flushed'[t]
               PROVE  Held(queue', seen, t, Len(queue'), j)
    BY DEF FlushedHeld
  <2>1. flushed'[t] = flushed[t]
    OBVIOUS
  <2> QED BY <1>1, <2>1 DEF CoverInv, FlushedHeld, Extends
<1> QED BY <1>1, <1>2, QueueStep

\* The steps that end an attempt: the rest of the records, then its status.
LEMMA SettlingTarget ==
    \A s \in Sources :
        /\ CoverInv
        /\ \/ StreamEnds(s) \/ StreamFails(s) \/ DeadlineInStream(s) \/ StreamClosed(s)
           \/ StreamFailsTransient(s)
        => CoverInv'
<1> USE DEF memVars, wVars, dbVars, Runs
<1>1. ASSUME CoverInv, NEW s \in Sources, NEW st \in Settled, Settle(s, st),
             st = "succeeded" => pos[s] = Len(Inventory[s])
      PROVE  CoverInv'
  <2>1. TaskShape /\ Clean /\ StatusShape
    BY <1>1 DEF CoverInv
  <2>2. TaskShape'
    BY <1>1, <2>1 DEF Settle, Returns, Locals, TaskShape, Words
  <2>3. Clean'
    BY <1>1, <2>1 DEF Settle, Returns, Locals, TaskShape, Clean, Busy
  <2>4. queue' = Settling(s, st) /\ StatusShape' /\ UNCHANGED <<dead, rows, seen, cursor>>
        /\ \A t \in Sources : flushed'[t] = flushed[t] \/ flushed'[t] = 0
    BY <1>1, <2>1 DEF Settle, Returns, Locals, TaskShape, StatusShape
  <2> QED BY <1>1, <2>2, <2>3, <2>4, SettleStep
<1>2. ASSUME CoverInv, NEW s \in Sources, StreamFailsTransient(s) PROVE CoverInv'
  <2>1. TaskShape /\ Clean /\ StatusShape
    BY <1>2 DEF CoverInv
  <2>2. TaskShape'
    BY <1>2, <2>1 DEF StreamFailsTransient, Locals, TaskShape, Words
  <2>3. Clean'
    BY <1>2, <2>1 DEF StreamFailsTransient, Locals, TaskShape, Clean, Busy
  <2>4. /\ queue' = Settling(s, "failed") /\ StatusShape'
        /\ UNCHANGED <<dead, rows, seen, cursor>>
        /\ \A t \in Sources : flushed'[t] = flushed[t] \/ flushed'[t] = 0
    BY <1>2, <2>1 DEF StreamFailsTransient, Locals, TaskShape, StatusShape
  <2>5. "failed" \in Settled
    BY DEF Settled
  <2> QED BY <1>2, <2>2, <2>3, <2>4, <2>5, SettleStep
<1>3. ASSUME CoverInv, NEW s \in Sources, StreamClosed(s) PROVE CoverInv'
  <2>1. ending[s] \in Settled /\ ending[s] # "succeeded"
    BY <1>3 DEF StreamClosed, CoverInv, Clean, Settled
  <2> QED BY <1>1, <1>3, <2>1 DEF StreamClosed
<1>4. "succeeded" \in Settled /\ "failed" \in Settled /\ "timeout" \in Settled
  BY DEF Settled
<1>5. \A s \in Sources : StreamEnds(s) \/ StreamFails(s) \/ DeadlineInStream(s)
            => \E st \in Settled : /\ Settle(s, st)
                                   /\ st = "succeeded" => pos[s] = Len(Inventory[s])
  BY <1>4 DEF StreamEnds, StreamFails, DeadlineInStream
<1> QED BY <1>1, <1>2, <1>3, <1>5

\* An operation that carries no checkpoint, behind what was sent.
LEMMA PlainSent ==
    ASSUME CoverInv, NEW o \in OpRec, o.k \notin {"batch", "finish"}
    PROVE  Extends(queue, Append(queue, o), seen) /\ Append(queue, o) = queue \o <<o>>
  BY CoveredAppend, AppendIsConcat DEF CoverInv, QueueShape, Extends

\* A cancelled target settles its attempt, or leaves an unattempted row.
LEMMA CancelledTarget ==
    ASSUME CoverInv, NEW s \in Sources, Cancelled(s)
    PROVE  CoverInv'
<1> USE DEF memVars, wVars, dbVars
<1>1. TaskShape /\ Clean /\ StatusShape
  BY DEF CoverInv
<1>2. TaskShape'
  BY <1>1 DEF Cancelled, Returns, Locals, TaskShape, Words
<1>3. Clean'
  BY <1>1 DEF Cancelled, Returns, Locals, TaskShape, Clean, Busy
<1>4. /\ StatusShape' /\ UNCHANGED <<dead, rows, seen, cursor>>
      /\ \A t \in Sources : flushed'[t] = flushed[t] \/ flushed'[t] = 0
  BY <1>1 DEF Cancelled, Returns, Locals, TaskShape, StatusShape
<1>5. CASE task[s] \in {"stream", "submit"}
  <2>1. queue' = Settling(s, "cancelled") /\ "cancelled" \in Settled
    BY <1>5 DEF Cancelled, SettlingCancelled, Settled
  <2> QED BY <1>2, <1>3, <1>4, <2>1, SettleStep
<1>6. CASE queue' = queue
  BY <1>2, <1>3, <1>4, <1>6, QuietStep
<1>7. CASE queue' = Sent(<<UnattemptedOp(s)>>) /\ ~dead
  <2> DEFINE o == UnattemptedOp(s)
  <2>1. o \in OpRec /\ o.k \notin {"batch", "finish"}
    BY DEF UnattemptedOp, Op, OpRec, Kinds, Words
  <2>2. Extends(queue, queue', seen)
    BY <1>7, <2>1, PlainSent DEF Sent
  <2>3. FlushedHeld'
    <3> SUFFICES ASSUME NEW t \in Sources, NEW j \in 1 .. flushed'[t]
                 PROVE  Held(queue', seen, t, Len(queue'), j)
      BY <1>4 DEF FlushedHeld
    <3>1. flushed'[t] = flushed[t]
      BY <1>4
    <3> QED BY <1>7, <2>2, <3>1 DEF CoverInv, FlushedHeld, Extends
  <2> QED BY <1>2, <1>3, <1>4, <2>2, <2>3, QueueStep DEF Extends
<1> QED BY <1>5, <1>6, <1>7 DEF Cancelled, Sent

\* An attempt begins behind its checkpoint, which the table covers.
LEMMA BeginningTarget ==
    ASSUME CoverInv, ~MayOvertake, NEW s \in Sources, AttemptBegins(s)
    PROVE  CoverInv'
<1> USE DEF memVars, wVars, dbVars, Runs
<1>1. TaskShape /\ Clean /\ StatusShape
  BY DEF CoverInv
<1>2. StartPosition(s) \in Nat
  BY <1>1 DEF StartPosition, TaskShape
<1>3. TaskShape'
  BY <1>1, <1>2 DEF AttemptBegins, Locals, TaskShape, Words
<1>4. Clean'
  BY <1>1, <1>2 DEF AttemptBegins, Locals, TaskShape, Clean, Busy
<1>5. StatusShape' /\ UNCHANGED <<dead, rows, seen, cursor>> /\ ~dead
  BY <1>1 DEF AttemptBegins, StatusShape
<1> DEFINE o == CreateOp(s, offset[s] + index[s] + 1)
<1>6. o \in OpRec /\ o.k \notin {"batch", "finish"}
  BY <1>1 DEF TaskShape, CreateOp, Op, OpRec, Kinds, Words
<1>7. queue' = Append(queue, o)
  BY DEF AttemptBegins, Room, MayBarge, Landed
<1>8. Extends(queue, queue', seen)
  BY <1>6, <1>7, PlainSent
<1>9. FlushedHeld'
  <2> SUFFICES ASSUME NEW t \in Sources, NEW j \in 1 .. flushed'[t]
               PROVE  Held(queue', seen, t, Len(queue'), j)
    BY <1>5 DEF FlushedHeld
  <2>1. CASE t = s
    <3>1. flushed'[t] = StartPosition(s)
      BY <1>1, <2>1 DEF AttemptBegins, Locals, TaskShape
    <3>2. j \in 1 .. cursor[s]
      BY <1>1, <3>1 DEF StartPosition, TaskShape
    <3> QED BY <2>1, <3>2 DEF CoverInv, CursorCovered, Held
  <2>2. CASE t # s
    <3>1. flushed'[t] = flushed[t]
      BY <1>1, <2>2 DEF AttemptBegins, Locals, TaskShape
    <3> QED BY <1>5, <1>8, <3>1 DEF CoverInv, FlushedHeld, Extends
  <2> QED BY <2>1, <2>2
<1> QED BY <1>3, <1>4, <1>5, <1>8, <1>9, QueueStep DEF Extends

\* A batch delivers what its checkpoint adds to what was handed over.
LEMMA LandingTarget ==
    ASSUME CoverInv, ~MayOvertake, NEW s \in Sources, BatchLands(s)
    PROVE  CoverInv'
<1> USE DEF memVars, wVars, dbVars, Runs
<1>1. TaskShape /\ Clean /\ StatusShape /\ queue \in Seq(OpRec) /\ OpsCovered(queue, seen)
  BY DEF CoverInv, QueueShape
<1>2. TaskShape'
  BY <1>1 DEF BatchLands, TaskShape
<1>3. Clean'
  BY <1>1 DEF BatchLands, TaskShape, Clean, Busy
<1>4. StatusShape' /\ UNCHANGED <<dead, rows, seen, cursor>> /\ ~dead
  BY <1>1 DEF BatchLands, StatusShape
<1> DEFINE b == BatchOp(s, Attempt(s), FALSE)
<1>5. flushed[s] \in Int /\ pos[s] \in Int /\ mark[s] \in Int /\ Attempt(s) \in Int
      /\ mark[s] <= pos[s]
  BY <1>1 DEF TaskShape, Attempt
<1>6. b \in OpRec /\ b.k = "batch" /\ b.s = s /\ b.lo = flushed[s] + 1
      /\ b.hi = pos[s] /\ b.ck = mark[s] /\ b.st = "none"
  BY <1>5 DEF BatchOp, OpRec, Kinds, Words
<1>7. queue' = Append(queue, b)
  BY DEF BatchLands, Room, MayBarge, Landed
<1> HIDE DEF b
<1>8. \A j \in 1 .. pos[s] : Held(queue, seen, s, Len(queue), j) \/ Delivers(b, s, j)
  <2>1. \A j \in 1 .. flushed[s] : Held(queue, seen, s, Len(queue), j)
    BY <1>4 DEF CoverInv, FlushedHeld
  <2> QED BY <1>5, <1>6, <2>1 DEF Delivers
<1>9. /\ Extends(queue, queue', seen)
      /\ \A t, j : Delivers(b, t, j) => Held(queue', seen, t, Len(queue'), j)
  <2>1. \A j \in OpVouches(b) :
            Held(queue, seen, b.s, Len(queue), j) \/ Delivers(b, b.s, j)
    BY <1>5, <1>6, <1>8 DEF OpVouches, Vouched
  <2> QED BY <1>1, <1>6, <1>7, <2>1, CoveredAppend DEF Extends
<1>10. FlushedHeld'
  <2> SUFFICES ASSUME NEW t \in Sources, NEW j \in 1 .. flushed'[t]
               PROVE  Held(queue', seen, t, Len(queue'), j)
    BY <1>4 DEF FlushedHeld
  <2>1. CASE t = s
    <3>1. flushed'[t] = pos[s]
      BY <1>1, <2>1 DEF BatchLands, TaskShape
    <3> QED BY <1>8, <1>9, <2>1, <3>1 DEF Extends
  <2>2. CASE t # s
    <3>1. flushed'[t] = flushed[t]
      BY <1>1, <2>2 DEF BatchLands, TaskShape
    <3> QED BY <1>4, <1>9, <3>1 DEF CoverInv, FlushedHeld, Extends
  <2> QED BY <2>1, <2>2
<1> QED BY <1>2, <1>3, <1>4, <1>9, <1>10, QueueStep DEF Extends

\* Recovering orphans touches no checkpoint.
LEMMA RecoveredRows ==
    ASSUME NEW rs \in [Sources -> [AttemptNos -> Row]]
    PROVE  /\ RowsAfterRecovery(rs) \in [Sources -> [AttemptNos -> Row]]
           /\ \A s \in Sources, n \in AttemptNos :
                /\ RowsAfterRecovery(rs)[s][n].ck = rs[s][n].ck
                /\ \A sn : RowCovered(rs[s][n], s, sn) =>
                              RowCovered(RowsAfterRecovery(rs)[s][n], s, sn)
                /\ rs[s][n].st = "succeeded" => RowsAfterRecovery(rs)[s][n] = rs[s][n]
<1>1. ASSUME NEW r \in Row
      PROVE  [r EXCEPT !.st = "interrupted"] \in Row
             /\ [r EXCEPT !.st = "interrupted"].ck = r.ck
             /\ [r EXCEPT !.st = "interrupted"].st = "interrupted"
  BY DEF Row, Words
<1>2. \A s \in Sources, n \in AttemptNos :
          /\ RowsAfterRecovery(rs)[s][n] \in Row
          /\ RowsAfterRecovery(rs)[s][n].ck = rs[s][n].ck
          /\ \/ RowsAfterRecovery(rs)[s][n] = rs[s][n]
             \/ /\ rs[s][n].st = "running"
                /\ RowsAfterRecovery(rs)[s][n].st = "interrupted"
  BY <1>1 DEF RowsAfterRecovery
<1>3. \A sn : \A s \in Sources, n \in AttemptNos :
          RowCovered(rs[s][n], s, sn) => RowCovered(RowsAfterRecovery(rs)[s][n], s, sn)
  BY <1>2 DEF RowCovered, Vouched
<1>4. RowsAfterRecovery(rs) \in [Sources -> [AttemptNos -> Row]]
  BY <1>2 DEF RowsAfterRecovery
<1> QED BY <1>2, <1>3, <1>4

\* The steps of the run that submit nothing.
LEMMA QuietRun ==
    /\ CoverInv
    /\ \/ \E again \in BOOLEAN : Start(again)
       \/ RecoverOrphans \/ Gathered \/ Closes \/ Cancel
    => CoverInv'
<1> USE DEF memVars, taskVars, wVars, dbVars
<1>1. ASSUME CoverInv, NEW again \in BOOLEAN, Start(again) PROVE CoverInv'
  <2>1. StatusShape' /\ TaskShape' /\ Clean'
    BY <1>1 DEF CoverInv, Start, StatusShape, TaskShape, Clean, Busy, Live
  <2> QED BY <1>1, <2>1, QuietStep DEF Start
<1>2. ASSUME CoverInv, RecoverOrphans PROVE CoverInv'
  <2>1. /\ QueueShape' /\ StatusShape' /\ TaskShape' /\ Clean'
        /\ OpsCovered(queue, seen)' /\ FlushedHeld' /\ CursorCovered'
    BY <1>2 DEF CoverInv, RecoverOrphans, QueueShape, StatusShape, TaskShape, Clean,
                FlushedHeld, CursorCovered
  <2>2. RowShape' /\ RowsCovered'
    BY <1>2, RecoveredRows DEF CoverInv, RecoverOrphans, dbVars, RowShape, RowsCovered
  <2> QED BY <2>1, <2>2 DEF CoverInv
<1>3. ASSUME CoverInv, Gathered PROVE CoverInv'
  <2>1. StatusShape'
    BY <1>3 DEF Gathered, Decided, StatusShape, Words
  <2>2. TaskShape' /\ Clean'
    BY <1>3 DEF CoverInv, Gathered, TaskShape, Clean, Busy
  <2> QED BY <1>3, <2>1, <2>2, QuietStep DEF Gathered
<1>4. ASSUME CoverInv, Closes PROVE CoverInv'
  <2>1. StatusShape' /\ TaskShape' /\ Clean'
    BY <1>4 DEF CoverInv, Closes, StatusShape, TaskShape, Clean, Busy
  <2> QED BY <1>4, <2>1, QuietStep DEF Closes
<1>5. ASSUME CoverInv, Cancel PROVE CoverInv'
  <2>1. StatusShape' /\ TaskShape' /\ Clean'
    BY <1>5 DEF CoverInv, Cancel, StatusShape, TaskShape, Clean, Busy
  <2> QED BY <1>5, <2>1, QuietStep DEF Cancel
<1> QED BY <1>1, <1>2, <1>3, <1>4, <1>5

\* A process death loses what was in hands and in the queue, not the tables.
LEMMA CrashStep ==
    ASSUME CoverInv, Crash PROVE CoverInv'
<1> USE DEF dbVars
<1>1. queue' \in Seq(OpRec) /\ Len(queue') = 0
  BY DEF Crash
<1>2. StatusShape' /\ RowShape'
  BY DEF CoverInv, Crash, StatusShape, RowShape, Words
<1>3. TaskShape'
  BY DEF Crash, TaskShape, Words
<1>4. Clean'
  BY DEF Crash, Clean, Busy
<1>5. FlushedHeld' /\ OpsCovered(queue, seen)'
  BY <1>1 DEF Crash, FlushedHeld, OpsCovered
<1>6. CursorCovered' /\ RowsCovered'
  BY DEF CoverInv, Crash, CursorCovered, RowsCovered
<1> QED BY <1>1, <1>2, <1>3, <1>4, <1>5, <1>6 DEF CoverInv, QueueShape

\* A resume reads its starting points from rows that are covered.
LEMMA PreflightStep ==
    ASSUME CoverInv, NEW nd, Preflight(nd) PROVE CoverInv'
<1> USE DEF dbVars, wVars, taskVars
<1>1. RowShape' /\ RowsCovered' /\ StatusShape'
  BY RecoveredRows DEF CoverInv, Preflight, RowShape, RowsCovered, StatusShape
<1>2. CASE run' = "over"
  <2>1. /\ UNCHANGED <<taskVars, wVars, seen>>
    BY <1>2 DEF Preflight
  <2>2. /\ QueueShape' /\ TaskShape' /\ Clean'
        /\ OpsCovered(queue, seen)' /\ FlushedHeld' /\ CursorCovered'
    BY <2>1 DEF Preflight, CoverInv, QueueShape, TaskShape, Clean, FlushedHeld, CursorCovered
  <2> QED BY <1>1, <2>2 DEF CoverInv
<1>3. CASE run' # "over"
  <2>0. queue' = <<>>
    BY <1>3 DEF Preflight
  <2>1. queue' \in Seq(OpRec) /\ Len(queue') = 0
    BY <2>0
  <2>2. \A s \in Sources : flushed[s] = 0 /\ task[s] = "done"
    BY DEF Preflight, CoverInv, Clean, Busy
  <2>3. \A s \in Sources : LatestCheckpoint(s) > 0 =>
            /\ LatestCheckpoint(s) \in Int
            /\ \A j \in 1 .. LatestCheckpoint(s) : Inventory[s][j] \in seen
    <3> SUFFICES ASSUME NEW s \in Sources, LatestCheckpoint(s) > 0
                 PROVE  /\ LatestCheckpoint(s) \in Int
                        /\ \A j \in 1 .. LatestCheckpoint(s) : Inventory[s][j] \in seen
      OBVIOUS
    <3> DEFINE N == {n \in AttemptNos : rows[s][n].ck >= 0}
               m == CHOOSE n \in N : \A j \in N : j <= n
    <3>1. N \in SUBSET AttemptNos
      OBVIOUS
    <3>2. LatestCheckpoint(s) = IF N = {} THEN 0 ELSE rows[s][m].ck
      BY DEF LatestCheckpoint
    <3>3. N # {} => m \in AttemptNos
      <4> HIDE DEF N
      <4> QED BY <3>1, AttemptNumbers
    <3> HIDE DEF N, m
    <3>4. m \in AttemptNos /\ LatestCheckpoint(s) = rows[s][m].ck
      BY <3>2, <3>3
    <3> QED BY <3>4 DEF CoverInv, RowShape, Row, RowsCovered, RowCovered, Vouched
  <2>4. \A s \in Sources : cursor'[s] \in Nat /\
            \A j \in 1 .. cursor'[s] : Inventory[s][j] \in seen
    BY <1>3, <2>3 DEF Preflight
  <2>5. \A s \in Sources : MaxAttempt(s) \in Int
    <3> SUFFICES ASSUME NEW s \in Sources PROVE MaxAttempt(s) \in Int
      OBVIOUS
    <3>1. Attempts(s) \in SUBSET AttemptNos
      BY DEF Attempts
    <3>2. Attempts(s) # {} =>
              (CHOOSE n \in Attempts(s) : \A j \in Attempts(s) : j <= n) \in Attempts(s)
      BY <3>1, AttemptNumbers, Zenon
    <3>3. CASE Attempts(s) = {}
      BY <3>3 DEF MaxAttempt
    <3>4. CASE Attempts(s) # {}
      <4>1. MaxAttempt(s) \in Attempts(s)
        BY <3>2, <3>4, Zenon DEF MaxAttempt
      <4> QED BY <3>1, <4>1, AttemptNumbers
    <3> QED BY <3>3, <3>4
  <2>6. TaskShape'
    <3>1. cursor' \in [Sources -> Nat]
      BY <1>3, <2>4 DEF Preflight
    <3> QED BY <1>3, <2>5, <3>1 DEF Preflight, CoverInv, TaskShape
  <2>7. Clean' /\ FlushedHeld'
    BY <1>3, <2>2 DEF Preflight, CoverInv, Clean, FlushedHeld
  <2>8. CursorCovered' /\ OpsCovered(queue, seen)'
    BY <1>3, <2>1, <2>4 DEF Preflight, CursorCovered, OpsCovered
  <2> QED BY <1>1, <2>1, <2>6, <2>7, <2>8 DEF CoverInv, QueueShape
<1> QED BY <1>2, <1>3

\* The run begins with operations that carry no checkpoint.
LEMMA LaunchStep ==
    ASSUME CoverInv, Launch PROVE CoverInv'
<1> USE DEF dbVars
<1>1. queue \in Seq(OpRec) /\ OpsCovered(queue, seen) /\ TaskShape /\ Clean /\ StatusShape
  BY DEF CoverInv, QueueShape
<1>2. \A s \in Sources : flushed[s] = 0 /\ pos[s] = 0
  BY <1>1 DEF Launch, Clean, Busy
<1>3. TaskShape' /\ StatusShape'
  BY <1>1 DEF Launch, TaskShape, StatusShape
<1>4. Clean'
  BY <1>1, <1>2 DEF Launch, Clean, Busy
<1>5. FlushedHeld' /\ UNCHANGED <<rows, seen, cursor>>
  BY <1>1, <1>2 DEF Launch, FlushedHeld
<1>6. queue' \in Seq(OpRec) /\ OpsCovered(queue', seen)
  <2> DEFINE I == {i \in 1 .. Len(Plan) : cancelled /\ Plan[i] \notin Skipped}
  <2>1. PICK never \in InPlanOrder(I) :
            queue' = Sent(<<StartRunOp>>
                            \o [i \in 1 .. Len(never) |-> UnattemptedOp(Plan[never[i]])])
    BY DEF Launch
  <2>2. PICK n \in 0 .. Len(Plan) : never \in [1 .. n -> I]
    BY DEF InPlanOrder
  <2>3. n \in Nat /\ never \in Seq(I) /\ Len(never) = n
    <3>1. n \in Nat
      BY SchedulerAssumption
    <3> QED BY <2>2, <3>1
  <2> DEFINE r == [i \in 1 .. n |-> UnattemptedOp(Plan[never[i]])]
  <2>4. \A i \in 1 .. n : r[i] \in OpRec /\ r[i].k = "unattempted"
    <3>1. \A i \in 1 .. n : Plan[never[i]] \in Sources
      BY <2>2 DEF Sources
    <3> QED BY <3>1 DEF UnattemptedOp, Op, OpRec, Kinds, Words
  <2>5. r \in Seq(OpRec) /\ Len(r) = n
    BY <2>3, <2>4
  <2>6. StartRunOp \in OpRec /\ StartRunOp.k = "start"
    BY DEF StartRunOp, Op, OpRec, Kinds, Words
  <2>7. queue' = IF dead THEN queue ELSE queue \o (<<StartRunOp>> \o r)
    BY <2>1, <2>3 DEF Sent
  <2> HIDE DEF r
  <2> DEFINE ops == <<StartRunOp>> \o r
  <2>8. /\ ops \in Seq(OpRec)
        /\ \A i \in 1 .. Len(ops) : ops[i].k \notin {"batch", "finish"}
    <3>1. <<StartRunOp>> \in Seq(OpRec) /\ Len(<<StartRunOp>>) = 1
          /\ <<StartRunOp>>[1] = StartRunOp
      BY <2>6
    <3>2. /\ ops \in Seq(OpRec) /\ Len(ops) = 1 + n
          /\ \A i \in 1 .. 1 + n : ops[i] = IF i <= 1 THEN <<StartRunOp>>[i] ELSE r[i - 1]
      BY <2>5, <3>1, ConcatProperties
    <3> QED BY <2>3, <2>4, <2>6, <3>1, <3>2, SMTT(60)
  <2> HIDE DEF ops
  <2>9. queue \o ops \in Seq(OpRec) /\ OpsCovered(queue \o ops, seen)
    BY <1>1, <2>8, CoveredConcat
  <2> QED BY <1>1, <2>7, <2>9 DEF ops
<1> QED BY <1>3, <1>4, <1>5, <1>6, QueueStep

\* The end of the run: no target has anything in its hands any more.
LEMMA EndingRun ==
    /\ CoverInv
    /\ \/ Drained \/ \E n \in 0 .. Len(queue) : DrainTimesOut(n)
       \/ FinishRun \/ CloseTimesOut
    => CoverInv'
<1> USE DEF taskVars, wVars, dbVars
<1>1. ASSUME CoverInv, run \notin {"gather"}, run' # "gather",
             UNCHANGED <<taskVars, rows, seen>>, StatusShape',
             queue' \in Seq(OpRec), OpsCovered(queue', seen)
      PROVE  CoverInv'
  <2>1. TaskShape'
    BY <1>1 DEF CoverInv, TaskShape
  <2>2. Clean'
    BY <1>1 DEF CoverInv, Clean
  <2>3. FlushedHeld'
    BY <1>1 DEF CoverInv, Clean, Busy, FlushedHeld
  <2> QED BY <1>1, <2>1, <2>2, <2>3, QueueStep
<1>2. ASSUME CoverInv, run = "drain", NEW q \in Seq(OpRec), OpsCovered(q, seen), AfterDrain(q)
      PROVE  CoverInv'
  <2>1. PresenceOp \in OpRec /\ PresenceOp.k \notin {"batch", "finish"}
    BY DEF PresenceOp, Op, OpRec, Kinds, Words
  <2>2. Append(q, PresenceOp) \in Seq(OpRec) /\ OpsCovered(Append(q, PresenceOp), seen)
    BY <1>2, <2>1, CoveredAppend
  <2>3. queue' \in Seq(OpRec) /\ OpsCovered(queue', seen)
    BY <1>2, <2>2 DEF AfterDrain
  <2>4. StatusShape'
    BY <1>2 DEF CoverInv, AfterDrain, FinalStatus, StatusShape, Words
  <2> QED BY <1>1, <1>2, <2>3, <2>4 DEF AfterDrain
<1>3. ASSUME CoverInv, Drained PROVE CoverInv'
  BY <1>2, <1>3 DEF CoverInv, QueueShape, Drained
<1>4. ASSUME CoverInv, NEW n \in 0 .. Len(queue), DrainTimesOut(n) PROVE CoverInv'
  <2>1. SubSeq(queue, 1, n) \in Seq(OpRec) /\ OpsCovered(SubSeq(queue, 1, n), seen)
    BY <1>4, CoveredPrefix DEF CoverInv, QueueShape
  <2> QED BY <1>2, <1>4, <2>1 DEF DrainTimesOut
<1>5. ASSUME CoverInv, FinishRun PROVE CoverInv'
  <2> DEFINE o == FinishRunOp(status)
  <2>1. o \in OpRec /\ o.k \notin {"batch", "finish"}
    BY <1>5 DEF CoverInv, StatusShape, FinishRunOp, Op, OpRec, Kinds
  <2>2. queue' = queue \/ queue' = Append(queue, o)
    BY <1>5, <2>1, PlainSent DEF FinishRun, Sent
  <2>3. queue' \in Seq(OpRec) /\ OpsCovered(queue', seen)
    BY <1>5, <2>1, <2>2, PlainSent DEF CoverInv, QueueShape, Extends
  <2>4. StatusShape'
    BY <1>5 DEF CoverInv, FinishRun, StatusShape
  <2> QED BY <1>1, <1>5, <2>3, <2>4 DEF FinishRun
<1>6. ASSUME CoverInv, CloseTimesOut PROVE CoverInv'
  <2>1. queue' = <<>>
    BY <1>6 DEF CloseTimesOut
  <2>2. queue' \in Seq(OpRec) /\ OpsCovered(queue', seen)
    BY <2>1 DEF OpsCovered
  <2>3. StatusShape'
    BY <1>6 DEF CoverInv, CloseTimesOut, StatusShape
  <2> QED BY <1>1, <1>6, <2>2, <2>3 DEF CloseTimesOut
<1> QED BY <1>3, <1>4, <1>5, <1>6

\* A dead writer drops the queue; nothing is held to be on its way any more.
LEMMA FailingWriter ==
    ASSUME CoverInv, WriterFails PROVE CoverInv'
<1> USE DEF memVars, taskVars, dbVars
<1>1. queue' = <<>> /\ dead'
  BY DEF WriterFails
<1>2. queue' \in Seq(OpRec) /\ OpsCovered(queue', seen) /\ FlushedHeld'
  BY <1>1 DEF OpsCovered, FlushedHeld
<1>3. StatusShape' /\ TaskShape' /\ Clean' /\ UNCHANGED <<rows, seen, cursor>>
  BY DEF CoverInv, WriterFails, StatusShape, TaskShape, Clean
<1> QED BY <1>2, <1>3, QueueStep

\* A commit moves records and checkpoints into the tables together.
LEMMA CommittingWriter ==
    ASSUME CoverInv, WriterCommits PROVE CoverInv'
<1> USE DEF memVars, taskVars
<1> DEFINE o == Head(queue)
<1>1. queue \in Seq(OpRec) /\ queue # <<>> /\ OpsCovered(queue, seen) /\ RowShape
  BY DEF CoverInv, QueueShape, WriterCommits
<1>2. o \in OpRec /\ o = queue[1] /\ 1 \in 1 .. Len(queue)
  BY <1>1, HeadTailProperties, LenProperties, EmptySeq
<1>3. /\ queue' = Tail(queue)
      /\ rows' = IF o.k = "create" THEN [rows EXCEPT ![o.s][o.a] = [st |-> "running", ck |-> -1]]
                 ELSE IF o.k = "batch" THEN [rows EXCEPT ![o.s][o.a] = Progress(@, o)]
                 ELSE IF o.k = "finish" THEN [rows EXCEPT ![o.s][o.a] = FinishRow(@, o)]
                 ELSE rows
      /\ seen' = IF o.k = "batch" THEN seen \cup Board(o.s, o.lo, o.hi) ELSE seen
  BY DEF WriterCommits, Commit
<1>4. StatusShape' /\ TaskShape' /\ Clean' /\ UNCHANGED <<dead, cursor, flushed>>
  BY DEF CoverInv, WriterCommits, StatusShape, TaskShape, Clean
<1> HIDE DEF o
<1>5. seen \subseteq seen'
  BY <1>3
<1>6. \A s : \A j \in Int : Delivers(o, s, j) => Inventory[s][j] \in seen'
  <2> SUFFICES ASSUME NEW s, NEW j \in Int, Delivers(o, s, j)
               PROVE  Inventory[s][j] \in seen'
    OBVIOUS
  <2>1. o.k = "batch" /\ o.s = s /\ o.lo \in Int /\ o.hi \in Int /\ j \in o.lo .. o.hi
    BY <1>2 DEF Delivers, OpRec
  <2> QED BY <1>3, <2>1 DEF Board
<1>7. /\ Tail(queue) \in Seq(OpRec) /\ OpsCovered(Tail(queue), seen')
      /\ \A s : \A j \in Int : Held(queue, seen, s, Len(queue), j) =>
             Held(Tail(queue), seen', s, Len(Tail(queue)), j)
  BY <1>1, <1>5, <1>6, CoveredTail DEF o
<1>8. QueueShape' /\ OpsCovered(queue, seen)'
  BY <1>3, <1>7 DEF QueueShape
<1>9. FlushedHeld'
  <2> SUFFICES ASSUME ~dead, NEW s \in Sources, NEW j \in 1 .. flushed[s]
               PROVE  Held(queue', seen', s, Len(queue'), j)
    BY <1>4 DEF FlushedHeld
  <2>1. j \in Int /\ Held(queue, seen, s, Len(queue), j)
    BY DEF CoverInv, FlushedHeld
  <2> QED BY <1>3, <1>7, <2>1
<1>10. CursorCovered'
  BY <1>4, <1>5 DEF CoverInv, CursorCovered
<1>11. \A s \in Sources, n \in AttemptNos :
           rows[s][n] \in Row /\ RowCovered(rows[s][n], s, seen')
  BY <1>5 DEF CoverInv, RowShape, RowsCovered, RowCovered
<1>12. o.k \in {"batch", "finish"} =>
           o.s \in Sources /\ \A j \in OpVouches(o) : Inventory[o.s][j] \in seen'
  <2> SUFFICES ASSUME o.k \in {"batch", "finish"}
               PROVE  o.s \in Sources /\ \A j \in OpVouches(o) : Inventory[o.s][j] \in seen'
    OBVIOUS
  <2>1. o.s \in Sources /\ \A j \in OpVouches(o) : Held(queue, seen, o.s, 1, j)
    BY <1>1, <1>2 DEF OpsCovered
  <2>2. ASSUME NEW j \in OpVouches(o) PROVE Inventory[o.s][j] \in seen'
    <3>1. Inventory[o.s][j] \in seen \/ Delivers(o, o.s, j)
      BY <1>2, <2>1 DEF Held
    <3>2. j \in Int
      BY <1>2, <2>1, VouchedIntegers
    <3> QED BY <1>5, <1>6, <3>1, <3>2
  <2> QED BY <2>1, <2>2
<1>13. \A s \in Sources, n \in AttemptNos :
           rows'[s][n] \in Row /\ RowCovered(rows'[s][n], s, seen')
  <2> SUFFICES ASSUME NEW s \in Sources, NEW n \in AttemptNos
               PROVE  rows'[s][n] \in Row /\ RowCovered(rows'[s][n], s, seen')
    OBVIOUS
  <2> DEFINE r == rows[s][n]
  <2>1. rows \in [Sources -> [AttemptNos -> Row]]
    BY <1>1 DEF RowShape
  <2>2. \/ rows'[s][n] = r
        \/ o.k = "create" /\ rows'[s][n] = [st |-> "running", ck |-> -1]
        \/ o.k = "batch" /\ o.s = s /\ rows'[s][n] = Progress(r, o)
        \/ o.k = "finish" /\ o.s = s /\ rows'[s][n] = FinishRow(r, o)
    BY <1>3, <2>1
  <2>3. r \in Row /\ RowCovered(r, s, seen')
    BY <1>11
  <2>4. [st |-> "running", ck |-> -1] \in Row
        /\ RowCovered([st |-> "running", ck |-> -1], s, seen')
    BY DEF Row, Words, RowCovered, Vouched
  <2>5. o.k \in {"batch", "finish"} /\ o.s = s =>
            /\ Progress(r, o) \in Row /\ RowCovered(Progress(r, o), s, seen')
            /\ FinishRow(r, o) \in Row /\ RowCovered(FinishRow(r, o), s, seen')
    <3> HIDE DEF r
    <3> QED BY <1>2, <1>12, <2>3, RowUpdates
  <2> HIDE DEF r
  <2> QED BY <2>2, <2>3, <2>4, <2>5
<1>14. RowShape'
  <2>1. rows \in [Sources -> [AttemptNos -> Row]]
    BY <1>1 DEF RowShape
  <2>2. /\ DOMAIN rows' = Sources
        /\ rows' = [s \in Sources |-> rows'[s]]
        /\ \A s \in Sources : rows'[s] = [n \in AttemptNos |-> rows'[s][n]]
    BY <1>3, <2>1
  <2> QED BY <1>13, <2>2 DEF RowShape
<1>15. RowsCovered'
  BY <1>13 DEF RowsCovered
<1> QED BY <1>4, <1>8, <1>9, <1>10, <1>14, <1>15 DEF CoverInv

-----------------------------------------------------------------------------
(* Theorems: for every plan, every board, any number of attempts and        *)
(* resumes, on a queue that keeps the order of submission                    *)

\* Every step keeps the invariant.
LEMMA CoverInvHolds ==
    ASSUME ~MayOvertake
    PROVE  CoverInv /\ [Next]_vars => CoverInv'
<1> SUFFICES ASSUME CoverInv, [Next]_vars PROVE CoverInv'
  OBVIOUS
<1>1. CASE UNCHANGED vars
  <2>1. StatusShape' /\ TaskShape' /\ Clean'
    BY <1>1 DEF CoverInv, vars, memVars, taskVars, StatusShape, TaskShape, Clean
  <2> QED BY <1>1, <2>1, QuietStep DEF vars, taskVars, wVars, dbVars
<1>2. CASE \E s \in Sources : TargetStep(s)
  BY <1>2, QuietTarget, SettlingTarget, CancelledTarget, BeginningTarget, LandingTarget
     DEF TargetStep
<1>3. CASE RunStep
  BY <1>3, QuietRun, PreflightStep, LaunchStep, EndingRun DEF RunStep
<1>4. CASE WriterCommits \/ WriterFails
  BY <1>4, CommittingWriter, FailingWriter
<1>5. CASE (\E again \in BOOLEAN : Start(again)) \/ RecoverOrphans \/ Cancel \/ Crash
  BY <1>5, QuietRun, CrashStep
<1> QED BY <1>1, <1>2, <1>3, <1>4, <1>5 DEF Next

\* A checkpoint in source_runs covers only records that run_postings has.
THEOREM CheckpointsCovered ==
    ASSUME ~MayOvertake
    PROVE  Spec => []CheckpointCovered
<1>1. CoverInv => CheckpointCovered
  BY DEF CoverInv, RowsCovered, RowCovered, Vouched, CheckpointCovered
<1> QED BY <1>1, InitHolds, CoverInvHolds, PTL DEF Spec

\* A source with a succeeded attempt keeps it.
LEMMA LicencesKept ==
    ASSUME CoverInv, [Next]_vars
    PROVE  \A s \in Sources, n \in AttemptNos :
               rows[s][n].st = "succeeded" => rows'[s][n].st = "succeeded"
<1> SUFFICES ASSUME NEW s \in Sources, NEW n \in AttemptNos, rows[s][n].st = "succeeded"
             PROVE  rows'[s][n].st = "succeeded"
  OBVIOUS
<1>0. rows \in [Sources -> [AttemptNos -> Row]]
  BY DEF CoverInv, RowShape
<1>1. CASE rows' = rows
  BY <1>1
<1>2. CASE rows' = RowsAfterRecovery(rows)
  BY <1>0, <1>2, RecoveredRows
<1>3. CASE WriterCommits
  <2> DEFINE o == Head(queue)
  <2>1. /\ ~Violates(o)
        /\ rows' = IF o.k = "create"
                   THEN [rows EXCEPT ![o.s][o.a] = [st |-> "running", ck |-> -1]]
                   ELSE IF o.k = "batch" THEN [rows EXCEPT ![o.s][o.a] = Progress(@, o)]
                   ELSE IF o.k = "finish" THEN [rows EXCEPT ![o.s][o.a] = FinishRow(@, o)]
                   ELSE rows
    BY <1>3 DEF WriterCommits, Commit
  <2> HIDE DEF o
  <2>2. o.k = "create" => ~(o.s = s /\ o.a = n)
    BY <2>1 DEF Violates
  <2>3. Progress(rows[s][n], o) = rows[s][n] /\ FinishRow(rows[s][n], o) = rows[s][n]
    BY DEF Progress, FinishRow
  <2> QED BY <1>0, <2>1, <2>2, <2>3
<1>4. CASE UNCHANGED vars
  BY <1>1, <1>4 DEF vars, dbVars
<1>5. CASE RecoverOrphans \/ \E nd \in SUBSET MayBeFresh : Preflight(nd)
  BY <1>2, <1>5 DEF RecoverOrphans, Preflight
<1>6. CASE WriterFails \/ Cancel \/ Crash \/ \E again \in BOOLEAN : Start(again)
  BY <1>1, <1>6 DEF WriterFails, Cancel, Crash, Start, dbVars
<1>7. CASE Launch \/ Gathered \/ Drained \/ FinishRun \/ Closes \/ CloseTimesOut
           \/ \E m \in 0 .. Len(queue) : DrainTimesOut(m)
  BY <1>1, <1>7 DEF Launch, Gathered, Drained, FinishRun, Closes, CloseTimesOut,
                    DrainTimesOut, AfterDrain, dbVars
<1>8. CASE \E t \in Sources : TargetStep(t)
  BY <1>1, <1>8, ZenonT(60) DEF TargetStep, TargetStarts, TakeGate, AttemptBegins, CreateRaises, Yields,
        Marks, BatchLands, StreamEnds, StreamFails, StreamFailsTransient, BackoffEnds,
        BudgetSpent, DeadlineInStream, SubmitCutShort, StreamClosed, Settle, Cancelled, dbVars
<1> QED BY <1>3, <1>4, <1>5, <1>6, <1>7, <1>8 DEF Next, RunStep

\* Only a presence pass changes absence.
LEMMA AbsenceKept ==
    ASSUME [Next]_vars
    PROVE  absence' \in {absence, Presence}
<1>1. CASE UNCHANGED vars
  BY <1>1 DEF vars, dbVars
<1>2. CASE RecoverOrphans \/ \E nd \in SUBSET MayBeFresh : Preflight(nd)
  BY <1>2 DEF RecoverOrphans, Preflight
<1>3. CASE WriterFails \/ Cancel \/ Crash \/ \E again \in BOOLEAN : Start(again)
  BY <1>3 DEF WriterFails, Cancel, Crash, Start, dbVars
<1>4. CASE Launch \/ Gathered \/ Drained \/ FinishRun \/ Closes \/ CloseTimesOut
           \/ \E m \in 0 .. Len(queue) : DrainTimesOut(m)
  BY <1>4 DEF Launch, Gathered, Drained, FinishRun, Closes, CloseTimesOut,
              DrainTimesOut, AfterDrain, dbVars
<1>5. CASE \E t \in Sources : TargetStep(t)
  BY <1>5, ZenonT(60) DEF TargetStep, TargetStarts, TakeGate, AttemptBegins, CreateRaises, Yields,
        Marks, BatchLands, StreamEnds, StreamFails, StreamFailsTransient, BackoffEnds,
        BudgetSpent, DeadlineInStream, SubmitCutShort, StreamClosed, Settle, Cancelled, dbVars
<1>6. CASE WriterCommits
  BY <1>6 DEF WriterCommits, Commit
<1> QED BY <1>1, <1>2, <1>3, <1>4, <1>5, <1>6 DEF Next, RunStep

\* What a licensed source has on its board has been seen.
LEMMA LicensedSeen ==
    ASSUME CoverInv
    PROVE  \A s \in Licensed : s \in Sources /\ Found(s) \subseteq seen
<1> SUFFICES ASSUME NEW s \in Licensed PROVE s \in Sources /\ Found(s) \subseteq seen
  OBVIOUS
<1>1. PICK n \in AttemptNos : rows[s][n].st = "succeeded"
  BY DEF Licensed
<1>2. s \in Sources
  BY SchedulerAssumption DEF Licensed
<1>3. \A i \in 1 .. Len(Inventory[s]) : Inventory[s][i] \in seen
  BY <1>1, <1>2 DEF CoverInv, RowsCovered, RowCovered, Vouched
<1> QED BY <1>2, <1>3 DEF Found, Board

\* No posting is marked absent that the run has not proved gone.
THEOREM AbsenceProved ==
    ASSUME ~MayOvertake
    PROVE  Spec => []NoFalseAbsence
<1> DEFINE Inv == CoverInv /\ NoFalseAbsence
<1>1. Init => Inv
  <2>1. Init => NoFalseAbsence
    BY DEF Init, NoFalseAbsence
  <2> QED BY <2>1, InitHolds
<1>2. Inv /\ [Next]_vars => Inv'
  <2> SUFFICES ASSUME Inv, [Next]_vars PROVE Inv'
    OBVIOUS
  <2>1. CoverInv'
    BY CoverInvHolds
  <2>2. \A s \in Licensed : s \in Licensed'
    BY LicencesKept, SchedulerAssumption DEF Licensed
  <2>3. ASSUME NEW p \in Postings, absence'[p] = "run"
        PROVE  \E s \in Licensed : p \in Owned[s] \ Found(s)
    <3>1. CASE absence[p] = "run"
      BY <3>1 DEF NoFalseAbsence
    <3>2. CASE absence[p] # "run"
      <4>1. absence' = Presence
        BY <2>3, <3>2, AbsenceKept
      <4>2. PICK s \in Licensed : p \in Owned[s] \ seen
        BY <2>3, <3>2, <4>1 DEF Presence, Refreshed, Unseen
      <4> QED BY <4>2, LicensedSeen
    <3> QED BY <3>1, <3>2
  <2>4. NoFalseAbsence'
    BY <2>2, <2>3 DEF NoFalseAbsence, Found, Board
  <2> QED BY <2>1, <2>4
<1>3. Inv => NoFalseAbsence
  OBVIOUS
<1> QED BY <1>1, <1>2, <1>3, PTL DEF Spec

-----------------------------------------------------------------------------
(* Types *)

\* What an operation refers to is in the plan and on the board.
OpFits(o) ==
    /\ o.k \in {"create", "batch", "finish", "unattempted"} => o.s \in Sources
    /\ o.k \in {"batch", "finish"} => o.ck \in -1 .. Len(Inventory[o.s])
    /\ o.k = "batch" => o.lo >= 1 /\ o.hi <= Len(Inventory[o.s])
    /\ o.k = "finish" => o.st \in Settled
    /\ o.k = "end" => o.st \in Terminal

OpType == {o \in OpRec : OpFits(o)}

OpTypes == queue \in Seq(OpType)

MemTypes ==
    /\ lives \in 0 .. MaxLives
    /\ run \in {"idle", "preflight", "launch", "gather", "drain", "pass", "close", "over"}
    /\ resuming \in BOOLEAN /\ cancelled \in BOOLEAN /\ dead \in BOOLEAN
    /\ status \in Terminal \cup {"none"}
    /\ fresh \subseteq Sources
    /\ run \in {"drain", "pass", "close"} => status # "none"

\* What a target does in an attempt, and how far its attempts have got.
TargetFits(s) ==
    /\ flushed[s] <= pos[s] /\ pos[s] <= Len(Inventory[s])
    /\ mark[s] \in -1 .. pos[s] /\ cursor[s] <= Len(Inventory[s])
    /\ task[s] \notin Busy => flushed[s] = 0 /\ pos[s] = 0
    /\ task[s] = "closing" => ending[s] # "none"
    /\ task[s] \in {"spawned", "gate"} => index[s] = 0
    /\ task[s] \in {"create", "backoff"} => index[s] < MaxAttempts
    /\ task[s] \in Busy \cup {"backoff"} => index[s] > 0
    /\ run # "gather" => task[s] = "done"
    /\ run = "launch" => index[s] = 0
    /\ s \in struck => task[s] # "done"

TaskTypes ==
    /\ task \in [Sources -> {"spawned", "gate", "create", "stream", "submit",
                             "closing", "backoff", "done"}]
    /\ struck \subseteq Sources
    /\ gates \in [Sources -> Nat]
    /\ index \in [Sources -> 0 .. MaxAttempts] /\ offset \in [Sources -> Nat]
    /\ result \in [Sources -> Settled \cup {"none", "skipped", "lost", "error"}]
    /\ pos \in [Sources -> Nat] /\ flushed \in [Sources -> Nat]
    /\ mark \in [Sources -> Int] /\ cursor \in [Sources -> Nat]
    /\ ending \in [Sources -> {"none", "timeout", "failed"}]
    /\ \A s \in Sources : TargetFits(s)

RowType == [st : Settled \cup {"none", "running", "interrupted"}, ck : Nat \cup {-1}]

DbTypes ==
    /\ runRow \in Terminal \cup {"absent", "running", "interrupted"}
    /\ rows \in [Sources -> [AttemptNos -> RowType]]
    /\ \A s \in Sources, n \in AttemptNos : rows[s][n].ck <= Len(Inventory[s])
    /\ unattempted \subseteq Sources /\ seen \subseteq Postings
    /\ absence \in [Postings -> {"present", "earlier", "run"}]

TypeInv == MemTypes /\ TaskTypes /\ DbTypes /\ OpTypes

\* The invariant says what TypeOK says.
LEMMA TypesImply == TypeInv => TypeOK
<1> SUFFICES ASSUME TypeInv PROVE TypeOK
  OBVIOUS
<1>1. \A s \in Sources :
        /\ flushed[s] \in 0 .. pos[s] /\ pos[s] \in 0 .. Len(Inventory[s])
        /\ mark[s] \in -1 .. pos[s] /\ cursor[s] \in 0 .. Len(Inventory[s])
  BY DEF TypeInv, TaskTypes, TargetFits
<1>2. rows \in [Sources -> [AttemptNos ->
                  [st : Settled \cup {"none", "running", "interrupted"}, ck : Nat \cup {-1}]]]
  BY DEF TypeInv, DbTypes, RowType
<1> QED BY <1>1, <1>2 DEF TypeInv, MemTypes, TaskTypes, DbTypes, TypeOK

\* What a step that is one target's changes.
TaskStates == {"spawned", "gate", "create", "stream", "submit", "closing", "backoff", "done"}

ChangesAt(f, g, s, T) == g = f \/ (g = [f EXCEPT ![s] = g[s]] /\ g[s] \in T)

\* It is enough to look at that target.
LEMMA OneTarget ==
    ASSUME TaskTypes, NEW s \in Sources, struck' \subseteq struck,
           UNCHANGED <<run, offset, cursor>>,
           ChangesAt(task, task', s, TaskStates),
           ChangesAt(gates, gates', s, Nat),
           ChangesAt(index, index', s, 0 .. MaxAttempts),
           ChangesAt(result, result', s, Settled \cup {"none", "skipped", "lost", "error"}),
           ChangesAt(pos, pos', s, Nat), ChangesAt(flushed, flushed', s, Nat),
           ChangesAt(mark, mark', s, Int),
           ChangesAt(ending, ending', s, {"none", "timeout", "failed"}),
           TargetFits(s)'
    PROVE  TaskTypes'
<1>1. \A f, g, T, x : f \in [Sources -> T] /\ ChangesAt(f, g, s, T) =>
          g \in [Sources -> T] /\ \A t \in Sources \ {s} : g[t] = f[t]
  BY DEF ChangesAt
<1>2. /\ task' \in [Sources -> TaskStates]
      /\ gates' \in [Sources -> Nat]
      /\ index' \in [Sources -> 0 .. MaxAttempts] /\ offset' \in [Sources -> Nat]
      /\ result' \in [Sources -> Settled \cup {"none", "skipped", "lost", "error"}]
      /\ pos' \in [Sources -> Nat] /\ flushed' \in [Sources -> Nat]
      /\ mark' \in [Sources -> Int] /\ cursor' \in [Sources -> Nat]
      /\ ending' \in [Sources -> {"none", "timeout", "failed"}]
  BY <1>1 DEF TaskTypes, TaskStates
<1>3. ASSUME NEW t \in Sources \ {s} PROVE TargetFits(t)'
  <2>1. /\ task'[t] = task[t] /\ index'[t] = index[t] /\ pos'[t] = pos[t]
        /\ flushed'[t] = flushed[t] /\ mark'[t] = mark[t] /\ ending'[t] = ending[t]
    BY <1>1, ZenonT(60) DEF TaskTypes, TaskStates
  <2> QED BY <2>1 DEF TaskTypes, TargetFits
<1> QED BY <1>2, <1>3 DEF TaskTypes, TaskStates

\* The steps of a target that submit nothing.
LEMMA QuietTypes ==
    ASSUME NEW s \in Sources, TypeInv
    PROVE  \/ TargetStarts(s) \/ TakeGate(s) \/ CreateRaises(s)
           \/ \E flush \in BOOLEAN : Yields(s, flush)
           \/ Marks(s) \/ BackoffEnds(s) \/ BudgetSpent(s)
           \/ \E st \in Settled : SubmitCutShort(s, st)
           => TaskTypes' /\ UNCHANGED <<lives, memVars, wVars, dbVars>>
<1> USE DEF Runs
<1>0. /\ TaskTypes /\ TargetFits(s) /\ Len(Inventory[s]) \in Nat
      /\ MaxAttempts \in Nat /\ MaxAttempts > 0
      /\ pos[s] \in Nat /\ flushed[s] \in Nat /\ mark[s] \in Int /\ gates[s] \in Nat
      /\ gates \in [Sources -> Nat] /\ s \in DOMAIN result
      /\ pos \in [Sources -> Nat] /\ task \in [Sources -> TaskStates]
      /\ flushed \in [Sources -> Nat] /\ mark \in [Sources -> Int]
      /\ ending \in [Sources -> {"none", "timeout", "failed"}]
  <2>1. TaskTypes
    BY DEF TypeInv
  <2>2. Len(Inventory[s]) \in Nat /\ MaxAttempts \in Nat /\ MaxAttempts > 0
    BY SchedulerAssumption
  <2>3. DOMAIN result = Sources
    BY <2>1 DEF TaskTypes
  <2>4. task \in [Sources -> TaskStates]
    BY <2>1 DEF TaskTypes, TaskStates
  <2> QED BY <2>1, <2>2, <2>3, <2>4 DEF TaskTypes
<1>1. ASSUME TargetStarts(s) PROVE TaskTypes'
  <2>1. TargetFits(s)'
    BY <1>0, <1>1 DEF TargetStarts, memVars, TargetFits, Busy
  <2> QED BY <1>0, <1>1, <2>1, OneTarget DEF TargetStarts, memVars, ChangesAt, TaskStates
<1>2. ASSUME TakeGate(s) PROVE TaskTypes'
  <2>1. TargetFits(s)'
    BY <1>0, <1>2 DEF TakeGate, memVars, TargetFits, Busy
  <2>2. ChangesAt(gates, gates', s, Nat) /\ ChangesAt(task, task', s, TaskStates)
    BY <1>0, <1>2 DEF TakeGate, ChangesAt, TaskStates
  <2> QED BY <1>0, <1>2, <2>1, <2>2, OneTarget DEF TakeGate, memVars, ChangesAt
<1>3. ASSUME NEW r \in {"error", "failed"}, Returns(s, r),
             UNCHANGED <<run, offset, cursor, index, struck>>, s \notin struck
      PROVE  TaskTypes'
  <2>1. TargetFits(s)'
    BY <1>0, <1>3 DEF Returns, Locals, TargetFits, Busy
  <2>2. /\ ChangesAt(task, task', s, TaskStates) /\ ChangesAt(gates, gates', s, Nat)
        /\ ChangesAt(index, index', s, 0 .. MaxAttempts)
    BY <1>0, <1>3 DEF Returns, Released, ChangesAt, TaskStates
  <2>3. ChangesAt(result, result', s, Settled \cup {"none", "skipped", "lost", "error"})
    BY <1>0, <1>3 DEF Returns, ChangesAt, Settled
  <2>4. /\ ChangesAt(pos, pos', s, Nat) /\ ChangesAt(flushed, flushed', s, Nat)
        /\ ChangesAt(mark, mark', s, Int)
        /\ ChangesAt(ending, ending', s, {"none", "timeout", "failed"})
    BY <1>0, <1>3 DEF Returns, Locals, ChangesAt
  <2> QED BY <1>0, <1>3, <2>1, <2>2, <2>3, <2>4, OneTarget
<1>4. ASSUME NEW flush \in BOOLEAN, Yields(s, flush) PROVE TaskTypes'
  <2>1. TargetFits(s)'
    BY <1>0, <1>4 DEF Yields, memVars, TargetFits, Busy
  <2>2. ChangesAt(pos, pos', s, Nat)
    BY <1>0, <1>4 DEF Yields, ChangesAt
  <2>3. ChangesAt(task, task', s, TaskStates)
    BY <1>0, <1>4 DEF Yields, ChangesAt, TaskStates
  <2> QED BY <1>0, <1>4, <2>1, <2>2, <2>3, OneTarget DEF Yields, memVars, ChangesAt
<1>5. ASSUME Marks(s) PROVE TaskTypes'
  <2>1. TargetFits(s)'
    BY <1>0, <1>5 DEF Marks, memVars, TargetFits, Busy
  <2>2. ChangesAt(mark, mark', s, Int)
    BY <1>0, <1>5 DEF Marks, ChangesAt
  <2> QED BY <1>0, <1>5, <2>1, <2>2, OneTarget DEF Marks, memVars, ChangesAt
<1>6. ASSUME BackoffEnds(s) PROVE TaskTypes'
  <2>1. TargetFits(s)'
    BY <1>0, <1>6 DEF BackoffEnds, memVars, TargetFits, Busy
  <2> QED BY <1>0, <1>6, <2>1, OneTarget DEF BackoffEnds, memVars, ChangesAt, TaskStates
<1>7. ASSUME NEW st \in Settled, SubmitCutShort(s, st) PROVE TaskTypes'
  <2>1. TargetFits(s)'
    BY <1>0, <1>7 DEF SubmitCutShort, memVars, TargetFits, Busy
  <2>2. ChangesAt(ending, ending', s, {"none", "timeout", "failed"})
    BY <1>0, <1>7 DEF SubmitCutShort, ChangesAt
  <2> QED BY <1>0, <1>7, <2>1, <2>2, OneTarget DEF SubmitCutShort, memVars, ChangesAt, TaskStates
<1>8. CreateRaises(s) \/ BudgetSpent(s) => TaskTypes'
  BY <1>3 DEF CreateRaises, BudgetSpent, memVars
<1>9. \/ TargetStarts(s) \/ TakeGate(s) \/ CreateRaises(s)
      \/ \E flush \in BOOLEAN : Yields(s, flush)
      \/ Marks(s) \/ BackoffEnds(s) \/ BudgetSpent(s)
      \/ \E st \in Settled : SubmitCutShort(s, st)
      => UNCHANGED <<lives, memVars, wVars, dbVars>>
  BY DEF TargetStarts, TakeGate, CreateRaises, Yields, Marks, BackoffEnds, BudgetSpent,
         SubmitCutShort
<1> QED BY <1>1, <1>2, <1>4, <1>5, <1>6, <1>7, <1>8, <1>9

\* The steps that hand something to the writer.
LEMMA HandingTypes ==
    ASSUME NEW s \in Sources, TypeInv
    PROVE  \/ AttemptBegins(s) \/ BatchLands(s) \/ StreamEnds(s) \/ StreamFails(s)
           \/ StreamFailsTransient(s) \/ DeadlineInStream(s) \/ StreamClosed(s) \/ Cancelled(s)
           => TaskTypes' /\ UNCHANGED <<lives, memVars, dead, dbVars>>
<1> USE DEF Runs
<1>0. /\ TaskTypes /\ TargetFits(s) /\ Len(Inventory[s]) \in Nat
      /\ MaxAttempts \in Nat /\ MaxAttempts > 0
      /\ pos[s] \in Nat /\ flushed[s] \in Nat /\ mark[s] \in Int /\ cursor[s] \in Nat
      /\ index[s] \in 0 .. MaxAttempts
      /\ gates \in [Sources -> Nat] /\ s \in DOMAIN result
      /\ pos \in [Sources -> Nat] /\ task \in [Sources -> TaskStates]
      /\ flushed \in [Sources -> Nat] /\ mark \in [Sources -> Int]
      /\ index \in [Sources -> 0 .. MaxAttempts]
      /\ ending \in [Sources -> {"none", "timeout", "failed"}]
  <2>1. TaskTypes
    BY DEF TypeInv
  <2>2. Len(Inventory[s]) \in Nat /\ MaxAttempts \in Nat /\ MaxAttempts > 0
    BY SchedulerAssumption
  <2>3. DOMAIN result = Sources
    BY <2>1 DEF TaskTypes
  <2>4. task \in [Sources -> TaskStates]
    BY <2>1 DEF TaskTypes, TaskStates
  <2> QED BY <2>1, <2>2, <2>3, <2>4 DEF TaskTypes
<1>1. ASSUME AttemptBegins(s) PROVE TaskTypes'
  <2>1. StartPosition(s) \in Nat /\ StartPosition(s) <= Len(Inventory[s])
    BY <1>0 DEF StartPosition, TargetFits
  <2>2. TargetFits(s)'
    BY <1>0, <1>1, <2>1 DEF AttemptBegins, Locals, memVars, TargetFits, Busy
  <2>3. ChangesAt(index, index', s, 0 .. MaxAttempts)
    BY <1>0, <1>1 DEF AttemptBegins, TargetFits, ChangesAt
  <2>4. /\ ChangesAt(pos, pos', s, Nat) /\ ChangesAt(flushed, flushed', s, Nat)
        /\ ChangesAt(mark, mark', s, Int)
        /\ ChangesAt(ending, ending', s, {"none", "timeout", "failed"})
    BY <1>0, <1>1, <2>1 DEF AttemptBegins, Locals, ChangesAt
  <2> QED BY <1>0, <1>1, <2>2, <2>3, <2>4, OneTarget
          DEF AttemptBegins, memVars, ChangesAt, TaskStates
<1>2. ASSUME BatchLands(s) PROVE TaskTypes'
  <2>1. TargetFits(s)'
    BY <1>0, <1>2 DEF BatchLands, memVars, TargetFits, Busy
  <2> QED BY <1>0, <1>2, <2>1, OneTarget DEF BatchLands, memVars, ChangesAt, TaskStates
<1>3. ASSUME NEW r \in Settled \cup {"lost"}, Returns(s, r), struck' \subseteq struck \ {s},
             UNCHANGED <<run, offset, cursor, index>>
      PROVE  TaskTypes'
  <2>1. TargetFits(s)'
    BY <1>0, <1>3 DEF Returns, Locals, TargetFits, Busy
  <2>2. /\ ChangesAt(task, task', s, TaskStates) /\ ChangesAt(gates, gates', s, Nat)
        /\ ChangesAt(index, index', s, 0 .. MaxAttempts)
    BY <1>0, <1>3 DEF Returns, Released, ChangesAt, TaskStates
  <2>3. ChangesAt(result, result', s, Settled \cup {"none", "skipped", "lost", "error"})
    BY <1>0, <1>3 DEF Returns, ChangesAt, Settled
  <2>4. /\ ChangesAt(pos, pos', s, Nat) /\ ChangesAt(flushed, flushed', s, Nat)
        /\ ChangesAt(mark, mark', s, Int)
        /\ ChangesAt(ending, ending', s, {"none", "timeout", "failed"})
    BY <1>0, <1>3 DEF Returns, Locals, ChangesAt
  <2> QED BY <1>0, <1>3, <2>1, <2>2, <2>3, <2>4, OneTarget
<1>4. ASSUME StreamFailsTransient(s) PROVE TaskTypes'
  <2>1. TargetFits(s)'
    BY <1>0, <1>4 DEF StreamFailsTransient, Locals, memVars, TargetFits, Busy
  <2>2. /\ ChangesAt(pos, pos', s, Nat) /\ ChangesAt(flushed, flushed', s, Nat)
        /\ ChangesAt(mark, mark', s, Int)
        /\ ChangesAt(ending, ending', s, {"none", "timeout", "failed"})
    BY <1>0, <1>4 DEF StreamFailsTransient, Locals, ChangesAt
  <2> QED BY <1>0, <1>4, <2>1, <2>2, OneTarget
          DEF StreamFailsTransient, memVars, ChangesAt, TaskStates
<1>5. Cancelled(s) => TaskTypes'
  BY <1>3 DEF Cancelled, memVars, Settled
<1>6. StreamEnds(s) \/ StreamFails(s) \/ DeadlineInStream(s) \/ StreamClosed(s)
      => \E st \in Settled : Settle(s, st) /\ struck' \subseteq struck \ {s}
  <2>1. /\ "succeeded" \in Settled /\ "failed" \in Settled /\ "timeout" \in Settled
        /\ task[s] = "closing" => ending[s] \in Settled
    BY <1>0 DEF Settled, TargetFits
  <2> QED BY <2>1 DEF StreamEnds, StreamFails, DeadlineInStream, StreamClosed
<1>7. \A st \in Settled : Settle(s, st) /\ struck' \subseteq struck \ {s} => TaskTypes'
  BY <1>3 DEF Settle, memVars
<1>8. \/ AttemptBegins(s) \/ BatchLands(s) \/ StreamFailsTransient(s) \/ Cancelled(s)
      \/ \E st \in Settled : Settle(s, st)
      => UNCHANGED <<lives, memVars, dead, dbVars>>
  BY DEF AttemptBegins, BatchLands, StreamFailsTransient, Cancelled, Settle
<1> QED BY <1>1, <1>2, <1>4, <1>5, <1>6, <1>7, <1>8

\* A step that leaves the targets where they are.
LEMMA StillTargets ==
    ASSUME TaskTypes, UNCHANGED taskVars, run' # "gather" => run # "gather",
           run' = "launch" => run = "launch"
    PROVE  TaskTypes'
<1>1. \A s \in Sources : TargetFits(s)'
  BY DEF TaskTypes, TargetFits, taskVars
<1> QED BY <1>1 DEF TaskTypes, taskVars

\* What a row becomes when its orphan is recovered, or its operation commits.
LEMMA RowTypes ==
    ASSUME NEW r \in RowType
    PROVE  /\ [r EXCEPT !.st = "interrupted"] \in RowType
           /\ [r EXCEPT !.st = "interrupted"].ck = r.ck
           /\ [r EXCEPT !.st = "interrupted"].st = "interrupted"
           /\ \A o \in OpType : o.k \in {"batch", "finish"} =>
                /\ Progress(r, o) \in RowType
                /\ Progress(r, o).ck \in {r.ck, o.ck}
                /\ Progress(r, o).st = r.st
           /\ \A o \in OpType : o.k = "finish" =>
                /\ FinishRow(r, o) \in RowType
                /\ FinishRow(r, o).ck \in {r.ck, o.ck}
                /\ FinishRow(r, o).st = IF r.st = "running" THEN o.st ELSE r.st
<1>1. /\ [r EXCEPT !.st = "interrupted"] \in RowType
      /\ [r EXCEPT !.st = "interrupted"].ck = r.ck
      /\ [r EXCEPT !.st = "interrupted"].st = "interrupted"
  BY DEF RowType
<1>2. ASSUME NEW o \in OpType, o.k \in {"batch", "finish"}
      PROVE  /\ Coalesce(o.ck, r.ck) \in Nat \cup {-1}
             /\ Coalesce(o.ck, r.ck) \in {r.ck, o.ck}
  <2>1. o.ck \in Int /\ o.ck >= -1
    BY <1>2 DEF OpType, OpFits, OpRec
  <2> QED BY <2>1 DEF Coalesce, RowType
<1>3. ASSUME NEW o \in OpType, o.k \in {"batch", "finish"}
      PROVE  /\ Progress(r, o) \in RowType
             /\ Progress(r, o).ck \in {r.ck, o.ck}
             /\ Progress(r, o).st = r.st
  BY <1>2, <1>3 DEF Progress, RowType
<1>4. ASSUME NEW o \in OpType, o.k = "finish"
      PROVE  /\ FinishRow(r, o) \in RowType
             /\ FinishRow(r, o).ck \in {r.ck, o.ck}
             /\ FinishRow(r, o).st = IF r.st = "running" THEN o.st ELSE r.st
  <2>1. o.st \in Settled
    BY <1>4 DEF OpType, OpFits
  <2> QED BY <1>2, <1>4, <2>1 DEF FinishRow, RowType
<1> QED BY <1>1, <1>3, <1>4

\* Recovery changes the running rows.
LEMMA RecoveryTypes ==
    ASSUME DbTypes
    PROVE  /\ RowsAfterRecovery(rows) \in [Sources -> [AttemptNos -> RowType]]
           /\ \A s \in Sources, n \in AttemptNos :
                /\ RowsAfterRecovery(rows)[s][n].ck = rows[s][n].ck
                /\ RowsAfterRecovery(rows)[s][n].st =
                     IF rows[s][n].st = "running" THEN "interrupted" ELSE rows[s][n].st
<1>1. \A s \in Sources, n \in AttemptNos : rows[s][n] \in RowType
  BY DEF DbTypes
<1>2. \A s \in Sources, n \in AttemptNos :
        /\ RowsAfterRecovery(rows)[s][n] \in RowType
        /\ RowsAfterRecovery(rows)[s][n].ck = rows[s][n].ck
        /\ RowsAfterRecovery(rows)[s][n].st =
             IF rows[s][n].st = "running" THEN "interrupted" ELSE rows[s][n].st
  BY <1>1, RowTypes DEF RowsAfterRecovery
<1>3. RowsAfterRecovery(rows) \in [Sources -> [AttemptNos -> RowType]]
  BY <1>2 DEF RowsAfterRecovery
<1> QED BY <1>2, <1>3

\* What the steps of the run keep.
LEMMA RunTypes ==
    ASSUME TypeInv
    PROVE  \/ \E again \in BOOLEAN : Start(again)
           \/ RecoverOrphans \/ Gathered \/ Drained \/ Cancel \/ Crash
           \/ \E n \in 0 .. Len(queue) : DrainTimesOut(n)
           \/ FinishRun \/ Closes \/ CloseTimesOut \/ WriterFails
           => MemTypes' /\ TaskTypes' /\ DbTypes'
<1>0. MemTypes /\ TaskTypes /\ DbTypes
  BY DEF TypeInv
<1>1. ASSUME NEW again \in BOOLEAN, Start(again) PROVE MemTypes' /\ TaskTypes' /\ DbTypes'
  <2>1. TaskTypes'
    BY <1>0, <1>1, StillTargets DEF Start, Live
  <2>2. lives' \in 0 .. MaxLives
    BY <1>0, <1>1, SchedulerAssumption DEF Start, MemTypes
  <2>3. MemTypes'
    BY <1>0, <1>1, <2>2 DEF Start, Live, wVars, MemTypes
  <2> QED BY <1>0, <1>1, <2>1, <2>3 DEF Start, dbVars, DbTypes
<1>2. ASSUME RecoverOrphans PROVE MemTypes' /\ TaskTypes' /\ DbTypes'
  <2>1. TaskTypes'
    BY <1>0, <1>2, StillTargets DEF RecoverOrphans, memVars
  <2>2. MemTypes'
    BY <1>0, <1>2 DEF RecoverOrphans, memVars, wVars, MemTypes
  <2>3. DbTypes'
    BY <1>0, <1>2, RecoveryTypes DEF RecoverOrphans, DbTypes
  <2> QED BY <2>1, <2>2, <2>3
<1>3. ASSUME Gathered PROVE MemTypes' /\ TaskTypes' /\ DbTypes'
  <2>1. \A s \in Sources : TargetFits(s)'
    BY <1>0, <1>3 DEF Gathered, taskVars, TaskTypes, TargetFits
  <2>2. TaskTypes'
    BY <1>0, <1>3, <2>1 DEF Gathered, taskVars, TaskTypes
  <2>3. MemTypes'
    BY <1>0, <1>3 DEF Gathered, Decided, wVars, MemTypes, Terminal
  <2> QED BY <1>0, <1>3, <2>2, <2>3 DEF Gathered, dbVars, DbTypes
<1>4. ASSUME run = "drain", NEW q, AfterDrain(q) PROVE MemTypes' /\ TaskTypes' /\ DbTypes'
  <2>1. TaskTypes'
    BY <1>0, <1>4, StillTargets DEF AfterDrain
  <2>2. MemTypes'
    BY <1>0, <1>4 DEF AfterDrain, FinalStatus, wVars, MemTypes, Terminal
  <2> QED BY <1>0, <1>4, <2>1, <2>2 DEF AfterDrain, dbVars, DbTypes
<1>5. ASSUME FinishRun \/ Closes \/ CloseTimesOut PROVE MemTypes' /\ TaskTypes' /\ DbTypes'
  <2>1. TaskTypes'
    BY <1>0, <1>5, StillTargets DEF FinishRun, Closes, CloseTimesOut
  <2>2. MemTypes'
    BY <1>0, <1>5 DEF FinishRun, Closes, CloseTimesOut, wVars, MemTypes
  <2> QED BY <1>0, <1>5, <2>1, <2>2 DEF FinishRun, Closes, CloseTimesOut, dbVars, DbTypes
<1>6. ASSUME Cancel PROVE MemTypes' /\ TaskTypes' /\ DbTypes'
  <2>1. \A s \in Sources : TargetFits(s)'
    BY <1>0, <1>6 DEF Cancel, TaskTypes, TargetFits
  <2>2. TaskTypes'
    BY <1>0, <1>6, <2>1 DEF Cancel, TaskTypes
  <2>3. MemTypes'
    BY <1>0, <1>6 DEF Cancel, wVars, MemTypes
  <2> QED BY <1>0, <1>6, <2>2, <2>3 DEF Cancel, dbVars, DbTypes
<1>7. ASSUME Crash PROVE MemTypes' /\ TaskTypes' /\ DbTypes'
  <2>0. Len(Plan) \in Nat /\ MaxAttempts \in Nat /\ \A s \in Sources : Len(Inventory[s]) \in Nat
    BY SchedulerAssumption
  <2>1. \A s \in Sources : TargetFits(s)'
    BY <1>7, <2>0 DEF Crash, TargetFits, Busy
  <2>2. TaskTypes'
    BY <1>0, <1>7, <2>0, <2>1 DEF Crash, TaskTypes
  <2>3. MemTypes'
    BY <1>0, <1>7 DEF Crash, MemTypes
  <2> QED BY <1>0, <1>7, <2>2, <2>3 DEF Crash, dbVars, DbTypes
<1>8. ASSUME WriterFails PROVE MemTypes' /\ TaskTypes' /\ DbTypes'
  <2>1. TaskTypes'
    BY <1>0, <1>8, StillTargets DEF WriterFails, memVars
  <2>2. MemTypes'
    BY <1>0, <1>8 DEF WriterFails, memVars, MemTypes
  <2> QED BY <1>0, <1>8, <2>1, <2>2 DEF WriterFails, dbVars, DbTypes
<1>9. Drained \/ (\E n \in 0 .. Len(queue) : DrainTimesOut(n))
      => run = "drain" /\ \E q : AfterDrain(q)
  BY DEF Drained, DrainTimesOut
<1> QED BY <1>1, <1>2, <1>3, <1>4, <1>5, <1>6, <1>7, <1>8, <1>9

\* The newest attempt of a source, if it has one.
LEMMA NewestAttempt ==
    ASSUME NEW s
    PROVE  /\ Attempts(s) \subseteq AttemptNos
           /\ MaxAttempt(s) \in AttemptNos \cup {0} /\ MaxAttempt(s) \in Nat
           /\ Attempts(s) = {} => MaxAttempt(s) = 0
           /\ Attempts(s) # {} => MaxAttempt(s) \in Attempts(s)
           /\ \A n \in Attempts(s) : n <= MaxAttempt(s)
<1>1. Attempts(s) \in SUBSET AttemptNos
  BY DEF Attempts
<1>2. MaxAttempts * MaxLives \in Nat
  BY SchedulerAssumption
<1>3. AttemptNos = 1 .. (MaxAttempts * MaxLives)
  BY DEF AttemptNos
<1>4. CASE Attempts(s) = {}
  <2>1. MaxAttempt(s) = 0
    BY <1>4 DEF MaxAttempt
  <2> QED BY <1>4, <2>1
<1>5. CASE Attempts(s) # {}
  <2> DEFINE T == Attempts(s)
             m == CHOOSE n \in T : \A j \in T : j <= n
  <2>1. MaxAttempt(s) = m
    BY <1>5 DEF MaxAttempt
  <2>2. \E n \in T : \A j \in T : j <= n
    BY <1>1, <1>2, <1>3, <1>5, Maximum
  <2>3. m \in T /\ \A j \in T : j <= m
    BY <2>2
  <2> HIDE DEF m
  <2> QED BY <1>1, <1>2, <1>3, <1>5, <2>1, <2>3
<1> QED BY <1>4, <1>5

\* A resume starts from a checkpoint that is on the board.
LEMMA PreflightTypes ==
    ASSUME TypeInv, NEW nd \in SUBSET MayBeFresh, Preflight(nd)
    PROVE  MemTypes' /\ TaskTypes' /\ DbTypes'
<1>0. MemTypes /\ TaskTypes /\ DbTypes
  BY DEF TypeInv
<1>1. DbTypes'
  BY <1>0, RecoveryTypes DEF Preflight, DbTypes
<1>2. MemTypes'
  <2>1. fresh' \subseteq Sources
    BY <1>0, SchedulerAssumption DEF Preflight, MemTypes
  <2> QED BY <1>0, <2>1 DEF Preflight, wVars, MemTypes
<1>3. CASE run' = "over"
  <2>1. TaskTypes'
    BY <1>0, <1>3, StillTargets DEF Preflight
  <2> QED BY <1>1, <1>2, <2>1
<1>4. CASE run' # "over"
  <2>1. /\ run' = "launch" /\ run = "preflight"
        /\ UNCHANGED <<task, struck, gates, pos, flushed, mark, ending>>
        /\ offset' = [s \in Sources |-> IF resuming THEN MaxAttempt(s) ELSE 0]
        /\ index' = [s \in Sources |-> 0]
        /\ result' = [s \in Sources |-> "none"]
    BY <1>4 DEF Preflight
  <2>2. offset' \in [Sources -> Nat]
    BY <2>1, NewestAttempt
  <2>3. ASSUME NEW s \in Sources
        PROVE  LatestCheckpoint(s) \in Nat /\ LatestCheckpoint(s) <= Len(Inventory[s])
    <3> DEFINE N == {n \in AttemptNos : rows[s][n].ck >= 0}
               m == CHOOSE n \in N : \A j \in N : j <= n
    <3>1. N \in SUBSET AttemptNos
      OBVIOUS
    <3>2. LatestCheckpoint(s) = IF N = {} THEN 0 ELSE rows[s][m].ck
      BY DEF LatestCheckpoint
    <3>3. N # {} => m \in N
      <4> HIDE DEF N
      <4> QED BY <3>1, AttemptNumbers
    <3>4. N # {} => m \in AttemptNos /\ rows[s][m].ck >= 0
      BY <3>3
    <3> HIDE DEF N, m
    <3>5. Len(Inventory[s]) \in Nat
      BY SchedulerAssumption
    <3>6. \A n \in AttemptNos : rows[s][n].ck \in Int /\ rows[s][n].ck <= Len(Inventory[s])
      BY <1>0 DEF DbTypes, RowType
    <3> QED BY <3>2, <3>4, <3>5, <3>6
  <2>4. cursor' \in [Sources -> Nat] /\ \A s \in Sources : cursor'[s] <= Len(Inventory[s])
    <3>1. PICK valid : cursor' = [s \in Sources |->
                IF resuming /\ s \in valid THEN LatestCheckpoint(s) ELSE 0]
      BY <1>4 DEF Preflight
    <3>2. \A s \in Sources : Len(Inventory[s]) \in Nat
      BY SchedulerAssumption
    <3> QED BY <2>3, <3>1, <3>2
  <2>5. 0 \in 0 .. MaxAttempts
    BY SchedulerAssumption
  <2>6. \A s \in Sources : TargetFits(s)'
    BY <1>0, <2>1, <2>4 DEF TaskTypes, TargetFits, Busy
  <2>7. TaskTypes'
    BY <1>0, <2>1, <2>2, <2>4, <2>5, <2>6 DEF TaskTypes
  <2> QED BY <1>1, <1>2, <2>7
<1> QED BY <1>3, <1>4

\* The targets that are spawned have no attempt yet.
LEMMA LaunchTypes ==
    ASSUME TypeInv, Launch
    PROVE  /\ MemTypes' /\ TaskTypes' /\ DbTypes'
<1>0. MemTypes /\ TaskTypes /\ DbTypes
  BY DEF TypeInv
<1>1. /\ task' \in [Sources -> TaskStates]
      /\ \A s \in Sources : task'[s] \in {"done", "spawned"}
  BY DEF Launch, TaskStates
<1>2. result' \in [Sources -> Settled \cup {"none", "skipped", "lost", "error"}]
  BY DEF Launch, Settled
<1>3. run = "launch" /\ run' = "gather"
      /\ UNCHANGED <<lives, resuming, cancelled, status, fresh, struck, gates, index,
                     offset, cursor, pos, flushed, mark, ending, dead, dbVars, histVars>>
  BY DEF Launch
<1>4. \A s \in Sources : TargetFits(s)'
  <2> SUFFICES ASSUME NEW s \in Sources PROVE TargetFits(s)'
    OBVIOUS
  <2>1. TargetFits(s) /\ MaxAttempts \in Nat /\ MaxAttempts > 0
    BY <1>0, SchedulerAssumption DEF TaskTypes
  <2>2. task'[s] \in {"done", "spawned"}
    BY <1>1
  <2> QED BY <1>3, <2>1, <2>2 DEF TargetFits, Busy
<1>5. TaskTypes'
  BY <1>0, <1>1, <1>2, <1>3, <1>4 DEF TaskTypes, TaskStates
<1>6. MemTypes'
  BY <1>0, <1>3 DEF MemTypes
<1> QED BY <1>0, <1>3, <1>5, <1>6 DEF DbTypes, dbVars

\* A commit writes rows, postings and marks of the types the tables have.
LEMMA CommitTypes ==
    ASSUME TypeInv, WriterCommits
    PROVE  MemTypes' /\ TaskTypes' /\ DbTypes'
<1> DEFINE o == Head(queue)
<1>0. MemTypes /\ TaskTypes /\ DbTypes
  BY DEF TypeInv
<1>1. o \in OpType
  BY HeadTailProperties DEF TypeInv, OpTypes, WriterCommits
<1>2. Commit(o) /\ UNCHANGED <<lives, memVars, taskVars, dead, histVars>>
  BY DEF WriterCommits
<1> HIDE DEF o
<1>3. TaskTypes' /\ MemTypes'
  BY <1>0, <1>2, StillTargets DEF memVars, MemTypes
<1>4. runRow' \in Terminal \cup {"absent", "running", "interrupted"}
  BY <1>0, <1>1, <1>2 DEF Commit, DbTypes, OpType, OpFits
<1>5. seen' \subseteq Postings
  <2>1. CASE o.k = "batch"
    <3>1. /\ o.s \in Sources /\ o.lo \in Int /\ o.hi \in Int /\ o.lo >= 1
          /\ o.hi <= Len(Inventory[o.s])
      BY <1>1, <2>1 DEF OpType, OpFits, OpRec
    <3>2. Inventory[o.s] \in Seq(Postings)
      BY <3>1, SchedulerAssumption
    <3>3. \A i \in o.lo .. o.hi : i \in 1 .. Len(Inventory[o.s])
      BY <3>1, <3>2
    <3>4. \A i \in 1 .. Len(Inventory[o.s]) : Inventory[o.s][i] \in Postings
      BY <3>2, ElementOfSeq
    <3>5. Board(o.s, o.lo, o.hi) \subseteq Postings
      BY <3>3, <3>4 DEF Board
    <3> QED BY <1>0, <1>2, <2>1, <3>5 DEF Commit, DbTypes
  <2>2. CASE o.k # "batch"
    BY <1>0, <1>2, <2>2 DEF Commit, DbTypes
  <2> QED BY <2>1, <2>2
<1>6. unattempted' \subseteq Sources
  BY <1>0, <1>1, <1>2 DEF Commit, DbTypes, OpType, OpFits
<1>7. absence' \in [Postings -> {"present", "earlier", "run"}]
  BY <1>0, <1>2 DEF Commit, DbTypes, Presence, Refreshed
<1>8. /\ rows' \in [Sources -> [AttemptNos -> RowType]]
      /\ \A s \in Sources, n \in AttemptNos : rows'[s][n].ck <= Len(Inventory[s])
  <2>0. rows \in [Sources -> [AttemptNos -> RowType]]
    BY <1>0 DEF DbTypes
  <2>1. rows' = IF o.k = "create" THEN [rows EXCEPT ![o.s][o.a] = [st |-> "running", ck |-> -1]]
                ELSE IF o.k = "batch" THEN [rows EXCEPT ![o.s][o.a] = Progress(@, o)]
                ELSE IF o.k = "finish" THEN [rows EXCEPT ![o.s][o.a] = FinishRow(@, o)]
                ELSE rows
    BY <1>2 DEF Commit
  <2>2. ASSUME NEW s \in Sources, NEW n \in AttemptNos
        PROVE  rows'[s][n] \in RowType /\ rows'[s][n].ck <= Len(Inventory[s])
    <3> DEFINE r == rows[s][n]
    <3>1. r \in RowType /\ r.ck <= Len(Inventory[s]) /\ Len(Inventory[s]) \in Nat
      BY <1>0, SchedulerAssumption DEF DbTypes
    <3>2. \/ rows'[s][n] = r
          \/ o.k = "create" /\ rows'[s][n] = [st |-> "running", ck |-> -1]
          \/ o.k = "batch" /\ o.s = s /\ rows'[s][n] = Progress(r, o)
          \/ o.k = "finish" /\ o.s = s /\ rows'[s][n] = FinishRow(r, o)
      BY <2>0, <2>1
    <3>3. [st |-> "running", ck |-> -1] \in RowType
      BY DEF RowType
    <3>4. o.k \in {"batch", "finish"} /\ o.s = s => o.ck <= Len(Inventory[s])
      BY <1>1, <3>1 DEF OpType, OpFits
    <3> HIDE DEF r
    <3>5. o.k = "batch" => Progress(r, o) \in RowType /\ Progress(r, o).ck \in {r.ck, o.ck}
      BY <1>1, <3>1, RowTypes
    <3>6. o.k = "finish" => FinishRow(r, o) \in RowType /\ FinishRow(r, o).ck \in {r.ck, o.ck}
      BY <1>1, <3>1, RowTypes
    <3>7. CASE rows'[s][n] = r
      BY <3>1, <3>7
    <3>8. CASE rows'[s][n] = [st |-> "running", ck |-> -1]
      BY <3>1, <3>3, <3>8
    <3>9. CASE o.k = "batch" /\ o.s = s /\ rows'[s][n] = Progress(r, o)
      BY <3>1, <3>4, <3>5, <3>9
    <3>10. CASE o.k = "finish" /\ o.s = s /\ rows'[s][n] = FinishRow(r, o)
      BY <3>1, <3>4, <3>6, <3>10
    <3> QED BY <3>2, <3>7, <3>8, <3>9, <3>10
  <2>3. /\ DOMAIN rows' = Sources
        /\ rows' = [s \in Sources |-> rows'[s]]
        /\ \A s \in Sources : rows'[s] = [n \in AttemptNos |-> rows'[s][n]]
    BY <2>0, <2>1
  <2> QED BY <2>2, <2>3
<1>9. DbTypes'
  BY <1>4, <1>5, <1>6, <1>7, <1>8 DEF DbTypes
<1> QED BY <1>3, <1>9

-----------------------------------------------------------------------------
(* What a step does to the queue *)

\* A queue that is short of one operation, longer by one or reordered holds
\* operations of the same kind.
LEMMA QueueTypes ==
    ASSUME NEW T, NEW q \in Seq(T)
    PROVE  /\ <<>> \in Seq(T)
           /\ \A o \in T : Append(q, o) \in Seq(T) /\ <<o>> \in Seq(T)
           /\ \A r \in Seq(T) : q \o r \in Seq(T)
           /\ q # <<>> => Tail(q) \in Seq(T)
           /\ \A n \in 0 .. Len(q) : SubSeq(q, 1, n) \in Seq(T)
<1>1. \A n \in 0 .. Len(q) : SubSeq(q, 1, n) \in Seq(T)
  <2> SUFFICES ASSUME NEW n \in 0 .. Len(q) PROVE SubSeq(q, 1, n) \in Seq(T)
    OBVIOUS
  <2>1. n \in Int /\ \A i \in 1 .. n : q[i] \in T
    BY LenProperties, ElementOfSeq
  <2> QED BY <2>1, SubSeqProperties
<1> QED BY <1>1, HeadTailProperties, ConcatProperties, AppendProperties

\* An operation that lands goes behind what is queued, or takes the slot of a
\* deferred one, which goes behind.
LEMMA LandedTypes ==
    ASSUME NEW T, queue \in Seq(T), NEW o \in T
    PROVE  Landed(o) \in Seq(T)
<1>1. QueueSize \in Nat /\ QueueSize >= 1 /\ Len(queue) \in Nat
  BY SchedulerAssumption, LenProperties
<1>2. CASE ~Full
  BY <1>2, QueueTypes DEF Landed
<1>3. CASE Full
  <2>1. QueueSize \in 1 .. Len(queue)
    BY <1>1, <1>3 DEF Full
  <2>2. \A i \in 1 .. Len(queue) : queue[i] \in T
    BY ElementOfSeq
  <2>3. SubSeq(queue, 1, QueueSize - 1) \in Seq(T)
    BY <1>1, <2>1, <2>2, SubSeqProperties
  <2>4. SubSeq(queue, QueueSize + 1, Len(queue)) \in Seq(T)
    BY <1>1, <2>1, <2>2, SubSeqProperties
  <2>5. <<o>> \in Seq(T) /\ <<queue[QueueSize]>> \in Seq(T)
    BY <2>1, <2>2
  <2> DEFINE a == SubSeq(queue, 1, QueueSize - 1)
             b == SubSeq(queue, QueueSize + 1, Len(queue))
             c == <<queue[QueueSize]>>
             d == <<o>>
  <2>6. Landed(o) = a \o d \o b \o c
    BY <1>3 DEF Landed
  <2> HIDE DEF a, b, c, d
  <2>7. a \in Seq(T) /\ b \in Seq(T) /\ c \in Seq(T) /\ d \in Seq(T)
    BY <2>3, <2>4, <2>5 DEF a, b, c, d
  <2>8. a \o d \in Seq(T)
    BY <2>7, ConcatProperties
  <2>9. a \o d \o b \in Seq(T)
    BY <2>7, <2>8, ConcatProperties
  <2> QED BY <2>6, <2>7, <2>9, ConcatProperties
<1> QED BY <1>2, <1>3

\* The kinds of operations there are.
OpOf(kinds) == {o \in OpType : o.k \in kinds}

TargetOps == {"create", "batch", "finish", "unattempted"}

\* What a target gives the writer.
LEMMA TargetOpTypes ==
    ASSUME TypeInv, NEW s \in Sources
    PROVE  /\ CreateOp(s, offset[s] + index[s] + 1) \in OpOf(TargetOps)
           /\ UnattemptedOp(s) \in OpOf(TargetOps)
           /\ \A d \in BOOLEAN : BatchOp(s, Attempt(s), d) \in OpOf(TargetOps)
           /\ \A st \in Settled : FinishOp(s, Attempt(s), st, mark[s]) \in OpOf(TargetOps)
<1>1. /\ offset[s] \in Int /\ index[s] \in Int /\ Attempt(s) \in Int
      /\ flushed[s] \in Nat /\ pos[s] \in Nat /\ pos[s] <= Len(Inventory[s])
      /\ mark[s] \in -1 .. Len(Inventory[s]) /\ Len(Inventory[s]) \in Nat
  BY SchedulerAssumption DEF TypeInv, TaskTypes, TargetFits, Attempt
<1>2. CreateOp(s, offset[s] + index[s] + 1) \in OpOf(TargetOps)
  BY <1>1 DEF CreateOp, Op, OpOf, TargetOps, OpType, OpFits, OpRec, Kinds, Words
<1>3. UnattemptedOp(s) \in OpOf(TargetOps)
  BY <1>1 DEF UnattemptedOp, Op, OpOf, TargetOps, OpType, OpFits, OpRec, Kinds, Words
<1>4. ASSUME NEW d \in BOOLEAN PROVE BatchOp(s, Attempt(s), d) \in OpOf(TargetOps)
  BY <1>1, SMTT(60) DEF BatchOp, OpOf, TargetOps, OpType, OpFits, OpRec, Kinds, Words
<1>5. ASSUME NEW st \in Settled PROVE FinishOp(s, Attempt(s), st, mark[s]) \in OpOf(TargetOps)
  BY <1>1 DEF FinishOp, OpOf, TargetOps, OpType, OpFits, OpRec, Kinds, Words, Settled
<1> QED BY <1>2, <1>3, <1>4, <1>5

\* A target adds its own operations to a queue, wherever they land.
LEMMA TargetQueue ==
    ASSUME TypeInv, NEW s \in Sources, TargetStep(s), NEW T, queue \in Seq(T),
           OpOf(TargetOps) \subseteq T
    PROVE  queue' \in Seq(T)
<1>0. CreateOp(s, offset[s] + index[s] + 1) \in T /\ UnattemptedOp(s) \in T
      /\ (\A d \in BOOLEAN : BatchOp(s, Attempt(s), d) \in T)
      /\ (\A st \in Settled : FinishOp(s, Attempt(s), st, mark[s]) \in T)
  BY TargetOpTypes
<1>1. \A ops \in Seq(T) : Sent(ops) \in Seq(T)
  BY QueueTypes DEF Sent
<1>2. ASSUME NEW st \in Settled PROVE Settling(s, st) \in Seq(T)
  <2>1. Rest(s) \in Seq(T)
    BY <1>0, QueueTypes DEF Rest
  <2>2. <<FinishOp(s, Attempt(s), st, mark[s])>> \in Seq(T)
    BY <1>0, <1>2
  <2> QED BY <1>1, <2>1, <2>2, ConcatProperties DEF Settling
<1>3. /\ AttemptBegins(s) => queue' = Landed(CreateOp(s, offset[s] + index[s] + 1))
      /\ BatchLands(s) => queue' = Landed(BatchOp(s, Attempt(s), FALSE))
      /\ StreamFailsTransient(s) => queue' = Settling(s, "failed")
      /\ Cancelled(s) => queue' \in {Settling(s, "cancelled"), Sent(<<UnattemptedOp(s)>>), queue}
      /\ \A st \in Settled : Settle(s, st) => queue' = Settling(s, st)
  BY DEF AttemptBegins, BatchLands, StreamFailsTransient, Cancelled, SettlingCancelled, Settle
<1>4. StreamEnds(s) \/ StreamFails(s) \/ DeadlineInStream(s) \/ StreamClosed(s)
      => \E st \in Settled : Settle(s, st)
  <2>1. /\ "succeeded" \in Settled /\ "failed" \in Settled /\ "timeout" \in Settled
        /\ task[s] = "closing" => ending[s] \in Settled
    BY DEF Settled, TypeInv, TaskTypes, TargetFits
  <2> QED BY <2>1 DEF StreamEnds, StreamFails, DeadlineInStream, StreamClosed
<1>5. "failed" \in Settled /\ "cancelled" \in Settled
  BY DEF Settled
<1>6. /\ AttemptBegins(s) => queue' \in Seq(T)
      /\ BatchLands(s) => queue' \in Seq(T)
      /\ StreamFailsTransient(s) => queue' \in Seq(T)
      /\ (\E st \in Settled : Settle(s, st)) => queue' \in Seq(T)
  BY <1>0, <1>2, <1>3, <1>5, LandedTypes
<1>7. Cancelled(s) => queue' \in Seq(T)
  <2>1. <<UnattemptedOp(s)>> \in Seq(T)
    BY <1>0
  <2> QED BY <1>1, <1>2, <1>3, <1>5, <2>1
<1>8. \/ TargetStarts(s) \/ TakeGate(s) \/ CreateRaises(s)
      \/ \E flush \in BOOLEAN : Yields(s, flush)
      \/ Marks(s) \/ BackoffEnds(s) \/ BudgetSpent(s)
      \/ \E st \in Settled : SubmitCutShort(s, st)
      => queue' = queue
  BY QuietTypes DEF wVars
<1> QED BY <1>4, <1>6, <1>7, <1>8 DEF TargetStep

\* StartRun and the targets that a cancel came before, in plan order.
LaunchOps(never) ==
    <<StartRunOp>> \o [i \in 1 .. Len(never) |-> UnattemptedOp(Plan[never[i]])]

NeverSpawned == {i \in 1 .. Len(Plan) : cancelled /\ Plan[i] \notin Skipped}

\* StartRun is the first of them, and every one of the others is a source's.
LEMMA LaunchQueue ==
    ASSUME NEW never \in InPlanOrder(NeverSpawned)
    PROVE  /\ LaunchOps(never) \in Seq(OpOf({"start", "unattempted"}))
           /\ Len(LaunchOps(never)) >= 1 /\ LaunchOps(never)[1] = StartRunOp
           /\ \A i \in 2 .. Len(LaunchOps(never)) : LaunchOps(never)[i].k = "unattempted"
           /\ \A s \in Sources : cancelled /\ s \notin Skipped =>
                 \E i \in 1 .. Len(LaunchOps(never)) :
                     LaunchOps(never)[i].k = "unattempted" /\ LaunchOps(never)[i].s = s
<1>1. PICK n \in 0 .. Len(Plan) : /\ never \in [1 .. n -> NeverSpawned]
                                  /\ {never[i] : i \in 1 .. n} = NeverSpawned
  BY DEF InPlanOrder
<1>2. n \in Nat /\ never \in Seq(NeverSpawned) /\ Len(never) = n
  <2>1. n \in Nat
    BY SchedulerAssumption
  <2> QED BY <1>1, <2>1
<1> DEFINE r == [i \in 1 .. n |-> UnattemptedOp(Plan[never[i]])]
           a == <<StartRunOp>>
           U == OpOf({"start", "unattempted"})
<1>3. LaunchOps(never) = a \o r
  BY <1>2 DEF LaunchOps
<1>4. \A i \in 1 .. n : /\ never[i] \in NeverSpawned
                        /\ Plan[never[i]] \in Sources
                        /\ r[i] = UnattemptedOp(Plan[never[i]])
  BY <1>1 DEF NeverSpawned, Sources
<1>5. \A s \in Sources : /\ UnattemptedOp(s) \in U
                         /\ UnattemptedOp(s).k = "unattempted" /\ UnattemptedOp(s).s = s
  BY DEF UnattemptedOp, Op, OpOf, OpType, OpFits, OpRec, Kinds, Words
<1>6. StartRunOp \in U
  BY DEF StartRunOp, Op, OpOf, OpType, OpFits, OpRec, Kinds, Words
<1>7. r \in Seq(U) /\ Len(r) = n
  BY <1>2, <1>4, <1>5
<1>8. a \in Seq(U) /\ Len(a) = 1 /\ a[1] = StartRunOp
  BY <1>6
<1> HIDE DEF r, a, U
<1>9. /\ a \o r \in Seq(U) /\ Len(a \o r) = 1 + n
      /\ \A i \in 1 .. 1 + n : (a \o r)[i] = IF i <= 1 THEN a[i] ELSE r[i - 1]
  <2>1. /\ a \o r \in Seq(U) /\ Len(a \o r) = Len(a) + Len(r)
        /\ \A i \in 1 .. Len(a) + Len(r) :
               (a \o r)[i] = IF i <= Len(a) THEN a[i] ELSE r[i - Len(a)]
    BY <1>7, <1>8, ConcatProperties
  <2> QED BY <1>7, <1>8, <2>1
<1>10. \A i \in 2 .. 1 + n : (a \o r)[i].k = "unattempted"
  <2> SUFFICES ASSUME NEW i \in 2 .. 1 + n PROVE (a \o r)[i].k = "unattempted"
    OBVIOUS
  <2>1. i - 1 \in 1 .. n /\ (a \o r)[i] = r[i - 1]
    BY <1>2, <1>9, SMTT(60)
  <2> QED BY <1>4, <1>5, <2>1
<1>11. ASSUME NEW s \in Sources, cancelled, s \notin Skipped
       PROVE  \E i \in 1 .. 1 + n : (a \o r)[i].k = "unattempted" /\ (a \o r)[i].s = s
  <2>1. PICK p \in 1 .. Len(Plan) : Plan[p] = s
    BY DEF Sources
  <2>2. p \in NeverSpawned
    BY <1>11, <2>1 DEF NeverSpawned
  <2>3. PICK i \in 1 .. n : never[i] = p
    BY <1>1, <2>2
  <2>4. i + 1 \in 1 .. 1 + n /\ (a \o r)[i + 1] = r[i]
    BY <1>2, <1>9
  <2>5. r[i] = UnattemptedOp(s)
    BY <1>4, <2>1, <2>3
  <2> QED BY <1>5, <2>4, <2>5
<1>12. 1 + n >= 1 /\ (a \o r)[1] = StartRunOp
  BY <1>2, <1>8, <1>9
<1> QED BY <1>3, <1>9, <1>10, <1>11, <1>12 DEF U

\* How the steps of the run and of the writer change the queue.
LEMMA RunQueue ==
    ASSUME TypeInv
    PROVE  /\ \/ \E again \in BOOLEAN : Start(again)
              \/ RecoverOrphans \/ Gathered \/ Closes \/ Cancel
              => queue' = queue
           /\ Crash \/ WriterFails \/ CloseTimesOut => queue' = <<>>
           /\ (\E nd \in SUBSET MayBeFresh : Preflight(nd)) => queue' \in {queue, <<>>}
           /\ Launch => \E never \in InPlanOrder(NeverSpawned) : queue' = Sent(LaunchOps(never))
           /\ Drained \/ (\E n \in 0 .. Len(queue) : DrainTimesOut(n)) =>
                \E n \in 0 .. Len(queue) :
                   queue' \in {SubSeq(queue, 1, n), Append(SubSeq(queue, 1, n), PresenceOp)}
           /\ FinishRun => queue' = Sent(<<FinishRunOp(status)>>)
           /\ WriterCommits => queue # <<>> /\ queue' = Tail(queue)
<1>1. \/ \E again \in BOOLEAN : Start(again)
      \/ RecoverOrphans \/ Gathered \/ Closes \/ Cancel
      => queue' = queue
  BY DEF Start, RecoverOrphans, Gathered, Closes, Cancel, wVars
<1>2. (\E nd \in SUBSET MayBeFresh : Preflight(nd)) => queue' \in {queue, <<>>}
  BY DEF Preflight, wVars
<1>3. Launch => \E never \in InPlanOrder(NeverSpawned) : queue' = Sent(LaunchOps(never))
  BY DEF Launch, LaunchOps, NeverSpawned
<1>4. Drained => queue' \in {SubSeq(queue, 1, 0), Append(SubSeq(queue, 1, 0), PresenceOp)}
  <2>1. SubSeq(queue, 1, 0) = <<>>
    BY DEF TypeInv, OpTypes
  <2> QED BY <2>1 DEF Drained, AfterDrain
<1>5. \A n \in 0 .. Len(queue) : DrainTimesOut(n) =>
          queue' \in {SubSeq(queue, 1, n), Append(SubSeq(queue, 1, n), PresenceOp)}
  BY DEF DrainTimesOut, AfterDrain
<1>6. 0 \in 0 .. Len(queue)
  BY LenProperties DEF TypeInv, OpTypes
<1>7. /\ Crash \/ WriterFails \/ CloseTimesOut => queue' = <<>>
      /\ FinishRun => queue' = Sent(<<FinishRunOp(status)>>)
      /\ WriterCommits => queue # <<>> /\ queue' = Tail(queue)
  BY DEF Crash, WriterFails, CloseTimesOut, FinishRun, WriterCommits
<1> QED BY <1>1, <1>2, <1>3, <1>4, <1>5, <1>6, <1>7

\* What is on its way is always of its type.
LEMMA OpTypesHold ==
    ASSUME TypeInv, Next
    PROVE  OpTypes'
<1>0. queue \in Seq(OpType) /\ <<>> \in Seq(OpType)
  BY QueueTypes DEF TypeInv, OpTypes
<1>1. \A ops \in Seq(OpType) : Sent(ops) \in Seq(OpType)
  BY <1>0, QueueTypes DEF Sent
<1>2. PresenceOp \in OpType
  BY DEF PresenceOp, Op, OpType, OpFits, OpRec, Kinds, Words
<1>3. \A n \in 0 .. Len(queue) : /\ SubSeq(queue, 1, n) \in Seq(OpType)
                                 /\ Append(SubSeq(queue, 1, n), PresenceOp) \in Seq(OpType)
  BY <1>0, <1>2, QueueTypes
<1>4. ASSUME Launch PROVE queue' \in Seq(OpType)
  <2>1. PICK never \in InPlanOrder(NeverSpawned) : queue' = Sent(LaunchOps(never))
    BY <1>4, RunQueue
  <2>2. LaunchOps(never) \in Seq(OpOf({"start", "unattempted"}))
    BY LaunchQueue
  <2>3. OpOf({"start", "unattempted"}) \subseteq OpType
    BY DEF OpOf
  <2>4. LaunchOps(never) \in Seq(OpType)
    BY <2>2, <2>3
  <2> QED BY <1>1, <2>1, <2>4
<1>5. ASSUME FinishRun PROVE queue' \in Seq(OpType)
  <2>1. FinishRunOp(status) \in OpType
    BY <1>5 DEF TypeInv, MemTypes, FinishRun, FinishRunOp, Op, OpType, OpFits, OpRec, Kinds,
                Words, Terminal
  <2>2. <<FinishRunOp(status)>> \in Seq(OpType)
    BY <2>1
  <2> QED BY <1>1, <1>5, <2>2, RunQueue
<1>6. ASSUME NEW s \in Sources, TargetStep(s) PROVE queue' \in Seq(OpType)
  <2>1. OpOf(TargetOps) \subseteq OpType
    BY DEF OpOf
  <2> QED BY <1>0, <1>6, <2>1, TargetQueue
<1>7. queue # <<>> => Tail(queue) \in Seq(OpType)
  BY <1>0, QueueTypes
<1>8. \/ \E again \in BOOLEAN : Start(again)
      \/ RecoverOrphans \/ Gathered \/ Closes \/ Cancel \/ Crash
      \/ \E nd \in SUBSET MayBeFresh : Preflight(nd)
      \/ WriterFails \/ CloseTimesOut
      => queue' \in Seq(OpType)
  BY <1>0, RunQueue
<1>9. Drained \/ (\E n \in 0 .. Len(queue) : DrainTimesOut(n)) => queue' \in Seq(OpType)
  BY <1>3, RunQueue
<1>10. WriterCommits => queue' \in Seq(OpType)
  BY <1>7, RunQueue
<1> QED BY <1>4, <1>5, <1>6, <1>8, <1>9, <1>10 DEF Next, RunStep, OpTypes

\* Nothing leaves its type, whatever overtakes what.
LEMMA TypeInvHolds == TypeInv /\ [Next]_vars => TypeInv'
<1> SUFFICES ASSUME TypeInv, [Next]_vars PROVE TypeInv'
  OBVIOUS
<1>1. CASE UNCHANGED vars
  <2>1. TaskTypes'
    BY <1>1, StillTargets DEF TypeInv, vars, memVars
  <2> QED BY <1>1, <2>1 DEF TypeInv, vars, memVars, wVars, dbVars, MemTypes, DbTypes, OpTypes
<1>2. CASE Next
  <2>1. ASSUME NEW s \in Sources, TargetStep(s) PROVE MemTypes' /\ TaskTypes' /\ DbTypes'
    <3>1. TaskTypes' /\ UNCHANGED <<lives, memVars, dead, dbVars>>
      BY <2>1, QuietTypes, HandingTypes DEF TargetStep, wVars
    <3> QED BY <3>1 DEF TypeInv, memVars, dbVars, MemTypes, DbTypes
  <2>2. MemTypes' /\ TaskTypes' /\ DbTypes'
    BY <1>2, <2>1, RunTypes, PreflightTypes, LaunchTypes, CommitTypes DEF Next, RunStep
  <2>3. OpTypes'
    BY <1>2, OpTypesHold
  <2> QED BY <2>2, <2>3 DEF TypeInv
<1> QED BY <1>1, <1>2

\* A run that was never started has nothing on its way.
LEMMA TypesInit == Init => TypeInv
<1> SUFFICES ASSUME Init PROVE TypeInv
  OBVIOUS
<1>1. /\ Len(Plan) \in Nat /\ MaxAttempts \in Nat /\ MaxLives \in Nat
      /\ \A s \in Sources : Len(Inventory[s]) \in Nat
  BY SchedulerAssumption
<1>2. MemTypes
  <2>1. lives \in 0 .. MaxLives
    BY <1>1 DEF Init
  <2>2. resuming \in BOOLEAN /\ cancelled \in BOOLEAN /\ dead \in BOOLEAN
    BY Zenon DEF Init
  <2>3. /\ run \in {"idle", "preflight", "launch", "gather", "drain", "pass", "close", "over"}
        /\ status \in Terminal \cup {"none"} /\ fresh \subseteq Sources
        /\ run \in {"drain", "pass", "close"} => status # "none"
    BY DEF Init
  <2> QED BY <2>1, <2>2, <2>3 DEF MemTypes
<1>3. TaskTypes
  BY <1>1 DEF Init, TaskTypes, TargetFits, Busy
<1>4. DbTypes
  BY <1>1 DEF Init, DbTypes, RowType
<1>5. OpTypes
  BY DEF Init, OpTypes
<1> QED BY <1>2, <1>3, <1>4, <1>5 DEF TypeInv

-----------------------------------------------------------------------------
(* Where the pass and the end of the run stand in the queue *)

Manned == {"gather", "drain", "pass", "close"}

Good == {"succeeded", "partial"}

PlainType == OpOf(TargetOps \cup {"start"})

\* What the run knows of presence is in the postings.
PresFresh ==
    /\ \A p \in seen : absence[p] = "present"
    /\ \A s \in Licensed : \A p \in Owned[s] \ seen : absence[p] # "present"

\* Nothing but the presence pass is behind what the targets sent, or it has
\* been made.
PassAhead(q) ==
    \/ q = <<>> /\ PresFresh
    \/ \E p \in Seq(PlainType) : q = Append(p, PresenceOp)

\* FinishRun is the last operation, and says succeeded or partial only behind
\* the presence pass.
EndsRun ==
    \E st \in Terminal : \E q \in Seq(OpType) :
        /\ queue = Append(q, FinishRunOp(st))
        /\ q \in Seq(PlainType) \/ PassAhead(q)
        /\ st \in Good => PassAhead(q)

PlaceInv ==
    /\ dead => queue = <<>>
    /\ run \notin Manned => queue = <<>>
    /\ run \in {"gather", "drain"} => queue \in Seq(PlainType)
    /\ run = "pass" =>
         /\ queue \in Seq(PlainType) \/ PassAhead(queue)
         /\ status \in Good /\ ~dead => PassAhead(queue)
    /\ run = "close" => queue = <<>> \/ EndsRun
    /\ runRow \in Terminal =>
         queue = <<>> /\ run \notin {"launch", "gather", "drain", "pass"}
    /\ runRow \in Good => PresFresh
    /\ run \in {"preflight", "launch"} /\ ~resuming => runRow = "absent"
    /\ run = "launch" /\ resuming => runRow = "interrupted"

\* The postings stay as they are told while no licence and no posting is new.
LEMMA FreshKept ==
    ASSUME UNCHANGED <<seen, absence>>, Licensed' = Licensed
    PROVE  /\ PresFresh => PresFresh'
           /\ \A q : PassAhead(q) => PassAhead(q)'
<1>1. PresFresh => PresFresh'
  BY DEF PresFresh
<1> QED BY <1>1 DEF PassAhead

\* Recovering orphans gives no licence and takes none.
LEMMA RecoveryLicences ==
    ASSUME DbTypes, rows' = RowsAfterRecovery(rows)
    PROVE  Licensed' = Licensed
<1>1. \A s \in Sources, n \in AttemptNos :
          rows'[s][n].st = "succeeded" <=> rows[s][n].st = "succeeded"
  BY RecoveryTypes
<1>2. Complete \subseteq Sources
  BY SchedulerAssumption
<1> QED BY <1>1, <1>2 DEF Licensed

\* The last operation stays the last while those before it commit.
LEMMA TailOfAppend ==
    ASSUME NEW T, NEW q \in Seq(T), NEW x \in T
    PROVE  /\ q = <<>> => Tail(Append(q, x)) = <<>> /\ Head(Append(q, x)) = x
           /\ q # <<>> => /\ Tail(Append(q, x)) = Append(Tail(q), x)
                          /\ Head(Append(q, x)) = Head(q)
           /\ Append(q, x) # <<>>
<1> DEFINE a == Append(q, x)
<1>1. /\ a \in Seq(T) /\ Len(a) = Len(q) + 1 /\ Len(q) \in Nat
      /\ \A i \in 1 .. Len(q) : a[i] = q[i]
      /\ a[Len(q) + 1] = x
  BY AppendProperties, LenProperties
<1>2. a # <<>> /\ Head(a) = a[1] /\ (q # <<>> => Len(q) >= 1 /\ Head(q) = q[1])
  BY <1>1, EmptySeq
<1> HIDE DEF a
<1>3. /\ Tail(a) \in Seq(T) /\ Len(Tail(a)) = Len(q)
      /\ \A i \in 1 .. Len(q) : Tail(a)[i] = a[i + 1]
  BY <1>1, <1>2, HeadTailProperties
<1>4. CASE q = <<>>
  <2>1. Len(q) = 0
    BY <1>4
  <2>2. Tail(a) = <<>>
    BY <1>3, <2>1, EmptySeq
  <2> QED BY <1>1, <1>2, <1>4, <2>1, <2>2 DEF a
<1>5. CASE q # <<>>
  <2> DEFINE b == Append(Tail(q), x)
  <2>1. /\ Tail(q) \in Seq(T) /\ Len(Tail(q)) = Len(q) - 1
        /\ \A i \in 1 .. Len(q) - 1 : Tail(q)[i] = q[i + 1]
    BY <1>5, HeadTailProperties
  <2>2. /\ b \in Seq(T) /\ Len(b) = Len(q)
        /\ \A i \in 1 .. Len(q) - 1 : b[i] = q[i + 1]
        /\ b[Len(q)] = x
    BY <1>1, <1>2, <2>1, AppendProperties
  <2> HIDE DEF b
  <2>3. \A i \in 1 .. Len(q) : Tail(a)[i] = b[i]
    BY <1>1, <1>3, <2>2, SMTT(60)
  <2>4. Tail(a) = b
    BY <1>3, <2>2, <2>3, SeqEqual
  <2> QED BY <1>1, <1>2, <1>5, <2>4 DEF a, b
<1> QED BY <1>4, <1>5

\* The steps of a target leave the run and its end alone.
LEMMA TargetPlaces ==
    ASSUME TypeInv, PlaceInv, NEW s \in Sources, TargetStep(s)
    PROVE  PlaceInv'
<1>1. UNCHANGED <<run, resuming, status, dead, runRow, rows, seen, absence>>
  BY QuietTypes, HandingTypes DEF TargetStep, memVars, wVars, dbVars
<1>2. task[s] # "done"
  <2>1. TargetStarts(s) \/ TakeGate(s) \/ AttemptBegins(s) \/ CreateRaises(s) => task[s] # "done"
    BY DEF TargetStarts, TakeGate, AttemptBegins, CreateRaises, Runs
  <2>2. (\E flush \in BOOLEAN : Yields(s, flush)) \/ Marks(s) \/ BatchLands(s) => task[s] # "done"
    BY DEF Yields, Marks, BatchLands, Runs
  <2>3. \/ StreamEnds(s) \/ StreamFails(s) \/ StreamFailsTransient(s) \/ BackoffEnds(s)
        \/ BudgetSpent(s) \/ DeadlineInStream(s)
        => task[s] # "done"
    BY DEF StreamEnds, StreamFails, StreamFailsTransient, BackoffEnds, BudgetSpent,
           DeadlineInStream, Runs
  <2>4. (\E st \in Settled : SubmitCutShort(s, st)) \/ StreamClosed(s) => task[s] # "done"
    BY DEF SubmitCutShort, StreamClosed, Runs
  <2>5. Cancelled(s) => task[s] # "done"
    BY DEF Cancelled, TypeInv, TaskTypes, TargetFits
  <2> QED BY <2>1, <2>2, <2>3, <2>4, <2>5 DEF TargetStep
<1>3. run = "gather"
  BY <1>2 DEF TypeInv, TaskTypes, TargetFits
<1>4. queue' \in Seq(PlainType)
  <2>1. OpOf(TargetOps) \subseteq PlainType
    BY DEF OpOf, PlainType
  <2> QED BY <1>3, <2>1, TargetQueue DEF PlaceInv
<1>5. dead => queue' = queue
  <2>1. dead => \A ops : Sent(ops) = queue
    BY DEF Sent
  <2>2. (~AttemptBegins(s) /\ ~BatchLands(s)) \/ ~dead
    BY DEF AttemptBegins, BatchLands
  <2>3. \A st : (Settle(s, st) \/ StreamFailsTransient(s)) /\ dead => queue' = queue
    BY <2>1 DEF Settle, StreamFailsTransient, Settling
  <2>4. Cancelled(s) /\ dead => queue' = queue
    BY <2>1 DEF Cancelled, SettlingCancelled, Settling
  <2>5. StreamEnds(s) \/ StreamFails(s) \/ DeadlineInStream(s) \/ StreamClosed(s)
        => \E st : Settle(s, st)
    BY DEF StreamEnds, StreamFails, DeadlineInStream, StreamClosed
  <2>6. \/ TargetStarts(s) \/ TakeGate(s) \/ CreateRaises(s)
        \/ \E flush \in BOOLEAN : Yields(s, flush)
        \/ Marks(s) \/ BackoffEnds(s) \/ BudgetSpent(s)
        \/ \E st \in Settled : SubmitCutShort(s, st)
        => queue' = queue
    BY QuietTypes DEF wVars
  <2> QED BY <2>2, <2>3, <2>4, <2>5, <2>6 DEF TargetStep
<1>6. runRow \notin Terminal
  BY <1>3 DEF PlaceInv
<1>7. Good \subseteq Terminal
  BY DEF Good, Terminal
<1> QED BY <1>1, <1>3, <1>4, <1>5, <1>6, <1>7 DEF PlaceInv, Manned

\* The presence pass tells the postings all that the run knows.
LEMMA PresenceMade ==
    ASSUME DbTypes, Commit(PresenceOp)
    PROVE  PresFresh'
<1>1. /\ rows' = rows /\ seen' = seen /\ absence' = Presence
  BY DEF Commit, PresenceOp, Op
<1>2. Licensed' = Licensed
  BY <1>1 DEF Licensed
<1>3. seen \subseteq Postings /\ \A s \in Licensed : Owned[s] \subseteq Postings
  BY SchedulerAssumption DEF DbTypes, Licensed
<1>4. \A p \in seen : Presence[p] = "present"
  BY <1>3 DEF Presence, Refreshed, Unseen
<1>5. \A s \in Licensed : \A p \in Owned[s] \ seen : Presence[p] # "present"
  BY <1>3 DEF Presence, Refreshed, Unseen
<1> QED BY <1>1, <1>2, <1>4, <1>5 DEF PresFresh

\* A commit brings the pass one place nearer.
LEMMA PassCommits ==
    ASSUME DbTypes, NEW q, q # <<>>, q \in Seq(PlainType) \/ PassAhead(q), Commit(Head(q))
    PROVE  /\ Head(q).k # "end"
           /\ q \in Seq(PlainType) => Tail(q) \in Seq(PlainType)
           /\ PassAhead(q) => PassAhead(Tail(q))'
<1>0. PresenceOp \in OpType /\ PresenceOp.k = "presence"
  BY DEF PresenceOp, Op, OpType, OpFits, OpRec, Kinds, Words
<1>1. \A o \in PlainType : o \in OpType /\ o.k # "end"
  BY DEF PlainType, OpOf, TargetOps
<1>2. q \in Seq(PlainType) => Head(q) \in PlainType /\ Tail(q) \in Seq(PlainType)
  BY HeadTailProperties
<1>3. ASSUME PassAhead(q) PROVE Head(q).k # "end" /\ PassAhead(Tail(q))'
  <2>1. PICK p \in Seq(PlainType) : q = Append(p, PresenceOp)
    BY <1>3 DEF PassAhead
  <2>2. p \in Seq(OpType)
    BY <1>1, SeqMonotonic
  <2>3. CASE p = <<>>
    <3>1. Head(q) = PresenceOp /\ Tail(q) = <<>>
      BY <1>0, <2>1, <2>2, <2>3, TailOfAppend
    <3>2. PresFresh'
      BY <3>1, PresenceMade
    <3> QED BY <1>0, <3>1, <3>2 DEF PassAhead
  <2>4. CASE p # <<>>
    <3>1. Head(q) = Head(p) /\ Tail(q) = Append(Tail(p), PresenceOp)
      BY <1>0, <2>1, <2>2, <2>4, TailOfAppend
    <3>2. Head(p) \in PlainType /\ Tail(p) \in Seq(PlainType)
      BY <2>4, HeadTailProperties
    <3>3. PassAhead(Tail(q))'
      BY <3>1, <3>2 DEF PassAhead
    <3> QED BY <1>1, <3>1, <3>2, <3>3
  <2> QED BY <2>3, <2>4
<1> QED BY <1>1, <1>2, <1>3

\* A commit keeps the order of what is left, and the run settles behind the pass.
LEMMA CommitPlaces ==
    ASSUME TypeInv, PlaceInv, WriterCommits
    PROVE  PlaceInv'
<1> DEFINE o == Head(queue)
<1>1. /\ queue # <<>> /\ queue' = Tail(queue) /\ Commit(o) /\ DbTypes
      /\ UNCHANGED <<run, resuming, status, dead>>
  BY DEF WriterCommits, memVars, TypeInv
<1>2. run \in Manned /\ ~dead /\ runRow \notin Terminal
  BY <1>1 DEF PlaceInv
<1>3. o.k # "end" => runRow' \notin Terminal
  BY <1>1, <1>2 DEF Commit, Terminal
<1>4. Good \subseteq Terminal
  BY DEF Good, Terminal
<1>5. \A q : q # <<>> /\ (q \in Seq(PlainType) \/ PassAhead(q)) /\ Head(q) = o =>
        /\ o.k # "end"
        /\ q \in Seq(PlainType) => Tail(q) \in Seq(PlainType)
        /\ PassAhead(q) => PassAhead(Tail(q))'
  BY <1>1, PassCommits
<1> HIDE DEF o
<1>6. CASE run \in {"gather", "drain"}
  <2>1. o.k # "end" /\ Tail(queue) \in Seq(PlainType)
    BY <1>1, <1>5, <1>6 DEF PlaceInv, o
  <2> QED BY <1>1, <1>2, <1>3, <1>4, <1>6, <2>1 DEF PlaceInv, Manned
<1>7. CASE run = "pass"
  <2>1. queue \in Seq(PlainType) \/ PassAhead(queue)
    BY <1>7 DEF PlaceInv
  <2>2. /\ o.k # "end"
        /\ queue \in Seq(PlainType) => queue' \in Seq(PlainType)
        /\ PassAhead(queue) => PassAhead(queue)'
    <3>1. /\ o.k # "end"
          /\ queue \in Seq(PlainType) => Tail(queue) \in Seq(PlainType)
          /\ PassAhead(queue) =>
               \/ Tail(queue) = <<>> /\ PresFresh'
               \/ \E p \in Seq(PlainType) : Tail(queue) = Append(p, PresenceOp)
      <4>1. ASSUME NEW q, q = queue
            PROVE  /\ o.k # "end"
                   /\ q \in Seq(PlainType) => Tail(q) \in Seq(PlainType)
                   /\ PassAhead(q) =>
                        \/ Tail(q) = <<>> /\ PresFresh'
                        \/ \E p \in Seq(PlainType) : Tail(q) = Append(p, PresenceOp)
        BY <1>1, <1>5, <2>1, <4>1 DEF o, PassAhead
      <4> QED BY <4>1
    <3> QED BY <1>1, <3>1 DEF PassAhead
  <2> QED BY <1>1, <1>2, <1>3, <1>4, <1>7, <2>1, <2>2 DEF PlaceInv, Manned
<1>8. CASE run = "close"
  <2>1. EndsRun
    BY <1>1, <1>8 DEF PlaceInv
  <2>2. PICK st \in Terminal, q \in Seq(OpType) :
            /\ queue = Append(q, FinishRunOp(st))
            /\ q \in Seq(PlainType) \/ PassAhead(q)
            /\ st \in Good => PassAhead(q)
    BY <2>1 DEF EndsRun
  <2>3. FinishRunOp(st) \in OpType /\ FinishRunOp(st).k = "end" /\ FinishRunOp(st).st = st
    BY DEF FinishRunOp, Op, OpType, OpFits, OpRec, Kinds, Words, Terminal
  <2>4. CASE q = <<>>
    <3>1. o = FinishRunOp(st) /\ queue' = <<>>
      BY <1>1, <2>2, <2>3, <2>4, TailOfAppend DEF o
    <3>2. runRow' = st /\ UNCHANGED <<rows, seen, absence>>
      BY <1>1, <2>3, <3>1 DEF Commit
    <3>3. st \in Good => PresFresh
      <4>1. \A p \in Seq(PlainType) : Append(p, PresenceOp) # <<>>
        OBVIOUS
      <4> QED BY <2>2, <2>4, <4>1 DEF PassAhead
    <3>4. st \in Good => PresFresh'
      BY <3>2, <3>3 DEF PresFresh, Licensed
    <3> QED BY <1>1, <1>2, <1>8, <3>1, <3>2, <3>4 DEF PlaceInv, Manned
  <2>5. CASE q # <<>>
    <3>1. o = Head(q) /\ queue' = Append(Tail(q), FinishRunOp(st)) /\ Tail(q) \in Seq(OpType)
      BY <1>1, <2>2, <2>3, <2>5, TailOfAppend, HeadTailProperties DEF o
    <3>2. /\ o.k # "end"
          /\ q \in Seq(PlainType) => Tail(q) \in Seq(PlainType)
          /\ PassAhead(q) => PassAhead(Tail(q))'
      BY <1>5, <2>2, <2>5, <3>1
    <3>3. EndsRun'
      BY <2>2, <3>1, <3>2 DEF EndsRun
    <3> QED BY <1>1, <1>2, <1>3, <1>4, <1>8, <3>2, <3>3 DEF PlaceInv, Manned
  <2> QED BY <2>4, <2>5
<1> QED BY <1>2, <1>6, <1>7, <1>8 DEF Manned

\* A run that is not manned has nothing on its way.
LEMMA RunPlaces ==
    ASSUME TypeInv, PlaceInv
    PROVE  \/ \E again \in BOOLEAN : Start(again)
           \/ RecoverOrphans \/ Gathered \/ Cancel \/ Crash
           \/ FinishRun \/ Closes \/ CloseTimesOut \/ WriterFails
           => PlaceInv'
<1>0. DbTypes /\ queue \in Seq(OpType) /\ <<>> \in Seq(PlainType)
  BY QueueTypes DEF TypeInv, OpTypes
<1>1. Good \subseteq Terminal /\ "interrupted" \notin Terminal /\ "absent" \notin Terminal
  BY DEF Good, Terminal
<1>2. ASSUME UNCHANGED <<rows, seen, absence>>
      PROVE  /\ PresFresh => PresFresh'
             /\ \A q : PassAhead(q) => PassAhead(q)'
  <2>1. Licensed' = Licensed
    BY <1>2 DEF Licensed
  <2> QED BY <1>2, <2>1, FreshKept
<1>3. ASSUME NEW again \in BOOLEAN, Start(again) PROVE PlaceInv'
  <2>1. /\ run \notin Manned /\ run' = "preflight" /\ resuming' = again
        /\ UNCHANGED <<queue, dead, runRow, rows, seen, absence>>
        /\ ~again => runRow = "absent"
    BY <1>3 DEF Start, Live, wVars, dbVars, Manned, TypeInv, MemTypes
  <2>2. queue = <<>>
    BY <2>1 DEF PlaceInv
  <2> QED BY <1>1, <1>2, <2>1, <2>2 DEF PlaceInv, Manned
<1>4. ASSUME RecoverOrphans PROVE PlaceInv'
  <2>1. /\ run \in {"idle", "over"}
        /\ UNCHANGED <<run, resuming, status, queue, dead, seen, absence>>
        /\ runRow' = IF runRow = "running" THEN "interrupted" ELSE runRow
        /\ rows' = RowsAfterRecovery(rows)
    BY <1>4 DEF RecoverOrphans, Live, memVars, wVars
  <2>2. queue = <<>>
    BY <2>1 DEF PlaceInv, Manned
  <2>3. PresFresh => PresFresh'
    BY <1>0, <2>1, RecoveryLicences, FreshKept
  <2> QED BY <1>1, <2>1, <2>2, <2>3 DEF PlaceInv, Manned
<1>5. ASSUME Gathered PROVE PlaceInv'
  <2>1. /\ run = "gather" /\ run' = "drain"
        /\ UNCHANGED <<resuming, queue, dead, runRow, rows, seen, absence>>
    BY <1>5 DEF Gathered, wVars, dbVars
  <2> QED BY <1>1, <2>1 DEF PlaceInv, Manned
<1>6. ASSUME Cancel PROVE PlaceInv'
  <2>1. UNCHANGED <<run, resuming, status, queue, dead, runRow, rows, seen, absence>>
    BY <1>6 DEF Cancel, wVars, dbVars
  <2>2. PassAhead(queue) => PassAhead(queue)'
    BY <1>2, <2>1 DEF PassAhead
  <2>3. EndsRun => EndsRun'
    BY <1>2, <2>1 DEF EndsRun
  <2> QED BY <1>2, <2>1, <2>2, <2>3 DEF PlaceInv
<1>7. ASSUME Crash PROVE PlaceInv'
  <2>1. /\ run' = "idle" /\ queue' = <<>> /\ ~dead'
        /\ UNCHANGED <<runRow, rows, seen, absence>>
    BY <1>7 DEF Crash, dbVars
  <2> QED BY <1>1, <1>2, <2>1 DEF PlaceInv, Manned
<1>8. ASSUME FinishRun PROVE PlaceInv'
  <2>1. /\ run = "pass" /\ run' = "close"
        /\ UNCHANGED <<resuming, status, dead, runRow, rows, seen, absence>>
        /\ queue' = Sent(<<FinishRunOp(status)>>)
    BY <1>8 DEF FinishRun, dbVars
  <2>2. runRow \notin Terminal
    BY <2>1 DEF PlaceInv
  <2>3. CASE dead
    BY <1>1, <2>1, <2>2, <2>3 DEF PlaceInv, Manned, Sent
  <2>4. CASE ~dead
    <3>1. status \in Terminal
      BY <2>1 DEF TypeInv, MemTypes
    <3>2. FinishRunOp(status) \in OpType
      BY <3>1 DEF FinishRunOp, Op, OpType, OpFits, OpRec, Kinds, Words, Terminal
    <3>3. queue' = Append(queue, FinishRunOp(status))
      BY <1>0, <2>1, <2>4, <3>2, AppendIsConcat DEF Sent
    <3>4. ASSUME NEW q, q = queue PROVE EndsRun'
      <4>1. /\ q \in Seq(OpType) /\ queue' = Append(q, FinishRunOp(status))
            /\ q \in Seq(PlainType) \/ PassAhead(q)
            /\ status \in Good => PassAhead(q)
        BY <1>0, <2>1, <2>4, <3>3, <3>4 DEF PlaceInv
      <4>2. PassAhead(q) => PassAhead(q)'
        BY <1>2, <2>1
      <4> QED BY <3>1, <4>1, <4>2 DEF EndsRun
    <3>5. EndsRun'
      BY <3>4
    <3> QED BY <1>1, <2>1, <2>2, <2>4, <3>5 DEF PlaceInv, Manned
  <2> QED BY <2>3, <2>4
<1>9. ASSUME Closes \/ CloseTimesOut PROVE PlaceInv'
  <2>1. /\ run = "close" /\ run' = "over" /\ queue' = <<>>
        /\ UNCHANGED <<resuming, status, dead, runRow, rows, seen, absence>>
    BY <1>9 DEF Closes, CloseTimesOut, wVars, dbVars
  <2> QED BY <1>1, <1>2, <2>1 DEF PlaceInv, Manned
<1>10. ASSUME WriterFails PROVE PlaceInv'
  <2>1. /\ dead' /\ queue' = <<>> /\ queue # <<>>
        /\ UNCHANGED <<run, resuming, status, runRow, rows, seen, absence>>
    BY <1>10 DEF WriterFails, memVars, dbVars
  <2>2. runRow \notin Terminal /\ run \in Manned
    BY <2>1 DEF PlaceInv
  <2> QED BY <1>0, <1>1, <2>1, <2>2 DEF PlaceInv, Manned
<1> QED BY <1>3, <1>4, <1>5, <1>6, <1>7, <1>8, <1>9, <1>10

\* A preflight goes on with a run that has not settled.
LEMMA PreflightPlaces ==
    ASSUME TypeInv, PlaceInv, NEW nd \in SUBSET MayBeFresh, Preflight(nd)
    PROVE  PlaceInv'
<1>0. DbTypes
  BY DEF TypeInv
<1>1. /\ run = "preflight" /\ run' \in {"over", "launch"}
      /\ runRow' = IF runRow = "running" THEN "interrupted" ELSE runRow
      /\ rows' = RowsAfterRecovery(rows)
      /\ resuming /\ runRow' # "interrupted" => run' = "over" /\ UNCHANGED <<queue, dead>>
      /\ ~(resuming /\ runRow' # "interrupted") => run' = "launch" /\ queue' = <<>> /\ ~dead'
      /\ UNCHANGED <<resuming, status, seen, absence>>
  BY DEF Preflight, wVars
<1>2. queue = <<>> /\ (~resuming => runRow = "absent")
  BY <1>1 DEF PlaceInv, Manned
<1>3. PresFresh => PresFresh'
  BY <1>0, <1>1, RecoveryLicences, FreshKept
<1>4. Good \subseteq Terminal /\ "interrupted" \notin Terminal /\ "absent" \notin Terminal
  BY DEF Good, Terminal
<1> QED BY <1>1, <1>2, <1>3, <1>4 DEF PlaceInv, Manned

\* The run opens its row ahead of everything its targets do.
LEMMA LaunchPlaces ==
    ASSUME TypeInv, PlaceInv, Launch
    PROVE  PlaceInv'
<1>1. /\ run = "launch" /\ run' = "gather" /\ queue = <<>> /\ runRow \notin Terminal
      /\ UNCHANGED <<resuming, status, dead, runRow, rows, seen, absence>>
  BY DEF Launch, dbVars, PlaceInv, Manned
<1>2. PICK never \in InPlanOrder(NeverSpawned) : queue' = Sent(LaunchOps(never))
  BY RunQueue
<1>3. OpOf({"start", "unattempted"}) \subseteq PlainType
  BY DEF OpOf, PlainType, TargetOps
<1>4. LaunchOps(never) \in Seq(PlainType)
  BY <1>3, LaunchQueue, SeqMonotonic
<1>5. queue' \in Seq(PlainType)
  BY <1>1, <1>2, <1>4, QueueTypes DEF Sent
<1>6. dead => queue' = <<>>
  BY <1>1, <1>2 DEF Sent
<1> QED BY <1>1, <1>5, <1>6 DEF PlaceInv, Manned, Good, Terminal

\* The pass goes out behind what is left of the targets' operations.
LEMMA DrainPlaces ==
    ASSUME TypeInv, PlaceInv, Drained \/ \E n \in 0 .. Len(queue) : DrainTimesOut(n)
    PROVE  PlaceInv'
<1>1. \E n \in 0 .. Len(queue) : AfterDrain(SubSeq(queue, 1, n)) /\ run = "drain"
  <2>1. queue = <<>> => SubSeq(queue, 1, 0) = queue /\ 0 \in 0 .. Len(queue)
    OBVIOUS
  <2> QED BY <2>1 DEF Drained, DrainTimesOut
<1>2. queue \in Seq(PlainType) /\ runRow \notin Terminal /\ (dead => queue = <<>>)
  BY <1>1 DEF PlaceInv
<1>3. PICK n \in 0 .. Len(queue) : AfterDrain(SubSeq(queue, 1, n))
  BY <1>1
<1> DEFINE q == SubSeq(queue, 1, n)
<1>4. q \in Seq(PlainType)
  BY <1>2, QueueTypes
<1>5. /\ run' = "pass" /\ status' = FinalStatus
      /\ queue' = IF PassLicensed(FinalStatus) THEN Append(q, PresenceOp) ELSE q
      /\ UNCHANGED <<resuming, dead, runRow, rows, seen, absence>>
  BY <1>3 DEF AfterDrain, dbVars
<1>6. dead => q = <<>>
  BY <1>2
<1> HIDE DEF q
<1>7. PassLicensed(FinalStatus) <=> FinalStatus \in Good /\ ~dead
  BY DEF PassLicensed, Good
<1>8. CASE PassLicensed(FinalStatus)
  <2>1. PassAhead(queue)'
    BY <1>4, <1>5, <1>8 DEF PassAhead
  <2> QED BY <1>2, <1>5, <1>7, <1>8, <2>1 DEF PlaceInv, Manned, Good, Terminal
<1>9. CASE ~PassLicensed(FinalStatus)
  <2>1. queue' = q
    BY <1>5, <1>9
  <2> QED BY <1>2, <1>4, <1>5, <1>6, <1>7, <1>9, <2>1 DEF PlaceInv, Manned, Good, Terminal
<1> QED BY <1>8, <1>9

\* Every step keeps the order at the end of the run.
LEMMA PlaceInvHolds == TypeInv /\ PlaceInv /\ [Next]_vars => PlaceInv'
<1> SUFFICES ASSUME TypeInv, PlaceInv, [Next]_vars PROVE PlaceInv'
  OBVIOUS
<1>1. CASE UNCHANGED vars
  <2>1. UNCHANGED <<run, resuming, status, queue, dead, runRow, rows, seen, absence>>
    BY <1>1 DEF vars, memVars, wVars, dbVars
  <2>2. Licensed' = Licensed
    BY <2>1 DEF Licensed
  <2>3. PresFresh <=> PresFresh'
    BY <2>1, <2>2 DEF PresFresh
  <2>4. PassAhead(queue) => PassAhead(queue)'
    BY <2>1, <2>3 DEF PassAhead
  <2>5. EndsRun => EndsRun'
    BY <2>1, <2>3 DEF EndsRun, PassAhead
  <2> QED BY <2>1, <2>3, <2>4, <2>5 DEF PlaceInv
<1>2. CASE Next
  BY <1>2, RunPlaces, PreflightPlaces, LaunchPlaces, DrainPlaces, TargetPlaces, CommitPlaces
     DEF Next, RunStep
<1> QED BY <1>1, <1>2

\* A run that was never started has not settled.
LEMMA PlaceInit == Init => PlaceInv
  BY DEF Init, PlaceInv, Manned, Good, Terminal

\* A run that settled as succeeded or partial has told the postings what it
\* knows of presence (PRESENCE_PASS_RUN_STATUSES), whatever overtakes what.
THEOREM PresenceIsSettled == Spec => []PresenceSettled
<1>1. Init => TypeInv /\ PlaceInv
  BY TypesInit, PlaceInit
<1>2. TypeInv /\ PlaceInv /\ [Next]_vars => (TypeInv /\ PlaceInv)'
  BY TypeInvHolds, PlaceInvHolds
<1>3. TypeInv /\ PlaceInv => PresenceSettled
  BY DEF PlaceInv, PresFresh, Good, PresenceSettled
<1> QED BY <1>1, <1>2, <1>3, PTL DEF Spec

-----------------------------------------------------------------------------
(* The turns of the operations about one attempt: created, then progress, *)
(* then its end; and an attempt behind the end of the one before it       *)

Concluding == {"failed", "timeout", "cancelled", "interrupted"}

Attempting == {"create", "batch", "finish"}

RowsType == [Sources -> [AttemptNos -> RowType]]

About(o, s, n) == o.k \in Attempting /\ o.s = s /\ o.a = n

Creates(o, s, n) == o.k = "create" /\ o.s = s /\ o.a = n

Ends(o, s, n) == o.k = "finish" /\ o.s = s /\ o.a = n

\* Attempt n of s runs, or is created by one of the first i operations.
Underway(q, i, rs, s, n) ==
    rs[s][n].st = "running" \/ \E h \in 1 .. i : Creates(q[h], s, n)

\* Attempt n of s is over without success, or is ended so among the first i.
Concluded(q, i, rs, s, n) ==
    \/ rs[s][n].st \in Concluding
    \/ \E h \in 1 .. i : Ends(q[h], s, n) /\ q[h].st # "succeeded"

\* Operation o may stand behind the first i of q: top is the newest attempt of
\* each source, rs and rr are the tables.
InTurn(q, i, o, top, rs, rr) ==
    /\ o.k = "start" =>
         /\ i = 0
         /\ \/ o.st = "new" /\ rr = "absent"
            \/ o.st = "resume" /\ rr = "interrupted"
    /\ o.k \in Attempting =>
         /\ o.a \in AttemptNos /\ o.a <= top[o.s]
         /\ \A h \in 1 .. i : ~Ends(q[h], o.s, o.a)
    /\ o.k = "create" =>
         /\ rs[o.s][o.a].st = "none"
         /\ \A h \in 1 .. i : ~About(q[h], o.s, o.a)
         /\ o.a > 1 => Concluded(q, i, rs, o.s, o.a - 1)
         /\ rr = "absent" => i > 0 /\ q[1].k = "start"
    /\ o.k \in {"batch", "finish"} => Underway(q, i, rs, o.s, o.a)

Turns(q, top, rs, rr) == \A i \in 1 .. Len(q) : InTurn(q, i - 1, q[i], top, rs, rr)

\* Only what stands ahead counts.
LEMMA SameAhead ==
    ASSUME NEW p, NEW q, NEW i \in Nat, \A h \in 1 .. i : p[h] = q[h], NEW o, NEW top, NEW rs, NEW rr,
           InTurn(p, i, o, top, rs, rr)
    PROVE  InTurn(q, i, o, top, rs, rr)
<1>1. \A s, n : Underway(p, i, rs, s, n) => Underway(q, i, rs, s, n)
  BY DEF Underway
<1>2. \A s, n : Concluded(p, i, rs, s, n) => Concluded(q, i, rs, s, n)
  BY DEF Concluded
<1>3. i > 0 => p[1] = q[1]
  OBVIOUS
<1> QED BY <1>1, <1>2, <1>3 DEF InTurn

\* An operation in its turn goes behind, and takes nothing from the others.
LEMMA TurnsAppend ==
    ASSUME NEW q \in Seq(OpType), NEW o \in OpType, NEW top, NEW rs, NEW rr,
           Turns(q, top, rs, rr), InTurn(q, Len(q), o, top, rs, rr)
    PROVE  /\ Turns(Append(q, o), top, rs, rr)
           /\ \A s, n : Underway(q, Len(q), rs, s, n) =>
                 Underway(Append(q, o), Len(Append(q, o)), rs, s, n)
           /\ \A s, n : Concluded(q, Len(q), rs, s, n) =>
                 Concluded(Append(q, o), Len(Append(q, o)), rs, s, n)
           /\ \A s, n : (\A h \in 1 .. Len(q) : ~Ends(q[h], s, n)) /\ ~Ends(o, s, n) =>
                 \A h \in 1 .. Len(Append(q, o)) : ~Ends(Append(q, o)[h], s, n)
           /\ \A s, n : Creates(o, s, n) =>
                 Underway(Append(q, o), Len(Append(q, o)), rs, s, n)
           /\ \A s, n : Ends(o, s, n) /\ o.st # "succeeded" =>
                 Concluded(Append(q, o), Len(Append(q, o)), rs, s, n)
<1> DEFINE a == Append(q, o)
<1>1. /\ a \in Seq(OpType) /\ Len(a) = Len(q) + 1 /\ Len(q) \in Nat
      /\ \A i \in 1 .. Len(q) : a[i] = q[i]
      /\ a[Len(q) + 1] = o
  BY AppendProperties, LenProperties
<1> HIDE DEF a
<1>2. ASSUME NEW i \in 1 .. Len(a) PROVE InTurn(a, i - 1, a[i], top, rs, rr)
  <2>1. i - 1 \in Nat /\ \A h \in 1 .. i - 1 : q[h] = a[h]
    BY <1>1
  <2>2. InTurn(q, i - 1, a[i], top, rs, rr)
    <3>1. CASE i <= Len(q)
      BY <1>1, <3>1 DEF Turns
    <3>2. CASE i = Len(q) + 1
      BY <1>1, <3>2
    <3> QED BY <1>1, <3>1, <3>2
  <2> QED BY <2>1, <2>2, SameAhead
<1>3. \A s, n : Underway(q, Len(q), rs, s, n) => Underway(a, Len(a), rs, s, n)
  BY <1>1 DEF Underway
<1>4. \A s, n : Concluded(q, Len(q), rs, s, n) => Concluded(a, Len(a), rs, s, n)
  BY <1>1 DEF Concluded
<1>5. \A s, n : (\A h \in 1 .. Len(q) : ~Ends(q[h], s, n)) /\ ~Ends(o, s, n) =>
          \A h \in 1 .. Len(a) : ~Ends(a[h], s, n)
  BY <1>1
<1>6. \A s, n : Creates(o, s, n) => Underway(a, Len(a), rs, s, n)
  BY <1>1 DEF Underway
<1>7. \A s, n : Ends(o, s, n) /\ o.st # "succeeded" => Concluded(a, Len(a), rs, s, n)
  BY <1>1 DEF Concluded
<1> QED BY <1>2, <1>3, <1>4, <1>5, <1>6, <1>7 DEF a, Turns

\* A first part of the queue keeps its turns.
LEMMA TurnsPrefix ==
    ASSUME NEW q \in Seq(OpType), NEW top, NEW rs, NEW rr, Turns(q, top, rs, rr),
           NEW n \in 0 .. Len(q)
    PROVE  Turns(SubSeq(q, 1, n), top, rs, rr)
<1> DEFINE p == SubSeq(q, 1, n)
<1>1. n \in Int /\ \A i \in 1 .. n : q[i] \in OpType
  BY LenProperties, ElementOfSeq
<1>2. Len(p) = n /\ \A i \in 1 .. n : p[i] = q[i]
  BY <1>1, SubSeqProperties
<1> HIDE DEF p
<1>3. ASSUME NEW i \in 1 .. n PROVE InTurn(p, i - 1, p[i], top, rs, rr)
  <2>1. i \in 1 .. Len(q) /\ i - 1 \in Nat /\ \A h \in 1 .. i - 1 : q[h] = p[h]
    BY <1>1, <1>2, LenProperties
  <2>2. InTurn(q, i - 1, p[i], top, rs, rr)
    BY <1>2, <2>1 DEF Turns
  <2> QED BY <2>1, <2>2, SameAhead
<1> QED BY <1>2, <1>3 DEF Turns, p

\* A newer attempt takes nothing from what is queued.
LEMMA TurnsRaised ==
    ASSUME NEW q \in Seq(OpType), NEW top \in [Sources -> Int], NEW up \in [Sources -> Int],
           NEW rs, NEW rr, Turns(q, top, rs, rr), \A s \in Sources : top[s] <= up[s]
    PROVE  Turns(q, up, rs, rr)
<1> SUFFICES ASSUME NEW i \in 1 .. Len(q) PROVE InTurn(q, i - 1, q[i], up, rs, rr)
  BY DEF Turns
<1>1. InTurn(q, i - 1, q[i], top, rs, rr) /\ q[i] \in OpType
  BY ElementOfSeq DEF Turns
<1>2. q[i].k \in Attempting => q[i].s \in Sources /\ q[i].a \in Int
  BY <1>1 DEF OpType, OpFits, OpRec, Attempting
<1>3. q[i].k \in Attempting /\ q[i].a <= top[q[i].s] => q[i].a <= up[q[i].s]
  BY <1>2
<1> QED BY <1>1, <1>3 DEF InTurn

\* What the commit of o makes of the rows.
Committed(o, rs, rs2) ==
    \A s \in Sources, n \in AttemptNos :
        rs2[s][n].st = IF Creates(o, s, n) THEN "running"
                       ELSE IF Ends(o, s, n) /\ rs[s][n].st = "running" THEN o.st
                       ELSE rs[s][n].st

\* What is underway or concluded stays so, or its operation has committed.
LEMMA CommitShifts ==
    ASSUME NEW q \in Seq(OpType), q # <<>>, NEW top, NEW rs \in RowsType, NEW rs2 \in RowsType,
           NEW rr, InTurn(q, 0, q[1], top, rs, rr), Committed(q[1], rs, rs2),
           NEW s \in Sources, NEW n \in AttemptNos, NEW i \in 0 .. Len(q) - 1
    PROVE  /\ Underway(q, i + 1, rs, s, n) /\ ~Ends(q[1], s, n) => Underway(Tail(q), i, rs2, s, n)
           /\ Concluded(q, i + 1, rs, s, n) => Concluded(Tail(q), i, rs2, s, n)
<1> DEFINE p == Tail(q)
<1>1. /\ p \in Seq(OpType) /\ Len(p) = Len(q) - 1 /\ Len(q) \in Nat
      /\ \A h \in 1 .. Len(p) : p[h] = q[h + 1]
      /\ Len(q) >= 1 /\ q[1] \in OpType
  BY HeadTailProperties, LenProperties, EmptySeq, ElementOfSeq
<1> HIDE DEF p
<1>2. \A h \in 1 .. i + 1 : h = 1 \/ (h - 1 \in 1 .. i /\ p[h - 1] = q[h])
  BY <1>1
<1>3. ASSUME Underway(q, i + 1, rs, s, n), ~Ends(q[1], s, n)
      PROVE  Underway(p, i, rs2, s, n)
  <2>1. CASE rs[s][n].st = "running"
    BY <1>3, <2>1 DEF Committed, Underway
  <2>2. CASE \E h \in 1 .. i + 1 : Creates(q[h], s, n)
    <3>1. PICK h \in 1 .. i + 1 : Creates(q[h], s, n)
      BY <2>2
    <3>2. CASE h = 1
      BY <3>1, <3>2 DEF Committed, Underway
    <3>3. CASE h # 1
      BY <1>2, <3>1, <3>3 DEF Underway
    <3> QED BY <3>2, <3>3
  <2> QED BY <1>3, <2>1, <2>2 DEF Underway
<1>4. ASSUME Concluded(q, i + 1, rs, s, n)
      PROVE  Concluded(p, i, rs2, s, n)
  <2>1. CASE rs[s][n].st \in Concluding
    <3>1. rs[s][n].st # "none" /\ rs[s][n].st # "running"
      BY <2>1 DEF Concluding
    <3>2. ~Creates(q[1], s, n)
      BY <3>1 DEF InTurn, Creates
    <3> QED BY <2>1, <3>1, <3>2 DEF Committed, Concluded
  <2>2. CASE \E h \in 1 .. i + 1 : Ends(q[h], s, n) /\ q[h].st # "succeeded"
    <3>1. PICK h \in 1 .. i + 1 : Ends(q[h], s, n) /\ q[h].st # "succeeded"
      BY <2>2
    <3>2. CASE h = 1
      <4>1. Ends(q[1], s, n) /\ q[1].st # "succeeded" /\ ~Creates(q[1], s, n)
        BY <3>1, <3>2 DEF Ends, Creates
      <4>2. rs[s][n].st = "running"
        BY <4>1 DEF InTurn, Underway, Ends
      <4>3. q[1].st \in Concluding
        BY <1>1, <4>1 DEF OpType, OpFits, Ends, Settled, Concluding
      <4> QED BY <4>1, <4>2, <4>3 DEF Committed, Concluded
    <3>3. CASE h # 1
      BY <1>2, <3>1, <3>3 DEF Concluded
    <3> QED BY <3>2, <3>3
  <2> QED BY <1>4, <2>1, <2>2 DEF Concluded
<1> QED BY <1>3, <1>4 DEF p

\* A commit keeps the turns of those behind it.
LEMMA TurnsCommit ==
    ASSUME NEW q \in Seq(OpType), q # <<>>, NEW top, NEW rs \in RowsType, NEW rs2 \in RowsType,
           NEW rr, NEW rr2, Turns(q, top, rs, rr), Committed(q[1], rs, rs2),
           rr2 = "absent" => rr = "absent" /\ q[1].k # "start"
    PROVE  Turns(Tail(q), top, rs2, rr2)
<1> DEFINE p == Tail(q)
<1>1. /\ p \in Seq(OpType) /\ Len(p) = Len(q) - 1 /\ Len(q) \in Nat
      /\ \A h \in 1 .. Len(p) : p[h] = q[h + 1]
      /\ Len(q) >= 1
  BY HeadTailProperties, LenProperties, EmptySeq
<1>0. InTurn(q, 0, q[1], top, rs, rr)
  <2>1. 1 \in 1 .. Len(q) /\ 1 - 1 = 0
    BY <1>1
  <2> QED BY <2>1 DEF Turns
<1> HIDE DEF p
<1> SUFFICES ASSUME NEW i \in 1 .. Len(p) PROVE InTurn(p, i - 1, p[i], top, rs2, rr2)
  BY DEF Turns, p
<1> DEFINE x == p[i]
<1>2. /\ x = q[i + 1] /\ i + 1 \in 1 .. Len(q) /\ x \in OpType /\ i \in 1 .. Len(q) - 1
      /\ i - 1 \in 0 .. Len(q) - 1
      /\ \A h \in 1 .. i - 1 : h + 1 \in 1 .. i /\ p[h] = q[h + 1]
  BY <1>1, ElementOfSeq
<1>3. InTurn(q, i, x, top, rs, rr)
  <2>1. (i + 1) - 1 = i
    OBVIOUS
  <2> QED BY <1>2, <2>1 DEF Turns
<1> HIDE DEF x
<1>4. x.k \in Attempting => x.s \in Sources /\ x.a \in AttemptNos /\ x.a \in Int
  BY <1>2, <1>3 DEF InTurn, OpType, OpFits, OpRec, Attempting
<1>5. x.k # "start"
  BY <1>2, <1>3 DEF InTurn
<1>6. x.k \in Attempting =>
          /\ x.a <= top[x.s] /\ ~Ends(q[1], x.s, x.a)
          /\ \A h \in 1 .. i - 1 : ~Ends(p[h], x.s, x.a)
  BY <1>2, <1>3 DEF InTurn
<1>7. ASSUME x.k = "create"
      PROVE  /\ rs2[x.s][x.a].st = "none"
             /\ \A h \in 1 .. i - 1 : ~About(p[h], x.s, x.a)
             /\ x.a > 1 => Concluded(p, i - 1, rs2, x.s, x.a - 1)
             /\ rr2 # "absent"
  <2>0. x.s \in Sources /\ x.a \in AttemptNos /\ x.a \in Int
    BY <1>4, <1>7 DEF Attempting
  <2>1. /\ rs[x.s][x.a].st = "none"
        /\ \A h \in 1 .. i : ~About(q[h], x.s, x.a)
        /\ x.a > 1 => Concluded(q, i, rs, x.s, x.a - 1)
        /\ rr = "absent" => q[1].k = "start"
    BY <1>3, <1>7 DEF InTurn
  <2>2. ~About(q[1], x.s, x.a) /\ \A h \in 1 .. i - 1 : ~About(p[h], x.s, x.a)
    BY <1>2, <2>1
  <2>3. ~Creates(q[1], x.s, x.a) /\ ~Ends(q[1], x.s, x.a)
    BY <2>2 DEF About, Attempting, Creates, Ends
  <2>4. rs2[x.s][x.a].st = "none"
    BY <2>0, <2>1, <2>3 DEF Committed
  <2>5. ASSUME x.a > 1 PROVE Concluded(p, i - 1, rs2, x.s, x.a - 1)
    <3>1. x.a - 1 \in AttemptNos
      BY <2>0, <2>5, SchedulerAssumption DEF AttemptNos
    <3>2. Concluded(q, (i - 1) + 1, rs, x.s, x.a - 1)
      <4>1. (i - 1) + 1 = i
        OBVIOUS
      <4> QED BY <2>1, <2>5, <4>1
    <3> QED BY <1>0, <1>2, <2>0, <3>1, <3>2, CommitShifts DEF p
  <2>6. rr2 # "absent"
    BY <2>1
  <2> QED BY <2>2, <2>4, <2>5, <2>6
<1>8. ASSUME x.k \in {"batch", "finish"} PROVE Underway(p, i - 1, rs2, x.s, x.a)
  <2>1. Underway(q, (i - 1) + 1, rs, x.s, x.a)
    <3>1. (i - 1) + 1 = i
      OBVIOUS
    <3> QED BY <1>3, <1>8, <3>1 DEF InTurn
  <2>2. x.s \in Sources /\ x.a \in AttemptNos /\ ~Ends(q[1], x.s, x.a)
    BY <1>4, <1>6, <1>8 DEF Attempting
  <2> QED BY <1>0, <1>2, <2>1, <2>2, CommitShifts DEF p
<1>9. InTurn(p, i - 1, x, top, rs2, rr2)
  BY <1>4, <1>5, <1>6, <1>7, <1>8 DEF InTurn
<1> QED BY <1>9 DEF x

-----------------------------------------------------------------------------
(* The tables and the hands of the targets *)

\* The newest attempt of each source.
Top == [s \in Sources |-> Attempt(s)]

QueueInv == Turns(queue, Top, rows, runRow)

\* The starts whose attempts may have a row.
Lived == IF run = "preflight" THEN lives - 1 ELSE lives

\* As many attempts as that many starts make.
Cap(l) == MaxAttempts * l

Planned == Manned \cup {"launch"}

RowsInv ==
    /\ \A s \in Sources, n \in AttemptNos : rows[s][n].st # "none" =>
         /\ runRow # "absent"
         /\ n <= Cap(Lived)
         /\ run \in Planned => n <= Attempt(s)
    /\ run \in Planned => \A s \in Sources : offset[s] <= Cap(lives - 1)
    /\ Live => lives >= 1
    /\ run = "launch" =>
         \A s \in Sources :
            /\ \A n \in AttemptNos : rows[s][n].st # "running"
            /\ offset[s] \in AttemptNos \cup {0}
            /\ offset[s] > 0 => resuming /\ rows[s][offset[s]].st # "none"

\* A target in state t whose newest attempt is n.
HandOf(q, rs, s, t, n) ==
    /\ t \in Busy =>
         /\ n \in AttemptNos /\ Underway(q, Len(q), rs, s, n)
         /\ \A h \in 1 .. Len(q) : ~Ends(q[h], s, n)
    /\ t \in {"spawned", "gate", "create", "backoff"} /\ n > 0 =>
         n \in AttemptNos /\ Concluded(q, Len(q), rs, s, n)

\* StartRun has committed or is the first to.
Opened(q, rr) == rr = "absent" => q # <<>> /\ q[1].k = "start"

HandsInv ==
    run = "gather" /\ ~dead =>
        /\ Opened(queue, runRow)
        /\ \A s \in Sources : HandOf(queue, rows, s, task[s], Attempt(s))

TablesInv == QueueInv /\ RowsInv /\ HandsInv /\ AttemptsInTurn

\* How many attempts a number of starts can make.
LEMMA Caps ==
    /\ MaxAttempts \in Nat /\ MaxLives \in Nat
    /\ AttemptNos = 1 .. Cap(MaxLives)
    /\ \A l \in Nat : Cap(l) \in Nat
    /\ \A l \in Nat : Cap(l + 1) = Cap(l) + MaxAttempts
    /\ \A l, m \in Nat : l <= m => Cap(l) <= Cap(m)
<1>1. MaxAttempts \in Nat /\ MaxLives \in Nat
  BY SchedulerAssumption
<1>2. \A l \in Nat : Cap(l) \in Nat
  BY <1>1 DEF Cap
<1>3. \A l \in Nat : Cap(l + 1) = Cap(l) + MaxAttempts
  BY <1>1 DEF Cap
<1>4. ASSUME NEW l \in Nat, NEW m \in Nat, l <= m PROVE Cap(l) <= Cap(m)
  <2> DEFINE d == m - l
  <2>1. d \in Nat /\ m = l + d
    BY <1>4
  <2>2. MaxAttempts * m = MaxAttempts * l + MaxAttempts * d /\ MaxAttempts * d \in Nat
    BY <1>1, <2>1
  <2>3. MaxAttempts * l \in Nat
    BY <1>1
  <2> QED BY <2>2, <2>3 DEF Cap
<1> QED BY <1>1, <1>2, <1>3, <1>4 DEF AttemptNos, Cap

\* What goes behind the queue takes nothing out of a target's hands but the
\* attempt it ends.
LEMMA HandAppend ==
    ASSUME NEW q \in Seq(OpType), NEW o \in OpType, NEW rs, NEW s, NEW t, NEW n,
           HandOf(q, rs, s, t, n), t \in Busy => ~Ends(o, s, n)
    PROVE  HandOf(Append(q, o), rs, s, t, n)
<1> DEFINE a == Append(q, o)
<1>1. /\ Len(a) = Len(q) + 1 /\ Len(q) \in Nat
      /\ \A j \in 1 .. Len(q) : a[j] = q[j]
      /\ a[Len(q) + 1] = o
  BY AppendProperties, LenProperties
<1> HIDE DEF a
<1>2. Underway(q, Len(q), rs, s, n) => Underway(a, Len(a), rs, s, n)
  BY <1>1 DEF Underway
<1>3. Concluded(q, Len(q), rs, s, n) => Concluded(a, Len(a), rs, s, n)
  BY <1>1 DEF Concluded
<1>4. (\A h \in 1 .. Len(q) : ~Ends(q[h], s, n)) /\ ~Ends(o, s, n) =>
          \A h \in 1 .. Len(a) : ~Ends(a[h], s, n)
  BY <1>1
<1>5. HandOf(a, rs, s, t, n)
  BY <1>2, <1>3, <1>4 DEF HandOf
<1> QED BY <1>5 DEF a

LEMMA OpenedAppend ==
    ASSUME NEW q \in Seq(OpType), NEW o \in OpType, NEW rr, Opened(q, rr)
    PROVE  Opened(Append(q, o), rr)
<1>1. q # <<>> => Append(q, o)[1] = q[1] /\ Append(q, o) # <<>>
  BY AppendProperties, LenProperties, EmptySeq
<1> QED BY <1>1 DEF Opened

\* Nor does a commit.
LEMMA HandCommit ==
    ASSUME NEW q \in Seq(OpType), q # <<>>, NEW top, NEW rs \in RowsType, NEW rs2 \in RowsType,
           NEW rr, Turns(q, top, rs, rr), Committed(q[1], rs, rs2),
           NEW s \in Sources, NEW t, NEW n \in Int,
           HandOf(q, rs, s, t, n)
    PROVE  HandOf(Tail(q), rs2, s, t, n)
<1> DEFINE p == Tail(q)
<1>1. /\ p \in Seq(OpType) /\ Len(p) = Len(q) - 1 /\ Len(q) \in Nat
      /\ \A h \in 1 .. Len(p) : p[h] = q[h + 1]
      /\ Len(q) >= 1
  BY HeadTailProperties, LenProperties, EmptySeq
<1>2. InTurn(q, 0, q[1], top, rs, rr)
  <2>1. 1 \in 1 .. Len(q) /\ 1 - 1 = 0
    BY <1>1
  <2> QED BY <2>1 DEF Turns
<1>3. Len(p) \in 0 .. Len(q) - 1 /\ Len(p) + 1 = Len(q)
  BY <1>1
<1> HIDE DEF p
<1>4. n \in AttemptNos =>
        /\ Underway(q, Len(q), rs, s, n) /\ ~Ends(q[1], s, n) => Underway(p, Len(p), rs2, s, n)
        /\ Concluded(q, Len(q), rs, s, n) => Concluded(p, Len(p), rs2, s, n)
  BY <1>2, <1>3, CommitShifts DEF p
<1>5. (\A h \in 1 .. Len(q) : ~Ends(q[h], s, n)) =>
        ~Ends(q[1], s, n) /\ \A h \in 1 .. Len(p) : ~Ends(p[h], s, n)
  BY <1>1
<1>6. HandOf(p, rs2, s, t, n)
  BY <1>4, <1>5 DEF HandOf
<1> QED BY <1>6 DEF p

Waiting == {"spawned", "gate", "create", "backoff"}

-----------------------------------------------------------------------------
(* What a step of a target does, when nothing overtakes *)

\* An attempt begins, and its row is on its way.
Begins(s) ==
    /\ ~dead /\ task[s] = "create" /\ task'[s] = "stream"
    /\ index[s] < MaxAttempts /\ index'[s] = index[s] + 1
    /\ queue' = Append(queue, CreateOp(s, offset[s] + index[s] + 1))

\* A batch is on its way.
Lands(s) ==
    /\ ~dead /\ task[s] = "submit" /\ task'[s] = "stream" /\ index'[s] = index[s]
    /\ queue' = Append(queue, BatchOp(s, Attempt(s), FALSE))

\* An attempt is settled, for good or for a retry.
Settles(s) ==
    /\ task[s] \in Busy /\ index'[s] = index[s]
    /\ \E st \in Settled :
         /\ queue' = Settling(s, st)
         /\ task'[s] = "done" \/ (task'[s] = "backoff" /\ st = "failed")

\* It goes on without the writer.
Moves(s) ==
    /\ index'[s] = index[s] /\ queue' = queue
    /\ \/ task'[s] = task[s]
       \/ task[s] \in Busy /\ task'[s] \in Busy
       \/ task[s] \in Waiting /\ task'[s] \in Waiting

\* It returns from outside an attempt.
Leaves(s) ==
    /\ task[s] \in Waiting /\ task'[s] = "done" /\ index'[s] = index[s]
    /\ \/ queue' = Sent(<<UnattemptedOp(s)>>)
       \/ queue' = queue /\ (dead \/ s \in vanished' \/ index[s] > 0)

TargetEffect(s) ==
    /\ run = "gather"
    /\ UNCHANGED <<lives, memVars, dead, dbVars, gaveUp, offset>>
    /\ vanished \subseteq vanished'
    /\ \A t \in Sources \ {s} : task'[t] = task[t] /\ index'[t] = index[t]
    /\ Begins(s) \/ Lands(s) \/ Settles(s) \/ Moves(s) \/ Leaves(s)

LEMMA TargetEffects ==
    ASSUME TypeInv, ~MayOvertake, NEW s \in Sources
    PROVE  TargetStep(s) => TargetEffect(s)
<1> USE DEF Runs
<1>0. /\ task \in [Sources -> TaskStates] /\ index \in [Sources -> 0 .. MaxAttempts]
      /\ TargetFits(s) /\ index[s] \in 0 .. MaxAttempts /\ MaxAttempts \in Nat
  BY SchedulerAssumption DEF TypeInv, TaskTypes, TaskStates
<1>1. UNCHANGED <<lives, memVars, dead, dbVars>> \/ ~TargetStep(s)
  BY QuietTypes, HandingTypes DEF TargetStep, wVars
<1>2. \A op : Room => ~Full /\ Landed(op) = Append(queue, op)
  BY DEF Room, MayBarge, Landed
<1>3. ASSUME TargetStarts(s) \/ TakeGate(s) PROVE TargetEffect(s)
  <2>1. /\ task[s] \in {"spawned", "gate"}
        /\ task' = [task EXCEPT ![s] = "gate"] \/ task' = [task EXCEPT ![s] = "create"] \/ task' = task
        /\ UNCHANGED <<lives, memVars, index, offset, wVars, dbVars, histVars>>
    BY <1>3 DEF TargetStarts, TakeGate
  <2>2. run = "gather"
    BY <1>0, <2>1 DEF TargetFits
  <2>3. Moves(s)
    BY <1>0, <2>1 DEF Moves, Waiting, wVars
  <2> QED BY <1>0, <2>1, <2>2, <2>3 DEF TargetEffect, wVars, histVars
<1>4. ASSUME (\E flush \in BOOLEAN : Yields(s, flush)) \/ Marks(s)
              \/ (\E st \in Settled : SubmitCutShort(s, st))
      PROVE  TargetEffect(s)
  <2>1. /\ task[s] \in Busy
        /\ \/ task' = [task EXCEPT ![s] = "submit"] \/ task' = [task EXCEPT ![s] = "closing"]
           \/ task' = task
        /\ UNCHANGED <<lives, memVars, index, offset, wVars, dbVars, histVars>>
    BY <1>4 DEF Yields, Marks, SubmitCutShort, Busy
  <2>2. run = "gather"
    BY <1>0, <2>1 DEF TargetFits, Busy
  <2>3. Moves(s)
    BY <1>0, <2>1 DEF Moves, Busy, wVars
  <2> QED BY <1>0, <2>1, <2>2, <2>3 DEF TargetEffect, wVars, histVars
<1>5. ASSUME BackoffEnds(s) PROVE TargetEffect(s)
  <2>1. run = "gather"
    BY <1>0, <1>5 DEF BackoffEnds, TargetFits
  <2>2. Moves(s)
    BY <1>0, <1>5 DEF BackoffEnds, Moves, Waiting, wVars
  <2> QED BY <1>0, <1>5, <2>1, <2>2 DEF BackoffEnds, TargetEffect, wVars, histVars
<1>6. ASSUME CreateRaises(s) \/ BudgetSpent(s) PROVE TargetEffect(s)
  <2>1. /\ task[s] \in {"create", "backoff"} /\ task' = [task EXCEPT ![s] = "done"]
        /\ task[s] = "create" => dead
        /\ UNCHANGED <<lives, memVars, index, offset, wVars, dbVars, histVars>>
    BY <1>6 DEF CreateRaises, BudgetSpent, Returns
  <2>2. run = "gather" /\ (dead \/ index[s] > 0)
    BY <1>0, <2>1 DEF TargetFits
  <2>3. Leaves(s)
    BY <1>0, <2>1, <2>2 DEF Leaves, Waiting, wVars
  <2> QED BY <1>0, <2>1, <2>2, <2>3 DEF TargetEffect, wVars, histVars
<1>7. ASSUME AttemptBegins(s) PROVE TargetEffect(s)
  <2>1. run = "gather" /\ index[s] < MaxAttempts
    BY <1>0, <1>7 DEF AttemptBegins, TargetFits
  <2>2. Begins(s)
    BY <1>0, <1>2, <1>7, <2>1 DEF AttemptBegins, Begins
  <2> QED BY <1>0, <1>7, <2>1, <2>2 DEF AttemptBegins, TargetEffect, histVars
<1>8. ASSUME BatchLands(s) PROVE TargetEffect(s)
  <2>1. run = "gather"
    BY <1>0, <1>8 DEF BatchLands, TargetFits
  <2>2. Lands(s)
    BY <1>0, <1>2, <1>8, <2>1 DEF BatchLands, Lands
  <2> QED BY <1>0, <1>8, <2>1, <2>2 DEF BatchLands, TargetEffect, histVars
<1>9. ASSUME StreamEnds(s) \/ StreamFails(s) \/ DeadlineInStream(s) \/ StreamClosed(s)
      PROVE  TargetEffect(s)
  <2>1. task[s] \in Busy /\ \E st \in Settled : Settle(s, st)
    BY <1>0, <1>9 DEF StreamEnds, StreamFails, DeadlineInStream, StreamClosed, Settled, Busy, TargetFits,
           TypeInv, TaskTypes
  <2>2. PICK st \in Settled : Settle(s, st)
    BY <2>1
  <2>3. run = "gather"
    BY <1>0, <2>1 DEF TargetFits, Busy
  <2>4. /\ queue' = Settling(s, st) /\ task' = [task EXCEPT ![s] = "done"]
        /\ UNCHANGED <<lives, memVars, dead, dbVars, histVars, offset, index>>
    BY <2>2 DEF Settle, Returns
  <2>5. task'[s] = "done" /\ index'[s] = index[s]
    BY <1>0, <2>4
  <2>6. Settles(s)
    BY <2>1, <2>4, <2>5 DEF Settles
  <2> QED BY <1>0, <2>3, <2>4, <2>6 DEF TargetEffect, histVars
<1>10. ASSUME StreamFailsTransient(s) PROVE TargetEffect(s)
  <2>1. run = "gather" /\ task[s] \in Busy
    BY <1>0, <1>10 DEF StreamFailsTransient, TargetFits, Busy
  <2>2. Settles(s)
    BY <1>0, <1>10, <2>1 DEF StreamFailsTransient, Settles, Settled
  <2>3. /\ UNCHANGED <<lives, memVars, dead, dbVars, histVars, offset, index>>
        /\ task' = [task EXCEPT ![s] = "backoff"]
    BY <1>10 DEF StreamFailsTransient
  <2> QED BY <1>0, <2>1, <2>2, <2>3 DEF TargetEffect, histVars
<1>11. ASSUME Cancelled(s) PROVE TargetEffect(s)
  <2>1. /\ task[s] # "done" /\ task[s] # "closing" /\ run = "gather"
        /\ task' = [task EXCEPT ![s] = "done"]
    BY <1>0, <1>11 DEF Cancelled, Returns, TargetFits
  <2>2. CASE task[s] \in {"stream", "submit"}
    <3>0. queue' = Settling(s, "cancelled") /\ index' = index
      BY <1>11, <2>2 DEF Cancelled, SettlingCancelled
    <3>2. task'[s] = "done" /\ index'[s] = index[s] /\ task[s] \in Busy /\ "cancelled" \in Settled
      BY <1>0, <2>1, <2>2, <3>0 DEF Busy, Settled
    <3>1. Settles(s)
      BY <3>0, <3>2 DEF Settles
    <3> QED BY <1>0, <1>11, <2>1, <3>1 DEF Cancelled, TargetEffect
  <2>3. CASE task[s] \notin {"stream", "submit"}
    <3>1. task[s] \in Waiting
      BY <1>0, <2>1, <2>3 DEF Waiting, TaskStates
    <3>2. index[s] = 0 \/ index[s] > 0
      BY <1>0
    <3>3. \/ queue' = Sent(<<UnattemptedOp(s)>>)
          \/ queue' = queue /\ (s \in vanished' \/ index[s] > 0)
      <4>1. CASE task[s] = "spawned"
        <5>1. queue' = queue /\ vanished' = vanished \cup {s}
          BY <1>11, <4>1 DEF Cancelled
        <5> QED BY <5>1
      <4>2. CASE task[s] # "spawned"
        <5>1. queue' = IF index[s] = 0 THEN Sent(<<UnattemptedOp(s)>>) ELSE queue
          BY <1>11, <2>3, <4>2 DEF Cancelled
        <5> QED BY <3>2, <5>1
      <4> QED BY <4>1, <4>2
    <3>4. Leaves(s)
      BY <1>0, <1>11, <2>1, <3>1, <3>3 DEF Cancelled, Leaves
    <3> QED BY <1>0, <1>11, <2>1, <3>4 DEF Cancelled, TargetEffect
  <2> QED BY <2>2, <2>3
<1> QED BY <1>3, <1>4, <1>5, <1>6, <1>7, <1>8, <1>9, <1>10, <1>11 DEF TargetStep

-----------------------------------------------------------------------------
(* The tables stay in turn *)

\* Numbers of attempts are numbers.
LEMMA TopTypes ==
    ASSUME TypeInv
    PROVE  /\ Top \in [Sources -> Int]
           /\ \A s \in Sources : Top[s] = Attempt(s) /\ Attempt(s) \in Nat
  BY DEF TypeInv, TaskTypes, Top, Attempt

\* Nothing queued is about an attempt that has not begun.
LEMMA NothingAhead ==
    ASSUME TypeInv, QueueInv, NEW s \in Sources, NEW n \in Int, n > Attempt(s)
    PROVE  \A h \in 1 .. Len(queue) : ~About(queue[h], s, n) /\ ~Ends(queue[h], s, n)
<1> SUFFICES ASSUME NEW h \in 1 .. Len(queue)
             PROVE  ~About(queue[h], s, n) /\ ~Ends(queue[h], s, n)
  OBVIOUS
<1>1. InTurn(queue, h - 1, queue[h], Top, rows, runRow)
  BY DEF QueueInv, Turns
<1>2. queue[h].k \in Attempting => queue[h].a \in AttemptNos /\ queue[h].a <= Top[queue[h].s]
  BY <1>1 DEF InTurn
<1>3. Top[s] = Attempt(s) /\ Attempt(s) \in Nat
  BY TopTypes
<1>4. AttemptNos \subseteq Int
  BY AttemptNumbers
<1> QED BY <1>2, <1>3, <1>4 DEF About, Ends, Attempting

\* An operation about no attempt is always in its turn, but for the first.
LEMMA PlainTurn ==
    ASSUME NEW o, o.k \notin Attempting \cup {"start"}, NEW q, NEW i, NEW top, NEW rs, NEW rr
    PROVE  InTurn(q, i, o, top, rs, rr) /\ \A s, n : ~Ends(o, s, n)
  BY DEF InTurn, Attempting, Ends

\* The end of an attempt sends its last batch, if there is one, and its status.
LEMMA SettlingIs ==
    ASSUME TypeInv, ~dead, NEW s \in Sources, NEW st \in Settled
    PROVE  Settling(s, st) \in {Append(queue, FinishOp(s, Attempt(s), st, mark[s])),
                                Append(Append(queue, BatchOp(s, Attempt(s), TRUE)),
                                       FinishOp(s, Attempt(s), st, mark[s]))}
<1> DEFINE b == BatchOp(s, Attempt(s), TRUE)
           f == FinishOp(s, Attempt(s), st, mark[s])
<1>1. b \in OpType /\ f \in OpType
  BY TargetOpTypes DEF OpOf
<1>3. Settling(s, st) = queue \o (Rest(s) \o <<f>>)
      /\ Rest(s) \in {<<>>, <<b>>}
  BY DEF Settling, Sent, Rest
<1>4. queue \in Seq(OpType)
  BY DEF TypeInv, OpTypes
<1> HIDE DEF b, f
<1>5. Settling(s, st) \in {Append(queue, f), Append(Append(queue, b), f)}
  <2>1. <<b>> \in Seq(OpType) /\ <<f>> \in Seq(OpType) /\ <<>> \o <<f>> = <<f>>
    BY <1>1, ConcatEmptySeq
  <2>6. /\ Append(queue, b) \in Seq(OpType)
        /\ \A q \in Seq(OpType) : Append(q, b) = q \o <<b>> /\ Append(q, f) = q \o <<f>>
    <3>1. ASSUME NEW q \in Seq(OpType), NEW o \in OpType PROVE Append(q, o) = q \o <<o>>
      BY AppendIsConcat
    <3>2. Append(queue, b) \in Seq(OpType)
      BY <1>1, <1>4, AppendProperties
    <3> QED BY <1>1, <3>1, <3>2
  <2>2. Append(queue, f) = queue \o <<f>> /\ Append(queue, b) = queue \o <<b>>
        /\ Append(queue, b) \in Seq(OpType)
    BY <1>4, <2>6
  <2>3. Append(Append(queue, b), f) = Append(queue, b) \o <<f>>
    BY <2>2, <2>6
  <2>4. (queue \o <<b>>) \o <<f>> = queue \o (<<b>> \o <<f>>)
    BY <1>4, <2>1, ConcatAssociative
  <2> QED BY <1>3, <2>1, <2>2, <2>3, <2>4
<1> QED BY <1>5 DEF b, f

\* The end of an attempt: its records are in their turn, and so is its status.
LEMMA SettlingTurns ==
    ASSUME TypeInv, QueueInv, ~dead, NEW s \in Sources, NEW st \in Settled,
           HandOf(queue, rows, s, "stream", Attempt(s)), Opened(queue, runRow)
    PROVE  /\ Settling(s, st) \in Seq(OpType)
           /\ Turns(Settling(s, st), Top, rows, runRow)
           /\ Opened(Settling(s, st), runRow)
           /\ \A t \in Sources \ {s} : \A w, n : HandOf(queue, rows, t, w, n) =>
                 HandOf(Settling(s, st), rows, t, w, n)
           /\ st # "succeeded" =>
                 Concluded(Settling(s, st), Len(Settling(s, st)), rows, s, Attempt(s))
<1> DEFINE b == BatchOp(s, Attempt(s), TRUE)
           f == FinishOp(s, Attempt(s), st, mark[s])
<1>1. b \in OpType /\ f \in OpType
  BY TargetOpTypes DEF OpOf
<1>2. /\ b.k = "batch" /\ b.s = s /\ b.a = Attempt(s)
      /\ f.k = "finish" /\ f.s = s /\ f.a = Attempt(s) /\ f.st = st
  BY DEF BatchOp, FinishOp
<1>4. queue \in Seq(OpType)
  BY DEF TypeInv, OpTypes
<1> HIDE DEF b, f
<1>5. Settling(s, st) \in {Append(queue, f), Append(Append(queue, b), f)}
  BY SettlingIs DEF b, f
<1>6. /\ Attempt(s) \in AttemptNos /\ Underway(queue, Len(queue), rows, s, Attempt(s))
      /\ \A h \in 1 .. Len(queue) : ~Ends(queue[h], s, Attempt(s))
      /\ Top[s] = Attempt(s) /\ Attempt(s) \in Nat
  BY TopTypes DEF HandOf, Busy
<1>7. \A n : ~Ends(b, s, n)
  BY <1>2 DEF Ends
<1>8. \A o \in {b, f} : \A t \in Sources \ {s} : \A n : ~Ends(o, t, n)
  BY <1>2 DEF Ends
\* An operation about the attempt goes behind whatever leaves it under way.
<1>9. ASSUME NEW q \in Seq(OpType), NEW o \in {b, f}, Turns(q, Top, rows, runRow), Opened(q, runRow),
             Underway(q, Len(q), rows, s, Attempt(s)),
             \A h \in 1 .. Len(q) : ~Ends(q[h], s, Attempt(s)),
             \A t \in Sources \ {s} : \A w, n : HandOf(queue, rows, t, w, n) => HandOf(q, rows, t, w, n)
      PROVE  LET a == Append(q, o) IN
             /\ a \in Seq(OpType) /\ Turns(a, Top, rows, runRow) /\ Opened(a, runRow)
             /\ Underway(a, Len(a), rows, s, Attempt(s))
             /\ o = b => \A h \in 1 .. Len(a) : ~Ends(a[h], s, Attempt(s))
             /\ o = f /\ st # "succeeded" => Concluded(a, Len(a), rows, s, Attempt(s))
             /\ \A t \in Sources \ {s} : \A w, n : HandOf(queue, rows, t, w, n) => HandOf(a, rows, t, w, n)
  <2> DEFINE a == Append(q, o)
  <2>1. InTurn(q, Len(q), o, Top, rows, runRow)
    BY <1>2, <1>6, <1>9 DEF InTurn, Attempting
  <2>2. o \in OpType
    BY <1>1
  <2>3. /\ Turns(a, Top, rows, runRow)
        /\ Underway(a, Len(a), rows, s, Attempt(s))
        /\ o = b => \A h \in 1 .. Len(a) : ~Ends(a[h], s, Attempt(s))
        /\ Ends(o, s, Attempt(s)) /\ o.st # "succeeded" => Concluded(a, Len(a), rows, s, Attempt(s))
    BY <1>7, <1>9, <2>1, <2>2, TurnsAppend
  <2>4. a \in Seq(OpType)
    BY <2>2, AppendProperties
  <2>5. Opened(a, runRow)
    BY <1>9, <2>2, OpenedAppend
  <2>6. ASSUME NEW t \in Sources \ {s}, NEW w, NEW n, HandOf(queue, rows, t, w, n)
        PROVE  HandOf(a, rows, t, w, n)
    <3>1. HandOf(q, rows, t, w, n) /\ ~Ends(o, t, n)
      BY <1>8, <1>9, <2>6
    <3> QED BY <2>2, <3>1, HandAppend
  <2>7. o = f => Ends(o, s, Attempt(s)) /\ o.st = st
    BY <1>2 DEF Ends
  <2> HIDE DEF a
  <2>8. /\ a \in Seq(OpType) /\ Turns(a, Top, rows, runRow) /\ Opened(a, runRow)
        /\ Underway(a, Len(a), rows, s, Attempt(s))
        /\ o = b => \A h \in 1 .. Len(a) : ~Ends(a[h], s, Attempt(s))
        /\ o = f /\ st # "succeeded" => Concluded(a, Len(a), rows, s, Attempt(s))
        /\ \A t \in Sources \ {s} : \A w, n : HandOf(queue, rows, t, w, n) => HandOf(a, rows, t, w, n)
    BY <2>3, <2>4, <2>5, <2>6, <2>7
  <2> QED BY <2>8 DEF a
<1>10. Turns(queue, Top, rows, runRow)
  BY DEF QueueInv
<1>11. CASE Settling(s, st) = Append(queue, f)
  BY <1>4, <1>6, <1>9, <1>10, <1>11
<1>12. CASE Settling(s, st) = Append(Append(queue, b), f)
  <2> DEFINE q == Append(queue, b)
  <2>1. /\ q \in Seq(OpType) /\ Turns(q, Top, rows, runRow) /\ Opened(q, runRow)
        /\ Underway(q, Len(q), rows, s, Attempt(s))
        /\ \A h \in 1 .. Len(q) : ~Ends(q[h], s, Attempt(s))
        /\ \A t \in Sources \ {s} : \A w, n : HandOf(queue, rows, t, w, n) => HandOf(q, rows, t, w, n)
    BY <1>4, <1>6, <1>9, <1>10
  <2> HIDE DEF q
  <2>2. Settling(s, st) = Append(q, f)
    BY <1>12 DEF q
  <2> QED BY <1>9, <2>1, <2>2
<1> QED BY <1>5, <1>11, <1>12

\* A new attempt comes behind everything about those before it.
LEMMA BeginningTables ==
    ASSUME TypeInv, TablesInv, NEW s \in Sources, TargetEffect(s), Begins(s)
    PROVE  TablesInv'
<1> DEFINE a == Attempt(s) + 1
           o == CreateOp(s, a)
<1>1. /\ run = "gather" /\ ~dead /\ run' = run /\ dead' = dead /\ resuming' = resuming
      /\ UNCHANGED <<lives, rows, runRow, offset>>
      /\ task[s] = "create" /\ task'[s] = "stream" /\ index[s] < MaxAttempts
      /\ index'[s] = index[s] + 1
      /\ \A t \in Sources \ {s} : task'[t] = task[t] /\ index'[t] = index[t]
  BY DEF TargetEffect, Begins, memVars, dbVars
<1>2. /\ \A t \in Sources : offset[t] \in Nat /\ index[t] \in Nat
      /\ lives \in Nat /\ lives <= MaxLives /\ queue \in Seq(OpType)
  BY SchedulerAssumption DEF TypeInv, MemTypes, TaskTypes, OpTypes
<1>3. queue' = Append(queue, o)
  <2>1. offset[s] + index[s] + 1 = a
    BY DEF Attempt
  <2> QED BY <2>1 DEF Begins
<1>4. /\ a \in Nat /\ a > Attempt(s) /\ a - 1 = Attempt(s) /\ Attempt(s)' = a
      /\ \A t \in Sources \ {s} : Attempt(t)' = Attempt(t)
  BY <1>1, <1>2 DEF Attempt
<1>5. a \in AttemptNos
  <2>1. offset[s] <= Cap(lives - 1) /\ lives >= 1
    BY <1>1 DEF TablesInv, RowsInv, Planned, Manned, Live
  <2>2. Cap(lives) = Cap(lives - 1) + MaxAttempts /\ Cap(lives) <= Cap(MaxLives)
        /\ Cap(lives - 1) \in Nat /\ Cap(MaxLives) \in Nat /\ MaxAttempts \in Nat
    <3>1. lives - 1 \in Nat /\ (lives - 1) + 1 = lives
      BY <1>2, <2>1
    <3> QED BY <1>2, <3>1, Caps
  <2>3. a <= Cap(MaxLives) /\ a >= 1
    BY <1>1, <1>2, <2>1, <2>2 DEF Attempt
  <2> QED BY <1>4, <2>2, <2>3, Caps
<1>6. o \in OpType /\ o.k = "create" /\ o.s = s /\ o.a = a
  <2>1. offset[s] + index[s] + 1 = a
    BY DEF Attempt
  <2>2. CreateOp(s, offset[s] + index[s] + 1) \in OpType
    BY TargetOpTypes DEF OpOf
  <2> QED BY <2>1, <2>2 DEF CreateOp, Op
<1> HIDE DEF a, o
<1>7. Top' \in [Sources -> Int] /\ Top'[s] = a /\ \A t \in Sources : Top[t] <= Top'[t]
  <2>1. \A t \in Sources : Top'[t] = Attempt(t)'
    BY DEF Top
  <2>2. \A t \in Sources : Attempt(t)' \in Int /\ Attempt(t) <= Attempt(t)'
    BY <1>4, TopTypes
  <2>3. Top' = [t \in Sources |-> Attempt(t)']
    BY DEF Top
  <2> QED BY <1>4, <2>1, <2>2, <2>3, TopTypes
<1>8. Turns(queue, Top', rows, runRow)
  <2>1. Turns(queue, Top, rows, runRow) /\ Top \in [Sources -> Int]
    BY TopTypes DEF TablesInv, QueueInv
  <2> QED BY <1>2, <1>7, <2>1, TurnsRaised
<1>9. Opened(queue, runRow) /\ \A t \in Sources : HandOf(queue, rows, t, task[t], Attempt(t))
  BY <1>1 DEF TablesInv, HandsInv
<1>10. \A h \in 1 .. Len(queue) : ~About(queue[h], s, a) /\ ~Ends(queue[h], s, a)
  BY <1>4, NothingAhead DEF TablesInv
<1>11. InTurn(queue, Len(queue), o, Top', rows, runRow)
  <2>1. rows[s][a].st = "none"
    BY <1>1, <1>4, <1>5, TopTypes DEF TablesInv, RowsInv, Planned, Manned
  <2>2. a > 1 => Concluded(queue, Len(queue), rows, s, a - 1)
    <3>1. HandOf(queue, rows, s, "create", Attempt(s))
      BY <1>1, <1>9
    <3> QED BY <1>4, <3>1 DEF HandOf
  <2>3. runRow = "absent" => Len(queue) > 0 /\ queue[1].k = "start"
    BY <1>2, <1>9, EmptySeq, LenProperties DEF Opened
  <2> QED BY <1>4, <1>5, <1>6, <1>7, <1>10, <2>1, <2>2, <2>3 DEF InTurn, Attempting
<1>12. /\ Turns(queue', Top', rows, runRow) /\ Opened(queue', runRow)
       /\ Underway(queue', Len(queue'), rows, s, a)
       /\ \A h \in 1 .. Len(queue') : ~Ends(queue'[h], s, a)
  <2>1. Creates(o, s, a) /\ ~Ends(o, s, a)
    BY <1>6 DEF Creates, Ends
  <2> QED BY <1>2, <1>3, <1>6, <1>8, <1>9, <1>10, <1>11, <2>1, TurnsAppend, OpenedAppend
<1>13. \A t \in Sources : HandOf(queue', rows, t, task'[t], Attempt(t)')
  <2> SUFFICES ASSUME NEW t \in Sources PROVE HandOf(queue', rows, t, task'[t], Attempt(t)')
    OBVIOUS
  <2>1. CASE t = s
    BY <1>1, <1>4, <1>5, <1>12, <2>1 DEF HandOf, Busy
  <2>2. CASE t # s
    <3>1. HandOf(queue, rows, t, task[t], Attempt(t)) /\ ~Ends(o, t, Attempt(t))
      BY <1>6, <1>9 DEF Ends
    <3>2. HandOf(queue', rows, t, task[t], Attempt(t))
      BY <1>2, <1>3, <1>6, <3>1, HandAppend
    <3> QED BY <1>1, <1>4, <2>2, <3>2
  <2> QED BY <2>1, <2>2
<1>14. QueueInv' /\ HandsInv'
  BY <1>1, <1>12, <1>13 DEF QueueInv, HandsInv
<1>15. RowsInv'
  <2>1. \A t \in Sources : Attempt(t) <= Attempt(t)' /\ Attempt(t) \in Nat
    BY <1>4, TopTypes
  <2>2. Lived' = Lived
    BY <1>1 DEF Lived
  <2>3. \A t \in Sources, n \in AttemptNos : rows[t][n].st # "none" =>
            /\ runRow # "absent" /\ n <= Cap(Lived) /\ n <= Attempt(t)'
    <3>1. \A t \in Sources, n \in AttemptNos : rows[t][n].st # "none" =>
            /\ runRow # "absent" /\ n <= Cap(Lived) /\ n <= Attempt(t)
      BY <1>1 DEF TablesInv, RowsInv, Planned, Manned
    <3> QED BY <2>1, <3>1, AttemptNumbers, TopTypes, <1>4
  <2>4. (\A t \in Sources : offset[t] <= Cap(lives - 1)) /\ lives >= 1
    BY <1>1 DEF TablesInv, RowsInv, Planned, Manned, Live
  <2> QED BY <1>1, <2>2, <2>3, <2>4 DEF RowsInv
<1> QED BY <1>1, <1>14, <1>15 DEF TablesInv, AttemptsInTurn

\* The rows of a step that begins no attempt.
LEMMA RowsKept ==
    ASSUME RowsInv, UNCHANGED <<lives, run, resuming, rows, runRow, offset>>,
           \A t \in Sources : index'[t] = index[t]
    PROVE  RowsInv' /\ Top' = Top /\ \A t \in Sources : Attempt(t)' = Attempt(t)
<1>1. \A t \in Sources : Attempt(t)' = Attempt(t)
  BY DEF Attempt
<1>2. Lived' = Lived /\ Live' = Live
  BY DEF Lived, Live
<1>3. Top' = Top
  BY <1>1 DEF Top
<1> QED BY <1>1, <1>2, <1>3 DEF RowsInv

\* Every step of a target leaves the tables in turn.
LEMMA TargetTables ==
    ASSUME TypeInv, PlaceInv, TablesInv, NEW s \in Sources, TargetEffect(s)
    PROVE  TablesInv'
<1>1. /\ run = "gather" /\ run' = run /\ dead' = dead /\ UNCHANGED <<lives, resuming, rows, runRow, offset>>
      /\ \A t \in Sources \ {s} : task'[t] = task[t] /\ index'[t] = index[t]
      /\ QueueInv /\ RowsInv /\ HandsInv /\ AttemptsInTurn
  BY DEF TargetEffect, memVars, dbVars, TablesInv
<1>2. CASE Begins(s)
  BY <1>2, BeginningTables
<1>3. CASE ~Begins(s) /\ dead
  <2>1. index'[s] = index[s] /\ queue' = queue
    BY <1>3 DEF TargetEffect, Lands, Settles, Settling, Moves, Leaves, Sent
  <2>2. RowsInv' /\ Top' = Top
    BY <1>1, <2>1, RowsKept
  <2>3. QueueInv'
    BY <1>1, <2>1, <2>2 DEF QueueInv
  <2>4. HandsInv'
    BY <1>1, <1>3 DEF HandsInv
  <2> QED BY <1>1, <2>2, <2>3, <2>4 DEF TablesInv, AttemptsInTurn
<1>4. CASE ~Begins(s) /\ ~dead
  <2>1. Lands(s) \/ Settles(s) \/ Moves(s) \/ Leaves(s)
    BY <1>4 DEF TargetEffect
  <2>2. \A t \in Sources : index'[t] = index[t]
    BY <1>1, <2>1 DEF Lands, Settles, Moves, Leaves
  <2>3. RowsInv' /\ Top' = Top /\ \A t \in Sources : Attempt(t)' = Attempt(t) /\ Top[t] = Attempt(t)
    BY <1>1, <2>2, RowsKept, TopTypes
  <2>4. /\ Turns(queue, Top, rows, runRow) /\ Opened(queue, runRow) /\ queue \in Seq(OpType)
        /\ \A t \in Sources : HandOf(queue, rows, t, task[t], Attempt(t))
    BY <1>1, <1>4 DEF QueueInv, HandsInv, TypeInv, OpTypes
  <2>5. /\ Turns(queue', Top, rows, runRow) /\ Opened(queue', runRow)
        /\ \A t \in Sources : HandOf(queue', rows, t, task'[t], Attempt(t))
    <3>1. CASE Lands(s)
      <4> DEFINE o == BatchOp(s, Attempt(s), FALSE)
      <4>1. o \in OpType /\ o.k = "batch" /\ o.s = s /\ o.a = Attempt(s)
        <5>1. o \in OpType
          BY TargetOpTypes DEF OpOf
        <5> QED BY <5>1 DEF BatchOp
      <4>2. queue' = Append(queue, o) /\ task[s] \in Busy /\ task'[s] \in Busy
            /\ task'[s] = "stream"
        BY <3>1 DEF Lands, Busy
      <4> HIDE DEF o
      <4>3. /\ Attempt(s) \in AttemptNos /\ Underway(queue, Len(queue), rows, s, Attempt(s))
            /\ \A h \in 1 .. Len(queue) : ~Ends(queue[h], s, Attempt(s))
        BY <2>4, <4>2 DEF HandOf
      <4>4. InTurn(queue, Len(queue), o, Top, rows, runRow)
        BY <2>3, <4>1, <4>3, TopTypes DEF InTurn, Attempting
      <4>5. \A t, n : ~Ends(o, t, n)
        BY <4>1 DEF Ends
      <4>6. Turns(queue', Top, rows, runRow) /\ Opened(queue', runRow)
        BY <2>4, <4>1, <4>2, <4>4, TurnsAppend, OpenedAppend
      <4>7. \A t \in Sources : HandOf(queue', rows, t, task[t], Attempt(t))
        BY <2>4, <4>1, <4>2, <4>5, HandAppend
      <4>8. \A n, w, v : w \in Busy /\ v = "stream" /\ HandOf(queue', rows, s, w, n) =>
                HandOf(queue', rows, s, v, n)
        BY DEF HandOf, Busy
      <4> QED BY <1>1, <4>2, <4>6, <4>7, <4>8
    <3>2. CASE Settles(s)
      <4>1. PICK st \in Settled : /\ queue' = Settling(s, st)
                                  /\ task'[s] = "done" \/ (task'[s] = "backoff" /\ st = "failed")
        BY <3>2 DEF Settles
      <4>2. task[s] \in Busy
        BY <3>2 DEF Settles
      <4>3. HandOf(queue, rows, s, task[s], Attempt(s))
        BY <2>4
      <4>4. HandOf(queue, rows, s, "stream", Attempt(s)) /\ Attempt(s) \in AttemptNos
        BY <4>2, <4>3 DEF HandOf, Busy
      <4>5. /\ Turns(queue', Top, rows, runRow) /\ Opened(queue', runRow)
            /\ \A t \in Sources \ {s} : \A w, n :
                 HandOf(queue, rows, t, w, n) => HandOf(queue', rows, t, w, n)
            /\ st # "succeeded" => Concluded(queue', Len(queue'), rows, s, Attempt(s))
        BY <1>1, <1>4, <2>4, <4>1, <4>4, SettlingTurns
      <4>6. HandOf(queue', rows, s, task'[s], Attempt(s))
        BY <4>1, <4>4, <4>5 DEF HandOf, Busy
      <4>7. \A t \in Sources \ {s} : HandOf(queue', rows, t, task'[t], Attempt(t))
        BY <1>1, <2>4, <4>5
      <4> QED BY <4>5, <4>6, <4>7
    <3>3. CASE Moves(s)
      <4>1. queue' = queue
            /\ \/ task'[s] = task[s]
               \/ task[s] \in Busy /\ task'[s] \in Busy
               \/ task[s] \in Waiting /\ task'[s] \in Waiting
        BY <3>3 DEF Moves
      <4>2. HandOf(queue, rows, s, task[s], Attempt(s))
        BY <2>4
      <4>3. HandOf(queue, rows, s, task'[s], Attempt(s))
        BY <4>1, <4>2 DEF HandOf, Busy, Waiting
      <4> QED BY <1>1, <2>4, <4>1, <4>3
    <3>4. CASE Leaves(s)
      <4>1. task'[s] = "done" /\ (queue' = queue \/ queue' = Append(queue, UnattemptedOp(s)))
        <5>1. Sent(<<UnattemptedOp(s)>>) = Append(queue, UnattemptedOp(s))
          <6>1. UnattemptedOp(s) \in OpType
            BY TargetOpTypes DEF OpOf
          <6> QED BY <1>4, <2>4, <6>1, AppendIsConcat DEF Sent
        <5> QED BY <3>4, <5>1 DEF Leaves
      <4>2. HandOf(queue', rows, s, task'[s], Attempt(s))
        BY <4>1 DEF HandOf, Busy
      <4>3. CASE queue' = queue
        BY <1>1, <2>4, <4>2, <4>3
      <4>4. CASE queue' = Append(queue, UnattemptedOp(s))
        <5>1. UnattemptedOp(s) \in OpType
          BY TargetOpTypes DEF OpOf
        <5>2. UnattemptedOp(s).k \notin Attempting \cup {"start"}
          BY DEF UnattemptedOp, Op, Attempting
        <5>3. /\ InTurn(queue, Len(queue), UnattemptedOp(s), Top, rows, runRow)
              /\ \A t, n : ~Ends(UnattemptedOp(s), t, n)
          BY <5>2, PlainTurn
        <5>4. Turns(queue', Top, rows, runRow) /\ Opened(queue', runRow)
          BY <2>4, <4>4, <5>1, <5>3, TurnsAppend, OpenedAppend
        <5>5. \A t \in Sources : HandOf(queue', rows, t, task[t], Attempt(t))
          BY <2>4, <4>4, <5>1, <5>3, HandAppend
        <5> QED BY <1>1, <4>2, <5>4, <5>5
      <4> QED BY <4>1, <4>3, <4>4
    <3> QED BY <2>1, <3>1, <3>2, <3>3, <3>4
  <2>6. QueueInv' /\ HandsInv'
    BY <1>1, <2>3, <2>5 DEF QueueInv, HandsInv
  <2> QED BY <1>1, <2>3, <2>6 DEF TablesInv, AttemptsInTurn
<1> QED BY <1>2, <1>3, <1>4

\* An empty queue is in turn.
LEMMA EmptyTurns == queue' = <<>> => QueueInv'
  BY DEF QueueInv, Turns

\* What a step keeps that gives no source a row and plans no run.
LEMMA RowsMoves ==
    ASSUME TypeInv, RowsInv, lives' = lives,
           run' \in Planned => run \in Planned /\ UNCHANGED <<offset, index>>,
           Live' => Live, run' = "preflight" => run = "preflight",
           run' = "launch" => run = "launch" /\ UNCHANGED <<rows, resuming>>,
           \A s \in Sources, n \in AttemptNos : rows'[s][n].st # "none" => rows[s][n].st # "none",
           runRow' = "absent" => runRow = "absent"
    PROVE  RowsInv'
<1>1. lives \in Nat /\ (Live => lives >= 1)
  BY SchedulerAssumption DEF TypeInv, MemTypes, RowsInv
<1>2. Cap(Lived) <= Cap(Lived') /\ Cap(Lived) \in Nat /\ Cap(Lived') \in Nat
  <2>1. Lived' \in {lives, Lived} /\ Lived \in {lives, lives - 1}
    BY DEF Lived
  <2>2. run = "preflight" => lives - 1 \in Nat
    BY <1>1 DEF Live
  <2>3. Lived \in Nat /\ Lived' \in Nat /\ Lived <= Lived'
    <3>1. CASE run = "preflight"
      BY <1>1, <2>1, <2>2, <3>1 DEF Lived
    <3>2. CASE run # "preflight"
      BY <1>1, <3>2 DEF Lived
    <3> QED BY <3>1, <3>2
  <2> QED BY <2>3, Caps
<1>3. ASSUME run' \in Planned
      PROVE  run \in Planned /\ UNCHANGED offset /\ \A s \in Sources : Attempt(s)' = Attempt(s)
  BY <1>3 DEF Attempt
<1>4. ASSUME NEW s \in Sources, NEW n \in AttemptNos, rows'[s][n].st # "none"
      PROVE  runRow' # "absent" /\ n <= Cap(Lived)' /\ (run' \in Planned => n <= Attempt(s)')
  <2>1. runRow # "absent" /\ n <= Cap(Lived) /\ (run \in Planned => n <= Attempt(s))
    BY <1>4 DEF RowsInv
  <2>2. n <= Cap(Lived)'
    BY <1>2, <2>1, AttemptNumbers
  <2> QED BY <1>3, <2>1, <2>2
<1>5. run' \in Planned => \A s \in Sources : offset'[s] <= Cap(lives' - 1)
  BY <1>3 DEF RowsInv
<1>6. Live' => lives' >= 1
  BY <1>1
<1>7. ASSUME run' = "launch"
      PROVE  \A s \in Sources :
                /\ \A n \in AttemptNos : rows'[s][n].st # "running"
                /\ offset'[s] \in AttemptNos \cup {0}
                /\ offset'[s] > 0 => resuming' /\ rows'[s][offset'[s]].st # "none"
  BY <1>3, <1>7 DEF Planned, RowsInv
<1> QED BY <1>4, <1>5, <1>6, <1>7 DEF RowsInv, Cap

\* Recovering orphans keeps the attempts in turn.
LEMMA RecoveryTurns ==
    ASSUME TypeInv, AttemptsInTurn, rows' = RowsAfterRecovery(rows)
    PROVE  /\ AttemptsInTurn'
           /\ \A s \in Sources, n \in AttemptNos :
                rows'[s][n].st # "running" /\ (rows'[s][n].st = "none" <=> rows[s][n].st = "none")
<1>1. \A s \in Sources, n \in AttemptNos :
         rows'[s][n].st = IF rows[s][n].st = "running" THEN "interrupted" ELSE rows[s][n].st
  BY RecoveryTypes DEF TypeInv
<1>2. \A n \in AttemptNos : n > 1 => n - 1 \in AttemptNos
  BY SchedulerAssumption DEF AttemptNos
<1> QED BY <1>1, <1>2 DEF AttemptsInTurn

\* Starting, recovering and ending a run give no row.
LEMMA RunTables ==
    ASSUME TypeInv, PlaceInv, TablesInv
    PROVE  \/ \E again \in BOOLEAN : Start(again)
           \/ RecoverOrphans \/ Gathered \/ Cancel \/ Crash
           \/ FinishRun \/ Closes \/ CloseTimesOut \/ WriterFails
           => TablesInv'
<1>0. /\ QueueInv /\ RowsInv /\ HandsInv /\ AttemptsInTurn
      /\ run \notin Manned => queue = <<>>
      /\ lives \in Nat /\ queue \in Seq(OpType) /\ status \in Terminal \cup {"none"}
  BY SchedulerAssumption DEF TablesInv, PlaceInv, TypeInv, MemTypes, OpTypes
<1>1. ASSUME NEW again \in BOOLEAN, Start(again) PROVE TablesInv'
  <2>1. /\ run \in {"idle", "over"} /\ run' = "preflight" /\ lives' = lives + 1
        /\ UNCHANGED <<queue, rows, runRow, offset, index>>
    BY <1>1 DEF Start, Live, taskVars, wVars, dbVars, TypeInv, MemTypes
  <2>2. Lived' = Lived /\ lives' >= 1
    BY <1>0, <2>1 DEF Lived
  <2>3. RowsInv'
    BY <1>0, <2>1, <2>2 DEF RowsInv, Planned, Manned
  <2>4. QueueInv' /\ HandsInv' /\ AttemptsInTurn'
    BY <1>0, <2>1, EmptyTurns DEF HandsInv, AttemptsInTurn, Manned
  <2> QED BY <2>3, <2>4 DEF TablesInv
<1>2. ASSUME RecoverOrphans PROVE TablesInv'
  <2>1. /\ run \in {"idle", "over"} /\ run' = run /\ rows' = RowsAfterRecovery(rows)
        /\ UNCHANGED <<queue, lives, offset, index, resuming>> /\ (runRow' = "absent" => runRow = "absent")
    BY <1>2 DEF RecoverOrphans, Live, memVars, taskVars, wVars, TypeInv, MemTypes
  <2>2. AttemptsInTurn' /\ \A s \in Sources, n \in AttemptNos :
                              rows'[s][n].st # "none" => rows[s][n].st # "none"
    BY <1>0, <2>1, RecoveryTurns
  <2>3. RowsInv'
    BY <1>0, <2>1, <2>2, RowsMoves DEF Planned, Manned, Live
  <2>4. QueueInv' /\ HandsInv'
    BY <1>0, <2>1, EmptyTurns DEF HandsInv, Manned
  <2> QED BY <2>2, <2>3, <2>4 DEF TablesInv
<1>3. ASSUME UNCHANGED <<lives, rows, runRow, offset, index>>, run' # "gather",
             run' \in Planned => run \in Planned \ {"launch"}, Live' => Live,
             run' \notin {"preflight", "launch"},
             QueueInv'
      PROVE  TablesInv'
  <2>1. RowsInv'
    BY <1>0, <1>3, RowsMoves
  <2> QED BY <1>0, <1>3, <2>1 DEF TablesInv, HandsInv, AttemptsInTurn
<1>4. UNCHANGED <<offset, index>> => Top' = Top
  BY DEF Top, Attempt
<1>5. Gathered \/ Closes => TablesInv'
  <2> SUFFICES ASSUME Gathered \/ Closes PROVE TablesInv'
    OBVIOUS
  <2>1. /\ UNCHANGED <<lives, rows, runRow, offset, index, queue>>
        /\ \/ run = "gather" /\ run' = "drain"
           \/ run = "close" /\ run' = "over"
    BY DEF Gathered, Closes, taskVars, wVars, dbVars
  <2>2. QueueInv'
    BY <1>0, <1>4, <2>1 DEF QueueInv
  <2> QED BY <1>3, <2>1, <2>2 DEF Planned, Manned, Live
<1>6. FinishRun => TablesInv'
  <2> SUFFICES ASSUME FinishRun PROVE TablesInv'
    OBVIOUS
  <2>1. /\ UNCHANGED <<lives, rows, runRow, offset, index>> /\ run = "pass" /\ run' = "close"
        /\ queue' = Sent(<<FinishRunOp(status)>>)
    BY DEF FinishRun, taskVars, dbVars
  <2>2. FinishRunOp(status) \in OpType /\ FinishRunOp(status).k = "end"
    <3>1. status \in Terminal
      BY <2>1 DEF TypeInv, MemTypes
    <3> QED BY <3>1 DEF FinishRunOp, Op, OpType, OpFits, OpRec, Kinds, Words, Terminal
  <2>3. queue' = queue \/ queue' = Append(queue, FinishRunOp(status))
    BY <1>0, <2>1, <2>2, AppendIsConcat DEF Sent
  <2>4. InTurn(queue, Len(queue), FinishRunOp(status), Top, rows, runRow)
    BY <2>2, PlainTurn DEF Attempting
  <2>5. Turns(queue', Top, rows, runRow)
    BY <1>0, <2>2, <2>3, <2>4, TurnsAppend DEF QueueInv
  <2>6. QueueInv'
    BY <1>4, <2>1, <2>5 DEF QueueInv
  <2> QED BY <1>3, <2>1, <2>6 DEF Planned, Manned, Live
<1>7. CloseTimesOut \/ Crash => TablesInv'
  <2> SUFFICES ASSUME CloseTimesOut \/ Crash PROVE TablesInv'
    OBVIOUS
  <2>1. /\ UNCHANGED <<lives, rows, runRow>> /\ run' \in {"idle", "over"} /\ queue' = <<>>
    BY DEF CloseTimesOut, Crash, dbVars
  <2>2. RowsInv'
    BY <1>0, <2>1, RowsMoves DEF Planned, Manned, Live
  <2> QED BY <1>0, <2>1, <2>2, EmptyTurns DEF TablesInv, HandsInv, AttemptsInTurn
<1>8. Cancel => TablesInv'
  <2> SUFFICES ASSUME Cancel PROVE TablesInv'
    OBVIOUS
  <2>1. UNCHANGED <<lives, run, resuming, queue, dead, rows, runRow, offset, index, task>>
    BY DEF Cancel, wVars, dbVars
  <2>2. RowsInv' /\ Top' = Top /\ \A t \in Sources : Attempt(t)' = Attempt(t)
    BY <1>0, <2>1, RowsKept
  <2> QED BY <1>0, <2>1, <2>2 DEF TablesInv, QueueInv, HandsInv, AttemptsInTurn
<1>9. WriterFails => TablesInv'
  <2> SUFFICES ASSUME WriterFails PROVE TablesInv'
    OBVIOUS
  <2>1. UNCHANGED <<lives, run, resuming, rows, runRow, offset, index>> /\ queue' = <<>> /\ dead'
    BY DEF WriterFails, memVars, taskVars, dbVars
  <2>2. RowsInv'
    BY <1>0, <2>1, RowsKept
  <2> QED BY <1>0, <2>1, <2>2, EmptyTurns DEF TablesInv, HandsInv, AttemptsInTurn
<1> QED BY <1>1, <1>2, <1>5, <1>6, <1>7, <1>8, <1>9

\* A resume counts on from the newest attempt there is.
LEMMA PreflightTables ==
    ASSUME TypeInv, PlaceInv, TablesInv, NEW nd \in SUBSET MayBeFresh, Preflight(nd)
    PROVE  TablesInv'
<1>1. /\ run = "preflight" /\ rows' = RowsAfterRecovery(rows) /\ lives' = lives /\ resuming' = resuming
      /\ runRow' = "absent" => runRow = "absent"
      /\ queue = <<>> /\ RowsInv /\ AttemptsInTurn /\ lives \in Nat /\ lives >= 1
      /\ ~resuming => runRow = "absent"
  <2>1. run = "preflight" /\ Live
    BY DEF Preflight, Live
  <2>2. lives >= 1 /\ lives \in Nat
    BY <2>1, SchedulerAssumption DEF TypeInv, MemTypes, TablesInv, RowsInv
  <2> QED BY <2>1, <2>2 DEF Preflight, PlaceInv, TablesInv, Manned
<1>2. /\ AttemptsInTurn'
      /\ \A s \in Sources, n \in AttemptNos :
           rows'[s][n].st # "running" /\ (rows'[s][n].st = "none" <=> rows[s][n].st = "none")
  BY <1>1, RecoveryTurns
<1>3. queue' = <<>> /\ run' \in {"over", "launch"}
  BY <1>1 DEF Preflight, wVars
<1>4. QueueInv' /\ HandsInv'
  BY <1>3, EmptyTurns DEF HandsInv
<1>5. CASE run' = "over"
  <2>1. RowsInv'
    BY <1>1, <1>2, <1>5, RowsMoves DEF Planned, Manned, Live
  <2> QED BY <1>2, <1>4, <2>1 DEF TablesInv
<1>6. CASE run' = "launch"
  <2>1. /\ offset' = [s \in Sources |-> IF resuming THEN MaxAttempt(s) ELSE 0]
        /\ index' = [s \in Sources |-> 0]
    BY <1>6 DEF Preflight
  <2>2. ASSUME NEW s \in Sources
        PROVE  /\ Attempt(s)' = offset'[s] /\ offset'[s] \in Nat
               /\ offset'[s] \in AttemptNos \cup {0}
               /\ offset'[s] > 0 => resuming /\ offset'[s] \in Attempts(s)
               /\ \A n \in Attempts(s) : resuming => n <= offset'[s]
    BY <2>1, NewestAttempt DEF Attempt
  <2>3. Lived = lives - 1 /\ Lived' = lives /\ Cap(lives - 1) <= Cap(lives)
        /\ Cap(lives - 1) \in Nat /\ Cap(lives) \in Nat
    <3>1. lives - 1 \in Nat /\ lives - 1 <= lives
      BY <1>1
    <3>2. Lived = lives - 1 /\ Lived' = lives
      BY <1>1, <1>6 DEF Lived
    <3> QED BY <1>1, <3>1, <3>2, Caps
  <2>4. \A s \in Sources, n \in AttemptNos : rows[s][n].st # "none" =>
            runRow # "absent" /\ n <= Cap(lives - 1) /\ n \in Attempts(s)
    BY <1>1, <2>3 DEF RowsInv, Attempts
  <2>5. ASSUME NEW s \in Sources, NEW n \in AttemptNos, rows'[s][n].st # "none"
        PROVE  runRow' # "absent" /\ n <= Cap(Lived)' /\ n <= Attempt(s)'
    <3>1. rows[s][n].st # "none"
      BY <1>2, <2>5
    <3>2. runRow # "absent" /\ n <= Cap(lives - 1) /\ n \in Attempts(s)
      BY <2>4, <3>1
    <3>3. resuming
      BY <1>1, <3>2
    <3>4. Cap(Lived)' = Cap(lives)
      BY <2>3 DEF Cap
    <3> QED BY <1>1, <2>2, <2>3, <3>2, <3>3, <3>4, AttemptNumbers
  <2>6. ASSUME NEW s \in Sources
        PROVE  /\ offset'[s] <= Cap(lives - 1)
               /\ \A n \in AttemptNos : rows'[s][n].st # "running"
               /\ offset'[s] \in AttemptNos \cup {0}
               /\ offset'[s] > 0 => resuming' /\ rows'[s][offset'[s]].st # "none"
    <3>1. offset'[s] > 0 => offset'[s] \in AttemptNos /\ rows[s][offset'[s]].st # "none"
      BY <2>2 DEF Attempts
    <3>2. offset'[s] <= Cap(lives - 1)
      BY <2>2, <2>3, <2>4, <3>1
    <3> QED BY <1>1, <1>2, <2>2, <3>1, <3>2
  <2>7. lives' >= 1 /\ Cap(lives - 1)' = Cap(lives - 1)
    BY <1>1 DEF Cap
  <2>8. RowsInv'
    BY <1>1, <2>5, <2>6, <2>7 DEF RowsInv
  <2> QED BY <1>2, <1>4, <2>8 DEF TablesInv
<1> QED BY <1>3, <1>5, <1>6

\* StartRun goes first, and only targets without a success are spawned.
LEMMA LaunchTables ==
    ASSUME TypeInv, PlaceInv, TablesInv, Launch
    PROVE  TablesInv'
<1>1. /\ run = "launch" /\ run' = "gather" /\ queue = <<>> /\ dead' = dead
      /\ UNCHANGED <<lives, resuming, rows, runRow, offset, index>>
      /\ task' = [s \in Sources |-> IF s \in Skipped \/ cancelled THEN "done" ELSE "spawned"]
      /\ RowsInv /\ AttemptsInTurn
      /\ ~resuming => runRow = "absent"
      /\ resuming => runRow = "interrupted"
  BY DEF Launch, PlaceInv, TablesInv, Manned, dbVars
<1>2. \A s \in Sources : Attempt(s)' = Attempt(s) /\ Attempt(s) = offset[s] /\ Attempt(s) \in Nat
  <2>1. \A s \in Sources : index[s] = 0 /\ offset[s] \in Nat
    BY <1>1 DEF TypeInv, TaskTypes, TargetFits
  <2> QED BY <1>1, <2>1 DEF Attempt
<1>3. Top' = Top
  BY <1>2 DEF Top
<1>4. RowsInv'
  <2>1. Lived' = Lived /\ Live /\ Live'
    BY <1>1 DEF Lived, Live
  <2> QED BY <1>1, <1>2, <2>1 DEF RowsInv, Planned, Manned
<1>5. PICK never \in InPlanOrder(NeverSpawned) : queue' = Sent(LaunchOps(never))
  BY RunQueue
<1>6. CASE dead
  <2>1. queue' = <<>>
    BY <1>1, <1>5, <1>6 DEF Sent
  <2> QED BY <1>1, <1>4, <1>6, <2>1, EmptyTurns DEF TablesInv, HandsInv, AttemptsInTurn
<1>7. CASE ~dead
  <2> DEFINE q == LaunchOps(never)
  <2>1. /\ q \in Seq(OpType) /\ Len(q) >= 1 /\ q[1] = StartRunOp
        /\ \A i \in 2 .. Len(q) : q[i].k = "unattempted"
    <3>1. OpOf({"start", "unattempted"}) \subseteq OpType
      BY DEF OpOf
    <3> QED BY <3>1, LaunchQueue
  <2> HIDE DEF q
  <2>2. queue' = q
    BY <1>1, <1>5, <1>7, <2>1, ConcatEmptySeq DEF Sent, q
  <2>3. q[1].k = "start" /\ q[1].st = IF resuming THEN "resume" ELSE "new"
    BY <2>1 DEF StartRunOp, Op
  <2>4. ASSUME NEW i \in 1 .. Len(q) PROVE InTurn(q, i - 1, q[i], Top, rows, runRow)
    <3>1. CASE i = 1
      <4>1. InTurn(q, 0, q[1], Top, rows, runRow)
        BY <1>1, <2>3 DEF InTurn, Attempting
      <4> QED BY <3>1, <4>1
    <3>2. CASE i # 1
      <4>1. q[i].k = "unattempted"
        BY <2>1, <3>2
      <4> QED BY <4>1, PlainTurn DEF Attempting
    <3> QED BY <3>1, <3>2
  <2>5. QueueInv'
    BY <1>1, <1>3, <2>2, <2>4 DEF QueueInv, Turns
  <2>6. Opened(q, runRow)
    BY <2>1, <2>3, EmptySeq DEF Opened
  <2>7. ASSUME NEW s \in Sources PROVE HandOf(q, rows, s, task'[s], Attempt(s))
    <3>1. CASE s \in Skipped \/ cancelled
      BY <1>1, <3>1 DEF HandOf, Busy
    <3>2. CASE ~(s \in Skipped \/ cancelled)
      <4>1. task'[s] = "spawned"
        BY <1>1, <3>2
      <4>2. /\ offset[s] \in AttemptNos \cup {0}
            /\ offset[s] > 0 => resuming /\ rows[s][offset[s]].st # "none"
            /\ \A n \in AttemptNos : rows[s][n].st # "running"
        BY <1>1 DEF RowsInv
      <4>3. ASSUME offset[s] > 0
            PROVE  offset[s] \in AttemptNos /\ rows[s][offset[s]].st \in Concluding
        <5>1. offset[s] \in AttemptNos /\ resuming
          BY <4>2, <4>3
        <5>2. rows[s][offset[s]].st # "succeeded"
          BY <3>2, <5>1 DEF Skipped, Completed
        <5>3. rows[s][offset[s]].st \in Settled \cup {"none", "running", "interrupted"}
          BY <5>1 DEF TypeInv, DbTypes, RowType
        <5> QED BY <4>2, <4>3, <5>1, <5>2, <5>3 DEF Settled, Concluding
      <4> QED BY <1>2, <4>1, <4>3 DEF HandOf, Busy, Concluded
    <3> QED BY <3>1, <3>2
  <2>8. HandsInv'
    BY <1>1, <1>2, <2>2, <2>6, <2>7 DEF HandsInv
  <2> QED BY <1>1, <1>4, <2>5, <2>8 DEF TablesInv, AttemptsInTurn
<1> QED BY <1>6, <1>7

\* What a drain withdraws is the end of the queue.
LEMMA DrainTables ==
    ASSUME TypeInv, PlaceInv, TablesInv, Drained \/ \E n \in 0 .. Len(queue) : DrainTimesOut(n)
    PROVE  TablesInv'
<1>1. /\ run = "drain" /\ run' = "pass" /\ UNCHANGED <<lives, rows, runRow, offset, index>>
  BY DEF Drained, DrainTimesOut, AfterDrain, taskVars, dbVars
<1>2. PICK n \in 0 .. Len(queue) :
          queue' \in {SubSeq(queue, 1, n), Append(SubSeq(queue, 1, n), PresenceOp)}
  BY RunQueue
<1>3. queue \in Seq(OpType) /\ QueueInv /\ RowsInv /\ AttemptsInTurn
  BY DEF TypeInv, OpTypes, TablesInv
<1> DEFINE q == SubSeq(queue, 1, n)
<1>4. Turns(q, Top, rows, runRow) /\ q \in Seq(OpType)
  BY <1>3, TurnsPrefix, QueueTypes DEF QueueInv
<1> HIDE DEF q
<1>5. PresenceOp \in OpType /\ PresenceOp.k = "presence"
  BY DEF PresenceOp, Op, OpType, OpFits, OpRec, Kinds, Words
<1>6. InTurn(q, Len(q), PresenceOp, Top, rows, runRow)
  BY <1>5, PlainTurn DEF Attempting
<1>7. Turns(queue', Top, rows, runRow)
  <2>1. queue' = q \/ queue' = Append(q, PresenceOp)
    BY <1>2 DEF q
  <2> QED BY <1>4, <1>5, <1>6, <2>1, TurnsAppend
<1>8. Top' = Top
  BY <1>1 DEF Top, Attempt
<1>9. QueueInv'
  BY <1>1, <1>7, <1>8 DEF QueueInv
<1>10. RowsInv'
  BY <1>1, <1>3, RowsMoves DEF Planned, Manned, Live
<1> QED BY <1>1, <1>3, <1>9, <1>10 DEF TablesInv, HandsInv, AttemptsInTurn

\* What a commit does to the rows and to the row of the run.
LEMMA CommitRows ==
    ASSUME TypeInv, WriterCommits
    PROVE  /\ queue \in Seq(OpType) /\ queue # <<>> /\ queue' = Tail(queue) /\ queue[1] \in OpType
           /\ rows \in RowsType /\ rows' \in RowsType
           /\ Committed(queue[1], rows, rows')
           /\ runRow' = "absent" => runRow = "absent" /\ queue[1].k # "start"
           /\ UNCHANGED <<lives, run, resuming, dead, offset, index, task, fresh, status, histVars>>
           /\ unattempted' = IF queue[1].k = "unattempted" THEN unattempted \cup {queue[1].s}
                             ELSE unattempted
           /\ runRow' = IF queue[1].k = "start" THEN "running"
                        ELSE IF queue[1].k = "end" THEN queue[1].st ELSE runRow
<1> DEFINE o == Head(queue)
<1>1. queue \in Seq(OpType) /\ queue # <<>> /\ queue' = Tail(queue)
  BY DEF TypeInv, OpTypes, WriterCommits
<1>2. o = queue[1] /\ o \in OpType
  BY <1>1, HeadTailProperties
<1>3. /\ Commit(o) /\ UNCHANGED <<lives, memVars, taskVars, dead, histVars>>
  BY DEF WriterCommits
<1> HIDE DEF o
<1>4. rows \in RowsType /\ rows' \in RowsType
  BY CommitTypes DEF TypeInv, DbTypes, RowsType
<1>5. rows' = IF o.k = "create" THEN [rows EXCEPT ![o.s][o.a] = [st |-> "running", ck |-> -1]]
              ELSE IF o.k = "batch" THEN [rows EXCEPT ![o.s][o.a] = Progress(@, o)]
              ELSE IF o.k = "finish" THEN [rows EXCEPT ![o.s][o.a] = FinishRow(@, o)]
              ELSE rows
  BY <1>3 DEF Commit
<1>6. ASSUME NEW s \in Sources, NEW n \in AttemptNos
      PROVE  rows'[s][n].st = IF Creates(o, s, n) THEN "running"
                              ELSE IF Ends(o, s, n) /\ rows[s][n].st = "running" THEN o.st
                              ELSE rows[s][n].st
  <2> DEFINE r == rows[s][n]
  <2>1. r \in RowType
    BY <1>4 DEF RowsType
  <2>2. \/ rows'[s][n] = r /\ ~Creates(o, s, n) /\ ~Ends(o, s, n)
        \/ Creates(o, s, n) /\ rows'[s][n] = [st |-> "running", ck |-> -1]
        \/ o.k = "batch" /\ rows'[s][n] = Progress(r, o)
        \/ Ends(o, s, n) /\ rows'[s][n] = FinishRow(r, o)
    BY <1>4, <1>5 DEF RowsType, Creates, Ends
  <2> HIDE DEF r
  <2>3. /\ o.k = "batch" => Progress(r, o).st = r.st
        /\ o.k = "finish" => FinishRow(r, o).st = IF r.st = "running" THEN o.st ELSE r.st
    BY <1>2, <2>1, RowTypes
  <2>4. Ends(o, s, n) => o.k = "finish" /\ ~Creates(o, s, n)
    BY DEF Ends, Creates
  <2>5. o.k = "batch" => ~Ends(o, s, n) /\ ~Creates(o, s, n)
    BY DEF Ends, Creates
  <2>6. rows'[s][n].st = IF Creates(o, s, n) THEN "running"
                         ELSE IF Ends(o, s, n) /\ r.st = "running" THEN o.st ELSE r.st
    <3>1. CASE rows'[s][n] = r /\ ~Creates(o, s, n) /\ ~Ends(o, s, n)
      BY <3>1
    <3>2. CASE Creates(o, s, n) /\ rows'[s][n] = [st |-> "running", ck |-> -1]
      BY <3>2
    <3>3. CASE o.k = "batch" /\ rows'[s][n] = Progress(r, o)
      BY <2>3, <2>5, <3>3
    <3>4. CASE Ends(o, s, n) /\ rows'[s][n] = FinishRow(r, o)
      BY <2>3, <2>4, <3>4
    <3> QED BY <2>2, <3>1, <3>2, <3>3, <3>4
  <2> QED BY <2>6 DEF r
<1>7. Committed(o, rows, rows')
  BY <1>6 DEF Committed
<1>8. runRow' = (IF o.k = "start" THEN "running" ELSE IF o.k = "end" THEN o.st ELSE runRow)
      /\ unattempted' = IF o.k = "unattempted" THEN unattempted \cup {o.s} ELSE unattempted
  BY <1>3 DEF Commit
<1>9. o.k = "end" => o.st # "absent"
  BY <1>2 DEF OpType, OpFits, Terminal
<1>10. runRow' = "absent" => runRow = "absent" /\ o.k # "start"
  BY <1>8, <1>9
<1> QED BY <1>1, <1>2, <1>3, <1>4, <1>7, <1>8, <1>10 DEF memVars, taskVars

\* A commit takes its operation out of the queue and leaves the rest in turn.
LEMMA CommitTables ==
    ASSUME TypeInv, PlaceInv, TablesInv, WriterCommits
    PROVE  TablesInv'
<1> DEFINE o == queue[1]
<1>1. /\ queue \in Seq(OpType) /\ queue # <<>> /\ queue' = Tail(queue) /\ o \in OpType
      /\ rows \in RowsType /\ rows' \in RowsType
      /\ Committed(o, rows, rows')
      /\ runRow' = "absent" => runRow = "absent" /\ o.k # "start"
      /\ UNCHANGED <<lives, run, resuming, dead, offset, index, task>>
  BY CommitRows
<1>2. Turns(queue, Top, rows, runRow) /\ RowsInv /\ HandsInv /\ AttemptsInTurn
  BY DEF TablesInv, QueueInv
<1>3. InTurn(queue, 0, o, Top, rows, runRow)
  <2>1. 1 \in 1 .. Len(queue) /\ 1 - 1 = 0
    BY <1>1, EmptySeq, LenProperties
  <2> QED BY <1>2, <2>1 DEF Turns
<1>4. run \in Manned
  BY <1>1 DEF PlaceInv
<1>5. /\ \A s \in Sources : Attempt(s)' = Attempt(s) /\ Attempt(s) \in Nat /\ Top[s] = Attempt(s)
      /\ Top' = Top
  <2>1. \A s \in Sources : Attempt(s)' = Attempt(s)
    BY <1>1 DEF Attempt
  <2> QED BY <2>1, TopTypes DEF Top
<1>6. Turns(Tail(queue), Top, rows', runRow')
  BY <1>1, <1>2, TurnsCommit
<1>7. QueueInv'
  BY <1>1, <1>5, <1>6 DEF QueueInv
<1> HIDE DEF o
<1>8. HandsInv'
  <2> SUFFICES ASSUME run = "gather", ~dead
               PROVE  /\ Opened(queue', runRow')
                      /\ \A s \in Sources : HandOf(queue', rows', s, task[s], Attempt(s))
    BY <1>1, <1>5 DEF HandsInv
  <2>1. /\ Opened(queue, runRow)
        /\ \A s \in Sources : HandOf(queue, rows, s, task[s], Attempt(s))
    BY <1>2 DEF HandsInv
  <2>2. Opened(queue', runRow')
    BY <1>1, <2>1 DEF Opened, o
  <2>3. \A s \in Sources : HandOf(queue', rows', s, task[s], Attempt(s))
    BY <1>1, <1>2, <1>5, <2>1, HandCommit DEF o
  <2> QED BY <2>2, <2>3
<1>9. ASSUME NEW s \in Sources, NEW n \in AttemptNos
      PROVE  rows'[s][n].st = IF Creates(o, s, n) THEN "running"
                              ELSE IF Ends(o, s, n) /\ rows[s][n].st = "running" THEN o.st
                              ELSE rows[s][n].st
  BY <1>1 DEF Committed
<1>10. RowsInv'
  <2>1. lives \in Nat /\ lives >= 1 /\ run # "launch" /\ run # "preflight" /\ Live /\ Live'
    BY <1>1, <1>2, <1>4, SchedulerAssumption DEF Manned, TypeInv, MemTypes, RowsInv, Live
  <2>2. Lived = lives /\ Lived' = lives /\ Cap(lives)' = Cap(lives) /\ Cap(lives - 1)' = Cap(lives - 1)
        /\ Cap(Lived)' = Cap(lives)
    BY <1>1, <2>1 DEF Lived, Cap
  <2>3. \A s \in Sources : offset[s] <= Cap(lives - 1)
    BY <1>2, <1>4 DEF RowsInv, Planned
  <2>4. ASSUME NEW s \in Sources, NEW n \in AttemptNos, rows'[s][n].st # "none"
        PROVE  runRow' # "absent" /\ n <= Cap(lives) /\ n <= Attempt(s)
    <3>1. CASE rows[s][n].st # "none"
      <4>1. runRow # "absent" /\ n <= Cap(lives) /\ n <= Attempt(s)
        BY <1>2, <1>4, <2>2, <3>1 DEF RowsInv, Planned
      <4> QED BY <1>1, <4>1
    <3>2. CASE rows[s][n].st = "none"
      <4>1. Creates(o, s, n)
        BY <1>9, <2>4, <3>2
      <4>2. n <= Attempt(s) /\ runRow # "absent"
        BY <1>3, <1>5, <4>1 DEF Creates, InTurn, Attempting
      <4>3. Attempt(s) <= Cap(lives)
        <5>1. lives - 1 \in Nat /\ (lives - 1) + 1 = lives
          BY <2>1
        <5>2. Cap(lives) = Cap(lives - 1) + MaxAttempts /\ Cap(lives - 1) \in Nat /\ MaxAttempts \in Nat
          BY <5>1, Caps
        <5>3. offset[s] \in Nat /\ index[s] \in Nat /\ index[s] <= MaxAttempts
          BY <5>2 DEF TypeInv, TaskTypes
        <5> QED BY <2>3, <5>2, <5>3 DEF Attempt
      <4>4. Cap(lives) \in Nat
        BY <2>1, Caps
      <4> QED BY <1>1, <1>5, <4>2, <4>3, <4>4, AttemptNumbers
    <3> QED BY <3>1, <3>2
  <2> QED BY <1>1, <1>5, <2>1, <2>2, <2>3, <2>4 DEF RowsInv
<1>11. AttemptsInTurn'
  <2> SUFFICES ASSUME NEW s \in Sources, NEW n \in AttemptNos, rows'[s][n].st # "none", n > 1
               PROVE  rows'[s][n - 1].st \notin {"none", "running", "succeeded"}
    BY DEF AttemptsInTurn
  <2>1. n - 1 \in AttemptNos
    BY SchedulerAssumption DEF AttemptNos
  <2>2. rows[s][n - 1].st \notin {"none", "running", "succeeded"}
    <3>1. CASE rows[s][n].st # "none"
      BY <1>2, <3>1 DEF AttemptsInTurn
    <3>2. CASE rows[s][n].st = "none"
      <4>1. Creates(o, s, n)
        BY <1>9, <3>2
      <4>2. Concluded(queue, 0, rows, s, n - 1)
        BY <1>3, <4>1 DEF Creates, InTurn
      <4> QED BY <4>2 DEF Concluded, Concluding
    <3> QED BY <3>1, <3>2
  <2>3. ~Creates(o, s, n - 1)
    BY <1>3, <2>2 DEF Creates, InTurn
  <2> QED BY <1>9, <2>1, <2>2, <2>3
<1> QED BY <1>7, <1>8, <1>10, <1>11 DEF TablesInv

\* Every step leaves the tables in turn, while nothing overtakes.
LEMMA TablesInvHolds ==
    ASSUME ~MayOvertake
    PROVE  TypeInv /\ PlaceInv /\ TablesInv /\ [Next]_vars => TablesInv'
<1> SUFFICES ASSUME TypeInv, PlaceInv, TablesInv, [Next]_vars PROVE TablesInv'
  OBVIOUS
<1>1. CASE UNCHANGED vars
  <2>1. UNCHANGED <<lives, run, resuming, queue, dead, rows, runRow, offset, index, task>>
    BY <1>1 DEF vars, memVars, taskVars, wVars, dbVars
  <2>2. RowsInv' /\ Top' = Top /\ \A t \in Sources : Attempt(t)' = Attempt(t)
    BY <2>1, RowsKept DEF TablesInv
  <2> QED BY <2>1, <2>2 DEF TablesInv, QueueInv, HandsInv, AttemptsInTurn
<1>2. CASE Next
  BY <1>2, RunTables, PreflightTables, LaunchTables, DrainTables, TargetEffects, TargetTables,
     CommitTables DEF Next, RunStep
<1> QED BY <1>1, <1>2

\* The tables of a run that was never started are empty.
LEMMA TablesInit == Init => TablesInv
<1> SUFFICES ASSUME Init PROVE TablesInv
  OBVIOUS
<1>1. queue = <<>> /\ run = "idle"
      /\ \A s \in Sources, n \in AttemptNos : rows[s][n].st = "none"
  BY DEF Init
<1>2. QueueInv
  BY <1>1 DEF QueueInv, Turns
<1>3. RowsInv
  BY <1>1 DEF RowsInv, Planned, Manned, Live
<1> QED BY <1>1, <1>2, <1>3 DEF TablesInv, HandsInv, AttemptsInTurn

\* The tables are never given an operation they refuse, and the attempts of a
\* source are numbered and run in turn (the constraints of source_runs), as
\* long as an operation reaches the queue behind those submitted before it.
THEOREM TablesStaySound ==
    ASSUME ~MayOvertake
    PROVE  Spec => []TablesSound
<1>1. Init => TypeInv /\ PlaceInv /\ TablesInv
  BY TypesInit, PlaceInit, TablesInit
<1>2. TypeInv /\ PlaceInv /\ TablesInv /\ [Next]_vars => (TypeInv /\ PlaceInv /\ TablesInv)'
  BY TypeInvHolds, PlaceInvHolds, TablesInvHolds
<1>3. TypeInv /\ PlaceInv /\ TablesInv => TablesSound
  <2> SUFFICES ASSUME TypeInv, PlaceInv, TablesInv PROVE TypeOK /\ NoConflict /\ AttemptsInTurn
    BY DEF TablesSound
  <2>1. TypeOK /\ AttemptsInTurn
    BY TypesImply DEF TablesInv
  <2>2. ASSUME queue # <<>> PROVE ~Violates(Head(queue))
    <3> DEFINE o == Head(queue)
    <3>1. queue \in Seq(OpType) /\ o = queue[1] /\ 1 \in 1 .. Len(queue) /\ 1 - 1 = 0
      BY <2>2, HeadTailProperties, EmptySeq, LenProperties DEF TypeInv, OpTypes
    <3>2. InTurn(queue, 0, o, Top, rows, runRow)
      BY <3>1 DEF TablesInv, QueueInv, Turns
    <3> HIDE DEF o
    <3>3. o.k \in {"batch", "finish"} => rows[o.s][o.a].st = "running"
      BY <3>2 DEF InTurn, Underway
    <3> QED BY <3>2, <3>3 DEF InTurn, Violates, o
  <2> QED BY <2>1, <2>2 DEF NoConflict
<1> QED BY <1>1, <1>2, <1>3, PTL DEF Spec

-----------------------------------------------------------------------------
(* What a run has to say of each of its targets *)

\* Whatever attempt of s is under way is the one its target, in state t with
\* newest attempt a, is in the middle of, or its end is queued.
Accounted(q, rs, s, t, a) ==
    \A n \in AttemptNos :
        Underway(q, Len(q), rs, s, n) =>
            (t \in Busy /\ n = a) \/ \E h \in 1 .. Len(q) : Ends(q[h], s, n)

\* A queued operation gives s an attempt, or says that it had none.
Named(q, s) ==
    \E h \in 1 .. Len(q) : q[h].k \in {"create", "unattempted"} /\ q[h].s = s

\* The tables say something of s.
Recorded(s) == Attempts(s) # {} \/ s \in unattempted \cup fresh \cup vanished

AccountInv ==
    /\ run \in Manned /\ ~dead /\ ~gaveUp =>
         \A s \in Sources :
            /\ Accounted(queue, rows, s, task[s], Attempt(s))
            /\ task[s] = "done" => Recorded(s) \/ Named(queue, s)
    /\ SettledRunAccounts

\* What goes behind the queue leaves the account as it is, unless it begins
\* an attempt.
LEMMA AccountAppend ==
    ASSUME NEW q \in Seq(OpType), NEW o \in OpType, NEW rs, NEW s
    PROVE  /\ \A t, a : Accounted(q, rs, s, t, a) /\ (\A n \in AttemptNos : ~Creates(o, s, n)) =>
                 Accounted(Append(q, o), rs, s, t, a)
           /\ \A n : Ends(o, s, n) => \E h \in 1 .. Len(Append(q, o)) : Ends(Append(q, o)[h], s, n)
           /\ Named(q, s) => Named(Append(q, o), s)
           /\ o.k \in {"create", "unattempted"} /\ o.s = s => Named(Append(q, o), s)
<1> DEFINE p == Append(q, o)
<1>1. /\ Len(p) = Len(q) + 1 /\ Len(q) \in Nat
      /\ \A j \in 1 .. Len(q) : p[j] = q[j]
      /\ p[Len(q) + 1] = o
  BY AppendProperties, LenProperties
<1> HIDE DEF p
<1>2. ASSUME NEW t, NEW a, Accounted(q, rs, s, t, a), \A n \in AttemptNos : ~Creates(o, s, n)
      PROVE  Accounted(p, rs, s, t, a)
  <2> SUFFICES ASSUME NEW n \in AttemptNos, Underway(p, Len(p), rs, s, n)
               PROVE  (t \in Busy /\ n = a) \/ \E h \in 1 .. Len(p) : Ends(p[h], s, n)
    BY DEF Accounted
  <2>1. \A h \in 1 .. Len(p) : h \in 1 .. Len(q) \/ p[h] = o
    BY <1>1
  <2>2. Underway(q, Len(q), rs, s, n)
    BY <1>1, <1>2, <2>1 DEF Underway
  <2>3. (t \in Busy /\ n = a) \/ \E h \in 1 .. Len(q) : Ends(q[h], s, n)
    BY <1>2, <2>2 DEF Accounted
  <2> QED BY <1>1, <2>3
<1>3. \A n : Ends(o, s, n) => \E h \in 1 .. Len(p) : Ends(p[h], s, n)
  BY <1>1
<1>4. /\ Named(q, s) => Named(p, s)
      /\ o.k \in {"create", "unattempted"} /\ o.s = s => Named(p, s)
  BY <1>1 DEF Named
<1> QED BY <1>2, <1>3, <1>4 DEF p

\* An attempt that is under way, or over, has a row or will have one.
LEMMA AttemptKnown ==
    ASSUME TypeInv, QueueInv, NEW s \in Sources, NEW n \in AttemptNos,
           Underway(queue, Len(queue), rows, s, n) \/ Concluded(queue, Len(queue), rows, s, n)
    PROVE  Attempts(s) # {} \/ Named(queue, s)
<1>1. Len(queue) \in Nat /\ queue \in Seq(OpType)
  BY LenProperties DEF TypeInv, OpTypes
<1>2. rows[s][n].st # "none" => Attempts(s) # {}
  BY DEF Attempts
<1>3. ASSUME NEW i \in 0 .. Len(queue), Underway(queue, i, rows, s, n)
      PROVE  Attempts(s) # {} \/ Named(queue, s)
  <2>1. CASE rows[s][n].st = "running"
    BY <1>2, <2>1
  <2>2. CASE \E h \in 1 .. i : Creates(queue[h], s, n)
    BY <1>1, <2>2 DEF Creates, Named
  <2> QED BY <1>3, <2>1, <2>2 DEF Underway
<1>4. ASSUME NEW h \in 1 .. Len(queue), Ends(queue[h], s, n)
      PROVE  Attempts(s) # {} \/ Named(queue, s)
  <2>1. InTurn(queue, h - 1, queue[h], Top, rows, runRow)
    BY DEF QueueInv, Turns
  <2>2. Underway(queue, h - 1, rows, s, n) /\ h - 1 \in 0 .. Len(queue)
    BY <1>1, <1>4, <2>1 DEF InTurn, Ends
  <2> QED BY <1>3, <2>2
<1>5. CASE Underway(queue, Len(queue), rows, s, n)
  <2>1. Len(queue) \in 0 .. Len(queue)
    BY <1>1
  <2> QED BY <1>3, <1>5, <2>1
<1>6. CASE Concluded(queue, Len(queue), rows, s, n)
  BY <1>2, <1>4, <1>6 DEF Concluded, Concluding
<1> QED BY <1>5, <1>6

\* The account of a run that has settled stays as it is.
LEMMA SettledKept ==
    ASSUME SettledRunAccounts, runRow' \in Terminal => runRow \in Terminal,
           gaveUp => gaveUp', fresh' = fresh \/ runRow' \notin Terminal, unattempted \subseteq unattempted',
           vanished \subseteq vanished',
           \A s \in Sources, n \in AttemptNos :
              /\ rows'[s][n].st = "running" => rows[s][n].st = "running"
              /\ rows[s][n].st # "none" => rows'[s][n].st # "none"
    PROVE  SettledRunAccounts'
<1> SUFFICES ASSUME runRow' \in Terminal, ~gaveUp', NEW s \in Sources
             PROVE  /\ \A n \in AttemptNos : rows'[s][n].st # "running"
                    /\ Attempts(s)' # {} \/ s \in (unattempted \cup fresh \cup vanished)'
  BY DEF SettledRunAccounts
<1>1. /\ \A n \in AttemptNos : rows[s][n].st # "running"
      /\ Attempts(s) # {} \/ s \in unattempted \cup fresh \cup vanished
  BY DEF SettledRunAccounts
<1>2. Attempts(s) # {} => Attempts(s)' # {}
  BY DEF Attempts
<1> QED BY <1>1, <1>2

\* The end of an attempt puts its end, and nothing that begins, in the queue.
LEMMA SettlingAccount ==
    ASSUME TypeInv, ~dead, NEW s \in Sources, NEW st \in Settled
    PROVE  /\ \A t \in Sources : \A w, a : Accounted(queue, rows, t, w, a) =>
                 Accounted(Settling(s, st), rows, t, w, a)
           /\ \E h \in 1 .. Len(Settling(s, st)) : Ends(Settling(s, st)[h], s, Attempt(s))
           /\ \A t : Named(queue, t) => Named(Settling(s, st), t)
<1> DEFINE b == BatchOp(s, Attempt(s), TRUE)
           f == FinishOp(s, Attempt(s), st, mark[s])
<1>1. b \in OpType /\ f \in OpType
  BY TargetOpTypes DEF OpOf
<1>2. b.k = "batch" /\ f.k = "finish" /\ f.s = s /\ f.a = Attempt(s)
  BY DEF BatchOp, FinishOp
<1>3. queue \in Seq(OpType)
  BY DEF TypeInv, OpTypes
<1>4. Settling(s, st) \in {Append(queue, f), Append(Append(queue, b), f)}
  BY SettlingIs
<1> HIDE DEF b, f
<1>5. \A t, n : ~Creates(b, t, n) /\ ~Creates(f, t, n)
  BY <1>2 DEF Creates
<1>6. Ends(f, s, Attempt(s))
  BY <1>2 DEF Ends
<1>7. ASSUME NEW q \in Seq(OpType),
             \A t \in Sources : \A w, a : Accounted(queue, rows, t, w, a) => Accounted(q, rows, t, w, a),
             \A t : Named(queue, t) => Named(q, t)
      PROVE  /\ \A t \in Sources : \A w, a : Accounted(queue, rows, t, w, a) =>
                   Accounted(Append(q, f), rows, t, w, a)
             /\ \E h \in 1 .. Len(Append(q, f)) : Ends(Append(q, f)[h], s, Attempt(s))
             /\ \A t : Named(queue, t) => Named(Append(q, f), t)
  BY <1>1, <1>5, <1>6, <1>7, AccountAppend
<1>8. /\ Append(queue, b) \in Seq(OpType)
      /\ \A t \in Sources : \A w, a :
           Accounted(queue, rows, t, w, a) => Accounted(Append(queue, b), rows, t, w, a)
      /\ \A t : Named(queue, t) => Named(Append(queue, b), t)
  BY <1>1, <1>3, <1>5, AccountAppend, AppendProperties
<1>9. CASE Settling(s, st) = Append(queue, f)
  BY <1>3, <1>7, <1>9
<1>10. CASE Settling(s, st) = Append(Append(queue, b), f)
  BY <1>7, <1>8, <1>10
<1> QED BY <1>4, <1>9, <1>10

\* The targets' steps: a target that is done has been accounted for.
LEMMA TargetAccounts ==
    ASSUME TypeInv, TablesInv, AccountInv, NEW s \in Sources, TargetEffect(s)
    PROVE  AccountInv'
<1>1. /\ run = "gather" /\ run' = run /\ dead' = dead /\ gaveUp' = gaveUp
      /\ UNCHANGED <<rows, runRow, offset, unattempted, fresh>> /\ vanished \subseteq vanished'
      /\ \A t \in Sources \ {s} : task'[t] = task[t] /\ index'[t] = index[t]
  BY DEF TargetEffect, memVars, dbVars
<1>2. SettledRunAccounts'
  BY <1>1, SettledKept DEF AccountInv
<1> SUFFICES ASSUME ~dead, ~gaveUp, NEW t \in Sources
             PROVE  /\ Accounted(queue', rows, t, task'[t], Attempt(t)')
                    /\ task'[t] = "done" => Recorded(t)' \/ Named(queue', t)
  BY <1>1, <1>2 DEF AccountInv
<1>3. /\ \A u \in Sources : /\ Accounted(queue, rows, u, task[u], Attempt(u))
                            /\ task[u] = "done" => Recorded(u) \/ Named(queue, u)
                            /\ HandOf(queue, rows, u, task[u], Attempt(u))
      /\ QueueInv /\ queue \in Seq(OpType)
  BY <1>1 DEF AccountInv, Manned, TablesInv, HandsInv, TypeInv, OpTypes
<1>4. Recorded(t) => Recorded(t)'
  <2>1. Attempts(t)' = Attempts(t)
    BY <1>1 DEF Attempts
  <2> QED BY <1>1, <2>1 DEF Recorded
<1>5. t # s => Attempt(t)' = Attempt(t) /\ task'[t] = task[t]
  BY <1>1 DEF Attempt
<1>6. CASE Begins(s)
  <2> DEFINE o == CreateOp(s, offset[s] + index[s] + 1)
  <2>1. o \in OpType /\ o.k = "create" /\ o.s = s /\ o.a = Attempt(s)'
    <3>1. o \in OpType
      BY TargetOpTypes DEF OpOf
    <3>2. Attempt(s)' = offset[s] + index[s] + 1
      <4>1. offset[s] \in Nat /\ index[s] \in Nat
        BY SchedulerAssumption DEF TypeInv, TaskTypes
      <4> QED BY <1>1, <1>6, <4>1 DEF Begins, Attempt
    <3> QED BY <3>1, <3>2 DEF CreateOp, Op
  <2>2. queue' = Append(queue, o) /\ task[s] = "create" /\ task'[s] = "stream"
    BY <1>6 DEF Begins
  <2> HIDE DEF o
  <2>3. CASE t = s
    <3>1. ASSUME NEW n \in AttemptNos, Underway(queue', Len(queue'), rows, s, n)
          PROVE  n = Attempt(s)' \/ \E h \in 1 .. Len(queue') : Ends(queue'[h], s, n)
      <4>1. /\ Len(queue') = Len(queue) + 1 /\ Len(queue) \in Nat
            /\ \A h \in 1 .. Len(queue) : queue'[h] = queue[h]
            /\ queue'[Len(queue) + 1] = o
        BY <1>3, <2>1, <2>2, AppendProperties, LenProperties
      <4>2. Creates(o, s, n) => n = Attempt(s)'
        BY <2>1 DEF Creates
      <4>3. Underway(queue, Len(queue), rows, s, n) \/ Creates(o, s, n)
        BY <3>1, <4>1 DEF Underway
      <4>4. Underway(queue, Len(queue), rows, s, n) =>
                \E h \in 1 .. Len(queue) : Ends(queue[h], s, n)
        BY <1>3, <2>2 DEF Accounted, Busy
      <4> QED BY <4>1, <4>2, <4>3, <4>4
    <3> QED BY <2>2, <2>3, <3>1 DEF Accounted, Busy
  <2>4. CASE t # s
    <3>1. \A n \in AttemptNos : ~Creates(o, t, n)
      BY <2>1, <2>4 DEF Creates
    <3> QED BY <1>3, <1>4, <1>5, <2>1, <2>2, <2>4, <3>1, AccountAppend, ZenonT(60)
  <2> QED BY <2>3, <2>4
<1>7. CASE ~Begins(s)
  <2>1. Lands(s) \/ Settles(s) \/ Moves(s) \/ Leaves(s)
    BY <1>7 DEF TargetEffect
  <2>2. \A u \in Sources : Attempt(u)' = Attempt(u)
    BY <1>1, <2>1 DEF Lands, Settles, Moves, Leaves, Attempt
  <2>3. CASE Lands(s)
    <3> DEFINE o == BatchOp(s, Attempt(s), FALSE)
    <3>1. o \in OpType /\ o.k = "batch"
      <4>1. o \in OpType
        BY TargetOpTypes DEF OpOf
      <4> QED BY <4>1 DEF BatchOp
    <3>2. queue' = Append(queue, o) /\ task[s] \in Busy /\ task'[s] \in Busy /\ task'[s] # "done"
      BY <2>3 DEF Lands, Busy
    <3> HIDE DEF o
    <3>3. \A n \in AttemptNos : ~Creates(o, t, n)
      BY <3>1 DEF Creates
    <3>4. /\ Accounted(queue', rows, t, task[t], Attempt(t))
          /\ Named(queue, t) => Named(queue', t)
      BY <1>3, <3>1, <3>2, <3>3, AccountAppend
    <3>5. Accounted(queue', rows, t, task'[t], Attempt(t))
      BY <1>5, <3>2, <3>4 DEF Accounted
    <3> QED BY <1>3, <1>4, <1>5, <2>2, <3>2, <3>4, <3>5
  <2>4. CASE Settles(s)
    <3>1. PICK st \in Settled : queue' = Settling(s, st)
      BY <2>4 DEF Settles
    <3>2. task[s] \in Busy
      BY <2>4 DEF Settles
    <3>3. /\ Accounted(queue', rows, t, task[t], Attempt(t))
          /\ \E h \in 1 .. Len(queue') : Ends(queue'[h], s, Attempt(s))
          /\ \A u : Named(queue, u) => Named(queue', u)
      BY <1>3, <3>1, SettlingAccount
    <3>4. Accounted(queue', rows, t, task'[t], Attempt(t))
      BY <1>5, <3>3 DEF Accounted
    <3>5. Recorded(s) \/ Named(queue, s)
      <4>1. HandOf(queue, rows, s, task[s], Attempt(s))
        BY <1>3
      <4>2. Attempt(s) \in AttemptNos /\ Underway(queue, Len(queue), rows, s, Attempt(s))
        BY <3>2, <4>1 DEF HandOf
      <4>3. Attempts(s) # {} \/ Named(queue, s)
        BY <1>3, <4>2, AttemptKnown
      <4> QED BY <4>3 DEF Recorded
    <3> QED BY <1>3, <1>4, <1>5, <2>2, <3>3, <3>4, <3>5
  <2>5. CASE Moves(s)
    <3>1. queue' = queue
          /\ \/ task'[s] = task[s]
             \/ task[s] \in Busy /\ task'[s] \in Busy
             \/ task[s] \in Waiting /\ task'[s] \in Waiting
      BY <2>5 DEF Moves
    <3>2. Accounted(queue, rows, t, task[t], Attempt(t))
      BY <1>3
    <3>3. task[t] \in Busy => task'[t] \in Busy
      BY <1>5, <3>1 DEF Busy, Waiting
    <3>4. Accounted(queue, rows, t, task'[t], Attempt(t))
      BY <3>2, <3>3 DEF Accounted
    <3>5. task'[t] = "done" => task[t] = "done"
      BY <1>5, <3>1 DEF Busy, Waiting
    <3> QED BY <1>3, <1>4, <2>2, <3>1, <3>4, <3>5
  <2>6. CASE Leaves(s)
    <3>1. task[s] \in Waiting /\ task[s] \notin Busy
      BY <2>6 DEF Leaves, Waiting, Busy
    <3>2. CASE queue' = queue /\ (s \in vanished' \/ index[s] > 0)
      <4>1. Accounted(queue, rows, t, task'[t], Attempt(t))
        <5>1. Accounted(queue, rows, t, task[t], Attempt(t)) /\ (task[t] \in Busy => task'[t] \in Busy)
          BY <1>3, <1>5, <3>1
        <5> QED BY <5>1 DEF Accounted
      <4>2. Recorded(s)' \/ Named(queue, s)
        <5>1. CASE s \in vanished'
          BY <5>1 DEF Recorded
        <5>2. CASE index[s] > 0
          <6>1. Attempt(s) > 0
            BY <5>2 DEF TypeInv, TaskTypes, Attempt
          <6>2. HandOf(queue, rows, s, task[s], Attempt(s))
            BY <1>3
          <6>3. Attempt(s) \in AttemptNos /\ Concluded(queue, Len(queue), rows, s, Attempt(s))
            BY <3>1, <6>1, <6>2 DEF HandOf, Waiting
          <6>4. Attempts(s) # {} \/ Named(queue, s)
            BY <1>3, <6>3, AttemptKnown
          <6>5. Attempts(s)' = Attempts(s)
            BY <1>1 DEF Attempts
          <6> QED BY <6>4, <6>5 DEF Recorded
        <5> QED BY <3>2, <5>1, <5>2
      <4> QED BY <1>3, <1>4, <1>5, <2>2, <3>2, <4>1, <4>2
    <3>3. CASE queue' = Sent(<<UnattemptedOp(s)>>)
      <4>1. UnattemptedOp(s) \in OpType /\ UnattemptedOp(s).k = "unattempted" /\ UnattemptedOp(s).s = s
        <5>1. UnattemptedOp(s) \in OpType
          BY TargetOpTypes DEF OpOf
        <5> QED BY <5>1 DEF UnattemptedOp, Op
      <4>2. queue' = Append(queue, UnattemptedOp(s))
        BY <1>3, <3>3, <4>1, AppendIsConcat DEF Sent
      <4>3. \A n \in AttemptNos : ~Creates(UnattemptedOp(s), t, n)
        BY <4>1 DEF Creates
      <4>4. /\ Accounted(queue', rows, t, task[t], Attempt(t))
            /\ Named(queue, t) => Named(queue', t)
            /\ Named(queue', s)
        BY <1>3, <4>1, <4>2, <4>3, AccountAppend
      <4>5. Accounted(queue', rows, t, task'[t], Attempt(t))
        <5>1. task[t] \in Busy => task'[t] \in Busy
          BY <1>5, <3>1
        <5> QED BY <4>4, <5>1 DEF Accounted
      <4> QED BY <1>3, <1>4, <1>5, <2>2, <4>4, <4>5
    <3> QED BY <2>6, <3>2, <3>3 DEF Leaves
  <2> QED BY <2>1, <2>3, <2>4, <2>5, <2>6
<1> QED BY <1>6, <1>7

\* The operations of the targets are operations.
LEMMA PlainSeq == Seq(PlainType) \subseteq Seq(OpType)
<1>1. PlainType \subseteq OpType
  BY DEF PlainType, OpOf
<1> QED BY <1>1, SeqMonotonic

\* The end of the run is the last operation there is.
LEMMA EndIsLast ==
    ASSUME TypeInv, PlaceInv, queue # <<>>, queue[1].k = "end"
    PROVE  run = "close" /\ Tail(queue) = <<>>
<1>1. queue \in Seq(OpType) /\ Head(queue) = queue[1] /\ 1 \in 1 .. Len(queue)
  BY HeadTailProperties, EmptySeq, LenProperties DEF TypeInv, OpTypes
<1>2. \A q : q # <<>> /\ (q \in Seq(PlainType) \/ PassAhead(q)) => Head(q).k # "end"
  <2> SUFFICES ASSUME NEW q, q # <<>>, q \in Seq(PlainType) \/ PassAhead(q) PROVE Head(q).k # "end"
    OBVIOUS
  <2>1. PresenceOp \in OpType /\ PresenceOp.k = "presence"
    BY DEF PresenceOp, Op, OpType, OpFits, OpRec, Kinds, Words
  <2>2. \A r \in Seq(PlainType) : r # <<>> => Head(r).k # "end"
    <3>1. \A x \in PlainType : x.k # "end"
      BY DEF PlainType, OpOf, TargetOps
    <3> QED BY <3>1, HeadTailProperties
  <2>3. ASSUME NEW r \in Seq(PlainType), q = Append(r, PresenceOp) PROVE Head(q).k # "end"
    <3>1. r \in Seq(OpType)
      BY PlainSeq
    <3>2. CASE r = <<>>
      BY <2>1, <2>3, <3>1, <3>2, TailOfAppend
    <3>3. CASE r # <<>>
      BY <2>1, <2>2, <2>3, <3>1, <3>3, TailOfAppend
    <3> QED BY <3>2, <3>3
  <2> QED BY <2>2, <2>3 DEF PassAhead
<1>3. run = "close" /\ EndsRun
  BY <1>1, <1>2 DEF PlaceInv, Manned
<1>4. PICK st \in Terminal, q \in Seq(OpType) :
          /\ queue = Append(q, FinishRunOp(st))
          /\ q \in Seq(PlainType) \/ PassAhead(q)
  BY <1>3 DEF EndsRun
<1>5. FinishRunOp(st) \in OpType
  BY DEF FinishRunOp, Op, OpType, OpFits, OpRec, Kinds, Words, Terminal
<1>6. q = <<>>
  BY <1>1, <1>2, <1>4, <1>5, TailOfAppend
<1> QED BY <1>3, <1>4, <1>5, <1>6, TailOfAppend

\* A commit puts into the tables what the queue said.
LEMMA CommitAccounts ==
    ASSUME TypeInv, PlaceInv, TablesInv, AccountInv, WriterCommits
    PROVE  AccountInv'
<1> DEFINE o == queue[1]
           p == Tail(queue)
<1>1. /\ queue \in Seq(OpType) /\ queue # <<>> /\ queue' = p /\ o \in OpType
      /\ Committed(o, rows, rows')
      /\ UNCHANGED <<run, dead, offset, index, task, fresh, histVars>>
      /\ unattempted' = IF o.k = "unattempted" THEN unattempted \cup {o.s} ELSE unattempted
      /\ runRow' = IF o.k = "start" THEN "running" ELSE IF o.k = "end" THEN o.st ELSE runRow
  BY CommitRows
<1>2. /\ Len(p) = Len(queue) - 1 /\ Len(queue) \in Nat /\ Len(queue) >= 1
      /\ \A h \in 1 .. Len(p) : p[h] = queue[h + 1] /\ h + 1 \in 1 .. Len(queue)
      /\ \A h \in 1 .. Len(queue) : h = 1 \/ (h - 1 \in 1 .. Len(p) /\ p[h - 1] = queue[h])
  BY <1>1, HeadTailProperties, LenProperties, EmptySeq
<1>3. /\ \A h \in 1 .. Len(queue) : InTurn(queue, h - 1, queue[h], Top, rows, runRow)
      /\ InTurn(queue, 0, o, Top, rows, runRow)
  <2>1. 1 \in 1 .. Len(queue) /\ 1 - 1 = 0
    BY <1>2
  <2> QED BY <2>1 DEF TablesInv, QueueInv, Turns
<1>4. run \in Manned /\ ~dead /\ runRow \notin Terminal
  BY <1>1 DEF PlaceInv
<1> HIDE DEF o, p
<1>5. ASSUME NEW s \in Sources, NEW n \in AttemptNos
      PROVE  rows'[s][n].st = IF Creates(o, s, n) THEN "running"
                              ELSE IF Ends(o, s, n) /\ rows[s][n].st = "running" THEN o.st
                              ELSE rows[s][n].st
  BY <1>1 DEF Committed
<1>6. \A s, n : Ends(o, s, n) => o.st \in Settled
  BY <1>1 DEF Ends, OpType, OpFits
<1>7. ASSUME NEW s \in Sources, Recorded(s) \/ Named(queue, s)
      PROVE  Recorded(s)' \/ Named(p, s)
  <2>1. CASE Attempts(s) # {}
    <3>1. PICK n \in AttemptNos : rows[s][n].st # "none"
      BY <2>1 DEF Attempts
    <3>2. rows'[s][n].st # "none"
      BY <1>5, <1>6, <3>1 DEF Settled
    <3> QED BY <3>2 DEF Recorded, Attempts
  <2>2. CASE s \in unattempted \cup fresh \cup vanished
    BY <1>1, <2>2 DEF Recorded, histVars
  <2>3. CASE Named(queue, s)
    <3>1. PICK h \in 1 .. Len(queue) : queue[h].k \in {"create", "unattempted"} /\ queue[h].s = s
      BY <2>3 DEF Named
    <3>2. CASE h = 1 /\ o.k = "unattempted"
      <4>1. s \in unattempted'
        BY <1>1, <3>1, <3>2 DEF o
      <4> QED BY <4>1 DEF Recorded
    <3>3. CASE h = 1 /\ o.k = "create"
      <4>1. o.s = s /\ o.a \in AttemptNos
        BY <1>3, <3>1, <3>3 DEF o, InTurn, Attempting
      <4>2. Creates(o, s, o.a)
        BY <3>3, <4>1 DEF Creates
      <4>3. rows'[s][o.a].st # "none"
        BY <1>5, <4>1, <4>2
      <4> QED BY <4>1, <4>3 DEF Recorded, Attempts
    <3>4. CASE h # 1
      BY <1>2, <3>1, <3>4 DEF Named
    <3> QED BY <3>1, <3>2, <3>3, <3>4 DEF o
  <2> QED BY <1>7, <2>1, <2>2, <2>3 DEF Recorded
<1>8. ASSUME NEW s \in Sources, NEW t, NEW a, Accounted(queue, rows, s, t, a)
      PROVE  Accounted(p, rows', s, t, a)
  <2> SUFFICES ASSUME NEW n \in AttemptNos, Underway(p, Len(p), rows', s, n)
               PROVE  (t \in Busy /\ n = a) \/ \E h \in 1 .. Len(p) : Ends(p[h], s, n)
    BY DEF Accounted
  <2>1. Underway(queue, Len(queue), rows, s, n)
    <3>1. CASE rows'[s][n].st = "running"
      <4>1. Creates(o, s, n) \/ rows[s][n].st = "running"
        BY <1>5, <1>6, <3>1 DEF Settled
      <4>2. Creates(o, s, n) => \E h \in 1 .. Len(queue) : Creates(queue[h], s, n)
        BY <1>2 DEF o
      <4> QED BY <4>1, <4>2 DEF Underway
    <3>2. CASE \E h \in 1 .. Len(p) : Creates(p[h], s, n)
      BY <1>2, <3>2 DEF Underway
    <3> QED BY <3>1, <3>2 DEF Underway
  <2>2. ~Ends(o, s, n)
    <3> SUFFICES ASSUME Ends(o, s, n) PROVE FALSE
      OBVIOUS
    <3>1. rows[s][n].st = "running" /\ ~Creates(o, s, n)
      BY <1>3 DEF Ends, Creates, InTurn, Underway
    <3>2. rows'[s][n].st # "running"
      BY <1>5, <1>6, <3>1 DEF Settled
    <3>3. PICK h \in 1 .. Len(p) : Creates(p[h], s, n)
      BY <3>2 DEF Underway
    <3>4. InTurn(queue, (h + 1) - 1, queue[h + 1], Top, rows, runRow) /\ queue[h + 1] = p[h]
      BY <1>2, <1>3
    <3>5. ~About(queue[1], s, n)
      BY <1>2, <3>3, <3>4 DEF InTurn, Creates
    <3> QED BY <3>5 DEF o, Ends, About, Attempting
  <2>3. (t \in Busy /\ n = a) \/ \E h \in 1 .. Len(queue) : Ends(queue[h], s, n)
    BY <1>8, <2>1 DEF Accounted
  <2> QED BY <1>2, <2>2, <2>3 DEF o
<1>9. run' \in Manned /\ ~dead' /\ ~gaveUp' =>
         \A s \in Sources :
            /\ Accounted(queue', rows', s, task'[s], Attempt(s)')
            /\ task'[s] = "done" => Recorded(s)' \/ Named(queue', s)
  <2>1. \A s \in Sources : Attempt(s)' = Attempt(s)
    BY <1>1 DEF Attempt
  <2>2. ASSUME ~gaveUp, NEW s \in Sources
        PROVE  /\ Accounted(queue, rows, s, task[s], Attempt(s))
               /\ task[s] = "done" => Recorded(s) \/ Named(queue, s)
    BY <1>4, <2>2 DEF AccountInv
  <2>3. ASSUME ~gaveUp, NEW s \in Sources
        PROVE  /\ Accounted(p, rows', s, task[s], Attempt(s))
               /\ task[s] = "done" => Recorded(s)' \/ Named(p, s)
    BY <1>7, <1>8, <2>2, <2>3
  <2> QED BY <1>1, <2>1, <2>3 DEF histVars
<1>10. SettledRunAccounts'
  <2> SUFFICES ASSUME runRow' \in Terminal, ~gaveUp', NEW s \in Sources
               PROVE  /\ \A n \in AttemptNos : rows'[s][n].st # "running"
                      /\ Attempts(s)' # {} \/ s \in (unattempted \cup fresh \cup vanished)'
    BY DEF SettledRunAccounts
  <2>1. o.k = "end"
    BY <1>1, <1>4 DEF Terminal
  <2>2. run = "close" /\ p = <<>>
    BY <1>1, <2>1, EndIsLast DEF o, p
  <2>3. task[s] = "done" /\ run' \in Manned /\ ~dead'
    BY <1>1, <1>4, <2>2 DEF TypeInv, TaskTypes, TargetFits
  <2>4. /\ Accounted(p, rows', s, "done", Attempt(s)')
        /\ Recorded(s)' \/ Named(p, s)
    BY <1>1, <1>9, <2>3
  <2>5. \A h : h \notin 1 .. Len(p)
    BY <2>2
  <2>6. ~Named(p, s)
    BY <2>5 DEF Named
  <2>7. \A n \in AttemptNos : rows'[s][n].st # "running"
    BY <2>4, <2>5 DEF Accounted, Underway, Busy
  <2> QED BY <2>4, <2>6, <2>7 DEF Recorded
<1> QED BY <1>9, <1>10 DEF AccountInv

\* A step that no manned run makes has only the settled one to keep.
LEMMA SettledRemains ==
    ASSUME AccountInv, run' \notin Manned \/ dead' \/ gaveUp', gaveUp => gaveUp',
           UNCHANGED <<rows, runRow, unattempted, fresh, vanished>>
    PROVE  AccountInv'
<1>1. SettledRunAccounts'
  BY SettledKept DEF AccountInv
<1> QED BY <1>1 DEF AccountInv

\* Nothing is under way and nothing has been said of a target when another
\* operation goes behind the queue.
LEMMA AccountStill ==
    ASSUME AccountInv, queue \in Seq(OpType), run \in Manned,
           UNCHANGED <<dead, gaveUp, rows, runRow, unattempted, fresh, vanished, task, offset, index>>,
           NEW o \in OpType, o.k # "create", queue' \in {queue, Append(queue, o)}
    PROVE  AccountInv'
<1>1. SettledRunAccounts'
  BY SettledKept DEF AccountInv
<1>2. \A s \in Sources : Attempt(s)' = Attempt(s) /\ Recorded(s)' = Recorded(s)
  BY DEF Attempt, Attempts, Recorded
<1>3. \A s \in Sources : \A n \in AttemptNos : ~Creates(o, s, n)
  BY DEF Creates
<1>4. ASSUME ~dead, ~gaveUp, NEW s \in Sources
      PROVE  /\ Accounted(queue', rows, s, task[s], Attempt(s))
             /\ task[s] = "done" => Recorded(s) \/ Named(queue', s)
  <2>1. /\ Accounted(queue, rows, s, task[s], Attempt(s))
        /\ task[s] = "done" => Recorded(s) \/ Named(queue, s)
    BY <1>4 DEF AccountInv
  <2>2. CASE queue' = queue
    BY <2>1, <2>2
  <2>3. CASE queue' = Append(queue, o)
    BY <1>3, <2>1, <2>3, AccountAppend
  <2> QED BY <2>2, <2>3
<1> QED BY <1>1, <1>2, <1>4 DEF AccountInv

\* What the steps of the run outside its targets leave of the account.
LEMMA RunAccounts ==
    ASSUME TypeInv, PlaceInv, AccountInv
    PROVE  \/ \E again \in BOOLEAN : Start(again)
           \/ RecoverOrphans \/ Gathered \/ Cancel \/ Crash \/ Drained
           \/ \E n \in 0 .. Len(queue) : DrainTimesOut(n)
           \/ FinishRun \/ Closes \/ CloseTimesOut \/ WriterFails
           => AccountInv'
<1>1. /\ queue \in Seq(OpType) /\ (run \in {"idle", "over"} => queue = <<>>)
  BY DEF TypeInv, OpTypes, PlaceInv, Manned
<1>2. ASSUME NEW again \in BOOLEAN, Start(again) PROVE AccountInv'
  <2>1. /\ run' = "preflight" /\ UNCHANGED <<rows, runRow, unattempted, fresh, vanished, gaveUp>>
    BY <1>2 DEF Start, dbVars, histVars
  <2> QED BY <2>1, SettledRemains DEF Manned
<1>3. ASSUME RecoverOrphans PROVE AccountInv'
  <2>1. /\ run' \notin Manned /\ rows' = RowsAfterRecovery(rows)
        /\ runRow' \in {runRow, "interrupted"} /\ UNCHANGED <<unattempted, fresh, vanished, gaveUp>>
    BY <1>3 DEF RecoverOrphans, Live, Manned, TypeInv, MemTypes, memVars, histVars
  <2>2. \A s \in Sources, n \in AttemptNos :
            rows'[s][n].st = IF rows[s][n].st = "running" THEN "interrupted" ELSE rows[s][n].st
    BY <2>1, RecoveryTypes DEF TypeInv
  <2>3. SettledRunAccounts'
    BY <2>1, <2>2, SettledKept DEF AccountInv, Terminal
  <2> QED BY <2>1, <2>3 DEF AccountInv
<1>4. PresenceOp \in OpType /\ PresenceOp.k = "presence"
  BY DEF PresenceOp, Op, OpType, OpFits, OpRec, Kinds, Words
<1>5. Gathered \/ Cancel => AccountInv'
  <2> SUFFICES ASSUME Gathered \/ Cancel PROVE AccountInv'
    OBVIOUS
  <2>1. /\ UNCHANGED <<queue, dead, gaveUp, rows, runRow, unattempted, fresh, vanished, task, offset, index>>
        /\ run' \in Manned => run \in Manned
    BY DEF Gathered, Cancel, taskVars, wVars, dbVars, histVars, Manned
  <2>2. CASE run' \in Manned
    BY <1>1, <1>4, <2>1, <2>2, AccountStill
  <2>3. CASE run' \notin Manned
    BY <2>1, <2>3, SettledRemains
  <2> QED BY <2>2, <2>3
<1>6. Drained => AccountInv'
  <2> SUFFICES ASSUME Drained PROVE AccountInv'
    OBVIOUS
  <2>1. /\ UNCHANGED <<dead, gaveUp, rows, runRow, unattempted, fresh, vanished, task, offset, index>>
        /\ run \in Manned /\ queue' \in {queue, Append(queue, PresenceOp)}
    BY DEF Drained, AfterDrain, taskVars, dbVars, Manned
  <2> QED BY <1>1, <1>4, <2>1, AccountStill
<1>7. (\E n \in 0 .. Len(queue) : DrainTimesOut(n)) => AccountInv'
  <2> SUFFICES ASSUME NEW n, DrainTimesOut(n) PROVE AccountInv'
    OBVIOUS
  <2>1. gaveUp' /\ UNCHANGED <<rows, runRow, unattempted, fresh, vanished>>
    BY DEF DrainTimesOut, AfterDrain, dbVars
  <2> QED BY <2>1, SettledRemains
<1>8. FinishRun => AccountInv'
  <2> SUFFICES ASSUME FinishRun PROVE AccountInv'
    OBVIOUS
  <2>1. /\ UNCHANGED <<dead, gaveUp, rows, runRow, unattempted, fresh, vanished, task, offset, index>>
        /\ run = "pass" /\ queue' = Sent(<<FinishRunOp(status)>>)
    BY DEF FinishRun, taskVars, dbVars, histVars
  <2>2. FinishRunOp(status) \in OpType /\ FinishRunOp(status).k = "end"
    <3>1. status \in Terminal
      BY <2>1 DEF TypeInv, MemTypes
    <3> QED BY <3>1 DEF FinishRunOp, Op, OpType, OpFits, OpRec, Kinds, Words, Terminal
  <2>3. queue' \in {queue, Append(queue, FinishRunOp(status))}
    BY <1>1, <2>1, <2>2, AppendIsConcat DEF Sent
  <2> QED BY <1>1, <2>1, <2>2, <2>3, AccountStill DEF Manned
<1>9. Crash \/ Closes \/ CloseTimesOut \/ WriterFails => AccountInv'
  <2> SUFFICES ASSUME Crash \/ Closes \/ CloseTimesOut \/ WriterFails PROVE AccountInv'
    OBVIOUS
  <2>1. /\ run' \notin Manned \/ dead'
        /\ UNCHANGED <<rows, runRow, unattempted, fresh, vanished>> /\ (gaveUp => gaveUp')
    BY DEF Crash, Closes, CloseTimesOut, WriterFails, dbVars, histVars, memVars, Manned
  <2> QED BY <2>1, SettledRemains
<1> QED BY <1>2, <1>3, <1>5, <1>6, <1>7, <1>8, <1>9

\* A preflight leaves a run that has settled as it was.
LEMMA PreflightAccounts ==
    ASSUME TypeInv, PlaceInv, AccountInv, NEW nd \in SUBSET MayBeFresh, Preflight(nd)
    PROVE  AccountInv'
<1>1. /\ run' \in {"over", "launch"} /\ rows' = RowsAfterRecovery(rows)
      /\ runRow' \in {runRow, "interrupted"} /\ UNCHANGED <<unattempted, vanished, gaveUp>>
      /\ run = "preflight" /\ (resuming /\ runRow' # "interrupted" => fresh' = fresh)
  BY DEF Preflight, histVars
<1>2. \A s \in Sources, n \in AttemptNos :
          rows'[s][n].st = IF rows[s][n].st = "running" THEN "interrupted" ELSE rows[s][n].st
  BY <1>1, RecoveryTypes DEF TypeInv
<1>3. fresh' = fresh \/ runRow' \notin Terminal
  BY <1>1 DEF PlaceInv, Terminal
<1>4. SettledRunAccounts'
  BY <1>1, <1>2, <1>3, SettledKept DEF AccountInv, Terminal
<1> QED BY <1>1, <1>4 DEF AccountInv, Manned

\* A target the launch does not spawn is skipped for what is known of it, or
\* gets its unattempted row.
LEMMA LaunchAccounts ==
    ASSUME TypeInv, PlaceInv, TablesInv, AccountInv, Launch
    PROVE  AccountInv'
<1>1. /\ run = "launch" /\ run' = "gather" /\ queue = <<>>
      /\ UNCHANGED <<dead, gaveUp, rows, runRow, unattempted, fresh, vanished>>
      /\ task' = [s \in Sources |-> IF s \in Skipped \/ cancelled THEN "done" ELSE "spawned"]
  BY DEF Launch, PlaceInv, Manned, dbVars, histVars
<1>2. SettledRunAccounts'
  BY <1>1, SettledKept DEF AccountInv
<1> SUFFICES ASSUME ~dead, NEW s \in Sources
             PROVE  /\ Accounted(queue', rows, s, task'[s], Attempt(s)')
                    /\ task'[s] = "done" => Recorded(s)' \/ Named(queue', s)
  BY <1>1, <1>2 DEF AccountInv
<1>3. PICK never \in InPlanOrder(NeverSpawned) : queue' = Sent(LaunchOps(never))
  BY RunQueue
<1> DEFINE q == LaunchOps(never)
<1>4. /\ q \in Seq(OpOf({"start", "unattempted"}))
      /\ cancelled /\ s \notin Skipped =>
            \E i \in 1 .. Len(q) : q[i].k = "unattempted" /\ q[i].s = s
  BY LaunchQueue
<1> HIDE DEF q
<1>5. queue' = q
  BY <1>1, <1>3, <1>4, ConcatEmptySeq DEF Sent, q
<1>6. \A n \in AttemptNos : ~Underway(q, Len(q), rows, s, n)
  <2>1. \A h \in 1 .. Len(q) : q[h].k # "create"
    BY <1>4, ElementOfSeq DEF OpOf
  <2>2. \A n \in AttemptNos : rows[s][n].st # "running"
    BY <1>1 DEF TablesInv, RowsInv
  <2> QED BY <2>1, <2>2 DEF Underway, Creates
<1>7. ASSUME task'[s] = "done" PROVE Recorded(s)' \/ Named(q, s)
  <2>1. CASE s \in Skipped
    <3>1. CASE s \in fresh
      BY <1>1, <3>1 DEF Recorded
    <3>2. CASE s \in Completed(rows)
      BY <1>1, <3>2 DEF Completed, Recorded, Attempts
    <3> QED BY <2>1, <3>1, <3>2 DEF Skipped
  <2>2. CASE s \notin Skipped
    BY <1>1, <1>4, <1>7, <2>2 DEF Named
  <2> QED BY <2>1, <2>2
<1> QED BY <1>5, <1>6, <1>7 DEF Accounted

\* Every step keeps the account, while nothing overtakes.
LEMMA AccountInvHolds ==
    ASSUME ~MayOvertake
    PROVE  TypeInv /\ PlaceInv /\ TablesInv /\ AccountInv /\ [Next]_vars => AccountInv'
<1> SUFFICES ASSUME TypeInv, PlaceInv, TablesInv, AccountInv, [Next]_vars PROVE AccountInv'
  OBVIOUS
<1>1. CASE UNCHANGED vars
  <2>1. UNCHANGED <<run, queue, dead, gaveUp, rows, runRow, unattempted, fresh, vanished,
                    task, offset, index>>
    BY <1>1 DEF vars, memVars, taskVars, wVars, dbVars, histVars
  <2>2. PresenceOp \in OpType /\ PresenceOp.k = "presence"
    BY DEF PresenceOp, Op, OpType, OpFits, OpRec, Kinds, Words
  <2>3. CASE run \in Manned
    BY <2>1, <2>2, <2>3, AccountStill DEF TypeInv, OpTypes
  <2>4. CASE run \notin Manned
    BY <2>1, <2>4, SettledRemains
  <2> QED BY <2>3, <2>4
<1>2. CASE Next
  BY <1>2, RunAccounts, PreflightAccounts, LaunchAccounts, TargetEffects, TargetAccounts, CommitAccounts
     DEF Next, RunStep
<1> QED BY <1>1, <1>2

\* A run that was never started has nothing to account for.
LEMMA AccountInit == Init => AccountInv
  BY DEF Init, AccountInv, Manned, SettledRunAccounts, Terminal

\* A settled run leaves no attempt running and accounts for every target it
\* planned, unless a drain gave up or the target's task was cancelled before
\* its first step; and it has said what it knows of presence (_execute,
\* Decision 5), as long as an operation reaches the queue behind those
\* submitted before it.
THEOREM SettledRunsAreWhole ==
    ASSUME ~MayOvertake
    PROVE  Spec => []SettledRunIsWhole
<1> DEFINE Inv == TypeInv /\ PlaceInv /\ TablesInv /\ AccountInv
<1>1. Init => Inv
  BY TypesInit, PlaceInit, TablesInit, AccountInit
<1>2. Inv /\ [Next]_vars => Inv'
  BY TypeInvHolds, PlaceInvHolds, TablesInvHolds, AccountInvHolds
<1>3. Inv => SettledRunIsWhole
  BY DEF AccountInv, PlaceInv, PresFresh, Good, PresenceSettled, SettledRunIsWhole
<1> QED BY <1>1, <1>2, <1>3, PTL DEF Spec
=============================================================================
