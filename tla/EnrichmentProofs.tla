--------------------------- MODULE EnrichmentProofs ---------------------------
(***************************************************************************)
(* The gates, the report and the table of the enrichment pass, and what    *)
(* the review pass has settled, for any number of passes, versions, slots, *)
(* reviewers, deaths and failing commits.                                  *)
(***************************************************************************)
EXTENDS LlmReview, FiniteSetTheorems, WellFoundedInduction, TLAPS

Statuses == Usable \cup {"unavailable"}
ItemPcs == {"none", "task", "at global gate", "at host gate", "first send", "second send", "done", "lost"}
CallPcs == {"idle", "gather", "raising", "reported", "failed", "cancelled"}
Counters == [considered : Nat, skipped : Nat, described : Nat, fetched : Nat,
             available : Nat, empty : Nat, unavailable : Nat, written : Nat]

Holding(p) == {v \in Versions : item[p][v] \in {"at host gate", "first send", "second send"}}
AtHost(p, h) == {v \in Sending(p) : Cheap[v].host = h}
Chosen(p) == {v \in Versions : item[p][v] # "none"}
Done(p) == {v \in Versions : item[p][v] = "done"}

\* What each variable holds.
FetchShape ==
    /\ setting \in Settings
    /\ desc \in [Versions -> Statuses \cup {"none"}]
    /\ call \in [Passes -> CallPcs]
    /\ item \in [Passes -> [Versions -> ItemPcs]]
    /\ inflight \in [Passes -> [Hosts \cup {"all"} -> Int]]
    /\ late \in [Passes -> BOOLEAN]
    /\ tally \in [Passes -> Counters]
    /\ calls \in 0 .. setting.passes /\ broken \in 0 .. setting.broken

\* The gates count the fetches that hold a slot, and only a version with a
\* host goes to a gate.
GateCount(p) ==
    /\ inflight[p]["all"] = Cardinality(Holding(p)) /\ inflight[p]["all"] <= GlobalSlots
    /\ \A h \in Hosts : inflight[p][h] = Cardinality(AtHost(p, h)) /\ inflight[p][h] <= HostSlots
    /\ \A v \in Versions :
          item[p][v] \in {"at global gate", "at host gate", "first send", "second send"} =>
              Cheap[v].host \in Hosts

\* What the counters of a gathering pass count, and what stands behind them in
\* the table; a fetch is lost only where the gather no longer reports.
TallyCount(p) ==
    /\ call[p] = "gather" =>
          /\ tally[p].considered = tally[p].described + tally[p].skipped + tally[p].fetched
          /\ tally[p].fetched = Cardinality(Chosen(p))
          /\ tally[p].written = Cardinality(Done(p))
          /\ tally[p].written = tally[p].available + tally[p].empty + tally[p].unavailable
          /\ \A v \in Versions : item[p][v] # "lost"
          /\ \A v \in setting.load[p] :
                Prefilter(Cheap[v]) = "fetch" /\ item[p][v] = "none" => desc[v] # "none"
    /\ \A v \in Versions : item[p][v] = "done" => desc[v] # "none"
    /\ call[p] = "reported" =>
          /\ tally[p].considered = tally[p].described + tally[p].skipped + tally[p].fetched
          /\ tally[p].fetched = tally[p].available + tally[p].empty + tally[p].unavailable
          /\ tally[p].written = tally[p].fetched
          /\ \A v \in setting.load[p] : Prefilter(Cheap[v]) = "fetch" => desc[v] # "none"

FetchInv == FetchShape /\ \A p \in Passes : GateCount(p) /\ TallyCount(p)
-----------------------------------------------------------------------------
(* What a step changes                                                     *)

LEMMA Parts ==
  ASSUME NEW p \in Passes
  PROVE  /\ IsFiniteSet(Holding(p)) /\ Cardinality(Holding(p)) \in Nat
         /\ IsFiniteSet(Chosen(p)) /\ Cardinality(Chosen(p)) \in Nat
         /\ IsFiniteSet(Done(p)) /\ Cardinality(Done(p)) \in Nat
         /\ \A h : IsFiniteSet(AtHost(p, h)) /\ Cardinality(AtHost(p, h)) \in Nat
  <1>1. ASSUME NEW T \in SUBSET Versions PROVE IsFiniteSet(T) /\ Cardinality(T) \in Nat
    BY FetchAssumption, FS_Subset, FS_CardinalityType
  <1>2. /\ Holding(p) \in SUBSET Versions /\ Chosen(p) \in SUBSET Versions
        /\ Done(p) \in SUBSET Versions
        /\ \A h : AtHost(p, h) \in SUBSET Versions
    BY DEF Holding, Chosen, Done, AtHost, Sending
  <1> QED BY <1>1, <1>2

\* One item moved.
LEMMA Moved ==
  ASSUME FetchShape, NEW p \in Passes, NEW v \in Versions, NEW w \in ItemPcs, Put(p, v, w)
  PROVE  /\ item' \in [Passes -> [Versions -> ItemPcs]]
         /\ item'[p][v] = w
         /\ \A x \in Versions : x # v => item'[p][x] = item[p][x]
         /\ \A q \in Passes : q # p => item'[q] = item[q]
  BY DEF FetchShape, Put

\* The end of one fetch: a row and its counters, or an exception.
Ends(p, v, w, status) ==
    /\ Put(p, v, w)
    /\ \/ /\ w = "done" /\ call[p] \in {"gather", "raising"}
          /\ desc' = [desc EXCEPT ![v] = Upserted(v, status)] /\ UNCHANGED <<call, broken>>
          /\ tally' = [tally EXCEPT ![p][status] = @ + 1, ![p].written = @ + 1]
       \/ /\ w = "lost" /\ UNCHANGED <<desc, tally>>
          /\ \/ call[p] = "failed" /\ UNCHANGED <<call, broken>>
             \/ /\ call[p] \in {"gather", "raising"} /\ call' = [call EXCEPT ![p] = "raising"]
                /\ broken < setting.broken /\ broken' = broken + 1

LEMMA SettleEnds ==
  ASSUME NEW p \in Passes, NEW v \in Versions, NEW status \in Statuses, Settle(p, v, status)
  PROVE  \E w \in {"done", "lost"} : Ends(p, v, w, status)
  <1>1. CASE call[p] \in {"gather", "raising"} /\ Persist(p, v, status)
    BY <1>1 DEF Persist, Ends
  <1>2. CASE PersistRaises(p, v)
    BY <1>2 DEF PersistRaises, Ends
  <1> QED BY <1>1, <1>2 DEF Settle

LEMMA StatusOfType ==
  ASSUME NEW reply PROVE StatusOf(reply) \in Statuses
  BY DEF StatusOf, Statuses

\* A step of one pass moves its own part of the state, and a row that is there
\* stays there.
OwnStep(p) ==
    /\ setting' = setting
    /\ \A q \in Passes : q # p => /\ item'[q] = item[q] /\ inflight'[q] = inflight[q]
                                  /\ tally'[q] = tally[q] /\ call'[q] = call[q]
    /\ \A v \in Versions : /\ desc[v] # "none" => desc'[v] # "none"
                           /\ desc[v] \in Usable => desc'[v] = desc[v]

LEMMA CountersKept ==
  ASSUME NEW f \in Counters, NEW a \in Nat, NEW b \in Nat
  PROVE  /\ [f EXCEPT !.available = a, !.written = b] \in Counters
         /\ [f EXCEPT !.empty = a, !.written = b] \in Counters
         /\ [f EXCEPT !.unavailable = a, !.written = b] \in Counters
  BY DEF Counters

LEMMA RowCounted ==
  ASSUME tally \in [Passes -> Counters], NEW p \in Passes, NEW status \in Statuses,
         tally' = [tally EXCEPT ![p][status] = @ + 1, ![p].written = @ + 1]
  PROVE  /\ tally' \in [Passes -> Counters]
         /\ \A q \in Passes : q # p => tally'[q] = tally[q]
         /\ tally'[p].considered = tally[p].considered /\ tally'[p].skipped = tally[p].skipped
         /\ tally'[p].described = tally[p].described /\ tally'[p].fetched = tally[p].fetched
         /\ tally'[p].written = tally[p].written + 1
         /\ tally'[p].available + tally'[p].empty + tally'[p].unavailable
              = tally[p].available + tally[p].empty + tally[p].unavailable + 1
  <1>1. /\ tally[p] \in Counters /\ tally[p].written + 1 \in Nat
        /\ tally[p].available + 1 \in Nat /\ tally[p].empty + 1 \in Nat
        /\ tally[p].unavailable + 1 \in Nat
    BY DEF Counters
  <1>2. CASE status = "available"
    <2> DEFINE r == [tally[p] EXCEPT !.available = tally[p].available + 1,
                                     !.written = tally[p].written + 1]
    <2>1. tally' = [tally EXCEPT ![p].available = @ + 1, ![p].written = @ + 1]
      BY <1>2
    <2>2. tally' = [tally EXCEPT ![p] = r]
      BY <2>1
    <2>3. r \in Counters
      BY <1>1, CountersKept
    <2>4. tally' \in [Passes -> Counters] /\ \A q \in Passes : q # p => tally'[q] = tally[q]
      <3> HIDE DEF r
      <3> QED BY <2>2, <2>3
    <2>5. /\ tally'[p].considered = tally[p].considered /\ tally'[p].skipped = tally[p].skipped
          /\ tally'[p].described = tally[p].described /\ tally'[p].fetched = tally[p].fetched
      BY <2>1 DEF Counters
    <2>6. tally'[p].written = tally[p].written + 1
      BY <2>1 DEF Counters
    <2>7. tally'[p].available + tally'[p].empty + tally'[p].unavailable
            = tally[p].available + tally[p].empty + tally[p].unavailable + 1
      BY <2>1 DEF Counters
    <2> QED BY <2>4, <2>5, <2>6, <2>7
  <1>3. CASE status = "empty"
    <2> DEFINE r == [tally[p] EXCEPT !.empty = tally[p].empty + 1,
                                     !.written = tally[p].written + 1]
    <2>1. tally' = [tally EXCEPT ![p].empty = @ + 1, ![p].written = @ + 1]
      BY <1>3
    <2>2. tally' = [tally EXCEPT ![p] = r]
      BY <2>1
    <2>3. r \in Counters
      BY <1>1, CountersKept
    <2>4. tally' \in [Passes -> Counters] /\ \A q \in Passes : q # p => tally'[q] = tally[q]
      <3> HIDE DEF r
      <3> QED BY <2>2, <2>3
    <2>5. /\ tally'[p].considered = tally[p].considered /\ tally'[p].skipped = tally[p].skipped
          /\ tally'[p].described = tally[p].described /\ tally'[p].fetched = tally[p].fetched
      BY <2>1 DEF Counters
    <2>6. tally'[p].written = tally[p].written + 1
      BY <2>1 DEF Counters
    <2>7. tally'[p].available + tally'[p].empty + tally'[p].unavailable
            = tally[p].available + tally[p].empty + tally[p].unavailable + 1
      BY <2>1 DEF Counters
    <2> QED BY <2>4, <2>5, <2>6, <2>7
  <1>4. CASE status = "unavailable"
    <2> DEFINE r == [tally[p] EXCEPT !.unavailable = tally[p].unavailable + 1,
                                     !.written = tally[p].written + 1]
    <2>1. tally' = [tally EXCEPT ![p].unavailable = @ + 1, ![p].written = @ + 1]
      BY <1>4
    <2>2. tally' = [tally EXCEPT ![p] = r]
      BY <2>1
    <2>3. r \in Counters
      BY <1>1, CountersKept
    <2>4. tally' \in [Passes -> Counters] /\ \A q \in Passes : q # p => tally'[q] = tally[q]
      <3> HIDE DEF r
      <3> QED BY <2>2, <2>3
    <2>5. /\ tally'[p].considered = tally[p].considered /\ tally'[p].skipped = tally[p].skipped
          /\ tally'[p].described = tally[p].described /\ tally'[p].fetched = tally[p].fetched
      BY <2>1 DEF Counters
    <2>6. tally'[p].written = tally[p].written + 1
      BY <2>1 DEF Counters
    <2>7. tally'[p].available + tally'[p].empty + tally'[p].unavailable
            = tally[p].available + tally[p].empty + tally[p].unavailable + 1
      BY <2>1 DEF Counters
    <2> QED BY <2>4, <2>5, <2>6, <2>7
  <1> QED BY <1>2, <1>3, <1>4 DEF Statuses, Usable

LEMMA EndsOwn ==
  ASSUME FetchShape, NEW p \in Passes, NEW v \in Versions, NEW w \in {"done", "lost"},
         NEW status \in Statuses, Ends(p, v, w, status)
  PROVE  /\ desc' \in [Versions -> Statuses \cup {"none"}] /\ call' \in [Passes -> CallPcs]
         /\ tally' \in [Passes -> Counters] /\ broken' \in 0 .. setting.broken
         /\ item' \in [Passes -> [Versions -> ItemPcs]]
         /\ \A q \in Passes : q # p => /\ item'[q] = item[q]
                                       /\ tally'[q] = tally[q] /\ call'[q] = call[q]
         /\ \A x \in Versions : /\ desc[x] # "none" => desc'[x] # "none"
                                /\ desc[x] \in Usable => desc'[x] = desc[x]
         /\ w = "done" => desc'[v] # "none"
  <1>1. /\ item' \in [Passes -> [Versions -> ItemPcs]]
        /\ \A q \in Passes : q # p => item'[q] = item[q]
    <2>1. w \in ItemPcs /\ Put(p, v, w)
      BY DEF Ends, ItemPcs
    <2> QED BY <2>1, Moved
  <1>2. Upserted(v, status) \in Statuses /\ (desc[v] \in Usable => Upserted(v, status) = desc[v])
    BY DEF Upserted, Statuses
  <1>3. CASE w = "done"
    <2>1. /\ desc' = [desc EXCEPT ![v] = Upserted(v, status)] /\ UNCHANGED <<call, broken>>
          /\ tally' = [tally EXCEPT ![p][status] = @ + 1, ![p].written = @ + 1]
      BY <1>3 DEF Ends
    <2>2. /\ desc' \in [Versions -> Statuses \cup {"none"}] /\ desc'[v] # "none"
          /\ \A x \in Versions : /\ desc[x] # "none" => desc'[x] # "none"
                                 /\ desc[x] \in Usable => desc'[x] = desc[x]
      BY <2>1, <1>2 DEF FetchShape, Statuses, Usable
    <2>3. /\ tally' \in [Passes -> Counters]
          /\ \A q \in Passes : q # p => tally'[q] = tally[q]
      BY <2>1, RowCounted DEF FetchShape
    <2> QED BY <1>1, <2>1, <2>2, <2>3 DEF FetchShape
  <1>4. CASE w = "lost"
    <2>1. UNCHANGED <<desc, tally>>
      BY <1>4 DEF Ends
    <2>2. /\ call' \in [Passes -> CallPcs] /\ \A q \in Passes : q # p => call'[q] = call[q]
      BY <1>4 DEF Ends, FetchShape, CallPcs
    <2>3. broken' \in 0 .. setting.broken
      BY <1>4, FetchAssumption DEF Ends, FetchShape
    <2> QED BY <1>1, <1>4, <2>1, <2>2, <2>3 DEF FetchShape
  <1> QED BY <1>3, <1>4

LEMMA BeginCases ==
  ASSUME NEW p \in Passes, NEW v \in Versions, Begin(p, v)
  PROVE  /\ UNCHANGED <<setting, late, calls>> /\ item[p][v] = "task"
         /\ \/ UNCHANGED inflight /\ \E status \in Statuses : Settle(p, v, status)
            \/ /\ Cheap[v].host \in Hosts /\ UNCHANGED <<desc, call, tally, broken>>
               /\ \/ Put(p, v, "at global gate") /\ UNCHANGED inflight
                  \/ GlobalFree(p) /\ TakeHost(p, v)
  <1>1. "unavailable" \in Statuses
    BY DEF Statuses
  <1>2. Cheap[v].host # NoHost => Cheap[v].host \in Hosts
    BY DEF Hosts
  <1> QED BY <1>1, <1>2 DEF Begin, BeginsAnyway, FirstTask

LEMMA AnswerCases ==
  ASSUME NEW p \in Passes, NEW v \in Versions, NEW reply, Answer(p, v, reply)
  PROVE  /\ UNCHANGED <<setting, late, calls>> /\ v \in Sending(p)
         /\ \/ /\ item[p][v] = "first send" /\ Put(p, v, "second send")
               /\ UNCHANGED <<desc, call, tally, broken, inflight>>
            \/ inflight' = Released(p, v) /\ \E status \in Statuses : Settle(p, v, status)
  BY StatusOfType DEF Answer, Retried

LEMMA Free ==
  /\ FreeGates \in [Hosts \cup {"all"} -> Int]
  /\ FreeGates["all"] = 0 /\ \A h \in Hosts : FreeGates[h] = 0
  BY DEF FreeGates

LEMMA NoTallyType == NoTally \in Counters
  BY DEF NoTally, Counters

LEMMA Apart ==
  ASSUME NEW S, NEW T, IsFiniteSet(S), IsFiniteSet(T), S \cap T = {}
  PROVE  Cardinality(S \cup T) = Cardinality(S) + Cardinality(T)
  <1>1. Cardinality(S) \in Nat /\ Cardinality(T) \in Nat /\ Cardinality(S \cap T) = 0
    BY FS_CardinalityType, FS_EmptySet
  <1>2. Cardinality(S \cup T) = Cardinality(S) + Cardinality(T) - Cardinality(S \cap T)
    BY FS_Union
  <1> QED BY <1>1, <1>2

\* The selection, counted.
LEMMA SelectCounts ==
  ASSUME FetchShape, NEW p \in Passes, Select(p)
  PROVE  LET worklist == {v \in setting.load[p] : Prefilter(Cheap[v]) = "fetch"}
             described == {v \in worklist : desc[v] \in Usable}
             fetched == worklist \ described
         IN /\ setting.load[p] \in SUBSET Versions
            /\ call' = [call EXCEPT ![p] = "gather"]
            /\ item' = [item EXCEPT ![p] = [v \in Versions |-> IF v \in fetched THEN "task" ELSE "none"]]
            /\ tally' \in [Passes -> Counters]
            /\ \A q \in Passes : q # p => tally'[q] = tally[q]
            /\ tally'[p].considered = Cardinality(setting.load[p])
            /\ tally'[p].skipped = Cardinality(setting.load[p] \ worklist)
            /\ tally'[p].described = Cardinality(described)
            /\ tally'[p].fetched = Cardinality(fetched)
            /\ tally'[p].available = 0 /\ tally'[p].empty = 0 /\ tally'[p].unavailable = 0
            /\ tally'[p].written = 0
            /\ tally'[p].considered = tally'[p].described + tally'[p].skipped + tally'[p].fetched
  <1> DEFINE load == setting.load[p]
             worklist == {v \in load : Prefilter(Cheap[v]) = "fetch"}
             described == {v \in worklist : desc[v] \in Usable}
             fetched == worklist \ described
             a == Cardinality(load)
             b == Cardinality(load \ worklist)
             c == Cardinality(described)
             d == Cardinality(fetched)
             t == [NoTally EXCEPT !.considered = a, !.skipped = b, !.described = c, !.fetched = d]
  <1>1. load \in SUBSET Versions /\ IsFiniteSet(load)
    <2>1. load \in SUBSET Versions
      BY FetchAssumption DEF FetchShape
    <2> QED BY <2>1, FetchAssumption, FS_Subset
  <1>2. /\ IsFiniteSet(worklist) /\ IsFiniteSet(load \ worklist)
        /\ IsFiniteSet(described) /\ IsFiniteSet(fetched)
    <2>1. /\ worklist \in SUBSET load /\ load \ worklist \in SUBSET load
          /\ described \in SUBSET load /\ fetched \in SUBSET load
      OBVIOUS
    <2> HIDE DEF load, worklist, described, fetched
    <2> QED BY <1>1, <2>1, FS_Subset
  <1>3. /\ Cardinality(load) \in Nat /\ Cardinality(load \ worklist) \in Nat
        /\ Cardinality(described) \in Nat /\ Cardinality(fetched) \in Nat
    <2> HIDE DEF load, worklist, described, fetched
    <2> QED BY <1>1, <1>2, FS_CardinalityType
  <1>4. Cardinality(load) = Cardinality(described) + Cardinality(load \ worklist) + Cardinality(fetched)
    <2>1. /\ load = worklist \cup (load \ worklist) /\ worklist \cap (load \ worklist) = {}
          /\ worklist = described \cup fetched /\ described \cap fetched = {}
      OBVIOUS
    <2> HIDE DEF load, worklist, described, fetched
    <2>2. Cardinality(load) = Cardinality(worklist) + Cardinality(load \ worklist)
      BY <1>2, <2>1, Apart
    <2>3. Cardinality(worklist) = Cardinality(described) + Cardinality(fetched)
      BY <1>2, <2>1, Apart
    <2> QED BY <1>3, <2>2, <2>3
  <1>5. /\ call' = [call EXCEPT ![p] = "gather"]
        /\ item' = [item EXCEPT ![p] = [v \in Versions |-> IF v \in fetched THEN "task" ELSE "none"]]
        /\ tally' = [tally EXCEPT ![p] = t]
    BY DEF Select, AlreadyDescribed
  <1> HIDE DEF load, worklist, described, fetched
  <1>6. a \in Nat /\ b \in Nat /\ c \in Nat /\ d \in Nat
    BY <1>3
  <1> HIDE DEF a, b, c, d
  <1>7. t \in Counters
    BY <1>6 DEF NoTally, Counters
  <1>8. t.considered = a /\ t.skipped = b /\ t.described = c /\ t.fetched = d
    BY DEF NoTally
  <1>9. t.available = 0 /\ t.empty = 0 /\ t.unavailable = 0 /\ t.written = 0
    BY DEF NoTally
  <1> HIDE DEF t
  <1>10. /\ tally' \in [Passes -> Counters] /\ tally'[p] = t
         /\ \A q \in Passes : q # p => tally'[q] = tally[q]
    BY <1>5, <1>7 DEF FetchShape
  <1> QED BY <1>1, <1>4, <1>5, <1>8, <1>9, <1>10
          DEF load, worklist, described, fetched, a, b, c, d
-----------------------------------------------------------------------------
(* The gates                                                               *)

LEMMA SlotFacts ==
  /\ GlobalSlots \in Nat /\ GlobalSlots >= 1 /\ HostSlots \in Nat /\ HostSlots >= 1
  /\ "all" \notin Hosts
  BY FetchAssumption

LEMMA SlotType ==
  ASSUME FetchShape, NEW p \in Passes
  PROVE  /\ inflight \in [Passes -> [Hosts \cup {"all"} -> Int]]
         /\ inflight[p] \in [Hosts \cup {"all"} -> Int]
         /\ inflight[p]["all"] \in Int /\ \A h \in Hosts : inflight[p][h] \in Int
  <1>1. inflight \in [Passes -> [Hosts \cup {"all"} -> Int]]
    BY DEF FetchShape
  <1>2. inflight[p] \in [Hosts \cup {"all"} -> Int]
    BY <1>1
  <1> QED BY <1>1, <1>2

\* Both entries of a pass, set.
LEMMA SlotsSet ==
  ASSUME NEW f \in [Passes -> [Hosts \cup {"all"} -> Int]], NEW p \in Passes, NEW g \in Hosts,
         NEW a \in Int, NEW b \in Int,
         NEW n, n = [f EXCEPT ![p][g] = a, ![p]["all"] = b]
  PROVE  /\ n \in [Passes -> [Hosts \cup {"all"} -> Int]]
         /\ n[p]["all"] = b /\ n[p][g] = a /\ \A h \in Hosts : h # g => n[p][h] = f[p][h]
         /\ \A q \in Passes : q # p => n[q] = f[q]
  <1> DEFINE r == [f[p] EXCEPT ![g] = a, !["all"] = b]
  <1>1. n = [f EXCEPT ![p] = r]
    OBVIOUS
  <1>2. /\ r \in [Hosts \cup {"all"} -> Int] /\ r["all"] = b /\ r[g] = a
        /\ \A h \in Hosts : h # g => r[h] = f[p][h]
    BY SlotFacts
  <1> HIDE DEF r
  <1> QED BY <1>1, <1>2

\* The counts are numbers within their limits.
LEMMA SlotCounts ==
  ASSUME FetchShape, NEW p \in Passes, GateCount(p), NEW g \in Hosts
  PROVE  /\ inflight[p]["all"] \in Nat /\ inflight[p]["all"] <= GlobalSlots
         /\ inflight[p]["all"] = Cardinality(Holding(p))
         /\ inflight[p][g] \in Nat /\ inflight[p][g] <= HostSlots
         /\ inflight[p][g] = Cardinality(AtHost(p, g))
  <1>1. Cardinality(Holding(p)) \in Nat /\ Cardinality(AtHost(p, g)) \in Nat
    BY Parts
  <1> QED BY <1>1 DEF GateCount

AtGates == {"at global gate", "at host gate", "first send", "second send"}

\* A fetch that holds no slot goes where none is held.
LEMMA GateKept ==
  ASSUME FetchShape, NEW p \in Passes, GateCount(p), NEW v \in Versions, NEW w \in ItemPcs,
         Put(p, v, w), UNCHANGED inflight, v \notin Holding(p),
         w \notin AtGates \ {"at global gate"},
         w = "at global gate" => Cheap[v].host \in Hosts
  PROVE  GateCount(p)'
  <1>1. /\ item'[p][v] = w /\ \A x \in Versions : x # v => item'[p][x] = item[p][x]
    BY Moved, ZenonT(60)
  <1>2. Holding(p)' = Holding(p) /\ Sending(p)' = Sending(p)
    BY <1>1 DEF Holding, Sending, AtGates
  <1>3. \A h \in Hosts : AtHost(p, h)' = AtHost(p, h)
    BY <1>2 DEF AtHost
  <1> QED BY <1>1, <1>2, <1>3 DEF GateCount, AtGates

\* A fetch takes a slot in the gate of its host; n is what the global gate counts then.
HostTakes(p, v, n) ==
    /\ HostFree(p, v) /\ v \notin Sending(p) /\ Put(p, v, "first send")
    /\ n \in Int /\ n <= GlobalSlots /\ n = Cardinality(Holding(p) \cup {v})
    /\ inflight' = [inflight EXCEPT ![p][Cheap[v].host] = @ + 1, ![p]["all"] = n]

LEMMA HostTaken ==
  ASSUME FetchShape, NEW p \in Passes, GateCount(p), NEW v \in Versions,
         Cheap[v].host \in Hosts, NEW n, HostTakes(p, v, n)
  PROVE  GateCount(p)'
  <1> DEFINE g == Cheap[v].host
  <1>0. /\ g \in Hosts /\ inflight[p][g] < HostSlots
        /\ inflight' = [inflight EXCEPT ![p][g] = inflight[p][g] + 1, ![p]["all"] = n]
    BY SlotFacts DEF HostTakes, HostFree, FetchShape
  <1>1. /\ item'[p][v] = "first send"
        /\ \A x \in Versions : x # v => item'[p][x] = item[p][x]
    BY Moved DEF ItemPcs, HostTakes
  <1>2. Holding(p)' = Holding(p) \cup {v} /\ Sending(p)' = Sending(p) \cup {v}
    BY <1>1 DEF Holding, Sending
  <1>3. /\ inflight'[p]["all"] = n /\ inflight'[p][g] = inflight[p][g] + 1
        /\ \A h \in Hosts : h # g => inflight'[p][h] = inflight[p][h]
    <2> HIDE DEF g
    <2>1. inflight[p][g] + 1 \in Int
      BY <1>0, SlotCounts
    <2>2. inflight \in [Passes -> [Hosts \cup {"all"} -> Int]]
      BY DEF FetchShape
    <2>3. n \in Int
      BY DEF HostTakes
    <2> QED BY <1>0, <2>1, <2>2, <2>3, SlotsSet
  <1>4. AtHost(p, g)' = AtHost(p, g) \cup {v} /\ v \notin AtHost(p, g)
    BY <1>2 DEF AtHost, HostTakes
  <1>5. \A h \in Hosts : h # g => AtHost(p, h)' = AtHost(p, h)
    BY <1>2 DEF AtHost
  <1>6. Cardinality(AtHost(p, g) \cup {v}) = Cardinality(AtHost(p, g)) + 1
    BY <1>4, Parts, FS_AddElement
  <1>7. inflight[p][g] = Cardinality(AtHost(p, g)) /\ inflight[p][g] + 1 <= HostSlots
    <2> HIDE DEF g
    <2> QED BY <1>0, SlotCounts, SlotFacts
  <1>8. \A h \in Hosts : inflight'[p][h] = Cardinality(AtHost(p, h))' /\ inflight'[p][h] <= HostSlots
    BY <1>3, <1>4, <1>5, <1>6, <1>7 DEF GateCount
  <1>9. \A x \in Versions : item'[p][x] \in AtGates => Cheap[x].host \in Hosts
    BY <1>1 DEF GateCount, AtGates
  <1>10. n <= GlobalSlots /\ n = Cardinality(Holding(p))'
    BY <1>2 DEF HostTakes
  <1> QED BY <1>3, <1>8, <1>9, <1>10 DEF GateCount, AtGates

\* A fetch goes through the global gate, and through the one of its host or to wait at it.
LEMMA GateTaken ==
  ASSUME FetchShape, NEW p \in Passes, GateCount(p), NEW v \in Versions, GlobalFree(p),
         Cheap[v].host \in Hosts, v \notin Holding(p), TakeHost(p, v)
  PROVE  GateCount(p)'
  <1>1. /\ inflight[p]["all"] + 1 = Cardinality(Holding(p) \cup {v})
        /\ inflight[p]["all"] + 1 <= GlobalSlots /\ inflight[p]["all"] \in Int
    <2>1. Cardinality(Holding(p) \cup {v}) = Cardinality(Holding(p)) + 1
      BY Parts, FS_AddElement
    <2> QED BY <2>1, SlotCounts, SlotFacts DEF GlobalFree
  <1>2. CASE HostFree(p, v)
    <2>1. v \notin Sending(p)
      BY DEF Holding, Sending
    <2>2. Put(p, v, "first send")
      BY <1>2 DEF TakeHost
    <2>3. inflight' = [inflight EXCEPT ![p][Cheap[v].host] = @ + 1, ![p]["all"] = inflight[p]["all"] + 1]
      BY <1>2, SlotFacts DEF TakeHost, FetchShape
    <2>4. inflight[p]["all"] + 1 \in Int
      BY <1>1
    <2>5. HostTakes(p, v, inflight[p]["all"] + 1)
      BY <1>1, <1>2, <2>1, <2>2, <2>3, <2>4 DEF HostTakes
    <2> QED BY <2>5, HostTaken
  <1>3. CASE ~HostFree(p, v)
    <2>1. /\ item'[p][v] = "at host gate"
          /\ \A x \in Versions : x # v => item'[p][x] = item[p][x]
      BY <1>3, Moved DEF ItemPcs, TakeHost
    <2>2. Holding(p)' = Holding(p) \cup {v} /\ Sending(p)' = Sending(p)
      BY <2>1 DEF Holding, Sending
    <2>3. \A h \in Hosts : AtHost(p, h)' = AtHost(p, h)
      BY <2>2 DEF AtHost
    <2>4. /\ inflight'[p]["all"] = inflight[p]["all"] + 1
          /\ \A h \in Hosts : inflight'[p][h] = inflight[p][h]
      <3>1. inflight' = [inflight EXCEPT ![p]["all"] = @ + 1]
        BY <1>3 DEF TakeHost
      <3> QED BY <3>1, SlotFacts DEF FetchShape
    <2>5. \A x \in Versions : item'[p][x] \in AtGates => Cheap[x].host \in Hosts
      BY <2>1 DEF GateCount, AtGates
    <2> QED BY <1>1, <2>2, <2>3, <2>4, <2>5 DEF GateCount, AtGates
  <1> QED BY <1>2, <1>3

\* A waiter at the gate of its host gets the slot.
LEMMA HostWoken ==
  ASSUME FetchShape, NEW p \in Passes, GateCount(p), NEW v \in Versions, WakeHost(p, v)
  PROVE  GateCount(p)'
  <1>1. /\ item[p][v] = "at host gate" /\ HostFree(p, v) /\ Put(p, v, "first send")
        /\ inflight' = [inflight EXCEPT ![p][Cheap[v].host] = @ + 1]
    BY DEF WakeHost
  <1>2. v \in Holding(p) /\ v \notin Sending(p) /\ Cheap[v].host \in Hosts
    BY <1>1 DEF Holding, Sending, GateCount
  <1>3. Holding(p) \cup {v} = Holding(p)
    BY <1>2
  <1>4. inflight[p]["all"] = Cardinality(Holding(p)) /\ inflight[p]["all"] <= GlobalSlots
    BY DEF GateCount
  <1>5. inflight' = [inflight EXCEPT ![p][Cheap[v].host] = @ + 1, ![p]["all"] = inflight[p]["all"]]
    BY <1>1, <1>2, SlotFacts DEF FetchShape
  <1>6. inflight[p]["all"] \in Int
    BY DEF FetchShape
  <1>7. HostTakes(p, v, inflight[p]["all"])
    BY <1>1, <1>2, <1>3, <1>4, <1>5, <1>6 DEF HostTakes
  <1> QED BY <1>2, <1>7, HostTaken

\* An answered fetch gives both its slots back.
LEMMA GateReleased ==
  ASSUME FetchShape, NEW p \in Passes, GateCount(p), NEW v \in Sending(p), NEW w \in {"done", "lost"},
         Put(p, v, w), inflight' = Released(p, v)
  PROVE  GateCount(p)'
  <1> DEFINE g == Cheap[v].host
  <1>1. v \in Versions /\ v \in Holding(p) /\ g \in Hosts /\ v \in AtHost(p, g)
    BY DEF Sending, Holding, AtHost, GateCount
  <1>2. /\ item'[p][v] = w /\ \A x \in Versions : x # v => item'[p][x] = item[p][x]
    BY <1>1, Moved DEF ItemPcs
  <1>3. Holding(p)' = Holding(p) \ {v} /\ Sending(p)' = Sending(p) \ {v}
    BY <1>2 DEF Holding, Sending
  <1>4. /\ AtHost(p, g)' = AtHost(p, g) \ {v}
        /\ \A h \in Hosts : h # g => AtHost(p, h)' = AtHost(p, h)
    BY <1>3 DEF AtHost
  <1>5. /\ Cardinality(Holding(p) \ {v}) = Cardinality(Holding(p)) - 1
        /\ Cardinality(AtHost(p, g) \ {v}) = Cardinality(AtHost(p, g)) - 1
    BY <1>1, Parts, FS_RemoveElement
  <1>6. /\ inflight'[p]["all"] = inflight[p]["all"] - 1 /\ inflight'[p][g] = inflight[p][g] - 1
        /\ \A h \in Hosts : h # g => inflight'[p][h] = inflight[p][h]
    <2>1. inflight[p][g] - 1 \in Int /\ inflight[p]["all"] - 1 \in Int
      BY <1>1, SlotCounts
    <2>2. inflight' = [inflight EXCEPT ![p][g] = inflight[p][g] - 1, ![p]["all"] = inflight[p]["all"] - 1]
      BY <1>1, SlotFacts DEF FetchShape, Released
    <2> QED BY <1>1, <2>1, <2>2, SlotsSet DEF FetchShape
  <1>7. inflight'[p]["all"] = Cardinality(Holding(p))' /\ inflight'[p]["all"] <= GlobalSlots
    BY <1>1, <1>3, <1>5, <1>6, SlotCounts, SlotFacts
  <1>8. inflight'[p][g] = Cardinality(AtHost(p, g))' /\ inflight'[p][g] <= HostSlots
    BY <1>1, <1>4, <1>5, <1>6, SlotCounts, SlotFacts
  <1>9. \A h \in Hosts : inflight'[p][h] = Cardinality(AtHost(p, h))' /\ inflight'[p][h] <= HostSlots
    BY <1>4, <1>6, <1>8 DEF GateCount
  <1>10. \A x \in Versions : item'[p][x] \in AtGates => Cheap[x].host \in Hosts
    BY <1>2 DEF GateCount, AtGates
  <1> QED BY <1>7, <1>9, <1>10 DEF GateCount, AtGates
-----------------------------------------------------------------------------
(* The report                                                              *)

\* A fetch that has not ended moves on.
LEMMA TallyKept ==
  ASSUME FetchShape, NEW p \in Passes, TallyCount(p), NEW v \in Versions, NEW w \in AtGates,
         item[p][v] \in AtGates \cup {"task"}, Put(p, v, w),
         UNCHANGED <<setting, desc, call, tally>>
  PROVE  TallyCount(p)'
  <1>1. /\ item'[p][v] = w /\ \A x \in Versions : x # v => item'[p][x] = item[p][x]
    BY Moved DEF ItemPcs, AtGates
  <1>2. Chosen(p)' = Chosen(p) /\ Done(p)' = Done(p)
    BY <1>1 DEF Chosen, Done, AtGates
  <1>3. \A x \in Versions : /\ item'[p][x] = "lost" => item[p][x] = "lost"
                            /\ item'[p][x] = "none" => item[p][x] = "none"
                            /\ item'[p][x] = "done" => item[p][x] = "done"
    BY <1>1 DEF AtGates
  <1>4. setting.load[p] \in SUBSET Versions
    BY FetchAssumption DEF FetchShape
  <1> QED BY <1>2, <1>3, <1>4 DEF TallyCount

\* A fetch ends.
LEMMA TallyEnds ==
  ASSUME FetchShape, NEW p \in Passes, TallyCount(p), NEW v \in Versions, NEW w \in {"done", "lost"},
         NEW status \in Statuses, item[p][v] \in AtGates \cup {"task"}, Ends(p, v, w, status),
         setting' = setting
  PROVE  TallyCount(p)'
  <1>1. /\ item'[p][v] = w /\ \A x \in Versions : x # v => item'[p][x] = item[p][x]
    <2>1. w \in ItemPcs /\ Put(p, v, w)
      BY DEF ItemPcs, Ends
    <2> QED BY <2>1, Moved
  <1>2. \A x \in Versions : item'[p][x] = "done" => desc'[x] # "none"
    BY <1>1, EndsOwn DEF TallyCount
  <1>3. setting.load[p] \in SUBSET Versions
    BY FetchAssumption DEF FetchShape
  <1>4. CASE w = "lost"
    <2>1. call'[p] \in {"raising", "failed"}
      BY <1>4 DEF Ends, FetchShape
    <2> QED BY <1>2, <2>1 DEF TallyCount
  <1>5. CASE w = "done"
    <2>1. /\ call' = call /\ call[p] \in {"gather", "raising"}
          /\ tally' = [tally EXCEPT ![p][status] = @ + 1, ![p].written = @ + 1]
      BY <1>5 DEF Ends
    <2>2. CASE call[p] = "raising"
      BY <1>2, <2>1, <2>2 DEF TallyCount
    <2>3. CASE call[p] = "gather"
      <3>1. Chosen(p)' = Chosen(p)
        BY <1>1 DEF Chosen, AtGates
      <3>2. Done(p)' = Done(p) \cup {v} /\ v \notin Done(p)
        BY <1>1, <1>5 DEF Done, AtGates
      <3>3. Cardinality(Done(p))' = Cardinality(Done(p)) + 1
        BY <3>2, Parts, FS_AddElement
      <3>4. \A x \in Versions : item'[p][x] # "lost"
        BY <1>1, <1>5, <2>3 DEF TallyCount
      <3>5. \A x \in setting.load[p] :
               Prefilter(Cheap[x]) = "fetch" /\ item'[p][x] = "none" => desc'[x] # "none"
        BY <1>1, <1>3, <1>5, <2>3, EndsOwn DEF TallyCount
      <3>6. /\ tally'[p].considered = tally[p].considered /\ tally'[p].skipped = tally[p].skipped
            /\ tally'[p].described = tally[p].described /\ tally'[p].fetched = tally[p].fetched
            /\ tally'[p].written = tally[p].written + 1
            /\ tally'[p].available + tally'[p].empty + tally'[p].unavailable
                 = tally[p].available + tally[p].empty + tally[p].unavailable + 1
        BY <2>1, RowCounted DEF FetchShape
      <3> QED BY <1>2, <2>1, <2>3, <3>1, <3>3, <3>4, <3>5, <3>6 DEF TallyCount
    <2> QED BY <2>1, <2>2, <2>3
  <1> QED BY <1>4, <1>5

LEMMA TallySelect ==
  ASSUME FetchShape, NEW p \in Passes, Select(p)
  PROVE  TallyCount(p)'
  <1> DEFINE load == setting.load[p]
             worklist == {v \in load : Prefilter(Cheap[v]) = "fetch"}
             described == {v \in worklist : desc[v] \in Usable}
             fetched == worklist \ described
  <1>1. setting' = setting /\ desc' = desc
    BY DEF Select
  <1>2. /\ load \in SUBSET Versions
        /\ call' = [call EXCEPT ![p] = "gather"]
        /\ item' = [item EXCEPT ![p] = [v \in Versions |-> IF v \in fetched THEN "task" ELSE "none"]]
        /\ tally'[p].fetched = Cardinality(fetched)
        /\ tally'[p].available = 0 /\ tally'[p].empty = 0 /\ tally'[p].unavailable = 0
        /\ tally'[p].written = 0
        /\ tally'[p].considered = tally'[p].described + tally'[p].skipped + tally'[p].fetched
    BY SelectCounts
  <1>3. /\ call'[p] = "gather"
        /\ \A v \in Versions : item'[p][v] = IF v \in fetched THEN "task" ELSE "none"
    BY <1>2 DEF FetchShape
  <1>4. \A v \in worklist : v \notin fetched => desc[v] # "none"
    BY DEF Usable
  <1>5. fetched \subseteq Versions
    BY <1>2
  <1>6. Chosen(p)' = fetched /\ Done(p)' = {}
    <2> HIDE DEF fetched
    <2> QED BY <1>3, <1>5 DEF Chosen, Done
  <1>7. \A v \in load : Prefilter(Cheap[v]) = "fetch" /\ item'[p][v] = "none" => desc'[v] # "none"
    <2>1. \A v \in load : Prefilter(Cheap[v]) = "fetch" => v \in worklist /\ v \in Versions
      BY <1>2
    <2> HIDE DEF load, worklist, fetched
    <2> QED BY <1>1, <1>3, <1>4, <2>1
  <1>8. \A v \in Versions : item'[p][v] \in {"none", "task"}
    <2> HIDE DEF fetched
    <2> QED BY <1>3
  <1> HIDE DEF fetched
  <1>9. Cardinality(Done(p))' = 0 /\ Cardinality(Chosen(p))' = Cardinality(fetched)
    BY <1>6, FS_EmptySet
  <1> QED BY <1>1, <1>2, <1>3, <1>7, <1>8, <1>9 DEF TallyCount

LEMMA TallyReports ==
  ASSUME FetchShape, NEW p \in Passes, TallyCount(p), Report(p)
  PROVE  TallyCount(p)'
  <1>1. /\ call[p] = "gather" /\ Live(p) = {} /\ call'[p] = "reported"
        /\ UNCHANGED <<setting, desc, item, tally>>
    BY DEF Report, FetchShape
  <1>2. \A v \in Versions : item[p][v] = "none" \/ item[p][v] = "done"
    BY <1>1 DEF Live, TallyCount
  <1>3. Chosen(p) = Done(p)
    BY <1>2 DEF Chosen, Done
  <1>4. setting.load[p] \in SUBSET Versions
    BY FetchAssumption DEF FetchShape
  <1>5. \A v \in setting.load[p] : Prefilter(Cheap[v]) = "fetch" => desc[v] # "none"
    BY <1>1, <1>2, <1>4 DEF TallyCount
  <1> QED BY <1>1, <1>3, <1>5 DEF TallyCount
-----------------------------------------------------------------------------
(* Every step                                                              *)

Taken(p, v) == [inflight EXCEPT ![p][Cheap[v].host] = @ + 1, ![p]["all"] = @ + 1]

LEMMA TakenType ==
  ASSUME FetchShape, NEW p \in Passes, NEW v \in Versions, Cheap[v].host \in Hosts
  PROVE  /\ Taken(p, v) \in [Passes -> [Hosts \cup {"all"} -> Int]]
         /\ \A q \in Passes : q # p => Taken(p, v)[q] = inflight[q]
  <1> DEFINE g == Cheap[v].host
             a == inflight[p][g] + 1
             b == inflight[p]["all"] + 1
             t == Taken(p, v)
  <1>1. t = [inflight EXCEPT ![p][g] = a, ![p]["all"] = b]
    BY SlotFacts DEF FetchShape, Taken
  <1>2. g \in Hosts /\ inflight \in [Passes -> [Hosts \cup {"all"} -> Int]]
    BY SlotType
  <1>3. a \in Int /\ b \in Int
    BY SlotType
  <1> HIDE DEF g, a, b, t
  <1>4. /\ t \in [Passes -> [Hosts \cup {"all"} -> Int]]
        /\ \A q \in Passes : q # p => t[q] = inflight[q]
    BY <1>1, <1>2, <1>3, SlotsSet, ZenonT(60)
  <1> QED BY <1>4 DEF t

LEMMA ReleasedType ==
  ASSUME FetchShape, NEW p \in Passes, NEW v \in Versions, Cheap[v].host \in Hosts
  PROVE  /\ Released(p, v) \in [Passes -> [Hosts \cup {"all"} -> Int]]
         /\ \A q \in Passes : q # p => Released(p, v)[q] = inflight[q]
  <1> DEFINE g == Cheap[v].host
             a == inflight[p][g] - 1
             b == inflight[p]["all"] - 1
             t == Released(p, v)
  <1>1. t = [inflight EXCEPT ![p][g] = a, ![p]["all"] = b]
    BY SlotFacts DEF FetchShape, Released
  <1>2. g \in Hosts /\ inflight \in [Passes -> [Hosts \cup {"all"} -> Int]]
    BY SlotType
  <1>3. a \in Int /\ b \in Int
    BY SlotType
  <1> HIDE DEF g, a, b, t
  <1>4. /\ t \in [Passes -> [Hosts \cup {"all"} -> Int]]
        /\ \A q \in Passes : q # p => t[q] = inflight[q]
    BY <1>1, <1>2, <1>3, SlotsSet, ZenonT(60)
  <1> QED BY <1>4 DEF t

\* A pass with no fetch at its gates and all its slots free.
LEMMA EmptyGates ==
  ASSUME NEW p \in Passes, inflight'[p] = FreeGates,
         Holding(p)' = {}, \A h \in Hosts : AtHost(p, h)' = {},
         \A v \in Versions : item'[p][v] \in {"none", "task", "done", "lost"}
  PROVE  GateCount(p)'
  <1>1. Cardinality({}) = 0
    BY FS_EmptySet
  <1>2. inflight'[p]["all"] = 0 /\ \A h \in Hosts : inflight'[p][h] = 0
    BY Free
  <1>3. /\ Cardinality(Holding(p)') = 0 /\ \A h \in Hosts : Cardinality(AtHost(p, h)') = 0
    BY <1>1
  <1>4. 0 <= GlobalSlots /\ 0 <= HostSlots
    BY SlotFacts
  <1>5. \A v \in Versions : item'[p][v] \notin AtGates
    BY DEF AtGates
  <1> QED BY <1>2, <1>3, <1>4, <1>5 DEF GateCount, AtGates

LEMMA SelectKeeps ==
  ASSUME FetchShape, NEW p \in Passes, Select(p)
  PROVE  FetchShape' /\ OwnStep(p) /\ GateCount(p)' /\ TallyCount(p)'
  <1>1. /\ setting' = setting /\ desc' = desc /\ broken' = broken
        /\ calls < setting.passes /\ calls' = calls + 1
        /\ late' = [late EXCEPT ![p] = FALSE] /\ inflight' = [inflight EXCEPT ![p] = FreeGates]
    BY DEF Select
  <1>2. /\ call' = [call EXCEPT ![p] = "gather"] /\ tally' \in [Passes -> Counters]
        /\ \A q \in Passes : q # p => tally'[q] = tally[q]
    BY SelectCounts
  <1>3. \E T : item' = [item EXCEPT ![p] = [v \in Versions |-> IF v \in T THEN "task" ELSE "none"]]
    BY SelectCounts
  <1>4. /\ item' \in [Passes -> [Versions -> ItemPcs]] /\ \A q \in Passes : q # p => item'[q] = item[q]
        /\ \A v \in Versions : item'[p][v] \in {"task", "none"}
    <2>1. PICK T : item' = [item EXCEPT ![p] = [v \in Versions |-> IF v \in T THEN "task" ELSE "none"]]
      BY <1>3
    <2> QED BY <2>1 DEF FetchShape, ItemPcs
  <1>5. calls' \in 0 .. setting.passes
    BY <1>1, FetchAssumption DEF FetchShape
  <1>6. FetchShape'
    BY <1>1, <1>2, <1>4, <1>5, Free DEF FetchShape, CallPcs
  <1>7. OwnStep(p)
    BY <1>1, <1>2, <1>4 DEF FetchShape, OwnStep
  <1>8. GateCount(p)'
    <2>1. Holding(p)' = {} /\ \A h \in Hosts : AtHost(p, h)' = {}
      BY <1>4 DEF Holding, AtHost, Sending
    <2>2. inflight'[p] = FreeGates
      BY <1>1 DEF FetchShape
    <2> QED BY <1>4, <2>1, <2>2, EmptyGates
  <1> QED BY <1>6, <1>7, <1>8, TallySelect

LEMMA CancelKeeps ==
  ASSUME FetchShape, NEW p \in Passes, TallyCount(p), Cancel(p)
  PROVE  FetchShape' /\ OwnStep(p) /\ GateCount(p)' /\ TallyCount(p)'
  <1>1. /\ UNCHANGED <<setting, desc, late, tally, calls, broken>>
        /\ call' = [call EXCEPT ![p] = "cancelled"]
        /\ item' = [item EXCEPT ![p] = [v \in Versions |-> IF v \in Live(p) THEN "lost" ELSE item[p][v]]]
        /\ inflight' = [inflight EXCEPT ![p] = FreeGates]
    BY DEF Cancel
  <1>2. /\ item' \in [Passes -> [Versions -> ItemPcs]] /\ \A q \in Passes : q # p => item'[q] = item[q]
        /\ \A v \in Versions : item'[p][v] = IF v \in Live(p) THEN "lost" ELSE item[p][v]
    BY <1>1 DEF FetchShape, ItemPcs
  <1>3. \A v \in Versions : /\ item'[p][v] \in {"none", "done", "lost"}
                            /\ item'[p][v] = "done" => item[p][v] = "done"
    BY <1>2 DEF Live
  <1>4. FetchShape'
    BY <1>1, <1>2, Free DEF FetchShape, CallPcs
  <1>5. OwnStep(p)
    BY <1>1, <1>2 DEF FetchShape, OwnStep
  <1>6. GateCount(p)'
    <2>1. Holding(p)' = {} /\ \A h \in Hosts : AtHost(p, h)' = {}
      BY <1>3 DEF Holding, AtHost, Sending
    <2>2. inflight'[p] = FreeGates
      BY <1>1 DEF FetchShape
    <2> QED BY <1>3, <2>1, <2>2, EmptyGates
  <1>7. TallyCount(p)'
    <2>1. call'[p] = "cancelled"
      BY <1>1 DEF FetchShape
    <2> QED BY <1>1, <1>3, <2>1 DEF TallyCount
  <1> QED BY <1>4, <1>5, <1>6, <1>7

\* A fetch ends, its slots given back before or never taken.
LEMMA EndKeeps ==
  ASSUME FetchShape, NEW p \in Passes, GateCount(p), TallyCount(p), NEW v \in Versions,
         NEW status \in Statuses, Settle(p, v, status), UNCHANGED <<setting, late, calls>>,
         \/ item[p][v] = "task" /\ UNCHANGED inflight
         \/ v \in Sending(p) /\ inflight' = Released(p, v)
  PROVE  FetchShape' /\ OwnStep(p) /\ GateCount(p)' /\ TallyCount(p)'
  <1>1. PICK w \in {"done", "lost"} : Ends(p, v, w, status)
    BY SettleEnds
  <1>2. /\ desc' \in [Versions -> Statuses \cup {"none"}] /\ call' \in [Passes -> CallPcs]
        /\ tally' \in [Passes -> Counters] /\ broken' \in 0 .. setting.broken
        /\ item' \in [Passes -> [Versions -> ItemPcs]]
        /\ \A q \in Passes : q # p => /\ item'[q] = item[q]
                                      /\ tally'[q] = tally[q] /\ call'[q] = call[q]
        /\ \A x \in Versions : /\ desc[x] # "none" => desc'[x] # "none"
                               /\ desc[x] \in Usable => desc'[x] = desc[x]
    BY <1>1, EndsOwn
  <1>3. Put(p, v, w) /\ w \in ItemPcs
    BY <1>1 DEF Ends, ItemPcs
  <1>4. /\ inflight' \in [Passes -> [Hosts \cup {"all"} -> Int]]
        /\ \A q \in Passes : q # p => inflight'[q] = inflight[q]
    <2>1. CASE UNCHANGED inflight
      BY <2>1 DEF FetchShape
    <2>2. CASE v \in Sending(p) /\ inflight' = Released(p, v)
      <3> DEFINE g == Cheap[v].host
      <3>1. g \in Hosts
        BY <2>2 DEF GateCount, Sending
      <3> QED BY <2>2, <3>1, ReleasedType
    <2> QED BY <2>1, <2>2
  <1>5. FetchShape' /\ OwnStep(p)
    BY <1>2, <1>4 DEF FetchShape, OwnStep
  <1>6. item[p][v] \in AtGates \cup {"task"}
    BY DEF Sending, AtGates
  <1>7. GateCount(p)'
    <2>1. CASE item[p][v] = "task" /\ UNCHANGED inflight
      BY <1>3, <2>1, GateKept DEF Holding, AtGates
    <2>2. CASE v \in Sending(p) /\ inflight' = Released(p, v)
      BY <1>3, <2>2, GateReleased
    <2> QED BY <2>1, <2>2
  <1> QED BY <1>1, <1>5, <1>6, <1>7, TallyEnds

\* A fetch moves on between the gates and the wire.
LEMMA MoveKeeps ==
  ASSUME FetchShape, NEW p \in Passes, TallyCount(p), NEW v \in Versions, NEW w \in AtGates,
         Put(p, v, w), item[p][v] \in AtGates \cup {"task"},
         UNCHANGED <<setting, late, calls, desc, call, tally, broken>>,
         inflight' \in [Passes -> [Hosts \cup {"all"} -> Int]],
         \A q \in Passes : q # p => inflight'[q] = inflight[q]
  PROVE  FetchShape' /\ OwnStep(p) /\ TallyCount(p)'
  <1>1. /\ item' \in [Passes -> [Versions -> ItemPcs]]
        /\ \A q \in Passes : q # p => item'[q] = item[q]
    BY Moved, ZenonT(60) DEF ItemPcs, AtGates
  <1>2. FetchShape'
    BY <1>1 DEF FetchShape
  <1>3. OwnStep(p)
    BY <1>1 DEF OwnStep
  <1> QED BY <1>2, <1>3, TallyKept

LEMMA TakeMoves ==
  ASSUME FetchShape, NEW p \in Passes, NEW v \in Versions, Cheap[v].host \in Hosts, TakeHost(p, v)
  PROVE  /\ Put(p, v, "first send") \/ Put(p, v, "at host gate")
         /\ inflight' \in [Passes -> [Hosts \cup {"all"} -> Int]]
         /\ \A q \in Passes : q # p => inflight'[q] = inflight[q]
  <1>1. CASE HostFree(p, v)
    <2>1. Put(p, v, "first send") /\ inflight' = Taken(p, v)
      BY <1>1 DEF TakeHost, Taken
    <2> QED BY <2>1, TakenType
  <1>2. CASE ~HostFree(p, v)
    <2>1. Put(p, v, "at host gate") /\ inflight' = [inflight EXCEPT ![p]["all"] = @ + 1]
      BY <1>2 DEF TakeHost
    <2>2. [inflight[p] EXCEPT !["all"] = @ + 1] \in [Hosts \cup {"all"} -> Int]
      BY SlotType
    <2>3. inflight' = [inflight EXCEPT ![p] = [inflight[p] EXCEPT !["all"] = @ + 1]]
      BY <2>1
    <2> QED BY <2>1, <2>2, <2>3, SlotType
  <1> QED BY <1>1, <1>2

LEMMA FetchStepKeeps ==
  ASSUME FetchShape, NEW p \in Passes, GateCount(p), TallyCount(p), FetchStep(p)
  PROVE  FetchShape' /\ OwnStep(p) /\ GateCount(p)' /\ TallyCount(p)'
  <1> DEFINE Kept == FetchShape' /\ OwnStep(p) /\ GateCount(p)' /\ TallyCount(p)'
  <1>1. ASSUME Select(p) PROVE Kept
    BY <1>1, SelectKeeps
  <1>2. ASSUME Cancel(p) PROVE Kept
    BY <1>2, CancelKeeps
  <1>3. ASSUME DeadlinePasses(p) \/ Report(p) \/ Failed(p) PROVE Kept
    <2>1. /\ UNCHANGED <<setting, desc, item, inflight, tally, calls, broken>>
          /\ late' \in [Passes -> BOOLEAN] /\ call' \in [Passes -> CallPcs]
          /\ \A q \in Passes : q # p => call'[q] = call[q]
      BY <1>3 DEF DeadlinePasses, Report, Failed, FetchShape, CallPcs
    <2>2. FetchShape' /\ OwnStep(p)
      BY <2>1 DEF FetchShape, OwnStep
    <2>3. GateCount(p)'
      BY <2>1 DEF GateCount, Holding, AtHost, Sending
    <2>4. ASSUME DeadlinePasses(p) PROVE TallyCount(p)'
      BY <2>1, <2>4 DEF DeadlinePasses, TallyCount, Chosen, Done
    <2>5. ASSUME Failed(p) PROVE TallyCount(p)'
      <3>1. call'[p] = "failed"
        BY <2>5 DEF Failed, FetchShape
      <3> QED BY <2>1, <3>1 DEF TallyCount
    <2> QED BY <1>3, <2>2, <2>3, <2>4, <2>5, TallyReports
  <1>4. ASSUME NEW v \in Versions, Begin(p, v) PROVE Kept
    <2>1. /\ UNCHANGED <<setting, late, calls>> /\ item[p][v] = "task"
          /\ \/ UNCHANGED inflight /\ \E status \in Statuses : Settle(p, v, status)
             \/ /\ Cheap[v].host \in Hosts /\ UNCHANGED <<desc, call, tally, broken>>
                /\ \/ Put(p, v, "at global gate") /\ UNCHANGED inflight
                   \/ GlobalFree(p) /\ TakeHost(p, v)
      BY <1>4, BeginCases
    <2>2. CASE UNCHANGED inflight /\ \E status \in Statuses : Settle(p, v, status)
      BY <2>1, <2>2, EndKeeps
    <2>3. CASE /\ Cheap[v].host \in Hosts /\ UNCHANGED <<desc, call, tally, broken>>
               /\ Put(p, v, "at global gate") /\ UNCHANGED inflight
      <3>1. /\ "at global gate" \in AtGates /\ "at global gate" \in ItemPcs /\ v \notin Holding(p)
        BY <2>1 DEF AtGates, ItemPcs, Holding
      <3>2. GateCount(p)'
        BY <2>3, <3>1, GateKept
      <3> QED BY <2>1, <2>3, <3>1, <3>2, MoveKeeps, SlotType
    <2>4. CASE /\ Cheap[v].host \in Hosts /\ UNCHANGED <<desc, call, tally, broken>>
               /\ GlobalFree(p) /\ TakeHost(p, v)
      <3>1. "first send" \in AtGates /\ "at host gate" \in AtGates /\ v \notin Holding(p)
        BY <2>1 DEF AtGates, Holding
      <3>2. GateCount(p)'
        BY <2>4, <3>1, GateTaken
      <3> QED BY <2>1, <2>4, <3>1, <3>2, MoveKeeps, TakeMoves
    <2> QED BY <2>1, <2>2, <2>3, <2>4
  <1>5. ASSUME NEW v \in Versions, WakeGlobal(p, v) PROVE Kept
    <2>1. /\ item[p][v] = "at global gate" /\ GlobalFree(p) /\ TakeHost(p, v)
          /\ UNCHANGED <<setting, late, calls, desc, call, tally, broken>>
      BY <1>5 DEF WakeGlobal
    <2>2. /\ "first send" \in AtGates /\ "at host gate" \in AtGates /\ "at global gate" \in AtGates
          /\ v \notin Holding(p) /\ Cheap[v].host \in Hosts
      BY <2>1 DEF AtGates, Holding, GateCount
    <2>3. GateCount(p)'
      BY <2>1, <2>2, GateTaken
    <2> QED BY <2>1, <2>2, <2>3, MoveKeeps, TakeMoves
  <1>6. ASSUME NEW v \in Versions, WakeHost(p, v) PROVE Kept
    <2>1. /\ item[p][v] = "at host gate" /\ Put(p, v, "first send")
          /\ inflight' = [inflight EXCEPT ![p][Cheap[v].host] = @ + 1]
          /\ UNCHANGED <<setting, late, calls, desc, call, tally, broken>>
      BY <1>6 DEF WakeHost
    <2>2. "first send" \in AtGates /\ "at host gate" \in AtGates /\ Cheap[v].host \in Hosts
      BY <2>1 DEF AtGates, GateCount
    <2>3. GateCount(p)'
      BY <1>6, HostWoken
    <2>4. /\ inflight' \in [Passes -> [Hosts \cup {"all"} -> Int]]
          /\ \A q \in Passes : q # p => inflight'[q] = inflight[q]
      <3> DEFINE g == Cheap[v].host
                 a == inflight[p][g] + 1
                 r == [inflight[p] EXCEPT ![g] = a]
      <3>1. inflight' = [inflight EXCEPT ![p] = r]
        BY <2>1
      <3>2. a \in Int
        <4>1. g \in Hosts
          BY <2>2
        <4> HIDE DEF g
        <4> QED BY <4>1, SlotType
      <3> HIDE DEF a
      <3>3. r \in [Hosts \cup {"all"} -> Int]
        BY <3>2, SlotType
      <3> HIDE DEF r
      <3> QED BY <3>1, <3>3, SlotType
    <2> QED BY <2>1, <2>2, <2>3, <2>4, MoveKeeps
  <1>7. ASSUME NEW v \in Versions, NEW reply, Answer(p, v, reply) PROVE Kept
    <2>1. /\ UNCHANGED <<setting, late, calls>> /\ v \in Sending(p)
          /\ \/ /\ item[p][v] = "first send" /\ Put(p, v, "second send")
                /\ UNCHANGED <<desc, call, tally, broken, inflight>>
             \/ inflight' = Released(p, v) /\ \E status \in Statuses : Settle(p, v, status)
      BY <1>7, AnswerCases
    <2>2. CASE inflight' = Released(p, v) /\ \E status \in Statuses : Settle(p, v, status)
      BY <2>1, <2>2, EndKeeps
    <2>3. CASE /\ item[p][v] = "first send" /\ Put(p, v, "second send")
               /\ UNCHANGED <<desc, call, tally, broken, inflight>>
      <3>1. /\ "second send" \in AtGates /\ "first send" \in AtGates /\ "second send" \in ItemPcs
        BY DEF AtGates, ItemPcs
      <3>2. /\ item'[p][v] = "second send"
            /\ \A x \in Versions : x # v => item'[p][x] = item[p][x]
        BY <2>3, <3>1, Moved
      <3>3. /\ Holding(p)' = Holding(p) /\ Sending(p)' = Sending(p)
        BY <2>3, <3>2 DEF Holding, Sending
      <3>4. \A h \in Hosts : AtHost(p, h)' = AtHost(p, h)
        BY <3>3 DEF AtHost
      <3>5. \A x \in Versions : item'[p][x] \in AtGates => item[p][x] \in AtGates
        BY <2>3, <3>1, <3>2
      <3>6. \A x \in Versions : item'[p][x] \in AtGates => Cheap[x].host \in Hosts
        BY <3>5 DEF GateCount, AtGates
      <3>7. GateCount(p)'
        BY <2>3, <3>3, <3>4, <3>6 DEF GateCount, AtGates
      <3> QED BY <2>1, <2>3, <3>1, <3>7, MoveKeeps, SlotType
    <2> QED BY <2>1, <2>2, <2>3
  <1> QED BY <1>1, <1>2, <1>3, <1>4, <1>5, <1>6, <1>7 DEF FetchStep

\* The other passes see only rows that are not taken away.
LEMMA OthersKept ==
  ASSUME FetchShape, NEW p \in Passes, OwnStep(p), NEW q \in Passes, q # p, GateCount(q), TallyCount(q)
  PROVE  GateCount(q)' /\ TallyCount(q)'
  <1>1. /\ item'[q] = item[q] /\ inflight'[q] = inflight[q] /\ tally'[q] = tally[q]
        /\ call'[q] = call[q] /\ setting' = setting
        /\ \A v \in Versions : desc[v] # "none" => desc'[v] # "none"
    BY DEF OwnStep
  <1>2. GateCount(q)'
    BY <1>1 DEF GateCount, Holding, AtHost, Sending
  <1>3. setting.load[q] \in SUBSET Versions
    BY FetchAssumption DEF FetchShape
  <1>4. Chosen(q)' = Chosen(q) /\ Done(q)' = Done(q)
    BY <1>1 DEF Chosen, Done
  <1>5. TallyCount(q)'
    BY <1>1, <1>3, <1>4 DEF TallyCount
  <1> QED BY <1>2, <1>5

LEMMA DiesKeeps ==
  ASSUME FetchInv, Dies
  PROVE  FetchInv'
  <1>1. /\ broken < setting.broken /\ broken' = broken + 1 /\ UNCHANGED <<desc, setting, calls>>
        /\ call' = [q \in Passes |-> "idle"] /\ item' = [q \in Passes |-> NoItems]
        /\ inflight' = [q \in Passes |-> FreeGates] /\ late' = [q \in Passes |-> FALSE]
        /\ tally' = [q \in Passes |-> NoTally]
    BY DEF Dies
  <1>2. broken' \in 0 .. setting.broken
    BY <1>1, FetchAssumption DEF FetchInv, FetchShape
  <1>3. FetchShape'
    BY <1>1, <1>2, Free, NoTallyType DEF FetchInv, FetchShape, CallPcs, ItemPcs, NoItems
  <1>4. ASSUME NEW q \in Passes PROVE GateCount(q)' /\ TallyCount(q)'
    <2>1. /\ \A v \in Versions : item'[q][v] = "none"
          /\ inflight'[q] = FreeGates /\ call'[q] = "idle"
      BY <1>1, <1>4 DEF NoItems
    <2>2. Holding(q)' = {} /\ \A h \in Hosts : AtHost(q, h)' = {}
      BY <2>1 DEF Holding, AtHost, Sending
    <2>3. GateCount(q)'
      BY <2>1, <2>2, EmptyGates
    <2> QED BY <2>1, <2>3 DEF TallyCount
  <1> QED BY <1>3, <1>4 DEF FetchInv

LEMMA EnrichKeeps ==
  ASSUME FetchInv, EnrichNext
  PROVE  FetchInv'
  <1>1. ASSUME NEW p \in Passes, FetchStep(p) PROVE FetchInv'
    <2>1. FetchShape' /\ OwnStep(p) /\ GateCount(p)' /\ TallyCount(p)'
      BY <1>1, FetchStepKeeps DEF FetchInv
    <2>2. \A q \in Passes : q # p => GateCount(q)' /\ TallyCount(q)'
      BY <2>1, OthersKept DEF FetchInv
    <2> QED BY <2>1, <2>2 DEF FetchInv
  <1> QED BY <1>1, DiesKeeps DEF EnrichNext

LEMMA EnrichStarts == EnrichInit => FetchInv
  <1> SUFFICES ASSUME EnrichInit PROVE FetchInv
    OBVIOUS
  <1>1. /\ setting \in Settings /\ call = [p \in Passes |-> "idle"]
        /\ desc = [v \in Versions |-> IF \E n \in DOMAIN order : order[n] = v THEN "available" ELSE "none"]
        /\ item = [p \in Passes |-> NoItems] /\ inflight = [p \in Passes |-> FreeGates]
        /\ late = [p \in Passes |-> FALSE] /\ tally = [p \in Passes |-> NoTally]
        /\ calls = 0 /\ broken = 0
    BY DEF EnrichInit
  <1>2. 0 \in 0 .. setting.passes /\ 0 \in 0 .. setting.broken
    BY <1>1, FetchAssumption
  <1>3. FetchShape
    BY <1>1, <1>2, Free, NoTallyType
       DEF FetchShape, CallPcs, ItemPcs, NoItems, Statuses, Usable
  <1>4. ASSUME NEW q \in Passes PROVE GateCount(q) /\ TallyCount(q)
    <2>1. /\ \A v \in Versions : item[q][v] = "none"
          /\ inflight[q] = FreeGates /\ call[q] = "idle"
      BY <1>1, <1>4 DEF NoItems
    <2>2. Holding(q) = {} /\ \A h \in Hosts : AtHost(q, h) = {}
      BY <2>1 DEF Holding, AtHost, Sending
    <2>3. Cardinality({}) = 0
      BY FS_EmptySet
    <2>4. Cardinality(Holding(q)) = 0 /\ \A h \in Hosts : Cardinality(AtHost(q, h)) = 0
      BY <2>2, <2>3
    <2>5. inflight[q]["all"] = 0 /\ \A h \in Hosts : inflight[q][h] = 0
      BY <2>1, Free
    <2>6. 0 <= GlobalSlots /\ 0 <= HostSlots
      BY SlotFacts
    <2>7. GateCount(q)
      BY <2>1, <2>4, <2>5, <2>6 DEF GateCount
    <2> QED BY <2>1, <2>7 DEF TallyCount
  <1> QED BY <1>3, <1>4 DEF FetchInv
-----------------------------------------------------------------------------
(* The review pass beside it                                               *)

LEMMA ReviewFrame ==
  ASSUME NEW q \in Reviewers, ReviewStep(q)
  PROVE  /\ UNCHANGED <<desc, order, setting, call, item, inflight, late, tally, calls>>
         /\ \/ broken' = broken
            \/ broken < setting.broken /\ broken' = broken + 1
  <1>1. CASE ReviewerDies(q)
    BY <1>1 DEF ReviewerDies
  <1>2. CASE UNCHANGED enrichVars
    BY <1>2 DEF enrichVars
  <1>3. ASSUME StartReview(q) \/ ReadPage(q) \/ Weigh(q) \/ Defer(q) \/ EndPage(q)
        PROVE  UNCHANGED enrichVars
    BY <1>3 DEF StartReview, ReadPage, Weigh, Defer, EndPage
  <1>4. ASSUME NEW reply, Replied(q, reply) PROVE UNCHANGED enrichVars
    BY <1>4 DEF Replied
  <1> QED BY <1>1, <1>2, <1>3, <1>4 DEF ReviewStep

LEMMA FetchInvKept ==
  ASSUME FetchInv, UNCHANGED <<desc, order, setting, call, item, inflight, late, tally, calls>>,
         broken' \in 0 .. setting.broken
  PROVE  FetchInv'
  <1>1. FetchShape'
    BY DEF FetchInv, FetchShape
  <1>2. ASSUME NEW p \in Passes PROVE GateCount(p)' /\ TallyCount(p)'
    <2>1. Holding(p)' = Holding(p) /\ Sending(p)' = Sending(p) /\ Chosen(p)' = Chosen(p) /\ Done(p)' = Done(p)
      BY DEF Holding, Sending, Chosen, Done
    <2>2. \A h \in Hosts : AtHost(p, h)' = AtHost(p, h)
      BY <2>1 DEF AtHost
    <2>3. GateCount(p) /\ TallyCount(p)
      BY DEF FetchInv
    <2> QED BY <2>1, <2>2, <2>3 DEF GateCount, TallyCount
  <1> QED BY <1>1, <1>2 DEF FetchInv

LEMMA ReviewKeeps ==
  ASSUME FetchInv, [ReviewNext]_allVars
  PROVE  FetchInv'
  <1>1. broken \in 0 .. setting.broken /\ setting.broken \in Nat
    BY FetchAssumption DEF FetchInv, FetchShape
  <1>2. CASE EnrichNext
    BY <1>2, EnrichKeeps
  <1>3. ASSUME NEW q \in Reviewers, ReviewStep(q) PROVE FetchInv'
    <2>1. broken' \in 0 .. setting.broken
      BY <1>1, <1>3, ReviewFrame
    <2> QED BY <1>3, <2>1, ReviewFrame, FetchInvKept
  <1>4. CASE UNCHANGED enrichVars
    BY <1>1, <1>4, FetchInvKept DEF enrichVars
  <1> QED BY <1>2, <1>3, <1>4 DEF ReviewNext, ScoreMoves, allVars

LEMMA FetchInvHolds == ReviewSpec => []FetchInv
  BY EnrichStarts, ReviewKeeps, PTL DEF ReviewSpec

LEMMA FetchInvSound == FetchInv => FetchesSound
  <1> SUFFICES ASSUME FetchInv PROVE FetchesSound
    OBVIOUS
  <1>1. FetchShape /\ \A p \in Passes : GateCount(p) /\ TallyCount(p)
    BY DEF FetchInv
  <1>2. EnrichTypeOK
    BY <1>1, SlotType DEF EnrichTypeOK, FetchShape, Statuses, CallPcs, ItemPcs
  <1>3. SlotLimits
    <2>1. ASSUME NEW p \in Passes PROVE Cardinality(Sending(p)) <= GlobalSlots
      <3>1. Sending(p) \in SUBSET Holding(p)
        BY DEF Sending, Holding
      <3>2. Cardinality(Sending(p)) \in Nat /\ Cardinality(Sending(p)) <= Cardinality(Holding(p))
        BY <3>1, Parts, FS_Subset, FS_CardinalityType
      <3>3. Cardinality(Holding(p)) \in Nat /\ Cardinality(Holding(p)) <= GlobalSlots
        BY <1>1, Parts DEF GateCount
      <3> QED BY <3>2, <3>3, SlotFacts
    <2>2. ASSUME NEW p \in Passes, NEW h \in Hosts PROVE Cardinality(AtHost(p, h)) <= HostSlots
      BY <1>1 DEF GateCount
    <2> QED BY <2>1, <2>2 DEF SlotLimits, AtHost
  <1>4. NothingStranded
    <2>1. ASSUME NEW p \in Passes, NEW v \in Versions, item[p][v] = "at host gate", ~HostFree(p, v)
          PROVE  \E w \in Sending(p) : Cheap[w].host = Cheap[v].host
      <3>1. Cheap[v].host \in Hosts
        BY <1>1, <2>1 DEF GateCount
      <3>2. Cardinality(AtHost(p, Cheap[v].host)) # 0
        <4> DEFINE h == Cheap[v].host
        <4>1. h \in Hosts /\ ~(inflight[p][h] < HostSlots)
          BY <2>1, <3>1 DEF HostFree
        <4> HIDE DEF h
        <4>2. Cardinality(AtHost(p, h)) # 0
          BY <1>1, <4>1, SlotCounts, SlotFacts
        <4> QED BY <4>2 DEF h
      <3>3. AtHost(p, Cheap[v].host) # {}
        BY <3>2, FS_EmptySet
      <3> QED BY <3>3 DEF AtHost
    <2>2. ASSUME NEW p \in Passes, NEW v \in Versions, item[p][v] = "at global gate",
                 ~GlobalFree(p), Sending(p) = {}
          PROVE  \E w \in Versions : item[p][w] = "at host gate" /\ HostFree(p, w)
      <3>1. Cardinality(Holding(p)) # 0
        <4>1. inflight[p]["all"] = Cardinality(Holding(p)) /\ ~(inflight[p]["all"] < GlobalSlots)
          BY <1>1, <2>2 DEF GateCount, GlobalFree
        <4> QED BY <4>1, SlotFacts
      <3>2. Holding(p) # {}
        BY <3>1, FS_EmptySet
      <3>3. PICK w \in Versions : item[p][w] = "at host gate"
        BY <2>2, <3>2 DEF Holding, Sending
      <3>4. HostFree(p, w)
        BY <2>1, <2>2, <3>3
      <3> QED BY <3>3, <3>4
    <2> QED BY <2>1, <2>2 DEF NothingStranded
  <1>5. ReportBalances
    BY <1>1 DEF ReportBalances, TallyCount
  <1> QED BY <1>2, <1>3, <1>4, <1>5 DEF FetchesSound

\* No pass has more requests in flight than its gates allow, no fetch waits at a
\* gate that nothing will open, and the report of every pass adds up and stands
\* for a row of every version it set out to fetch, with every other pass, the
\* deadline, failing commits and deaths at any point (enrich_run, run_one).
THEOREM FetchesHold == ReviewSpec => []FetchesSound
  BY FetchInvHolds, FetchInvSound, PTL

-----------------------------------------------------------------------------
(* What stays                                                              *)

LEMMA DescriptionsStay ==
  ASSUME FetchInv, ReviewNext
  PROVE  \A v \in Versions : desc[v] \in Usable => desc'[v] = desc[v]
  <1>1. ASSUME NEW p \in Passes, FetchStep(p) PROVE \A v \in Versions : desc[v] \in Usable => desc'[v] = desc[v]
    BY <1>1, FetchStepKeeps DEF FetchInv, OwnStep
  <1>2. CASE Dies
    BY <1>2 DEF Dies
  <1>3. ASSUME NEW q \in Reviewers, ReviewStep(q) PROVE desc' = desc
    BY <1>3, ReviewFrame
  <1>4. ASSUME NEW v \in Versions, ScoreMoves(v) PROVE desc' = desc
    BY <1>4 DEF ScoreMoves, enrichVars
  <1> QED BY <1>1, <1>2, <1>3, <1>4 DEF ReviewNext, EnrichNext

LEMMA ReviewsStay ==
  ASSUME ReviewNext
  PROVE  \A key \in DOMAIN reviews : /\ key \in DOMAIN reviews'
                                     /\ reviews[key] = "ok" => reviews'[key] = "ok"
  <1>1. ASSUME NEW q \in Reviewers, NEW reply, Replied(q, reply)
        PROVE  \A key \in DOMAIN reviews : /\ key \in DOMAIN reviews'
                                           /\ reviews[key] = "ok" => reviews'[key] = "ok"
    <2>1. CASE UNCHANGED reviews
      BY <2>1
    <2>2. ASSUME NEW key, reviews' = [k \in DOMAIN reviews \cup {key} |->
                                       IF k = key THEN Written(k, OutcomeOf(reply)) ELSE reviews[k]]
          PROVE  \A k \in DOMAIN reviews : /\ k \in DOMAIN reviews'
                                            /\ reviews[k] = "ok" => reviews'[k] = "ok"
      BY <2>2 DEF Written, OnFile
    <2> QED BY <1>1, <2>1, <2>2 DEF Replied
  <1>2. CASE UNCHANGED reviews
    BY <1>2
  <1> QED BY <1>1, <1>2 DEF ReviewNext, ReviewStep, StartReview, ReadPage, Weigh, Defer, EndPage,
          ReviewerDies, ScoreMoves, reviewVars

\* A description that was read and a review that was settled stay, whatever
\* slower pass, other reviewer, failure or rescoring comes after (the upserts of
\* enrichment and llm_review, which rewrite only rows that are not settled).
THEOREM AnswersHold == ReviewSpec => AnswersStay
  <1> DEFINE D == \A v \in Versions : desc[v] \in Usable => desc'[v] = desc[v]
             R == \A key \in DOMAIN reviews :
                     key \in DOMAIN reviews' /\ (reviews[key] = "ok" => reviews'[key] = "ok")
  <1>1. FetchInv /\ [ReviewNext]_allVars => [D]_desc
    BY DescriptionsStay DEF allVars, enrichVars
  <1>2. [ReviewNext]_allVars => [R]_reviews
    BY ReviewsStay DEF allVars, reviewVars
  <1>3. ReviewSpec => UsableIsFinal
    BY <1>1, FetchInvHolds, PTL DEF ReviewSpec, UsableIsFinal
  <1>4. ReviewSpec => SettledReviewsStay
    BY <1>2, PTL DEF ReviewSpec, SettledReviewsStay
  <1> QED BY <1>3, <1>4 DEF AnswersStay
-----------------------------------------------------------------------------
(* What a review call has counted                                          *)

ReviewPcs == {"idle", "select", "weigh", "review", "reported"}
ReviewFields == {"at", "work", "model", "cursor", "page", "bodies", "pending", "try", "considered", "eligible",
                 "skipped", "cached", "attempted", "ok", "written", "deferred", "exhausted"}

\* The postings of a work list up to the cursor, and that these are all.
Passed(work, cursor) == {n \in work : n <= cursor}
AllPassed(work, cursor) == \A n \in work : n <= cursor

\* What the record of a call holds.
CallShape(r) ==
    /\ DOMAIN r = ReviewFields /\ r.at \in ReviewPcs /\ r.try \in 1 .. 2
    /\ r.work \in SUBSET Reviewed /\ r.page \in SUBSET Reviewed /\ r.cursor \in Nat
    /\ DOMAIN r.bodies \in SUBSET (Reviewed \ NoWorkRow)
    /\ IsFiniteSet(r.pending) /\ \A k \in r.pending : k.tier \in Nat
    /\ r.considered \in Nat /\ r.eligible \in Nat /\ r.skipped \in Int /\ r.cached \in Nat
    /\ r.attempted \in Nat /\ r.ok \in Nat /\ r.written \in Nat /\ r.deferred \in Nat

\* Between the read of a page and its weighing the bodies are considered and
\* neither eligible nor skipped; while it is reviewed, what is pending is eligible
\* and not answered for.
Unweighed(r) == IF r.at = "weigh" THEN Cardinality(DOMAIN r.bodies) ELSE 0
CallCounts(r) ==
    /\ r.considered = Cardinality(Passed(r.work, r.cursor))
    /\ r.considered = r.eligible + r.skipped + Unweighed(r)
    /\ r.eligible = r.cached + r.attempted + r.deferred + Cardinality(r.pending)
    /\ r.written = r.attempted /\ r.ok <= r.attempted /\ r.attempted <= MaxReviews
    /\ r.at # "review" => r.pending = {}

\* A page that is not full is the last, and a call that reports without having
\* run out of budget has passed its whole list.
CallEnds(r) ==
    /\ r.at \in {"weigh", "review"} /\ Cardinality(r.page) < BatchSize => AllPassed(r.work, r.cursor)
    /\ r.at = "reported" /\ ~r.exhausted => AllPassed(r.work, r.cursor)

\* Until the budget is spent, what was found eligible has a row or is pending;
\* what is pending ranks no higher than what this page has asked about.
CallFinds(r, keys, filed) == r.at # "idle" /\ ~r.exhausted => keys \subseteq filed \cup r.pending
CallRanks(r, asked) ==
    /\ r.at = "weigh" => asked = {}
    /\ \A key \in asked : \A k \in r.pending : k.tier <= key.tier

CallInv(r, keys, asked, filed) ==
    CallShape(r) /\ CallCounts(r) /\ CallEnds(r) /\ CallFinds(r, keys, filed) /\ CallRanks(r, asked)

ReviewInv ==
    /\ tier \in [Versions -> Nat] /\ tier \in [Versions -> Tiers]
    /\ \A key \in DOMAIN reviews : reviews[key] \in Outcomes
    /\ DOMAIN rev = Reviewers /\ DOMAIN found = Reviewers /\ DOMAIN spent = Reviewers
    /\ \A q \in Reviewers : CallInv(rev[q], found[q], spent[q], DOMAIN reviews)
    /\ reviewCalls \in 0 .. setting.reviews /\ rescores \in 0 .. 1

\* A set of numbers that is not empty has a least.
LEMMA LeastNumber ==
  ASSUME NEW S \in SUBSET Nat, S # {}
  PROVE  \E m \in S : \A n \in S : m <= n
  <1>1. PICK m \in S : \A n \in S : ~(<<n, m>> \in OpToRel(<, Nat))
    BY NatLessThanWellFounded, WFMin, Zenon
  <1>2. \A n \in S : ~(n < m)
    BY <1>1, Zenon DEF OpToRel
  <1> QED BY <1>2

\* A page is what follows the cursor, without a gap; it is empty only at the end
\* of the list, and not full only there (select_work).
LEMMA PageFacts ==
  ASSUME NEW W \in SUBSET Reviewed, NEW c \in Nat, NEW P, P = SelectedPage(W, c)
  PROVE  /\ P \subseteq W /\ IsFiniteSet(P) /\ \A n \in P : n > c
         /\ P = {} => AllPassed(W, c)
         /\ \A last \in P : (\A n \in P : n <= last) =>
               /\ Passed(W, last) = Passed(W, c) \cup P
               /\ Cardinality(P) < BatchSize => AllPassed(W, last)
  <1> DEFINE rest == {n \in W : n > c}
             before(n) == {m \in rest : m < n}
  <1>1. P = {n \in rest : Cardinality(before(n)) < BatchSize}
    BY DEF SelectedPage
  <1>2. W \subseteq Nat /\ IsFiniteSet(W) /\ IsFiniteSet(rest) /\ rest \subseteq Nat
    <2>1. W \subseteq Nat /\ IsFiniteSet(W)
      BY ReviewAssumption, FS_Subset
    <2> QED BY <2>1, FS_Subset
  <1>3. P \subseteq W /\ IsFiniteSet(P) /\ \A n \in P : n > c /\ n \in rest
    <2>1. P \subseteq rest
      BY <1>1
    <2> QED BY <1>2, <2>1, FS_Subset
  <1>4. BatchSize \in Nat /\ BatchSize > 0
    BY ReviewAssumption
  <1>5. \A T : T \subseteq rest => IsFiniteSet(T) /\ Cardinality(T) \in Nat
    BY <1>2, FS_Subset, FS_CardinalityType
  <1>6. \A S, T : S \subseteq T /\ T \subseteq rest => Cardinality(S) <= Cardinality(T)
    BY <1>5, FS_Subset
  <1>7. P = {} => AllPassed(W, c)
    <2> SUFFICES ASSUME P = {}, rest # {} PROVE FALSE
      BY <1>2 DEF AllPassed
    <2>1. PICK m \in rest : \A n \in rest : m <= n
      BY <1>2, LeastNumber
    <2>2. before(m) = {}
      BY <1>2, <2>1
    <2>3. Cardinality(before(m)) < BatchSize
      BY <1>4, <2>2, FS_EmptySet
    <2>4. m \in P
      BY <1>1, <2>3
    <2> QED BY <2>4
  <1>8. ASSUME NEW last \in P, \A n \in P : n <= last
        PROVE  /\ Passed(W, last) = Passed(W, c) \cup P
               /\ Cardinality(P) < BatchSize => AllPassed(W, last)
    <2>1. last \in rest /\ last \in Nat /\ last > c /\ Cardinality(before(last)) < BatchSize
      BY <1>1, <1>2, <1>3
    <2>2. ASSUME NEW n \in rest, n <= last PROVE n \in P
      <3>1. before(n) \subseteq before(last) /\ before(last) \subseteq rest
        BY <1>2, <2>1, <2>2
      <3>2. Cardinality(before(n)) <= Cardinality(before(last))
        BY <1>6, <3>1
      <3>3. Cardinality(before(n)) \in Nat /\ Cardinality(before(last)) \in Nat
        BY <1>5, <3>1
      <3>4. Cardinality(before(n)) < BatchSize
        <4> HIDE DEF before
        <4> QED BY <1>4, <2>1, <3>2, <3>3
      <3> QED BY <1>1, <3>4
    <2>3. Passed(W, last) = Passed(W, c) \cup P
      <3>1. ASSUME NEW n \in W PROVE n <= last <=> n <= c \/ n \in P
        <4>1. n \in Nat
          BY <1>2
        <4>2. n > c /\ n <= last => n \in P
          BY <2>2
        <4>3. n \in P => n <= last
          BY <1>8
        <4> QED BY <2>1, <4>1, <4>2, <4>3
      <3> QED BY <1>3, <3>1 DEF Passed
    <2>4. ASSUME Cardinality(P) < BatchSize PROVE AllPassed(W, last)
      <3> DEFINE behind == {n \in rest : n > last}
      <3> SUFFICES ASSUME behind # {} PROVE FALSE
        BY <1>2, <2>1 DEF AllPassed
      <3>1. PICK m \in behind : \A n \in behind : m <= n
        <4>1. behind \subseteq Nat
          BY <1>2
        <4> QED BY <4>1, LeastNumber
      <3>2. m \in rest /\ m > last /\ m \in Nat
        BY <1>2
      <3>3. before(m) \subseteq P
        <4>1. ASSUME NEW n \in rest, n < m PROVE n \in P
          <5>1. n \in Nat /\ ~(n > last)
            BY <1>2, <3>1, <3>2, <4>1
          <5> QED BY <2>1, <2>2, <5>1
        <4> QED BY <4>1
      <3>4. Cardinality(before(m)) <= Cardinality(P) /\ Cardinality(P) \in Nat /\ Cardinality(before(m)) \in Nat
        BY <1>3, <1>5, <1>6, <3>3
      <3>5. Cardinality(before(m)) < BatchSize
        <4> HIDE DEF before
        <4> QED BY <1>4, <2>4, <3>4
      <3>6. m \in P
        BY <1>1, <3>2, <3>5
      <3> QED BY <1>8, <2>1, <3>2, <3>6
    <2> QED BY <2>3, <2>4
  <1> QED BY <1>3, <1>7, <1>8
-----------------------------------------------------------------------------
(* What a step does to a call                                              *)

LEMMA Starts ==
  ASSUME NEW work \in SUBSET Reviewed, NEW model, NEW R, NEW filed,
         R = [NoCall EXCEPT !.at = "select", !.work = work, !.model = model]
  PROVE  CallInv(R, {}, {}, filed)
  <1>1. /\ DOMAIN R = ReviewFields /\ R.at = "select" /\ R.try = 1 /\ R.work = work /\ R.page = {}
        /\ R.cursor = 0 /\ R.bodies = <<>> /\ R.pending = {} /\ ~R.exhausted
        /\ R.considered = 0 /\ R.eligible = 0 /\ R.skipped = 0 /\ R.cached = 0
        /\ R.attempted = 0 /\ R.ok = 0 /\ R.written = 0 /\ R.deferred = 0
    BY DEF NoCall, ReviewFields
  <1>2. IsFiniteSet({}) /\ Cardinality({}) = 0
    BY FS_EmptySet
  <1>3. Passed(work, 0) = {}
    BY ReviewAssumption DEF Passed
  <1>4. DOMAIN R.bodies = {}
    BY <1>1
  <1>5. CallShape(R)
    <2>1. IsFiniteSet(R.pending) /\ \A k \in R.pending : k.tier \in Nat
      BY <1>1, <1>2
    <2>2. R.at \in ReviewPcs /\ R.try \in 1 .. 2 /\ DOMAIN R.bodies \in SUBSET (Reviewed \ NoWorkRow)
      BY <1>1, <1>4 DEF ReviewPcs
    <2> QED BY <1>1, <2>1, <2>2 DEF CallShape
  <1>6. CallCounts(R)
    <2>1. Cardinality(R.pending) = 0 /\ Cardinality(Passed(R.work, R.cursor)) = 0 /\ Unweighed(R) = 0
      BY <1>1, <1>2, <1>3 DEF Unweighed
    <2>2. MaxReviews \in Nat
      BY ReviewAssumption
    <2> QED BY <1>1, <2>1, <2>2 DEF CallCounts
  <1> QED BY <1>1, <1>5, <1>6 DEF CallInv, CallEnds, CallFinds, CallRanks

LEMMA NoCallHolds ==
  ASSUME NEW keys, NEW asked, NEW filed
  PROVE  CallInv(NoCall, keys, asked, filed)
  <1>1. /\ DOMAIN NoCall = ReviewFields /\ NoCall.at = "idle" /\ NoCall.try = 1 /\ NoCall.work = {} /\ NoCall.page = {}
        /\ NoCall.cursor = 0 /\ NoCall.bodies = <<>> /\ NoCall.pending = {} /\ ~NoCall.exhausted
        /\ NoCall.considered = 0 /\ NoCall.eligible = 0 /\ NoCall.skipped = 0 /\ NoCall.cached = 0
        /\ NoCall.attempted = 0 /\ NoCall.ok = 0 /\ NoCall.written = 0 /\ NoCall.deferred = 0
    BY DEF NoCall, ReviewFields
  <1>2. IsFiniteSet({}) /\ Cardinality({}) = 0
    BY FS_EmptySet
  <1>3. Passed({}, 0) = {}
    BY DEF Passed
  <1>4. DOMAIN NoCall.bodies = {}
    BY <1>1
  <1>5. CallShape(NoCall)
    BY <1>1, <1>2, <1>4 DEF CallShape, ReviewPcs
  <1>6. CallCounts(NoCall)
    <2>1. /\ Cardinality(NoCall.pending) = 0 /\ Cardinality(Passed(NoCall.work, NoCall.cursor)) = 0
          /\ Unweighed(NoCall) = 0
      BY <1>1, <1>2, <1>3 DEF Unweighed
    <2>2. MaxReviews \in Nat
      BY ReviewAssumption
    <2> QED BY <1>1, <2>1, <2>2 DEF CallCounts
  <1> QED BY <1>1, <1>5, <1>6 DEF CallInv, CallEnds, CallFinds, CallRanks

\* The place of a call changes and nothing else.
LEMMA Moves ==
  ASSUME NEW r, NEW keys, NEW asked, NEW filed, CallInv(r, keys, asked, filed),
         NEW w \in {"reported", "select"}, NEW R, R = [r EXCEPT !.at = w],
         r.at \in {"select", "review"}, r.pending = {},
         w = "reported" /\ ~r.exhausted => AllPassed(r.work, r.cursor), NEW later
  PROVE  CallInv(R, keys, later, filed)
  <1>1. /\ DOMAIN R = ReviewFields /\ R.at = w /\ R.try = r.try /\ R.work = r.work /\ R.page = r.page
        /\ R.cursor = r.cursor /\ R.bodies = r.bodies /\ R.pending = r.pending /\ R.exhausted = r.exhausted
        /\ R.considered = r.considered /\ R.eligible = r.eligible /\ R.skipped = r.skipped /\ R.cached = r.cached
        /\ R.attempted = r.attempted /\ R.ok = r.ok /\ R.written = r.written /\ R.deferred = r.deferred
    BY DEF CallInv, CallShape, ReviewFields
  <1>2. CallShape(R)
    BY <1>1 DEF CallInv, CallShape, ReviewPcs
  <1>3. CallCounts(R)
    BY <1>1 DEF CallInv, CallCounts, Unweighed
  <1>4. CallFinds(R, keys, filed)
    BY <1>1 DEF CallInv, CallFinds
  <1> QED BY <1>1, <1>2, <1>3, <1>4 DEF CallInv, CallEnds, CallRanks

\* The rows of a page enter the count of the considered (review_run, the page loop).
LEMMA Reads ==
  ASSUME NEW r, NEW keys, NEW asked, NEW filed, CallInv(r, keys, asked, filed), r.at = "select",
         NEW P, P = SelectedPage(r.work, r.cursor), NEW last \in P, \A n \in P : n <= last,
         NEW rows, rows = P \ NoWorkRow, NEW bodies, DOMAIN bodies = rows, NEW R,
         R = [r EXCEPT !.at = "weigh", !.page = P, !.cursor = last, !.bodies = bodies,
                       !.considered = @ + Cardinality(P), !.skipped = @ + Cardinality(P \ rows)]
  PROVE  CallInv(R, keys, {}, filed)
  <1>1. CallShape(r) /\ CallCounts(r) /\ CallFinds(r, keys, filed)
    BY DEF CallInv
  <1>2. /\ DOMAIN R = ReviewFields /\ R.at = "weigh" /\ R.try = r.try /\ R.work = r.work /\ R.page = P
        /\ R.cursor = last /\ R.bodies = bodies /\ R.pending = r.pending /\ R.exhausted = r.exhausted
        /\ R.considered = r.considered + Cardinality(P) /\ R.eligible = r.eligible
        /\ R.skipped = r.skipped + Cardinality(P \ rows) /\ R.cached = r.cached
        /\ R.attempted = r.attempted /\ R.ok = r.ok /\ R.written = r.written /\ R.deferred = r.deferred
    BY <1>1 DEF CallShape, ReviewFields
  <1>3. /\ P \subseteq r.work /\ IsFiniteSet(P) /\ \A n \in P : n > r.cursor
        /\ Passed(r.work, last) = Passed(r.work, r.cursor) \cup P
        /\ Cardinality(P) < BatchSize => AllPassed(r.work, last)
    <2>1. r.work \in SUBSET Reviewed /\ r.cursor \in Nat
      BY <1>1 DEF CallShape
    <2>2. ASSUME NEW W, W = r.work, NEW c, c = r.cursor
          PROVE  /\ P \subseteq W /\ IsFiniteSet(P) /\ \A n \in P : n > c
                 /\ Passed(W, last) = Passed(W, c) \cup P
                 /\ Cardinality(P) < BatchSize => AllPassed(W, last)
      <3>1. W \in SUBSET Reviewed /\ c \in Nat /\ P = SelectedPage(W, c)
        BY <2>1, <2>2
      <3>2. /\ P \subseteq W /\ IsFiniteSet(P) /\ \A n \in P : n > c
            /\ \A m \in P : (\A n \in P : n <= m) =>
                 /\ Passed(W, m) = Passed(W, c) \cup P
                 /\ Cardinality(P) < BatchSize => AllPassed(W, m)
        BY <3>1, PageFacts
      <3> QED BY <3>2
    <2> QED BY <2>2
  <1>4. r.work \subseteq Reviewed /\ P \subseteq Reviewed /\ last \in Nat /\ r.cursor \in Nat /\ Reviewed \subseteq Nat
    BY <1>1, <1>3, ReviewAssumption DEF CallShape
  <1>5. /\ Cardinality(P) \in Nat /\ Cardinality(rows) \in Nat /\ Cardinality(P \ rows) \in Nat
        /\ Cardinality(P) = Cardinality(rows) + Cardinality(P \ rows)
    <2>1. P \cap rows = rows
      OBVIOUS
    <2>2. Cardinality(P \ rows) = Cardinality(P) - Cardinality(rows)
      <3>1. Cardinality(P \ rows) = Cardinality(P) - Cardinality(P \cap rows)
        BY <1>3, FS_Difference, Zenon
      <3> QED BY <2>1, <3>1
    <2>3. IsFiniteSet(rows) /\ IsFiniteSet(P \ rows)
      BY <1>3, FS_Subset
    <2>4. Cardinality(P) \in Nat /\ Cardinality(rows) \in Nat /\ Cardinality(P \ rows) \in Nat
      BY <1>3, <2>3, FS_CardinalityType
    <2> QED BY <2>2, <2>4
  <1>6. Cardinality(Passed(r.work, last)) = Cardinality(Passed(r.work, r.cursor)) + Cardinality(P)
    <2>1. Passed(r.work, r.cursor) \cap P = {}
      BY <1>3, <1>4 DEF Passed
    <2>2. IsFiniteSet(Passed(r.work, r.cursor))
      <3>1. Passed(r.work, r.cursor) \subseteq Reviewed
        BY <1>4 DEF Passed
      <3> QED BY <3>1, ReviewAssumption, FS_Subset
    <2>3. Cardinality(Passed(r.work, r.cursor)) \in Nat
      BY <2>2, FS_CardinalityType
    <2>4. Cardinality(Passed(r.work, last))
            = Cardinality(Passed(r.work, r.cursor)) + Cardinality(P) - Cardinality(Passed(r.work, r.cursor) \cap P)
      <3>1. Passed(r.work, last) = Passed(r.work, r.cursor) \cup P
        BY <1>3
      <3>2. IsFiniteSet(P)
        BY <1>3
      <3> QED BY <2>2, <3>1, <3>2, FS_Union, Zenon
    <2>5. Cardinality(Passed(r.work, r.cursor) \cap P) = 0
      BY <2>1, FS_EmptySet
    <2> QED BY <1>5, <2>3, <2>4, <2>5
  <1>7. CallShape(R)
    <2>1. DOMAIN bodies \in SUBSET (Reviewed \ NoWorkRow)
      BY <1>4
    <2>2. R.considered \in Nat /\ R.skipped \in Int
      <3>1. r.considered \in Nat /\ r.skipped \in Int
        BY <1>1 DEF CallShape
      <3> QED BY <1>2, <1>5, <3>1
    <2>3. R.at \in ReviewPcs
      BY <1>2 DEF ReviewPcs
    <2> QED BY <1>1, <1>2, <1>4, <2>1, <2>2, <2>3 DEF CallShape
  <1>8. CallCounts(R)
    <2>1. r.considered = r.eligible + r.skipped
      <3>1. Unweighed(r) = 0 /\ r.eligible \in Nat /\ r.skipped \in Int
        BY <1>1 DEF CallShape, Unweighed
      <3> QED BY <1>1, <3>1 DEF CallCounts
    <2>2. R.considered = R.eligible + R.skipped + Unweighed(R)
      <3>1. Unweighed(R) = Cardinality(rows)
        BY <1>2 DEF Unweighed
      <3>2. r.eligible \in Nat /\ r.skipped \in Int
        BY <1>1 DEF CallShape
      <3> QED BY <1>2, <1>5, <2>1, <3>1, <3>2
    <2>3. R.considered = Cardinality(Passed(R.work, R.cursor))
      BY <1>1, <1>2, <1>6 DEF CallCounts
    <2> QED BY <1>1, <1>2, <2>2, <2>3 DEF CallCounts
  <1>9. CallEnds(R)
    BY <1>2, <1>3 DEF CallEnds
  <1>10. CallFinds(R, keys, filed)
    BY <1>1, <1>2 DEF CallFinds
  <1> QED BY <1>7, <1>8, <1>9, <1>10 DEF CallInv, CallRanks

\* A weighed page is eligible or skipped, and what is eligible is on file or pending.
LEMMA Weighs ==
  ASSUME NEW r, NEW keys, NEW asked, NEW filed, CallInv(r, keys, asked, filed), r.at = "weigh",
         NEW K, IsFiniteSet(K), \A k \in K : k.tier \in Nat, NEW Q \in SUBSET K, K \ Q \subseteq filed, NEW R,
         R = [r EXCEPT !.at = "review", !.try = 1, !.pending = Q, !.eligible = @ + Cardinality(K),
                       !.skipped = @ + Cardinality(DOMAIN r.bodies) - Cardinality(K),
                       !.cached = @ + Cardinality(K \ Q)]
  PROVE  CallInv(R, keys \cup K, asked, filed)
  <1>1. CallShape(r) /\ CallCounts(r) /\ CallFinds(r, keys, filed) /\ CallEnds(r) /\ CallRanks(r, asked)
    BY DEF CallInv
  <1>2. /\ DOMAIN R = ReviewFields /\ R.at = "review" /\ R.try = 1 /\ R.work = r.work /\ R.page = r.page
        /\ R.cursor = r.cursor /\ R.bodies = r.bodies /\ R.pending = Q /\ R.exhausted = r.exhausted
        /\ R.considered = r.considered /\ R.eligible = r.eligible + Cardinality(K)
        /\ R.skipped = r.skipped + Cardinality(DOMAIN r.bodies) - Cardinality(K)
        /\ R.cached = r.cached + Cardinality(K \ Q)
        /\ R.attempted = r.attempted /\ R.ok = r.ok /\ R.written = r.written /\ R.deferred = r.deferred
    BY <1>1 DEF CallShape, ReviewFields
  <1>3. /\ Cardinality(K) \in Nat /\ Cardinality(Q) \in Nat /\ Cardinality(K \ Q) \in Nat /\ IsFiniteSet(Q)
        /\ Cardinality(K) = Cardinality(Q) + Cardinality(K \ Q)
    <2>1. K \cap Q = Q
      OBVIOUS
    <2>2. Cardinality(K \ Q) = Cardinality(K) - Cardinality(Q)
      BY <2>1, FS_Difference
    <2>3. IsFiniteSet(Q) /\ IsFiniteSet(K \ Q)
      BY FS_Subset
    <2>4. Cardinality(K) \in Nat /\ Cardinality(Q) \in Nat /\ Cardinality(K \ Q) \in Nat
      BY <2>3, FS_CardinalityType
    <2> QED BY <2>2, <2>3, <2>4
  <1>4. Cardinality(DOMAIN r.bodies) \in Nat
    <2>1. IsFiniteSet(DOMAIN r.bodies)
      BY <1>1, ReviewAssumption, FS_Subset DEF CallShape
    <2> QED BY <2>1, FS_CardinalityType
  <1>5. CallShape(R)
    BY <1>1, <1>2, <1>3, <1>4 DEF CallShape, ReviewPcs
  <1>6. CallCounts(R)
    <2>1. /\ r.eligible \in Nat /\ r.skipped \in Int /\ r.cached \in Nat /\ r.attempted \in Nat /\ r.deferred \in Nat
      BY <1>1 DEF CallShape
    <2>2. r.considered = r.eligible + r.skipped + Cardinality(DOMAIN r.bodies)
      BY <1>1 DEF CallCounts, Unweighed
    <2>3. R.considered = R.eligible + R.skipped + Unweighed(R)
      <3>1. Unweighed(R) = 0
        BY <1>2 DEF Unweighed
      <3> QED BY <1>2, <1>3, <1>4, <2>1, <2>2, <3>1
    <2>4. r.eligible = r.cached + r.attempted + r.deferred
      <3>1. Cardinality(r.pending) = 0
        BY <1>1, FS_EmptySet DEF CallCounts
      <3> QED BY <1>1, <2>1, <3>1 DEF CallCounts
    <2>5. R.eligible = R.cached + R.attempted + R.deferred + Cardinality(R.pending)
      BY <1>2, <1>3, <2>1, <2>4
    <2> QED BY <1>1, <1>2, <2>3, <2>5 DEF CallCounts
  <1>7. CallEnds(R)
    BY <1>1, <1>2 DEF CallEnds
  <1>8. CallFinds(R, keys \cup K, filed)
    <2>1. r.pending = {}
      BY <1>1 DEF CallCounts
    <2> QED BY <1>1, <1>2, <2>1 DEF CallFinds
  <1>9. CallRanks(R, asked)
    BY <1>1, <1>2 DEF CallRanks
  <1> QED BY <1>5, <1>6, <1>7, <1>8, <1>9 DEF CallInv

\* The one retry of a call to the model.
LEMMA Retries ==
  ASSUME NEW r, NEW keys, NEW asked, NEW filed, CallInv(r, keys, asked, filed), NEW R, R = [r EXCEPT !.try = 2]
  PROVE  CallInv(R, keys, asked, filed)
  <1>1. /\ DOMAIN R = ReviewFields /\ R.at = r.at /\ R.try = 2 /\ R.work = r.work /\ R.page = r.page
        /\ R.cursor = r.cursor /\ R.bodies = r.bodies /\ R.pending = r.pending /\ R.exhausted = r.exhausted
        /\ R.considered = r.considered /\ R.eligible = r.eligible /\ R.skipped = r.skipped /\ R.cached = r.cached
        /\ R.attempted = r.attempted /\ R.ok = r.ok /\ R.written = r.written /\ R.deferred = r.deferred
    BY DEF CallInv, CallShape, ReviewFields
  <1>2. CallShape(R)
    BY <1>1 DEF CallInv, CallShape
  <1>3. CallCounts(R)
    BY <1>1 DEF CallInv, CallCounts, Unweighed
  <1> QED BY <1>1, <1>2, <1>3 DEF CallInv, CallEnds, CallFinds, CallRanks

\* An answer moves one key from what is pending to what is on file.
LEMMA Answers ==
  ASSUME NEW r, NEW keys, NEW asked, NEW filed, CallInv(r, keys, asked, filed), r.at = "review",
         r.attempted < MaxReviews, NEW key \in r.pending, \A k \in r.pending : ~Ahead(k, key),
         NEW R, NEW n \in {0, 1},
         R = [r EXCEPT !.pending = @ \ {key}, !.try = 1, !.attempted = @ + 1, !.written = @ + 1, !.ok = @ + n]
  PROVE  CallInv(R, keys, asked \cup {key}, filed \cup {key})
  <1>1. CallShape(r) /\ CallCounts(r) /\ CallFinds(r, keys, filed) /\ CallEnds(r) /\ CallRanks(r, asked)
    BY DEF CallInv
  <1>2. /\ DOMAIN R = ReviewFields /\ R.at = "review" /\ R.try = 1 /\ R.work = r.work /\ R.page = r.page
        /\ R.cursor = r.cursor /\ R.bodies = r.bodies /\ R.pending = r.pending \ {key} /\ R.exhausted = r.exhausted
        /\ R.considered = r.considered /\ R.eligible = r.eligible /\ R.skipped = r.skipped /\ R.cached = r.cached
        /\ R.attempted = r.attempted + 1 /\ R.ok = r.ok + n /\ R.written = r.written + 1 /\ R.deferred = r.deferred
    BY <1>1 DEF CallShape, ReviewFields
  <1>3. IsFiniteSet(R.pending) /\ Cardinality(R.pending) = Cardinality(r.pending) - 1 /\ Cardinality(r.pending) \in Nat
    <2>1. IsFiniteSet(r.pending)
      BY <1>1 DEF CallShape
    <2> QED BY <1>2, <2>1, FS_RemoveElement, FS_CardinalityType
  <1>4. /\ r.attempted \in Nat /\ r.ok \in Nat /\ r.written \in Nat /\ r.cached \in Nat /\ r.deferred \in Nat
        /\ r.eligible \in Nat /\ MaxReviews \in Nat
    BY <1>1, ReviewAssumption DEF CallShape
  <1>5. CallShape(R)
    <2>1. R.attempted \in Nat /\ R.ok \in Nat /\ R.written \in Nat
      BY <1>2, <1>4
    <2>2. \A k \in R.pending : k.tier \in Nat
      BY <1>1, <1>2 DEF CallShape
    <2> QED BY <1>1, <1>2, <1>3, <2>1, <2>2 DEF CallShape
  <1>6. CallCounts(R)
    <2>1. /\ r.eligible = r.cached + r.attempted + r.deferred + Cardinality(r.pending)
          /\ r.written = r.attempted /\ r.ok <= r.attempted
      BY <1>1 DEF CallCounts
    <2>2. /\ R.eligible = R.cached + R.attempted + R.deferred + Cardinality(R.pending)
          /\ R.written = R.attempted /\ R.ok <= R.attempted /\ R.attempted <= MaxReviews
      BY <1>2, <1>3, <1>4, <2>1
    <2>3. Unweighed(R) = Unweighed(r)
      BY <1>2 DEF Unweighed
    <2> QED BY <1>1, <1>2, <2>2, <2>3 DEF CallCounts
  <1>7. CallEnds(R)
    BY <1>1, <1>2 DEF CallEnds
  <1>8. CallFinds(R, keys, filed \cup {key})
    BY <1>1, <1>2 DEF CallFinds
  <1>9. CallRanks(R, asked \cup {key})
    <2>1. ASSUME NEW k \in r.pending PROVE k.tier <= key.tier
      <3>1. k.tier \in Nat /\ key.tier \in Nat
        BY <1>1 DEF CallShape
      <3>2. ~(k.tier > key.tier)
        BY DEF Ahead
      <3> QED BY <3>1, <3>2
    <2> QED BY <1>1, <1>2, <2>1 DEF CallRanks
  <1> QED BY <1>5, <1>6, <1>7, <1>8, <1>9 DEF CallInv

\* What the budget does not reach is counted as deferred.
LEMMA Defers ==
  ASSUME NEW r, NEW keys, NEW asked, NEW filed, CallInv(r, keys, asked, filed), r.at = "review", NEW R,
         R = [r EXCEPT !.deferred = @ + Cardinality(r.pending), !.pending = {}, !.exhausted = TRUE]
  PROVE  CallInv(R, keys, asked, filed)
  <1>1. CallShape(r) /\ CallCounts(r) /\ CallEnds(r) /\ CallRanks(r, asked)
    BY DEF CallInv
  <1>2. /\ DOMAIN R = ReviewFields /\ R.at = "review" /\ R.try = r.try /\ R.work = r.work /\ R.page = r.page
        /\ R.cursor = r.cursor /\ R.bodies = r.bodies /\ R.pending = {} /\ R.exhausted
        /\ R.considered = r.considered /\ R.eligible = r.eligible /\ R.skipped = r.skipped /\ R.cached = r.cached
        /\ R.attempted = r.attempted /\ R.ok = r.ok /\ R.written = r.written
        /\ R.deferred = r.deferred + Cardinality(r.pending)
    BY <1>1 DEF CallShape, ReviewFields
  <1>3. Cardinality(r.pending) \in Nat /\ IsFiniteSet({}) /\ Cardinality({}) = 0
    BY <1>1, FS_CardinalityType, FS_EmptySet DEF CallShape
  <1>4. r.deferred \in Nat /\ r.cached \in Nat /\ r.attempted \in Nat
    BY <1>1 DEF CallShape
  <1>5. CallShape(R)
    <2>1. R.deferred \in Nat
      BY <1>2, <1>3, <1>4
    <2> QED BY <1>1, <1>2, <1>3, <2>1 DEF CallShape
  <1>6. CallCounts(R)
    <2>1. r.eligible = r.cached + r.attempted + r.deferred + Cardinality(r.pending)
      BY <1>1 DEF CallCounts
    <2>2. R.eligible = R.cached + R.attempted + R.deferred + Cardinality(R.pending)
      BY <1>2, <1>3, <1>4, <2>1
    <2>3. Unweighed(R) = Unweighed(r)
      BY <1>2 DEF Unweighed
    <2> QED BY <1>1, <1>2, <2>2, <2>3 DEF CallCounts
  <1> QED BY <1>1, <1>2, <1>5, <1>6 DEF CallInv, CallEnds, CallFinds, CallRanks

\* Rows of other calls do not take a call's rows away.
LEMMA MoreOnFile ==
  ASSUME NEW r, NEW keys, NEW asked, NEW filed, NEW more, filed \subseteq more, CallInv(r, keys, asked, filed)
  PROVE  CallInv(r, keys, asked, more)
  BY DEF CallInv, CallFinds
-----------------------------------------------------------------------------
(* The steps of the reviewers                                              *)

\* The keys of a page are finitely many and have a tier.
LEMMA KeysFinite ==
  ASSUME ReviewInv, NEW q \in Reviewers, NEW K, K = {CandidateKey(q, n) : n \in Eligible(q)}
  PROVE  IsFiniteSet(K) /\ \A k \in K : k.tier \in Nat
  <1>1. DOMAIN rev[q].bodies \subseteq Reviewed \ NoWorkRow
    BY DEF ReviewInv, CallInv, CallShape
  <1>2. Eligible(q) \subseteq Reviewed \ NoWorkRow /\ IsFiniteSet(Eligible(q))
    <2>1. Eligible(q) \subseteq Reviewed \ NoWorkRow
      BY <1>1 DEF Eligible
    <2> QED BY <2>1, ReviewAssumption, FS_Subset
  <1> DEFINE f == [n \in Eligible(q) |-> CandidateKey(q, n)]
  <1>3. f \in Surjection(Eligible(q), K)
    BY DEF Surjection
  <1>4. IsFiniteSet(K)
    <2> HIDE DEF f
    <2> QED BY <1>2, <1>3, FS_Surjection
  <1>5. ASSUME NEW n \in Eligible(q) PROVE CandidateKey(q, n).tier \in Nat
    <2>1. Current(n) \in Versions
      BY <1>2, RowAssumption
    <2>2. tier[Current(n)] \in Nat
      BY <2>1 DEF ReviewInv
    <2> QED BY <2>2 DEF CandidateKey, ReviewKey
  <1> QED BY <1>4, <1>5

\* One call changes, and perhaps the rows.
LEMMA CallMoves ==
  ASSUME ReviewInv, NEW q \in Reviewers, NEW R, NEW keys, NEW asked, NEW filed,
         DOMAIN rev' = Reviewers, rev'[q] = R, DOMAIN found' = Reviewers, found'[q] = keys,
         DOMAIN spent' = Reviewers, spent'[q] = asked,
         \A p \in Reviewers : p # q => rev'[p] = rev[p] /\ found'[p] = found[p] /\ spent'[p] = spent[p],
         CallInv(R, keys, asked, filed), DOMAIN reviews' = filed, DOMAIN reviews \subseteq filed,
         \A key \in DOMAIN reviews' : reviews'[key] \in Outcomes,
         tier' = tier, setting' = setting, reviewCalls' \in 0 .. setting.reviews, rescores' = rescores
  PROVE  ReviewInv'
  <1>1. ASSUME NEW p \in Reviewers PROVE CallInv(rev'[p], found'[p], spent'[p], filed)
    <2>1. CASE p = q
      BY <2>1
    <2>2. CASE p # q
      <3>1. CallInv(rev[p], found[p], spent[p], DOMAIN reviews)
        BY DEF ReviewInv
      <3> QED BY <2>2, <3>1, MoreOnFile
    <2> QED BY <2>1, <2>2
  <1> QED BY <1>1 DEF ReviewInv

LEMMA ReviewStarts == EnrichInit /\ ReviewInit => ReviewInv
  <1> SUFFICES ASSUME EnrichInit, ReviewInit PROVE ReviewInv
    OBVIOUS
  <1>1. setting \in Settings
    BY DEF EnrichInit
  <1>2. tier \in [Versions -> Tiers] /\ tier \in [Versions -> Nat]
    <2>1. tier \in [Versions -> Tiers]
      BY <1>1, ReviewAssumption DEF ReviewInit
    <2> QED BY <2>1, ReviewAssumption
  <1>3. DOMAIN rev = Reviewers /\ DOMAIN found = Reviewers /\ DOMAIN spent = Reviewers
    BY DEF ReviewInit
  <1>4. ASSUME NEW q \in Reviewers PROVE CallInv(rev[q], found[q], spent[q], DOMAIN reviews)
    <2>1. rev[q] = NoCall
      BY DEF ReviewInit
    <2> QED BY <2>1, NoCallHolds
  <1>5. DOMAIN reviews = {}
    BY DEF ReviewInit
  <1>6. reviewCalls \in 0 .. setting.reviews /\ rescores \in 0 .. 1
    BY <1>1, ReviewAssumption DEF ReviewInit
  <1> QED BY <1>2, <1>3, <1>4, <1>5, <1>6 DEF ReviewInv

\* One reviewer's part of the state.
Mine(q, R, keys, asked) ==
    /\ DOMAIN rev' = Reviewers /\ rev'[q] = R /\ DOMAIN found' = Reviewers /\ found'[q] = keys
    /\ DOMAIN spent' = Reviewers /\ spent'[q] = asked
    /\ \A p \in Reviewers : p # q => rev'[p] = rev[p] /\ found'[p] = found[p] /\ spent'[p] = spent[p]

LEMMA StartKeeps ==
  ASSUME ReviewInv, FetchShape, NEW q \in Reviewers, StartReview(q)
  PROVE  ReviewInv'
  <1>1. PICK work \in setting.work, model \in Models :
          rev' = [rev EXCEPT ![q] = [NoCall EXCEPT !.at = "select", !.work = work, !.model = model]]
    BY DEF StartReview
  <1>2. PICK R : R = [NoCall EXCEPT !.at = "select", !.work = work, !.model = model]
    OBVIOUS
  <1>3. work \in SUBSET Reviewed
    BY ReviewAssumption DEF FetchShape
  <1>4. CallInv(R, {}, {}, DOMAIN reviews)
    BY <1>2, <1>3, Starts
  <1>5. Mine(q, R, {}, {})
    BY <1>1, <1>2 DEF StartReview, ReviewInv, Mine
  <1>6. reviewCalls' \in 0 .. setting.reviews
    <2>1. setting.reviews \in Nat
      BY ReviewAssumption DEF FetchShape
    <2> QED BY <2>1 DEF StartReview, ReviewInv
  <1>7. UNCHANGED <<tier, reviews, rescores, setting>> /\ \A key \in DOMAIN reviews : reviews[key] \in Outcomes
    BY DEF StartReview, ReviewInv, enrichVars
  <1> QED BY <1>4, <1>5, <1>6, <1>7, CallMoves DEF Mine

LEMMA ReadKeeps ==
  ASSUME ReviewInv, NEW q \in Reviewers, ReadPage(q)
  PROVE  ReviewInv'
  <1> DEFINE r == rev[q]
             P == SelectedPage(r.work, r.cursor)
  <1>1. r = rev[q]
    OBVIOUS
  <1>2. P = SelectedPage(r.work, r.cursor)
    OBVIOUS
  <1>9. \/ P = {} /\ rev' = [rev EXCEPT ![q].at = "reported"]
        \/ \E last \in P :
             /\ \A n \in P : n <= last
             /\ rev' = [rev EXCEPT ![q] =
                  [r EXCEPT !.at = "weigh", !.page = P, !.cursor = last, !.bodies = [n \in P \ NoWorkRow |-> Newest(n)],
                            !.considered = @ + Cardinality(P), !.skipped = @ + Cardinality(P \ (P \ NoWorkRow))]]
    BY Zenon DEF ReadPage
  <1> HIDE DEF r, P
  <1>3. CallInv(r, found[q], spent[q], DOMAIN reviews) /\ r.at = "select"
    BY <1>1 DEF ReviewInv, ReadPage
  <1>4. UNCHANGED <<tier, reviews, found, reviewCalls, rescores, setting>>
    BY DEF ReadPage, enrichVars
  <1>5. spent' = [spent EXCEPT ![q] = {}]
    BY DEF ReadPage
  <1>6. /\ \A key \in DOMAIN reviews : reviews[key] \in Outcomes
        /\ reviewCalls \in 0 .. setting.reviews
    BY DEF ReviewInv
  <1>7. CASE P = {} /\ rev' = [rev EXCEPT ![q].at = "reported"]
    <2>1. PICK R : R = [r EXCEPT !.at = "reported"]
      OBVIOUS
    <2>2. AllPassed(r.work, r.cursor)
      <3>1. r.work \in SUBSET Reviewed /\ r.cursor \in Nat
        BY <1>3 DEF CallInv, CallShape
      <3> QED BY <1>2, <1>7, <3>1, PageFacts
    <2>3. r.pending = {}
      BY <1>3 DEF CallInv, CallCounts
    <2>4. CallInv(R, found[q], {}, DOMAIN reviews)
      BY <1>3, <2>1, <2>2, <2>3, Moves
    <2>5. Mine(q, R, found[q], {})
      BY <1>1, <1>4, <1>5, <1>7, <2>1 DEF ReviewInv, Mine
    <2> QED BY <1>4, <1>6, <2>4, <2>5, CallMoves DEF Mine
  <1>8. ASSUME NEW last \in P, \A n \in P : n <= last,
               rev' = [rev EXCEPT ![q] =
                  [r EXCEPT !.at = "weigh", !.page = P, !.cursor = last, !.bodies = [n \in P \ NoWorkRow |-> Newest(n)],
                            !.considered = @ + Cardinality(P), !.skipped = @ + Cardinality(P \ (P \ NoWorkRow))]]
        PROVE  ReviewInv'
    <2>5. PICK rows, bodies : rows = P \ NoWorkRow /\ bodies = [n \in P \ NoWorkRow |-> Newest(n)]
      OBVIOUS
    <2>1. PICK R : R = [r EXCEPT !.at = "weigh", !.page = P, !.cursor = last, !.bodies = bodies,
                            !.considered = @ + Cardinality(P), !.skipped = @ + Cardinality(P \ rows)]
      OBVIOUS
    <2>2. DOMAIN bodies = rows
      BY <2>5
    <2>3. CallInv(R, found[q], {}, DOMAIN reviews)
      BY <1>2, <1>3, <1>8, <2>5, <2>1, <2>2, Reads
    <2>4. Mine(q, R, found[q], {})
      <3>1. rev' = [rev EXCEPT ![q] = R]
        BY <1>8, <2>5, <2>1
      <3> QED BY <1>4, <1>5, <3>1 DEF ReviewInv, Mine
    <2> QED BY <1>4, <1>6, <2>3, <2>4, CallMoves DEF Mine
  <1> QED BY <1>9, <1>7, <1>8

LEMMA WeighKeeps ==
  ASSUME ReviewInv, NEW q \in Reviewers, Weigh(q)
  PROVE  ReviewInv'
  <1>1. PICK r : r = rev[q]
    OBVIOUS
  <1>2. PICK K : K = {CandidateKey(q, n) : n \in Eligible(q)}
    OBVIOUS
  <1>3. PICK Q : Q = {k \in K : ~Settled(k)}
    OBVIOUS
  <1>4. PICK R : R = [r EXCEPT !.at = "review", !.try = 1, !.pending = Q, !.eligible = @ + Cardinality(K),
                       !.skipped = @ + Cardinality(DOMAIN r.bodies) - Cardinality(K),
                       !.cached = @ + Cardinality(K \ Q)]
    OBVIOUS
  <1>5. r.at = "weigh" /\ rev' = [rev EXCEPT ![q] = R] /\ found' = [found EXCEPT ![q] = @ \cup K]
    BY <1>1, <1>2, <1>3, <1>4 DEF Weigh
  <1>6. IsFiniteSet(K) /\ \A k \in K : k.tier \in Nat
    BY <1>2, KeysFinite
  <1>7. Q \in SUBSET K /\ K \ Q \subseteq DOMAIN reviews
    BY <1>3 DEF Settled, OnFile
  <1>8. CallInv(r, found[q], spent[q], DOMAIN reviews)
    BY <1>1 DEF ReviewInv
  <1>9. CallInv(R, found[q] \cup K, spent[q], DOMAIN reviews)
    BY <1>4, <1>5, <1>6, <1>7, <1>8, Weighs
  <1>10. UNCHANGED <<tier, reviews, spent, reviewCalls, rescores, setting>>
    BY DEF Weigh, enrichVars
  <1>11. /\ \A key \in DOMAIN reviews : reviews[key] \in Outcomes
         /\ reviewCalls \in 0 .. setting.reviews
    BY DEF ReviewInv
  <1>12. Mine(q, R, found[q] \cup K, spent[q])
    BY <1>5, <1>10 DEF ReviewInv, Mine
  <1> QED BY <1>9, <1>10, <1>11, <1>12, CallMoves DEF Mine

LEMMA ReplyKeeps ==
  ASSUME ReviewInv, NEW q \in Reviewers, NEW reply, Replied(q, reply)
  PROVE  ReviewInv'
  <1>1. PICK r : r = rev[q]
    OBVIOUS
  <1>2. CallInv(r, found[q], spent[q], DOMAIN reviews) /\ r.at = "review" /\ r.attempted < MaxReviews
    BY <1>1 DEF ReviewInv, Replied, Affordable
  <1>3. UNCHANGED <<tier, found, reviewCalls, rescores, setting>>
    BY DEF Replied, enrichVars
  <1>4. /\ \A key \in DOMAIN reviews : reviews[key] \in Outcomes
        /\ reviewCalls \in 0 .. setting.reviews
    BY DEF ReviewInv
  <1>5. CASE rev' = [rev EXCEPT ![q].try = 2] /\ UNCHANGED <<reviews, spent>>
    <2>1. PICK R : R = [r EXCEPT !.try = 2]
      OBVIOUS
    <2>2. CallInv(R, found[q], spent[q], DOMAIN reviews)
      BY <1>2, <2>1, Retries
    <2>3. Mine(q, R, found[q], spent[q])
      BY <1>1, <1>3, <1>5, <2>1 DEF ReviewInv, Mine
    <2> QED BY <1>3, <1>4, <1>5, <2>2, <2>3, CallMoves DEF Mine
  <1>6. ASSUME NEW key \in r.pending, \A k \in r.pending : ~Ahead(k, key),
               reviews' = [k \in DOMAIN reviews \cup {key} |->
                              IF k = key THEN Written(k, OutcomeOf(reply)) ELSE reviews[k]],
               spent' = [spent EXCEPT ![q] = @ \cup {key}],
               rev' = [rev EXCEPT ![q] =
                 [r EXCEPT !.pending = @ \ {key}, !.try = 1, !.attempted = @ + 1, !.written = @ + 1,
                           !.ok = IF OutcomeOf(reply) = "ok" THEN @ + 1 ELSE @]]
        PROVE  ReviewInv'
    <2>1. PICK n \in {0, 1} : n = IF OutcomeOf(reply) = "ok" THEN 1 ELSE 0
      OBVIOUS
    <2>2. PICK R : R = [r EXCEPT !.pending = @ \ {key}, !.try = 1, !.attempted = @ + 1, !.written = @ + 1,
                                 !.ok = @ + n]
      OBVIOUS
    <2>3. rev' = [rev EXCEPT ![q] = R]
      <3>1. r.ok \in Nat
        BY <1>2 DEF CallInv, CallShape
      <3>2. r.ok + n = IF OutcomeOf(reply) = "ok" THEN r.ok + 1 ELSE r.ok
        BY <2>1, <3>1
      <3> QED BY <1>6, <2>2, <3>2
    <2>4. CallInv(R, found[q], spent[q] \cup {key}, DOMAIN reviews \cup {key})
      BY <1>2, <1>6, <2>2, Answers
    <2>5. Mine(q, R, found[q], spent[q] \cup {key})
      BY <1>3, <1>6, <2>3 DEF ReviewInv, Mine
    <2>6. DOMAIN reviews' = DOMAIN reviews \cup {key}
      BY <1>6
    <2>7. \A k \in DOMAIN reviews' : reviews'[k] \in Outcomes
      BY <1>4, <1>6 DEF Written, OutcomeOf, Outcomes
    <2> QED BY <1>3, <1>4, <2>4, <2>5, <2>6, <2>7, CallMoves DEF Mine
  <1> QED BY <1>1, <1>5, <1>6 DEF Replied, Foremost

LEMMA DeferKeeps ==
  ASSUME ReviewInv, NEW q \in Reviewers, Defer(q)
  PROVE  ReviewInv'
  <1>1. PICK r : r = rev[q]
    OBVIOUS
  <1>2. PICK R : R = [r EXCEPT !.deferred = @ + Cardinality(r.pending), !.pending = {}, !.exhausted = TRUE]
    OBVIOUS
  <1>3. CallInv(r, found[q], spent[q], DOMAIN reviews) /\ r.at = "review"
    BY <1>1 DEF ReviewInv, Defer
  <1>4. CallInv(R, found[q], spent[q], DOMAIN reviews)
    BY <1>2, <1>3, Defers
  <1>5. Mine(q, R, found[q], spent[q])
    BY <1>1, <1>2 DEF Defer, ReviewInv, Mine
  <1>6. UNCHANGED <<tier, reviews, reviewCalls, rescores, setting>>
    BY DEF Defer, enrichVars
  <1>7. /\ \A key \in DOMAIN reviews : reviews[key] \in Outcomes
        /\ reviewCalls \in 0 .. setting.reviews
    BY DEF ReviewInv
  <1> QED BY <1>4, <1>5, <1>6, <1>7, CallMoves DEF Mine

LEMMA EndPageKeeps ==
  ASSUME ReviewInv, NEW q \in Reviewers, EndPage(q)
  PROVE  ReviewInv'
  <1>1. PICK r : r = rev[q]
    OBVIOUS
  <1>2. PICK w \in {"reported", "select"} : w = IF LastPage(r) THEN "reported" ELSE "select"
    OBVIOUS
  <1>3. PICK R : R = [r EXCEPT !.at = w]
    OBVIOUS
  <1>4. CallInv(r, found[q], spent[q], DOMAIN reviews) /\ r.at = "review" /\ r.pending = {}
    BY <1>1 DEF ReviewInv, EndPage
  <1>5. w = "reported" /\ ~r.exhausted => AllPassed(r.work, r.cursor)
    BY <1>2, <1>4 DEF LastPage, CallInv, CallEnds
  <1>6. CallInv(R, found[q], spent[q], DOMAIN reviews)
    BY <1>3, <1>4, <1>5, Moves
  <1>7. Mine(q, R, found[q], spent[q])
    BY <1>1, <1>2, <1>3 DEF EndPage, ReviewInv, Mine
  <1>8. UNCHANGED <<tier, reviews, reviewCalls, rescores, setting>>
    BY DEF EndPage, enrichVars
  <1>9. /\ \A key \in DOMAIN reviews : reviews[key] \in Outcomes
        /\ reviewCalls \in 0 .. setting.reviews
    BY DEF ReviewInv
  <1> QED BY <1>6, <1>7, <1>8, <1>9, CallMoves DEF Mine

LEMMA DeathKeeps ==
  ASSUME ReviewInv, NEW q \in Reviewers, ReviewerDies(q)
  PROVE  ReviewInv'
  <1>1. CallInv(NoCall, found[q], spent[q], DOMAIN reviews)
    BY NoCallHolds
  <1>2. Mine(q, NoCall, found[q], spent[q])
    BY DEF ReviewerDies, ReviewInv, Mine
  <1>3. UNCHANGED <<tier, reviews, reviewCalls, rescores, setting>>
    BY DEF ReviewerDies
  <1>4. /\ \A key \in DOMAIN reviews : reviews[key] \in Outcomes
        /\ reviewCalls \in 0 .. setting.reviews
    BY DEF ReviewInv
  <1> QED BY <1>1, <1>2, <1>3, <1>4, CallMoves DEF Mine

\* The enrichment beside the reviewers moves none of their state, and a call
\* keeps the setting it began with.
LEMMA SettingStays ==
  ASSUME FetchInv, [ReviewNext]_allVars
  PROVE  setting' = setting
  <1>1. ASSUME NEW p \in Passes, FetchStep(p) PROVE setting' = setting
    <2>1. FetchShape /\ GateCount(p) /\ TallyCount(p)
      BY DEF FetchInv
    <2> QED BY <1>1, <2>1, FetchStepKeeps DEF OwnStep
  <1>2. CASE EnrichNext
    BY <1>1, <1>2 DEF EnrichNext, Dies
  <1> QED BY <1>2, ReviewFrame DEF ReviewNext, ScoreMoves, allVars, enrichVars

LEMMA ReviewInvKept ==
  ASSUME ReviewInv, FetchInv, [ReviewNext]_allVars
  PROVE  ReviewInv'
  <1>1. ASSUME UNCHANGED reviewVars PROVE ReviewInv'
    BY <1>1, SettingStays DEF reviewVars, ReviewInv
  <1>2. ASSUME NEW q \in Reviewers, ReviewStep(q) PROVE ReviewInv'
    BY <1>2, StartKeeps, ReadKeeps, WeighKeeps, ReplyKeeps, DeferKeeps, EndPageKeeps, DeathKeeps
       DEF ReviewStep, FetchInv
  <1>3. ASSUME NEW v \in Versions, ScoreMoves(v) PROVE ReviewInv'
    <2>1. tier' \in [Versions -> Tiers]
      BY <1>3 DEF ScoreMoves, ReviewInv
    <2>2. tier' \in [Versions -> Nat]
      BY <2>1, ReviewAssumption
    <2>3. UNCHANGED <<reviews, rev, found, spent, reviewCalls, setting>> /\ rescores' = 1
      BY <1>3 DEF ScoreMoves, enrichVars
    <2> QED BY <2>1, <2>2, <2>3 DEF ReviewInv
  <1> QED BY <1>1, <1>2, <1>3 DEF ReviewNext, allVars

LEMMA ReviewInvSound == ReviewInv => ReviewsSound
  <1> SUFFICES ASSUME ReviewInv PROVE ReviewsSound
    OBVIOUS
  <1>1. ASSUME NEW q \in Reviewers
        PROVE  CallInv(rev[q], found[q], spent[q], DOMAIN reviews)
    BY DEF ReviewInv
  <1>2. ReviewTypeOK
    BY <1>1 DEF ReviewInv, ReviewTypeOK, CallInv, CallShape, ReviewPcs
  <1>3. ASSUME NEW q \in Reviewers, NEW r, r = rev[q], r.at = "reported"
        PROVE  /\ r.considered = r.eligible + r.skipped
               /\ r.eligible = r.cached + r.attempted + r.deferred
               /\ r.pending = {}
    <2>1. CallShape(r) /\ CallCounts(r)
      BY <1>1, <1>3 DEF CallInv
    <2>2. Unweighed(r) = 0 /\ r.pending = {}
      BY <1>3, <2>1 DEF CallCounts, Unweighed
    <2>3. Cardinality(r.pending) = 0
      BY <2>2, FS_EmptySet
    <2> QED BY <2>1, <2>2, <2>3 DEF CallShape, CallCounts
  <1>4. ReviewBalances
    BY <1>1, <1>3 DEF ReviewBalances, CallInv, CallCounts
  <1>5. NothingPassedOver
    <2>1. ASSUME NEW q \in Reviewers, NEW r, r = rev[q], r.at = "reported", ~r.exhausted
          PROVE  r.considered = Cardinality(r.work) /\ found[q] \subseteq DOMAIN reviews
      <3>1. CallInv(r, found[q], spent[q], DOMAIN reviews)
        BY <1>1, <2>1
      <3>2. Passed(r.work, r.cursor) = r.work
        BY <2>1, <3>1 DEF CallInv, CallEnds, AllPassed, Passed
      <3>3. r.considered = Cardinality(r.work)
        BY <3>1, <3>2 DEF CallInv, CallCounts
      <3>4. found[q] \subseteq DOMAIN reviews
        BY <1>3, <2>1, <3>1 DEF CallInv, CallFinds
      <3> QED BY <3>3, <3>4
    <2> QED BY <2>1 DEF NothingPassedOver
  <1>6. HighestTierFirst
    BY <1>1 DEF HighestTierFirst, CallInv, CallRanks
  <1> QED BY <1>2, <1>4, <1>5, <1>6 DEF ReviewsSound

\* A review call counts each posting of its work list once, passes none over,
\* leaves a row for every key it found eligible unless its budget ran out, and
\* spends that budget on the highest tiers of a page first, whatever other calls,
\* enrichment, rescoring, failing answers or a crash do in between (review_run).
THEOREM ReviewsHold == ReviewSpec => []ReviewsSound
  <1>1. EnrichInit /\ ReviewInit => ReviewInv
    BY ReviewStarts
  <1>2. ReviewInv /\ FetchInv /\ [ReviewNext]_allVars => ReviewInv'
    BY ReviewInvKept
  <1>3. ReviewInv => ReviewsSound
    BY ReviewInvSound
  <1> QED BY <1>1, <1>2, <1>3, FetchInvHolds, PTL DEF ReviewSpec
=============================================================================
