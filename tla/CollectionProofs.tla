---------------------------- MODULE CollectionProofs ---------------------------
(***************************************************************************)
(* The pace of a host and the count of its gate, for any number of calls,  *)
(* places and cancels and any interval; and the fetch that works through a *)
(* child process, for any task, any answer, any pipes and any ending.      *)
(***************************************************************************)
EXTENDS PacedHost, JobSpyChild, FiniteSetTheorems, SequenceTheorems, TLAPS

Inside == {c \in Calls : where[c] \in {"sleeping", "sending"}}

Wheres == {"outside", "parked", "sleeping", "sending", "answered", "cancelled"}

\* What each variable holds.
TypeInv ==
    /\ clock \in Nat /\ nextAt \in Nat /\ free \in Nat
    /\ slot \in [Calls -> Nat] /\ where \in [Calls -> Wheres]
    /\ sent \subseteq Calls
    /\ \A c \in sent : where[c] \in {"sending", "answered", "cancelled"}

\* The queue holds the parked calls, each once.
QueueInv ==
    /\ queue \in Seq(Calls)
    /\ \A n \in 1..Len(queue) : where[queue[n]] = "parked"
    /\ \A c \in Calls : where[c] = "parked" => \E n \in 1..Len(queue) : queue[n] = c
    /\ \A m, n \in 1..Len(queue) : queue[m] = queue[n] => m = n

\* The schedule is ahead of every slot that was claimed, and slots keep the interval.
ScheduleInv ==
    /\ \A c \in Claimed : slot[c] + Interval <= nextAt
    /\ RateHeld

PacedInv == TypeInv /\ QueueInv /\ ScheduleInv /\ GateBalances

-----------------------------------------------------------------------------
LEMMA WithoutFacts ==
    ASSUME NEW s \in Seq(Calls), NEW n \in 1..Len(s)
    PROVE  /\ Without(s, n) \in Seq(Calls)
           /\ Len(Without(s, n)) = Len(s) - 1
           /\ \A i \in 1..(Len(s) - 1) : Without(s, n)[i] = IF i < n THEN s[i] ELSE s[i + 1]
<1> DEFINE a == SubSeq(s, 1, n - 1)
           b == SubSeq(s, n + 1, Len(s))
<1>1. a \in Seq(Calls) /\ Len(a) = n - 1 /\ \A i \in 1..(n - 1) : a[i] = s[i]
  OBVIOUS
<1>2. b \in Seq(Calls) /\ Len(b) = Len(s) - n /\ \A i \in 1..(Len(s) - n) : b[i] = s[i + n]
  OBVIOUS
<1>3. Without(s, n) = a \o b
  BY DEF Without
<1> HIDE DEF a, b
<1>4. /\ a \o b \in Seq(Calls) /\ Len(a \o b) = Len(a) + Len(b)
      /\ \A i \in 1..(Len(a) + Len(b)) : (a \o b)[i] = IF i <= Len(a) THEN a[i] ELSE b[i - Len(a)]
  BY <1>1, <1>2, ConcatProperties
<1>5. Len(s) \in Nat /\ n \in Nat /\ n <= Len(s)
  OBVIOUS
<1>6. ASSUME NEW i \in 1..(Len(s) - 1) PROVE Without(s, n)[i] = IF i < n THEN s[i] ELSE s[i + 1]
  <2>1. CASE i < n
    BY <1>1, <1>2, <1>3, <1>4, <1>5, <2>1
  <2>2. CASE ~(i < n)
    <3>1. i - (n - 1) \in 1..(Len(s) - n) /\ i - (n - 1) + n = i + 1
      BY <1>5, <2>2
    <3>2. b[i - (n - 1)] = s[i + 1]
      BY <1>2, <3>1
    <3> QED BY <1>1, <1>2, <1>3, <1>4, <1>5, <2>2, <3>2
  <2> QED BY <2>1, <2>2
<1> QED BY <1>1, <1>2, <1>3, <1>4, <1>5, <1>6

LEMMA InitInv == PacedInit => PacedInv
<1> SUFFICES ASSUME PacedInit PROVE PacedInv
  OBVIOUS
<1>1. TypeInv
  BY PacedAssumption DEF PacedInit, TypeInv, Wheres
<1>2. QueueInv
  BY DEF PacedInit, QueueInv
<1>3. ScheduleInv
  BY DEF PacedInit, ScheduleInv, RateHeld, Claimed
<1>4. GateBalances
  <2>1. Inside = {}
    BY DEF PacedInit, Inside
  <2> QED BY <2>1, FS_EmptySet, PacedAssumption DEF PacedInit, GateBalances, Inside
<1> QED BY <1>1, <1>2, <1>3, <1>4 DEF PacedInv

\* A step of the types.
LEMMA TypeStep ==
    ASSUME PacedInv, [PacedNext]_pacedVars
    PROVE  TypeInv'
<1> USE PacedAssumption DEF PacedInv, TypeInv
<1>1. CASE Admit
  <2>1. Head(queue) \in Calls /\ where[Head(queue)] = "parked"
    BY <1>1 DEF Admit, QueueInv
  <2> QED BY <1>1, <2>1 DEF Admit, Reserve, Wheres
<1>2. CASE Tick
  BY <1>2 DEF Tick
<1>3. ASSUME NEW c \in Calls, Arrive(c) \/ Send(c) \/ Answered(c) \/ CancelCall(c) PROVE TypeInv'
  BY <1>3 DEF Arrive, Send, Answered, CancelCall, Wheres
<1>4. CASE UNCHANGED pacedVars
  BY <1>4 DEF pacedVars
<1> QED BY <1>1, <1>2, <1>3, <1>4 DEF PacedNext

\* Arrivals join at the end, the first is admitted, and a waiter that gives up leaves.
LEMMA QueueStep ==
    ASSUME PacedInv, [PacedNext]_pacedVars
    PROVE  QueueInv'
<1> USE DEF PacedInv, TypeInv
<1>1. CASE Admit
  <2>1. Head(queue) \in Calls /\ Head(queue) = queue[1] /\ Len(queue) \in Nat \ {0}
    BY <1>1 DEF Admit, QueueInv
  <2>2. /\ queue' \in Seq(Calls) /\ Len(queue') = Len(queue) - 1
        /\ \A n \in 1..(Len(queue) - 1) : queue'[n] = queue[n + 1]
    BY <1>1, <2>1 DEF Admit, QueueInv
  <2>3. where' = [where EXCEPT ![queue[1]] = "sleeping"]
    BY <1>1, <2>1 DEF Admit
  <2>4. \A c \in Calls : where'[c] = "parked" => \E n \in 1..Len(queue') : queue'[n] = c
    <3> SUFFICES ASSUME NEW c \in Calls, where'[c] = "parked" PROVE \E n \in 1..Len(queue') : queue'[n] = c
      OBVIOUS
    <3>1. c # queue[1] /\ where[c] = "parked"
      BY <2>1, <2>3
    <3>2. PICK n \in 1..Len(queue) : queue[n] = c
      BY <3>1 DEF QueueInv
    <3>3. n - 1 \in 1..(Len(queue) - 1) /\ queue'[n - 1] = c
      BY <2>1, <2>2, <3>1, <3>2, SMTT(60)
    <3> QED BY <2>2, <3>3
  <2>5. ASSUME NEW n \in 1..Len(queue') PROVE where'[queue'[n]] = "parked"
    <3>1. n + 1 \in 1..Len(queue) /\ queue'[n] = queue[n + 1] /\ n + 1 # 1
      BY <2>1, <2>2, SMTT(60)
    <3>2. where[queue[n + 1]] = "parked" /\ queue[n + 1] # queue[1] /\ queue[n + 1] \in Calls
      BY <2>1, <3>1 DEF QueueInv
    <3> QED BY <2>3, <3>1, <3>2
  <2>6. ASSUME NEW m \in 1..Len(queue'), NEW n \in 1..Len(queue'), queue'[m] = queue'[n] PROVE m = n
    <3>0. m \in 1..(Len(queue) - 1) /\ n \in 1..(Len(queue) - 1)
      BY <2>2
    <3>1. m + 1 \in 1..Len(queue) /\ n + 1 \in 1..Len(queue) /\ queue[m + 1] = queue[n + 1]
      BY <2>1, <2>2, <2>6, <3>0
    <3>2. m + 1 = n + 1
      BY <3>1 DEF QueueInv
    <3> QED BY <3>2
  <2> QED BY <2>2, <2>4, <2>5, <2>6 DEF QueueInv
<1>2. CASE Tick
  BY <1>2 DEF Tick, QueueInv
<1>3. ASSUME NEW c \in Calls, Arrive(c) PROVE QueueInv'
  <2>1. /\ queue' \in Seq(Calls) /\ Len(queue') = Len(queue) + 1 /\ Len(queue) \in Nat
        /\ \A n \in 1..Len(queue) : queue'[n] = queue[n]
        /\ queue'[Len(queue) + 1] = c
    BY <1>3 DEF Arrive, QueueInv
  <2>2. where' = [where EXCEPT ![c] = "parked"] /\ where[c] = "outside"
    BY <1>3 DEF Arrive
  <2>3. \A n \in 1..Len(queue) : queue[n] # c
    BY <2>2 DEF QueueInv
  <2>4. \A n \in 1..Len(queue') : where'[queue'[n]] = "parked"
    BY <2>1, <2>2, <2>3, SMTT(60) DEF QueueInv
  <2>5. \A d \in Calls : where'[d] = "parked" => \E n \in 1..Len(queue') : queue'[n] = d
    <3> SUFFICES ASSUME NEW d \in Calls, where'[d] = "parked" PROVE \E n \in 1..Len(queue') : queue'[n] = d
      OBVIOUS
    <3>1. CASE d = c
      BY <2>1, <3>1
    <3>2. CASE d # c
      <4>1. PICK n \in 1..Len(queue) : queue[n] = d
        BY <2>2, <3>2 DEF QueueInv
      <4> QED BY <2>1, <4>1
    <3> QED BY <3>1, <3>2
  <2>6. ASSUME NEW m \in 1..Len(queue'), NEW n \in 1..Len(queue'), queue'[m] = queue'[n] PROVE m = n
    <3>1. CASE m \in 1..Len(queue) /\ n \in 1..Len(queue)
      <4>1. queue[m] = queue[n]
        BY <2>1, <2>6, <3>1
      <4> QED BY <3>1, <4>1 DEF QueueInv
    <3>2. CASE ~(m \in 1..Len(queue) /\ n \in 1..Len(queue))
      <4>1. m = Len(queue) + 1 \/ n = Len(queue) + 1
        BY <2>1, <3>2
      <4>2. queue'[m] = c /\ queue'[n] = c
        BY <2>1, <2>6, <4>1
      <4>3. m \notin 1..Len(queue) /\ n \notin 1..Len(queue)
        BY <2>1, <2>3, <4>2
      <4> QED BY <2>1, <4>3
    <3> QED BY <3>1, <3>2
  <2> QED BY <2>1, <2>4, <2>5, <2>6 DEF QueueInv
<1>4. ASSUME NEW c \in Calls, Send(c) \/ Answered(c) PROVE QueueInv'
  <2>1. queue' = queue /\ where[c] # "parked" /\ \E w \in Wheres \ {"parked"} : where' = [where EXCEPT ![c] = w]
    BY <1>4 DEF Send, Answered, Wheres
  <2> QED BY <2>1 DEF QueueInv
<1>5. ASSUME NEW c \in Calls, CancelCall(c) PROVE QueueInv'
  <2>1. where' = [where EXCEPT ![c] = "cancelled"]
    BY <1>5 DEF CancelCall
  <2>2. CASE where[c] # "parked"
    <3>1. queue' = queue
      BY <1>5, <2>2 DEF CancelCall, Departs
    <3> QED BY <2>1, <2>2, <3>1 DEF QueueInv
  <2>3. CASE where[c] = "parked"
    <3>1. PICK k \in 1..Len(queue) : queue[k] = c /\ queue' = Without(queue, k)
      BY <1>5, <2>3 DEF CancelCall, Departs
    <3>2. queue \in Seq(Calls) /\ Len(queue) \in Nat
      BY DEF QueueInv
    <3>3. /\ queue' \in Seq(Calls) /\ Len(queue') = Len(queue) - 1
          /\ \A i \in 1..(Len(queue) - 1) : queue'[i] = IF i < k THEN queue[i] ELSE queue[i + 1]
      BY <3>1, <3>2, WithoutFacts
    <3>4. ASSUME NEW n \in 1..Len(queue')
          PROVE  queue'[n] # c /\ queue'[n] \in Calls /\ where[queue'[n]] = "parked"
      <4>1. PICK i \in 1..Len(queue) : i # k /\ queue'[n] = queue[i]
        <5>0. n \in 1..(Len(queue) - 1)
          BY <3>3
        <5>1. CASE n < k
          <6>1. n \in 1..Len(queue) /\ n # k
            BY <3>2, <5>0, <5>1
          <6>2. queue'[n] = queue[n]
            BY <3>3, <5>0, <5>1
          <6> QED BY <6>1, <6>2
        <5>2. CASE ~(n < k)
          <6>1. n + 1 \in 1..Len(queue) /\ n + 1 # k
            BY <3>2, <5>0, <5>2
          <6>2. queue'[n] = queue[n + 1]
            BY <3>3, <5>0, <5>2
          <6> QED BY <6>1, <6>2
        <5> QED BY <5>1, <5>2
      <4>2. queue[i] # queue[k] /\ queue[i] \in Calls /\ where[queue[i]] = "parked"
        BY <4>1 DEF QueueInv
      <4> QED BY <3>1, <4>1, <4>2
    <3>5. \A d \in Calls : where'[d] = "parked" => \E n \in 1..Len(queue') : queue'[n] = d
      <4> SUFFICES ASSUME NEW d \in Calls, where'[d] = "parked" PROVE \E n \in 1..Len(queue') : queue'[n] = d
        OBVIOUS
      <4>1. d # c /\ where[d] = "parked"
        BY <2>1
      <4>2. PICK n \in 1..Len(queue) : queue[n] = d
        BY <4>1 DEF QueueInv
      <4>3. n # k
        BY <3>1, <4>1, <4>2
      <4>4. CASE n < k
        <5>1. n \in 1..(Len(queue) - 1) /\ queue'[n] = d
          BY <3>2, <3>3, <4>2, <4>4, SMTT(60)
        <5> QED BY <3>3, <5>1
      <4>5. CASE n > k
        <5>1. PICK m \in 1..(Len(queue) - 1) : m + 1 = n /\ ~(m < k)
          <6>1. n - 1 \in 1..(Len(queue) - 1) /\ (n - 1) + 1 = n /\ ~(n - 1 < k)
            BY <3>2, <4>2, <4>5
          <6> QED BY <6>1
        <5>2. queue'[m] = queue[m + 1]
          BY <3>3, <5>1
        <5>3. queue'[m] = d
          BY <4>2, <5>1, <5>2
        <5>4. m \in 1..Len(queue')
          BY <3>3, <5>1
        <5> QED BY <5>3, <5>4
      <4>6. n < k \/ n > k
        BY <3>2, <4>3
      <4> QED BY <4>4, <4>5, <4>6
    <3>6. ASSUME NEW m \in 1..Len(queue'), NEW n \in 1..Len(queue'), queue'[m] = queue'[n] PROVE m = n
      <4>0. m \in 1..(Len(queue) - 1) /\ n \in 1..(Len(queue) - 1)
        BY <3>3
      <4> DEFINE m0 == IF m < k THEN m ELSE m + 1
                 n0 == IF n < k THEN n ELSE n + 1
      <4>1. m0 \in 1..Len(queue) /\ n0 \in 1..Len(queue)
        BY <3>2, <4>0, SMTT(60)
      <4>2. queue'[m] = queue[m0] /\ queue'[n] = queue[n0]
        BY <3>3, <4>0
      <4>3. m0 = n0
        <5> HIDE DEF m0, n0
        <5>1. queue[m0] = queue[n0]
          BY <3>6, <4>2
        <5> QED BY <4>1, <5>1 DEF QueueInv
      <4> QED BY <3>2, <4>0, <4>3, SMTT(60)
    <3>7. \A n \in 1..Len(queue') : where'[queue'[n]] = "parked"
      BY <2>1, <3>3, <3>4
    <3> QED BY <3>3, <3>5, <3>6, <3>7 DEF QueueInv
  <2> QED BY <2>2, <2>3
<1>6. CASE UNCHANGED pacedVars
  BY <1>6 DEF pacedVars, QueueInv
<1> QED BY <1>1, <1>2, <1>3, <1>4, <1>5, <1>6 DEF PacedNext

\* A claim takes the instant the schedule is at, and moves the schedule on.
LEMMA ScheduleStep ==
    ASSUME PacedInv, [PacedNext]_pacedVars
    PROVE  ScheduleInv'
<1> USE PacedAssumption DEF PacedInv, TypeInv
<1>1. CASE Admit
  <2> DEFINE c == Head(queue)
             at == IF clock > nextAt THEN clock ELSE nextAt
  <2>1. c \in Calls /\ where[c] = "parked"
    BY <1>1 DEF Admit, QueueInv
  <2>2. c \notin sent
    BY <2>1
  <2>3. /\ slot' = [slot EXCEPT ![c] = at] /\ nextAt' = at + Interval
        /\ where' = [where EXCEPT ![c] = "sleeping"] /\ sent' = sent /\ clock' = clock
    BY <1>1 DEF Admit, Reserve
  <2>4. at \in Nat /\ at >= nextAt
    OBVIOUS
  <2> HIDE DEF c, at
  <2>5. Claimed' = Claimed \cup {c} /\ c \notin Claimed
    BY <2>1, <2>2, <2>3 DEF Claimed
  <2>6. \A d \in Claimed : d \in Calls /\ slot'[d] = slot[d] /\ slot[d] \in Nat
    BY <2>3, <2>5 DEF Claimed
  <2>7. slot'[c] = at
    BY <2>1, <2>3
  <2>8. \A d \in Claimed' : slot'[d] + Interval <= nextAt'
    BY <2>3, <2>4, <2>5, <2>6, <2>7 DEF ScheduleInv
  <2>9. \A d, e \in Claimed' : d # e => slot'[d] + Interval <= slot'[e] \/ slot'[e] + Interval <= slot'[d]
    BY <2>3, <2>4, <2>5, <2>6, <2>7 DEF ScheduleInv, RateHeld
  <2>10. \A d \in sent' : slot'[d] <= clock'
    BY <2>2, <2>3 DEF ScheduleInv, RateHeld
  <2> QED BY <2>8, <2>9, <2>10 DEF ScheduleInv, RateHeld
<1>2. CASE Tick
  BY <1>2 DEF Tick, ScheduleInv, RateHeld, Claimed
<1>3. ASSUME NEW c \in Calls, Arrive(c) \/ Answered(c) \/ CancelCall(c) PROVE ScheduleInv'
  <2>1. Claimed' \subseteq Claimed /\ UNCHANGED <<clock, nextAt, slot, sent>>
    BY <1>3 DEF Arrive, Answered, CancelCall, Claimed
  <2> QED BY <2>1 DEF ScheduleInv, RateHeld
<1>4. ASSUME NEW c \in Calls, Send(c) PROVE ScheduleInv'
  <2>1. Claimed' \subseteq Claimed /\ UNCHANGED <<clock, nextAt, slot>> /\ sent' = sent \cup {c} /\ slot[c] <= clock
    BY <1>4 DEF Send, Claimed
  <2> QED BY <2>1 DEF ScheduleInv, RateHeld
<1>5. CASE UNCHANGED pacedVars
  BY <1>5 DEF pacedVars, ScheduleInv, RateHeld, Claimed
<1> QED BY <1>1, <1>2, <1>3, <1>4, <1>5 DEF PacedNext

\* A call that goes in takes a place, a call that comes out gives it back.
LEMMA GateStep ==
    ASSUME PacedInv, [PacedNext]_pacedVars
    PROVE  GateBalances'
<1> USE PacedAssumption DEF PacedInv, TypeInv
<1>0. IsFiniteSet(Inside) /\ free + Cardinality(Inside) = Places /\ Cardinality(Inside) \in Nat
  <2>1. IsFiniteSet(Inside)
    BY FS_Subset DEF Inside
  <2> QED BY <2>1, FS_CardinalityType DEF GateBalances, Inside
<1> SUFFICES free' + Cardinality(Inside') = Places
  BY DEF GateBalances, Inside
<1>1. CASE Admit
  <2> DEFINE c == Head(queue)
  <2>1. c \in Calls /\ where[c] = "parked"
    BY <1>1 DEF Admit, QueueInv
  <2>2. where' = [where EXCEPT ![c] = "sleeping"] /\ free' = free - 1
    BY <1>1 DEF Admit
  <2> HIDE DEF c
  <2>3. Inside' = Inside \cup {c} /\ c \notin Inside
    BY <2>1, <2>2 DEF Inside
  <2>4. Cardinality(Inside') = Cardinality(Inside) + 1
    BY <1>0, <2>3, FS_AddElement
  <2>5. free \in Int /\ Places \in Int
    OBVIOUS
  <2> QED BY <1>0, <2>2, <2>4, <2>5
<1>2. ASSUME NEW c \in Calls, Answered(c) \/ (CancelCall(c) /\ where[c] # "parked")
      PROVE  free' + Cardinality(Inside') = Places
  <2>1. where[c] \in {"sleeping", "sending"} /\ where'[c] \in {"answered", "cancelled"} /\ free' = free + 1
        /\ \A d \in Calls : d # c => where'[d] = where[d]
    BY <1>2 DEF Answered, CancelCall
  <2>2. Inside' = Inside \ {c} /\ c \in Inside
    BY <2>1 DEF Inside
  <2>3. Cardinality(Inside') = Cardinality(Inside) - 1
    BY <1>0, <2>2, FS_RemoveElement
  <2>4. free \in Int /\ Places \in Int
    OBVIOUS
  <2> QED BY <1>0, <2>1, <2>3, <2>4
<1>3. ASSUME NEW c \in Calls, Arrive(c) \/ Send(c) \/ (CancelCall(c) /\ where[c] = "parked")
      PROVE  free' + Cardinality(Inside') = Places
  <2>1. Inside' = Inside /\ free' = free
    BY <1>3 DEF Arrive, Send, CancelCall, Inside
  <2> QED BY <1>0, <2>1
<1>4. CASE Tick \/ UNCHANGED pacedVars
  BY <1>0, <1>4 DEF Tick, pacedVars, Inside
<1> QED BY <1>1, <1>2, <1>3, <1>4 DEF PacedNext

LEMMA InvSound == PacedInv => PacingSound
<1> SUFFICES ASSUME PacedInv PROVE PacingSound
  OBVIOUS
<1> USE PacedAssumption DEF PacedInv, TypeInv
<1>1. free \in 0..Places
  <2>1. IsFiniteSet(Inside)
    BY FS_Subset DEF Inside
  <2>2. Cardinality(Inside) \in Nat
    BY <2>1, FS_CardinalityType
  <2>3. free + Cardinality(Inside) = Places
    BY DEF GateBalances, Inside
  <2>4. free \in Int /\ Places \in Int
    OBVIOUS
  <2> QED BY <2>2, <2>3, <2>4
<1>2. {queue[n] : n \in 1..Len(queue)} = {c \in Calls : where[c] = "parked"}
  BY DEF QueueInv
<1> QED BY <1>1, <1>2 DEF PacingSound, PacedTypeOK, QueueInv, ScheduleInv

\* The host is called no faster than its interval allows and no place at its gate is lost or
\* given twice, whichever calls arrive, wait, are cancelled or wake late.
THEOREM PaceIsKept == PacedSpec => []PacingSound
<1>1. PacedInv /\ [PacedNext]_pacedVars => PacedInv'
  BY TypeStep, QueueStep, ScheduleStep, GateStep DEF PacedInv
<1> QED BY InitInv, <1>1, InvSound, PTL DEF PacedSpec

-----------------------------------------------------------------------------
(* The fetch through a child process *)

\* What may stand on a line of stdout.
Lines == [kind : {"record"}, what : Nat \X Nat] \cup [kind : {"progress"}, what : Nat]
             \cup [kind : {"error", "torn"}, what : {"permanent", "transient", "signal"}]

\* What is known of the child.
Children == [is : {"absent", "reading", "scraping", "emitting", "exited"}, query : Nat, row : Nat,
             code : {"none", "ok", "permanent", "transient", "signal"}]

\* Where the two processes can be at once, and what an ending says.
ControlInv ==
    /\ errand \in Errands /\ child \in Children /\ stdout \in Seq(Lines)
    /\ ChildTypeOK /\ drain \in {"absent", "running", "broken", "done"}
    /\ reported \in {"none", "permanent", "transient"}
    /\ child.is = "reading" => errand.from < Queued
    /\ child.is \in {"scraping", "emitting"} => child.query \in errand.from + 1 .. Queued
    /\ child.is = "emitting" => child.row \in 1 .. Len(errand.rows[child.query]) + 1
    /\ fetch = "starting" => child.is = "absent"
    /\ child.is = "absent" => fetch \in {"starting", "ended"} /\ drain = "absent" /\ stdout = <<>>
    /\ fetch \in {"closing", "ended"} => ~Alive
    /\ fetch = "ended" => drain # "running"
    /\ Alive => drain \in {"running", "broken"}
    /\ drain = "broken" => errand.overlong
    /\ fetch = "awaiting" /\ reported = "none" => stdout = <<>> /\ child.is = "exited"

\* A row has arrived when the parent has read it, or its line is among the first i waiting.
Arrived(R, i, p) ==
    p \in R \/ \E h \in 1 .. i : stdout[h].kind = "record" /\ stdout[h].what = p

\* A line says what is so by the lines ahead of it: the next row, or a query walked to its end.
LineSound(R, i) ==
    /\ stdout[i].kind = "record" =>
         /\ stdout[i].what \in Walked /\ ~Arrived(R, i - 1, stdout[i].what)
         /\ \A o \in Walked : Earlier(o, stdout[i].what) => Arrived(R, i - 1, o)
    /\ stdout[i].kind = "progress" =>
         /\ stdout[i].what \in 1 .. Queued
         /\ \A o \in Walked : o[1] =< stdout[i].what => Arrived(R, i - 1, o)
    /\ stdout[i].kind = "error" => stdout[i].what \in {"permanent", "transient"}

PipeInv(R) == \A i \in 1 .. Len(stdout) : LineSound(R, i)

\* What the child has written, by where it is.
Sent(p) ==
    \/ child.is = "scraping" /\ p[1] < child.query
    \/ child.is = "emitting" /\ Earlier(p, <<child.query, child.row>>)

FrontInv(R) ==
    /\ child.is # "exited" => \A p \in Walked : Arrived(R, Len(stdout), p) <=> Sent(p)
    /\ child.is = "exited" /\ child.code = "ok" => \A p \in Walked : Arrived(R, Len(stdout), p)

\* The titles the filter may have to count.
Titles == {At(p).title : p \in Walked}

\* The rows read are the first ones, and the filter has counted them.
TakenInv(R) ==
    /\ IsFiniteSet(R)
    /\ \A p \in R : \A o \in Walked : Earlier(o, p) => o \in R
    /\ \A p \in Walked : p[1] =< marked => p \in R
    /\ keep.urls = {At(p).url : p \in R}
    /\ \A t \in Titles : Counted(t) = Cardinality({o \in Firsts \cap R : At(o).title = t})
    /\ delivered = Due(R)

\* A fetch that says it succeeded yielded what was due.
VerdictInv ==
    verdict = "succeeded" =>
        /\ fetch \in {"stopping", "closing", "ended"} /\ ~Alive
        /\ delivered = Due(Walked) /\ (child.is = "exited" => child.code = "ok")

\* Some first rows of the walk have been read, and the rest is in the pipe or to come.
RowsInv == \E R \in SUBSET Walked : TakenInv(R) /\ PipeInv(R) /\ FrontInv(R)

ChildInv == ControlInv /\ RowsInv /\ VerdictInv

-----------------------------------------------------------------------------
(* The two processes *)

\* A task has a length, and so has every answer in it.
LEMMA Asked ==
  ASSUME errand \in Errands
  PROVE  /\ Queued \in Nat /\ errand.from \in Nat /\ errand.cap \in Nat /\ errand.overlong \in BOOLEAN
         /\ \A q \in 1 .. Queued : Len(errand.rows[q]) \in Nat /\ DOMAIN errand.rows[q] = 1 .. Len(errand.rows[q])
<1>1. errand.rows \in Seq(Seq([url : STRING, title : STRING])) /\ errand.from \in Nat /\ errand.cap \in Nat
      /\ errand.overlong \in BOOLEAN
  BY ChildAssumption
<1>2. Queued \in Nat /\ \A q \in 1 .. Queued : errand.rows[q] \in Seq([url : STRING, title : STRING])
  BY <1>1, LenProperties, ElementOfSeq DEF Queued
<1> QED BY <1>1, <1>2, LenProperties

\* A line said is the last one in the pipe, and fits.
LEMMA SayTyped ==
  ASSUME NEW line \in Lines, stdout \in Seq(Lines), Say(line)
  PROVE  /\ stdout' \in Seq(Lines) /\ Len(stdout') = Len(stdout) + 1 /\ Len(stdout') =< PipeLines
         /\ stdout'[Len(stdout) + 1] = line /\ \A i \in 1 .. Len(stdout) : stdout'[i] = stdout[i]
<1>1. stdout' = Append(stdout, line) /\ Len(stdout) < PipeLines
  BY DEF Say, Fits
<1>2. Len(stdout) \in Nat /\ PipeLines \in Nat
  BY ChildAssumption, LenProperties
<1> QED BY <1>1, <1>2, AppendProperties

\* The two processes start apart.
LEMMA ControlStart == ASSUME ChildInit PROVE ControlInv
<1>1. errand \in Errands /\ stdout = <<>>
  BY DEF ChildInit
<1>2. Queued \in Nat /\ PipeLines \in Nat /\ <<>> \in Seq(Lines) /\ Len(<<>>) = 0
  BY <1>1, Asked, ChildAssumption, EmptySeq
<1> QED BY <1>1, <1>2 DEF ChildInit, ControlInv, ChildTypeOK, Children, Alive, Queued

\* A step of the parent leaves both processes where they can be.
LEMMA ControlByParent ==
  ASSUME ControlInv, Spawn \/ Feed \/ EndOfOutput \/ Reap \/ Interrupt \/ Stop \/ Terminated \/ Close
  PROVE  ControlInv'
<1>1. UNCHANGED <<errand, stdout, stderr, reported, marked>> /\ Queued' = Queued
  BY DEF Spawn, Feed, EndOfOutput, Reap, Interrupt, Stop, Terminated, Close, pipes, reader, Queued
<1>2. Queued \in Nat /\ errand.from \in Nat
  BY Asked DEF ControlInv
<1>3. CASE Spawn
  BY <1>1, <1>2, <1>3 DEF Spawn, ControlInv, ChildTypeOK, Children, Alive
<1>4. CASE Feed
  BY <1>1, <1>4 DEF Feed, ControlInv, ChildTypeOK, Alive
<1>5. CASE EndOfOutput
  BY <1>1, <1>5 DEF EndOfOutput, ControlInv, ChildTypeOK, Alive, pipes
<1>6. CASE Reap
  BY <1>1, <1>6 DEF Reap, ControlInv, ChildTypeOK, Alive, pipes
<1>7. CASE Interrupt
  BY <1>1, <1>7 DEF Interrupt, ControlInv, ChildTypeOK, Alive, pipes
<1>8. CASE Stop
  BY <1>1, <1>8 DEF Stop, ControlInv, ChildTypeOK, Alive, pipes
<1>9. CASE Terminated
  BY <1>1, <1>9 DEF Terminated, ControlInv, ChildTypeOK, Alive, pipes, Exit, Children
<1>10. CASE Close
  BY <1>1, <1>10 DEF Close, ControlInv, ChildTypeOK, Alive
<1> QED BY <1>3, <1>4, <1>5, <1>6, <1>7, <1>8, <1>9, <1>10

\* An exit leaves its code.
LEMMA Exits ==
  ASSUME NEW code \in {"ok", "permanent", "transient", "signal"}, child \in Children, Exit(code)
  PROVE  child' \in Children /\ child'.is = "exited" /\ child'.code = code
BY DEF Exit, Children

\* The child turns to a query.
LEMMA Scrapes ==
  ASSUME NEW q \in Nat, child \in Children, child' = [child EXCEPT !.is = "scraping", !.query = q]
  PROVE  child' \in Children /\ child'.is = "scraping" /\ child'.query = q
BY DEF Children

\* A step of a live child that stays alive or exits keeps the control of both.
LEMMA ControlByStep ==
  ASSUME ControlInv, Alive, child.is # "absent", UNCHANGED <<errand, fetch, stderr, drain, reported, marked>>,
         stdout' \in Seq(Lines), Len(stdout') =< PipeLines,
         child' \in Children, child'.is \in {"scraping", "emitting", "exited"},
         child'.is \in {"scraping", "emitting"} => child'.query \in errand.from + 1 .. Queued,
         child'.is = "emitting" => child'.row \in 1 .. Len(errand.rows[child'.query]) + 1
  PROVE  ControlInv'
BY DEF ControlInv, ChildTypeOK, Alive, Queued

\* A step of the child leaves both processes where they can be.
LEMMA ControlByChild ==
  ASSUME ControlInv, ReadSpec \/ Scrape \/ Emit \/ Progress \/ Logs \/ Killed \/ Drain
  PROVE  ControlInv'
<1>1. UNCHANGED <<errand, fetch, reported, marked>> /\ Queued' = Queued
  BY DEF ReadSpec, Scrape, Emit, Progress, Logs, Killed, Drain, Quiet, Queued
<1>2. /\ Queued \in Nat /\ errand.from \in Nat /\ child.query \in Nat /\ child.row \in Nat
      /\ child.is \in {"scraping", "emitting"} => Len(errand.rows[child.query]) \in Nat
  BY Asked DEF ControlInv, Children
<1>0. /\ child \in Children
      /\ child.is = "reading" => errand.from < Queued
      /\ child.is \in {"scraping", "emitting"} => child.query \in errand.from + 1 .. Queued
  BY DEF ControlInv
<1>3. CASE ReadSpec
  <2> DEFINE line == [kind |-> "error", what |-> "permanent"]
  <2>1. line \in Lines
    BY DEF Lines
  <2>2. UNCHANGED stdout \/ Say(line)
    BY <1>3 DEF ReadSpec
  <2>3. stdout' \in Seq(Lines) /\ Len(stdout') =< PipeLines
    BY <2>1, <2>2, SayTyped DEF ControlInv, ChildTypeOK
  <2>4. /\ child' \in Children /\ child'.is \in {"scraping", "emitting", "exited"}
        /\ child'.is \in {"scraping", "emitting"} => child'.query \in errand.from + 1 .. Queued
        /\ child'.is = "emitting" => child'.row \in 1 .. Len(errand.rows[child'.query]) + 1
    <3>1. CASE Exit("permanent")
      BY <3>1, Exits DEF ControlInv
    <3>2. CASE child' = [child EXCEPT !.is = "scraping", !.query = errand.from + 1]
      <4>1. child.is = "reading"
        BY <1>3 DEF ReadSpec
      <4>2. child' \in Children /\ child'.is = "scraping" /\ child'.query = errand.from + 1
        <5>1. PICK q \in Nat : q = errand.from + 1
          BY <1>2
        <5> QED BY <1>0, <3>2, <5>1, Scrapes
      <4> QED BY <1>2, <1>0, <4>1, <4>2
    <3> QED BY <1>3, <3>1, <3>2 DEF ReadSpec
  <2>5. Alive /\ child.is # "absent" /\ UNCHANGED <<stderr, drain>>
    BY <1>3 DEF ReadSpec, Alive, ControlInv, Quiet
  <2> QED BY <1>1, <2>3, <2>4, <2>5, ControlByStep
<1>4. CASE Scrape
  <2> DEFINE line == [kind |-> "error", what |-> "transient"]
  <2>1. line \in Lines
    BY DEF Lines
  <2>2. UNCHANGED stdout \/ Say(line)
    BY <1>4 DEF Scrape
  <2>3. stdout' \in Seq(Lines) /\ Len(stdout') =< PipeLines
    BY <2>1, <2>2, SayTyped DEF ControlInv, ChildTypeOK
  <2>4. /\ child' \in Children /\ child'.is \in {"scraping", "emitting", "exited"}
        /\ child'.is \in {"scraping", "emitting"} => child'.query \in errand.from + 1 .. Queued
        /\ child'.is = "emitting" => child'.row \in 1 .. Len(errand.rows[child'.query]) + 1
    <3>1. CASE Exit("transient")
      BY <3>1, Exits DEF ControlInv
    <3>2. CASE child' = [child EXCEPT !.is = "emitting", !.row = 1]
      <4>1. child.is = "scraping"
        BY <1>4 DEF Scrape
      <4>2. child' \in Children /\ child'.is = "emitting" /\ child'.query = child.query /\ child'.row = 1
        BY <1>0, <3>2 DEF Children
      <4> QED BY <1>2, <1>0, <4>1, <4>2
    <3> QED BY <1>4, <3>1, <3>2 DEF Scrape
  <2>5. Alive /\ child.is # "absent" /\ UNCHANGED <<stderr, drain>>
    BY <1>4 DEF Scrape, Alive, ControlInv, Quiet
  <2> QED BY <1>1, <2>3, <2>4, <2>5, ControlByStep
<1>5. CASE Emit
  <2> DEFINE line == [kind |-> "record", what |-> <<child.query, child.row>>]
  <2>1. line \in Lines
    BY DEF Lines, ControlInv, Children
  <2>2. UNCHANGED stdout \/ Say(line)
    BY <1>5 DEF Emit
  <2>3. stdout' \in Seq(Lines) /\ Len(stdout') =< PipeLines
    BY <2>1, <2>2, SayTyped DEF ControlInv, ChildTypeOK
  <2>4. /\ child' \in Children /\ child'.is \in {"scraping", "emitting", "exited"}
        /\ child'.is \in {"scraping", "emitting"} => child'.query \in errand.from + 1 .. Queued
        /\ child'.is = "emitting" => child'.row \in 1 .. Len(errand.rows[child'.query]) + 1
    <3>1. /\ child.is = "emitting" /\ child.row <= Len(errand.rows[child.query])
          /\ child' = [child EXCEPT !.row = child.row + 1]
      BY <1>5 DEF Emit
    <3>2. child' \in Children /\ child'.is = "emitting" /\ child'.query = child.query /\ child'.row = child.row + 1
      BY <1>2, <1>0, <3>1 DEF Children
    <3> QED BY <1>2, <1>0, <3>1, <3>2, SMTT(60)
  <2>5. Alive /\ child.is # "absent" /\ UNCHANGED <<stderr, drain>>
    BY <1>5 DEF Emit, Alive, ControlInv, Quiet
  <2> QED BY <1>1, <2>3, <2>4, <2>5, ControlByStep
<1>6. CASE Progress
  <2> DEFINE line == [kind |-> "progress", what |-> child.query]
  <2>1. line \in Lines
    BY DEF Lines, ControlInv, Children
  <2>2. Say(line)
    BY <1>6 DEF Progress
  <2>3. stdout' \in Seq(Lines) /\ Len(stdout') =< PipeLines
    BY <2>1, <2>2, SayTyped DEF ControlInv
  <2>4. /\ child' \in Children /\ child'.is \in {"scraping", "emitting", "exited"}
        /\ child'.is \in {"scraping", "emitting"} => child'.query \in errand.from + 1 .. Queued
        /\ child'.is = "emitting" => child'.row \in 1 .. Len(errand.rows[child'.query]) + 1
    <3>1. CASE Exit("ok")
      BY <3>1, Exits DEF ControlInv
    <3>2. CASE child.query # Queued /\ child' = [child EXCEPT !.is = "scraping", !.query = @ + 1]
      <4>1. child.is = "emitting"
        BY <1>6 DEF Progress
      <4>2. child' \in Children /\ child'.is = "scraping" /\ child'.query = child.query + 1
        <5>1. PICK q \in Nat : q = child.query + 1
          BY <1>2
        <5> QED BY <1>0, <3>2, <5>1, Scrapes
      <4> QED BY <1>2, <1>0, <3>2, <4>1, <4>2
    <3> QED BY <1>6, <3>1, <3>2 DEF Progress
  <2>5. Alive /\ child.is # "absent" /\ UNCHANGED <<stderr, drain>>
    BY <1>6 DEF Progress, Alive, ControlInv, Quiet
  <2> QED BY <1>1, <2>3, <2>4, <2>5, ControlByStep
<1>7. CASE Logs
  BY <1>1, <1>7, ChildAssumption DEF Logs, ControlInv, ChildTypeOK, Alive
<1>8. CASE Killed
  <2> DEFINE line == [kind |-> "torn", what |-> "signal"]
  <2>1. line \in Lines
    BY DEF Lines
  <2>2. UNCHANGED stdout \/ Say(line)
    BY <1>8 DEF Killed
  <2>3. stdout' \in Seq(Lines) /\ Len(stdout') =< PipeLines
    BY <2>1, <2>2, SayTyped DEF ControlInv, ChildTypeOK
  <2>4. /\ child' \in Children /\ child'.is \in {"scraping", "emitting", "exited"}
        /\ child'.is \in {"scraping", "emitting"} => child'.query \in errand.from + 1 .. Queued
        /\ child'.is = "emitting" => child'.row \in 1 .. Len(errand.rows[child'.query]) + 1
    <3>1. PICK code \in {"signal", "permanent"} : Exit(code)
      BY <1>8 DEF Killed
    <3> QED BY <3>1, Exits DEF ControlInv
  <2>5. Alive /\ child.is # "absent" /\ UNCHANGED <<stderr, drain>>
    BY <1>8 DEF Killed, Alive, ControlInv, Quiet
  <2> QED BY <1>1, <2>3, <2>4, <2>5, ControlByStep
<1>9. CASE Drain
  BY <1>1, <1>9, ChildAssumption DEF Drain, ControlInv, ChildTypeOK, Alive
<1> QED BY <1>3, <1>4, <1>5, <1>6, <1>7, <1>8, <1>9

-----------------------------------------------------------------------------
(* Places and lines *)

\* What a place is.
LEMMA PlaceShape ==
  ASSUME errand \in Errands, NEW p \in Walked
  PROVE  /\ p[1] \in Nat /\ p[2] \in Nat /\ p = <<p[1], p[2]>> /\ At(p).url # ""
         /\ p[1] \in errand.from + 1 .. Queued /\ p[2] \in 1 .. Len(errand.rows[p[1]])
<1>0. PICK q \in errand.from + 1 .. Queued : p \in {<<q, m>> : m \in Emitted(q)}
  BY DEF Walked
<1>1. PICK n \in Emitted(q) : p = <<q, n>>
  BY <1>0
<1>2. errand.from \in Nat /\ Queued \in Nat
  BY Asked
<1>3. q \in 1 .. Queued /\ q \in Nat
  BY <1>2
<1>4. Len(errand.rows[q]) \in Nat /\ n \in 1 .. Len(errand.rows[q]) /\ errand.rows[q][n].url # ""
  BY <1>3, Asked DEF Emitted
<1>5. p[1] = q /\ p[2] = n /\ n \in Nat /\ p = <<p[1], p[2]>>
  <2>1. p[1] = q /\ p[2] = n
    BY <1>1
  <2>2. n \in Nat
    <3>1. PICK k \in Nat : k = Len(errand.rows[q])
      BY <1>4
    <3>2. n \in 1 .. k
      BY <1>4, <3>1
    <3> QED BY <3>2
  <2> QED BY <1>1, <2>1, <2>2
<1>6. p[1] \in errand.from + 1 .. Queued /\ p[2] \in 1 .. Len(errand.rows[p[1]]) /\ p[1] \in Nat /\ p[2] \in Nat
  BY <1>3, <1>4, <1>5
<1>7. At(p).url # ""
  BY <1>4, <1>5 DEF At
<1> QED BY <1>5, <1>6, <1>7

\* A row is a place when it has an url.
LEMMA IsPlace ==
  ASSUME errand \in Errands, NEW q \in errand.from + 1 .. Queued, NEW n \in 1 .. Len(errand.rows[q])
  PROVE  <<q, n>> \in Walked <=> errand.rows[q][n].url # ""
<1>1. q \in 1 .. Queued
  BY Asked
<1>2. DOMAIN errand.rows[q] = 1 .. Len(errand.rows[q])
  BY <1>1, Asked
<1>3. ASSUME errand.rows[q][n].url # "" PROVE <<q, n>> \in Walked
  <2>1. <<q, n>> \in {<<q, m>> : m \in Emitted(q)}
    BY <1>2, <1>3 DEF Emitted
  <2> QED BY <2>1 DEF Walked
<1>4. ASSUME <<q, n>> \in Walked PROVE errand.rows[q][n].url # ""
  BY <1>4, PlaceShape DEF At
<1> QED BY <1>3, <1>4

\* PlaceShape come in one order.
LEMMA Order ==
  ASSUME errand \in Errands, NEW a \in Walked, NEW b \in Walked
  PROVE  /\ ~Earlier(a, a) /\ (a = b \/ Earlier(a, b) \/ Earlier(b, a))
         /\ ~(Earlier(a, b) /\ Earlier(b, a))
         /\ \A c \in Walked : Earlier(a, b) /\ Earlier(b, c) => Earlier(a, c)
<1>1. a[1] \in Nat /\ a[2] \in Nat /\ b[1] \in Nat /\ b[2] \in Nat /\ a = <<a[1], a[2]>> /\ b = <<b[1], b[2]>>
  BY PlaceShape
<1>2. \A c \in Walked : c[1] \in Nat /\ c[2] \in Nat
  BY PlaceShape
<1>3. a[1] = b[1] /\ a[2] = b[2] => a = b
  BY <1>1
<1> QED BY <1>1, <1>2, <1>3 DEF Earlier

\* The answer of the site does not change under the fetch.
LEMMA SameAnswer ==
  ASSUME UNCHANGED errand, NEW R
  PROVE  /\ Walked' = Walked /\ Firsts' = Firsts /\ Titles' = Titles /\ Queued' = Queued /\ Due(R)' = Due(R)
         /\ Cap' = Cap /\ \A p : At(p)' = At(p)
<1>1. Walked' = Walked /\ Queued' = Queued /\ Cap' = Cap /\ \A p : At(p)' = At(p)
  BY DEF Walked, Emitted, Queued, Cap, At
<1>2. Firsts' = Firsts
  BY <1>1 DEF Firsts, Earlier
<1> QED BY <1>1, <1>2 DEF Titles, Due, Earlier

\* What has arrived when a line is added.
LEMMA LineAdded ==
  ASSUME stdout \in Seq(Lines), NEW line \in Lines, Say(line), NEW R
  PROVE  /\ \A p, i : i \in 0 .. Len(stdout) => (Arrived(R, i, p)' <=> Arrived(R, i, p))
         /\ \A p, i : i = Len(stdout) + 1 =>
                (Arrived(R, i, p)' <=> Arrived(R, Len(stdout), p) \/ (line.kind = "record" /\ line.what = p))
<1>1. /\ Len(stdout) \in Nat /\ stdout'[Len(stdout) + 1] = line
      /\ \A i \in 1 .. Len(stdout) : stdout'[i] = stdout[i]
  BY SayTyped, LenProperties
<1>2. ASSUME NEW p, NEW i \in 0 .. Len(stdout) PROVE Arrived(R, i, p)' <=> Arrived(R, i, p)
  BY <1>1 DEF Arrived
<1>3. ASSUME NEW p, NEW i, i = Len(stdout) + 1
      PROVE  Arrived(R, i, p)' <=>
               Arrived(R, Len(stdout), p) \/ (line.kind = "record" /\ line.what = p)
  <2>1. 1 .. i = (1 .. Len(stdout)) \cup {Len(stdout) + 1}
    BY <1>1, <1>3
  <2> QED BY <1>1, <2>1 DEF Arrived
<1> QED BY <1>2, <1>3

\* What has arrived when the first line is read.
LEMMA LineTaken ==
  ASSUME stdout \in Seq(Lines), stdout # <<>>, stdout' = Tail(stdout), NEW R, NEW T,
         T = IF Head(stdout).kind = "record" THEN R \cup {Head(stdout).what} ELSE R
  PROVE  /\ stdout' \in Seq(Lines) /\ Len(stdout) \in Nat \ {0} /\ Len(stdout') = Len(stdout) - 1
         /\ Head(stdout) = stdout[1] /\ Head(stdout) \in Lines
         /\ \A i \in 1 .. Len(stdout') : stdout'[i] = stdout[i + 1]
         /\ \A p, i : i \in 0 .. Len(stdout') => (Arrived(T, i, p)' <=> Arrived(R, i + 1, p))
<1>1. /\ stdout' \in Seq(Lines) /\ Len(stdout) \in Nat \ {0} /\ Len(stdout') = Len(stdout) - 1
      /\ Head(stdout) = stdout[1] /\ Head(stdout) \in Lines
      /\ \A i \in 1 .. Len(stdout') : stdout'[i] = stdout[i + 1]
  BY HeadTailProperties, EmptySeq, LenProperties, ElementOfSeq
<1>2. ASSUME NEW p, NEW i \in 0 .. Len(stdout') PROVE Arrived(T, i, p)' <=> Arrived(R, i + 1, p)
  <2>1. \A h \in 1 .. i : stdout'[h] = stdout[h + 1]
    BY <1>1
  <2>2. p \in T <=> p \in R \/ (stdout[1].kind = "record" /\ stdout[1].what = p)
    BY <1>1
  <2>3. (\E h \in 1 .. i : stdout'[h].kind = "record" /\ stdout'[h].what = p) <=>
        (\E h \in 2 .. i + 1 : stdout[h].kind = "record" /\ stdout[h].what = p)
    <3>1. ASSUME NEW h \in 2 .. i + 1, stdout[h].kind = "record" /\ stdout[h].what = p
          PROVE  \E g \in 1 .. i : stdout'[g].kind = "record" /\ stdout'[g].what = p
      <4>1. h - 1 \in 1 .. i /\ (h - 1) + 1 = h
        BY <1>1
      <4> QED BY <2>1, <3>1, <4>1
    <3>2. \A h \in 1 .. i : h + 1 \in 2 .. i + 1
      BY <1>1
    <3> QED BY <2>1, <3>1, <3>2
  <2>4. 1 .. i + 1 = {1} \cup (2 .. i + 1)
    BY <1>1
  <2> QED BY <2>2, <2>3, <2>4 DEF Arrived
<1> QED BY <1>1, <1>2

-----------------------------------------------------------------------------
(* What the child writes *)

\* What was taken stays so while nothing is read.
LEMMA TakenKept ==
  ASSUME UNCHANGED <<errand, keep, delivered, marked>>, NEW R, TakenInv(R)
  PROVE  TakenInv(R)'
<1>1. /\ Walked' = Walked /\ Firsts' = Firsts /\ Titles' = Titles /\ Due(R)' = Due(R) /\ \A p : At(p)' = At(p)
  BY SameAnswer
<1>2. \A t : Counted(t)' = Counted(t)
  BY DEF Counted
<1> QED BY <1>1, <1>2 DEF TakenInv, Earlier

\* What the pipe says stays so while it is left alone.
LEMMA PipeKept ==
  ASSUME UNCHANGED <<errand, stdout>>, NEW R, PipeInv(R)
  PROVE  PipeInv(R)' /\ \A p : Arrived(R, Len(stdout), p)' <=> Arrived(R, Len(stdout), p)
<1>1. Walked' = Walked /\ Queued' = Queued
  BY SameAnswer
<1>2. \A i, p : Arrived(R, i, p)' <=> Arrived(R, i, p)
  BY DEF Arrived
<1> QED BY <1>1, <1>2 DEF PipeInv, LineSound, Earlier, Arrived

\* A line that tells what is so keeps the pipe sound.
LEMMA PipeBySay ==
  ASSUME ControlInv, NEW line \in Lines, Say(line), UNCHANGED errand, NEW R, PipeInv(R),
         line.kind = "record" =>
             /\ line.what \in Walked /\ ~Arrived(R, Len(stdout), line.what)
             /\ \A o \in Walked : Earlier(o, line.what) => Arrived(R, Len(stdout), o),
         line.kind = "progress" =>
             /\ line.what \in 1 .. Queued
             /\ \A o \in Walked : o[1] =< line.what => Arrived(R, Len(stdout), o),
         line.kind = "error" => line.what \in {"permanent", "transient"}
  PROVE  /\ PipeInv(R)'
         /\ \A p : Arrived(R, Len(stdout), p)' <=>
                     Arrived(R, Len(stdout), p) \/ (line.kind = "record" /\ line.what = p)
<1>1. stdout \in Seq(Lines) /\ Len(stdout) \in Nat
  BY LenProperties DEF ControlInv
<1>2. /\ Len(stdout') = Len(stdout) + 1 /\ stdout'[Len(stdout) + 1] = line
      /\ \A i \in 1 .. Len(stdout) : stdout'[i] = stdout[i]
  BY <1>1, SayTyped
<1>3. /\ \A p, i : i \in 0 .. Len(stdout) => (Arrived(R, i, p)' <=> Arrived(R, i, p))
      /\ \A p, i : i = Len(stdout) + 1 =>
             (Arrived(R, i, p)' <=> Arrived(R, Len(stdout), p) \/ (line.kind = "record" /\ line.what = p))
  BY <1>1, LineAdded
<1>4. Walked' = Walked /\ Queued' = Queued
  BY SameAnswer
<1>5. ASSUME NEW i \in 1 .. Len(stdout) PROVE LineSound(R, i)'
  <2>1. LineSound(R, i) /\ stdout'[i] = stdout[i]
    BY <1>2, <1>5 DEF PipeInv
  <2>2. i - 1 \in 0 .. Len(stdout)
    BY <1>1
  <2>3. \A p : Arrived(R, i - 1, p)' <=> Arrived(R, i - 1, p)
    BY <1>3, <2>2
  <2> QED BY <1>4, <2>1, <2>3 DEF LineSound, Earlier
<1>6. ASSUME NEW i, i = Len(stdout) + 1 PROVE LineSound(R, i)'
  <2>1. i - 1 = Len(stdout) /\ i - 1 \in 0 .. Len(stdout) /\ stdout'[i] = line
    BY <1>1, <1>2, <1>6
  <2>2. \A p : Arrived(R, i - 1, p)' <=> Arrived(R, Len(stdout), p)
    BY <1>3, <2>1
  <2> QED BY <1>4, <2>1, <2>2 DEF LineSound, Earlier
<1>7. PipeInv(R)'
  BY <1>1, <1>2, <1>5, <1>6 DEF PipeInv
<1>8. \A p : Arrived(R, Len(stdout), p)' <=>
                     Arrived(R, Len(stdout), p) \/ (line.kind = "record" /\ line.what = p)
  <2>1. PICK n : n = Len(stdout')
    OBVIOUS
  <2>2. \A p : Arrived(R, Len(stdout), p)' <=> Arrived(R, n, p)'
    BY <2>1 DEF Arrived
  <2> QED BY <1>2, <1>3, <2>1, <2>2
<1> QED BY <1>7, <1>8

\* The task read, nothing is sent yet.
LEMMA FrontBySpec ==
  ASSUME ControlInv, ReadSpec, NEW R \in SUBSET Walked, PipeInv(R), FrontInv(R)
  PROVE  PipeInv(R)' /\ FrontInv(R)'
<1>1. UNCHANGED errand /\ Walked' = Walked /\ child.is = "reading" /\ errand.from \in Nat /\ child \in Children
  BY SameAnswer, Asked DEF ReadSpec, Quiet, ControlInv
<1>2. CASE UNCHANGED stdout /\ child' = [child EXCEPT !.is = "scraping", !.query = errand.from + 1]
  <2>1. child'.is = "scraping" /\ child'.query = errand.from + 1
    <3>1. PICK q \in Nat : q = errand.from + 1
      BY <1>1
    <3> QED BY <1>1, <1>2, <3>1, Scrapes
  <2>2. PipeInv(R)' /\ \A p : Arrived(R, Len(stdout), p)' <=> Arrived(R, Len(stdout), p)
    BY <1>1, <1>2, PipeKept
  <2>3. \A p \in Walked : ~Sent(p) /\ ~Sent(p)'
    <3> SUFFICES ASSUME NEW p \in Walked PROVE ~Sent(p) /\ ~Sent(p)'
      OBVIOUS
    <3>1. p[1] \in errand.from + 1 .. Queued /\ p[1] \in Nat
      BY PlaceShape DEF ControlInv
    <3> QED BY <1>1, <2>1, <3>1, Asked DEF Sent, ControlInv
  <2> QED BY <1>1, <2>1, <2>2, <2>3 DEF FrontInv
<1>3. CASE Say([kind |-> "error", what |-> "permanent"]) /\ Exit("permanent")
  <2> DEFINE line == [kind |-> "error", what |-> "permanent"]
  <2>1. line \in Lines /\ line.kind = "error" /\ line.what = "permanent"
    BY DEF Lines
  <2>2. Say(line) /\ child'.is = "exited" /\ child'.code = "permanent"
    BY <1>1, <1>3, Exits
  <2> HIDE DEF line
  <2>3. PipeInv(R)'
    BY <1>1, <2>1, <2>2, PipeBySay
  <2> QED BY <2>2, <2>3 DEF FrontInv
<1> QED BY <1>2, <1>3 DEF ReadSpec

\* A query answered, its rows are still to come.
LEMMA FrontByScrape ==
  ASSUME ControlInv, Scrape, NEW R \in SUBSET Walked, PipeInv(R), FrontInv(R)
  PROVE  PipeInv(R)' /\ FrontInv(R)'
<1>1. UNCHANGED errand /\ Walked' = Walked /\ child.is = "scraping" /\ child \in Children
  BY SameAnswer DEF Scrape, Quiet, ControlInv
<1>2. CASE UNCHANGED stdout /\ child' = [child EXCEPT !.is = "emitting", !.row = 1]
  <2>1. child'.is = "emitting" /\ child'.query = child.query /\ child'.row = 1
    BY <1>1, <1>2 DEF Children
  <2>2. PipeInv(R)' /\ \A p : Arrived(R, Len(stdout), p)' <=> Arrived(R, Len(stdout), p)
    BY <1>1, <1>2, PipeKept
  <2>3. \A p \in Walked : Sent(p)' <=> Sent(p)
    <3> SUFFICES ASSUME NEW p \in Walked PROVE Sent(p)' <=> Sent(p)
      OBVIOUS
    <3>1. p[1] \in Nat /\ p[2] \in Nat /\ p[2] >= 1
      <4>1. p[1] \in errand.from + 1 .. Queued /\ p[1] \in Nat /\ p[2] \in Nat /\ p[2] \in 1 .. Len(errand.rows[p[1]])
        BY PlaceShape DEF ControlInv
      <4>2. PICK k : k = Len(errand.rows[p[1]])
        OBVIOUS
      <4> QED BY <4>1, <4>2
    <3>2. child.query \in Nat
      BY <1>1 DEF Children
    <3>3. Earlier(p, <<child'.query, child'.row>>) <=> p[1] < child.query
      BY <2>1, <3>1, <3>2 DEF Earlier
    <3> QED BY <1>1, <2>1, <3>3 DEF Sent, Earlier
  <2> QED BY <1>1, <2>1, <2>2, <2>3 DEF FrontInv
<1>3. CASE Say([kind |-> "error", what |-> "transient"]) /\ Exit("transient")
  <2> DEFINE line == [kind |-> "error", what |-> "transient"]
  <2>1. line \in Lines /\ line.kind = "error" /\ line.what = "transient"
    BY DEF Lines
  <2>2. Say(line) /\ child'.is = "exited" /\ child'.code = "transient"
    BY <1>1, <1>3, Exits
  <2> HIDE DEF line
  <2>3. PipeInv(R)'
    BY <1>1, <2>1, <2>2, PipeBySay
  <2> QED BY <2>2, <2>3 DEF FrontInv
<1> QED BY <1>2, <1>3 DEF Scrape

\* A child killed has sent what it has sent.
LEMMA FrontByKill ==
  ASSUME ControlInv, Killed, NEW R \in SUBSET Walked, PipeInv(R), FrontInv(R)
  PROVE  PipeInv(R)' /\ FrontInv(R)'
<1>1. UNCHANGED errand /\ child \in Children
  BY DEF Killed, Quiet, ControlInv
<1>2. PICK code \in {"signal", "permanent"} : Exit(code)
  BY DEF Killed
<1>3. child'.is = "exited" /\ child'.code # "ok"
  BY <1>1, <1>2, Exits
<1>4. CASE UNCHANGED stdout
  BY <1>1, <1>3, <1>4, PipeKept DEF FrontInv
<1>5. CASE Say([kind |-> "torn", what |-> "signal"])
  <2> DEFINE line == [kind |-> "torn", what |-> "signal"]
  <2>1. line \in Lines /\ line.kind = "torn"
    BY DEF Lines
  <2> HIDE DEF line
  <2>3. PipeInv(R)'
    BY <1>1, <1>5, <2>1, PipeBySay DEF line
  <2> QED BY <1>3, <2>3 DEF FrontInv
<1> QED BY <1>4, <1>5 DEF Killed

\* A row emitted is the next in order.
LEMMA FrontByEmit ==
  ASSUME ControlInv, Emit, NEW R \in SUBSET Walked, PipeInv(R), FrontInv(R)
  PROVE  PipeInv(R)' /\ FrontInv(R)'
<1> DEFINE place == <<child.query, child.row>>
<1> DEFINE line == [kind |-> "record", what |-> place]
<1>1. /\ UNCHANGED errand /\ Walked' = Walked /\ child.is = "emitting" /\ child \in Children
      /\ errand \in Errands /\ child.query \in Nat /\ child.row \in Nat
  BY SameAnswer DEF Emit, Quiet, ControlInv, Children
<1>2. child'.is = "emitting" /\ child'.query = child.query /\ child'.row = child.row + 1
  BY <1>1 DEF Emit, Children
<1>3. child.query \in errand.from + 1 .. Queued /\ child.row \in 1 .. Len(errand.rows[child.query])
  <2>1. child.query \in errand.from + 1 .. Queued /\ child.row \in 1 .. Len(errand.rows[child.query]) + 1
    BY <1>1 DEF ControlInv
  <2>2. PICK k \in Nat : k = Len(errand.rows[child.query])
    BY <1>1, <2>1, Asked
  <2>3. child.row <= Len(errand.rows[child.query])
    BY DEF Emit
  <2>4. child.row \in 1 .. k + 1 /\ child.row <= k
    BY <2>1, <2>2, <2>3
  <2> QED BY <1>1, <2>1, <2>2, <2>4
<1>4. place[1] = child.query /\ place[2] = child.row /\ (place \in Walked <=> At(place).url # "")
  BY <1>1, <1>3, IsPlace DEF At
<1>5. \A p \in Walked : Sent(p) <=> Earlier(p, place)
  BY <1>1 DEF Sent
<1>6. ASSUME NEW p \in Walked PROVE Sent(p)' <=> Earlier(p, place) \/ p = place
  <2>1. p[1] \in Nat /\ p[2] \in Nat /\ p = <<p[1], p[2]>>
    BY <1>1, PlaceShape
  <2>2. p = place <=> p[1] = child.query /\ p[2] = child.row
    BY <1>4, <2>1
  <2>3. Sent(p)' <=> p[1] < child.query \/ (p[1] = child.query /\ p[2] < child.row + 1)
    BY <1>2 DEF Sent, Earlier
  <2>4. Earlier(p, place) <=> p[1] < child.query \/ (p[1] = child.query /\ p[2] < child.row)
    BY DEF Earlier
  <2> HIDE DEF place
  <2>5. p[2] < child.row + 1 <=> p[2] < child.row \/ p[2] = child.row
    BY <1>1, <2>1
  <2> QED BY <2>2, <2>3, <2>4, <2>5
<1>7. CASE At(place).url = ""
  <2>1. UNCHANGED stdout
    BY <1>7 DEF Emit
  <2>2. PipeInv(R)' /\ \A p : Arrived(R, Len(stdout), p)' <=> Arrived(R, Len(stdout), p)
    BY <1>1, <2>1, PipeKept
  <2> HIDE DEF place
  <2>3. \A p \in Walked : Sent(p)' <=> Sent(p)
    BY <1>4, <1>5, <1>6, <1>7
  <2> QED BY <1>1, <1>2, <2>2, <2>3 DEF FrontInv
<1>8. CASE At(place).url # ""
  <2>1. Say(line)
    BY <1>8 DEF Emit
  <2>2. line \in Lines /\ line.kind = "record" /\ line.what = place /\ place \in Walked
    BY <1>1, <1>4, <1>8 DEF Lines
  <2> HIDE DEF place, line
  <2>3. \A p \in Walked : Arrived(R, Len(stdout), p) <=> Earlier(p, place)
    BY <1>1, <1>5 DEF FrontInv
  <2>4. ~Earlier(place, place)
    BY <1>1, <2>2, Order
  <2>5. PipeInv(R)' /\ \A p : Arrived(R, Len(stdout), p)' <=> Arrived(R, Len(stdout), p) \/ p = place
    BY <1>1, <2>1, <2>2, <2>3, <2>4, PipeBySay
  <2> QED BY <1>1, <1>2, <1>6, <2>3, <2>5 DEF FrontInv
<1> QED BY <1>7, <1>8

\* A query is marked when its rows are sent.
LEMMA FrontByProgress ==
  ASSUME ControlInv, Progress, NEW R \in SUBSET Walked, PipeInv(R), FrontInv(R)
  PROVE  PipeInv(R)' /\ FrontInv(R)'
<1> DEFINE line == [kind |-> "progress", what |-> child.query]
<1>1. /\ UNCHANGED errand /\ Walked' = Walked /\ child.is = "emitting" /\ child \in Children
      /\ errand \in Errands /\ child.query \in Nat /\ child.row \in Nat /\ errand.from \in Nat
      /\ Queued \in Nat /\ child.query \in errand.from + 1 .. Queued
  BY SameAnswer, Asked DEF Progress, Quiet, ControlInv, Children
<1>2. ASSUME NEW p \in Walked PROVE /\ p[1] \in Nat /\ p[1] <= Queued
                                    /\ Sent(p) <=> p[1] <= child.query
  <2>1. /\ p[1] \in errand.from + 1 .. Queued /\ p[1] \in Nat /\ p[2] \in Nat
        /\ p[2] \in 1 .. Len(errand.rows[p[1]])
    BY <1>1, PlaceShape
  <2>2. p[1] = child.query => p[2] < child.row
    <3>1. PICK k \in Nat : k = Len(errand.rows[child.query])
      BY <1>1, Asked
    <3>2. child.row > k
      BY <3>1 DEF Progress
    <3> QED BY <1>1, <2>1, <3>1, <3>2
  <2>3. Sent(p) <=> p[1] < child.query \/ (p[1] = child.query /\ p[2] < child.row)
    BY <1>1 DEF Sent, Earlier
  <2> QED BY <1>1, <2>1, <2>2, <2>3
<1>3. Say(line)
  BY DEF Progress
<1>4. line \in Lines /\ line.kind = "progress" /\ line.what = child.query /\ child.query \in 1 .. Queued
  BY <1>1 DEF Lines
<1> HIDE DEF line
<1>5. \A p \in Walked : Arrived(R, Len(stdout), p) <=> p[1] <= child.query
  BY <1>1, <1>2 DEF FrontInv
<1>6. PipeInv(R)' /\ \A p : Arrived(R, Len(stdout), p)' <=> Arrived(R, Len(stdout), p)
  BY <1>1, <1>3, <1>4, <1>5, PipeBySay
<1>7. CASE child.query = Queued /\ Exit("ok")
  <2>1. child'.is = "exited"
    BY <1>1, <1>7, Exits
  <2> QED BY <1>1, <1>2, <1>5, <1>6, <1>7, <2>1 DEF FrontInv
<1>8. CASE child' = [child EXCEPT !.is = "scraping", !.query = @ + 1]
  <2>1. child'.is = "scraping" /\ child'.query = child.query + 1
    <3>1. PICK q \in Nat : q = child.query + 1
      BY <1>1
    <3> QED BY <1>1, <1>8, <3>1, Scrapes
  <2>2. \A p \in Walked : Sent(p)' <=> p[1] <= child.query
    <3> SUFFICES ASSUME NEW p \in Walked PROVE Sent(p)' <=> p[1] <= child.query
      OBVIOUS
    <3>1. Sent(p)' <=> p[1] < child.query + 1
      BY <2>1 DEF Sent
    <3> QED BY <1>1, <1>2, <3>1
  <2> QED BY <1>1, <1>5, <1>6, <2>1, <2>2 DEF FrontInv
<1> QED BY <1>7, <1>8 DEF Progress

-----------------------------------------------------------------------------
(* What the parent reads *)

\* One title is counted once more.
LEMMA CountedAfter ==
  ASSUME NEW title, NEW t, keep'.titles = Count(title)
  PROVE  Counted(t)' = Counted(t) + (IF t = title THEN 1 ELSE 0)
<1> DEFINE d == DOMAIN keep.titles \cup {title}
<1>1. /\ DOMAIN keep'.titles = d
      /\ \A u \in d : keep'.titles[u] = Counted(u) + (IF u = title THEN 1 ELSE 0)
  BY DEF Count
<1>2. CASE t \in d
  BY <1>1, <1>2 DEF Counted
<1>3. CASE t \notin d
  BY <1>1, <1>3 DEF Counted
<1> QED BY <1>2, <1>3

\* A row read in its order leaves what was taken the first rows, and yields it when it is due.
LEMMA TakenByRecord ==
  ASSUME errand \in Errands, UNCHANGED <<errand, marked>>, NEW R \in SUBSET Walked, TakenInv(R),
         NEW p \in Walked, p \notin R, \A o \in Walked : Earlier(o, p) => o \in R, Accept(p)
  PROVE  TakenInv(R \cup {p})'
<1> SUFFICES ASSUME NEW T, T = R \cup {p} PROVE TakenInv(T)'
  OBVIOUS
<1> DEFINE Alike(t) == {o \in Firsts \cap R : At(o).title = t}
<1>1. /\ Walked' = Walked /\ Firsts' = Firsts /\ Titles' = Titles /\ Due(T)' = Due(T) /\ \A q : At(q)' = At(q)
  BY SameAnswer
<1>2. /\ IsFiniteSet(R) /\ keep.urls = {At(o).url : o \in R} /\ delivered = Due(R)
      /\ \A t \in Titles : Counted(t) = Cardinality(Alike(t))
      /\ \A o \in R : \A q \in Walked : Earlier(q, o) => q \in R
  BY DEF TakenInv
<1>3. \A o \in Walked : o \in R <=> Earlier(o, p)
  <2> SUFFICES ASSUME NEW o \in Walked, o \in R PROVE Earlier(o, p)
    OBVIOUS
  <2> QED BY <1>2, Order
<1>4. p \in Firsts <=> At(p).url \notin keep.urls
  BY <1>2, <1>3 DEF Firsts
<1>5. IsFiniteSet(T) /\ T \subseteq Walked
  BY <1>2, FS_AddElement
<1>6. \A o \in T : \A q \in Walked : Earlier(q, o) => q \in T
  BY <1>2
<1>7. \A q \in Walked : q[1] =< marked' => q \in T
  BY DEF TakenInv
<1>8. CASE At(p).url \in keep.urls
  <2>1. keep' = keep /\ delivered' = delivered /\ p \notin Firsts
    BY <1>4, <1>8 DEF Accept
  <2>2. keep'.urls = {At(o).url : o \in T}
    BY <1>2, <1>8, <2>1
  <2>3. \A t : Counted(t)' = Counted(t)
    BY <2>1 DEF Counted
  <2>4. Firsts \cap T = Firsts \cap R
    BY <2>1
  <2>5. Due(T) = Due(R)
    BY <2>4 DEF Due
  <2>6. \A t \in Titles : Counted(t)' = Cardinality({o \in Firsts \cap T : At(o).title = t})
    BY <1>2, <2>3, <2>4
  <2>7. (Earlier(p, p) <=> Earlier(p, p)') /\ delivered' = Due(T)'
    BY <1>1, <1>2, <2>1, <2>5 DEF Earlier
  <2> QED BY <1>1, <1>5, <1>6, <1>7, <2>2, <2>6, <2>7 DEF TakenInv, Earlier
<1>9. CASE At(p).url \notin keep.urls
  <2> DEFINE title == At(p).title
  <2>1. /\ keep' = [urls |-> keep.urls \cup {At(p).url}, titles |-> Count(title)]
        /\ delivered' = IF Counted(title) + 1 <= Cap THEN delivered \cup {p} ELSE delivered
        /\ p \in Firsts
    BY <1>4, <1>9 DEF Accept
  <2>2. keep'.urls = {At(o).url : o \in T} /\ keep'.titles = Count(title)
    BY <1>2, <2>1
  <2>3. title \in Titles
    BY DEF Titles
  <2>4. ASSUME NEW t \in Titles
        PROVE  Counted(t)' = Cardinality({o \in Firsts \cap T : At(o).title = t})
    <3>1. IsFiniteSet(Alike(t)) /\ p \notin Alike(t)
      BY <1>2, FS_Subset
    <3>2. Cardinality(Alike(t)) \in Nat
      BY <3>1, FS_CardinalityType
    <3>3. CASE t = title
      <4>1. {o \in Firsts \cap T : At(o).title = t} = Alike(t) \cup {p}
        BY <2>1, <3>3
      <4>2. Cardinality(Alike(t) \cup {p}) = Cardinality(Alike(t)) + 1
        <5> HIDE DEF Alike
        <5> QED BY <3>1, FS_AddElement
      <4>3. Counted(t)' = Counted(t) + 1
        BY <2>2, <3>3, CountedAfter
      <4> QED BY <1>2, <4>1, <4>2, <4>3
    <3>4. CASE t # title
      <4>1. {o \in Firsts \cap T : At(o).title = t} = Alike(t)
        BY <3>4
      <4>2. Counted(t)' = Counted(t) + 0
        BY <2>2, <3>4, CountedAfter
      <4>3. Counted(t) = Cardinality(Alike(t))
        BY <1>2
      <4>4. Cardinality({o \in Firsts \cap T : At(o).title = t}) = Cardinality(Alike(t))
        BY <4>1
      <4>5. Counted(t)' = Cardinality(Alike(t))
        <5> HIDE DEF Alike
        <5> QED BY <3>2, <4>2, <4>3
      <4> QED BY <4>4, <4>5
    <3> QED BY <3>3, <3>4
  <2>5. delivered' = Due(T)
    <3>1. {o \in Firsts : Earlier(o, p) /\ At(o).title = title} = Alike(title)
      BY <1>3 DEF Firsts
    <3>2. Counted(title) = Cardinality(Alike(title)) /\ Cardinality(Alike(title)) \in Nat
      <4>1. IsFiniteSet(Alike(title))
        BY <1>2, FS_Subset
      <4> QED BY <1>2, <2>3, <4>1, FS_CardinalityType
    <3>3. Cap \in Nat
      BY Asked, ChildAssumption DEF Cap
    <3>4. Counted(title) + 1 <= Cap <=> Cardinality(Alike(title)) < Cap
      <4> HIDE DEF Alike, title
      <4> QED BY <3>2, <3>3
    <3>5. p \in Due(T) <=> Cardinality(Alike(title)) < Cap
      BY <2>1, <3>1 DEF Due
    <3>6. \A o : o # p => (o \in Due(T) <=> o \in Due(R))
      BY DEF Due
    <3>7. p \notin Due(R) /\ delivered = Due(R)
      BY <1>2 DEF Due
    <3>8. delivered' = IF p \in Due(T) THEN Due(R) \cup {p} ELSE Due(R)
      BY <2>1, <3>4, <3>5, <3>7
    <3> HIDE DEF Alike, title
    <3> QED BY <3>6, <3>7, <3>8
  <2>6. delivered' = Due(T)'
    BY <1>1, <2>5
  <2> QED BY <1>1, <1>5, <1>6, <1>7, <2>2, <2>4, <2>6 DEF TakenInv, Earlier
<1> QED BY <1>8, <1>9

\* A line read keeps the processes and the rows.
LEMMA ByRead ==
  ASSUME ControlInv, ReadLine, NEW R \in SUBSET Walked, TakenInv(R), PipeInv(R), FrontInv(R)
  PROVE  ControlInv' /\ RowsInv'
<1> DEFINE line == stdout[1]
<1>1. PICK T : T = IF Head(stdout).kind = "record" THEN R \cup {Head(stdout).what} ELSE R
  OBVIOUS
<1>2. /\ UNCHANGED <<errand, child, stderr, drain>> /\ fetch = "reading" /\ stdout \in Seq(Lines) /\ stdout # <<>>
      /\ stdout' = Tail(stdout) /\ errand \in Errands /\ Queued \in Nat
  BY Asked DEF ReadLine, ControlInv
<1>3. /\ stdout' \in Seq(Lines) /\ Len(stdout) \in Nat \ {0} /\ Len(stdout') = Len(stdout) - 1
      /\ Head(stdout) = line /\ line \in Lines
      /\ \A i \in 1 .. Len(stdout') : stdout'[i] = stdout[i + 1]
      /\ \A p, i : i \in 0 .. Len(stdout') => (Arrived(T, i, p)' <=> Arrived(R, i + 1, p))
  BY <1>1, <1>2, LineTaken
<1>4. Walked' = Walked /\ Queued' = Queued
  BY <1>2, SameAnswer
<1>5. /\ line.kind = "record" => line.what \in Walked /\ line.what \notin R
                                 /\ \A o \in Walked : Earlier(o, line.what) => o \in R
      /\ line.kind = "progress" => line.what \in 1 .. Queued /\ \A o \in Walked : o[1] =< line.what => o \in R
      /\ line.kind = "error" => line.what \in {"permanent", "transient"}
  <2>1. LineSound(R, 1)
    BY <1>3 DEF PipeInv
  <2>2. \A p : Arrived(R, 1 - 1, p) <=> p \in R
    BY DEF Arrived
  <2> QED BY <2>1, <2>2 DEF LineSound
<1>6. PipeInv(T)'
  <2> SUFFICES ASSUME NEW i \in 1 .. Len(stdout') PROVE LineSound(T, i)'
    BY DEF PipeInv
  <2>1. PICK j \in 1 .. Len(stdout) : j = i + 1
    BY <1>3
  <2>2. LineSound(R, j) /\ stdout'[i] = stdout[j]
    BY <1>3, <2>1 DEF PipeInv
  <2>3. i - 1 \in 0 .. Len(stdout') /\ (i - 1) + 1 = j - 1
    BY <1>3, <2>1
  <2>4. \A p : Arrived(T, i - 1, p)' <=> Arrived(R, j - 1, p)
    BY <1>3, <2>3
  <2> QED BY <1>4, <2>2, <2>4 DEF LineSound, Earlier
<1>7. FrontInv(T)'
  <2>1. PICK n : n = Len(stdout')
    OBVIOUS
  <2>2. n \in 0 .. Len(stdout') /\ n + 1 = Len(stdout)
    BY <1>3, <2>1
  <2>3. \A p : Arrived(T, n, p)' <=> Arrived(R, Len(stdout), p)
    BY <1>3, <2>2
  <2>4. \A p : Arrived(T, Len(stdout), p)' <=> Arrived(T, n, p)'
    BY <2>1 DEF Arrived
  <2>5. \A p : Sent(p)' <=> Sent(p)
    BY <1>2 DEF Sent, Earlier
  <2> QED BY <1>2, <1>4, <2>3, <2>4, <2>5 DEF FrontInv
<1>8. /\ T \in SUBSET Walked /\ TakenInv(T)'
      /\ marked' \in 0 .. Queued /\ reported' \in {"none", "permanent", "transient"}
      /\ fetch' \in {"reading", "awaiting", "stopping"} /\ (fetch' = "awaiting" => reported' # "none")
  <2>1. marked \in 0 .. Queued /\ reported \in {"none", "permanent", "transient"}
    BY DEF ControlInv, ChildTypeOK
  <2>2. CASE line.kind = "record"
    <3>1. /\ Accept(line.what) /\ UNCHANGED <<fetch, marked, reported>>
      BY <1>3, <2>2 DEF ReadLine
    <3>2. T = R \cup {line.what}
      BY <1>1, <1>3, <2>2
    <3>3. TakenInv(T)'
      <4>1. PICK p \in Walked : p = line.what
        BY <1>5, <2>2
      <4>2. TakenInv(R \cup {p})'
        BY <1>2, <1>5, <2>2, <3>1, <4>1, TakenByRecord
      <4>3. T = R \cup {p}
        BY <3>2, <4>1
      <4> QED BY <4>2, <4>3
    <3> QED BY <1>2, <1>5, <2>1, <2>2, <3>1, <3>2, <3>3
  <2>3. CASE line.kind = "progress"
    <3>1. marked' = line.what /\ UNCHANGED <<fetch, keep, delivered, reported>> /\ T = R
      BY <1>1, <1>3, <2>3 DEF ReadLine
    <3>2. /\ Firsts' = Firsts /\ Titles' = Titles /\ Due(R)' = Due(R) /\ \A p : At(p)' = At(p)
      BY <1>2, SameAnswer
    <3>3. \A t : Counted(t)' = Counted(t)
      BY <3>1 DEF Counted
    <3>4. TakenInv(R)'
      BY <1>4, <1>5, <2>3, <3>1, <3>2, <3>3 DEF TakenInv, Earlier
    <3> QED BY <1>2, <1>5, <2>1, <2>3, <3>1, <3>4
  <2>4. CASE line.kind \in {"error", "torn"}
    <3>1. /\ UNCHANGED <<keep, delivered, marked>> /\ T = R
          /\ \/ line.kind = "error" /\ reported' = line.what /\ fetch' = "awaiting"
             \/ UNCHANGED reported /\ fetch' = "stopping"
      BY <1>1, <1>3, <2>4 DEF ReadLine
    <3>2. TakenInv(T)'
      BY <1>2, <3>1, TakenKept
    <3> QED BY <1>5, <2>1, <3>1, <3>2
  <2> QED BY <1>3, <2>2, <2>3, <2>4 DEF Lines
<1>9. RowsInv'
  BY <1>4, <1>6, <1>7, <1>8 DEF RowsInv
<1>10. ControlInv'
  <2>1. Len(stdout') =< PipeLines
    BY <1>3, ChildAssumption DEF ControlInv, ChildTypeOK
  <2> QED BY <1>2, <1>3, <1>4, <1>8, <2>1 DEF ControlInv, ChildTypeOK, Alive
<1> QED BY <1>9, <1>10

\* The rows are as they were while nothing is read or written.
LEMMA RowsKept ==
  ASSUME UNCHANGED <<errand, keep, delivered, marked, stdout>>, RowsInv,
         \/ UNCHANGED child
         \/ child.is = "absent" /\ child'.is = "reading"
         \/ child'.is = "exited" /\ child'.code # "ok"
  PROVE  RowsInv'
<1>1. PICK R \in SUBSET Walked : TakenInv(R) /\ PipeInv(R) /\ FrontInv(R)
  BY DEF RowsInv
<1>2. Walked' = Walked
  BY SameAnswer
<1>3. TakenInv(R)' /\ PipeInv(R)' /\ \A p : Arrived(R, Len(stdout), p)' <=> Arrived(R, Len(stdout), p)
  BY <1>1, TakenKept, PipeKept
<1>4. FrontInv(R)'
  <2>1. CASE UNCHANGED child
    BY <1>1, <1>2, <1>3, <2>1 DEF FrontInv, Sent, Earlier
  <2>2. CASE child.is = "absent" /\ child'.is = "reading"
    BY <1>1, <1>2, <1>3, <2>2 DEF FrontInv, Sent
  <2>3. CASE child'.is = "exited" /\ child'.code # "ok"
    BY <2>3 DEF FrontInv
  <2> QED BY <2>1, <2>2, <2>3
<1> QED BY <1>1, <1>2, <1>3, <1>4 DEF RowsInv

\* What is due does not change under the fetch.
LEMMA SameDue == ASSUME UNCHANGED errand PROVE Due(Walked)' = Due(Walked)
<1>1. Walked' = Walked /\ Firsts' = Firsts /\ Cap' = Cap /\ \A p : At(p)' = At(p)
  BY SameAnswer
<1> QED BY <1>1 DEF Due, Earlier

\* Before the child is spawned nothing is taken.
LEMMA ChildStart == ASSUME ChildInit PROVE ChildInv
<1>1. ControlInv
  BY ControlStart
<1>2. TakenInv({})
  <2>1. IsFiniteSet({}) /\ Cardinality({}) = 0
    BY FS_EmptySet
  <2>2. \A p \in Walked : ~(p[1] =< 0)
    <3> SUFFICES ASSUME NEW p \in Walked PROVE ~(p[1] =< 0)
      OBVIOUS
    <3>1. p[1] \in errand.from + 1 .. Queued /\ errand.from \in Nat
      BY PlaceShape, Asked DEF ControlInv, ChildInit
    <3> QED BY <3>1
  <2>3. Due({}) = {}
    BY DEF Due
  <2>4. \A t : Counted(t) = 0
    BY DEF ChildInit, Counted
  <2>5. \A t : {o \in Firsts \cap {} : At(o).title = t} = {}
    OBVIOUS
  <2> QED BY <2>1, <2>2, <2>3, <2>4, <2>5 DEF TakenInv, ChildInit
<1>3. stdout = <<>> /\ Len(stdout) = 0 /\ child.is = "absent" /\ verdict = "none"
  BY EmptySeq DEF ChildInit
<1>4. PipeInv({}) /\ FrontInv({})
  BY <1>3 DEF PipeInv, FrontInv, Arrived, Sent
<1> QED BY <1>1, <1>2, <1>3, <1>4 DEF ChildInv, RowsInv, VerdictInv

\* A step of the parent other than a read keeps the invariant.
LEMMA ByParent ==
  ASSUME ChildInv, Spawn \/ Feed \/ EndOfOutput \/ Reap \/ Interrupt \/ Stop \/ Terminated \/ Close
  PROVE  ChildInv'
<1>1. UNCHANGED <<errand, keep, delivered, marked, stdout>> /\ Due(Walked)' = Due(Walked)
  <2>1. UNCHANGED <<errand, keep, delivered, marked, stdout>>
    BY DEF Spawn, Feed, EndOfOutput, Reap, Interrupt, Stop, Terminated, Close, pipes, reader
  <2> QED BY <2>1, SameDue
<1>2. ControlInv'
  BY ControlByParent DEF ChildInv
<1>3. child \in Children
  BY DEF ChildInv, ControlInv
<1>4. \/ UNCHANGED child
      \/ child.is = "absent" /\ child'.is = "reading"
      \/ child'.is = "exited" /\ child'.code # "ok"
  <2>1. CASE Spawn
    BY <1>3, <2>1 DEF Spawn, ChildInv, ControlInv, Children
  <2>2. CASE Terminated
    BY <1>3, <2>2, Exits DEF Terminated
  <2>3. CASE Feed \/ EndOfOutput \/ Reap \/ Interrupt \/ Stop \/ Close
    BY <2>3 DEF Feed, EndOfOutput, Reap, Interrupt, Stop, Close
  <2> QED BY <2>1, <2>2, <2>3
<1>5. RowsInv'
  BY <1>1, <1>4, RowsKept DEF ChildInv
<1>6. VerdictInv'
  <2>1. VerdictInv /\ errand \in Errands /\ errand.from \in Nat /\ Queued \in Nat
    BY Asked DEF ChildInv, ControlInv
  <2>2. PICK R \in SUBSET Walked : TakenInv(R) /\ PipeInv(R) /\ FrontInv(R)
    BY DEF ChildInv, RowsInv
  <2>3. CASE Spawn
    <3>1. CASE errand.from >= Queued
      <4>1. Walked = {}
        <5> SUFFICES ASSUME NEW p \in Walked PROVE FALSE
          OBVIOUS
        <5>1. p[1] \in errand.from + 1 .. Queued
          BY <2>1, PlaceShape
        <5> QED BY <2>1, <3>1, <5>1
      <4>2. R = Walked
        BY <4>1
      <4>3. delivered = Due(Walked)
        BY <2>2, <4>2 DEF TakenInv
      <4>4. child'.is = "absent" /\ fetch' = "ended"
        BY <2>3, <3>1 DEF Spawn, ChildInv, ControlInv
      <4> QED BY <1>1, <4>3, <4>4 DEF VerdictInv, Alive
    <3>2. CASE ~(errand.from >= Queued)
      BY <2>1, <2>3, <3>2 DEF Spawn, VerdictInv
    <3> QED BY <3>1, <3>2
  <2>4. CASE Reap
    <3> SUFFICES ASSUME verdict' = "succeeded" PROVE VerdictInv'
      BY DEF VerdictInv
    <3>1. /\ reported = "none" /\ child.code = "ok" /\ child.is = "exited" /\ fetch = "awaiting"
          /\ UNCHANGED child /\ fetch' = "stopping"
      BY <2>4 DEF Reap, ChildInv, ControlInv
    <3>2. stdout = <<>> /\ Len(stdout) = 0
      BY <3>1, EmptySeq DEF ChildInv, ControlInv
    <3>3. R = Walked
      <4>1. \A p \in Walked : p \in R
        BY <2>2, <3>1, <3>2 DEF FrontInv, Arrived
      <4> QED BY <4>1
    <3>4. delivered = Due(Walked)
      BY <2>2, <3>3 DEF TakenInv
    <3> QED BY <1>1, <3>1, <3>4 DEF VerdictInv, Alive
  <2>5. CASE Feed
    BY <2>1, <2>5 DEF Feed, VerdictInv
  <2>6. CASE EndOfOutput
    BY <2>1, <2>6 DEF EndOfOutput, VerdictInv, reader
  <2>7. CASE Interrupt
    BY <2>7 DEF Interrupt, VerdictInv
  <2>8. CASE Stop
    BY <1>1, <2>1, <2>8 DEF Stop, VerdictInv, reader, Alive, ChildInv, ControlInv
  <2>9. CASE Terminated
    BY <2>1, <2>9 DEF Terminated, VerdictInv, reader
  <2>10. CASE Close
    BY <1>1, <2>1, <2>10 DEF Close, VerdictInv, Alive
  <2> QED BY <2>3, <2>4, <2>5, <2>6, <2>7, <2>8, <2>9, <2>10
<1> QED BY <1>2, <1>5, <1>6 DEF ChildInv

\* A step of the child keeps the invariant.
LEMMA ByChild ==
  ASSUME ChildInv, ReadSpec \/ Scrape \/ Emit \/ Progress \/ Logs \/ Killed \/ Drain
  PROVE  ChildInv'
<1>1. ControlInv /\ ControlInv'
  BY ControlByChild DEF ChildInv
<1>2. UNCHANGED <<errand, fetch, keep, delivered, marked, verdict>>
  BY DEF ReadSpec, Scrape, Emit, Progress, Logs, Killed, Drain, Quiet
<1>3. Due(Walked)' = Due(Walked) /\ Walked' = Walked
  BY <1>2, SameDue, SameAnswer
<1>4. RowsInv'
  <2>1. PICK R \in SUBSET Walked : TakenInv(R) /\ PipeInv(R) /\ FrontInv(R)
    BY DEF ChildInv, RowsInv
  <2>2. CASE Logs \/ Drain
    <3>1. UNCHANGED <<child, stdout>>
      BY <2>2 DEF Logs, Drain
    <3> QED BY <1>2, <3>1, RowsKept DEF ChildInv
  <2>3. CASE ReadSpec \/ Scrape \/ Emit \/ Progress \/ Killed
    <3>1. PipeInv(R)' /\ FrontInv(R)'
      BY <1>1, <2>1, <2>3, FrontBySpec, FrontByScrape, FrontByEmit, FrontByProgress, FrontByKill
    <3>2. TakenInv(R)'
      BY <1>2, <2>1, TakenKept
    <3> QED BY <1>3, <2>1, <3>1, <3>2 DEF RowsInv
  <2> QED BY <2>2, <2>3
<1>5. VerdictInv'
  <2>1. CASE Drain
    <3>1. UNCHANGED child
      BY <2>1 DEF Drain
    <3> QED BY <1>2, <1>3, <3>1 DEF ChildInv, VerdictInv, Alive
  <2>2. CASE ReadSpec \/ Scrape \/ Emit \/ Progress \/ Logs \/ Killed
    <3>1. Alive
      BY <2>2 DEF ReadSpec, Scrape, Emit, Progress, Logs, Killed, Alive
    <3> QED BY <1>2, <3>1 DEF ChildInv, VerdictInv
  <2> QED BY <2>1, <2>2
<1> QED BY <1>1, <1>4, <1>5 DEF ChildInv

\* Every step keeps the invariant.
LEMMA ChildByStep == ASSUME ChildInv, [ChildNext]_childVars PROVE ChildInv'
<1>1. CASE ReadLine
  <2>1. PICK R \in SUBSET Walked : TakenInv(R) /\ PipeInv(R) /\ FrontInv(R)
    BY DEF ChildInv, RowsInv
  <2>2. ControlInv' /\ RowsInv'
    BY <1>1, <2>1, ByRead DEF ChildInv
  <2>3. VerdictInv'
    BY <1>1 DEF ReadLine, ChildInv, VerdictInv
  <2> QED BY <2>2, <2>3 DEF ChildInv
<1>2. CASE UNCHANGED childVars
  <2>1. /\ UNCHANGED <<errand, fetch, child, stdout, stderr, drain, keep, delivered, marked, reported, verdict>>
    BY <1>2 DEF childVars
  <2>2. Due(Walked)' = Due(Walked) /\ Queued' = Queued
    BY <2>1, SameDue, SameAnswer
  <2>3. RowsInv'
    BY <2>1, RowsKept DEF ChildInv
  <2> QED BY <2>1, <2>2, <2>3 DEF ChildInv, ControlInv, ChildTypeOK, Alive, VerdictInv
<1> QED BY <1>1, <1>2, ByParent, ByChild DEF ChildNext

\* The invariant gives what the run checks.
LEMMA ChildFromInv == ASSUME ChildInv PROVE ChildSound
<1>1. PICK R \in SUBSET Walked : TakenInv(R) /\ PipeInv(R) /\ FrontInv(R)
  BY DEF ChildInv, RowsInv
<1>2. ChildTypeOK /\ NoOrphan
  BY DEF ChildInv, ControlInv, NoOrphan
<1>3. SuccessIsWhole
  BY DEF ChildInv, VerdictInv, SuccessIsWhole
<1>4. CursorCovers
  <2> SUFFICES ASSUME NEW p \in Due(Walked), p[1] <= marked PROVE p \in Due(R)
    BY <1>1 DEF CursorCovers, TakenInv
  <2>1. p \in Firsts /\ p \in Walked
    BY DEF Due
  <2>2. p \in R
    BY <1>1, <2>1 DEF TakenInv
  <2> QED BY <2>1, <2>2 DEF Due
<1>5. NeverStalled
  BY DEF ChildInv, ControlInv, NeverStalled, BlockedOnStderr, Alive
<1> QED BY <1>2, <1>3, <1>4, <1>5 DEF ChildSound

\* However the fetch ends, its child is dead; a fetch that says it succeeded yielded exactly the
\* rows the repost filter leaves of the whole answer, and its cursor never passes a row it has
\* not yielded, whatever was killed, cancelled or torn on the way.
THEOREM ChildIsSound == ChildSpec => []ChildSound
<1>1. ChildInit => ChildInv
  BY ChildStart
<1>2. ChildInv /\ [ChildNext]_childVars => ChildInv'
  BY ChildByStep
<1>3. ChildInv => ChildSound
  BY ChildFromInv
<1> QED BY <1>1, <1>2, <1>3, PTL DEF ChildSpec
=============================================================================
