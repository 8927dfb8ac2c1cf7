------------------------- MODULE SqliteWriterProofs -------------------------
(***************************************************************************)
(* Proofs about the writer for every queue size, batch size, number of     *)
(* operations and combination of faults.                                   *)
(***************************************************************************)
EXTENDS SqliteWriter, SequenceTheorems, TLAPS

-----------------------------------------------------------------------------
(* Lemmas about the sequence operators *)

\* Waking k parked puts keeps every put an operation.
LEMMA WakeType ==
  ASSUME NEW n \in Nat, NEW rdy \in Seq(Ops), putters \in Seq(Ops), Wake(n, rdy)
  PROVE  ready' \in Seq(Ops) /\ putters' \in Seq(Ops)
  <1> DEFINE k == Minimum(n, Len(putters))
  <1>1. k \in Nat /\ k <= Len(putters)
    BY LenProperties DEF Minimum
  <1>2. /\ SubSeq(putters, 1, k) \in Seq(Ops)
        /\ SubSeq(putters, k + 1, Len(putters)) \in Seq(Ops)
    BY <1>1, SubSeqProperties, ElementOfSeq
  <1> QED
    BY <1>2, ConcatProperties DEF Wake

\* Removing one entry of a sequence of operations leaves such a sequence.
LEMMA RemoveIndexType ==
  ASSUME NEW s \in Seq(Ops), NEW i \in 1 .. Len(s)
  PROVE  RemoveIndex(s, i) \in Seq(Ops)
  <1>1. SubSeq(s, 1, i - 1) \in Seq(Ops) /\ SubSeq(s, i + 1, Len(s)) \in Seq(Ops)
    BY SubSeqProperties, ElementOfSeq
  <1> QED
    BY <1>1, ConcatProperties DEF RemoveIndex

\* A queue is its first n entries followed by the rest.
LEMMA SplitSeq ==
  ASSUME NEW s \in Seq(Ops), NEW n \in 0 .. Len(s)
  PROVE  /\ SubSeq(s, 1, n) \in Seq(Ops) /\ Len(SubSeq(s, 1, n)) = n
         /\ SubSeq(s, n + 1, Len(s)) \in Seq(Ops)
         /\ Len(SubSeq(s, n + 1, Len(s))) = Len(s) - n
         /\ s = SubSeq(s, 1, n) \o SubSeq(s, n + 1, Len(s))
  <1>0. Len(s) \in Nat
    BY LenProperties
  <1>1. SubSeq(s, 1, n) \in Seq(Ops) /\ Len(SubSeq(s, 1, n)) = n
    BY <1>0, SubSeqProperties, ElementOfSeq
  <1>2. /\ SubSeq(s, n + 1, Len(s)) \in Seq(Ops)
        /\ Len(SubSeq(s, n + 1, Len(s))) = Len(s) - n
    BY <1>0, SubSeqProperties, ElementOfSeq
  <1>3. SubSeq(s, 1, n) \o SubSeq(s, n + 1, Len(s)) = SubSeq(s, 1, Len(s))
    <2>1. 1 \in 1 .. Len(s) + 1 /\ n \in 1 - 1 .. Len(s) /\ Len(s) \in n .. Len(s)
      BY <1>0
    <2> QED
      BY <2>1, ConcatAdjacentSubSeq
  <1> QED
    BY <1>1, <1>2, <1>3, SubSeqFull

\* Appending an operation.
LEMMA AppendOp ==
  ASSUME NEW s \in Seq(Ops), NEW o \in Ops
  PROVE  Append(s, o) \in Seq(Ops) /\ Len(Append(s, o)) = Len(s) + 1
  BY AppendProperties

-----------------------------------------------------------------------------
(* Types of the operators the actions are made of *)

\* The queue's length is a natural number.
LEMMA QLenNat ==
  ASSUME QueueType
  PROVE  QLen \in Nat /\ Len(queue) \in Nat /\ Len(putters) \in Nat
         /\ pill \in Int /\ QLen >= Len(queue)
  BY LenProperties DEF QueueType, QLen

\* _reap keeps the queue, the failure flag and the drop count well-typed.
LEMMA ReapType ==
  ASSUME QueueType, TaskType, RunType, CountType, Reap
  PROVE  QueueType' /\ failure' \in BOOLEAN /\ dropped' \in Nat
  <1>1. failure' \in BOOLEAN
    BY DEF Reap, FailureAfterReap, TaskType, RunType
  <1>2. CASE Abandons
    <2>1. ready' \in Seq(Ops) /\ putters' \in Seq(Ops)
      BY <1>2, QLenNat, WakeType DEF Reap, QueueType
    <2>2. queue' = <<>> /\ pill' = -1 /\ unfinished' \in Int /\ dropped' \in Nat
      BY <1>2, QLenNat DEF Reap, QueueType, CountType
    <2> QED
      BY <1>1, <2>1, <2>2, EmptySeq DEF QueueType
  <1>3. CASE ~Abandons
    BY <1>1, <1>3 DEF Reap, QueueType, CountType, queueVars
  <1> QED
    BY <1>2, <1>3

\* So does the _reap of a refused submit_soon.
LEMMA RefuseSoonType ==
  ASSUME QueueType, TaskType, RunType, CountType, CallType, RefuseSoon
  PROVE  QueueType' /\ failure' \in BOOLEAN /\ dropped' \in Nat /\ CallType'
  <1>1. failure' \in BOOLEAN /\ CallType'
    BY DEF RefuseSoon, FailureAfterReap, TaskType, RunType, callVars, CallType
  <1>2. CASE Abandons
    <2>1. ready' \in Seq(Ops) /\ putters' \in Seq(Ops)
      BY <1>2, QLenNat, WakeType DEF RefuseSoon, QueueType
    <2>2. queue' = <<>> /\ pill' = -1 /\ unfinished' \in Int /\ dropped' \in Nat
      BY <1>2, QLenNat DEF RefuseSoon, QueueType, CountType
    <2> QED
      BY <1>1, <2>1, <2>2, EmptySeq DEF QueueType
  <1>3. CASE ~Abandons
    BY <1>1, <1>3 DEF RefuseSoon, QueueType, CountType, queueVars
  <1> QED
    BY <1>2, <1>3

\* An accepted submit queues or parks the next operation.
LEMMA AcceptAwaitedType ==
  ASSUME QueueType, CallType, HistoryType, TaskType, CountType,
         NEW o \in Ops, o = submitted + 1, AcceptAwaited(o)
  PROVE  /\ QueueType' /\ CallType' /\ puts' \in Seq(Ops)
         /\ failure' \in BOOLEAN /\ dropped' \in Nat
  <1>0. o \in 0 .. (MaxSubmits + 3)
    BY WriterAssumption DEF Ops, CallType
  <1>1. CallType'
    BY <1>0 DEF CallType, AcceptAwaited
  <1>2. failure' \in BOOLEAN /\ dropped' \in Nat
    BY DEF AcceptAwaited, TaskType, CountType
  <1>3. CASE Full
    <2>1. putters' \in Seq(Ops) /\ UNCHANGED <<queue, unfinished, puts, pill, ready>>
      BY <1>3, AppendOp DEF AcceptAwaited, QueueType
    <2> QED
      BY <1>1, <1>2, <2>1 DEF QueueType, HistoryType
  <1>4. CASE ~Full
    <2>1. /\ queue' \in Seq(Ops) /\ Len(queue') = Len(queue) + 1
          /\ puts' \in Seq(Ops) /\ unfinished' \in Int
          /\ UNCHANGED <<pill, ready, putters>>
      <3>1. /\ queue' = Append(queue, o) /\ puts' = Append(puts, o)
            /\ unfinished' = unfinished + 1 /\ UNCHANGED <<pill, ready, putters>>
        BY <1>4 DEF AcceptAwaited
      <3> QED
        BY <3>1, AppendOp DEF QueueType, HistoryType
    <2> QED
      BY <1>1, <1>2, <2>1, QLenNat DEF QueueType
  <1> QED
    BY <1>3, <1>4

\* An accepted submit_soon adds a put task.
LEMMA AcceptSoonType ==
  ASSUME QueueType, CallType, TaskType, CountType,
         NEW o \in Ops, o = submitted + 1, AcceptSoon(o)
  PROVE  /\ QueueType' /\ CallType'
         /\ failure' \in BOOLEAN /\ dropped' \in Nat
  <1>0. o \in 0 .. (MaxSubmits + 3)
    BY WriterAssumption DEF Ops, CallType
  <1>1. CallType'
    BY <1>0 DEF CallType, AcceptSoon
  <1>2. ready' \in Seq(Ops)
    BY AppendOp DEF AcceptSoon, QueueType
  <1> QED
    BY <1>1, <1>2 DEF AcceptSoon, QueueType, TaskType, CountType

\* A withdrawn put leaves the other puts where they were.
LEMMA WithdrawAwaitedType ==
  ASSUME QueueType, CallType, WithdrawAwaited, UNCHANGED <<queue, pill, unfinished, submitted>>
  PROVE  QueueType' /\ CallType'
  <1>1. CASE \E i \in 1 .. Len(putters) :
               /\ told' = [told EXCEPT ![putters[i]] = "withdrawn"]
               /\ putters' = RemoveIndex(putters, i)
               /\ UNCHANGED ready
    BY <1>1, RemoveIndexType DEF QueueType, CallType
  <1>2. CASE \E i \in 1 .. Len(ready) :
               /\ told' = [told EXCEPT ![ready[i]] = "withdrawn"]
               /\ Wake(IF Full THEN 0 ELSE 1, RemoveIndex(ready, i))
    <2>1. PICK i \in 1 .. Len(ready) :
               /\ told' = [told EXCEPT ![ready[i]] = "withdrawn"]
               /\ Wake(IF Full THEN 0 ELSE 1, RemoveIndex(ready, i))
      BY <1>2
    <2>2. RemoveIndex(ready, i) \in Seq(Ops)
      BY RemoveIndexType DEF QueueType
    <2>3. ready' \in Seq(Ops) /\ putters' \in Seq(Ops)
      BY <2>1, <2>2, WakeType DEF QueueType
    <2> QED
      BY <2>1, <2>3 DEF QueueType, CallType
  <1> QED
    BY <1>1, <1>2 DEF WithdrawAwaited

-----------------------------------------------------------------------------
(* The type invariant *)

\* Which stage a step of the clean-up belongs to.
CleanupShape ==
    /\ step \in {"gather", "join"} => stage \in {"totals", "presence", "changes", "close"}
    /\ step = "parked" => stage \in {"presence", "changes"}
    /\ step = "submit" => stage \in {"presence", "changes", "finish"}

\* The run itself submits three operations after the targets are done.
SubmitBound ==
    /\ stage \in {"targets", "totals"} => submitted <= MaxSubmits
    /\ stage = "presence" =>
         submitted <= MaxSubmits + (IF step = "submit" THEN 0 ELSE 1)
    /\ stage = "changes" =>
         submitted <= MaxSubmits + (IF step = "submit" THEN 1 ELSE 2)
    /\ stage = "finish" => submitted <= MaxSubmits + 2

\* The cached sequence number is the next free one.
CacheExact == seqCache \in {-1, Len(runEvents)}

\* The worker thread's variables.
RowsInv == TxType /\ GapFree /\ CacheExact

\* The run's stage, step and submissions.
StageInv == CallType /\ RunType /\ CleanupShape /\ SubmitBound

\* The task, counter and history types.
RestType == TaskType /\ CountType /\ HistoryType

\* The inductive invariant behind type correctness and gap-free sequences.
TypeInv == QueueType /\ RowsInv /\ StageInv /\ RestType

\* The next sequence number is the number of rows, cached or read.
LEMMA FirstSequenceValue ==
  ASSUME TxType, GapFree, CacheExact
  PROVE  FirstSequence = Len(runEvents) /\ Len(runEvents) \in Nat
  <1> DEFINE n == Len(runEvents)
  <1>1. n \in Nat
    BY LenProperties DEF TxType
  <1>2. CASE seqCache # -1
    BY <1>1, <1>2 DEF CacheExact, FirstSequence
  <1>3. CASE seqCache = -1 /\ runEvents = <<>>
    BY <1>3, <1>1, EmptySeq DEF FirstSequence, NextEventSequence
  <1>4. CASE seqCache = -1 /\ runEvents # <<>>
    <2>1. n > 0
      BY <1>4, <1>1, EmptySeq DEF TxType
    <2>2. EventRows = 0 .. n - 1
      <3>1. \A s \in EventRows : s \in 0 .. n - 1
        BY <1>1 DEF EventRows, GapFree
      <3>2. \A s \in 0 .. n - 1 : s + 1 \in 1 .. n /\ runEvents[s + 1] = s
        BY <1>1 DEF GapFree
      <3>3. \A s \in 0 .. n - 1 : s \in EventRows
        BY <3>2 DEF EventRows
      <3> QED
        BY <3>1, <3>3
    <2>3. (CHOOSE s \in EventRows : \A t \in EventRows : t <= s) = n - 1
      BY <1>1, <2>1, <2>2
    <2>4. NextEventSequence = 1 + (n - 1)
      BY <1>4, <2>3 DEF NextEventSequence
    <2>5. FirstSequence = NextEventSequence
      BY <1>4 DEF FirstSequence
    <2> QED
      BY <1>1, <2>4, <2>5
  <1> QED
    BY <1>2, <1>3, <1>4

\* A commit appends the next numbers and moves the cache behind them.
LEMMA CommitSequences ==
  ASSUME TxType, GapFree, CacheExact, CommitTry
  PROVE  /\ runEvents' \in Seq(Int) /\ seqCache' \in Nat
         /\ GapFree' /\ CacheExact'
  <1> DEFINE n == Len(runEvents)
             k == Len(txn)
             new == [i \in 1 .. k |-> n + i - 1]
  <1>1. FirstSequence = n /\ n \in Nat /\ k \in Nat
    BY FirstSequenceValue, LenProperties DEF TxType
  <1>2. new \in Seq(Int) /\ Len(new) = k
    <2>1. new \in [1 .. k -> Int]
      BY <1>1
    <2> QED
      BY <1>1, <2>1, SeqDef, LenProperties
  <1>3. runEvents' = runEvents \o new /\ seqCache' = n + k
    BY <1>1 DEF CommitTry
  <1>4. /\ runEvents' \in Seq(Int) /\ Len(runEvents') = n + k
        /\ \A i \in 1 .. n + k : runEvents'[i] = IF i <= n THEN runEvents[i] ELSE new[i - n]
    BY <1>2, <1>3, ConcatProperties DEF TxType
  <1>5. \A j \in 1 .. k : new[j] = n + j - 1
    OBVIOUS
  <1> HIDE DEF new
  <1>6. \A i \in 1 .. n + k : runEvents'[i] = i - 1
    <2> SUFFICES ASSUME NEW i \in 1 .. n + k PROVE runEvents'[i] = i - 1
      OBVIOUS
    <2>0. i \in Int /\ 1 <= i /\ i <= n + k
      BY <1>1
    <2>1. CASE i <= n
      <3>1. runEvents'[i] = runEvents[i]
        BY <1>4, <2>1
      <3>2. runEvents[i] = i - 1
        BY <1>1, <2>0, <2>1 DEF GapFree
      <3> QED
        BY <3>1, <3>2
    <2>2. CASE ~(i <= n)
      <3>1. runEvents'[i] = new[i - n]
        BY <1>4, <2>2
      <3>2. i - n \in 1 .. k
        BY <1>1, <2>0, <2>2
      <3>3. new[i - n] = n + (i - n) - 1
        BY <1>5, <3>2
      <3> QED
        BY <1>1, <2>0, <3>1, <3>3
    <2> QED
      BY <2>1, <2>2
  <1> QED
    BY <1>1, <1>3, <1>4, <1>6 DEF GapFree, CacheExact

\* Only the worker thread and the hand-over of a batch touch them.
LEMMA RowsFrame ==
  ASSUME RowsInv, UNCHANGED txVars
  PROVE  RowsInv'
  BY DEF RowsInv, TxType, GapFree, CacheExact, txVars

\* Nothing the run's stage depends on moves.
LEMMA StageFrame ==
  ASSUME StageInv, UNCHANGED <<runVars, callVars, closeVars>>
  PROVE  StageInv'
  BY DEF StageInv, CallType, RunType, CleanupShape, SubmitBound, runVars, callVars, closeVars

\* The submissions of the targets and the runs of parked puts.
LEMMA ProducerType ==
  ASSUME TypeInv, Producer \/ RunPut
  PROVE  TypeInv'
  <1>0. QueueType /\ RowsInv /\ StageInv /\ RestType
    BY DEF TypeInv
  <1>a. /\ CallType /\ RunType /\ CleanupShape /\ SubmitBound
        /\ TaskType /\ CountType /\ HistoryType
    BY <1>0 DEF StageInv, RestType
  <1>b. UNCHANGED <<txVars, runVars, closeVars, loop, cancelling, drainTimeouts, broadcast>>
    BY DEF Producer, RunPut, Submit, SubmitRefused, SubmitSoon, SubmitSoonRefused,
           CancelSubmit, taskVars
  <1>c. RowsInv'
    BY <1>0, <1>b, RowsFrame
  <1>d. RunType' /\ CleanupShape'
    BY <1>a, <1>b DEF RunType, CleanupShape, runVars, closeVars
  <1>e. submitted + 1 \in Ops /\ submitted + 1 <= MaxSubmits
    /\ stage = "targets" /\ submitted' = submitted + 1 => SubmitBound'
    BY <1>a, <1>b, WriterAssumption DEF SubmitBound, runVars, CallType
  <1>f. ASSUME submitted < MaxSubmits PROVE submitted + 1 \in Ops /\ submitted + 1 <= MaxSubmits
    BY <1>a, <1>f, WriterAssumption DEF CallType, Ops
  <1>1. CASE Submit
    <2>1. /\ AcceptAwaited(submitted + 1) /\ submitted < MaxSubmits /\ stage = "targets"
          /\ submitted' = submitted + 1
      BY <1>1 DEF Submit, AcceptAwaited
    <2>2. /\ QueueType' /\ CallType' /\ puts' \in Seq(Ops)
          /\ failure' \in BOOLEAN /\ dropped' \in Nat
      BY <1>0, <1>a, <1>f, <2>1, AcceptAwaitedType
    <2> QED
      BY <1>a, <1>b, <1>c, <1>d, <1>e, <1>f, <2>1, <2>2
         DEF TypeInv, StageInv, RestType, TaskType, CountType, HistoryType
  <1>2. CASE SubmitRefused
    <2>1. QueueType' /\ failure' \in BOOLEAN /\ dropped' \in Nat
      BY <1>0, <1>a, <1>2, ReapType DEF SubmitRefused
    <2>2. UNCHANGED <<callVars, puts>>
      BY <1>2 DEF SubmitRefused
    <2> QED
      BY <1>0, <1>a, <1>b, <1>c, <2>1, <2>2, StageFrame
         DEF TypeInv, RestType, TaskType, CountType, HistoryType
  <1>3. CASE SubmitSoon
    <2>1. /\ AcceptSoon(submitted + 1) /\ submitted < MaxSubmits /\ stage = "targets"
          /\ submitted' = submitted + 1 /\ UNCHANGED puts
      BY <1>3 DEF SubmitSoon, AcceptSoon
    <2>2. /\ QueueType' /\ CallType'
          /\ failure' \in BOOLEAN /\ dropped' \in Nat
      BY <1>0, <1>a, <1>f, <2>1, AcceptSoonType
    <2> QED
      BY <1>a, <1>b, <1>c, <1>d, <1>e, <1>f, <2>1, <2>2
         DEF TypeInv, StageInv, RestType, TaskType, CountType, HistoryType
  <1>4. CASE SubmitSoonRefused
    <2>1. QueueType' /\ failure' \in BOOLEAN /\ dropped' \in Nat
      BY <1>0, <1>a, <1>4, RefuseSoonType DEF SubmitSoonRefused
    <2>2. UNCHANGED <<callVars, puts>>
      BY <1>4 DEF SubmitSoonRefused, RefuseSoon
    <2> QED
      BY <1>0, <1>a, <1>b, <1>c, <2>1, <2>2, StageFrame
         DEF TypeInv, RestType, TaskType, CountType, HistoryType
  <1>5. CASE CancelSubmit
    <2>1. /\ WithdrawAwaited
          /\ UNCHANGED <<queue, pill, unfinished, submitted, failure, dropped, puts>>
      BY <1>5 DEF CancelSubmit, taskVars
    <2>2. QueueType' /\ CallType'
      BY <1>0, <1>a, <2>1, WithdrawAwaitedType
    <2>3. SubmitBound'
      BY <1>a, <1>b, <2>1 DEF SubmitBound, runVars
    <2> QED
      BY <1>a, <1>b, <1>c, <1>d, <2>1, <2>2, <2>3
         DEF TypeInv, StageInv, RestType, TaskType, CountType, HistoryType
  <1>6. CASE RunPut
    <2>0. ready # <<>> /\ submitted' = submitted
      BY <1>6 DEF RunPut
    <2> DEFINE o == Head(ready)
    <2>1. o \in Ops /\ Tail(ready) \in Seq(Ops)
      BY <1>0, <2>0, HeadTailProperties DEF QueueType
    <2>2. SubmitBound'
      BY <1>a, <1>b, <2>0 DEF SubmitBound, runVars
    <2>3. QueueType' /\ CallType' /\ failure' \in BOOLEAN /\ dropped' \in Nat /\ puts' \in Seq(Ops)
      <3>1. CASE Full
        <4>1. /\ putters' = Append(putters, o) /\ ready' = Tail(ready)
              /\ UNCHANGED <<queue, pill, unfinished, told, failure, dropped, puts>>
          BY <1>6, <3>1 DEF RunPut
        <4>2. putters' \in Seq(Ops)
          BY <1>0, <2>1, <4>1, AppendOp DEF QueueType
        <4> QED
          BY <1>0, <1>a, <2>0, <2>1, <4>1, <4>2
             DEF QueueType, CallType, TaskType, CountType, HistoryType
      <3>2. CASE ~Full
        <4>1. /\ puts' = Append(puts, o) /\ told' = [told EXCEPT ![o] = Answer(o)]
              /\ failure' = FailureAfterReap
          BY <1>6, <3>2 DEF RunPut
        <4>2. puts' \in Seq(Ops)
          BY <1>a, <2>1, <4>1, AppendOp DEF HistoryType
        <4>3. CallType' /\ failure' \in BOOLEAN
          BY <1>a, <2>0, <2>1, <4>1
             DEF CallType, Answer, FailureAfterReap, TaskType, RunType
        <4>4. CASE Abandons
          <5>1. /\ queue' = <<>> /\ pill' = -1 /\ unfinished' = unfinished - QLen
                /\ dropped' = dropped + Len(queue) + 1
                /\ Wake(QLen + 1, Tail(ready))
            BY <1>6, <3>2, <4>4 DEF RunPut
          <5>0. QLen + 1 \in Nat /\ putters \in Seq(Ops)
            BY <1>0, QLenNat DEF QueueType
          <5>2. ready' \in Seq(Ops) /\ putters' \in Seq(Ops)
            BY <2>1, <5>0, <5>1, WakeType
          <5> QED
            BY <1>0, <1>a, <4>2, <4>3, <5>1, <5>2, QLenNat, EmptySeq, SMTT(60) DEF QueueType, CountType
        <4>5. CASE ~Abandons
          <5>1. /\ queue' = Append(queue, o) /\ unfinished' = unfinished + 1
                /\ ready' = Tail(ready) /\ UNCHANGED <<pill, putters, dropped>>
            BY <1>6, <3>2, <4>5 DEF RunPut
          <5>2. queue' \in Seq(Ops) /\ Len(queue') = Len(queue) + 1
            BY <1>0, <2>1, <5>1, AppendOp DEF QueueType
          <5> QED
            BY <1>0, <1>a, <2>1, <4>2, <4>3, <5>1, <5>2, QLenNat DEF QueueType, CountType
        <4> QED
          BY <4>4, <4>5
      <3> QED
        BY <3>1, <3>2
    <2> QED
      BY <1>a, <1>b, <1>c, <1>d, <2>2, <2>3
         DEF TypeInv, StageInv, RestType, TaskType, CountType, HistoryType
  <1> QED
    BY <1>1, <1>2, <1>3, <1>4, <1>5, <1>6 DEF Producer

\* The writer task and a cancel aimed at it.
LEMMA WriterTaskType ==
  ASSUME TypeInv, WriterTask \/ CancelTask
  PROVE  TypeInv'
  <1>0. QueueType /\ RowsInv /\ StageInv /\ RestType
    BY DEF TypeInv
  <1>a. TaskType /\ CountType /\ HistoryType /\ TxType
    BY <1>0 DEF RestType, RowsInv
  <1>b. UNCHANGED <<callVars, runVars, closeVars, seqCache, durable, runEvents,
                    drainTimeouts, puts>>
    BY DEF WriterTask, TakeSentinel, TakeBatch, CommitReturns, CommitRaises, Drop,
           DeliverCancel, CancelTask, txVars
  <1>c. StageInv'
    BY <1>0, <1>b, StageFrame
  <1>d. GapFree' /\ CacheExact'
    BY <1>0, <1>b DEF RowsInv, GapFree, CacheExact
  <1>1. CASE TakeSentinel
    <2>1. /\ pill' = -1 /\ unfinished' = unfinished - 1 /\ Wake(1, ready)
          /\ loop' = "stopped" /\ queue' = queue
          /\ UNCHANGED <<cancelling, failure, txn, thread, dropped, broadcast>>
      BY <1>1 DEF TakeSentinel, txVars
    <2>2. ready' \in Seq(Ops) /\ putters' \in Seq(Ops)
      BY <1>0, <2>1, WakeType DEF QueueType
    <2>3. QueueType'
      BY <1>0, <2>1, <2>2, QLenNat DEF QueueType
    <2> QED
      BY <1>a, <1>b, <1>c, <1>d, <2>1, <2>3
         DEF TypeInv, RestType, TaskType, CountType, HistoryType, RowsInv, TxType
  <1>2. CASE TakeBatch
    <2> DEFINE ahead == IF pill > 0 THEN pill ELSE Len(queue)
               n == Minimum(MaxOpsPerTx, ahead)
               meets == pill = n /\ n < MaxOpsPerTx
    <2>1. /\ txn' = SubSeq(queue, 1, n) /\ queue' = SubSeq(queue, n + 1, Len(queue))
          /\ pill' = IF pill < 0 THEN -1 ELSE IF meets THEN Len(queue) - n ELSE pill - n
          /\ unfinished' = unfinished + PutBack(meets)
          /\ Wake(IF meets THEN n + 1 ELSE n, ready)
          /\ thread' = "handed" /\ loop' = "commit"
          /\ UNCHANGED <<cancelling, failure, dropped, broadcast>>
      BY <1>2 DEF TakeBatch
    <2>2. n \in 0 .. Len(queue) /\ (pill > 0 => n <= pill) /\ n \in Nat /\ n + 1 \in Nat
      BY <1>0, QLenNat, WriterAssumption DEF Minimum, QueueType
    <2> HIDE DEF n
    <2>3. /\ txn' \in Seq(Ops) /\ queue' \in Seq(Ops)
          /\ Len(queue') = Len(queue) - n
      BY <1>0, <2>1, <2>2, SplitSeq DEF QueueType
    <2>4. ready' \in Seq(Ops) /\ putters' \in Seq(Ops)
      BY <1>0, <2>1, <2>2, WakeType DEF QueueType
    <2>5. pill' \in -1 .. Len(queue')
      <3>1. pill # 0 /\ pill \in Int /\ pill <= Len(queue) /\ pill >= -1 /\ Len(queue) \in Nat
        BY <1>0, <1>2, QLenNat DEF TakeBatch, QueueType
      <3> QED
        BY <2>1, <2>2, <2>3, <3>1
    <2>6. unfinished' \in Int
      BY <1>0, <2>1 DEF PutBack, QueueType
    <2> QED
      BY <1>a, <1>b, <1>c, <1>d, <2>1, <2>3, <2>4, <2>5, <2>6
         DEF TypeInv, QueueType, RestType, TaskType, CountType, HistoryType, RowsInv, TxType
  <1>3. CASE CommitReturns
    <2>1. /\ unfinished' = unfinished - Len(txn) /\ txn' = <<>> /\ thread' = "idle"
          /\ loop' \in {"get", "died"}
          /\ broadcast' = broadcast \o txn \/ broadcast' = broadcast
          /\ UNCHANGED <<queue, pill, putters, ready, cancelling, failure, dropped>>
      BY <1>3 DEF CommitReturns
    <2>a. broadcast \o txn \in Seq(Ops) /\ broadcast \in Seq(Ops)
      BY <1>a, ConcatProperties DEF HistoryType, TxType
    <2>2. broadcast' \in Seq(Ops) /\ txn' \in Seq(Ops)
      BY <2>a, <2>1, EmptySeq
    <2>3. QueueType'
      BY <1>0, <1>a, <2>1, LenProperties DEF QueueType, TxType
    <2> QED
      BY <1>a, <1>b, <1>c, <1>d, <2>1, <2>2, <2>3
         DEF TypeInv, RestType, TaskType, CountType, HistoryType, RowsInv, TxType
  <1>4. CASE CommitRaises
    <2>1. /\ unfinished' = unfinished - Len(txn) /\ txn' = <<>> /\ thread' = "idle"
          /\ loop' = "drop" /\ failure' = TRUE
          /\ UNCHANGED <<queue, pill, putters, ready, cancelling, dropped, broadcast>>
      BY <1>4 DEF CommitRaises, AfterFailedCommit
    <2>2. txn' \in Seq(Ops)
      BY <2>1, EmptySeq
    <2>3. QueueType'
      BY <1>0, <1>a, <2>1, LenProperties DEF QueueType, TxType
    <2> QED
      BY <1>a, <1>b, <1>c, <1>d, <2>1, <2>2, <2>3
         DEF TypeInv, RestType, TaskType, CountType, HistoryType, RowsInv, TxType
  <1>5. CASE Drop
    <2>1. /\ Wake(1, ready) /\ unfinished' = unfinished - 1
          /\ loop' \in {loop, "stopped"}
          /\ dropped' \in {dropped, dropped + 1}
          /\ UNCHANGED <<cancelling, failure, txn, thread, broadcast>>
      BY <1>5 DEF Drop, txVars
    <2>2. ready' \in Seq(Ops) /\ putters' \in Seq(Ops)
      BY <1>0, <2>1, WakeType DEF QueueType
    <2>3. queue' \in Seq(Ops) /\ pill' \in -1 .. Len(queue')
      <3>1. CASE pill = 0
        BY <1>0, <1>5, <3>1, QLenNat DEF Drop, QueueType
      <3>2. CASE pill # 0
        <4>0. Len(queue) > 0
          BY <1>0, <1>5, <3>2, QLenNat DEF Drop, QLen, QueueType
        <4>1. /\ queue # <<>> /\ queue' = Tail(queue)
              /\ pill' = IF pill > 0 THEN pill - 1 ELSE pill
          BY <1>5, <3>2, <4>0, EmptySeq DEF Drop
        <4>2. queue' \in Seq(Ops) /\ Len(queue') = Len(queue) - 1
          BY <1>0, <4>1, HeadTailProperties DEF QueueType
        <4> QED
          BY <1>0, <3>2, <4>1, <4>2, QLenNat DEF QueueType
      <3> QED
        BY <3>1, <3>2
    <2> QED
      BY <1>0, <1>a, <1>b, <1>c, <1>d, <2>1, <2>2, <2>3, SMTT(60)
         DEF TypeInv, QueueType, RestType, TaskType, CountType, HistoryType, RowsInv, TxType
  <1>6. CASE DeliverCancel
    <2>1. /\ cancelling' = FALSE /\ loop' \in {"drop", "died"}
          /\ failure' \in {TRUE, failure}
          /\ unfinished' \in {unfinished, unfinished - Len(txn)}
          /\ UNCHANGED <<queue, pill, putters, ready, txVars, dropped, broadcast>>
      BY <1>6 DEF DeliverCancel
    <2>2. QueueType'
      BY <1>0, <1>a, <2>1, LenProperties DEF QueueType, TxType
    <2> QED
      BY <1>0, <1>a, <1>b, <1>c, <2>1, <2>2, RowsFrame
         DEF TypeInv, RestType, TaskType, CountType, HistoryType
  <1>7. CASE CancelTask
    <2>1. cancelling' = TRUE /\ UNCHANGED <<queueVars, loop, failure, txVars, dropped, broadcast>>
      BY <1>7 DEF CancelTask
    <2> QED
      BY <1>0, <1>a, <1>b, <1>c, <2>1, RowsFrame
         DEF TypeInv, QueueType, queueVars, RestType, TaskType, CountType, HistoryType
  <1> QED
    BY <1>1, <1>2, <1>3, <1>4, <1>5, <1>6, <1>7 DEF WriterTask

\* The worker thread.
LEMMA WorkerType ==
  ASSUME TypeInv, Worker
  PROVE  TypeInv'
  <1>0. QueueType /\ RowsInv /\ StageInv /\ RestType
    BY DEF TypeInv
  <1>1. UNCHANGED <<queueVars, callVars, taskVars, closeVars, runVars, dropped,
                    drainTimeouts, puts, broadcast, txn>>
    BY DEF Worker, BeginTry, CommitTry, RollbackTry
  <1>2. QueueType' /\ StageInv' /\ RestType'
    <2>1. QueueType' /\ RestType'
      BY <1>0, <1>1
         DEF QueueType, queueVars, RestType, TaskType, CountType, HistoryType, taskVars
    <2> QED
      BY <1>0, <1>1, <2>1, StageFrame
  <1>3. RowsInv'
    <2>1. CASE BeginTry
      BY <1>0, <1>1, <2>1 DEF BeginTry, RowsInv, TxType, GapFree, CacheExact
    <2>2. CASE RollbackTry
      BY <1>0, <1>1, <2>2
         DEF RollbackTry, SequencesRestored, RowsInv, TxType, GapFree, CacheExact
    <2>3. CASE CommitTry
      <3>1. /\ runEvents' \in Seq(Int) /\ seqCache' \in Nat
            /\ GapFree' /\ CacheExact'
        BY <1>0, <2>3, CommitSequences DEF RowsInv
      <3>2. durable' = durable \o txn /\ thread' = "ok" /\ txn' = txn
        BY <2>3 DEF CommitTry
      <3>3. durable' \in Seq(Ops)
        BY <1>0, <3>2, ConcatProperties DEF RowsInv, TxType
      <3> QED
        BY <1>0, <3>1, <3>2, <3>3 DEF RowsInv, TxType
    <2> QED
      BY <2>1, <2>2, <2>3 DEF Worker
  <1> QED
    BY <1>2, <1>3 DEF TypeInv

\* Leaving a stage keeps the shape of the clean-up and the submission bound.
LEMMA LeaveShape ==
  ASSUME StageInv, stage \in DOMAIN AfterStage, submitted' = submitted,
         step = "submit" => stage \in {"presence", "changes"},
         stage' = AfterStage[stage],
         \/ step' = IF stage = "close" THEN "sentinel" ELSE "submit"
         \/ step' = IF stage = "close" THEN "release" ELSE "submit"
  PROVE  /\ CleanupShape' /\ SubmitBound'
         /\ stage' \in {"presence", "changes", "finish", "close"}
         /\ step' \in {"submit", "sentinel", "release"}
  <1>1. submitted \in Int /\ MaxSubmits \in Nat
    BY WriterAssumption DEF StageInv, CallType
  <1>2. CASE stage = "totals"
    <2>1. stage' = "presence" /\ step' = "submit"
      BY <1>2 DEF AfterStage
    <2> QED
      BY <1>1, <1>2, <2>1 DEF StageInv, CleanupShape, SubmitBound
  <1>3. CASE stage = "presence"
    <2>1. stage' = "changes" /\ step' = "submit"
      BY <1>3 DEF AfterStage
    <2> QED
      BY <1>1, <1>3, <2>1 DEF StageInv, CleanupShape, SubmitBound
  <1>4. CASE stage = "changes"
    <2>1. stage' = "finish" /\ step' = "submit"
      BY <1>4 DEF AfterStage
    <2> QED
      BY <1>1, <1>4, <2>1 DEF StageInv, CleanupShape, SubmitBound
  <1>5. CASE stage = "close"
    <2>1. stage' = "close" /\ step' \in {"sentinel", "release"}
      BY <1>5 DEF AfterStage
    <2> QED
      BY <1>1, <1>5, <2>1 DEF StageInv, CleanupShape, SubmitBound
  <1> QED
    BY <1>2, <1>3, <1>4, <1>5 DEF AfterStage

\* The run's clean-up.
LEMMA CleanupType ==
  ASSUME TypeInv, Cleanup
  PROVE  TypeInv'
  <1>0. QueueType /\ RowsInv /\ StageInv /\ RestType
    BY DEF TypeInv
  <1>a. /\ CallType /\ RunType /\ CleanupShape /\ SubmitBound
        /\ TaskType /\ CountType /\ HistoryType
    BY <1>0 DEF StageInv, RestType
  <1>b. UNCHANGED <<txVars, loop, broadcast>>
    BY DEF Cleanup, StartCleanup, GatherDone, DrainTrue, DrainTimeout, CancelCleanup,
           SettleSkip, SettleSubmit, SettleDrain, SubmitFinishRun, PutSentinel,
           Release, CloseConnection, taskVars
  <1>c. RowsInv'
    BY <1>0, <1>b, RowsFrame
  <1>d. submitted \in Int /\ MaxSubmits \in Nat /\ drainTimeouts \in Nat
    BY <1>a, WriterAssumption DEF CallType, CountType
  <1>e. DOMAIN AfterStage = {"totals", "presence", "changes", "close"}
    BY DEF AfterStage
  <1>1. CASE StartCleanup
    <2>1. /\ Reap /\ stage = "targets" /\ stage' = "totals" /\ step' = "gather"
          /\ UNCHANGED <<callVars, cancelling, closeVars, drainTimeouts, puts>>
      BY <1>1 DEF StartCleanup
    <2>2. QueueType' /\ failure' \in BOOLEAN /\ dropped' \in Nat
      BY <1>0, <1>a, <2>1, ReapType
    <2>3. StageInv'
      BY <1>a, <1>d, <2>1 DEF StageInv, CallType, RunType, CleanupShape, SubmitBound,
         callVars, closeVars
    <2> QED
      BY <1>a, <1>b, <1>c, <2>1, <2>2, <2>3
         DEF TypeInv, RestType, TaskType, CountType, HistoryType
  <1>2. CASE GatherDone
    <2>1. /\ Reap /\ step = "gather"
          /\ UNCHANGED <<callVars, cancelling, closeVars, drainTimeouts, puts>>
      BY <1>2 DEF GatherDone
    <2>2. QueueType' /\ failure' \in BOOLEAN /\ dropped' \in Nat
      BY <1>0, <1>a, <2>1, ReapType
    <2>3. stage \in DOMAIN AfterStage
      BY <1>a, <1>e, <2>1 DEF CleanupShape
    <2>4. CleanupShape' /\ SubmitBound' /\ RunType'
      <3>1. CASE TaskDone
        <4>1. LeaveTo(AfterStage[stage])
          BY <1>2, <3>1 DEF GatherDone
        <4>2. /\ CleanupShape' /\ SubmitBound'
              /\ stage' \in {"presence", "changes", "finish", "close"}
              /\ step' \in {"submit", "sentinel", "release"}
          BY <1>0, <2>1, <2>3, <4>1, LeaveShape DEF LeaveTo, callVars
        <4> QED
          BY <1>a, <2>1, <4>2 DEF RunType, closeVars
      <3>2. CASE ~TaskDone
        <4>1. stage' = stage /\ step' = "join"
          BY <1>2, <3>2 DEF GatherDone
        <4> QED
          BY <1>a, <1>d, <2>1, <4>1
             DEF RunType, closeVars, CleanupShape, SubmitBound, callVars
      <3> QED
        BY <3>1, <3>2
    <2>5. CallType'
      BY <1>a, <2>1 DEF CallType, callVars
    <2> QED
      BY <1>a, <1>b, <1>c, <2>1, <2>2, <2>4, <2>5
         DEF TypeInv, StageInv, RestType, TaskType, CountType, HistoryType
  <1>3. CASE DrainTrue \/ SettleSkip
    <2>1. /\ LeaveTo(AfterStage[stage]) /\ step \in {"join", "submit"}
          /\ step = "submit" => stage \in {"presence", "changes"}
          /\ UNCHANGED <<queueVars, callVars, taskVars, closeVars, dropped, drainTimeouts, puts>>
      BY <1>3 DEF DrainTrue, SettleSkip
    <2>2. /\ CleanupShape' /\ SubmitBound'
          /\ stage' \in {"presence", "changes", "finish", "close"}
          /\ step' \in {"submit", "sentinel", "release"}
      <3>1. stage \in DOMAIN AfterStage
        BY <1>a, <1>e, <2>1 DEF CleanupShape
      <3> QED
        BY <1>0, <2>1, <3>1, LeaveShape DEF LeaveTo, callVars
    <2> QED
      BY <1>0, <1>a, <1>b, <1>c, <2>1, <2>2
         DEF TypeInv, QueueType, queueVars, StageInv, CallType, callVars, RunType,
             closeVars, RestType, TaskType, taskVars, CountType, HistoryType
  <1>4. CASE DrainTimeout \/ CancelCleanup
    <2>1. /\ stage' = AfterStage[stage]
          /\ \/ step' = IF stage = "close" THEN "sentinel" ELSE "submit"
             \/ step' = IF stage = "close" THEN "release" ELSE "submit"
          /\ step \in {"gather", "join", "parked"}
          /\ drainTimeouts' \in {drainTimeouts, drainTimeouts + 1}
          /\ UNCHANGED <<queue, pill, unfinished, submitted, taskVars, closeVars, dropped, puts>>
      BY <1>4 DEF DrainTimeout, CancelCleanup, LeaveTo
    <2>2. /\ CleanupShape' /\ SubmitBound'
          /\ stage' \in {"presence", "changes", "finish", "close"}
          /\ step' \in {"submit", "sentinel", "release"}
      <3>1. stage \in DOMAIN AfterStage
        BY <1>a, <1>e, <2>1 DEF CleanupShape
      <3> QED
        BY <1>0, <2>1, <3>1, LeaveShape
    <2>3. \/ WithdrawDeferred \/ UNCHANGED <<told, putters, ready>> \/ WithdrawAwaited
      BY <1>4 DEF DrainTimeout, CancelCleanup
    <2>4. QueueType' /\ CallType'
      <3>1. CASE WithdrawDeferred
        <4>1. /\ putters' = <<>> /\ ready' = <<>>
              /\ told' = [o \in Ops |-> IF o \in Waiting THEN "withdrawn" ELSE told[o]]
          BY <3>1 DEF WithdrawDeferred
        <4> QED
          BY <1>0, <1>a, <2>1, <4>1, EmptySeq DEF QueueType, CallType
      <3>2. CASE UNCHANGED <<told, putters, ready>>
        BY <1>0, <1>a, <2>1, <3>2 DEF QueueType, CallType
      <3>3. CASE WithdrawAwaited
        BY <1>0, <1>a, <2>1, <3>3, WithdrawAwaitedType
      <3> QED
        BY <2>3, <3>1, <3>2, <3>3
    <2> QED
      BY <1>a, <1>b, <1>c, <1>d, <2>1, <2>2, <2>4
         DEF TypeInv, StageInv, RunType, closeVars, RestType, TaskType, taskVars,
             CountType, HistoryType
  <1>5. CASE SettleSubmit
    <2>0. /\ stage \in {"presence", "changes"} /\ step = "submit"
          /\ UNCHANGED <<cancelling, closeVars, drainTimeouts>>
      BY <1>5 DEF SettleSubmit
    <2>1. CASE AcceptAwaited(submitted + 1) /\ step' = "parked" /\ stage' = stage
      <3>1. submitted + 1 \in Ops
        BY <1>a, <1>d, <2>0 DEF SubmitBound, CallType, Ops
      <3>2. /\ QueueType' /\ CallType' /\ puts' \in Seq(Ops)
            /\ failure' \in BOOLEAN /\ dropped' \in Nat
        BY <1>0, <1>a, <2>1, <3>1, AcceptAwaitedType
      <3>3. submitted' = submitted + 1
        BY <2>1 DEF AcceptAwaited
      <3>4. StageInv'
        BY <1>a, <1>d, <2>0, <2>1, <3>2, <3>3
           DEF StageInv, RunType, CleanupShape, SubmitBound, closeVars
      <3> QED
        BY <1>a, <1>b, <1>c, <2>0, <3>2, <3>4
           DEF TypeInv, RestType, TaskType, CountType, HistoryType
    <2>2. CASE Reap /\ LeaveTo(AfterStage[stage]) /\ UNCHANGED <<callVars, puts>>
      <3>1. QueueType' /\ failure' \in BOOLEAN /\ dropped' \in Nat
        BY <1>0, <1>a, <2>2, ReapType
      <3>2. /\ CleanupShape' /\ SubmitBound'
            /\ stage' \in {"presence", "changes", "finish", "close"}
            /\ step' \in {"submit", "sentinel", "release"}
        BY <1>0, <1>e, <2>0, <2>2, LeaveShape DEF LeaveTo, callVars
      <3> QED
        BY <1>a, <1>b, <1>c, <2>0, <2>2, <3>1, <3>2
           DEF TypeInv, StageInv, CallType, callVars, RunType, closeVars, RestType,
               TaskType, CountType, HistoryType
    <2> QED
      BY <1>5, <2>1, <2>2 DEF SettleSubmit
  <1>6. CASE SettleDrain
    <2>0. /\ stage \in {"presence", "changes"} /\ step = "parked"
          /\ UNCHANGED <<callVars, cancelling, closeVars, drainTimeouts, puts>>
      BY <1>6, <1>a DEF SettleDrain, CleanupShape
    <2>1. CASE step' = "gather" /\ stage' = stage /\ Reap
      <3>1. QueueType' /\ failure' \in BOOLEAN /\ dropped' \in Nat
        BY <1>0, <1>a, <2>1, ReapType
      <3>2. StageInv'
        BY <1>a, <1>d, <2>0, <2>1
           DEF StageInv, CallType, RunType, CleanupShape, SubmitBound, closeVars, callVars
      <3> QED
        BY <1>a, <1>b, <1>c, <2>0, <3>1, <3>2
           DEF TypeInv, RestType, TaskType, CountType, HistoryType
    <2>2. CASE LeaveTo(AfterStage[stage]) /\ UNCHANGED <<queueVars, dropped, failure>>
      <3>2. /\ CleanupShape' /\ SubmitBound'
            /\ stage' \in {"presence", "changes", "finish", "close"}
            /\ step' \in {"submit", "sentinel", "release"}
        BY <1>0, <1>e, <2>0, <2>2, LeaveShape DEF LeaveTo, callVars
      <3> QED
        BY <1>0, <1>a, <1>b, <1>c, <2>0, <2>2, <3>2
           DEF TypeInv, QueueType, queueVars, StageInv, CallType, callVars, RunType,
               closeVars, RestType, TaskType, CountType, HistoryType
    <2> QED
      BY <1>6, <2>1, <2>2 DEF SettleDrain
  <1>7. CASE SubmitFinishRun
    <2>0. /\ stage = "finish" /\ stage' = "close" /\ step' = "gather"
          /\ UNCHANGED <<cancelling, closeVars, drainTimeouts, puts>>
          /\ AcceptSoon(submitted + 1) \/ RefuseSoon
      BY <1>7 DEF SubmitFinishRun
    <2>1. submitted + 1 \in Ops
      BY <1>a, <1>d, <2>0 DEF SubmitBound, CallType, Ops
    <2>2. QueueType' /\ failure' \in BOOLEAN /\ dropped' \in Nat /\ CallType'
      <3>1. CASE AcceptSoon(submitted + 1)
        BY <1>0, <1>a, <2>1, <3>1, AcceptSoonType
      <3>2. CASE RefuseSoon
        BY <1>0, <1>a, <3>2, RefuseSoonType
      <3> QED
        BY <2>0, <3>1, <3>2
    <2>3. StageInv'
      BY <1>a, <2>0, <2>2 DEF StageInv, RunType, CleanupShape, SubmitBound, closeVars
    <2> QED
      BY <1>a, <1>b, <1>c, <2>0, <2>2, <2>3
         DEF TypeInv, RestType, TaskType, CountType, HistoryType
  <1>8. CASE PutSentinel
    <2>1. /\ step' = "wait" /\ unfinished' \in {unfinished, unfinished + 1}
          /\ pill' \in {pill, Len(queue)}
          /\ UNCHANGED <<queue, putters, ready, callVars, taskVars, closeVars, stage,
                         dropped, drainTimeouts, puts>>
      BY <1>8 DEF PutSentinel, QueueEnd
    <2>2. QueueType'
      BY <1>0, <2>1, QLenNat DEF QueueType
    <2>3. StageInv'
      <3>1. step = "sentinel"
        BY <1>8 DEF PutSentinel
      <3> QED
        BY <1>a, <1>d, <2>1, <3>1 DEF StageInv, CallType, RunType, CleanupShape, SubmitBound,
           callVars, closeVars
    <2> QED
      BY <1>a, <1>b, <1>c, <2>1, <2>2, <2>3
         DEF TypeInv, RestType, TaskType, taskVars, CountType, HistoryType
  <1>9. CASE Release
    <2>1. /\ Reap /\ step' = "unlock" /\ held' = FALSE /\ conn' = "taken"
          /\ cancelling' = (cancelling \/ ~TaskDone)
          /\ step \in {"wait", "release"}
          /\ UNCHANGED <<callVars, stage, drainTimeouts, puts>>
      BY <1>9 DEF Release
    <2>2. QueueType' /\ failure' \in BOOLEAN /\ dropped' \in Nat
      BY <1>0, <1>a, <2>1, ReapType
    <2>3. StageInv'
      BY <1>a, <1>d, <2>1 DEF StageInv, CallType, RunType, CleanupShape, SubmitBound, callVars
    <2>4. cancelling' \in BOOLEAN
      BY <1>a, <2>1 DEF TaskType, TaskDone
    <2> QED
      BY <1>a, <1>b, <1>c, <2>1, <2>2, <2>3, <2>4
         DEF TypeInv, RestType, TaskType, CountType, HistoryType
  <1>10. CASE CloseConnection
    <2>1. /\ conn' \in {"leaked", "closed"} /\ stage' = "closed" /\ step' = "end"
          /\ UNCHANGED <<queueVars, callVars, taskVars, held, dropped, drainTimeouts, puts>>
      BY <1>10 DEF CloseConnection, ClosedOrLeaked
    <2> QED
      BY <1>0, <1>a, <1>b, <1>c, <2>1
         DEF TypeInv, QueueType, queueVars, StageInv, CallType, callVars, RunType,
             CleanupShape, SubmitBound, RestType, TaskType, taskVars, CountType, HistoryType
  <1> QED
    BY <1>1, <1>2, <1>3, <1>4, <1>5, <1>6, <1>7, <1>8, <1>9, <1>10 DEF Cleanup

\* Every step keeps the invariant.
LEMMA TypeStep ==
  TypeInv /\ [Next]_vars => TypeInv'
  <1> SUFFICES ASSUME TypeInv, [Next]_vars PROVE TypeInv'
    OBVIOUS
  <1>1. CASE Producer \/ RunPut
    BY <1>1, ProducerType
  <1>2. CASE WriterTask \/ CancelTask
    BY <1>2, WriterTaskType
  <1>3. CASE Worker
    BY <1>3, WorkerType
  <1>4. CASE Cleanup
    BY <1>4, CleanupType
  <1>5. CASE UNCHANGED vars
    <2>1. UNCHANGED <<txVars, runVars, callVars, closeVars>>
      BY <1>5 DEF vars
    <2>2. RowsInv' /\ StageInv'
      BY <2>1, RowsFrame, StageFrame DEF TypeInv
    <2> QED
      BY <1>5, <2>2 DEF vars, TypeInv, QueueType, queueVars, RestType, TaskType, taskVars,
         CountType, HistoryType
  <1> QED
    BY <1>1, <1>2, <1>3, <1>4, <1>5 DEF Next, Closed

\* It holds initially, the events of an earlier run of the same id included.
LEMMA TypeInit ==
  Init => TypeInv
  <1> SUFFICES ASSUME Init PROVE TypeInv
    OBVIOUS
  <1>1. PICK n \in 0 .. PriorEvents : runEvents = [i \in 1 .. n |-> i - 1]
    BY DEF Init
  <1>2. n \in Nat
    BY WriterAssumption
  <1>3. runEvents \in Seq(Int) /\ Len(runEvents) = n
    <2>1. runEvents \in [1 .. n -> Int]
      BY <1>1, <1>2
    <2> QED
      BY <1>2, <2>1, SeqDef, LenProperties
  <1>4. GapFree /\ CacheExact
    BY <1>1, <1>3 DEF GapFree, CacheExact, Init
  <1>a. <<>> \in Seq(Ops) /\ Len(<<>>) = 0
    BY EmptySeq
  <1>5. QueueType /\ RestType
    <2>1. QueueType
      BY <1>a DEF Init, QueueType
    <2>2. RestType
      BY <1>a DEF Init, RestType, TaskType, CountType, HistoryType
    <2> QED
      BY <2>1, <2>2
  <1>6. RowsInv
    BY <1>3, <1>4, EmptySeq DEF Init, RowsInv, TxType
  <1>7. StageInv
    BY WriterAssumption DEF Init, StageInv, CallType, RunType, CleanupShape, SubmitBound
  <1> QED
    BY <1>5, <1>6, <1>7 DEF TypeInv

LEMMA TypeInvariant ==
  Spec => []TypeInv
  BY TypeInit, TypeStep, PTL DEF Spec

\* Type correctness of the writer and of the clean-up that drives it, for any
\* queue size, transaction size and number of operations.
THEOREM TypeCorrect ==
  Spec => []TypeOK
  <1>1. TypeInv => TypeOK
    BY DEF TypeInv, TypeOK, RowsInv, StageInv, RestType
  <1> QED
    BY <1>1, TypeInvariant, PTL

\* The run_events sequence column is 0, 1, 2, ... for every number of resumed
\* rows, retries and rollbacks: _commit_once restores the cache it took, so
\* the cached number is always the next free one.
THEOREM SequencesGapFree ==
  Spec => []GapFree
  <1>1. TypeInv => GapFree
    BY DEF TypeInv, RowsInv
  <1> QED
    BY <1>1, TypeInvariant, PTL


-----------------------------------------------------------------------------
(* The join counter and the commit lock *)

\* What the writer task holds outside the queue, and the sentinel's share.
InHand == IF loop = "commit" THEN Len(txn) ELSE 0
Pilled == IF pill >= 0 THEN 1 ELSE 0

\* The counter as a sum, and the sentinel queued once, by aclose.
CounterInv ==
    /\ unfinished = Len(queue) + Pilled + InHand
    /\ pill >= 0 => step \in {"wait", "unlock", "end"}
    /\ stage = "targets" => step = "fetch"

LEMMA CounterTerms ==
  ASSUME QueueType, TxType
  PROVE  /\ Len(queue) \in Nat /\ Len(txn) \in Nat /\ unfinished \in Int
         /\ pill \in Int /\ pill <= Len(queue) /\ -1 <= pill
         /\ InHand \in Nat /\ Pilled \in Nat /\ QLen = Len(queue) + Pilled
  BY QLenNat, LenProperties DEF QueueType, TxType, InHand, Pilled, QLen

\* A death check takes from the counter what it takes from the queue, and
\* only after the task is done.
LEMMA ReapCounter ==
  ASSUME QueueType, TxType, CounterInv, Reap \/ RefuseSoon, UNCHANGED <<loop, txn>>
  PROVE  /\ unfinished' = Len(queue') + Pilled' + InHand'
         /\ pill' \in {pill, -1}
  <1>1. CASE Abandons
    <2>1. /\ queue' = <<>> /\ pill' = -1 /\ unfinished' = unfinished - QLen
          /\ loop \in {"stopped", "died"}
      BY <1>1 DEF Reap, RefuseSoon, Abandons, TaskDone
    <2>2. Len(queue') = 0 /\ Pilled' = 0 /\ InHand' = 0 /\ InHand = 0
      BY <2>1, EmptySeq DEF Pilled, InHand
    <2> QED
      BY <2>1, <2>2, CounterTerms DEF CounterInv
  <1>2. CASE ~Abandons
    <2>1. UNCHANGED <<queue, pill, unfinished>>
      BY <1>2 DEF Reap, RefuseSoon, queueVars
    <2> QED
      BY <2>1 DEF CounterInv, Pilled, InHand
  <1> QED
    BY <1>1, <1>2

\* Queueing one operation adds one to both sides.
LEMMA QueueCounter ==
  ASSUME QueueType, TxType, CounterInv, UNCHANGED <<loop, txn, pill>>,
         NEW o \in Ops, queue' = Append(queue, o), unfinished' = unfinished + 1
  PROVE  unfinished' = Len(queue') + Pilled' + InHand'
  <1>1. Len(queue') = Len(queue) + 1
    BY AppendOp DEF QueueType
  <1>2. Pilled' = Pilled /\ InHand' = InHand
    BY DEF Pilled, InHand
  <1> QED
    BY <1>1, <1>2, CounterTerms, SMTT(60) DEF CounterInv

\* Submissions, puts and the clean-up keep the sum.
LEMMA CounterCalls ==
  ASSUME TypeInv, CounterInv, Producer \/ RunPut \/ Cleanup
  PROVE  CounterInv'
  <1>0. QueueType /\ TxType /\ SubmitBound /\ CallType /\ CleanupShape
    BY DEF TypeInv, RowsInv, StageInv
  <1>a. UNCHANGED <<loop, txn>>
    BY DEF Producer, RunPut, Submit, SubmitRefused, SubmitSoon, SubmitSoonRefused, CancelSubmit,
           Cleanup, StartCleanup, GatherDone, DrainTrue, DrainTimeout, CancelCleanup,
           SettleSkip, SettleSubmit, SettleDrain, SubmitFinishRun, PutSentinel,
           Release, CloseConnection, taskVars, txVars
  <1>b. ASSUME UNCHANGED <<queue, pill, unfinished>>
        PROVE  unfinished' = Len(queue') + Pilled' + InHand' /\ pill' \in {pill, -1}
    BY <1>a, <1>b DEF CounterInv, Pilled, InHand
  <1>c. ASSUME AcceptAwaited(submitted + 1), submitted + 1 \in Ops
        PROVE  unfinished' = Len(queue') + Pilled' + InHand' /\ pill' \in {pill, -1}
    <2>1. CASE Full
      BY <1>b, <1>c, <2>1 DEF AcceptAwaited
    <2>2. CASE ~Full
      <3>1. /\ queue' = Append(queue, submitted + 1) /\ unfinished' = unfinished + 1
            /\ pill' = pill
        BY <1>c, <2>2 DEF AcceptAwaited
      <3> QED
        BY <1>0, <1>a, <1>c, <3>1, QueueCounter
    <2> QED
      BY <2>1, <2>2
  <1>d. ASSUME Reap \/ RefuseSoon
        PROVE  unfinished' = Len(queue') + Pilled' + InHand' /\ pill' \in {pill, -1}
    BY <1>0, <1>a, <1>d, ReapCounter
  <1>1. CASE Submit
    <2>1. /\ AcceptAwaited(submitted + 1) /\ submitted + 1 \in Ops
          /\ UNCHANGED <<stage, step>>
      BY <1>0, <1>1, WriterAssumption DEF Submit, CallType, Ops, runVars
    <2> QED
      BY <1>0, <1>c, <2>1, CounterTerms DEF CounterInv
  <1>2. CASE SettleSubmit
    <2>1. step = "submit" /\ stage \in {"presence", "changes"} /\ submitted + 1 \in Ops
      BY <1>0, <1>2, WriterAssumption DEF SettleSubmit, SubmitBound, CallType, Ops
    <2>2. unfinished' = Len(queue') + Pilled' + InHand' /\ pill' \in {pill, -1}
      BY <1>2, <1>c, <1>d, <2>1 DEF SettleSubmit
    <2>3. stage' # "targets"
      BY <1>2, <2>1 DEF SettleSubmit, LeaveTo, AfterStage
    <2> QED
      BY <1>0, <2>1, <2>2, <2>3, CounterTerms DEF CounterInv
  <1>3. CASE RunPut
    <2>0. ready # <<>> /\ UNCHANGED <<stage, step>>
      BY <1>3 DEF RunPut, runVars
    <2>1. Head(ready) \in Ops
      BY <1>0, <2>0, HeadTailProperties DEF QueueType
    <2>2. CASE Full
      <3>1. UNCHANGED <<queue, pill, unfinished>>
        BY <1>3, <2>2 DEF RunPut
      <3> QED
        BY <1>0, <1>b, <2>0, <3>1 DEF CounterInv
    <2>3. CASE ~Full /\ Abandons
      <3>1. /\ queue' = <<>> /\ pill' = -1 /\ unfinished' = unfinished - QLen
            /\ loop \in {"stopped", "died"}
        BY <1>3, <2>3 DEF RunPut, Abandons, TaskDone
      <3>2. Len(queue') = 0 /\ Pilled' = 0 /\ InHand' = 0 /\ InHand = 0
        BY <1>a, <3>1, EmptySeq DEF Pilled, InHand
      <3> QED
        BY <1>0, <2>0, <3>1, <3>2, CounterTerms DEF CounterInv
    <2>4. CASE ~Full /\ ~Abandons
      <3>1. /\ queue' = Append(queue, Head(ready)) /\ unfinished' = unfinished + 1
            /\ pill' = pill
        BY <1>3, <2>4 DEF RunPut
      <3>2. unfinished' = Len(queue') + Pilled' + InHand'
        BY <1>0, <1>a, <2>1, <3>1, QueueCounter
      <3> QED
        BY <2>0, <3>1, <3>2 DEF CounterInv
    <2> QED
      BY <2>2, <2>3, <2>4
  <1>4. CASE SubmitRefused \/ SubmitSoonRefused \/ SubmitSoon \/ CancelSubmit
    <2>1. /\ Reap \/ RefuseSoon \/ UNCHANGED <<queue, pill, unfinished>>
          /\ UNCHANGED <<stage, step>>
      BY <1>4 DEF SubmitRefused, SubmitSoonRefused, SubmitSoon, AcceptSoon, CancelSubmit, runVars
    <2>2. unfinished' = Len(queue') + Pilled' + InHand' /\ pill' \in {pill, -1}
      BY <1>b, <1>d, <2>1
    <2> QED
      BY <2>1, <2>2 DEF CounterInv
  <1>5. CASE StartCleanup \/ GatherDone \/ SettleDrain \/ SubmitFinishRun \/ DrainTrue
             \/ DrainTimeout \/ CancelCleanup \/ SettleSkip
    <2>1. /\ Reap \/ RefuseSoon \/ UNCHANGED <<queue, pill, unfinished>>
          /\ step \in {"fetch", "gather", "join", "submit", "parked"}
      BY <1>5 DEF StartCleanup, GatherDone, SettleDrain, SubmitFinishRun, AcceptSoon,
         DrainTrue, DrainTimeout, CancelCleanup, SettleSkip, queueVars, CounterInv
    <2>2. unfinished' = Len(queue') + Pilled' + InHand' /\ pill' \in {pill, -1}
      BY <1>b, <1>d, <2>1
    <2>3. stage' # "targets"
      <3>1. CASE StartCleanup \/ SubmitFinishRun
        BY <3>1 DEF StartCleanup, SubmitFinishRun
      <3>2. CASE GatherDone \/ SettleDrain \/ DrainTrue \/ DrainTimeout \/ CancelCleanup
                 \/ SettleSkip
        <4>1. stage \in {"totals", "presence", "changes", "close"}
          BY <1>0, <3>2 DEF CleanupShape, GatherDone, SettleDrain, DrainTrue, DrainTimeout,
             CancelCleanup, SettleSkip
        <4>2. stage' = stage \/ stage' = AfterStage[stage]
          BY <3>2 DEF GatherDone, SettleDrain, DrainTrue, DrainTimeout,
             CancelCleanup, SettleSkip, LeaveTo
        <4> QED
          BY <4>1, <4>2 DEF AfterStage
      <3> QED
        BY <1>5, <3>1, <3>2
    <2> QED
      BY <1>0, <2>1, <2>2, <2>3, CounterTerms DEF CounterInv
  <1>6. CASE PutSentinel
    <2>1. pill < 0 /\ step' = "wait" /\ UNCHANGED <<queue, stage>> /\ step = "sentinel"
      BY <1>0, <1>6, CounterTerms DEF PutSentinel, CounterInv
    <2>2. CASE Full
      <3>1. UNCHANGED <<pill, unfinished>>
        BY <1>6, <2>2 DEF PutSentinel
      <3> QED
        BY <1>b, <2>1, <3>1 DEF CounterInv
    <2>3. CASE ~Full
      <3>1. pill' = Len(queue) /\ unfinished' = unfinished + 1
        BY <1>6, <2>3 DEF PutSentinel, QueueEnd
      <3>2. Pilled' = 1 /\ Pilled = 0 /\ InHand' = InHand
        BY <1>0, <1>a, <2>1, <3>1, CounterTerms DEF Pilled, InHand
      <3> QED
        BY <1>0, <2>1, <3>1, <3>2, CounterTerms, SMTT(60) DEF CounterInv
    <2> QED
      BY <2>2, <2>3
  <1>7. CASE Release \/ CloseConnection
    <2>1. /\ Reap \/ UNCHANGED <<queue, pill, unfinished>>
          /\ step' \in {"unlock", "end"} /\ stage' \in {stage, "closed"}
          /\ step # "fetch"
      BY <1>7 DEF Release, CloseConnection, queueVars
    <2>2. unfinished' = Len(queue') + Pilled' + InHand' /\ pill' \in {pill, -1}
      BY <1>b, <1>d, <2>1
    <2> QED
      BY <2>1, <2>2 DEF CounterInv
  <1> QED
    BY <1>1, <1>2, <1>3, <1>4, <1>5, <1>6, <1>7 DEF Producer, Cleanup

\* The writer task settles exactly what it took.
LEMMA CounterTask ==
  ASSUME TypeInv, CounterInv, WriterTask \/ CancelTask \/ Worker \/ UNCHANGED vars
  PROVE  CounterInv'
  <1>0. QueueType /\ TxType
    BY DEF TypeInv, RowsInv
  <1>a. UNCHANGED <<stage, step>>
    BY DEF WriterTask, CancelTask, TakeSentinel, TakeBatch, CommitReturns, CommitRaises, Drop,
           DeliverCancel, Worker, BeginTry, CommitTry, RollbackTry, runVars, vars
  <1>1. CASE CancelTask \/ Worker \/ UNCHANGED vars
    <2>1. UNCHANGED <<queue, pill, unfinished, loop, txn>>
      BY <1>1 DEF CancelTask, Worker, BeginTry, CommitTry, RollbackTry,
         vars, queueVars, txVars, taskVars
    <2> QED
      BY <1>a, <2>1 DEF CounterInv, Pilled, InHand
  <1>2. CASE TakeSentinel
    <2>1. /\ pill = 0 /\ pill' = -1 /\ unfinished' = unfinished - 1 /\ queue' = queue
          /\ loop = "get" /\ loop' = "stopped"
      BY <1>2 DEF TakeSentinel
    <2>2. Pilled = 1 /\ Pilled' = 0 /\ InHand = 0 /\ InHand' = 0
      BY <2>1 DEF Pilled, InHand
    <2> QED
      BY <1>0, <1>a, <2>1, <2>2, CounterTerms DEF CounterInv
  <1>3. CASE CommitReturns \/ CommitRaises \/ (DeliverCancel /\ loop = "commit")
    <2>1. /\ UNCHANGED <<queue, pill>> /\ unfinished' = unfinished - Len(txn)
          /\ loop = "commit" /\ loop' \in {"get", "died", "drop"}
      BY <1>3 DEF CommitReturns, CommitRaises, AfterFailedCommit, DeliverCancel
    <2>2. Pilled' = Pilled /\ InHand = Len(txn) /\ InHand' = 0
      BY <2>1 DEF Pilled, InHand
    <2> QED
      BY <1>0, <1>a, <2>1, <2>2, CounterTerms, SMTT(60) DEF CounterInv
  <1>4. CASE DeliverCancel /\ loop # "commit"
    <2>1. UNCHANGED <<queue, pill, unfinished>> /\ loop' = "died"
      BY <1>4 DEF DeliverCancel
    <2>2. Pilled' = Pilled /\ InHand = 0 /\ InHand' = 0
      BY <1>4, <2>1 DEF Pilled, InHand
    <2> QED
      BY <1>0, <1>a, <2>1, <2>2, CounterTerms DEF CounterInv
  <1>5. CASE Drop
    <2>0. loop = "drop" /\ loop' \in {"drop", "stopped"} /\ unfinished' = unfinished - 1
          /\ QLen > 0
      BY <1>5 DEF Drop
    <2>1. InHand = 0 /\ InHand' = 0
      BY <2>0 DEF InHand
    <2>2. CASE pill = 0
      <3>1. pill' = -1 /\ queue' = queue
        BY <1>5, <2>2 DEF Drop
      <3>2. Pilled = 1 /\ Pilled' = 0
        BY <2>2, <3>1 DEF Pilled
      <3> QED
        BY <1>0, <1>a, <2>0, <2>1, <3>1, <3>2, CounterTerms DEF CounterInv
    <2>3. CASE pill # 0
      <3>1. Len(queue) > 0
        BY <1>0, <2>0, <2>3, CounterTerms DEF Pilled
      <3>2. /\ queue # <<>> /\ queue' = Tail(queue)
            /\ pill' = (IF pill > 0 THEN pill - 1 ELSE pill)
        BY <1>5, <2>3, <3>1, EmptySeq DEF Drop
      <3>3. Len(queue') = Len(queue) - 1
        BY <1>0, <3>2, HeadTailProperties DEF QueueType
      <3>4. (pill' >= 0 <=> pill >= 0) /\ Pilled' = Pilled
        BY <1>0, <2>3, <3>2, CounterTerms DEF Pilled
      <3> QED
        BY <1>0, <1>a, <2>0, <2>1, <3>3, <3>4, CounterTerms, SMTT(60) DEF CounterInv
    <2> QED
      BY <2>2, <2>3
  <1>6. CASE TakeBatch
    <2> DEFINE ahead == IF pill > 0 THEN pill ELSE Len(queue)
               n == Minimum(MaxOpsPerTx, ahead)
               meets == pill = n /\ n < MaxOpsPerTx
    <2>1. /\ txn' = SubSeq(queue, 1, n) /\ queue' = SubSeq(queue, n + 1, Len(queue))
          /\ pill' = IF pill < 0 THEN -1 ELSE IF meets THEN Len(queue) - n ELSE pill - n
          /\ unfinished' = unfinished + PutBack(meets)
          /\ loop' = "commit" /\ loop = "get" /\ pill # 0
      BY <1>6 DEF TakeBatch
    <2>2. n \in 0 .. Len(queue) /\ (pill > 0 => n <= pill)
      BY <1>0, CounterTerms, WriterAssumption DEF Minimum
    <2> HIDE DEF n
    <2>3. Len(txn') = n /\ Len(queue') = Len(queue) - n
      BY <1>0, <2>1, <2>2, SplitSeq DEF QueueType
    <2>4. unfinished' = unfinished
      BY <1>0, <2>1, CounterTerms DEF PutBack
    <2>5. (pill' >= 0 <=> pill >= 0) /\ Pilled' = Pilled /\ InHand = 0 /\ InHand' = n
      BY <1>0, <2>1, <2>2, <2>3, CounterTerms, SMTT(60) DEF Pilled, InHand
    <2> QED
      BY <1>0, <1>a, <2>1, <2>2, <2>3, <2>4, <2>5, CounterTerms DEF CounterInv
  <1> QED
    BY <1>1, <1>2, <1>3, <1>4, <1>5, <1>6 DEF WriterTask

LEMMA CounterStep ==
  TypeInv /\ CounterInv /\ [Next]_vars => CounterInv'
  BY CounterCalls, CounterTask DEF Next, Closed

\* join() waits for exactly what is queued or being committed.
THEOREM JoinCounterExact ==
  Spec => []JoinCounter
  <1>1. Init => CounterInv
    BY EmptySeq DEF Init, CounterInv, Pilled, InHand
  <1>2. CounterInv => JoinCounter
    BY DEF CounterInv, JoinCounter, QLen, Pilled, InHand
  <1> QED
    BY <1>1, <1>2, CounterStep, TypeInvariant, PTL DEF Spec

\* _close_connection never closes the connection under a transaction.
THEOREM CloseWaitsForCommit ==
  Spec => []ClosedOutsideCommit
  <1>1. Init => ClosedOutsideCommit
    BY DEF Init, ClosedOutsideCommit
  <1>2. ClosedOutsideCommit /\ [Next]_vars => ClosedOutsideCommit'
    <2> SUFFICES ASSUME ClosedOutsideCommit, [Next]_vars PROVE ClosedOutsideCommit'
      OBVIOUS
    <2>1. CASE Worker
      BY <2>1 DEF Worker, BeginTry, CommitTry, RollbackTry, ClosedOutsideCommit, Locked, closeVars
    <2>2. CASE WriterTask
      BY <2>2 DEF WriterTask, TakeSentinel, TakeBatch, CommitReturns, CommitRaises, Drop,
         DeliverCancel, ClosedOutsideCommit, Locked, closeVars, txVars
    <2>3. CASE Release \/ CloseConnection
      BY <2>3 DEF Release, CloseConnection, ClosedOrLeaked, ClosedOutsideCommit, Locked, txVars
    <2>4. CASE ~(Worker \/ WriterTask \/ Release \/ CloseConnection)
      <3>1. UNCHANGED <<conn, thread>>
        BY <2>4 DEF Next, Producer, RunPut, Submit, SubmitRefused, SubmitSoon, SubmitSoonRefused,
           CancelSubmit, CancelTask, Cleanup, StartCleanup, GatherDone, DrainTrue,
           DrainTimeout, CancelCleanup, SettleSkip, SettleSubmit, SettleDrain,
           SubmitFinishRun, PutSentinel, Closed, vars, txVars, closeVars
      <3> QED
        BY <3>1 DEF ClosedOutsideCommit, Locked
    <2> QED
      BY <2>1, <2>2, <2>3, <2>4
  <1> QED
    BY <1>1, <1>2, PTL DEF Spec

-----------------------------------------------------------------------------
(***************************************************************************)
(* What the writer makes durable and announces: commits follow the queue   *)
(* order, announcements follow the commits, the writer implements          *)
(* DurableLog, and what it tells its callers is true.                      *)
(***************************************************************************)
-----------------------------------------------------------------------------
(* Initial segments, stated by concatenation *)

\* t is s followed by more operations.
Starts(s, t) == \E r \in Seq(Ops) : t = s \o r

LEMMA StartsPrefix ==
  ASSUME NEW s \in Seq(Ops), NEW t \in Seq(Ops), Starts(s, t)
  PROVE  Prefix(s, t)
  <1>1. PICK r \in Seq(Ops) : t = s \o r
    BY DEF Starts
  <1>2. /\ Len(t) = Len(s) + Len(r) /\ Len(s) \in Nat /\ Len(r) \in Nat
        /\ \A i \in 1 .. Len(s) + Len(r) : t[i] = IF i <= Len(s) THEN s[i] ELSE r[i - Len(s)]
    BY <1>1, ConcatProperties, LenProperties
  <1> QED
    BY <1>2 DEF Prefix

LEMMA StartsRefl ==
  ASSUME NEW s \in Seq(Ops)
  PROVE  Starts(s, s)
  <1>1. s = s \o <<>> /\ <<>> \in Seq(Ops)
    BY ConcatEmptySeq, EmptySeq
  <1> QED
    BY <1>1 DEF Starts

LEMMA StartsConcat ==
  ASSUME NEW s \in Seq(Ops), NEW r \in Seq(Ops)
  PROVE  Starts(s, s \o r)
  BY DEF Starts

\* Appending behind a concatenation appends to its last part.
LEMMA AppendBehind ==
  ASSUME NEW s \in Seq(Ops), NEW q \in Seq(Ops), NEW o \in Ops
  PROVE  Append(s \o q, o) = s \o Append(q, o)
  <1>1. <<o>> \in Seq(Ops) /\ s \o q \in Seq(Ops)
    BY ConcatProperties
  <1>2. Append(s \o q, o) = (s \o q) \o <<o>>
    BY <1>1, AppendIsConcat
  <1>3. Append(q, o) = q \o <<o>>
    BY AppendIsConcat
  <1>4. (s \o q) \o <<o>> = s \o (q \o <<o>>)
    BY <1>1, ConcatAssociative
  <1> QED
    BY <1>2, <1>3, <1>4

LEMMA StartsAppend ==
  ASSUME NEW s \in Seq(Ops), NEW t \in Seq(Ops), NEW o \in Ops, Starts(s, t)
  PROVE  Starts(s, Append(t, o))
  <1>1. PICK r \in Seq(Ops) : t = s \o r
    BY DEF Starts
  <1>2. Append(t, o) = s \o Append(r, o) /\ Append(r, o) \in Seq(Ops)
    BY <1>1, AppendBehind, AppendOp
  <1> QED
    BY <1>2 DEF Starts

\* What starts t starts every continuation of t.
LEMMA StartsExtend ==
  ASSUME NEW s \in Seq(Ops), NEW t \in Seq(Ops), NEW x \in Seq(Ops), Starts(s, t)
  PROVE  Starts(s, t \o x)
  <1>1. PICK r \in Seq(Ops) : t = s \o r
    BY DEF Starts
  <1>2. t \o x = s \o (r \o x) /\ r \o x \in Seq(Ops)
    BY <1>1, ConcatAssociative, ConcatProperties, SMTT(60)
  <1> QED
    BY <1>2 DEF Starts

-----------------------------------------------------------------------------
(* The inductive invariant *)

Pending == thread \in {"handed", "first", "pause", "second"}

\* Where every operation that reached the queue is while the task is healthy,
\* and what a transaction that outlives its task may still commit.
PutsInv ==
    /\ Starts(durable, puts)
    /\ Pending => Starts(durable \o txn, puts)
    /\ loop = "get" => puts = durable \o queue
    /\ loop = "commit" =>
         puts = (IF thread = "ok" THEN durable ELSE durable \o txn) \o queue

\* How far behind the commits the announcements are.
HookInv ==
    /\ Starts(broadcast, durable)
    /\ loop = "get" => broadcast = durable
    /\ loop = "commit" =>
         durable = IF thread = "ok" THEN broadcast \o txn ELSE broadcast

\* No transaction runs while the task waits for a batch.
TaskInv ==
    /\ loop = "get" => thread = "idle"
    /\ loop = "commit" => thread # "idle"

FlowInv == PutsInv /\ HookInv /\ TaskInv

FlowType ==
    /\ queue \in Seq(Ops) /\ txn \in Seq(Ops) /\ durable \in Seq(Ops)
    /\ puts \in Seq(Ops) /\ broadcast \in Seq(Ops)
    /\ loop \in {"get", "commit", "drop", "stopped", "died"}

LEMMA TypeFlow ==
  ASSUME TypeInv
  PROVE  FlowType
  BY DEF TypeInv, FlowType, QueueType, RowsInv, TxType, RestType, TaskType, HistoryType

\* A step that only queues, or that works on a queue no task reads any more.
LEMMA FlowFrame ==
  ASSUME FlowInv, FlowType,
         UNCHANGED <<txn, thread, durable, broadcast>>,
         puts' = puts \/ \E o \in Ops : puts' = Append(puts, o),
         \/ loop' \in {"drop", "stopped", "died"}
         \/ loop' = loop /\ UNCHANGED <<queue, puts>>
         \/ loop' = loop /\ \E o \in Ops : puts' = Append(puts, o) /\ queue' = Append(queue, o)
  PROVE  FlowInv'
  <1>1. Starts(durable, puts)'
    <2>1. Starts(durable, puts')
      BY StartsAppend DEF FlowInv, PutsInv, FlowType
    <2> QED
      BY <2>1 DEF Starts
  <1>2. (Pending => Starts(durable \o txn, puts))'
    <2>1. durable \o txn \in Seq(Ops)
      BY ConcatProperties DEF FlowType
    <2>2. Pending => Starts(durable \o txn, puts')
      BY <2>1, StartsAppend DEF FlowInv, PutsInv, FlowType
    <2> QED
      BY <2>2 DEF Starts, Pending
  <1>3. HookInv' /\ TaskInv'
    BY DEF FlowInv, HookInv, TaskInv, Starts
  <1>4. CASE loop' \in {"drop", "stopped", "died"}
    BY <1>1, <1>2, <1>3, <1>4 DEF FlowInv, PutsInv
  <1>5. CASE loop' = loop /\ UNCHANGED <<queue, puts>>
    BY <1>1, <1>2, <1>3, <1>5 DEF FlowInv, PutsInv
  <1>6. CASE loop' = loop /\ \E o \in Ops : puts' = Append(puts, o) /\ queue' = Append(queue, o)
    <2>1. PICK o \in Ops : puts' = Append(puts, o) /\ queue' = Append(queue, o)
      BY <1>6
    <2> DEFINE base == IF thread = "ok" THEN durable ELSE durable \o txn
    <2>2. base \in Seq(Ops) /\ durable \in Seq(Ops) /\ queue \in Seq(Ops)
      BY ConcatProperties DEF FlowType
    <2>a. /\ loop = "get" => puts = durable \o queue
          /\ loop = "commit" => puts = base \o queue
      BY DEF FlowInv, PutsInv
    <2> HIDE DEF base
    <2>b. /\ Append(durable \o queue, o) = durable \o Append(queue, o)
          /\ Append(base \o queue, o) = base \o Append(queue, o)
      BY <2>2, AppendBehind
    <2>3. loop = "get" => Append(puts, o) = durable \o Append(queue, o)
      BY <2>a, <2>b, Zenon
    <2>4. loop = "commit" => Append(puts, o) = base \o Append(queue, o)
      BY <2>a, <2>b, Zenon
    <2> USE DEF base
    <2> QED
      BY <1>1, <1>2, <1>3, <1>6, <2>1, <2>3, <2>4 DEF FlowInv, PutsInv
  <1> QED
    BY <1>4, <1>5, <1>6

\* What a death check does to the queue.
LEMMA ReapFlow ==
  ASSUME Reap \/ RefuseSoon, loop' = loop
  PROVE  loop' \in {"drop", "stopped", "died"} \/ queue' = queue
  BY DEF Reap, RefuseSoon, Abandons, TaskDone, queueVars

\* Submissions, puts and the clean-up.
LEMMA FlowCalls ==
  ASSUME TypeInv, FlowInv, Producer \/ RunPut \/ Cleanup
  PROVE  FlowInv'
  <1>0. FlowType /\ QueueType /\ CallType /\ SubmitBound /\ CleanupShape
    BY TypeFlow DEF TypeInv, StageInv
  <1>1. UNCHANGED <<txn, thread, durable, broadcast, loop>>
    BY DEF Producer, RunPut, Submit, SubmitRefused, SubmitSoon, SubmitSoonRefused, CancelSubmit,
           Cleanup, StartCleanup, GatherDone, DrainTrue, DrainTimeout, CancelCleanup,
           SettleSkip, SettleSubmit, SettleDrain, SubmitFinishRun, PutSentinel,
           Release, CloseConnection, taskVars, txVars
  <1>2. ASSUME NEW o \in Ops, AcceptAwaited(o)
        PROVE  \/ UNCHANGED <<queue, puts>>
               \/ puts' = Append(puts, o) /\ queue' = Append(queue, o)
    BY <1>2 DEF AcceptAwaited
  <1>3. CASE Submit \/ SettleSubmit
    <2>1. CASE AcceptAwaited(submitted + 1)
      <3>1. submitted + 1 \in Ops
        BY <1>0, <1>3, WriterAssumption DEF Submit, SettleSubmit, SubmitBound, CallType, Ops
      <3> QED
        BY <1>0, <1>1, <1>2, <2>1, <3>1, FlowFrame
    <2>2. CASE Reap /\ UNCHANGED puts
      BY <1>0, <1>1, <2>2, ReapFlow, FlowFrame
    <2> QED
      BY <1>3, <2>1, <2>2 DEF Submit, SettleSubmit
  <1>4. CASE RunPut
    <2> DEFINE o == Head(ready)
    <2>1. o \in Ops
      BY <1>0, <1>4, HeadTailProperties DEF RunPut, QueueType
    <2>2. CASE Full
      BY <1>0, <1>1, <1>4, <2>2, FlowFrame DEF RunPut
    <2>3. CASE ~Full /\ Abandons
      <3>1. puts' = Append(puts, o) /\ loop \in {"stopped", "died"}
        BY <1>4, <2>3 DEF RunPut, Abandons, TaskDone
      <3> QED
        BY <1>0, <1>1, <2>1, <3>1, FlowFrame
    <2>4. CASE ~Full /\ ~Abandons
      <3>1. puts' = Append(puts, o) /\ queue' = Append(queue, o)
        BY <1>4, <2>4 DEF RunPut
      <3> QED
        BY <1>0, <1>1, <2>1, <3>1, FlowFrame
    <2> QED
      BY <2>2, <2>3, <2>4
  <1>5. CASE SubmitRefused \/ SubmitSoonRefused \/ StartCleanup \/ GatherDone \/ Release
    <2>1. (Reap \/ RefuseSoon) /\ UNCHANGED puts
      BY <1>5 DEF SubmitRefused, SubmitSoonRefused, StartCleanup, GatherDone, Release
    <2> QED
      BY <1>0, <1>1, <2>1, ReapFlow, FlowFrame
  <1>6. CASE SettleDrain
    <2>1. UNCHANGED puts /\ (Reap \/ UNCHANGED queue)
      BY <1>6 DEF SettleDrain, queueVars
    <2> QED
      BY <1>0, <1>1, <2>1, ReapFlow, FlowFrame
  <1>7. CASE SubmitFinishRun
    <2>1. UNCHANGED puts /\ (RefuseSoon \/ UNCHANGED queue)
      BY <1>7 DEF SubmitFinishRun, AcceptSoon
    <2> QED
      BY <1>0, <1>1, <2>1, ReapFlow, FlowFrame
  <1>8. CASE SubmitSoon \/ CancelSubmit \/ DrainTrue \/ DrainTimeout \/ CancelCleanup
             \/ SettleSkip \/ PutSentinel \/ CloseConnection
    <2>1. UNCHANGED <<queue, puts>>
      BY <1>8 DEF SubmitSoon, AcceptSoon, CancelSubmit, DrainTrue, DrainTimeout,
         CancelCleanup, SettleSkip, PutSentinel, CloseConnection, queueVars
    <2> QED
      BY <1>0, <1>1, <2>1, FlowFrame
  <1> QED
    BY <1>3, <1>4, <1>5, <1>6, <1>7, <1>8 DEF Producer, Cleanup


\* The writer task: a batch is the head of the queue, and the task settles it.
LEMMA FlowTask ==
  ASSUME TypeInv, FlowInv, WriterTask \/ CancelTask
  PROVE  FlowInv'
  <1>0. FlowType /\ QueueType
    BY TypeFlow DEF TypeInv
  <1>1. CASE TakeSentinel \/ Drop \/ DeliverCancel
    <2>1. /\ loop' \in {"drop", "stopped", "died"}
          /\ UNCHANGED <<txn, thread, durable, broadcast, puts>>
      BY <1>1 DEF TakeSentinel, Drop, DeliverCancel, txVars
    <2> QED
      BY <1>0, <2>1, FlowFrame
  <1>2. CASE CancelTask
    <2>1. UNCHANGED <<txn, thread, durable, broadcast, puts, queue, loop>>
      BY <1>2 DEF CancelTask, txVars, queueVars
    <2> QED
      BY <1>0, <2>1, FlowFrame
  <1>3. CASE TakeBatch
    <2> DEFINE ahead == IF pill > 0 THEN pill ELSE Len(queue)
               n == Minimum(MaxOpsPerTx, ahead)
    <2>1. /\ txn' = SubSeq(queue, 1, n) /\ queue' = SubSeq(queue, n + 1, Len(queue))
          /\ thread' = "handed" /\ loop' = "commit" /\ loop = "get"
          /\ UNCHANGED <<durable, broadcast, puts>>
      BY <1>3 DEF TakeBatch
    <2>2. n \in 0 .. Len(queue)
      BY <1>0, QLenNat, WriterAssumption DEF Minimum, QueueType
    <2> HIDE DEF n
    <2>3. /\ txn' \in Seq(Ops) /\ queue' \in Seq(Ops)
          /\ queue = txn' \o queue'
      BY <1>0, <2>1, <2>2, SplitSeq DEF QueueType
    <2>4. puts = durable \o queue /\ broadcast = durable /\ durable \in Seq(Ops)
      BY <1>0, <2>1 DEF FlowInv, PutsInv, HookInv, FlowType
    <2>a. durable \o (txn' \o queue') = (durable \o txn') \o queue'
      BY <2>3, <2>4, ConcatAssociative, SMTT(60)
    <2>5. puts = (durable \o txn') \o queue'
      BY <2>3, <2>4, <2>a, Zenon
    <2>6. Starts(durable \o txn', puts)
      BY <2>3, <2>4, <2>5, ConcatProperties DEF Starts
    <2>7. PutsInv'
      BY <2>1, <2>5, <2>6 DEF PutsInv, FlowInv, Starts
    <2>8. HookInv' /\ TaskInv'
      BY <2>1, <2>4 DEF HookInv, TaskInv, FlowInv, Starts
    <2> QED
      BY <2>7, <2>8 DEF FlowInv
  <1>4. CASE CommitReturns
    <2>1. /\ thread = "ok" /\ loop = "commit" /\ thread' = "idle"
          /\ \/ loop' = "get" /\ broadcast' = broadcast \o txn
             \/ loop' = "died" /\ broadcast' = broadcast
          /\ UNCHANGED <<queue, durable, puts>>
      BY <1>4 DEF CommitReturns, TransactionCommitted
    <2>2. puts = durable \o queue /\ durable = broadcast \o txn /\ durable \in Seq(Ops)
      BY <1>0, <2>1 DEF FlowInv, PutsInv, HookInv, FlowType
    <2>3. PutsInv'
      BY <2>1, <2>2 DEF FlowInv, PutsInv, Pending, Starts
    <2>4. CASE loop' = "get" /\ broadcast' = broadcast \o txn
      <3>1. broadcast' = durable /\ Starts(durable, durable)
        BY <2>2, <2>4, StartsRefl
      <3> QED
        BY <2>1, <2>3, <2>4, <3>1 DEF FlowInv, HookInv, TaskInv, Starts
    <2>5. CASE loop' = "died" /\ broadcast' = broadcast
      BY <2>1, <2>3, <2>5 DEF FlowInv, HookInv, TaskInv, Starts
    <2> QED
      BY <2>1, <2>4, <2>5
  <1>5. CASE CommitRaises
    <2>1. /\ loop' = "drop" /\ thread' = "idle"
          /\ UNCHANGED <<durable, broadcast, puts>>
      BY <1>5 DEF CommitRaises, AfterFailedCommit
    <2> QED
      BY <2>1 DEF FlowInv, PutsInv, HookInv, TaskInv, Pending, Starts
  <1> QED
    BY <1>1, <1>2, <1>3, <1>4, <1>5 DEF WriterTask

\* The worker thread: a commit moves the batch from the middle of puts to the
\* durable part, whether or not its task still waits for it.
LEMMA FlowWorker ==
  ASSUME TypeInv, FlowInv, Worker
  PROVE  FlowInv'
  <1>0. FlowType
    BY TypeFlow
  <1>1. UNCHANGED <<queue, txn, loop, puts, broadcast>>
    BY DEF Worker, BeginTry, CommitTry, RollbackTry, queueVars, taskVars
  <1>2. CASE BeginTry \/ RollbackTry
    <2>1. Pending /\ thread # "ok" /\ thread' \notin {"idle", "ok"} /\ UNCHANGED durable
      BY <1>2 DEF BeginTry, RollbackTry, Pending
    <2> QED
      BY <1>1, <2>1 DEF FlowInv, PutsInv, HookInv, TaskInv, Pending, Starts
  <1>3. CASE CommitTry
    <2>1. Pending /\ thread \notin {"ok", "idle"} /\ thread' = "ok" /\ durable' = durable \o txn
      BY <1>3 DEF CommitTry, Pending
    <2>2. Starts(durable', puts)
      BY <2>1 DEF FlowInv, PutsInv
    <2>3. PutsInv'
      <3>1. loop # "get"
        BY <2>1 DEF FlowInv, TaskInv
      <3>2. loop = "commit" => puts = durable' \o queue
        BY <2>1 DEF FlowInv, PutsInv
      <3> QED
        BY <1>1, <2>1, <2>2, <3>1, <3>2 DEF PutsInv, Pending, Starts
    <2>4. HookInv'
      <3>3. Starts(broadcast, durable')
        BY <1>0, <2>1, StartsExtend DEF FlowInv, HookInv, FlowType
      <3>4. loop # "get" /\ (loop = "commit" => durable' = broadcast \o txn)
        BY <2>1 DEF FlowInv, TaskInv, HookInv
      <3> QED
        BY <1>1, <2>1, <3>3, <3>4 DEF HookInv, Starts
    <2> QED
      BY <1>1, <2>1, <2>3, <2>4 DEF FlowInv, TaskInv
  <1> QED
    BY <1>2, <1>3 DEF Worker

LEMMA FlowStep ==
  TypeInv /\ FlowInv /\ [Next]_vars => FlowInv'
  <1> SUFFICES ASSUME TypeInv, FlowInv, [Next]_vars PROVE FlowInv'
    OBVIOUS
  <1>1. CASE Producer \/ RunPut \/ Cleanup
    BY <1>1, FlowCalls
  <1>2. CASE WriterTask \/ CancelTask
    BY <1>2, FlowTask
  <1>3. CASE Worker
    BY <1>3, FlowWorker
  <1>4. CASE UNCHANGED vars
    <2>1. UNCHANGED <<txn, thread, durable, broadcast, puts, queue, loop>>
      BY <1>4 DEF vars, txVars, queueVars, taskVars
    <2> QED
      BY <2>1, TypeFlow, FlowFrame
  <1> QED
    BY <1>1, <1>2, <1>3, <1>4 DEF Next, Closed

LEMMA FlowInit ==
  Init => FlowInv
  <1> SUFFICES ASSUME Init PROVE FlowInv
    OBVIOUS
  <1>1. <<>> \in Seq(Ops) /\ <<>> = <<>> \o <<>>
    BY EmptySeq, ConcatEmptySeq
  <1>2. Starts(<<>>, <<>>)
    BY <1>1 DEF Starts
  <1> QED
    BY <1>1, <1>2 DEF Init, FlowInv, PutsInv, HookInv, TaskInv, Pending

LEMMA FlowInvariant ==
  Spec => [](TypeInv /\ FlowInv)
  BY TypeInit, TypeStep, FlowInit, FlowStep, PTL DEF Spec

\* Commits follow the order in which operations reached the queue, through
\* batching, retries, failures, abandoned queues and cancelled tasks.
THEOREM CommitOrder ==
  Spec => []DurablePrefix
  <1>1. TypeInv /\ FlowInv => DurablePrefix
    BY TypeFlow, StartsPrefix DEF FlowType, FlowInv, PutsInv, DurablePrefix
  <1> QED
    BY <1>1, FlowInvariant, PTL

\* The hook is only ever given what has committed, in commit order.
THEOREM DurabilityBeforeBroadcast ==
  Spec => []BroadcastDurable
  <1>1. TypeInv /\ FlowInv => BroadcastDurable
    BY TypeFlow, StartsPrefix DEF FlowType, FlowInv, HookInv, BroadcastDurable
  <1> QED
    BY <1>1, FlowInvariant, PTL

-----------------------------------------------------------------------------
(* The writer implements DurableLog *)

LEMMA PrefixStartsWith ==
  ASSUME NEW s \in Seq(Ops), NEW t \in Seq(Ops), Starts(s, t)
  PROVE  Log!StartsWith(t, s)
  BY StartsPrefix DEF Prefix, Log!StartsWith

\* Every step of the writer is a commit, an announcement or a stutter of the
\* log it promises.
LEMMA LogStep ==
  TypeInv /\ FlowInv /\ [Next]_vars => [Log!Next]_<<durable, broadcast>>
  <1> SUFFICES ASSUME TypeInv, FlowInv, [Next]_vars
               PROVE  [Log!Next]_<<durable, broadcast>>
    OBVIOUS
  <1>0. FlowType
    BY TypeFlow
  <1>1. CASE CommitTry
    <2>1. durable' = durable \o txn /\ broadcast' = broadcast
      BY <1>1 DEF CommitTry
    <2>2. Starts(durable, durable') /\ durable' \in Seq(Ops)
      BY <1>0, <2>1, StartsConcat, ConcatProperties DEF FlowType
    <2>3. Log!StartsWith(durable', durable)
      BY <1>0, <2>2, PrefixStartsWith DEF FlowType
    <2> QED
      BY <2>1, <2>3 DEF Log!Next, Log!Commit
  <1>2. CASE CommitReturns
    <2>1. /\ thread = "ok" /\ loop = "commit" /\ durable' = durable
          /\ broadcast' = broadcast \o txn \/ broadcast' = broadcast
      BY <1>2 DEF CommitReturns, TransactionCommitted
    <2>2. durable = broadcast \o txn
      BY <2>1 DEF FlowInv, HookInv
    <2>3. CASE broadcast' = broadcast \o txn
      <3>1. Starts(broadcast, durable) /\ Starts(durable, durable) /\ broadcast' = durable
        BY <1>0, <2>2, <2>3, StartsConcat, StartsRefl DEF FlowType
      <3>2. Log!StartsWith(durable, broadcast) /\ Log!StartsWith(durable, durable)
        BY <1>0, <3>1, PrefixStartsWith DEF FlowType
      <3> QED
        BY <2>1, <3>1, <3>2 DEF Log!Next, Log!Announce
    <2>4. CASE broadcast' = broadcast
      BY <2>1, <2>4
    <2> QED
      BY <2>1, <2>3, <2>4
  <1>3. CASE Producer \/ RunPut \/ CancelTask \/ Cleanup \/ Closed \/ UNCHANGED vars
    <2>1. UNCHANGED <<durable, broadcast>>
      BY <1>3
      DEF Producer, RunPut, Submit, SubmitRefused, SubmitSoon, SubmitSoonRefused, CancelSubmit,
          CancelTask, Cleanup, StartCleanup, GatherDone, DrainTrue, DrainTimeout,
          CancelCleanup, SettleSkip, SettleSubmit, SettleDrain, SubmitFinishRun,
          PutSentinel, Release, CloseConnection, Closed, vars, txVars
    <2> QED
      BY <2>1
  <1>4. CASE TakeSentinel \/ TakeBatch \/ CommitRaises \/ Drop \/ DeliverCancel
             \/ BeginTry \/ RollbackTry
    <2>1. UNCHANGED <<durable, broadcast>>
      BY <1>4 DEF TakeSentinel, TakeBatch, CommitRaises, Drop, DeliverCancel, BeginTry,
                  RollbackTry, txVars
    <2> QED
      BY <2>1
  <1> QED
    BY <1>1, <1>2, <1>3, <1>4 DEF Next, WriterTask, Worker

\* The writer implements the append-only log with announcements behind it.
THEOREM WriterImplementsLog ==
  Spec => ImplementsLog
  <1>1. Init => Log!Init
    BY DEF Init, Log!Init
  <1> QED
    BY <1>1, LogStep, FlowInvariant, PTL DEF Spec, ImplementsLog, Log!Spec

-----------------------------------------------------------------------------
(* What the callers are told.  The properties behind this line compare what *)
(* a submitter believes with what is in the table, so the operations that   *)
(* still wait for a place in the queue have to be followed one by one.      *)

Elems(s) == {s[i] : i \in 1 .. Len(s)}

Distinct(s) == \A i, j \in 1 .. Len(s) : s[i] = s[j] => i = j

\* Nobody waits twice, neither in one of the two lines nor in both.
Lined(p, r) == Distinct(p) /\ Distinct(r) /\ Elems(p) \cap Elems(r) = {}

LEMMA ElemsOne ==
  ASSUME NEW o \in Ops
  PROVE  /\ Elems(<<o>>) = {o} /\ Distinct(<<o>>)
         /\ Elems(<<>>) = {} /\ Distinct(<<>>)
  BY DEF Elems, Distinct

LEMMA ElemsConcat ==
  ASSUME NEW s \in Seq(Ops), NEW t \in Seq(Ops)
  PROVE  /\ Elems(s \o t) = Elems(s) \cup Elems(t)
         /\ Distinct(s \o t) <=> Lined(s, t)
  <1> DEFINE c == s \o t
             m == Len(s)
             n == Len(t)
  <1>1. /\ m \in Nat /\ n \in Nat /\ Len(c) = m + n
        /\ \A i \in 1 .. m + n : c[i] = IF i <= m THEN s[i] ELSE t[i - m]
    BY ConcatProperties, LenProperties
  <1>2. \A i \in 1 .. m : i \in 1 .. m + n /\ c[i] = s[i]
    BY <1>1
  <1>3. \A i \in 1 .. n : i + m \in 1 .. m + n /\ c[i + m] = t[i]
    <2> SUFFICES ASSUME NEW i \in 1 .. n PROVE i + m \in 1 .. m + n /\ c[i + m] = t[i]
      OBVIOUS
    <2>1. i + m \in 1 .. m + n /\ ~(i + m <= m) /\ (i + m) - m = i
      BY <1>1
    <2> QED
      BY <1>1, <2>1
  <1>4. \A i \in 1 .. m + n : i \in 1 .. m \/ i - m \in 1 .. n
    BY <1>1
  <1>5. \A i \in 1 .. m + n : (i \in 1 .. m /\ c[i] = s[i]) \/ (i - m \in 1 .. n /\ c[i] = t[i - m])
    <2> SUFFICES ASSUME NEW i \in 1 .. m + n
                 PROVE  (i \in 1 .. m /\ c[i] = s[i]) \/ (i - m \in 1 .. n /\ c[i] = t[i - m])
      OBVIOUS
    <2>1. CASE i <= m
      BY <1>1, <2>1
    <2>2. CASE ~(i <= m)
      BY <1>1, <2>2
    <2> QED
      BY <2>1, <2>2
  <1>6. Elems(c) = {c[i] : i \in 1 .. m + n}
    BY <1>1 DEF Elems
  <1> HIDE DEF c
  <1>7. Elems(c) \subseteq Elems(s) \cup Elems(t)
    BY <1>5, <1>6 DEF Elems
  <1>8. Elems(s) \cup Elems(t) \subseteq Elems(c)
    BY <1>2, <1>3, <1>6 DEF Elems
  <1>9. ASSUME Distinct(c) PROVE Lined(s, t)
    <2>1. \A i, j \in 1 .. m + n : c[i] = c[j] => i = j
      BY <1>1, <1>9 DEF Distinct
    <2>2. Distinct(s)
      BY <1>2, <2>1 DEF Distinct
    <2>3. Distinct(t)
      <3> SUFFICES ASSUME NEW i \in 1 .. n, NEW j \in 1 .. n, t[i] = t[j] PROVE i = j
        BY DEF Distinct
      <3>1. i + m = j + m
        BY <1>3, <2>1
      <3> QED
        BY <1>1, <3>1
    <2>4. \A i \in 1 .. m, j \in 1 .. n : s[i] # t[j]
      <3> SUFFICES ASSUME NEW i \in 1 .. m, NEW j \in 1 .. n, s[i] = t[j] PROVE FALSE
        OBVIOUS
      <3>1. i = j + m
        BY <1>2, <1>3, <2>1
      <3> QED
        BY <1>1, <3>1
    <2> QED
      BY <2>2, <2>3, <2>4 DEF Lined, Elems
  <1>10. ASSUME Lined(s, t) PROVE Distinct(c)
    <2> SUFFICES ASSUME NEW i \in 1 .. m + n, NEW j \in 1 .. m + n, c[i] = c[j] PROVE i = j
      BY <1>1 DEF Distinct
    <2>1. CASE i \in 1 .. m /\ j \in 1 .. m
      BY <1>2, <1>10, <2>1 DEF Lined, Distinct
    <2>2. CASE i - m \in 1 .. n /\ j - m \in 1 .. n /\ ~(i \in 1 .. m) /\ ~(j \in 1 .. m)
      <3>1. i - m = j - m
        BY <1>5, <1>10, <2>2 DEF Lined, Distinct
      <3> QED
        BY <1>1, <3>1
    <2>a. \A k \in 1 .. m + n : IF k \in 1 .. m THEN c[k] \in Elems(s) ELSE c[k] \in Elems(t)
      BY <1>5, SMTT(60) DEF Elems
    <2>3. CASE i \in 1 .. m /\ ~(j \in 1 .. m)
      BY <1>10, <2>a, <2>3 DEF Lined
    <2>4. CASE ~(i \in 1 .. m) /\ j \in 1 .. m
      BY <1>10, <2>a, <2>4 DEF Lined
    <2> QED
      BY <1>4, <2>1, <2>2, <2>3, <2>4
  <1> QED
    BY <1>7, <1>8, <1>9, <1>10 DEF c

LEMMA ElemsAppend ==
  ASSUME NEW s \in Seq(Ops), NEW o \in Ops
  PROVE  /\ Elems(Append(s, o)) = Elems(s) \cup {o}
         /\ Distinct(s) /\ o \notin Elems(s) => Distinct(Append(s, o))
  <1>1. <<o>> \in Seq(Ops) /\ Append(s, o) = s \o <<o>>
    BY AppendIsConcat
  <1>2. /\ Elems(s \o <<o>>) = Elems(s) \cup Elems(<<o>>)
        /\ Distinct(s \o <<o>>) <=> Lined(s, <<o>>)
    BY <1>1, ElemsConcat
  <1> QED
    BY <1>1, <1>2, ElemsOne DEF Lined

\* The head of a line, and who is left behind it.
LEMMA ElemsTail ==
  ASSUME NEW s \in Seq(Ops), s # <<>>
  PROVE  /\ Head(s) \in Ops /\ Tail(s) \in Seq(Ops)
         /\ Elems(s) = {Head(s)} \cup Elems(Tail(s))
         /\ Distinct(s) => Distinct(Tail(s)) /\ Head(s) \notin Elems(Tail(s))
  <1>1. Head(s) \in Ops /\ Tail(s) \in Seq(Ops)
    BY HeadTailProperties
  <1>2. <<Head(s)>> \in Seq(Ops) /\ s = <<Head(s)>> \o Tail(s)
    BY <1>1, SeqEqual
  <1>3. /\ Elems(<<Head(s)>> \o Tail(s)) = Elems(<<Head(s)>>) \cup Elems(Tail(s))
        /\ Distinct(<<Head(s)>> \o Tail(s)) <=> Lined(<<Head(s)>>, Tail(s))
    BY <1>1, <1>2, ElemsConcat
  <1> QED
    BY <1>1, <1>2, <1>3, ElemsOne DEF Lined

\* Leaving a line from the middle.
LEMMA ElemsRemoved ==
  ASSUME NEW s \in Seq(Ops), NEW i \in 1 .. Len(s), Distinct(s)
  PROVE  /\ RemoveIndex(s, i) \in Seq(Ops) /\ s[i] \in Ops /\ s[i] \in Elems(s)
         /\ Elems(RemoveIndex(s, i)) = Elems(s) \ {s[i]}
         /\ Distinct(RemoveIndex(s, i))
  <1> DEFINE a == SubSeq(s, 1, i - 1)
             b == SubSeq(s, i + 1, Len(s))
             r == a \o b
  <1>0. Len(s) \in Nat /\ i \in Nat /\ 1 <= i /\ i <= Len(s)
    BY LenProperties
  <1>1. a \in Seq(Ops) /\ Len(a) = i - 1 /\ \A k \in 1 .. i - 1 : a[k] = s[k]
    BY <1>0, SubSeqProperties, ElementOfSeq
  <1>2. b \in Seq(Ops) /\ Len(b) = Len(s) - i /\ \A k \in 1 .. Len(s) - i : b[k] = s[k + i]
    BY <1>0, SubSeqProperties, ElementOfSeq
  <1> HIDE DEF a, b
  <1>3. Elems(a) = {s[k] : k \in 1 .. i - 1}
    BY <1>1 DEF Elems
  <1>4. Elems(b) = {s[k] : k \in i + 1 .. Len(s)}
    <2>1. \A k \in i + 1 .. Len(s) : k - i \in 1 .. Len(s) - i /\ b[k - i] = s[k]
      <3> SUFFICES ASSUME NEW k \in i + 1 .. Len(s)
                   PROVE  k - i \in 1 .. Len(s) - i /\ b[k - i] = s[k]
        OBVIOUS
      <3>1. k - i \in 1 .. Len(s) - i /\ (k - i) + i = k
        BY <1>0
      <3> QED
        BY <1>2, <3>1
    <2>2. \A k \in 1 .. Len(s) - i : k + i \in i + 1 .. Len(s)
      BY <1>0
    <2>3. \A k \in 1 .. Len(s) - i : b[k] \in {s[j] : j \in i + 1 .. Len(s)}
      BY <1>2, <2>2
    <2>4. Elems(b) = {b[k] : k \in 1 .. Len(s) - i}
      BY <1>2 DEF Elems
    <2> QED
      BY <2>1, <2>3, <2>4
  <1>5. Distinct(a) /\ Distinct(b)
    <2>1. Distinct(a)
      BY <1>0, <1>1 DEF Distinct
    <2>2. Distinct(b)
      <3> SUFFICES ASSUME NEW j \in 1 .. Len(s) - i, NEW k \in 1 .. Len(s) - i, b[j] = b[k]
                   PROVE  j = k
        BY <1>2 DEF Distinct
      <3>1. j + i \in 1 .. Len(s) /\ k + i \in 1 .. Len(s) /\ s[j + i] = s[k + i]
        BY <1>0, <1>2
      <3>2. j + i = k + i
        BY <3>1 DEF Distinct
      <3> QED
        BY <1>0, <3>2
    <2> QED
      BY <2>1, <2>2
  <1>6. Elems(a) \cap Elems(b) = {}
    <2> SUFFICES ASSUME NEW j \in 1 .. i - 1, NEW k \in i + 1 .. Len(s), s[j] = s[k] PROVE FALSE
      BY <1>3, <1>4
    <2>1. j \in 1 .. Len(s) /\ k \in 1 .. Len(s) /\ j # k
      BY <1>0
    <2> QED
      BY <2>1 DEF Distinct
  <1>7. Elems(a) \cup Elems(b) = Elems(s) \ {s[i]}
    <2>1. \A k \in 1 .. Len(s) : s[k] # s[i] => k \in 1 .. i - 1 \/ k \in i + 1 .. Len(s)
      BY <1>0
    <2>2. \A k \in 1 .. Len(s) : k # i => s[k] # s[i]
      BY DEF Distinct
    <2>3. \A k \in (1 .. i - 1) \cup (i + 1 .. Len(s)) : k \in 1 .. Len(s) /\ k # i
      BY <1>0
    <2> QED
      BY <1>3, <1>4, <2>1, <2>2, <2>3 DEF Elems
  <1>8. r \in Seq(Ops) /\ Elems(r) = Elems(a) \cup Elems(b) /\ Distinct(r)
    BY <1>1, <1>2, <1>5, <1>6, ElemsConcat, ConcatProperties DEF Lined
  <1>9. RemoveIndex(s, i) = r /\ s[i] \in Ops
    BY ElementOfSeq DEF RemoveIndex, r, a, b
  <1>10. s[i] \in Elems(s)
    BY DEF Elems
  <1> QED
    BY <1>7, <1>8, <1>9, <1>10

\* A wake-up moves puts from one line to the other and loses none.
LEMMA WakeWaits ==
  ASSUME NEW n \in Nat, NEW rdy \in Seq(Ops), putters \in Seq(Ops), Wake(n, rdy),
         Lined(putters, rdy)
  PROVE  Lined(putters', ready') /\ Elems(putters') \cup Elems(ready') = Elems(putters) \cup Elems(rdy)
  <1> DEFINE k == Minimum(n, Len(putters))
             woken == SubSeq(putters, 1, k)
             rest == SubSeq(putters, k + 1, Len(putters))
  <1>1. k \in 0 .. Len(putters)
    BY LenProperties DEF Minimum
  <1>2. ready' = rdy \o woken /\ putters' = rest
    BY DEF Wake
  <1> HIDE DEF k
  <1>3. woken \in Seq(Ops) /\ rest \in Seq(Ops) /\ putters = woken \o rest
    BY <1>1, SplitSeq
  <1> HIDE DEF woken, rest
  <1>4. Elems(putters) = Elems(woken) \cup Elems(rest) /\ Lined(woken, rest)
    BY <1>3, ElemsConcat DEF Lined
  <1>5. Lined(rdy, woken)
    BY <1>4 DEF Lined
  <1>6. Elems(rdy \o woken) = Elems(rdy) \cup Elems(woken) /\ Distinct(rdy \o woken)
    BY <1>3, <1>5, ElemsConcat
  <1> QED
    BY <1>2, <1>4, <1>6 DEF Lined

-----------------------------------------------------------------------------
(* Every operation is in one place *)

\* The puts that wait for a place are in line once, and are in no queue yet.
WaitInv ==
    /\ Lined(putters, ready)
    /\ \A o \in Waiting : told[o] \in {"await", "soon"} /\ o \notin Elems(puts)

\* What was submitted waits, reached the queue, or its caller knows better.
CallInv ==
    /\ \A o \in Ops : o > submitted => told[o] = "unborn"
    /\ \A o \in Ops : told[o] = "unborn" => o \notin Elems(puts)
    /\ \A o \in Ops : told[o] = "returned" => o \in Elems(puts)
    /\ \A o \in Ops : told[o] = "soon" => o \in Elems(puts) \cup Waiting

\* What a step does to the operations on their way into the queue: nothing,
\* one more comes, one leaves its line for the queue or for good, or a drain
\* that gives up withdraws them all.
Comes(o) ==
    /\ o = submitted + 1 /\ submitted' = o
    /\ \/ /\ \E way \in {"await", "soon"} : told' = [told EXCEPT ![o] = way]
          /\ Waiting' = Waiting \cup {o}
          /\ puts' = puts
       \/ /\ told' = [told EXCEPT ![o] = "returned"]
          /\ Waiting' = Waiting
          /\ puts' = Append(puts, o)

Leaves(o) ==
    /\ Waiting' = Waiting \ {o} /\ submitted' = submitted
    /\ \/ /\ told' = [told EXCEPT ![o] = Answer(o)]
          /\ puts' = Append(puts, o)
       \/ /\ told' = [told EXCEPT ![o] = "withdrawn"]
          /\ puts' = puts

CallsMove ==
    \/ Waiting' = Waiting /\ UNCHANGED <<told, puts, submitted>>
    \/ \E o \in Ops : Comes(o)
    \/ \E o \in Waiting : Leaves(o)
    \/ /\ Waiting' = {} /\ UNCHANGED <<puts, submitted>>
       /\ told' = [o \in Ops |-> IF o \in Waiting THEN "withdrawn" ELSE told[o]]

LEMMA WaitingElems ==
  /\ Waiting = Elems(putters) \cup Elems(ready)
  /\ Waiting' = Elems(putters') \cup Elems(ready')
  BY DEF Waiting, Elems

LEMMA WaitingOps ==
  ASSUME QueueType
  PROVE  Waiting \subseteq Ops
  BY ElementOfSeq DEF Waiting, QueueType

\* No such step loses an operation.
LEMMA CallsKept ==
  ASSUME QueueType, CallType, puts \in Seq(Ops), WaitInv, CallInv,
         CallsMove, Lined(putters', ready')
  PROVE  WaitInv' /\ CallInv'
  <1>0. Waiting \subseteq Ops
    BY WaitingOps
  <1> DEFINE Kept == /\ \A o \in Waiting' : told'[o] \in {"await", "soon"} /\ o \notin Elems(puts')
                     /\ \A o \in Ops : o > submitted' => told'[o] = "unborn"
                     /\ \A o \in Ops : told'[o] = "unborn" => o \notin Elems(puts')
                     /\ \A o \in Ops : told'[o] = "returned" => o \in Elems(puts')
                     /\ \A o \in Ops : told'[o] = "soon" => o \in Elems(puts') \cup Waiting'
  <1>1. Kept => WaitInv' /\ CallInv'
    BY DEF WaitInv, CallInv, Elems, Lined, Distinct, Waiting
  <1> USE DEF WaitInv, CallInv, CallType
  <1>2. CASE Waiting' = Waiting /\ UNCHANGED <<told, puts, submitted>>
    BY <1>2
  <1>3. ASSUME NEW o \in Ops, Comes(o) PROVE Kept
    <2>1. /\ told[o] = "unborn" /\ o \notin Waiting /\ o \notin Elems(puts)
          /\ \A p \in Ops : p > o => p > submitted
      BY <1>0, <1>3 DEF Comes, Ops
    <2>2. Elems(Append(puts, o)) = Elems(puts) \cup {o}
      BY ElemsAppend
    <2>3. \A p \in Ops : p > submitted' => p > submitted /\ p # o
      BY <1>3 DEF Comes, Ops
    <2>4. ASSUME NEW way \in {"await", "soon"}, told' = [told EXCEPT ![o] = way],
                 Waiting' = Waiting \cup {o}, puts' = puts
          PROVE  Kept
      <3>1. \A p \in Ops : told'[p] = IF p = o THEN way ELSE told[p]
        BY <2>4
      <3> QED
        BY <1>0, <2>1, <2>3, <2>4, <3>1
    <2>5. CASE /\ told' = [told EXCEPT ![o] = "returned"] /\ Waiting' = Waiting
               /\ puts' = Append(puts, o)
      <3>1. \A p \in Ops : told'[p] = IF p = o THEN "returned" ELSE told[p]
        BY <2>5
      <3>2. Waiting' = Waiting /\ Elems(puts') = Elems(puts) \cup {o}
        BY <2>2, <2>5
      <3> HIDE DEF CallType
      <3> QED
        BY <1>0, <2>1, <2>3, <3>1, <3>2
    <2> QED
      BY <1>3, <2>4, <2>5 DEF Comes
  <1>4. ASSUME NEW o \in Waiting, Leaves(o) PROVE Kept
    <2>1. o \in Ops /\ told[o] \in {"await", "soon"}
      BY <1>0
    <2>2. Elems(Append(puts, o)) = Elems(puts) \cup {o}
      BY <2>1, ElemsAppend
    <2>3. Answer(o) \in {"soon", "raised", "returned"}
      BY DEF Answer
    <2> QED
      BY <1>0, <1>4, <2>1, <2>2, <2>3 DEF Leaves
  <1>5. CASE /\ Waiting' = {} /\ UNCHANGED <<puts, submitted>>
             /\ told' = [o \in Ops |-> IF o \in Waiting THEN "withdrawn" ELSE told[o]]
    BY <1>0, <1>5
  <1> QED
    BY <1>1, <1>2, <1>3, <1>4, <1>5 DEF CallsMove

\* A death check moves puts from line to line.
LEMMA ReapMoves ==
  ASSUME QueueType, Lined(putters, ready), Reap \/ RefuseSoon
  PROVE  Waiting' = Waiting /\ Lined(putters', ready')
  <1>1. CASE Abandons
    <2>1. Wake(QLen, ready) /\ QLen \in Nat
      BY <1>1, QLenNat DEF Reap, RefuseSoon
    <2> QED
      BY <2>1, WakeWaits, WaitingElems DEF QueueType
  <1>2. CASE ~Abandons
    BY <1>2, WaitingElems DEF Reap, RefuseSoon, queueVars
  <1> QED
    BY <1>1, <1>2

\* A new operation joins a line or the queue.
LEMMA AcceptMoves ==
  ASSUME QueueType, WaitInv, CallInv, CallType, NEW o \in Ops, o = submitted + 1,
         \/ AcceptAwaited(o)
         \/ AcceptSoon(o) /\ puts' = puts
  PROVE  Comes(o) /\ Lined(putters', ready')
  <1>1. o \notin Elems(putters) /\ o \notin Elems(ready)
    BY WaitingElems DEF WaitInv, CallInv, CallType, Ops
  <1>2. CASE AcceptAwaited(o) /\ Full
    <2>1. /\ submitted' = o /\ told' = [told EXCEPT ![o] = "await"] /\ puts' = puts
          /\ putters' = Append(putters, o) /\ ready' = ready
      BY <1>2 DEF AcceptAwaited
    <2> QED
      BY <1>1, <2>1, ElemsAppend, WaitingElems DEF Comes, Lined, WaitInv, QueueType
  <1>3. CASE AcceptAwaited(o) /\ ~Full
    <2>1. /\ submitted' = o /\ told' = [told EXCEPT ![o] = "returned"]
          /\ puts' = Append(puts, o) /\ putters' = putters /\ ready' = ready
      BY <1>3 DEF AcceptAwaited
    <2> QED
      BY <2>1, WaitingElems DEF Comes, WaitInv
  <1>4. CASE AcceptSoon(o) /\ puts' = puts
    <2>1. /\ submitted' = o /\ told' = [told EXCEPT ![o] = "soon"] /\ puts' = puts
          /\ ready' = Append(ready, o) /\ putters' = putters
      BY <1>4 DEF AcceptSoon
    <2> QED
      BY <1>1, <2>1, ElemsAppend, WaitingElems DEF Comes, Lined, WaitInv, QueueType
  <1> QED
    BY <1>2, <1>3, <1>4

\* A withdrawn put leaves its line.
LEMMA WithdrawMoves ==
  ASSUME QueueType, WaitInv, WithdrawAwaited, UNCHANGED <<puts, submitted>>
  PROVE  CallsMove /\ Lined(putters', ready')
  <1>1. ASSUME NEW i \in 1 .. Len(putters),
               told' = [told EXCEPT ![putters[i]] = "withdrawn"],
               putters' = RemoveIndex(putters, i), ready' = ready
        PROVE  CallsMove /\ Lined(putters', ready')
    <2>1. /\ putters[i] \in Elems(putters) /\ putters[i] \notin Elems(ready)
          /\ Elems(putters') = Elems(putters) \ {putters[i]} /\ Distinct(putters')
      BY <1>1, ElemsRemoved DEF WaitInv, Lined, QueueType
    <2>2. putters[i] \in Waiting /\ Waiting' = Waiting \ {putters[i]}
      BY <1>1, <2>1, WaitingElems
    <2>3. Lined(putters', ready')
      BY <1>1, <2>1 DEF WaitInv, Lined
    <2>4. Leaves(putters[i])
      BY <1>1, <2>2 DEF Leaves
    <2> QED
      BY <2>2, <2>3, <2>4 DEF CallsMove
  <1>2. ASSUME NEW i \in 1 .. Len(ready),
               told' = [told EXCEPT ![ready[i]] = "withdrawn"],
               Wake(IF Full THEN 0 ELSE 1, RemoveIndex(ready, i))
        PROVE  CallsMove /\ Lined(putters', ready')
    <2> DEFINE rdy == RemoveIndex(ready, i)
    <2>1. /\ ready[i] \in Elems(ready) /\ ready[i] \notin Elems(putters)
          /\ Elems(rdy) = Elems(ready) \ {ready[i]} /\ Distinct(rdy) /\ rdy \in Seq(Ops)
      BY ElemsRemoved DEF WaitInv, Lined, QueueType
    <2>2. Lined(putters, rdy)
      BY <2>1 DEF WaitInv, Lined
    <2>3. Lined(putters', ready') /\ Elems(putters') \cup Elems(ready') = Elems(putters) \cup Elems(rdy)
      BY <1>2, <2>1, <2>2, WakeWaits DEF QueueType
    <2>4. ready[i] \in Waiting /\ Waiting' = Waiting \ {ready[i]}
      BY <2>1, <2>3, WaitingElems
    <2>5. Leaves(ready[i])
      BY <1>2, <2>4 DEF Leaves
    <2> QED
      BY <2>3, <2>4, <2>5 DEF CallsMove
  <1> QED
    BY <1>1, <1>2 DEF WithdrawAwaited

\* The event loop runs a put: it parks again or reaches the queue.
LEMMA PutMoves ==
  ASSUME QueueType, WaitInv, RunPut
  PROVE  /\ \/ Waiting' = Waiting /\ UNCHANGED <<told, puts, submitted>>
            \/ /\ Head(ready) \in Waiting /\ Leaves(Head(ready))
               /\ told' = [told EXCEPT ![Head(ready)] = Answer(Head(ready))]
         /\ Lined(putters', ready')
  <1> DEFINE o == Head(ready)
             rest == Tail(ready)
  <1>1. /\ o \in Ops /\ rest \in Seq(Ops) /\ Elems(ready) = {o} \cup Elems(rest)
        /\ Distinct(rest) /\ o \notin Elems(rest) /\ o \notin Elems(putters)
    BY ElemsTail DEF RunPut, QueueType, WaitInv, Lined
  <1>2. Lined(putters, rest) /\ o \in Waiting
    BY <1>1, WaitingElems DEF WaitInv, Lined
  <1> HIDE DEF rest
  <1>3. CASE Full
    <2>1. /\ putters' = Append(putters, o) /\ ready' = rest
          /\ UNCHANGED <<told, puts, submitted>>
      BY <1>3 DEF RunPut, rest
    <2> QED
      BY <1>1, <1>2, <2>1, ElemsAppend, WaitingElems DEF Lined, QueueType
  <1>4. CASE ~Full
    <2>1. /\ puts' = Append(puts, o) /\ told' = [told EXCEPT ![o] = Answer(o)]
          /\ submitted' = submitted
      BY <1>4 DEF RunPut
    <2>2. (Wake(QLen + 1, rest) \/ (ready' = rest /\ putters' = putters)) /\ QLen + 1 \in Nat
      BY <1>4, QLenNat DEF RunPut, rest
    <2>3. Lined(putters', ready') /\ Elems(putters') \cup Elems(ready') = Elems(putters) \cup Elems(rest)
      BY <1>1, <1>2, <2>2, WakeWaits DEF QueueType
    <2>4. Waiting' = Waiting \ {o}
      BY <1>1, <2>3, WaitingElems
    <2>5. Leaves(o)
      BY <2>1, <2>4 DEF Leaves
    <2> QED
      BY <1>2, <2>1, <2>3, <2>5
  <1> QED
    BY <1>3, <1>4

LEMMA StepMoves ==
  ASSUME TypeInv, WaitInv, CallInv, [Next]_vars
  PROVE  CallsMove /\ Lined(putters', ready')
  <1>0. QueueType /\ QueueType' /\ CallType /\ SubmitBound
    BY TypeStep DEF TypeInv, StageInv
  <1>1. CASE RunPut
    BY <1>0, <1>1, PutMoves DEF CallsMove
  <1>2. ASSUME submitted + 1 \in Ops,
               \/ AcceptAwaited(submitted + 1)
               \/ AcceptSoon(submitted + 1) /\ puts' = puts
        PROVE  CallsMove /\ Lined(putters', ready')
    BY <1>0, <1>2, AcceptMoves DEF CallsMove
  <1>3. ASSUME Reap \/ RefuseSoon, UNCHANGED <<told, puts, submitted>>
        PROVE  CallsMove /\ Lined(putters', ready')
    BY <1>0, <1>3, ReapMoves DEF CallsMove, WaitInv
  <1>4. ASSUME UNCHANGED <<told, puts, submitted>>,
               \/ UNCHANGED <<putters, ready>>
               \/ \E n \in Nat : Wake(n, ready)
        PROVE  CallsMove /\ Lined(putters', ready')
    BY <1>0, <1>4, WakeWaits, WaitingElems DEF CallsMove, WaitInv, QueueType
  <1>5. CASE Submit \/ SubmitSoon
    <2>1. submitted + 1 \in Ops
      BY <1>0, <1>5, WriterAssumption DEF Submit, SubmitSoon, CallType, Ops
    <2> QED
      BY <1>2, <1>5, <2>1 DEF Submit, SubmitSoon
  <1>6. CASE SubmitRefused \/ SubmitSoonRefused \/ StartCleanup \/ GatherDone \/ Release
    <2>1. (Reap \/ RefuseSoon) /\ UNCHANGED <<told, puts, submitted>>
      BY <1>6 DEF SubmitRefused, SubmitSoonRefused, StartCleanup, GatherDone, Release, callVars,
                  RefuseSoon
    <2> QED
      BY <1>3, <2>1
  <1>7. CASE CancelSubmit
    BY <1>0, <1>7, WithdrawMoves DEF CancelSubmit
  <1>8. CASE DrainTimeout \/ CancelCleanup
    <2>1. UNCHANGED <<puts, submitted>>
      BY <1>8 DEF DrainTimeout, CancelCleanup
    <2>2. CASE WithdrawAwaited
      BY <1>0, <2>1, <2>2, WithdrawMoves
    <2>3. CASE UNCHANGED <<told, putters, ready>>
      BY <1>4, <2>1, <2>3
    <2>4. CASE WithdrawDeferred
      <3>1. Elems(putters') = {} /\ Elems(ready') = {} /\ Lined(putters', ready')
        BY <2>4 DEF WithdrawDeferred, Elems, Lined, Distinct
      <3> QED
        BY <2>1, <2>4, <3>1, WaitingElems DEF WithdrawDeferred, CallsMove
    <2> QED
      BY <1>8, <2>2, <2>3, <2>4 DEF DrainTimeout, CancelCleanup
  <1>9. CASE SettleSubmit
    <2>1. submitted + 1 \in Ops
      BY <1>0, <1>9, WriterAssumption DEF SettleSubmit, SubmitBound, CallType, Ops
    <2>2. CASE AcceptAwaited(submitted + 1)
      BY <1>2, <2>1, <2>2
    <2>3. CASE Reap /\ UNCHANGED <<callVars, puts>>
      BY <1>3, <2>3 DEF callVars
    <2> QED
      BY <1>9, <2>2, <2>3 DEF SettleSubmit
  <1>10. CASE SettleDrain
    <2>1. UNCHANGED <<told, puts, submitted>> /\ (Reap \/ UNCHANGED <<putters, ready>>)
      BY <1>10 DEF SettleDrain, callVars, queueVars
    <2> QED
      BY <1>3, <1>4, <2>1
  <1>11. CASE SubmitFinishRun
    <2>1. submitted + 1 \in Ops
      BY <1>0, <1>11, WriterAssumption DEF SubmitFinishRun, SubmitBound, CallType, Ops
    <2>2. puts' = puts /\ (AcceptSoon(submitted + 1) \/ RefuseSoon)
      BY <1>11 DEF SubmitFinishRun
    <2>3. RefuseSoon => UNCHANGED <<told, submitted>>
      BY DEF RefuseSoon, callVars
    <2> QED
      BY <1>2, <1>3, <2>1, <2>2, <2>3
  <1>12. CASE TakeSentinel \/ TakeBatch \/ Drop
    <2>1. UNCHANGED <<told, puts, submitted>>
      BY <1>12 DEF TakeSentinel, TakeBatch, Drop, callVars
    <2>2. CASE TakeSentinel \/ Drop
      BY <1>4, <2>1, <2>2 DEF TakeSentinel, Drop
    <2>3. CASE TakeBatch
      <3> DEFINE n == Minimum(MaxOpsPerTx, IF pill > 0 THEN pill ELSE Len(queue))
      <3>1. n \in Nat /\ n + 1 \in Nat
        BY <1>0, QLenNat, WriterAssumption DEF Minimum
      <3>2. Wake(n, ready) \/ Wake(n + 1, ready)
        BY <2>3 DEF TakeBatch
      <3> QED
        BY <1>4, <2>1, <3>1, <3>2
    <2> QED
      BY <1>12, <2>2, <2>3
  <1>13. CASE CommitReturns \/ CommitRaises \/ DeliverCancel \/ CancelTask \/ Worker
              \/ DrainTrue \/ SettleSkip \/ PutSentinel \/ CloseConnection \/ UNCHANGED vars
    <2>1. UNCHANGED <<told, puts, submitted, putters, ready>>
      BY <1>13 DEF CommitReturns, CommitRaises, DeliverCancel, CancelTask, Worker, BeginTry,
         CommitTry, RollbackTry, DrainTrue, SettleSkip, PutSentinel, CloseConnection,
         vars, callVars, queueVars
    <2> QED
      BY <1>4, <2>1
  <1> QED
    BY <1>1, <1>5, <1>6, <1>7, <1>8, <1>9, <1>10, <1>11, <1>12, <1>13
       DEF Next, Producer, Cleanup, WriterTask, Closed

LEMMA CallsStep ==
  TypeInv /\ WaitInv /\ CallInv /\ [Next]_vars => WaitInv' /\ CallInv'
  BY StepMoves, CallsKept DEF TypeInv, StageInv, RestType, HistoryType

-----------------------------------------------------------------------------
(* Failures, and what is told of them *)

\* A writer that failed reads no batch any more, and a task that died without
\* a failure to show for it left its queue and the table as they were.
FateInv ==
    /\ failure => loop \in {"drop", "stopped", "died"}
    /\ loop = "drop" => failure
    /\ cancelling => ~TaskDone
    /\ loop = "commit" => txn # <<>>
    /\ loop = "died" /\ ~failure => ~Pending /\ puts = durable \o queue

\* What raised is not in the table, and in no transaction that could bring it there.
RaisedInv ==
    \A o \in Ops : told[o] = "raised" =>
        /\ loop \in {"drop", "stopped", "died"}
        /\ o \notin Elems(durable)
        /\ Pending => o \notin Elems(txn)

\* A step of the producers, the puts or the clean-up keeps the task as it is.
LEMMA CallsFate ==
  ASSUME TypeInv, FlowInv, FateInv, Producer \/ RunPut \/ Cleanup
  PROVE  FateInv'
  <1>0. FlowType /\ QueueType /\ TaskType /\ RunType
    BY TypeFlow DEF TypeInv, StageInv, RestType
  <1>1. UNCHANGED <<txn, thread, durable, loop>>
    BY DEF Producer, RunPut, Submit, SubmitRefused, SubmitSoon, SubmitSoonRefused, CancelSubmit,
           Cleanup, StartCleanup, GatherDone, DrainTrue, DrainTimeout, CancelCleanup,
           SettleSkip, SettleSubmit, SettleDrain, SubmitFinishRun, PutSentinel,
           Release, CloseConnection, taskVars, txVars
  <1>2. failure' \in {failure, FailureAfterReap}
    BY DEF Producer, RunPut, Submit, SubmitRefused, SubmitSoon, SubmitSoonRefused, CancelSubmit,
           Cleanup, StartCleanup, GatherDone, DrainTrue, DrainTimeout, CancelCleanup,
           SettleSkip, SettleSubmit, SettleDrain, SubmitFinishRun, PutSentinel,
           Release, CloseConnection, taskVars, AcceptAwaited, AcceptSoon, Reap, RefuseSoon
  <1>3. cancelling' = cancelling \/ cancelling' = (cancelling \/ ~TaskDone)
    BY DEF Producer, RunPut, Submit, SubmitRefused, SubmitSoon, SubmitSoonRefused, CancelSubmit,
           Cleanup, StartCleanup, GatherDone, DrainTrue, DrainTimeout, CancelCleanup,
           SettleSkip, SettleSubmit, SettleDrain, SubmitFinishRun, PutSentinel,
           Release, CloseConnection, taskVars
  <1>4. /\ failure' => loop' \in {"drop", "stopped", "died"}
        /\ loop' = "drop" => failure'
        /\ cancelling' => ~TaskDone'
        /\ loop' = "commit" => txn' # <<>>
        /\ failure => failure'
    BY <1>0, <1>1, <1>2, <1>3 DEF FateInv, FailureAfterReap, TaskDone, TaskType, RunType
  <1>5. ASSUME loop' = "died", ~failure' PROVE ~Pending' /\ puts' = durable' \o queue'
    <2>1. ~Pending /\ puts = durable \o queue /\ loop = "died" /\ ~failure
      BY <1>1, <1>4, <1>5 DEF FateInv
    <2>2. \/ UNCHANGED <<queue, puts>>
          \/ \E o \in Ops : puts' = Append(puts, o) /\ queue' = Append(queue, o)
      <3>1. ASSUME Reap \/ RefuseSoon PROVE UNCHANGED queue
        <4>1. failure' = FailureAfterReap
          BY <3>1 DEF Reap, RefuseSoon
        <4>2. ~Abandons
          BY <1>5, <4>1 DEF Abandons
        <4> QED
          BY <3>1, <4>2 DEF Reap, RefuseSoon, queueVars
      <3>2. ASSUME NEW o \in Ops, AcceptAwaited(o)
            PROVE  \/ UNCHANGED <<queue, puts>>
                   \/ puts' = Append(puts, o) /\ queue' = Append(queue, o)
        BY <3>2 DEF AcceptAwaited
      <3>3. CASE Submit \/ SettleSubmit
        <4>1. CASE AcceptAwaited(submitted + 1)
          <5>1. submitted + 1 \in Ops
            BY <1>0, <3>3, WriterAssumption DEF Submit, SettleSubmit, TypeInv, StageInv, SubmitBound,
               CallType, Ops
          <5> QED
            BY <3>2, <4>1, <5>1
        <4>2. CASE Reap /\ UNCHANGED puts
          BY <3>1, <4>2
        <4> QED
          BY <3>3, <4>1, <4>2 DEF Submit, SettleSubmit
      <3>4. CASE RunPut
        <4> DEFINE o == Head(ready)
        <4>1. o \in Ops
          BY <1>0, <3>4, HeadTailProperties DEF RunPut, QueueType
        <4>2. CASE Full
          BY <3>4, <4>2 DEF RunPut
        <4>3. CASE ~Full
          <5>1. failure' = FailureAfterReap /\ puts' = Append(puts, o)
            BY <3>4, <4>3 DEF RunPut
          <5>2. ~Abandons
            BY <1>5, <5>1 DEF Abandons
          <5>3. queue' = Append(queue, o)
            BY <3>4, <4>3, <5>2 DEF RunPut
          <5> QED
            BY <4>1, <5>1, <5>3
        <4> QED
          BY <4>2, <4>3
      <3>5. CASE SubmitRefused \/ SubmitSoonRefused \/ StartCleanup \/ GatherDone \/ Release
                 \/ SettleDrain \/ SubmitFinishRun
        <4>1. UNCHANGED puts /\ (Reap \/ RefuseSoon \/ UNCHANGED queue)
          BY <3>5 DEF SubmitRefused, SubmitSoonRefused, StartCleanup, GatherDone, Release,
                      SettleDrain, SubmitFinishRun, AcceptSoon, queueVars
        <4> QED
          BY <3>1, <4>1
      <3>6. CASE SubmitSoon \/ CancelSubmit \/ DrainTrue \/ DrainTimeout \/ CancelCleanup
                 \/ SettleSkip \/ PutSentinel \/ CloseConnection
        BY <3>6 DEF SubmitSoon, AcceptSoon, CancelSubmit, DrainTrue, DrainTimeout,
           CancelCleanup, SettleSkip, PutSentinel, CloseConnection, queueVars
      <3> QED
        BY <3>3, <3>4, <3>5, <3>6 DEF Producer, Cleanup
    <2>3. CASE UNCHANGED <<queue, puts>>
      BY <1>1, <2>1, <2>3 DEF Pending
    <2>4. ASSUME NEW o \in Ops, puts' = Append(puts, o), queue' = Append(queue, o)
          PROVE  puts' = durable \o queue'
      <3>1. Append(durable \o queue, o) = durable \o Append(queue, o)
        BY <1>0, AppendBehind DEF FlowType
      <3> QED
        BY <2>1, <2>4, <3>1, Zenon
    <2> QED
      BY <1>1, <2>1, <2>2, <2>3, <2>4 DEF Pending
  <1> QED
    BY <1>4, <1>5 DEF FateInv

\* The writer task and its thread.
LEMMA TaskFate ==
  ASSUME TypeInv, FlowInv, FateInv, WriterTask \/ CancelTask \/ Worker
  PROVE  FateInv'
  <1>0. FlowType /\ QueueType /\ TaskType /\ UNCHANGED puts
    BY TypeFlow DEF TypeInv, RestType, WriterTask, TakeSentinel, TakeBatch, CommitReturns,
       CommitRaises, Drop, DeliverCancel, CancelTask, Worker, BeginTry, CommitTry, RollbackTry
  <1>1. CASE TakeSentinel \/ Drop
    BY <1>1 DEF TakeSentinel, Drop, TaskRuns, FateInv, TaskDone, txVars, Pending
  <1>2. CASE TakeBatch
    <2> DEFINE ahead == IF pill > 0 THEN pill ELSE Len(queue)
               n == Minimum(MaxOpsPerTx, ahead)
    <2>1. /\ txn' = SubSeq(queue, 1, n) /\ loop' = "commit" /\ loop = "get"
          /\ UNCHANGED <<failure, cancelling>> /\ queue # <<>> /\ pill # 0 /\ ~cancelling
      BY <1>2 DEF TakeBatch, TaskRuns
    <2>2. n \in 1 .. Len(queue)
      <3>1. Len(queue) \in Nat \ {0}
        BY <1>0, <2>1, EmptySeq, LenProperties DEF QueueType
      <3> QED
        BY <1>0, <2>1, <3>1, WriterAssumption DEF Minimum, QueueType
    <2> HIDE DEF n
    <2>3. Len(txn') = n
      BY <1>0, <2>1, <2>2, SplitSeq DEF QueueType
    <2>4. txn' # <<>>
      BY <2>2, <2>3, EmptySeq
    <2> QED
      BY <2>1, <2>4 DEF FateInv, TaskDone
  <1>3. CASE CommitReturns
    <2>1. /\ loop = "commit" /\ thread = "ok" /\ thread' = "idle" /\ loop' \in {"get", "died"}
          /\ UNCHANGED <<queue, durable, failure, cancelling>> /\ ~cancelling
      BY <1>3 DEF CommitReturns, TransactionCommitted, TaskRuns
    <2>2. puts = durable \o queue
      BY <2>1 DEF FlowInv, PutsInv
    <2> QED
      BY <1>0, <2>1, <2>2 DEF FateInv, TaskDone, Pending
  <1>4. CASE CommitRaises
    BY <1>4 DEF CommitRaises, AfterFailedCommit, TaskRuns, FateInv, TaskDone, Pending
  <1>5. CASE DeliverCancel
    <2>1. cancelling /\ cancelling' = FALSE /\ UNCHANGED <<queue, durable, txn, thread>>
      BY <1>5 DEF DeliverCancel, txVars
    <2>2. CASE loop = "commit"
      <3>1. failure' = TRUE /\ loop' = "drop"
        BY <1>5, <2>2 DEF DeliverCancel
      <3> QED
        BY <2>1, <3>1 DEF FateInv, TaskDone
    <2>3. CASE loop # "commit"
      <3>1. loop' = "died" /\ failure' = failure
        BY <1>5, <2>3 DEF DeliverCancel
      <3>2. loop \in {"get", "drop"}
        BY <1>0, <2>1, <2>3 DEF FateInv, TaskDone, TaskType
      <3>3. ~failure => puts = durable \o queue /\ ~Pending
        BY <3>2 DEF FateInv, FlowInv, PutsInv, TaskInv, Pending
      <3> QED
        BY <1>0, <2>1, <3>1, <3>3 DEF FateInv, Pending
    <2> QED
      BY <2>2, <2>3
  <1>6. CASE CancelTask
    BY <1>0, <1>6 DEF CancelTask, FateInv, TaskDone, txVars, queueVars, Pending
  <1>7. CASE Worker
    <2>1. Pending /\ UNCHANGED <<loop, failure, cancelling, txn>>
      BY <1>7 DEF Worker, BeginTry, CommitTry, RollbackTry, Pending, taskVars
    <2> QED
      BY <2>1 DEF FateInv, TaskDone
  <1> QED
    BY <1>1, <1>2, <1>3, <1>4, <1>5, <1>6, <1>7 DEF WriterTask

LEMMA FateStep ==
  TypeInv /\ FlowInv /\ FateInv /\ [Next]_vars => FateInv'
  <1> SUFFICES ASSUME TypeInv, FlowInv, FateInv, [Next]_vars PROVE FateInv'
    OBVIOUS
  <1>1. CASE UNCHANGED vars
    BY <1>1 DEF vars, FateInv, TaskDone, Pending, queueVars, taskVars, txVars
  <1> QED
    BY <1>1, CallsFate, TaskFate DEF Next, Closed

\* What committed, or still may, reached the queue first.
LEMMA CommitsReachedQueue ==
  ASSUME FlowType, FlowInv
  PROVE  /\ Elems(durable) \subseteq Elems(puts)
         /\ Pending => Elems(txn) \subseteq Elems(puts)
         /\ Elems(durable \o txn) = Elems(durable) \cup Elems(txn)
  <1>1. ASSUME NEW s \in Seq(Ops), Starts(s, puts) PROVE Elems(s) \subseteq Elems(puts)
    BY <1>1, ElemsConcat DEF Starts
  <1>2. durable \o txn \in Seq(Ops) /\ Elems(durable \o txn) = Elems(durable) \cup Elems(txn)
    BY ElemsConcat, ConcatProperties DEF FlowType
  <1> QED
    BY <1>1, <1>2 DEF FlowType, FlowInv, PutsInv

LEMMA RaisedStep ==
  TypeInv /\ FlowInv /\ WaitInv /\ FateInv /\ RaisedInv /\ [Next]_vars => RaisedInv'
  <1> SUFFICES ASSUME TypeInv, FlowInv, WaitInv, FateInv, RaisedInv, [Next]_vars,
                      NEW o \in Ops, told'[o] = "raised"
               PROVE  /\ loop' \in {"drop", "stopped", "died"}
                      /\ o \notin Elems(durable')
                      /\ Pending' => o \notin Elems(txn')
    BY DEF RaisedInv, Elems
  <1>0. FlowType /\ QueueType /\ CallType /\ TaskType /\ RunType
    BY TypeFlow DEF TypeInv, StageInv, RestType
  <1>1. CASE RunPut
    <2> DEFINE p == Head(ready)
    <2>1. UNCHANGED <<loop, txn, thread, durable>>
      BY <1>1 DEF RunPut, txVars
    <2>2. CASE told[o] = "raised"
      BY <2>1, <2>2 DEF RaisedInv, Pending
    <2>3. CASE told[o] # "raised"
      <3>1. p \in Waiting /\ told' = [told EXCEPT ![p] = Answer(p)]
        BY <1>0, <1>1, <2>3, PutMoves
      <3>2. o = p /\ Answer(p) = "raised"
        BY <1>0, <2>3, <3>1 DEF CallType
      <3>3. o \notin Elems(puts)
        BY <3>1, <3>2 DEF WaitInv
      <3>4. FailureAfterReap \/ loop = "stopped"
        BY <3>2 DEF Answer
      <3>5. loop \in {"drop", "stopped", "died"}
        BY <1>0, <3>4 DEF FailureAfterReap, FateInv, TaskType, RunType
      <3> QED
        BY <1>0, <2>1, <3>3, <3>5, CommitsReachedQueue DEF Pending
    <2> QED
      BY <2>2, <2>3
  <1>2. CASE ~RunPut
    <2>1. told[o] = "raised"
      BY <1>0, <1>2
      DEF Next, Producer, Submit, SubmitRefused, SubmitSoon, SubmitSoonRefused, CancelSubmit,
          AcceptAwaited, AcceptSoon, RefuseSoon, WithdrawAwaited, WithdrawDeferred,
          WriterTask, TakeSentinel, TakeBatch, CommitReturns, CommitRaises, Drop, DeliverCancel,
          CancelTask, Worker, BeginTry, CommitTry, RollbackTry,
          Cleanup, StartCleanup, GatherDone, DrainTrue, DrainTimeout, CancelCleanup, SettleSkip,
          SettleSubmit, SettleDrain, SubmitFinishRun, PutSentinel, Release, CloseConnection,
          Closed, vars, callVars, CallType
    <2>2. loop \in {"drop", "stopped", "died"} /\ o \notin Elems(durable) /\ (Pending => o \notin Elems(txn))
      BY <2>1 DEF RaisedInv
    <2>3. loop' \in {"drop", "stopped", "died"}
      BY <1>2, <2>2
      DEF Next, Producer, Submit, SubmitRefused, SubmitSoon, SubmitSoonRefused, CancelSubmit,
          WriterTask, TakeSentinel, TakeBatch, CommitReturns, CommitRaises, Drop, DeliverCancel,
          CancelTask, Worker, BeginTry, CommitTry, RollbackTry, AfterFailedCommit,
          Cleanup, StartCleanup, GatherDone, DrainTrue, DrainTimeout, CancelCleanup, SettleSkip,
          SettleSubmit, SettleDrain, SubmitFinishRun, PutSentinel, Release, CloseConnection,
          Closed, vars, taskVars
    <2>4. CASE Worker
      <3>1. Pending /\ txn' = txn /\ (durable' = durable \/ durable' = durable \o txn)
        BY <2>4 DEF Worker, BeginTry, CommitTry, RollbackTry, Pending
      <3> QED
        BY <1>0, <2>2, <2>3, <3>1, CommitsReachedQueue
    <2>5. CASE ~Worker
      <3>1. UNCHANGED <<durable, txn, thread>>
        BY <1>2, <2>2, <2>5
        DEF Next, Producer, Submit, SubmitRefused, SubmitSoon, SubmitSoonRefused, CancelSubmit,
            WriterTask, TakeSentinel, TakeBatch, CommitReturns, CommitRaises, Drop, DeliverCancel,
            CancelTask, Cleanup, StartCleanup, GatherDone, DrainTrue, DrainTimeout,
            CancelCleanup, SettleSkip, SettleSubmit, SettleDrain, SubmitFinishRun,
            PutSentinel, Release, CloseConnection, Closed, vars, txVars
      <3> QED
        BY <2>2, <2>3, <3>1 DEF Pending
    <2> QED
      BY <2>4, <2>5
  <1> QED
    BY <1>1, <1>2

-----------------------------------------------------------------------------
(* The close *)

\* Where the clean-up is when the sentinel has been taken, the connection
\* released or a cancel has struck.
CloseShape ==
    /\ loop = "stopped" => step \in {"wait", "unlock", "end"}
    /\ ~held => step \in {"unlock", "end"}
    /\ stage = "closed" => step = "end"
    /\ step = "release" => MayCancelRun

HandedOver == {o \in Ops : told[o] \in {"soon", "returned"}}

\* Nothing has gone wrong that would show.
Unharmed == ~MayCancelRun /\ ~failure /\ drainTimeouts = 0

\* A drain that saw nothing wrong has let every put through, and the last one
\* has everything committed.
CloseInv ==
    Unharmed =>
        /\ step \in {"join", "sentinel", "wait", "unlock", "end"} => Waiting = {}
        /\ step \in {"sentinel", "wait", "unlock", "end"} => HandedOver \subseteq Elems(durable)

LEMMA ShapeStep ==
  TypeInv /\ CounterInv /\ CloseShape /\ [Next]_vars => CloseShape'
  <1> SUFFICES ASSUME TypeInv, CounterInv, CloseShape, [Next]_vars PROVE CloseShape'
    OBVIOUS
  <1>0. RunType /\ CleanupShape
    BY DEF TypeInv, StageInv
  <1>1. CASE ~Cleanup
    <2>1. UNCHANGED <<step, stage, held>>
      BY <1>1
      DEF Next, Producer, Submit, SubmitRefused, SubmitSoon, SubmitSoonRefused, CancelSubmit, RunPut,
          WriterTask, TakeSentinel, TakeBatch, CommitReturns, CommitRaises, Drop, DeliverCancel,
          CancelTask, Worker, BeginTry, CommitTry, RollbackTry, Closed, vars, runVars, closeVars
    <2>2. loop' = "stopped" => loop = "stopped" \/ pill = 0
      BY <1>1
      DEF Next, Producer, Submit, SubmitRefused, SubmitSoon, SubmitSoonRefused, CancelSubmit, RunPut,
          WriterTask, TakeSentinel, TakeBatch, CommitReturns, CommitRaises, Drop, DeliverCancel,
          CancelTask, Worker, BeginTry, CommitTry, RollbackTry, Closed, vars, taskVars,
          AfterFailedCommit
    <2> QED
      BY <2>1, <2>2 DEF CloseShape, CounterInv
  <1>2. CASE StartCleanup \/ GatherDone \/ DrainTrue \/ DrainTimeout \/ SettleSkip
             \/ SettleSubmit \/ SettleDrain \/ SubmitFinishRun
    <2>1. UNCHANGED <<loop, held>>
      BY <1>2 DEF StartCleanup, GatherDone, DrainTrue, DrainTimeout, SettleSkip, SettleSubmit,
         SettleDrain, SubmitFinishRun, taskVars, closeVars
    <2>2. step \in {"fetch", "submit", "parked", "gather", "join"}
      BY <1>2 DEF StartCleanup, GatherDone, DrainTrue, DrainTimeout, SettleSkip, SettleSubmit,
         SettleDrain, SubmitFinishRun, CounterInv
    <2>3. step' # "release" /\ stage' # "closed"
      BY <1>0, <1>2 DEF StartCleanup, GatherDone, DrainTrue, DrainTimeout, SettleSkip, SettleSubmit,
         SettleDrain, SubmitFinishRun, LeaveTo, AfterStage, CleanupShape, RunType
    <2> QED
      BY <2>1, <2>2, <2>3 DEF CloseShape
  <1>3. CASE CancelCleanup
    <2>1. UNCHANGED <<loop, held>> /\ MayCancelRun /\ step \in {"gather", "join", "parked"}
      BY <1>3 DEF CancelCleanup, taskVars, closeVars
    <2>2. stage' # "closed"
      BY <1>0, <1>3, <2>1 DEF CancelCleanup, AfterStage, CleanupShape, RunType
    <2> QED
      BY <2>1, <2>2 DEF CloseShape
  <1>4. CASE PutSentinel
    BY <1>4 DEF PutSentinel, CloseShape, taskVars, closeVars
  <1>5. CASE Release
    BY <1>5 DEF Release, CloseShape
  <1>6. CASE CloseConnection
    BY <1>6 DEF CloseConnection, CloseShape, taskVars
  <1> QED
    BY <1>1, <1>2, <1>3, <1>4, <1>5, <1>6 DEF Cleanup

\* A drain that comes to its end with nothing wrong leaves nothing behind.
LEMMA DrainLeavesNothing ==
  ASSUME TypeInv, FlowInv, CounterInv, CallInv, FateInv, CloseShape, CloseInv,
         Unharmed, step = "join", unfinished = 0
  PROVE  Waiting = {} /\ HandedOver \subseteq Elems(durable)
  <1>0. QueueType /\ TxType /\ TaskType /\ FlowType
    BY TypeFlow DEF TypeInv, RowsInv, RestType
  <1>1. Len(queue) = 0 /\ InHand = 0
    BY <1>0, CounterTerms DEF CounterInv
  <1>2. queue = <<>>
    BY <1>0, <1>1, EmptySeq DEF QueueType
  <1>3. loop # "commit"
    <2> SUFFICES ASSUME loop = "commit" PROVE FALSE
      OBVIOUS
    <2>1. txn # <<>> /\ Len(txn) = 0
      BY <1>1 DEF FateInv, InHand
    <2> QED
      BY <1>0, <2>1, EmptySeq DEF TxType
  <1>4. loop \in {"get", "died"}
    BY <1>0, <1>3 DEF TaskType, FateInv, CloseShape, Unharmed
  <1>5. puts = durable \o <<>>
    BY <1>2, <1>4 DEF FateInv, FlowInv, PutsInv, Unharmed
  <1>6. puts = durable
    BY <1>0, <1>5, ConcatEmptySeq DEF FlowType
  <1>7. Waiting = {}
    BY DEF CloseInv
  <1> QED
    BY <1>6, <1>7 DEF CallInv, HandedOver

HandInv == CounterInv /\ WaitInv /\ CallInv /\ FateInv /\ RaisedInv /\ CloseShape /\ CloseInv

\* Nothing wrong now means nothing was wrong before, and no commit is undone.
LEMMA HarmShows ==
  ASSUME TypeInv, FlowInv, [Next]_vars
  PROVE  /\ Unharmed' => Unharmed
         /\ Elems(durable) \subseteq Elems(durable')
  <1>0. TaskType /\ CountType /\ RunType /\ FlowType
    BY TypeFlow DEF TypeInv, RestType, StageInv
  <1>1. failure => failure'
    BY <1>0
    DEF Next, Producer, Submit, SubmitRefused, SubmitSoon, SubmitSoonRefused, CancelSubmit, RunPut,
        AcceptAwaited, AcceptSoon, Reap, RefuseSoon, FailureAfterReap,
        WriterTask, TakeSentinel, TakeBatch, CommitReturns, CommitRaises, Drop, DeliverCancel,
        CancelTask, Worker, BeginTry, CommitTry, RollbackTry,
        Cleanup, StartCleanup, GatherDone, DrainTrue, DrainTimeout, CancelCleanup, SettleSkip,
        SettleSubmit, SettleDrain, SubmitFinishRun, PutSentinel, Release, CloseConnection,
        Closed, vars, taskVars
  <1>2. drainTimeouts' \in {drainTimeouts, drainTimeouts + 1}
    BY DEF Next, Producer, Submit, SubmitRefused, SubmitSoon, SubmitSoonRefused, CancelSubmit, RunPut,
        WriterTask, TakeSentinel, TakeBatch, CommitReturns, CommitRaises, Drop, DeliverCancel,
        CancelTask, Worker, BeginTry, CommitTry, RollbackTry,
        Cleanup, StartCleanup, GatherDone, DrainTrue, DrainTimeout, CancelCleanup, SettleSkip,
        SettleSubmit, SettleDrain, SubmitFinishRun, PutSentinel, Release, CloseConnection,
        Closed, vars
  <1>3. Unharmed' => Unharmed
    BY <1>0, <1>1, <1>2 DEF Unharmed, CountType, TaskType
  <1>4. durable' \in {durable, durable \o txn}
    BY DEF Next, Producer, Submit, SubmitRefused, SubmitSoon, SubmitSoonRefused, CancelSubmit, RunPut,
        WriterTask, TakeSentinel, TakeBatch, CommitReturns, CommitRaises, Drop, DeliverCancel,
        CancelTask, Worker, BeginTry, CommitTry, RollbackTry,
        Cleanup, StartCleanup, GatherDone, DrainTrue, DrainTimeout, CancelCleanup, SettleSkip,
        SettleSubmit, SettleDrain, SubmitFinishRun, PutSentinel, Release, CloseConnection,
        Closed, vars, txVars
  <1>5. Elems(durable) \subseteq Elems(durable')
    <2>1. Elems(durable \o txn) = Elems(durable) \cup Elems(txn)
      BY <1>0, CommitsReachedQueue
    <2>2. CASE durable' = durable
      BY <2>2
    <2>3. CASE durable' = durable \o txn
      BY <2>1, <2>3
    <2> QED
      BY <1>4, <2>2, <2>3
  <1> QED
    BY <1>3, <1>5

\* With no put in line and no request in flight, what was handed over is settled.
LEMMA NothingComes ==
  ASSUME TypeInv, WaitInv, CallInv, CounterInv, [Next]_vars, Waiting = {},
         step \in {"join", "sentinel", "wait", "unlock", "end"}
  PROVE  Waiting' = {} /\ told' = told
  <1>0. CallType /\ QueueType
    BY DEF TypeInv, StageInv
  <1>1. stage # "targets"
    BY DEF CounterInv
  <1>2. submitted' = submitted
    BY <1>1
    DEF Next, Producer, Submit, SubmitRefused, SubmitSoon, SubmitSoonRefused, CancelSubmit, RunPut,
        WriterTask, TakeSentinel, TakeBatch, CommitReturns, CommitRaises, Drop, DeliverCancel,
        CancelTask, Worker, BeginTry, CommitTry, RollbackTry,
        Cleanup, StartCleanup, GatherDone, DrainTrue, DrainTimeout, CancelCleanup, SettleSkip,
        SettleSubmit, SettleDrain, SubmitFinishRun, PutSentinel, Release, CloseConnection,
        Closed, vars, callVars
  <1>3. CallsMove
    BY StepMoves
  <1>4. \A o \in Ops : ~Comes(o)
    BY <1>0, <1>2 DEF Comes, CallType
  <1>5. (told' = [o \in Ops |-> IF o \in Waiting THEN "withdrawn" ELSE told[o]]) => told' = told
    BY <1>0 DEF CallType
  <1> QED
    BY <1>3, <1>4, <1>5 DEF CallsMove

LEMMA CloseStep ==
  TypeInv /\ FlowInv /\ HandInv /\ [Next]_vars => CloseInv'
  <1> SUFFICES ASSUME TypeInv, FlowInv, HandInv, [Next]_vars, Unharmed'
               PROVE  /\ step' \in {"join", "sentinel", "wait", "unlock", "end"} => Waiting' = {}
                      /\ step' \in {"sentinel", "wait", "unlock", "end"} =>
                           HandedOver' \subseteq Elems(durable')
    BY DEF CloseInv, Elems
  <1> USE DEF HandInv
  <1>0. /\ TaskType /\ RunType /\ CleanupShape /\ CountType /\ QueueType
        /\ Unharmed /\ Elems(durable) \subseteq Elems(durable')
    BY HarmShows DEF TypeInv, RestType, StageInv
  <1> DEFINE Late == {"sentinel", "wait", "unlock", "end"}
  <1>1. ASSUME step \in Late, Waiting = {} PROVE Waiting' = {} /\ HandedOver' \subseteq Elems(durable')
    <2>1. Waiting' = {} /\ told' = told
      BY <1>1, NothingComes
    <2>2. HandedOver \subseteq Elems(durable)
      BY <1>0, <1>1 DEF CloseInv
    <2> QED
      BY <1>0, <2>1, <2>2 DEF HandedOver
  <1>2. step \in {"join", "sentinel", "wait", "unlock", "end"} => Waiting = {}
    BY <1>0 DEF CloseInv
  <1>3. CASE ~Cleanup
    <2>1. step' = step
      BY <1>3
      DEF Next, Producer, Submit, SubmitRefused, SubmitSoon, SubmitSoonRefused, CancelSubmit, RunPut,
          WriterTask, TakeSentinel, TakeBatch, CommitReturns, CommitRaises, Drop, DeliverCancel,
          CancelTask, Worker, BeginTry, CommitTry, RollbackTry, Closed, vars, runVars
    <2>2. step = "join" => Waiting' = {}
      BY <1>2, NothingComes
    <2> QED
      BY <1>1, <1>2, <2>1, <2>2
  <1>4. CASE StartCleanup
    BY <1>4 DEF StartCleanup
  <1>5. CASE GatherDone
    <2>1. step = "gather" /\ Waiting = {} /\ Reap
      BY <1>5 DEF GatherDone, Gathered
    <2>2. Waiting' = {}
      BY <2>1, <1>0, ReapMoves DEF WaitInv
    <2>3. held /\ loop # "stopped"
      BY <1>0, <2>1 DEF CloseShape, RunType
    <2>4. ~TaskDone
      BY <1>0, <2>1, <2>3 DEF TaskDone, Reap, FailureAfterReap, Unharmed
    <2>5. step' = "join"
      BY <1>5, <2>4 DEF GatherDone
    <2> QED
      BY <2>2, <2>5
  <1>6. CASE DrainTrue
    <2>1. step = "join" /\ unfinished = 0
      BY <1>6 DEF DrainTrue
    <2>2. Waiting = {} /\ HandedOver \subseteq Elems(durable)
      BY <1>0, <2>1, DrainLeavesNothing
    <2>3. Waiting' = {} /\ told' = told
      BY <2>1, <2>2, NothingComes
    <2> QED
      BY <1>0, <2>2, <2>3 DEF HandedOver
  <1>7. CASE DrainTimeout \/ CancelCleanup
    BY <1>0, <1>7 DEF DrainTimeout, CancelCleanup, Unharmed, CountType
  <1>8. CASE SettleSkip \/ SettleSubmit \/ SettleDrain \/ SubmitFinishRun
    <2>1. step' \in {"submit", "parked", "gather"}
      BY <1>0, <1>8 DEF SettleSkip, SettleSubmit, SettleDrain, SubmitFinishRun, LeaveTo, CleanupShape
    <2> QED
      BY <2>1
  <1>9. CASE PutSentinel \/ Release \/ CloseConnection
    <2>1. step \in Late
      BY <1>0, <1>9 DEF PutSentinel, Release, CloseConnection, CloseShape, Unharmed
    <2> QED
      BY <1>1, <1>2, <2>1
  <1> QED
    BY <1>3, <1>4, <1>5, <1>6, <1>7, <1>8, <1>9 DEF Cleanup

LEMMA HandInit ==
  Init => HandInv
  <1> SUFFICES ASSUME Init PROVE HandInv
    OBVIOUS
  <1>1. Elems(<<>>) = {} /\ Distinct(<<>>) /\ <<>> \in Seq(Ops) /\ <<>> = <<>> \o <<>> /\ Waiting = {}
    BY EmptySeq, ConcatEmptySeq DEF Elems, Distinct, Init, Waiting
  <1>2. CounterInv
    BY EmptySeq DEF Init, CounterInv, Pilled, InHand
  <1>3. WaitInv /\ CallInv
    BY <1>1 DEF Init, WaitInv, CallInv, Lined
  <1>4. FateInv /\ RaisedInv
    BY DEF Init, FateInv, RaisedInv, TaskDone
  <1>5. CloseShape /\ CloseInv
    BY DEF Init, CloseShape, CloseInv
  <1> QED
    BY <1>2, <1>3, <1>4, <1>5 DEF HandInv

LEMMA HandInvariant ==
  Spec => [](TypeInv /\ FlowInv /\ HandInv)
  <1>1. TypeInv /\ FlowInv /\ HandInv /\ [Next]_vars => HandInv'
    BY CounterStep, CallsStep, FateStep, RaisedStep, ShapeStep, CloseStep DEF HandInv
  <1> QED
    BY <1>1, TypeInit, TypeStep, FlowInit, FlowStep, HandInit, PTL DEF Spec

LEMMA DurableElems ==
  ASSUME NEW o
  PROVE  Durable(o) <=> o \in Elems(durable)
  BY DEF Durable, Elems

\* A submit that raised never commits behind its caller's back, whatever batch
\* was in flight, abandoned or retried when it was told so.
THEOREM RaisedIsNotWritten ==
  Spec => []RaisedNeverCommits
  <1>1. HandInv => RaisedNeverCommits
    BY DurableElems DEF HandInv, RaisedInv, RaisedNeverCommits
  <1> QED
    BY <1>1, HandInvariant, PTL

\* drain() that returns True on a writer nothing has happened to means every
\* operation handed over is in the table.
THEOREM DrainsAreComplete ==
  Spec => DrainIsComplete
  <1>1. TypeInv /\ FlowInv /\ HandInv =>
          (DrainTrue /\ ~failure /\ drainTimeouts = 0 /\ ~MayCancelRun =>
             \A o \in Ops : told[o] \in {"soon", "returned"} => Durable(o))
    BY DrainLeavesNothing, DurableElems DEF HandInv, DrainTrue, Unharmed, HandedOver
  <1>2. TypeInv /\ FlowInv /\ HandInv /\ [Next]_vars =>
          [DrainTrue /\ ~failure /\ drainTimeouts = 0 /\ ~MayCancelRun =>
             \A o \in Ops : told[o] \in {"soon", "returned"} => Durable(o)]_vars
    BY <1>1
  <1> QED
    BY <1>2, HandInvariant, PTL DEF Spec, DrainIsComplete

\* When the writer is released, whatever was handed over is in the table unless
\* its own counters say that something went wrong.
THEOREM LossesShow ==
  Spec => []LossIsVisible
  <1>1. TypeInv /\ FlowInv /\ HandInv => LossIsVisible
    <2> SUFFICES ASSUME TypeInv, HandInv, stage = "closed", ~MayCancelRun, ~failure,
                        ~(drainTimeouts > 0), NEW o \in Ops, told[o] \in {"soon", "returned"}
                 PROVE  Durable(o)
      BY DEF LossIsVisible
    <2>1. drainTimeouts = 0 /\ step = "end"
      BY DEF TypeInv, RestType, CountType, HandInv, CloseShape
    <2>2. HandedOver \subseteq Elems(durable)
      BY <2>1 DEF HandInv, CloseInv, Unharmed
    <2> QED
      BY <2>2, DurableElems DEF HandedOver
  <1> QED
    BY <1>1, HandInvariant, PTL

=============================================================================
