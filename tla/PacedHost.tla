------------------------------- MODULE PacedHost -------------------------------
(***************************************************************************)
(* PacedTransport: the targets of a run that share a host pass one gate, of  *)
(* as many places as the host allows, and inside it each claims the next     *)
(* sending slot before it waits for the slot to come.  A claim is taken with *)
(* no await between reading and writing the schedule; a sleeper may wake     *)
(* late, and a call may be cancelled wherever it awaits.                     *)
(***************************************************************************)
EXTENDS Naturals, Sequences, FiniteSets

CONSTANTS
    Calls,          \* requests to the host
    Places,         \* per_host_concurrency
    Interval,       \* min_request_interval_seconds
    MaxClock,       \* bound on time
    MaxCancels      \* bound: calls cancelled

ASSUME PacedAssumption ==
    IsFiniteSet(Calls) /\ Places \in Nat \ {0} /\ Interval \in Nat \ {0}

VARIABLES
    clock,
    queue,          \* calls parked on the gate, first come first served
    free,           \* the semaphore's value
    nextAt,         \* _next_at: the earliest instant of the next slot
    slot,           \* call -> the instant it claimed
    where,          \* call -> "outside", "parked", "sleeping", "sending", "answered" or "cancelled"
    sent            \* calls that reached the host

pacedVars == <<clock, queue, free, nextAt, slot, where, sent>>

PacedInit ==
    /\ clock = 0 /\ queue = <<>> /\ free = Places /\ nextAt = 0
    /\ slot = [c \in Calls |-> 0] /\ where = [c \in Calls |-> "outside"] /\ sent = {}

Arrive(c) ==
    /\ where[c] = "outside"
    /\ where' = [where EXCEPT ![c] = "parked"] /\ queue' = Append(queue, c)
    /\ UNCHANGED <<clock, free, nextAt, slot, sent>>

\* _reserve: the claim is written before the wait.
Reserve(c) ==
    LET at == IF clock > nextAt THEN clock ELSE nextAt IN
    slot' = [slot EXCEPT ![c] = at] /\ nextAt' = at + Interval

Admit ==
    /\ queue # <<>> /\ free > 0
    /\ free' = free - 1 /\ queue' = Tail(queue)
    /\ where' = [where EXCEPT ![Head(queue)] = "sleeping"]
    /\ Reserve(Head(queue))
    /\ UNCHANGED <<clock, sent>>

Send(c) ==
    /\ where[c] = "sleeping" /\ clock >= slot[c]
    /\ where' = [where EXCEPT ![c] = "sending"] /\ sent' = sent \cup {c}
    /\ UNCHANGED <<clock, queue, free, nextAt, slot>>

Answered(c) ==
    /\ where[c] = "sending"
    /\ where' = [where EXCEPT ![c] = "answered"] /\ free' = free + 1
    /\ UNCHANGED <<clock, queue, nextAt, slot, sent>>

\* A waiter that gives up leaves the others in their order.
Without(s, n) == SubSeq(s, 1, n - 1) \o SubSeq(s, n + 1, Len(s))

Departs(c) ==
    IF where[c] = "parked"
    THEN \E n \in 1..Len(queue) : queue[n] = c /\ queue' = Without(queue, n)
    ELSE queue' = queue

\* Mutant of CancelCall: the place is given back only by an answer.
CancelLeaking(c) ==
    /\ where[c] \in {"parked", "sleeping", "sending"}
    /\ Cardinality({d \in Calls : where[d] = "cancelled"}) < MaxCancels
    /\ where' = [where EXCEPT ![c] = "cancelled"]
    /\ Departs(c)
    /\ UNCHANGED <<clock, free, nextAt, slot, sent>>

\* The deadline or a cancelled run; a slot once claimed is not given back.
CancelCall(c) ==
    /\ where[c] \in {"parked", "sleeping", "sending"}
    /\ Cardinality({d \in Calls : where[d] = "cancelled"}) < MaxCancels
    /\ where' = [where EXCEPT ![c] = "cancelled"]
    /\ Departs(c)
    /\ free' = IF where[c] = "parked" THEN free ELSE free + 1
    /\ UNCHANGED <<clock, nextAt, slot, sent>>

Tick == clock < MaxClock /\ clock' = clock + 1 /\ UNCHANGED <<queue, free, nextAt, slot, where, sent>>

PacedNext == Admit \/ Tick \/ \E c \in Calls : Arrive(c) \/ Send(c) \/ Answered(c) \/ CancelCall(c)

PacedSpec == PacedInit /\ [][PacedNext]_pacedVars

----------------------------------------------------------------------------
\* The gate never has more places than the host allows; a parked call is in the queue, once.
PacedTypeOK ==
    /\ free \in 0..Places
    /\ queue \in Seq(Calls) /\ {queue[n] : n \in 1..Len(queue)} = {c \in Calls : where[c] = "parked"}
    /\ \A m, n \in 1..Len(queue) : queue[m] = queue[n] => m = n

\* No two calls ever hold slots closer than the interval, however many the gate lets in at
\* once, whichever is cancelled and however late a sleeper wakes; and none is sent before
\* its slot.
Claimed == {c \in Calls : where[c] \in {"sleeping", "sending", "answered"}} \cup sent
RateHeld ==
    /\ \A c, d \in Claimed : c # d => slot[c] + Interval <= slot[d] \/ slot[d] + Interval <= slot[c]
    /\ \A c \in sent : slot[c] <= clock

\* A place taken is a call inside: no ending of a call, not even a cancel in its wait,
\* leaves a place taken for ever or gives one back twice.
GateBalances == free + Cardinality({c \in Calls : where[c] \in {"sleeping", "sending"}}) = Places

\* The host is called at its pace, and every place at its gate is accounted for.
PacingSound == PacedTypeOK /\ RateHeld /\ GateBalances
=============================================================================
