----------------------------- MODULE DurableLog -----------------------------
(***************************************************************************)
(* What the writer promises its observers: an append-only log, and an      *)
(* announcement that follows it.  Operations are appended in groups (a     *)
(* transaction); an announcement repeats, in order and without a gap,      *)
(* operations that are already in the log.  Once announcements fall behind *)
(* for good - the hook failed, or the writer did - the log may still grow. *)
(***************************************************************************)
EXTENDS Integers, Sequences

VARIABLES
    log,        \* what a crash cannot erase, in commit order
    announced   \* what observers have been told

StartsWith(t, s) == Len(s) <= Len(t) /\ \A i \in 1 .. Len(s) : t[i] = s[i]

Init == log = <<>> /\ announced = <<>>

Commit ==
    /\ StartsWith(log', log)
    /\ announced' = announced

Announce ==
    /\ StartsWith(announced', announced)
    /\ StartsWith(log, announced')
    /\ log' = log

Next == Commit \/ Announce

Spec == Init /\ [][Next]_<<log, announced>>
=============================================================================
