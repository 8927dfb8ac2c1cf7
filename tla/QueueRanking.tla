---------------------------- MODULE QueueRanking ----------------------------
(***************************************************************************)
(* The Today queue as a function of the candidate jobs, the number of      *)
(* slots and the policy: build_queue of ranking.py.  A job is a record     *)
(*   [url, company, status, hidden, snoozed, tier, match, competition,     *)
(*    odds_score, age, described]                                          *)
(* whose labels are already ranks: match 0..3 and competition 0..2, Absent *)
(* for a label that is missing or cannot be parsed, age in days.           *)
(***************************************************************************)
EXTENDS Integers, FiniteSets, Sequences

CONSTANTS
    MinTier, CompanyCap, FreshDays, StaleDays,  \* QueuePolicy
    AimTier                                     \* the tier the aim lane starts at

Absent == 99
Nameless == 0

Reasons == {"not-new", "hidden", "snoozed", "tier-below-cutoff", "stale-posting",
            "company-cap", "uncertainty-cap", "beyond-cap"}

MatchRank(j) == IF j.match = Absent THEN 5 ELSE j.match
CompetitionRank(j) == IF j.competition = Absent THEN 3 ELSE j.competition
OddsRank(j) ==
    IF Absent \in {j.match, j.competition} THEN 1000 ELSE MatchRank(j) * 10 + CompetitionRank(j)

Bucket(j) ==
    IF j.age = Absent THEN "unknown"
    ELSE IF j.age =< FreshDays THEN "fresh"
    ELSE IF j.age =< StaleDays THEN "aging" ELSE "stale"
BucketRank(j) == [fresh |-> 0, aging |-> 1, unknown |-> 1, stale |-> 2][Bucket(j)]

\* The first gate a job fails, in the order they are tried; "" when it is eligible.
Ineligibility(j) ==
    IF j.status # "New" THEN "not-new"
    ELSE IF j.hidden THEN "hidden"
    ELSE IF j.snoozed THEN "snoozed"
    ELSE IF j.tier < MinTier THEN "tier-below-cutoff"
    ELSE IF Bucket(j) = "stale" THEN "stale-posting" ELSE ""

Uncertain(j) == Absent \in {j.match, j.competition, j.odds_score} \/ ~j.described

UncertainCap(cap) == IF cap \div 5 > 1 THEN cap \div 5 ELSE 1

\* A job without a company is a company of its own.
CompanyKey(j) == <<j.company, IF j.company = Nameless THEN j.url ELSE 0>>

ScoreKeys(j) == IF j.odds_score = Absent THEN <<1, 0>> ELSE <<0, -j.odds_score>>

BankKey(j) == <<CompetitionRank(j), MatchRank(j), BucketRank(j)>> \o ScoreKeys(j) \o <<-j.tier, j.url>>
AimKey(j) == <<-j.tier, OddsRank(j), BucketRank(j)>> \o ScoreKeys(j) \o <<j.url>>

Before(s, t) ==
    \E i \in DOMAIN s : s[i] < t[i] /\ \A h \in 1 .. i - 1 : s[h] = t[h]

\* The i-th job of a lane, as a set of at most one: the job that i - 1 others go before.
Bank(eligible, i) ==
    {j \in eligible : Cardinality({k \in eligible : Before(BankKey(k), BankKey(j))}) = i - 1}

Aim(eligible, i) ==
    LET high == {j \in eligible : j.tier >= AimTier}
    IN {j \in high : Cardinality({k \in high : Before(AimKey(k), AimKey(j))}) = i - 1}

HeldBy(entries, key) == Cardinality({i \in DOMAIN entries : CompanyKey(entries[i].job) = key})
UncertainIn(entries) == Cardinality({i \in DOMAIN entries : Uncertain(entries[i].job)})

\* try_push: nothing once the queue is full or the job is decided; else a slot or a cap.
TryPush(acc, turn, cap) ==
    LET j == turn.job IN
    IF Len(acc.entries) >= cap \/ j \in acc.decided THEN acc
    ELSE IF HeldBy(acc.entries, CompanyKey(j)) >= CompanyCap
    THEN [acc EXCEPT !.decided = @ \cup {j}, !.capped["company-cap"] = @ \cup {j}]
    ELSE IF Uncertain(j) /\ UncertainIn(acc.entries) >= UncertainCap(cap)
    THEN [acc EXCEPT !.decided = @ \cup {j}, !.capped["uncertainty-cap"] = @ \cup {j}]
    ELSE [acc EXCEPT !.decided = @ \cup {j}, !.entries = Append(@, turn)]

Try(acc, place, lane, cap) ==
    IF place = {} THEN acc ELSE TryPush(acc, [job |-> CHOOSE j \in place : TRUE, lane |-> lane], cap)

\* The i-th of each lane are tried in turn, the bank's first.
Round(acc, eligible, i, cap) ==
    Try(Try(acc, Bank(eligible, i), "bank", cap), Aim(eligible, i), "aim", cap)

Unfilled ==
    [entries |-> <<>>, decided |-> {}, capped |-> [r \in {"company-cap", "uncertainty-cap"} |-> {}]]

\* The queue after so many turns.
Filled(eligible, cap) ==
    LET after[i \in 0 .. Cardinality(eligible)] ==
            IF i = 0 THEN Unfilled ELSE Round(after[i - 1], eligible, i, cap)
    IN after[Cardinality(eligible)]

EligibleJobs(jobSet) == {j \in jobSet : Ineligibility(j) = ""}

\* The entries in rank order and the jobs each reason left out.
BuildQueue(jobSet, cap) ==
    LET pushed == Filled(EligibleJobs(jobSet), cap)
    IN [entries  |-> pushed.entries,
        excluded |-> [r \in Reasons |->
            IF r \in DOMAIN pushed.capped THEN pushed.capped[r]
            ELSE IF r = "beyond-cap" THEN EligibleJobs(jobSet) \ pushed.decided
            ELSE {j \in jobSet : Ineligibility(j) = r}]]
=============================================================================
