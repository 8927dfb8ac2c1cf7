------------------------------ MODULE MCDatabase ------------------------------
EXTENDS Database

CONSTANTS p1, p2

Row(id, key, url, status, applied, starred) ==
    [id |-> id, key |-> key, url |-> url, status |-> status, applied |-> applied, starred |-> starred,
     upd |-> id, posting |-> NoLineage]
Job(url, key, first, last, present) == [url |-> url, key |-> key, first |-> first, last |-> last, present |-> present]
Hist(url, key, date, present) == [url |-> url, key |-> key, date |-> date, present |-> present]

\* Two rows of one role with no url of their own, a parked row, and one that never began.
Fan == {Row(1, 1, 0, 2, TRUE, FALSE), Row(2, 1, 0, 4, TRUE, TRUE), Row(3, 2, Orphan, 1, FALSE, FALSE), Row(4, 3, 1, 0, FALSE, FALSE)}
Quiet == {Row(1, 1, 1, 0, FALSE, FALSE)}

\* A url that two roles have had, one role at two urls, a blank key.
Board == {Job(1, 1, 2, 3, TRUE), Job(2, 2, 1, 2, FALSE), Job(3, 2, 3, 3, TRUE)}
Past == {Hist(1, 3, 1, TRUE), Hist(1, 1, 2, TRUE), Hist(2, 2, 1, TRUE), Hist(2, 2, 2, FALSE), Hist(4, 0, 1, TRUE)}
Old(rows) == [Empty EXCEPT !.rows = rows, !.jobs = Board, !.hist = Past, !.runs = {1, 2}]

\* Release 16 still had the wide view of jobs.
Wide(c) == [c EXCEPT !.objs = Replace(@, Col("compat_jobs", "all"))]

MCOrigins ==
    {Empty, [Empty EXCEPT !.objs = {T("unrelated")}], Origin(0, Old(Quiet)), Origin(0, Old(Fan)),
     Origin(1, Old(Fan)), Origin(4, Old(Fan)), Wide(Origin(16, Old(Fan)))}
MCBudgets ==
    {[crew |-> {p1, p2}, opens |-> 2, faults |-> 1, dumps |-> 0],
     [crew |-> {p1}, opens |-> 2, faults |-> 1, dumps |-> 1]}
MCAlone == {[crew |-> {p1}, opens |-> 1, faults |-> 0, dumps |-> 0]}
==============================================================================
