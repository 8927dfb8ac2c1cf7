------------------------------ MODULE MCCollection ------------------------------
(* Five parts that share no state: the walk of a paging adapter, the fetch   *)
(* of the child-process adapter, the pacing of a host, the passes that       *)
(* describe and review postings, and the desk where jobs are worked, queued  *)
(* and recommended.  Each behaviour is of one of them, the others at rest.   *)
EXTENDS MCOutcomes, LlmReview, SourceWalk, JobSpyChild, PacedHost

CONSTANTS c1, c2, c3, c4

VARIABLE part

collectionVars == <<part, walkVars, childVars, pacedVars, allVars, vars>>

-----------------------------------------------------------------------------
\* Rows by what they carry.
Full == {"title", "url", "id", "alt", "focus"}
Blank == {"url", "id"}
Bare == {"title"}
Linked == {"title", "url"}
Numbered == {"title", "id", "focus"}
Aka == {"title", "alt", "focus"}

\* The first row of a term is the same posting whatever the variant.
Listing(rows, q) ==
    [k \in 1..Len(rows) |-> [fields |-> rows[k], posting |-> IF k = 1 THEN <<q.term, "", 1>> ELSE <<q.term, q.variant, k>>]]
Terms2 == <<"a", "b">>
BoardPages == {"board", "x", "y", "z"}
MCQueries == [term : {"a", "b"} \cup BoardPages, variant : {"anywhere", "washington", "sf-metro", "remote-us"}]
Links == [board |-> <<"x", "y">>, x |-> <<"y", "z", "x">>, y |-> <<>>, z |-> <<"x">>]
Site(adapter, entry, terms, counted, shifts, long, short) ==
    [site |-> [adapter |-> adapter, entry |-> entry, terms |-> terms, links |-> Links, counted |-> counted, shifts |-> shifts],
     board |-> [q \in MCQueries |-> Listing(IF q.term \in {"a", "board", "x"} THEN long ELSE short, q)]]

\* A list beyond the cap, a page of nothing usable, a page that ends exactly full.
Long == <<Full, Blank, Linked, Numbered, Full>>
Holed == <<Full, Full, Blank, Blank, Full>>
Exact == <<Full, Full, Aka, Bare>>

Paging == Termed \cup {"jibe state", "smartrecruiters", "icims", "yc"}
Same(terms) == <<terms, terms>>
Edited == <<Terms2, <<"b">>>>
Counting == {"amazon", "workday", "smartrecruiters"}
MCSites ==
    {Site(a, "whole", Same(Terms2), TRUE, FALSE, Long, <<Aka>>) : a \in Paging \cup {"greenhouse"}}
    \cup {Site(a, "whole", Edited, TRUE, FALSE, Exact, <<Full, Full>>) : a \in Termed}
    \cup {Site(a, "whole", Same(<<"a">>), TRUE, FALSE, Holed, <<>>) : a \in Paging \cup {"greenhouse"}}
    \cup {Site(a, "whole", Same(<<"a">>), FALSE, FALSE, Exact, <<>>) : a \in Counting}
    \cup {Site(a, "whole", Same(<<>>), TRUE, TRUE, Exact, <<>>) : a \in {"smartrecruiters", "icims"}}
    \cup {Site(a, e, Same(t), TRUE, FALSE, <<Full>>, <<Full>>) :
             a \in Paging \cup Single, e \in {"whole", "blank key", "not an object", "bare"}, t \in {<<>>, <<"a">>}}

-----------------------------------------------------------------------------
Errand(cap, from, overlong) ==
    LET Row(u, t) == [url |-> u, title |-> t] IN
    [rows |-> <<<<Row("u1", "t"), Row("", ""), Row("u2", "t")>>, <<Row("u1", "t"), Row("u3", "t"), Row("u4", "s")>>>>,
     cap |-> cap, from |-> from, overlong |-> overlong]
MCErrands == {Errand(1, 0, FALSE), Errand(0, 1, FALSE), Errand(1, 2, FALSE), Errand(1, 1, TRUE)}

-----------------------------------------------------------------------------
On(remote, location, title, employer, host) ==
    [remote |-> remote, location |-> location, title |-> title, company |-> employer, host |-> host]
MCCheap ==
    <<On(FALSE, "fine", "fine", "fine", "a"), On(FALSE, "fine", "fine", "fine", "a"), On(TRUE, "excluded", "fine", "fine", "b"),
      On(FALSE, "excluded", "fine", "fine", "b"), On(FALSE, "fine", "fine", "fine", NoHost),
      On(FALSE, "fine", "off focus", "staffing agency", "a")>>
MCPostingOf == <<1, 1, 2, 3, 3, 4>>
Says(text, keys, t, confidence, why) == [text |-> text, keys |-> keys, tier |-> t, confidence |-> confidence, why |-> why]
Three == {"tier", "why", "confidence"}
MCResponses ==
    [good |-> Says("one object", Three, 4, "high", "fits"), retargeted |-> Says("one object", Three \cup {"url"}, 5, "high", "fits")]
Setting(first, second, described, runs, failing, reviewing, changed, workLists, tiersGiven) ==
    [load |-> <<first, second>>, described |-> described, passes |-> runs, broken |-> failing, reviews |-> reviewing,
     rescored |-> changed, work |-> workLists, tiers |-> tiersGiven]
AllFour == {<<4, 4, 4, 4, 4, 4>>}
\* Two passes over shared postings; three calls under a failing commit or a crash; a fetch
\* beside two reviews; two reviews, a crash and a rescoring.
MCSettings ==
    {Setting({1, 2, 3, 4}, {1, 5, 6}, <<>>, 2, 1, 0, {}, {}, AllFour),
     Setting({1, 2}, {}, <<>>, 3, 1, 0, {}, {}, AllFour),
     Setting({2}, {}, <<1, 5>>, 1, 0, 2, {}, {{1, 2, 3}}, {<<4, 4, 5, 4, 3, 4>>}),
     Setting({2}, {}, <<1, 3, 5>>, 0, 1, 2, {2}, {{1, 2, 3}, {1, 3, 4}}, {<<4, 4, 2, 4, 5, 0>>})}

\* The two requests that may edit are alike.
EditorSymmetry == Permutations(Editors)

-----------------------------------------------------------------------------
\* The bound of the desk: a midnight or a corpus that moves, not both.
DeskBound == today' = 1 \/ version' = [p \in Postings |-> 1]

\* What a part at rest starts from: any one of its initial states.
CollectionInit ==
    /\ part \in {"walk", "child", "pacing", "review", "desk"}
    /\ WalkInit /\ (part = "walk" \/ [site |-> site, board |-> board] = CHOOSE s \in Sites : TRUE)
    /\ ChildInit /\ (part = "child" \/ errand = CHOOSE e \in Errands : TRUE)
    /\ PacedInit
    /\ EnrichInit /\ ReviewInit /\ (part = "review" \/ setting = CHOOSE s \in Settings : TRUE)
    /\ Init /\ (part = "desk" \/ alias = CHOOSE a \in Aliases : TRUE)

CollectionNext ==
    \/ part = "walk" /\ WalkNext /\ UNCHANGED <<part, childVars, pacedVars, allVars, vars>>
    \/ part = "child" /\ ChildNext /\ UNCHANGED <<part, walkVars, pacedVars, allVars, vars>>
    \/ part = "pacing" /\ PacedNext /\ UNCHANGED <<part, walkVars, childVars, allVars, vars>>
    \/ part = "review" /\ ReviewNext /\ UNCHANGED <<part, walkVars, childVars, pacedVars, vars>>
    \/ part = "desk" /\ Next /\ DeskBound /\ UNCHANGED <<part, walkVars, childVars, pacedVars, allVars>>

CollectionSpec == CollectionInit /\ [][CollectionNext]_collectionVars
=============================================================================
