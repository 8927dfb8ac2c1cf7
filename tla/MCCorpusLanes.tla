--------------------------- MODULE MCCorpusLanes ---------------------------
(* Two boards' worth of records, an aggregator and one imported posting. *)
EXTENDS CorpusLanes

Rec(ns, req, url, text) == [ns |-> ns, req |-> req, url |-> url, text |-> text]
Board1 == Rec("gh", "1", "u", "old")
Board1Edited == Rec("gh", "1", "u", "new")
Board2 == Rec("gh", "2", "u", "old")
Mirror == Rec("js", "9", "", "old")
MirrorByUrl == Rec("js", "", "u", "new")

MCRecords == {Board1, Board1Edited, Board2, Mirror, MirrorByUrl}
MCMembers == [gh |-> {"daily"}, js |-> {"daily", "aggregators"}]
MCKinds == {"daily", "aggregators"}
MCStaged == {"daily"}
MCCategory == [gh |-> "direct", js |-> "aggregator"]
Imported == <<"legacy", "legacy-url", "raw">>
MCPostingOrder == <<Imported, <<"source_req", "gh", "1">>, <<"source_req", "gh", "2">>,
                    <<"source_req", "js", "9">>, <<"url", "url", "u">>>>
MCLegacyUrls == [p \in {Imported} |-> "raw"]
MCNormal == [raw |-> "u"]
MCNsOrder == <<"gh", "js">>
MCAd == [old |-> [company |-> <<"acme", "inc">>, title |-> <<"data", "engineer">>, location |-> <<"seattle", "wa">>],
         new |-> [company |-> <<"acme">>, title |-> <<"senior", "data", "engineer">>, location |-> <<"remote">>]]
MCNoise == {"inc"}
MCShort == {"wa"}
MCBatches == {<<Board1, Board2>>, <<Board1Edited>>, <<Mirror>>}
MCBodies == {"body"}
MCSymmetry == Permutations(Identities)

\* The bound of the corpus: at most one posting is described, and at most one run is
\* interrupted or leaves its pass open.
Lost(n) == runs[n].status = "interrupted" \/ (passes[n].status = "running" /\ pass.run # n)
CorpusBound == Cardinality(described) <= 1 /\ Cardinality({n \in Runs : Lost(n)}) <= 1

BoundedSpec == Init /\ [][Next /\ CorpusBound']_vars
=============================================================================
