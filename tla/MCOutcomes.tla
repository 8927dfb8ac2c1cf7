------------------------------ MODULE MCOutcomes ------------------------------
EXTENDS Outcomes

CONSTANTS k1, k2, r1, r2, r3, pa, pb

MCPatches == {[status |-> "Applied"], [status |-> "New", starred |-> 1]}

\* One role per url; then the two exchanged, or one gone and its url recycled.
MCLoaded == <<k1, k2>>
MCBatches == {<<k2, k1>>, <<k2>>}

\* The url without an alias resolves by its role; when the roles are exchanged both urls
\* are one posting's.
MCBridge == [k \in Keys |-> IF k = k1 THEN pa ELSE pb]

MCAliases == {<<NoKey, pb>>}

MCTraits == [u \in Urls |->
    [url |-> u, company |-> 1, status |-> "New", hidden |-> FALSE, snoozed |-> FALSE,
     tier |-> 5 - u, match |-> 1, competition |-> u, odds_score |-> 50, age |-> 3, described |-> TRUE]]

MCItemLists == {
    <<[rank |-> 1, posting |-> pa, version |-> 0], [rank |-> 2, posting |-> pb, version |-> 1]>>,
    <<[rank |-> 1, posting |-> pa, version |-> 0], [rank |-> 1, posting |-> pb, version |-> 0]>>}

MCEventBodies ==
    {[posting |-> NoKey, url |-> 1, snapshot |-> r1, rank |-> n, key |-> 1] : n \in {0, 2}}
    \cup {[posting |-> pb, url |-> 1, snapshot |-> NoRequest, rank |-> 1, key |-> 1],
          [posting |-> Ghost, url |-> 1, snapshot |-> NoRequest, rank |-> 0, key |-> 0],
          [posting |-> NoKey, url |-> 2, snapshot |-> r1, rank |-> 0, key |-> 0]}

==============================================================================
