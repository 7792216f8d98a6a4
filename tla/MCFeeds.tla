------------------------------ MODULE MCFeeds ------------------------------
(* Three entries whose paths are in another order than their identifiers.    *)
EXTENDS Feeds

MCEntries == 1..3
MCPathRank == <<2, 3, 1>>
OnceEach == [e \in 1..3 |-> 1]
NoFacets == <<>>
OneFacet == <<"months">>
=============================================================================
