-------------------------- MODULE MCFilteredSearch --------------------------
(* The search alone, on every index of at most MaxTotal rows and every kind *)
(* of row, or called by retrieve, on every index of at most MaxRows rows.   *)
(* Names of repositories and bundles are interchangeable: one is asked for. *)
EXTENDS Retrieval

CONSTANTS r1, b1

MCRequests == [top_k : {1, 2}, repo : {r1, Nothing}, bundle : {b1, Nothing}, rerank : BOOLEAN, floor : BOOLEAN]

SearchOrRetrieve ==
    /\ RetrieveInit \/ (Init /\ corpus = <<>> /\ request = Nothing /\ answer = Nothing)
    /\ [][RetrieveNext]_retrievalVars
    /\ WF_retrievalVars(Search)
=============================================================================
