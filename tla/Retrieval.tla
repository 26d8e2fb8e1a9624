------------------------------ MODULE Retrieval -----------------------------
(***************************************************************************)
(* rag/engine.py `RAGEngine.retrieve` on top of the filtered search: which *)
(* rows of the index a question may be answered from.  The index also      *)
(* holds what is not public; a request may be scoped to one bundle or one  *)
(* repository, may set a floor of relevance, and may have a wider set of   *)
(* candidates put in another order by a cross-encoder and cut.             *)
(***************************************************************************)
EXTENDS FilteredSearch

CONSTANTS
    Visibilities, Allowed,  \* classes of a row, those this caller may read
    Repos, Bundles,         \* what rows belong to
    Nothing,
    MaxRows,                \* bound: rows of the index
    Requests                \* bound: the requests made

VARIABLES
    corpus,         \* metadata[i] of the row of each rank, and its cosine
    request,        \* the arguments of retrieve
    answer          \* what it returns: ranks, Nothing until then

retrievalVars == <<vars, corpus, request, answer>>

Row == [visibility : Visibilities, repo : Repos, bundle : Bundles,
        cosine : {"irrelevant", "unmeasured", "relevant"}]
Request == [top_k : Nat, repo : Repos \cup {Nothing}, bundle : Bundles \cup {Nothing},
            rerank : BOOLEAN, floor : BOOLEAN]

ASSUME RetrievalAssumption ==
    /\ MaxRows \in Nat
    /\ Requests \subseteq Request
    /\ Nothing \notin Requests

Scoped(r) == r.repo # Nothing \/ r.bundle # Nothing

\* Given both, the bundle is the scope.
InScope(r, meta) ==
    IF r.bundle # Nothing THEN meta.bundle = r.bundle
    ELSE r.repo # Nothing => meta.repo = r.repo

\* `accept` of retrieve, which searches by itself when there is no scope.
AcceptsAny(meta) == meta.visibility \in Allowed

\* Mutant: the scope replaces the visibility filter instead of adding to it.
AcceptsScoped_ScopeOnly(r, meta) == InScope(r, meta)

\* `accept` of filter_search, another function in another file.
AcceptsScoped(r, meta) == meta.visibility \in Allowed /\ InScope(r, meta)

Accepts(r, meta) == IF Scoped(r) THEN AcceptsScoped(r, meta) ELSE AcceptsAny(meta)

KindOf(r, meta) == IF Accepts(r, meta) THEN meta.cosine ELSE "rejected"

fetch_k(r) == IF r.rerank THEN 3 * r.top_k ELSE r.top_k
-----------------------------------------------------------------------------
\* The call of search_allowed for a request.
RetrieveInit ==
    /\ corpus \in UNION {[1 .. n -> Row] : n \in 0 .. MaxRows}
    /\ request \in Requests
    /\ answer = Nothing
    /\ ranked = [i \in DOMAIN corpus |-> KindOf(request, corpus[i])]
    /\ want = fetch_k(request)
    /\ initial_k = IF Scoped(request) THEN 3 * fetch_k(request) ELSE 0
    /\ floor = request.floor
    /\ pc = "start" /\ k = 0 /\ row = 1 /\ found = <<>>

Search == Next /\ UNCHANGED <<corpus, request, answer>>

\* Mutant: the reranked candidates are not cut.
Reorderings_Uncut(top_k) == {f \in [DOMAIN found -> Rows] : Rows = {f[i] : i \in DOMAIN f}}

\* rerank: by the cross-encoder's scores, any order; without one as they are.
Reorderings(top_k) ==
    {SubSeq(f, 1, Least(top_k, Len(found))) :
        f \in {g \in [DOMAIN found -> Rows] : Rows = {g[i] : i \in DOMAIN g}}}

Return ==
    /\ pc = "done" /\ request # Nothing /\ answer = Nothing
    /\ IF request.rerank
       THEN answer' \in Reorderings(request.top_k)
       ELSE answer' = found
    /\ UNCHANGED <<vars, corpus, request>>

RetrieveNext == Search \/ Return

RetrieveSpec == RetrieveInit /\ [][RetrieveNext]_retrievalVars
-----------------------------------------------------------------------------
(* Properties *)

\* No row that this caller may not read, none outside the scope and none
\* below the floor is returned, whatever the window was widened to and the
\* cross-encoder makes of it ("widening can never admit a chunk the filter
\* rejects", filtered_search.py:11-12).
AnswersWithinScope ==
    answer # Nothing => \A i \in DOMAIN answer :
        LET meta == corpus[answer[i]] IN
            /\ meta.visibility \in Allowed
            /\ request.bundle # Nothing => meta.bundle = request.bundle
            /\ request.repo # Nothing /\ request.bundle = Nothing => meta.repo = request.repo
            /\ request.floor => meta.cosine = "relevant"

\* As many rows as there are, up to top_k, without repetition; they are the
\* best ones, or with the cross-encoder some of the best 3 * top_k.
AnswersAreBest ==
    answer # Nothing =>
        LET picked == {answer[i] : i \in DOMAIN answer} IN
            /\ Len(answer) = Least(request.top_k, Cardinality(Qualified))
            /\ Cardinality(picked) = Len(answer)
            /\ \A i \in picked : i \in Qualified /\ Cardinality(Before(i)) < fetch_k(request)
            /\ ~request.rerank => \A i \in 1 .. Len(answer) : Cardinality(Before(answer[i])) = i - 1
=============================================================================
