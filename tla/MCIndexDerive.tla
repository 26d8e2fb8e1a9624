--------------------------- MODULE MCIndexDerive ----------------------------
(* IndexDerive over four PUBLIC documents, one of them without a route, an  *)
(* INTERNAL one, and two sitemaps of the same length.                      *)
EXTENDS IndexDerive, TLC

CONSTANTS d1, d2, d3, d4, i1, r1, r2, r3, r4

MCRoute == (d1 :> r1) @@ (d2 :> r2) @@ (d3 :> r3) @@ (d4 :> None) @@ (i1 :> r4)

Candidate(docs, clean, publicOnly) ==
  [idx |-> docs, meta |-> docs,
   man |-> [clean |-> clean, publicOnly |-> publicOnly, idx |-> docs, meta |-> docs,
           counts |-> CountsOf(docs \cap Public, docs \ Public), sitemap |-> None]]

(* A good mixed candidate, one whose build failed, one that was tampered with. *)
MCMixed == {Candidate(Docs, TRUE, FALSE), Candidate(Docs, FALSE, FALSE),
            [Candidate(Docs, TRUE, FALSE) EXCEPT !.meta = Docs \ {i1}]}
=============================================================================
