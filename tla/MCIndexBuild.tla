---------------------------- MODULE MCIndexBuild ----------------------------
(* IndexBuild over two repositories: docs has a PUBLIC and an INTERNAL     *)
(* document (two chunks so that the passes can reorder), tools another.    *)
EXTENDS IndexBuild, TLC

CONSTANTS docs, tools, d1, d2, t1

MCCorpus == (docs :> <<d1, d2>>) @@ (tools :> <<t1>>)
MCVisibility == [c \in Chunks |-> IF c = d1 THEN "PUBLIC" ELSE "INTERNAL"]
MCLists == {<<docs, tools>>, <<docs>>}

(* A repository named twice. *)
MCListsTwice == {<<docs, docs>>}
=============================================================================
