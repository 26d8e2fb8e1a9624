--------------------------- MODULE FilteredSearch ---------------------------
(***************************************************************************)
(* index/filtered_search.py `search_allowed`: the nearest-neighbour search *)
(* of every retrieval path (RAGEngine.retrieve, VectorStore.search and     *)
(* filter_search), which filters by visibility, scope and relevance AFTER  *)
(* the index has ranked the vectors, and widens the ranked window by four  *)
(* until enough rows pass.                                                 *)
(*                                                                         *)
(* A flat index ranks all its rows by score, so the k nearest rows are the *)
(* first k of one ranking; a row is known here by its rank.  What the      *)
(* filters read of a row is its kind: whether it has metadata, whether     *)
(* `accept` takes it, and how its cosine compares with the floor.          *)
(***************************************************************************)
EXTENDS Integers, Sequences, FiniteSets

CONSTANTS
    MaxTotal,       \* bound: rows of the index (ntotal)
    MaxWant         \* bound: results asked for

ASSUME BoundsAssumption == MaxTotal \in Nat /\ MaxWant \in Nat

VARIABLES
    ranked,         \* the kind of the row of each rank
    want,           \* argument `want`
    initial_k,      \* argument `initial_k`, 0 when None
    floor,          \* whether min_relevance is given
    pc, k, row, found

vars == <<ranked, want, initial_k, floor, pc, k, row, found>>
args == <<ranked, want, initial_k, floor>>

\* "unknown": past the end of the metadata; "rejected": by `accept`;
\* "unmeasured": the index cannot reconstruct its vector.
Kinds == {"unknown", "rejected", "irrelevant", "unmeasured", "relevant"}

total == Len(ranked)

Qualifies(i) ==
    \/ ranked[i] = "relevant"
    \/ ~floor /\ ranked[i] \in {"irrelevant", "unmeasured"}

Least(a, b) == IF a <= b THEN a ELSE b
Most(a, b) == IF a >= b THEN a ELSE b

FirstWindow == Least(Most(IF initial_k = 0 THEN want ELSE initial_k, want), total)

TypeOK ==
    /\ ranked \in Seq(Kinds)
    /\ want \in Nat
    /\ initial_k \in Nat
    /\ floor \in BOOLEAN
    /\ pc \in {"start", "scan", "done"}
    /\ k \in 0 .. total
    /\ row \in 1 .. total + 1
    /\ found \in Seq(1 .. total)
-----------------------------------------------------------------------------
\* The scopes pass top_k * 3 (filter_search), the others nothing.
Init ==
    /\ ranked \in UNION {[1 .. n -> Kinds] : n \in 0 .. MaxTotal}
    /\ want \in 0 .. MaxWant
    /\ initial_k \in {0, 3 * want}
    /\ floor \in BOOLEAN
    /\ pc = "start" /\ k = 0 /\ row = 1 /\ found = <<>>

\* Mutant: a want of zero is not returned at once.
Start_NoWant ==
    /\ pc = "start"
    /\ IF total = 0
       THEN pc' = "done" /\ UNCHANGED k
       ELSE pc' = "scan" /\ k' = FirstWindow
    /\ UNCHANGED <<args, row, found>>

\* Mutant: the whole index is ranked at once.
Start_All ==
    /\ pc = "start"
    /\ IF total = 0 \/ want = 0
       THEN pc' = "done" /\ UNCHANGED k
       ELSE pc' = "scan" /\ k' = total
    /\ UNCHANGED <<args, row, found>>

Start ==
    /\ pc = "start"
    /\ IF total = 0 \/ want = 0
       THEN pc' = "done" /\ UNCHANGED k
       ELSE pc' = "scan" /\ k' = FirstWindow
    /\ UNCHANGED <<args, row, found>>

Skip ==
    /\ pc = "scan" /\ row <= k
    /\ ~Qualifies(row)
    /\ row' = row + 1
    /\ UNCHANGED <<args, pc, k, found>>

Take ==
    /\ pc = "scan" /\ row <= k
    /\ Qualifies(row)
    /\ found' = Append(found, row)
    /\ row' = row + 1
    /\ pc' = IF Len(found') >= want THEN "done" ELSE "scan"
    /\ UNCHANGED <<args, k>>

\* Mutant: the loop gives up after the first window.
GiveUp_Early ==
    /\ pc = "scan" /\ row > k
    /\ pc' = "done"
    /\ UNCHANGED <<args, k, row, found>>

GiveUp ==
    /\ pc = "scan" /\ row > k
    /\ k >= total
    /\ pc' = "done"
    /\ UNCHANGED <<args, k, row, found>>

Widen ==
    /\ pc = "scan" /\ row > k
    /\ k < total
    /\ k' = Least(k * 4, total)
    /\ row' = 1
    /\ found' = <<>>
    /\ UNCHANGED <<args, pc>>

Next == Start \/ Skip \/ Take \/ GiveUp \/ Widen

Spec == Init /\ [][Next]_vars /\ WF_vars(Next)
-----------------------------------------------------------------------------
(* Properties *)

Qualified == {i \in 1 .. total : Qualifies(i)}
Before(i) == {j \in Qualified : j < i}
Rows == {found[i] : i \in 1 .. Len(found)}

\* The result is what filtering the whole ranking would give: the best
\* `want` of all qualifying rows, best first; excluded neighbours never
\* starve it (test_filtered_search.py:1-6).
ExactResult ==
    pc = "done" =>
        /\ \A i, j \in 1 .. Len(found) : i < j => found[i] < found[j]
        /\ Rows = {i \in Qualified : Cardinality(Before(i)) < want}

\* A window that was widened was too small: no smaller window that fits
\* four times into the last one held enough rows (filtered_search.py:10).
NoOverreach ==
    k > FirstWindow =>
        \A m \in 0 .. total : 4 * m < k => Cardinality(Before(m + 1)) < want

\* The loop ends, also for a want of zero and an empty index.
Terminates == <>(pc = "done")
=============================================================================
