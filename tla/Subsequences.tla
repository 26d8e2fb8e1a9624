---------------------------- MODULE Subsequences ----------------------------
(***************************************************************************)
(* Sequences cut down to some of their places.  What a loop over a list    *)
(* with a condition and an append computes, said without the loop, so that *)
(* it can be reasoned about.                                               *)
(***************************************************************************)
EXTENDS Naturals, Sequences, FiniteSets

\* The place of i among the places I.
Rank(I, i) == Cardinality({j \in I : j <= i})

\* s at the places I, in order.
Chosen(s, I) == [n \in 1 .. Cardinality(I) |-> s[CHOOSE i \in I : Rank(I, i) = n]]

\* The places where an element of s occurs for the first time.
Firsts(s) == {i \in DOMAIN s : \A j \in DOMAIN s : j < i => s[j] # s[i]}

\* s without repetitions: each element at its first place.
Distinct(s) == Chosen(s, Firsts(s))
=============================================================================
