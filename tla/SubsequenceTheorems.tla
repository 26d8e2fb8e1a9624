------------------------ MODULE SubsequenceTheorems -------------------------
(***************************************************************************)
(* Lemmas about Subsequences, for sequences of any length.                 *)
(*                                                                         *)
(* Ranks number the places of a finite set of places from 1 on: they are   *)
(* different and none is larger than the set, so by counting each number   *)
(* is the rank of some place.  This takes no induction.                    *)
(***************************************************************************)
EXTENDS Subsequences, FiniteSetTheorems, TLAPS

\* The ranks of some places are pairwise different, between 1 and their number.
LEMMA RankFacts ==
    ASSUME NEW I \in SUBSET Nat, IsFiniteSet(I)
    PROVE  /\ \A i \in I : Rank(I, i) \in 1 .. Cardinality(I)
           /\ \A i, j \in I : Rank(I, i) = Rank(I, j) => i = j
<1> DEFINE Below(i) == {j \in I : j <= i}
<1>1. ASSUME NEW i \in I
      PROVE  IsFiniteSet(Below(i)) /\ Cardinality(Below(i)) \in 1 .. Cardinality(I)
    <2>1. Below(i) \in SUBSET I /\ i \in Below(i)
        OBVIOUS
    <2> HIDE DEF Below
    <2>2. IsFiniteSet(Below(i)) /\ Cardinality(Below(i)) <= Cardinality(I)
        BY <2>1, FS_Subset
    <2>3. Cardinality(Below(i)) \in Nat /\ Cardinality(I) \in Nat
        BY <2>2, FS_CardinalityType
    <2>4. Cardinality(Below(i)) # 0
        BY <2>1, <2>2, FS_EmptySet
    <2> QED BY <2>2, <2>3, <2>4
<1>2. ASSUME NEW i \in I, NEW j \in I, i < j, Cardinality(Below(i)) = Cardinality(Below(j))
      PROVE  FALSE
    <2>0. i \in Nat /\ j \in Nat /\ i < j
        BY <1>2
    <2>1. Below(i) \in SUBSET Below(j) /\ j \in Below(j) /\ j \notin Below(i)
        <3>1. \A k \in I : k \in Nat /\ (k <= i => k <= j)
            BY <2>0
        <3>2. j <= j /\ ~(j <= i)
            BY <2>0
        <3> QED BY <3>1, <3>2
    <2>2. IsFiniteSet(Below(j))
        BY <1>1
    <2> HIDE DEF Below
    <2>3. Below(j) = Below(i)
        BY <1>2, <2>1, <2>2, FS_Subset
    <2> QED BY <2>1, <2>3
<1>3. ASSUME NEW i \in I, NEW j \in I, Cardinality(Below(i)) = Cardinality(Below(j)) PROVE i = j
    <2>1. i \in Nat /\ j \in Nat
        OBVIOUS
    <2>2. ~(i < j) /\ ~(j < i)
        BY <1>2, <1>3
    <2> QED BY <2>1, <2>2
<1> QED BY <1>1, <1>3 DEF Rank

\* Every number up to the number of places is the rank of one of them.
LEMMA RankOnto ==
    ASSUME NEW I \in SUBSET Nat, IsFiniteSet(I), NEW n \in 1 .. Cardinality(I)
    PROVE  \E i \in I : Rank(I, i) = n
<1> DEFINE f == [i \in I |-> Rank(I, i)]
           T == 1 .. Cardinality(I)
<1>1. Cardinality(I) \in Nat
    BY FS_CardinalityType
<1>2. IsFiniteSet(T) /\ Cardinality(T) = Cardinality(I)
    BY <1>1, FS_Interval
<1>3. f \in Injection(I, T)
    <2>1. f \in [I -> T] /\ \A i, j \in I : f[i] = f[j] => i = j
        BY RankFacts
    <2> QED BY <2>1 DEF Injection, IsInjective
<1>4. f \in Surjection(I, T)
    <2> HIDE DEF f, T
    <2> QED BY <1>2, <1>3, FS_Injection
<1> QED BY <1>4 DEF Surjection

\* What is chosen from a sequence is a sequence, and it visits each of the
\* places once.
LEMMA ChosenFacts ==
    ASSUME NEW S, NEW s \in Seq(S), NEW I \in SUBSET (DOMAIN s)
    PROVE  /\ IsFiniteSet(I) /\ Cardinality(I) \in Nat
           /\ Chosen(s, I) \in Seq(S)
           /\ Len(Chosen(s, I)) = Cardinality(I)
           /\ \A n \in 1 .. Cardinality(I) : \E i \in I : Rank(I, i) = n /\ Chosen(s, I)[n] = s[i]
           /\ \A i \in I : Rank(I, i) \in 1 .. Cardinality(I) /\ Chosen(s, I)[Rank(I, i)] = s[i]
<1> DEFINE c == Cardinality(I)
           at(n) == CHOOSE i \in I : Rank(I, i) = n
<1>1. DOMAIN s = 1 .. Len(s) /\ Len(s) \in Nat /\ \A i \in DOMAIN s : s[i] \in S
    OBVIOUS
<1>2. IsFiniteSet(I) /\ c \in Nat /\ I \in SUBSET Nat
    <2>1. IsFiniteSet(1 .. Len(s))
        BY <1>1, FS_Interval
    <2>2. IsFiniteSet(I)
        BY <1>1, <2>1, FS_Subset
    <2> QED BY <1>1, <2>2, FS_CardinalityType
<1>3. \A n \in 1 .. c : at(n) \in I /\ Rank(I, at(n)) = n
    BY <1>2, RankOnto
<1>4. \A i \in I : Rank(I, i) \in 1 .. c /\ at(Rank(I, i)) = i
    BY <1>2, <1>3, RankFacts
<1>5. Chosen(s, I) = [n \in 1 .. c |-> s[at(n)]]
    BY DEF Chosen
<1> HIDE DEF c, at
<1>6. \A n \in 1 .. c : s[at(n)] \in S
    BY <1>1, <1>3
<1>7. Chosen(s, I) \in [1 .. c -> S]
    BY <1>5, <1>6
<1>8. Chosen(s, I) \in Seq(S) /\ Len(Chosen(s, I)) = c
    BY <1>2, <1>7
<1>9. \A n \in 1 .. c : Chosen(s, I)[n] = s[at(n)]
    BY <1>5
<1> QED BY <1>2, <1>3, <1>4, <1>8, <1>9 DEF c

\* ... so its elements are those at the places.
LEMMA ChosenElements ==
    ASSUME NEW S, NEW s \in Seq(S), NEW I \in SUBSET (DOMAIN s)
    PROVE  {Chosen(s, I)[n] : n \in DOMAIN Chosen(s, I)} = {s[i] : i \in I}
<1>1. DOMAIN Chosen(s, I) = 1 .. Cardinality(I)
    BY ChosenFacts
<1>2. ASSUME NEW n \in 1 .. Cardinality(I) PROVE Chosen(s, I)[n] \in {s[i] : i \in I}
    BY ChosenFacts
<1>3. ASSUME NEW i \in I PROVE \E n \in 1 .. Cardinality(I) : Chosen(s, I)[n] = s[i]
    BY ChosenFacts
<1> QED BY <1>1, <1>2, <1>3

\* ... and nothing is repeated that was not.
LEMMA ChosenOnce ==
    ASSUME NEW S, NEW s \in Seq(S), NEW I \in SUBSET (DOMAIN s),
           \A i, j \in I : s[i] = s[j] => i = j
    PROVE  \A m, n \in DOMAIN Chosen(s, I) : Chosen(s, I)[m] = Chosen(s, I)[n] => m = n
<1> SUFFICES ASSUME NEW m \in DOMAIN Chosen(s, I), NEW n \in DOMAIN Chosen(s, I),
                    Chosen(s, I)[m] = Chosen(s, I)[n]
             PROVE  m = n
    OBVIOUS
<1>1. m \in 1 .. Cardinality(I) /\ n \in 1 .. Cardinality(I)
    BY ChosenFacts
<1>2. PICK i \in I : Rank(I, i) = m /\ Chosen(s, I)[m] = s[i]
    BY <1>1, ChosenFacts
<1>3. PICK j \in I : Rank(I, j) = n /\ Chosen(s, I)[n] = s[j]
    BY <1>1, ChosenFacts
<1> QED BY <1>2, <1>3

\* Every element has a first place.
LEMMA FirstPlace ==
    ASSUME NEW S, NEW s \in Seq(S), NEW i \in DOMAIN s
    PROVE  \E f \in Firsts(s) : s[f] = s[i]
<1> DEFINE P == {j \in DOMAIN s : s[j] = s[i]}
<1>1. P \in SUBSET Nat /\ i \in P
    OBVIOUS
<1>2. PICK f \in P : \A j \in P : <<j, f>> \notin OpToRel(<, Nat)
    BY <1>1, NatLessThanWellFounded, WFMin
<1>3. \A j \in P : ~(j < f)
    BY <1>1, <1>2 DEF OpToRel
<1>4. f \in DOMAIN s /\ s[f] = s[i]
    OBVIOUS
<1>5. ASSUME NEW j \in DOMAIN s, j < f PROVE s[j] # s[f]
    BY <1>3, <1>4, <1>5
<1> QED BY <1>4, <1>5 DEF Firsts

\* Distinct keeps the elements and repeats none.
LEMMA DistinctFacts ==
    ASSUME NEW S, NEW s \in Seq(S)
    PROVE  /\ Distinct(s) \in Seq(S)
           /\ {Distinct(s)[n] : n \in DOMAIN Distinct(s)} = {s[i] : i \in DOMAIN s}
           /\ \A m, n \in DOMAIN Distinct(s) : Distinct(s)[m] = Distinct(s)[n] => m = n
<1> DEFINE I == Firsts(s)
<1>1. I \in SUBSET (DOMAIN s)
    BY DEF Firsts
<1>2. \A i, j \in I : s[i] = s[j] => i = j
    <2> SUFFICES ASSUME NEW i \in I, NEW j \in I, s[i] = s[j] PROVE i = j
        OBVIOUS
    <2>1. i \in Nat /\ j \in Nat /\ ~(i < j) /\ ~(j < i)
        BY <1>1 DEF Firsts
    <2> QED BY <2>1
<1>3. {s[i] : i \in I} = {s[i] : i \in DOMAIN s}
    BY <1>1, FirstPlace
<1>4. Distinct(s) = Chosen(s, I)
    BY DEF Distinct
<1> HIDE DEF I
<1>5. Chosen(s, I) \in Seq(S)
    BY <1>1, ChosenFacts
<1>6. {Chosen(s, I)[n] : n \in DOMAIN Chosen(s, I)} = {s[i] : i \in I}
    BY <1>1, ChosenElements
<1>7. \A m, n \in DOMAIN Chosen(s, I) : Chosen(s, I)[m] = Chosen(s, I)[n] => m = n
    BY <1>1, <1>2, ChosenOnce
<1> QED BY <1>3, <1>4, <1>5, <1>6, <1>7

\* A sequence that repeats nothing is as long as it has elements.
LEMMA LengthOfDistinct ==
    ASSUME NEW S, NEW s \in Seq(S), \A m, n \in DOMAIN s : s[m] = s[n] => m = n
    PROVE  /\ IsFiniteSet({s[i] : i \in DOMAIN s})
           /\ Cardinality({s[i] : i \in DOMAIN s}) = Len(s)
<1> DEFINE D == DOMAIN s
           T == {s[i] : i \in D}
<1>1. Len(s) \in Nat /\ D = 1 .. Len(s)
    OBVIOUS
<1>2. IsFiniteSet(D) /\ Cardinality(D) = Len(s)
    BY <1>1, FS_Interval
<1>3. s \in [D -> T]
    OBVIOUS
<1>4. s \in Surjection(D, T) /\ s \in Injection(D, T)
    BY <1>3 DEF Surjection, Injection, IsInjective
<1> HIDE DEF D, T
<1>5. IsFiniteSet(T) /\ Cardinality(T) = Cardinality(D)
    BY <1>2, <1>4, FS_Surjection
<1> QED BY <1>2, <1>5 DEF D, T
=============================================================================
