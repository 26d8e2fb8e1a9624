--------------------------- MODULE RetrievalProofs --------------------------
(***************************************************************************)
(* search_allowed returns exactly the best `want` qualifying rows, for     *)
(* every ranking, every `want` and every first window; and what retrieve   *)
(* returns on top of it, for every index, every request and every set of   *)
(* classes: readable rows of the scope, the best there are.                *)
(***************************************************************************)
EXTENDS Retrieval, FiniteSetTheorems, TLAPS

(* The search alone.  Its invariant says what the scan of one window       *)
(* knows: found holds the qualifying ranks before `row`, in order, and     *)
(* they are fewer than want.  Both ways out give the result: with the      *)
(* want-th row found, any later row has want qualifying rows before it;    *)
(* with the window at its largest, no row is left.                         *)

Ascending == \A i, j \in 1 .. Len(found) : i < j => found[i] < found[j]

ScanInv ==
    pc = "scan" =>
        /\ want > 0
        /\ k \in 1 .. total
        /\ row \in 1 .. k + 1
        /\ Ascending
        /\ Rows = Before(row)
        /\ Len(found) = Cardinality(Before(row))
        /\ Len(found) < want

StartInv == pc = "start" => k = 0 /\ row = 1 /\ found = <<>>

IInv == TypeOK /\ StartInv /\ ScanInv /\ ExactResult /\ NoOverreach

-----------------------------------------------------------------------------
(* The qualifying rows before a rank *)

\* Qualifying rows are finitely many, and fewer before a smaller rank.
LEMMA BeforeFinite ==
    ASSUME TypeOK
    PROVE  /\ IsFiniteSet(Qualified)
           /\ \A i \in Int : IsFiniteSet(Before(i)) /\ Cardinality(Before(i)) \in Nat
           /\ \A i, j \in Int : i <= j => Cardinality(Before(i)) <= Cardinality(Before(j))
<1>1. total \in Nat
    BY DEF TypeOK, total
<1>2. IsFiniteSet(Qualified)
    <2>1. Qualified \in SUBSET (1 .. total)
        BY DEF Qualified
    <2>2. IsFiniteSet(1 .. total)
        BY <1>1, FS_Interval
    <2> QED BY <2>1, <2>2, FS_Subset
<1>3. \A i \in Int : IsFiniteSet(Before(i)) /\ Cardinality(Before(i)) \in Nat
    BY <1>2, FS_Subset, FS_CardinalityType DEF Before
<1>4. ASSUME NEW i \in Int, NEW j \in Int, i <= j
      PROVE  Cardinality(Before(i)) <= Cardinality(Before(j))
    <2>1. Before(i) \subseteq Before(j)
        BY <1>1, <1>4 DEF Before, Qualified
    <2> QED BY <2>1, <1>3, FS_Subset
<1> QED BY <1>2, <1>3, <1>4

\* One rank further adds that rank when it qualifies, and nothing otherwise.
LEMMA BeforeNext ==
    ASSUME TypeOK, NEW i \in 1 .. total
    PROVE  /\ Qualifies(i) => /\ Before(i + 1) = Before(i) \cup {i}
                              /\ Cardinality(Before(i + 1)) = Cardinality(Before(i)) + 1
           /\ ~Qualifies(i) => Before(i + 1) = Before(i)
<1>1. total \in Nat
    BY DEF TypeOK, total
<1>2. IsFiniteSet(Before(i)) /\ i \notin Before(i)
    BY <1>1, BeforeFinite DEF Before
<1>3. Qualifies(i) => Before(i + 1) = Before(i) \cup {i}
    BY <1>1 DEF Before, Qualified
<1>4. ~Qualifies(i) => Before(i + 1) = Before(i)
    BY <1>1 DEF Before, Qualified
<1> QED BY <1>2, <1>3, <1>4, FS_AddElement

\* Nothing qualifies before the first rank.
LEMMA BeforeFirst == Before(1) = {} /\ Cardinality(Before(1)) = 0
<1>1. Before(1) = {}
    BY DEF Before, Qualified
<1> QED BY <1>1, FS_EmptySet

-----------------------------------------------------------------------------
\* The invariant holds at the start.
LEMMA InitInv == Init => IInv
<1> SUFFICES ASSUME Init PROVE IInv
    OBVIOUS
<1>1. PICK n \in 0 .. MaxTotal : ranked \in [1 .. n -> Kinds]
    BY DEF Init
<1>2. ranked \in Seq(Kinds) /\ total \in Nat
    BY <1>1, BoundsAssumption DEF total
<1>3. TypeOK
    BY <1>2, BoundsAssumption DEF Init, TypeOK
<1>4. ~(k > FirstWindow)
    BY <1>2, <1>3 DEF Init, FirstWindow, Least, Most, TypeOK
<1> QED BY <1>3, <1>4 DEF Init, IInv, StartInv, ScanInv, ExactResult, NoOverreach

\* Start opens the first window, or returns nothing when nothing is asked.
LEMMA StartKeeps == ASSUME IInv, Start PROVE IInv'
<1> USE DEF IInv
<1>1. total \in Nat /\ want \in Nat /\ initial_k \in Nat
    BY DEF TypeOK, total
<1>2. UNCHANGED <<total, Qualified, FirstWindow, Rows>>
    BY DEF Start, args, total, Qualified, Qualifies, FirstWindow, Rows
<1>3. \A i : Before(i)' = Before(i)
    BY <1>2 DEF Before
<1>4. CASE total = 0 \/ want = 0
    <2>1. k' = 0 /\ pc' = "done" /\ found' = <<>>
        BY <1>4 DEF Start, StartInv
    <2>2. TypeOK'
        BY <1>4, <2>1 DEF Start, TypeOK, args, total
    <2>3. {i \in Qualified : Cardinality(Before(i)) < want} = {}
        <3>1. CASE total = 0
            BY <3>1 DEF Qualified
        <3>2. CASE want = 0
            <4>1. \A i \in Qualified : Cardinality(Before(i)) \in Nat
                BY <1>1, BeforeFinite DEF Qualified
            <4> QED BY <3>2, <4>1
        <3> QED BY <1>4, <3>1, <3>2
    <2>4. ExactResult'
        BY <1>2, <1>3, <2>1, <2>3 DEF Start, args, ExactResult, Rows
    <2>5. ~(k' > FirstWindow')
        BY <1>1, <1>2, <2>1 DEF FirstWindow, Least, Most
    <2> QED BY <2>1, <2>2, <2>4, <2>5 DEF StartInv, ScanInv, NoOverreach
<1>5. CASE ~(total = 0 \/ want = 0)
    <2>1. /\ pc' = "scan" /\ k' = FirstWindow /\ row' = 1 /\ found' = <<>>
          /\ UNCHANGED args
        BY <1>5 DEF Start, StartInv
    <2>2. k' \in 1 .. total
        BY <1>1, <1>5, <2>1 DEF FirstWindow, Least, Most
    <2>3. TypeOK'
        BY <1>1, <2>1, <2>2 DEF TypeOK, args, total
    <2>4. ScanInv'
        <3>1. Rows' = {} /\ Len(found') = 0
            BY <2>1 DEF Rows
        <3>2. Before(row)' = {} /\ Cardinality(Before(row)') = 0
            BY <1>2, <2>1, BeforeFirst DEF Before
        <3>3. Ascending'
            BY <3>1 DEF Ascending
        <3>4. want' > 0
            BY <1>1, <1>5, <2>1 DEF args
        <3> QED BY <1>1, <1>2, <2>1, <2>2, <3>1, <3>2, <3>3, <3>4 DEF ScanInv, args
    <2>5. ~(k' > FirstWindow')
        BY <1>1, <1>2, <2>1, <2>2
    <2> QED BY <2>1, <2>3, <2>4, <2>5 DEF StartInv, ExactResult, NoOverreach
<1> QED BY <1>4, <1>5

\* The arguments of the call never change, nor anything defined by them.
LEMMA Frame ==
    ASSUME UNCHANGED args
    PROVE  /\ UNCHANGED <<ranked, want, initial_k, floor, total, Qualified, FirstWindow>>
           /\ \A i : Before(i)' = Before(i)
<1>1. UNCHANGED <<total, Qualified, FirstWindow>>
    BY DEF args, total, Qualified, Qualifies, FirstWindow
<1> QED BY <1>1 DEF args, Before

\* A row that does not qualify leaves what was found.
LEMMA SkipKeeps == ASSUME IInv, Skip PROVE IInv'
<1> USE DEF IInv
<1>1. total \in Nat /\ k \in 1 .. total /\ row \in 1 .. k /\ pc' = "scan"
    BY DEF Skip, ScanInv, TypeOK, total
<1>2. /\ UNCHANGED <<ranked, want, initial_k, floor, total, Qualified, FirstWindow>>
      /\ \A i : Before(i)' = Before(i)
    BY Frame DEF Skip
<1>3. Before(row + 1) = Before(row)
    BY <1>1, BeforeNext DEF Skip
<1>4. UNCHANGED <<found, k, Rows, Ascending>> /\ row' = row + 1
    BY DEF Skip, Rows, Ascending
<1>5. Before(row)' = Before(row)
    BY <1>2, <1>3, <1>4 DEF Before
<1>6. TypeOK'
    BY <1>1, <1>2, <1>4 DEF TypeOK
<1>7. ScanInv'
    BY <1>1, <1>2, <1>4, <1>5 DEF ScanInv, Skip
<1>8. NoOverreach'
    BY <1>2, <1>4 DEF NoOverreach
<1> QED BY <1>1, <1>6, <1>7, <1>8 DEF StartInv, ExactResult

\* A row that qualifies is appended; with the want-th the result is whole.
LEMMA TakeKeeps == ASSUME IInv, Take PROVE IInv'
<1> USE DEF IInv
<1>1. /\ total \in Nat /\ want \in Nat /\ k \in 1 .. total /\ row \in 1 .. k
      /\ found \in Seq(1 .. total)
    BY DEF Take, ScanInv, TypeOK, total
<1>2. /\ UNCHANGED <<ranked, want, initial_k, floor, total, Qualified, FirstWindow>>
      /\ \A i : Before(i)' = Before(i)
    BY Frame DEF Take
<1>3. /\ found' = Append(found, row) /\ row' = row + 1 /\ UNCHANGED k
      /\ pc' = IF Len(found') >= want THEN "done" ELSE "scan"
    BY DEF Take
<1>4. /\ Ascending /\ Rows = Before(row) /\ Len(found) < want
      /\ Len(found) = Cardinality(Before(row))
    BY DEF Take, ScanInv
<1>5. /\ Before(row + 1) = Before(row) \cup {row}
      /\ Cardinality(Before(row + 1)) = Cardinality(Before(row)) + 1
    BY <1>1, BeforeNext DEF Take
<1>6. /\ Len(found') = Len(found) + 1 /\ Len(found) \in Nat
      /\ \A i \in 1 .. Len(found) : found'[i] = found[i]
      /\ found'[Len(found) + 1] = row
    BY <1>1, <1>3
<1>7. \A i \in 1 .. Len(found) : found[i] < row
    BY <1>4 DEF Rows, Before
<1>8. Ascending'
    <2> SUFFICES ASSUME NEW i \in 1 .. Len(found'), NEW j \in 1 .. Len(found'), i < j
                 PROVE  found'[i] < found'[j]
        BY DEF Ascending
    <2>1. CASE j \in 1 .. Len(found)
        BY <1>4, <1>6, <2>1 DEF Ascending
    <2>2. CASE j = Len(found) + 1
        BY <1>6, <1>7, <2>2
    <2> QED BY <1>6, <2>1, <2>2
<1>9. Rows' = Before(row + 1)
    <2>1. Rows' = {found'[i] : i \in 1 .. Len(found')}
        BY DEF Rows
    <2>2. Rows' = Rows \cup {row}
        <3>1. ASSUME NEW x \in Rows' PROVE x \in Rows \cup {row}
            BY <1>6, <2>1, <3>1 DEF Rows
        <3>2. ASSUME NEW x \in Rows PROVE x \in Rows'
            BY <1>6, <2>1, <3>2 DEF Rows
        <3>3. row \in Rows'
            BY <1>6, <2>1
        <3> QED BY <3>1, <3>2, <3>3
    <2> QED BY <1>4, <1>5, <2>2
<1>10. TypeOK'
    BY <1>1, <1>2, <1>3, <1>6 DEF TypeOK
<1>11. NoOverreach'
    BY <1>2, <1>3 DEF NoOverreach
<1>12. CASE Len(found') >= want
    <2>1. Len(found') = want /\ Cardinality(Before(row + 1)) = want
        BY <1>1, <1>4, <1>5, <1>6, <1>12
    <2>2. \A i \in Qualified : i \in Before(row + 1) <=> Cardinality(Before(i)) < want
        <3> TAKE i \in Qualified
        <3>1. i \in 1 .. total
            BY DEF Qualified
        <3>2. CASE i < row + 1
            <4>1. Cardinality(Before(i)) <= Cardinality(Before(row))
                BY <1>1, <3>1, <3>2, BeforeFinite
            <4>2. Cardinality(Before(i)) \in Nat
                BY <3>1, BeforeFinite
            <4> QED BY <1>1, <1>4, <3>2, <4>1, <4>2 DEF Before
        <3>3. CASE ~(i < row + 1)
            <4>1. Cardinality(Before(row + 1)) <= Cardinality(Before(i))
                BY <1>1, <3>1, <3>3, BeforeFinite
            <4>2. Cardinality(Before(i)) \in Nat
                BY <3>1, BeforeFinite
            <4> QED BY <1>1, <2>1, <3>3, <4>1, <4>2 DEF Before
        <3> QED BY <3>2, <3>3
    <2>3. Rows' = {i \in Qualified : Cardinality(Before(i)) < want}
        BY <1>9, <2>2 DEF Before
    <2>4. ExactResult'
        BY <1>2, <1>8, <2>3 DEF ExactResult, Ascending
    <2>5. pc' = "done"
        BY <1>3, <1>12
    <2> QED BY <1>10, <1>11, <2>4, <2>5 DEF StartInv, ScanInv
<1>13. CASE ~(Len(found') >= want)
    <2>1. pc' = "scan"
        BY <1>3, <1>13
    <2>2. Len(found') < want'
        BY <1>1, <1>2, <1>6, <1>13
    <2>3. Before(row)' = Before(row + 1)
        BY <1>2, <1>3 DEF Before
    <2>4. ScanInv'
        BY <1>1, <1>2, <1>3, <1>4, <1>5, <1>6, <1>8, <1>9, <2>2, <2>3 DEF ScanInv
    <2> QED BY <1>10, <1>11, <2>1, <2>4 DEF StartInv, ExactResult
<1> QED BY <1>12, <1>13

\* The largest window is scanned: no row is left to qualify.
LEMMA GiveUpKeeps == ASSUME IInv, GiveUp PROVE IInv'
<1> USE DEF IInv
<1>1. /\ total \in Nat /\ want \in Nat /\ k = total /\ row = total + 1
      /\ Ascending /\ Rows = Before(row)
      /\ Len(found) = Cardinality(Before(row)) /\ Len(found) < want
    BY DEF GiveUp, ScanInv, TypeOK, total
<1>2. /\ UNCHANGED <<ranked, want, initial_k, floor, total, Qualified, FirstWindow>>
      /\ \A i : Before(i)' = Before(i)
    BY Frame DEF GiveUp
<1>3. UNCHANGED <<k, row, found, Rows, Ascending>> /\ pc' = "done"
    BY DEF GiveUp, Rows, Ascending
<1>4. \A i \in Qualified : Cardinality(Before(i)) < want
    <2> TAKE i \in Qualified
    <2>1. i \in 1 .. total
        BY DEF Qualified
    <2>2. Cardinality(Before(i)) <= Cardinality(Before(row)) /\ Cardinality(Before(i)) \in Nat
        BY <1>1, <2>1, BeforeFinite
    <2> QED BY <1>1, <2>2
<1>5. Before(row) = Qualified
    BY <1>1 DEF Before, Qualified
<1>6. ExactResult'
    BY <1>1, <1>2, <1>3, <1>4, <1>5 DEF ExactResult, Ascending
<1>7. TypeOK'
    BY <1>2, <1>3 DEF TypeOK
<1>8. NoOverreach'
    BY <1>2, <1>3 DEF NoOverreach
<1> QED BY <1>3, <1>6, <1>7, <1>8 DEF StartInv, ScanInv

\* A window is widened only when all of it held too few rows.
LEMMA WidenKeeps == ASSUME IInv, Widen PROVE IInv'
<1> USE DEF IInv
<1>1. /\ total \in Nat /\ want \in Nat /\ want > 0 /\ k \in 1 .. total
      /\ k < total /\ row = k + 1 /\ Cardinality(Before(k + 1)) < want
    BY DEF Widen, ScanInv, TypeOK, total
<1>2. /\ UNCHANGED <<ranked, want, initial_k, floor, total, Qualified, FirstWindow>>
      /\ \A i : Before(i)' = Before(i)
    BY Frame DEF Widen
<1>3. /\ k' = Least(k * 4, total) /\ row' = 1 /\ found' = <<>> /\ pc' = "scan"
    BY DEF Widen
<1>4. k' \in 1 .. total /\ k' <= 4 * k
    BY <1>1, <1>3 DEF Least
<1>5. TypeOK'
    BY <1>1, <1>2, <1>3, <1>4 DEF TypeOK
<1>6. ScanInv'
    <2>1. Rows' = {} /\ Len(found') = 0 /\ Ascending'
        BY <1>3 DEF Rows, Ascending
    <2>2. Before(row)' = {} /\ Cardinality(Before(row)') = 0
        BY <1>2, <1>3, BeforeFirst DEF Before
    <2> QED BY <1>1, <1>2, <1>3, <1>4, <2>1, <2>2 DEF ScanInv
<1>7. NoOverreach'
    <2> SUFFICES ASSUME NEW m \in 0 .. total, 4 * m < k'
                 PROVE  Cardinality(Before(m + 1)) < want
        BY <1>2 DEF NoOverreach
    <2>1. m + 1 <= k + 1
        BY <1>1, <1>4
    <2>2. /\ Cardinality(Before(m + 1)) <= Cardinality(Before(k + 1))
          /\ Cardinality(Before(m + 1)) \in Nat /\ Cardinality(Before(k + 1)) \in Nat
        BY <1>1, <2>1, BeforeFinite
    <2> QED BY <1>1, <2>2
<1> QED BY <1>3, <1>5, <1>6, <1>7 DEF StartInv, ExactResult

-----------------------------------------------------------------------------
\* Every step keeps the invariant.
LEMMA StepInv == IInv /\ [Next]_vars => IInv'
<1> SUFFICES ASSUME IInv, [Next]_vars PROVE IInv'
    OBVIOUS
<1>1. CASE Start    BY <1>1, StartKeeps
<1>2. CASE Skip     BY <1>2, SkipKeeps
<1>3. CASE Take     BY <1>3, TakeKeeps
<1>4. CASE GiveUp   BY <1>4, GiveUpKeeps
<1>5. CASE Widen    BY <1>5, WidenKeeps
<1>6. CASE UNCHANGED vars
    <2>1. UNCHANGED args /\ UNCHANGED <<pc, k, row, found, Rows, Ascending>>
        BY <1>6 DEF vars, args, Rows, Ascending
    <2>2. /\ UNCHANGED <<ranked, want, initial_k, floor, total, Qualified, FirstWindow>>
          /\ \A i : Before(i)' = Before(i)
        BY <2>1, Frame
    <2>3. Before(row)' = Before(row)
        BY <2>1, <2>2 DEF Before
    <2> QED BY <2>1, <2>2, <2>3
            DEF IInv, TypeOK, StartInv, ScanInv, ExactResult, Ascending, NoOverreach
<1> QED BY <1>1, <1>2, <1>3, <1>4, <1>5, <1>6 DEF Next

\* The invariant holds in every state of the search.
THEOREM SearchInvariant == Spec => []IInv
<1> QED BY InitInv, StepInv, PTL DEF Spec

\* Every step keeps the types: the window within the index, ranks in found.
THEOREM SearchTypeCorrect == Spec => []TypeOK
<1>1. IInv => TypeOK
    BY DEF IInv
<1> QED BY <1>1, SearchInvariant, PTL

\* Visibility, scope and relevance filters never starve or reorder a search:
\* it returns the best `want` of all qualifying rows of the index.
THEOREM SearchIsExact == Spec => []ExactResult
<1>1. IInv => ExactResult
    BY DEF IInv
<1> QED BY <1>1, SearchInvariant, PTL

\* A window is never more than four times what the search needed.
THEOREM SearchIsBounded == Spec => []NoOverreach
<1>1. IInv => NoOverreach
    BY DEF IInv
<1> QED BY <1>1, SearchInvariant, PTL
-----------------------------------------------------------------------------
(* The search called by retrieve.  IInv says what `found` is in terms of   *)
(* kinds; CallInv ties the kinds to the rows and the request, and          *)
(* AnswerInv says that an answer has some of the found ranks, each once,   *)
(* and all of them without a cross-encoder.                                *)

CallInv ==
    /\ request \in Requests
    /\ Len(corpus) \in Nat /\ corpus \in [1 .. Len(corpus) -> Row]
    /\ ranked = [i \in 1 .. Len(corpus) |-> KindOf(request, corpus[i])]
    /\ want = fetch_k(request)
    /\ floor = request.floor

DoneInv == pc = "done" => Len(found) <= want /\ (Len(found) = want \/ Rows = Qualified)

AnswerInv ==
    answer # Nothing =>
        /\ pc = "done"
        /\ answer \in Seq(Rows)
        /\ Len(answer) = Least(request.top_k, Len(found))
        /\ \A i, j \in 1 .. Len(answer) : i # j => answer[i] # answer[j]
        /\ ~request.rerank => answer = found

RInv == IInv /\ CallInv /\ DoneInv /\ AnswerInv

-----------------------------------------------------------------------------
\* retrieve calls the search in a state that the search's invariant allows.
LEMMA RetrieveInitInv == RetrieveInit => RInv
<1> SUFFICES ASSUME RetrieveInit PROVE RInv
    OBVIOUS
<1>1. PICK n \in 0 .. MaxRows : corpus \in [1 .. n -> Row]
    BY DEF RetrieveInit
<1>2. n \in Nat /\ Len(corpus) = n /\ DOMAIN corpus = 1 .. n
    BY <1>1, RetrievalAssumption
<1>3. request \in Request /\ request.top_k \in Nat /\ request.floor \in BOOLEAN
    BY RetrievalAssumption DEF RetrieveInit, Request
<1>4. \A i \in 1 .. n : KindOf(request, corpus[i]) \in Kinds
    BY <1>1 DEF KindOf, Kinds, Row
<1>5. ranked \in [1 .. n -> Kinds] /\ ranked \in Seq(Kinds) /\ total = n
    BY <1>2, <1>4 DEF RetrieveInit, total
<1>6. fetch_k(request) \in Nat
    BY <1>3 DEF fetch_k
<1>7. TypeOK
    BY <1>2, <1>3, <1>5, <1>6 DEF RetrieveInit, TypeOK
<1>8. ~(k > FirstWindow)
    BY <1>2, <1>5, <1>7 DEF RetrieveInit, FirstWindow, Least, Most, TypeOK
<1>9. IInv
    BY <1>7, <1>8 DEF RetrieveInit, IInv, StartInv, ScanInv, ExactResult, NoOverreach
<1>10. CallInv
    BY <1>1, <1>2 DEF RetrieveInit, CallInv
<1> QED BY <1>9, <1>10 DEF RInv, DoneInv, AnswerInv, RetrieveInit

\* A finished search takes no further step.
LEMMA SearchStops == ASSUME Next PROVE pc # "done"
BY DEF Next, Start, Skip, Take, GiveUp, Widen

\* The steps of the search leave its arguments alone.
LEMMA SearchKeepsArguments == ASSUME Next PROVE UNCHANGED args
BY DEF Next, Start, Skip, Take, GiveUp, Widen

\* The found ranks are in order, so each is found once.
LEMMA FoundOnce ==
    ASSUME IInv, pc = "done"
    PROVE  /\ Len(found) \in Nat /\ found \in [1 .. Len(found) -> Rows]
           /\ Rows \subseteq 1 .. total
           /\ \A i, j \in 1 .. Len(found) : i # j => found[i] # found[j]
           /\ IsFiniteSet(Rows) /\ Cardinality(Rows) = Len(found)
<1>1. found \in Seq(1 .. total) /\ total \in Nat
    BY DEF IInv, TypeOK, total
<1>2. Len(found) \in Nat /\ found \in [1 .. Len(found) -> Rows] /\ Rows \subseteq 1 .. total
    BY <1>1 DEF Rows
<1>3. \A i, j \in 1 .. Len(found) : i < j => found[i] < found[j]
    BY DEF IInv, ExactResult
<1>4. \A i, j \in 1 .. Len(found) : i # j => found[i] # found[j]
    BY <1>1, <1>2, <1>3
<1>5. ExistsBijection(1 .. Len(found), Rows)
    <2>1. found \in Bijection(1 .. Len(found), Rows)
        BY <1>2, <1>4 DEF Rows, Bijection, Injection, IsInjective, Surjection
    <2> QED BY <2>1 DEF ExistsBijection
<1>6. IsFiniteSet(1 .. Len(found)) /\ Cardinality(1 .. Len(found)) = Len(found)
    BY <1>2, FS_Interval
<1>7. IsFiniteSet(Rows) /\ Cardinality(Rows) = Len(found)
    BY <1>5, <1>6, FS_Bijection
<1> QED BY <1>2, <1>4, <1>7

\* A reordering of the found ranks is cut to top_k and repeats none.
LEMMA Reordered ==
    ASSUME IInv, pc = "done", NEW top \in Nat, NEW a \in Reorderings(top)
    PROVE  /\ a \in Seq(Rows) /\ Len(a) = Least(top, Len(found))
           /\ \A i, j \in 1 .. Len(a) : i # j => a[i] # a[j]
<1>1. PICK f \in [DOMAIN found -> Rows] :
          /\ Rows = {f[i] : i \in DOMAIN f}
          /\ a = SubSeq(f, 1, Least(top, Len(found)))
    BY DEF Reorderings
<1>2. Len(found) \in Nat /\ DOMAIN found = 1 .. Len(found)
    BY FoundOnce
<1>3. f \in Surjection(1 .. Len(found), Rows)
    BY <1>1, <1>2 DEF Surjection
<1>4. IsFiniteSet(1 .. Len(found)) /\ Cardinality(1 .. Len(found)) = Cardinality(Rows)
    BY <1>2, FoundOnce, FS_Interval
<1>5. f \in Injection(1 .. Len(found), Rows)
    BY <1>3, <1>4, FoundOnce, FS_SurjSameCardinalityImpliesInj
<1>6. \A i, j \in 1 .. Len(found) : i # j => f[i] # f[j]
    BY <1>5 DEF Injection, IsInjective
<1>7. f \in Seq(Rows) /\ Len(f) = Len(found)
    BY <1>1, <1>2
<1>8. Least(top, Len(found)) \in 0 .. Len(found)
    BY <1>2 DEF Least
<1>9. /\ a \in Seq(Rows) /\ Len(a) = Least(top, Len(found))
      /\ \A i \in 1 .. Len(a) : a[i] = f[i]
    <2> DEFINE n == Least(top, Len(found))
    <2>1. n \in Nat /\ n <= Len(f)
        BY <1>2, <1>7, <1>8
    <2>2. a = [i \in 1 .. n |-> f[i]]
        BY <1>1, <1>7, <2>1
    <2> HIDE DEF n
    <2>3. a \in [1 .. n -> Rows]
        BY <1>2, <1>7, <2>1, <2>2
    <2>4. a \in Seq(Rows) /\ Len(a) = n
        BY <2>1, <2>3
    <2> QED BY <2>2, <2>4 DEF n
<1> QED BY <1>2, <1>6, <1>8, <1>9

\* A search ends with as many rows as were wanted, or with all there are.
LEMMA DoneKeeps == ASSUME IInv, DoneInv, Next PROVE DoneInv'
<1>1. /\ UNCHANGED <<ranked, want, initial_k, floor, total, Qualified, FirstWindow>>
      /\ \A i : Before(i)' = Before(i)
    BY SearchKeepsArguments, Frame
<1>2. TypeOK /\ total \in Nat /\ Len(found) \in Nat
    BY DEF IInv, TypeOK, total
<1>3. CASE Start
    <2>1. found = <<>> /\ found' = <<>>
        BY <1>3 DEF IInv, StartInv, Start
    <2>2. total = 0 => Qualified = {}
        BY DEF Qualified
    <2> QED BY <1>1, <1>2, <1>3, <2>1, <2>2 DEF Start, DoneInv, TypeOK, Rows
<1>4. CASE Take
    <2>1. Len(found) < want /\ want \in Nat
        BY <1>2, <1>4 DEF IInv, ScanInv, Take, TypeOK
    <2>2. Len(found') = Len(found) + 1
        BY <1>2, <1>4 DEF Take, TypeOK
    <2> QED BY <1>1, <1>2, <1>4, <2>1, <2>2 DEF Take, DoneInv
<1>5. CASE GiveUp
    <2>1. Rows = Before(row) /\ Len(found) < want /\ want \in Nat /\ row \in Nat /\ row > total
        BY <1>2, <1>5 DEF IInv, ScanInv, GiveUp, TypeOK
    <2>2. Before(row) = Qualified
        BY <1>2, <2>1 DEF Before, Qualified
    <2>3. Rows' = Rows
        BY <1>5 DEF GiveUp, Rows
    <2> QED BY <1>1, <1>2, <1>5, <2>1, <2>2, <2>3 DEF GiveUp, DoneInv
<1>6. CASE Skip \/ Widen
    BY <1>6 DEF Skip, Widen, DoneInv
<1> QED BY <1>3, <1>4, <1>5, <1>6 DEF Next

\* Every step of retrieve keeps the invariant.
LEMMA RetrieveStepInv == RInv /\ [RetrieveNext]_retrievalVars => RInv'
<1> SUFFICES ASSUME RInv, [RetrieveNext]_retrievalVars PROVE RInv'
    OBVIOUS
<1>1. CASE Search
    <2>1. Next /\ UNCHANGED <<args, corpus, request, answer>>
        BY <1>1, SearchKeepsArguments DEF Search
    <2>2. IInv'
        BY <2>1, StepInv DEF RInv
    <2>3. CallInv'
        BY <2>1 DEF RInv, CallInv, args, KindOf, Accepts, AcceptsAny, AcceptsScoped, Scoped, InScope, fetch_k
    <2>4. answer = Nothing
        BY <2>1, SearchStops DEF RInv, AnswerInv
    <2>5. DoneInv'
        BY <2>1, DoneKeeps DEF RInv
    <2> QED BY <2>1, <2>2, <2>3, <2>4, <2>5 DEF RInv, AnswerInv
<1>2. CASE Return
    <2>1. pc = "done" /\ UNCHANGED <<vars, corpus, request>>
        BY <1>2 DEF Return
    <2>2. IInv'
        BY <2>1, StepInv DEF RInv
    <2>3. CallInv'
        BY <2>1 DEF RInv, CallInv, vars, KindOf, Accepts, AcceptsAny, AcceptsScoped, Scoped, InScope, fetch_k
    <2>4. request.top_k \in Nat
        BY RetrievalAssumption DEF RInv, CallInv, Request
    <2>5. Rows' = Rows /\ found' = found /\ pc' = pc
        BY <2>1 DEF vars, Rows
    <2>8. DoneInv'
        BY <2>1 DEF RInv, DoneInv, vars, Rows, Qualified, total, Qualifies
    <2>6. CASE request.rerank
        <3>1. answer' \in Reorderings(request.top_k)
            BY <1>2, <2>6 DEF Return
        <3> QED BY <2>1, <2>2, <2>3, <2>4, <2>5, <2>6, <2>8, <3>1, Reordered DEF RInv, AnswerInv
    <2>7. CASE ~request.rerank
        <3>1. answer' = found
            BY <1>2, <2>7 DEF Return
        <3>2. Len(found) \in Nat /\ Len(found) <= request.top_k
            <4>1. want = request.top_k
                BY <2>7 DEF RInv, CallInv, fetch_k
            <4> QED BY <2>1, <4>1, FoundOnce DEF RInv, DoneInv
        <3>3. Len(found) = Least(request.top_k, Len(found))
            BY <2>4, <3>2 DEF Least
        <3>4. found \in Seq(Rows) /\ \A i, j \in 1 .. Len(found) : i # j => found[i] # found[j]
            BY <2>1, FoundOnce DEF RInv
        <3> QED BY <2>1, <2>2, <2>3, <2>5, <2>7, <2>8, <3>1, <3>3, <3>4 DEF RInv, AnswerInv
    <2> QED BY <2>6, <2>7
<1>3. CASE UNCHANGED retrievalVars
    <2>1. UNCHANGED <<vars, corpus, request, answer>>
        BY <1>3 DEF retrievalVars
    <2>2. IInv'
        BY <2>1, StepInv DEF RInv
    <2>3. CallInv'
        BY <2>1 DEF RInv, CallInv, vars, KindOf, Accepts, AcceptsAny, AcceptsScoped, Scoped, InScope, fetch_k
    <2>4. DoneInv' /\ AnswerInv'
        BY <2>1 DEF RInv, DoneInv, AnswerInv, vars, Rows, Qualified, total, Qualifies
    <2> QED BY <2>2, <2>3, <2>4 DEF RInv
<1> QED BY <1>1, <1>2, <1>3 DEF RetrieveNext

\* The invariant holds in every state of retrieve.
THEOREM RetrieveInvariant == RetrieveSpec => []RInv
<1> QED BY RetrieveInitInv, RetrieveStepInv, PTL DEF RetrieveSpec

-----------------------------------------------------------------------------
\* A found rank is one of the corpus, which the request accepts, and which is
\* relevant when the request has a floor.
LEMMA FoundAccepted ==
    ASSUME RInv, answer # Nothing, NEW i \in DOMAIN answer
    PROVE  /\ answer[i] \in Rows /\ answer[i] \in 1 .. Len(corpus)
           /\ Accepts(request, corpus[answer[i]])
           /\ request.floor => corpus[answer[i]].cosine = "relevant"
<1>1. pc = "done" /\ answer[i] \in Rows
    BY DEF RInv, AnswerInv
<1>2. Len(ranked) = Len(corpus)
    BY DEF RInv, CallInv
<1>3. answer[i] \in Qualified /\ answer[i] \in 1 .. Len(corpus)
    BY <1>1, <1>2 DEF RInv, IInv, ExactResult, Qualified, total
<1>4. Qualifies(answer[i])
    BY <1>3 DEF Qualified
<1>5. ranked[answer[i]] = KindOf(request, corpus[answer[i]])
    BY <1>3 DEF RInv, CallInv
<1>6. KindOf(request, corpus[answer[i]]) # "rejected"
    BY <1>4, <1>5 DEF Qualifies
<1> QED BY <1>1, <1>3, <1>4, <1>5, <1>6 DEF Qualifies, KindOf, RInv, CallInv

\* No row that this caller may not read, outside the scope or below the floor
\* is returned: for every index, scope and window (filtered_search.py:11-12).
THEOREM RetrievalIsFiltered == RetrieveSpec => []AnswersWithinScope
<1>1. RInv => AnswersWithinScope
    <2> SUFFICES ASSUME RInv, answer # Nothing, NEW i \in DOMAIN answer
                 PROVE  LET meta == corpus[answer[i]] IN
                            /\ meta.visibility \in Allowed
                            /\ request.bundle # Nothing => meta.bundle = request.bundle
                            /\ request.repo # Nothing /\ request.bundle = Nothing => meta.repo = request.repo
                            /\ request.floor => meta.cosine = "relevant"
        BY DEF AnswersWithinScope
    <2> QED BY FoundAccepted DEF Accepts, AcceptsAny, AcceptsScoped, Scoped, InScope
<1> QED BY <1>1, RetrieveInvariant, PTL

\* As many ranks are found as wanted, or all that qualify.
LEMMA FoundCounts ==
    ASSUME RInv, pc = "done"
    PROVE  /\ IsFiniteSet(Qualified) /\ Cardinality(Qualified) \in Nat /\ want \in Nat
           /\ Len(found) = Least(want, Cardinality(Qualified))
<1>1. IsFiniteSet(Qualified) /\ Cardinality(Qualified) \in Nat /\ want \in Nat
    BY BeforeFinite, FS_CardinalityType DEF RInv, IInv, TypeOK
<1>2. Rows \subseteq Qualified /\ Cardinality(Rows) = Len(found) /\ Len(found) \in Nat
    BY FoundOnce DEF RInv, IInv, ExactResult
<1>3. Len(found) <= Cardinality(Qualified)
    BY <1>1, <1>2, FS_Subset
<1> QED BY <1>1, <1>2, <1>3 DEF RInv, DoneInv, Least

\* The i-th found rank has i - 1 qualifying ranks before it.
LEMMA FoundRank ==
    ASSUME RInv, pc = "done", NEW i \in 1 .. Len(found)
    PROVE  Cardinality(Before(found[i])) = i - 1
<1>1. Len(found) \in Nat /\ found \in [1 .. Len(found) -> Rows] /\ Rows \subseteq 1 .. total
    BY FoundOnce DEF RInv
<1>2. total \in Nat /\ TypeOK /\ want \in Nat
    BY DEF RInv, IInv, TypeOK, total
<1>3. \A a, b \in 1 .. Len(found) : a < b => found[a] < found[b]
    BY DEF RInv, IInv, ExactResult
<1>4. Rows = {q \in Qualified : Cardinality(Before(q)) < want}
    BY DEF RInv, IInv, ExactResult
<1>10. \A a \in 1 .. Len(found) : found[a] \in Qualified /\ found[a] \in Int
    BY <1>1, <1>2, <1>4
<1> DEFINE First == {found[j] : j \in 1 .. i - 1}
<1>5. First \subseteq Before(found[i])
    <2> SUFFICES ASSUME NEW j \in 1 .. i - 1 PROVE found[j] \in Before(found[i])
        OBVIOUS
    <2>1. j \in 1 .. Len(found) /\ j < i
        BY <1>1
    <2>2. found[j] < found[i] /\ found[j] \in Qualified
        BY <1>3, <1>10, <2>1
    <2> QED BY <2>2 DEF Before
<1>6. ASSUME NEW q \in Before(found[i]) PROVE q \in First
    <2>1. q \in Qualified /\ q \in Int /\ found[i] \in Int /\ q < found[i]
        BY <1>2, <1>10 DEF Before, Qualified
    <2>2. Cardinality(Before(q)) <= Cardinality(Before(found[i]))
        <3>1. q \in Int /\ found[i] \in Int /\ q <= found[i]
            BY <2>1
        <3>2. \A a, b \in Int : a <= b => Cardinality(Before(a)) <= Cardinality(Before(b))
            BY <1>2, BeforeFinite
        <3> HIDE <1>2, <2>1
        <3> QED BY <3>1, <3>2
    <2>3. Cardinality(Before(found[i])) < want
        BY <1>1, <1>4
    <2>4. Cardinality(Before(q)) \in Nat /\ Cardinality(Before(found[i])) \in Nat
        BY <1>2, <2>1, BeforeFinite
    <2>5. q \in Rows
        BY <1>2, <1>4, <2>1, <2>2, <2>3, <2>4
    <2>6. PICK j \in 1 .. Len(found) : q = found[j]
        BY <2>5 DEF Rows
    <2>7. j < i
        BY <1>1, <1>2, <1>3, <2>1, <2>6
    <2> QED BY <1>1, <2>6, <2>7
<1>7. Before(found[i]) = First
    BY <1>5, <1>6
<1>8. ExistsBijection(1 .. i - 1, First)
    <2> DEFINE f == [j \in 1 .. i - 1 |-> found[j]]
    <2>1. \A a, b \in 1 .. i - 1 : f[a] = f[b] => a = b
        BY <1>1, <1>3, FoundOnce DEF RInv
    <2>2. f \in Bijection(1 .. i - 1, First)
        BY <2>1 DEF Bijection, Injection, IsInjective, Surjection
    <2> QED BY <2>2 DEF ExistsBijection
<1>9. IsFiniteSet(1 .. i - 1) /\ Cardinality(1 .. i - 1) = i - 1
    <2>1. i - 1 \in Nat /\ i - 1 \in Int /\ 1 \in Int
        BY <1>1
    <2>2. /\ IsFiniteSet(1 .. i - 1)
          /\ Cardinality(1 .. i - 1) = IF 1 > i - 1 THEN 0 ELSE i - 1 - 1 + 1
        BY <2>1, FS_Interval
    <2> QED BY <2>1, <2>2
<1> QED BY <1>7, <1>8, <1>9, FS_Bijection

\* An answer has as many rows as there are up to top_k, each once, and they
\* are the best ones, or with a cross-encoder some of the best 3 * top_k.
THEOREM RetrievalIsBest == RetrieveSpec => []AnswersAreBest
<1>1. ASSUME RInv, answer # Nothing
      PROVE  LET picked == {answer[i] : i \in DOMAIN answer} IN
                 /\ Len(answer) = Least(request.top_k, Cardinality(Qualified))
                 /\ Cardinality(picked) = Len(answer)
                 /\ \A i \in picked : i \in Qualified /\ Cardinality(Before(i)) < fetch_k(request)
                 /\ ~request.rerank => \A i \in 1 .. Len(answer) : Cardinality(Before(answer[i])) = i - 1
    <2> DEFINE picked == {answer[i] : i \in DOMAIN answer}
    <2>1. /\ pc = "done" /\ answer \in Seq(Rows) /\ Len(answer) \in Nat /\ DOMAIN answer = 1 .. Len(answer)
          /\ Len(answer) = Least(request.top_k, Len(found))
          /\ \A i, j \in 1 .. Len(answer) : i # j => answer[i] # answer[j]
          /\ ~request.rerank => answer = found
        BY <1>1 DEF RInv, AnswerInv
    <2>2. request.top_k \in Nat /\ want = fetch_k(request)
        BY <1>1, RetrievalAssumption DEF RInv, CallInv, Request
    <2>3. Len(answer) = Least(request.top_k, Cardinality(Qualified))
        BY <1>1, <2>1, <2>2, FoundCounts DEF Least, fetch_k
    <2>4. Cardinality(picked) = Len(answer)
        <3>1. answer \in Bijection(1 .. Len(answer), picked)
            BY <2>1 DEF Bijection, Injection, IsInjective, Surjection
        <3>2. ExistsBijection(1 .. Len(answer), picked)
            BY <3>1 DEF ExistsBijection
        <3>3. IsFiniteSet(1 .. Len(answer)) /\ Cardinality(1 .. Len(answer)) = Len(answer)
            BY <2>1, FS_Interval
        <3> QED BY <3>2, <3>3, FS_Bijection
    <2>5. \A i \in picked : i \in Qualified /\ Cardinality(Before(i)) < fetch_k(request)
        BY <1>1, <2>1, <2>2 DEF RInv, IInv, ExactResult
    <2>6. ~request.rerank => \A i \in 1 .. Len(answer) : Cardinality(Before(answer[i])) = i - 1
        BY <1>1, <2>1, FoundRank
    <2> QED BY <2>3, <2>4, <2>5, <2>6
<1>2. RInv => AnswersAreBest
    BY <1>1 DEF AnswersAreBest
<1> QED BY <1>2, RetrieveInvariant, PTL
=============================================================================
