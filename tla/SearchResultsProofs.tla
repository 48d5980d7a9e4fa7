------------------------ MODULE SearchResultsProofs ------------------------
(***************************************************************************)
(* Proofs about what the search tool does with its results, for any pages, *)
(* any text matches and any number of results that are kept.               *)
(***************************************************************************)
EXTENDS SearchResults, SubsequencesProofs

\* What the assumption on the pages says of the one that was fetched.
LEMMA PageFacts ==
  ASSUME page \in Pages
  PROVE  /\ Len(page.score) \in Nat /\ Results = 1..Len(page.score)
         /\ page.score \in [Results -> Nat]
         /\ \A i, j \in Results : i # j => page.sim[{i, j}] \in Nat
<1>1. page.score \in Seq(Nat) /\ \A i, j \in DOMAIN page.score : i # j => page.sim[{i, j}] \in Nat
  BY PagesAssumption
<1>2. Len(page.score) \in Nat /\ DOMAIN page.score = 1..Len(page.score)
  BY <1>1, LenProperties
<1>3. \A i \in DOMAIN page.score : page.score[i] \in Nat
  BY <1>1, <1>2, ElementOfSeq
<1>4. page.score \in [DOMAIN page.score -> Nat]
  BY <1>1, <1>2, SeqDef
<1> QED BY <1>1, <1>2, <1>4 DEF Results

(***************************************************************************)
(* Duplicates.                                                             *)
(***************************************************************************)

\* Of any result one is kept that is the same, and of no result two.
Covers(kept, all) == \A i \in all : \E j \in kept : i = j \/ Same(i, j)
Apart(kept) == \A i, j \in kept : i # j => ~Same(i, j)

\* The loop of run() over the results.
LEMMA KeptSets ==
  ASSUME page \in Pages
  PROVE  \E kept \in [0..Len(page.score) -> SUBSET Results] :
           /\ Deduped = InOrder(kept[Len(page.score)])
           /\ kept[0] = {}
           /\ \A n \in 1..Len(page.score) :
                kept[n] = IF \E j \in kept[n - 1] : Same(n, j) THEN kept[n - 1] ELSE kept[n - 1] \cup {n}
<1>1. PICK N \in Nat : N = Len(page.score) /\ Results = 1..N
  BY PageFacts
<1>2. PICK Sets : Sets = SUBSET Results
  OBVIOUS
<1> DEFINE Next(set, n) == IF \E j \in set : Same(n, j) THEN set ELSE set \cup {n}
           Loops(f) == f = [n \in 0..N |-> IF n = 0 THEN {} ELSE Next(f[n - 1], n)]
<1>3. ASSUME NEW n \in 1..N, NEW set \in Sets PROVE Next(set, n) \in Sets
  BY <1>1, <1>2
<1>4. PICK kept : kept = CHOOSE g : Loops(g)
  OBVIOUS
<1>5. Deduped = InOrder(kept[N])
  BY <1>1, <1>4 DEF Deduped
<1> HIDE DEF Next
<1>6. PICK step : step = [n \in 1..N |-> [set \in Sets |-> Next(set, n)]]
  OBVIOUS
<1>7. step \in [1..N -> [Sets -> Sets]]
  BY <1>3, <1>6
<1>8. PICK none \in Sets : none = {}
  BY <1>2
<1>9. PICK f \in [0..N -> Sets] : f[0] = none /\ \A n \in 1..N : f[n] = step[n][f[n - 1]]
  <2>1. PICK f \in [0..N -> Sets] : Iterates(f, N, none, step)
    BY <1>7, Loop
  <2> QED BY <2>1 DEF Iterates
<1>10. ASSUME NEW n \in 1..N PROVE n \in 0..N /\ n # 0 /\ n - 1 \in 0..N
  OBVIOUS
<1>11. ASSUME NEW n \in 1..N PROVE f[n] = Next(f[n - 1], n)
  BY <1>6, <1>9, <1>10
<1>12. Loops(f)
  <2>1. \A n \in 0..N : n = 0 \/ n \in 1..N
    OBVIOUS
  <2> QED BY <1>8, <1>9, <1>11, <2>1
<1>13. Loops(kept)
  <2> HIDE DEF Loops
  <2> QED BY <1>4, <1>12
<1>14. \A n \in 0..N : kept[n] = IF n = 0 THEN {} ELSE Next(kept[n - 1], n)
  BY <1>13
<1>15. kept[0] = {} /\ \A n \in 1..N : kept[n] = Next(kept[n - 1], n)
  <2> HIDE DEF Loops
  <2>1. 0 \in 0..N
    OBVIOUS
  <2> QED BY <1>10, <1>14, <2>1
<1>16. PICK good : good = {n \in 0..N : kept[n] \in Sets}
  OBVIOUS
<1>17. \A n \in 0..N : n \in good
  <2> HIDE DEF Loops
  <2>1. 0 \in good
    <3>1. {} \in Sets /\ 0 \in 0..N
      BY <1>2
    <3> QED BY <1>15, <1>16, <3>1
  <2>2. \A n \in 1..N : n - 1 \in good => n \in good
    BY <1>3, <1>10, <1>15, <1>16
  <2> QED BY <2>1, <2>2, UpTo
<1>18. kept \in [0..N -> Sets]
  <2>1. kept = [n \in 0..N |-> IF n = 0 THEN {} ELSE Next(kept[n - 1], n)]
    BY <1>13
  <2> HIDE DEF Loops
  <2>2. \A n \in 0..N : kept[n] \in Sets
    BY <1>16, <1>17
  <2>3. \A n \in 0..N : (IF n = 0 THEN {} ELSE Next(kept[n - 1], n)) \in Sets
    BY <1>14, <2>2
  <2> QED BY <2>1, <2>3
<1> QED BY <1>1, <1>2, <1>5, <1>15, <1>18 DEF Next

\* A set of positions, in order, is a list of just them without repetitions.
LEMMA InOrderOf ==
  ASSUME NEW N \in Nat, NEW places \in SUBSET (1..N)
  PROVE  /\ InOrder(places) \in Seq(places) /\ Distinct(InOrder(places))
         /\ Listed(InOrder(places)) = places
         /\ Len(InOrder(places)) \in Nat /\ Len(InOrder(places)) <= N
         /\ DOMAIN InOrder(places) = 1..Len(InOrder(places))
<1>1. places \in SUBSET Nat /\ IsFiniteSet(places) /\ Cardinality(places) <= N
  <2>1. IsFiniteSet(1..N) /\ Cardinality(1..N) = N
    BY FS_Interval
  <2>2. IsFiniteSet(places) /\ Cardinality(places) <= Cardinality(1..N)
    BY <2>1, FS_Subset
  <2>3. places \in SUBSET Nat
    OBVIOUS
  <2> QED BY <2>1, <2>2, <2>3
<1>2. PICK count \in Nat : count = Cardinality(places)
  BY <1>1, FS_CardinalityType
<1>3. PICK list : list = InOrder(places)
  OBVIOUS
<1>4. /\ list \in [1..count -> places] /\ list \in Seq(places) /\ Len(list) = count
      /\ \A m, n \in 1..count : m < n => list[m] < list[n]
      /\ \A i \in places : \E n \in 1..count : list[n] = i
  BY <1>1, <1>2, <1>3, InOrderLists
<1>5. ASSUME NEW m \in 1..count, NEW n \in 1..count, list[m] = list[n] PROVE m = n
  <2>1. list[m] \in Nat /\ list[n] \in Nat
    BY <1>1, <1>4
  <2>2. ~(m < n) /\ ~(n < m)
    BY <1>4, <1>5, <2>1
  <2> QED BY <2>2
<1>6. Distinct(list)
  BY <1>4, <1>5 DEF Distinct
<1>7. Listed(list) = places
  BY <1>4 DEF Listed
<1> QED BY <1>1, <1>2, <1>3, <1>4, <1>6, <1>7

\* Same is symmetric, so it does not matter which of two results came first.
LEMMA SameBoth == \A i, j : Same(i, j) => Same(j, i)
BY DEF Same

\* What deduplication leaves: of any result one that is the same, and no two that are.
LEMMA DedupedFacts ==
  ASSUME page \in Pages
  PROVE  /\ Deduped \in Seq(Results) /\ Distinct(Deduped)
         /\ Covers(Listed(Deduped), Results) /\ Apart(Listed(Deduped))
         /\ page.score # <<>> => Deduped # <<>>
<1>1. PICK N \in Nat : N = Len(page.score) /\ Results = 1..N
  BY PageFacts
<1>2. PICK kept \in [0..N -> SUBSET Results] :
        /\ Deduped = InOrder(kept[N])
        /\ kept[0] = {}
        /\ \A n \in 1..N :
             kept[n] = IF \E j \in kept[n - 1] : Same(n, j) THEN kept[n - 1] ELSE kept[n - 1] \cup {n}
  BY <1>1, KeptSets
<1>3. PICK good : good = {n \in 0..N : /\ kept[n] \in SUBSET (1..n)
                                       /\ Covers(kept[n], 1..n) /\ Apart(kept[n])}
  OBVIOUS
<1>4. 0 \in good
  <2>1. 0 \in 0..N
    OBVIOUS
  <2> QED BY <1>2, <1>3, <2>1 DEF Covers, Apart
<1>5. ASSUME NEW n \in 1..N, n - 1 \in good PROVE n \in good
  <2>1. PICK before : before = kept[n - 1]
    OBVIOUS
  <2>2. before \in SUBSET (1..(n - 1)) /\ Covers(before, 1..(n - 1)) /\ Apart(before)
    BY <1>3, <1>5, <2>1
  <2>3. /\ before \in SUBSET (1..n) /\ n \in 0..N
        /\ \A i \in 1..n : i = n \/ i \in 1..(n - 1)
    BY <2>2
  <2>4. kept[n] = IF \E j \in before : Same(n, j) THEN before ELSE before \cup {n}
    BY <1>2, <2>1
  <2>5. CASE \E j \in before : Same(n, j)
    <3>1. kept[n] = before
      BY <2>4, <2>5
    <3>2. Covers(before, 1..n)
      BY <2>2, <2>3, <2>5 DEF Covers
    <3> QED BY <1>3, <2>2, <2>3, <3>1, <3>2
  <2>6. CASE ~\E j \in before : Same(n, j)
    <3>1. kept[n] = before \cup {n}
      BY <2>4, <2>6
    <3>2. Covers(kept[n], 1..n)
      BY <2>2, <2>3, <3>1 DEF Covers
    <3>3. Apart(kept[n])
      BY <2>2, <2>6, <3>1, SameBoth DEF Apart
    <3>4. kept[n] \in SUBSET (1..n)
      BY <2>3, <3>1
    <3> QED BY <1>3, <3>2, <3>3, <3>4
  <2> QED BY <2>5, <2>6
<1>6. N \in good
  <2>1. \A n \in 1..N : n - 1 \in good => n \in good
    BY <1>5
  <2>2. \A n \in 0..N : n \in good
    BY <1>4, <2>1, UpTo
  <2> QED BY <2>2
<1>7. PICK places \in SUBSET (1..N) :
        places = kept[N] /\ Covers(places, 1..N) /\ Apart(places)
  BY <1>3, <1>6
<1>8. /\ InOrder(places) \in Seq(places) /\ Distinct(InOrder(places))
      /\ Listed(InOrder(places)) = places
  BY <1>7, InOrderOf
<1>9. Deduped = InOrder(places)
  BY <1>2, <1>7
<1>10. Deduped \in Seq(Results)
  <2>1. Seq(places) \subseteq Seq(Results)
    BY <1>1, <1>7, SeqMonotonic
  <2> QED BY <1>8, <1>9, <2>1
<1>11. ASSUME page.score # <<>> PROVE Deduped # <<>>
  <2>1. page.score \in Seq(Nat)
    BY PagesAssumption
  <2>2. N # 0
    BY <1>1, <1>11, <2>1, EmptySeq
  <2>3. 1 \in 1..N
    BY <2>2
  <2>4. places # {}
    BY <1>7, <2>3 DEF Covers
  <2>5. Listed(<<>>) = {}
    BY EmptySeq DEF Listed
  <2> QED BY <1>8, <1>9, <2>4, <2>5
<1> QED BY <1>1, <1>7, <1>8, <1>9, <1>10, <1>11

(***************************************************************************)
(* Near duplicates: the clusters.                                          *)
(***************************************************************************)

\* Least picks the least number there is.
LEMMA LeastIs ==
  ASSUME NEW numbers \in SUBSET Nat, numbers # {}
  PROVE  Least(numbers) \in numbers /\ \A m \in numbers : Least(numbers) <= m
<1>1. \E n \in numbers : \A m \in numbers : n <= m
  BY LeastNumber
<1> QED BY <1>1 DEF Least

\* The founder that a result gets when those before it have theirs.
FounderAt(f, items, p) ==
  IF Closest(items, p) = {} THEN p ELSE Least({f[q] : q \in Closest(items, p)})

\* It depends on the results before it alone.
LEMMA FounderBefore ==
  ASSUME NEW items, NEW p \in Nat \ {0}, NEW f, NEW g, \A q \in 1..(p - 1) : f[q] = g[q]
  PROVE  FounderAt(f, items, p) = FounderAt(g, items, p)
<1>1. \A q \in Closest(items, p) : q \in 1..(p - 1)
  BY DEF Closest
<1>2. {f[q] : q \in Closest(items, p)} = {g[q] : q \in Closest(items, p)}
  BY <1>1
<1> QED BY <1>2 DEF FounderAt

\* A result founds a cluster or has the founder of a result near it.
LEMMA FounderStep ==
  ASSUME NEW items, NEW m \in Nat, NEW p \in 1..m, NEW f \in [1..(p - 1) -> 1..m]
  PROVE  /\ FounderAt(f, items, p) \in 1..m
         /\ \/ Closest(items, p) = {} /\ FounderAt(f, items, p) = p
            \/ \E q \in Closest(items, p) : FounderAt(f, items, p) = f[q]
<1>1. \A q \in Closest(items, p) : q \in 1..(p - 1)
  BY DEF Closest
<1>2. PICK founders : founders = {f[q] : q \in Closest(items, p)}
  OBVIOUS
<1>3. founders \in SUBSET (1..m) /\ founders \in SUBSET Nat
  BY <1>1, <1>2
<1>4. CASE Closest(items, p) = {}
  BY <1>4 DEF FounderAt
<1>5. CASE Closest(items, p) # {}
  <2>1. founders # {}
    BY <1>2, <1>5
  <2>2. Least(founders) \in founders
    BY <1>3, <2>1, LeastIs
  <2>3. FounderAt(f, items, p) = Least(founders)
    BY <1>2, <1>5 DEF FounderAt
  <2>4. FounderAt(f, items, p) \in founders
    BY <2>2, <2>3
  <2> QED BY <1>2, <1>3, <2>4
<1> QED BY <1>4, <1>5

\* The loop over the clusters gives every result a founder.
LEMMA FounderLoop ==
  ASSUME NEW N \in Nat, NEW items, DOMAIN items = 1..N
  PROVE  /\ Founder(items) \in [1..N -> 1..N]
         /\ \A p \in 1..N : Founder(items)[p] = FounderAt(Founder(items), items, p)
<1> DEFINE Loops(f) == f = [p \in 1..N |-> FounderAt(f, items, p)]
<1>1. PICK founder : founder = Founder(items)
  OBVIOUS
<1>2. founder = CHOOSE f : Loops(f)
  BY <1>1 DEF Founder, FounderAt
<1>3. PICK good : good = {m \in 0..N : \E f \in [1..m -> 1..N] :
                            \A p \in 1..m : f[p] = FounderAt(f, items, p)}
  OBVIOUS
<1>4. 0 \in good
  <2>1. PICK f : f = [p \in 1..0 |-> 0]
    OBVIOUS
  <2>2. f \in [1..0 -> 1..N] /\ (\A p \in 1..0 : f[p] = FounderAt(f, items, p)) /\ 0 \in 0..N
    BY <2>1
  <2> QED BY <1>3, <2>2
<1>5. ASSUME NEW m \in 1..N, m - 1 \in good PROVE m \in good
  <2>1. PICK f \in [1..(m - 1) -> 1..N] : \A p \in 1..(m - 1) : f[p] = FounderAt(f, items, p)
    BY <1>3, <1>5
  <2>2. PICK g : g = [p \in 1..m |-> IF p = m THEN FounderAt(f, items, m) ELSE f[p]]
    OBVIOUS
  <2>3. ASSUME NEW p \in 1..m, p # m PROVE p \in 1..(m - 1) /\ g[p] = f[p]
    BY <2>2, <2>3
  <2>4. ASSUME NEW p \in 1..m PROVE FounderAt(g, items, p) = FounderAt(f, items, p)
    <3>1. \A q \in 1..(p - 1) : q \in 1..m /\ q # m
      OBVIOUS
    <3>2. \A q \in 1..(p - 1) : g[q] = f[q]
      BY <2>3, <3>1
    <3> QED BY <3>2, FounderBefore
  <2>5. FounderAt(f, items, m) \in 1..N
    <3>1. [q \in 1..(m - 1) |-> f[q]] = f
      BY <2>1
    <3> QED BY <2>1, FounderStep
  <2>6. g \in [1..m -> 1..N]
    BY <2>1, <2>2, <2>3, <2>5
  <2>7. ASSUME NEW p \in 1..m PROVE g[p] = FounderAt(g, items, p)
    <3>1. CASE p = m
      BY <2>2, <2>4, <3>1
    <3>2. CASE p # m
      BY <2>1, <2>3, <2>4, <3>2
    <3> QED BY <3>1, <3>2
  <2>8. m \in 0..N
    OBVIOUS
  <2> QED BY <1>3, <2>6, <2>7, <2>8
<1>6. N \in good
  <2>1. \A m \in 1..N : m - 1 \in good => m \in good
    BY <1>5
  <2>2. \A m \in 0..N : m \in good
    BY <1>4, <2>1, UpTo
  <2> QED BY <2>2
<1>7. PICK f \in [1..N -> 1..N] : \A p \in 1..N : f[p] = FounderAt(f, items, p)
  BY <1>3, <1>6
<1>8. Loops(f)
  BY <1>7
<1>9. Loops(founder)
  <2> HIDE DEF Loops
  <2> QED BY <1>2, <1>8
<1>10. \A p \in 1..N : founder[p] = FounderAt(founder, items, p)
  BY <1>9
<1>11. PICK typed : typed = {p \in 1..N : founder[p] \in 1..N}
  OBVIOUS
<1>12. ASSUME NEW p \in 1..N, \A q \in 1..(p - 1) : q \in typed PROVE p \in typed
  <2>1. PICK before : before = [q \in 1..(p - 1) |-> founder[q]]
    OBVIOUS
  <2>2. before \in [1..(p - 1) -> 1..N] /\ \A q \in 1..(p - 1) : before[q] = founder[q]
    BY <1>11, <1>12, <2>1
  <2>3. FounderAt(before, items, p) \in 1..N
    BY <2>2, FounderStep
  <2>4. FounderAt(before, items, p) = FounderAt(founder, items, p)
    <3>1. p \in Nat \ {0} /\ \A q \in 1..(p - 1) : before[q] = founder[q]
      BY <2>2
    <3> QED BY <3>1, FounderBefore
  <2> QED BY <1>10, <1>11, <2>3, <2>4
<1>13. \A p \in 1..N : p \in typed
  BY <1>12, AllUpTo
<1>14. founder \in [1..N -> 1..N]
  <2>1. founder = [p \in 1..N |-> FounderAt(founder, items, p)]
    BY <1>9
  <2>2. \A p \in 1..N : FounderAt(founder, items, p) \in 1..N
    BY <1>10, <1>11, <1>13
  <2> HIDE DEF Loops
  <2> QED BY <2>1, <2>2
<1> QED BY <1>1, <1>10, <1>14

\* A founder founds its own cluster, and a result that does not is near one of its cluster.
LEMMA FounderFacts ==
  ASSUME NEW N \in Nat, NEW items, DOMAIN items = 1..N
  PROVE  /\ Founder(items) \in [1..N -> 1..N]
         /\ \A p \in 1..N : Founder(items)[Founder(items)[p]] = Founder(items)[p]
         /\ \A p \in 1..N : Founder(items)[p] = p
              \/ \E q \in Closest(items, p) : q \in 1..(p - 1) /\ Founder(items)[p] = Founder(items)[q]
<1>1. PICK founder : founder = Founder(items)
  OBVIOUS
<1>2. founder \in [1..N -> 1..N] /\ \A p \in 1..N : founder[p] = FounderAt(founder, items, p)
  BY <1>1, FounderLoop
<1>3. ASSUME NEW p \in 1..N
      PROVE  founder[p] = p \/ \E q \in Closest(items, p) : q \in 1..(p - 1) /\ founder[p] = founder[q]
  <2>1. PICK before : before = [q \in 1..(p - 1) |-> founder[q]]
    OBVIOUS
  <2>2. before \in [1..(p - 1) -> 1..N] /\ \A q \in 1..(p - 1) : before[q] = founder[q]
    BY <1>2, <2>1
  <2>3. \/ FounderAt(before, items, p) = p
        \/ \E q \in Closest(items, p) : FounderAt(before, items, p) = before[q]
    BY <2>2, FounderStep
  <2>4. FounderAt(before, items, p) = founder[p]
    <3>1. p \in Nat \ {0}
      OBVIOUS
    <3>2. FounderAt(before, items, p) = FounderAt(founder, items, p)
      BY <2>2, <3>1, FounderBefore
    <3> QED BY <1>2, <3>2
  <2>5. \A q \in Closest(items, p) : q \in 1..(p - 1)
    BY DEF Closest
  <2> QED BY <2>2, <2>3, <2>4, <2>5
<1>4. PICK good : good = {p \in 1..N : founder[founder[p]] = founder[p]}
  OBVIOUS
<1>5. ASSUME NEW p \in 1..N, \A q \in 1..(p - 1) : q \in good PROVE p \in good
  <2>1. CASE founder[p] = p
    BY <1>4, <2>1
  <2>2. CASE \E q \in Closest(items, p) : q \in 1..(p - 1) /\ founder[p] = founder[q]
    BY <1>4, <1>5, <2>2
  <2> QED BY <1>3, <2>1, <2>2
<1>6. \A p \in 1..N : p \in good
  BY <1>5, AllUpTo
<1> QED BY <1>1, <1>2, <1>3, <1>4, <1>6

\* A part of the results that no near results lead out of holds a result if it holds its founder.
Closed(part, among) == \A i \in part, j \in among \ part : page.sim[{i, j}] = 0
Together(items, part) ==
  \A p \in DOMAIN items : items[p] \in part <=> items[Founder(items)[p]] \in part

LEMMA FounderLinked ==
  ASSUME page \in Pages, NEW items \in Seq(Results), NEW among, Listed(items) \subseteq among,
         NEW part \in SUBSET among, Closed(part, among)
  PROVE  Together(items, part)
<1>1. PICK N \in Nat : N = Len(items) /\ DOMAIN items = 1..N
  BY LenProperties
<1>2. PICK founder \in [1..N -> 1..N] :
        /\ founder = Founder(items)
        /\ \A p \in 1..N : founder[p] = p
             \/ \E q \in Closest(items, p) : q \in 1..(p - 1) /\ founder[p] = founder[q]
  BY <1>1, FounderFacts
<1>3. \A p \in 1..N : items[p] \in among
  BY <1>1 DEF Listed
<1>4. PICK good : good = {p \in 1..N : items[p] \in part <=> items[founder[p]] \in part}
  OBVIOUS
<1>5. ASSUME NEW p \in 1..N, \A q \in 1..(p - 1) : q \in good PROVE p \in good
  <2>1. CASE founder[p] = p
    BY <1>4, <2>1
  <2>2. CASE \E q \in Closest(items, p) : q \in 1..(p - 1) /\ founder[p] = founder[q]
    <3>1. PICK q \in 1..(p - 1) : q \in Closest(items, p) /\ founder[p] = founder[q]
      BY <2>2
    <3>2. q \in good /\ q \in 1..N
      BY <1>5, <3>1
    <3>3. page.sim[{items[p], items[q]}] > 0
      BY <3>1 DEF Closest, Sim
    <3>4. page.sim[{items[p], items[q]}] # 0 /\ page.sim[{items[q], items[p]}] # 0
      <4>1. {items[q], items[p]} = {items[p], items[q]}
        OBVIOUS
      <4>2. ~(0 > 0)
        OBVIOUS
      <4> QED BY <3>3, <4>1, <4>2
    <3>5. items[p] \in part <=> items[q] \in part
      BY <1>3, <3>2, <3>4 DEF Closed
    <3> QED BY <1>4, <3>1, <3>2, <3>5
  <2> QED BY <1>2, <2>1, <2>2
<1>6. \A p \in 1..N : p \in good
  BY <1>5, AllUpTo
<1> QED BY <1>1, <1>2, <1>4, <1>6 DEF Together

\* Results of one cluster are linked.
LEMMA ClusterLinked ==
  ASSUME page \in Pages, NEW items \in Seq(Results), NEW among, Listed(items) \subseteq among,
         NEW p \in DOMAIN items, NEW q \in DOMAIN items, Founder(items)[p] = Founder(items)[q]
  PROVE  Linked(among, items[p], items[q])
<1> SUFFICES ASSUME NEW part \in SUBSET among, items[p] \in part,
                    \A i \in part, j \in among \ part : page.sim[{i, j}] = 0
             PROVE  items[q] \in part
  BY DEF Linked
<1>1. Closed(part, among)
  BY DEF Closed
<1>2. Together(items, part)
  BY <1>1, FounderLinked
<1> QED BY <1>2 DEF Together

\* Links chain, and links among some of the results are links among all.
LEMMA LinksChain ==
  ASSUME NEW some, NEW all, some \subseteq all, NEW i \in some, NEW j, NEW k,
         Linked(all, i, j), Linked(some, j, k), j \in some
  PROVE  Linked(all, i, k)
<1> SUFFICES ASSUME NEW part \in SUBSET all, i \in part,
                    \A p \in part, q \in all \ part : page.sim[{p, q}] = 0
             PROVE  k \in part
  BY DEF Linked
<1>1. j \in part
  BY DEF Linked
<1>2. PICK there : there = part \cap some
  OBVIOUS
<1>3. there \in SUBSET some /\ j \in there /\ \A p \in there, q \in some \ there : page.sim[{p, q}] = 0
  BY <1>1, <1>2
<1>4. k \in there
  BY <1>3 DEF Linked
<1> QED BY <1>2, <1>4

\* A score is a number.
LEMMA ScoreType ==
  ASSUME page \in Pages, NEW items \in Seq(Results), NEW p \in DOMAIN items
  PROVE  items[p] \in Results /\ page.score[items[p]] \in Nat
<1>1. items[p] \in Results
  BY ElementOfSeq, LenProperties
<1> QED BY <1>1, PageFacts

\* The representative of a cluster is one of its results, and none of them scores higher.
LEMMA BestIs ==
  ASSUME page \in Pages, NEW items \in Seq(Results), NEW cluster \in SUBSET DOMAIN items, cluster # {}
  PROVE  /\ Best(items, cluster) \in cluster
         /\ \A q \in cluster : page.score[items[q]] <= page.score[items[Best(items, cluster)]]
<1> DEFINE Score(p) == page.score[items[p]]
           Precedes(p, q) == Score(q) < Score(p) \/ (Score(q) = Score(p) /\ p < q)
<1>1. IsFiniteSet(cluster) /\ \A p \in cluster : p \in Nat
  <2>1. DOMAIN items = 1..Len(items) /\ Len(items) \in Nat
    BY LenProperties
  <2>2. IsFiniteSet(1..Len(items))
    BY <2>1, FS_Interval
  <2> QED BY <2>1, <2>2, FS_Subset
<1>2. \A p \in cluster : Score(p) \in Nat
  BY ScoreType
<1>3. PICK before : before = {pair \in cluster \X cluster : Precedes(pair[1], pair[2])}
  OBVIOUS
<1>4. \A p, q \in cluster : <<p, q>> \in before <=> Precedes(p, q)
  <2> HIDE DEF Precedes
  <2> QED BY <1>3
<1>5. Orders(before, cluster)
  <2> HIDE DEF Score
  <2>1. \A p \in cluster : ~Precedes(p, p)
    BY <1>1, <1>2
  <2>2. \A p, q \in cluster : p # q => Precedes(p, q) \/ Precedes(q, p)
    BY <1>1, <1>2
  <2>3. \A p, q, r \in cluster : Precedes(p, q) /\ Precedes(q, r) => Precedes(p, r)
    BY <1>1, <1>2
  <2> HIDE DEF Precedes
  <2> QED BY <1>4, <2>1, <2>2, <2>3 DEF Orders
<1>6. PICK count \in Nat : count = Cardinality(cluster) /\ count # 0
  <2>1. Cardinality(cluster) # 0
    BY <1>1, FS_EmptySet
  <2> QED BY <1>1, <2>1, FS_CardinalityType
<1>7. PICK list \in [1..count -> cluster] :
        /\ \A m, n \in 1..count : m < n => <<list[m], list[n]>> \in before
        /\ \A p \in cluster : \E n \in 1..count : list[n] = p
  BY <1>1, <1>5, <1>6, ArrangedLists, SMTT(30)
<1>8. 1 \in 1..count /\ list[1] \in cluster
  BY <1>6, <1>7
<1>9. ASSUME NEW q \in cluster PROVE Score(q) < Score(list[1]) \/ (Score(q) = Score(list[1]) /\ list[1] <= q)
  <2>1. PICK n \in 1..count : list[n] = q
    BY <1>7
  <2>2. CASE n = 1
    BY <1>1, <1>2, <1>8, <2>1, <2>2
  <2>3. CASE n # 1
    <3>1. 1 < n
      BY <2>3
    <3>2. Precedes(list[1], q)
      BY <1>4, <1>7, <1>8, <2>1, <3>1
    <3> QED BY <1>1, <1>8, <3>2
  <2> QED BY <2>2, <2>3
<1>10. PICK best : best = Best(items, cluster)
  OBVIOUS
<1>11. best \in cluster /\ \A q \in cluster : Score(q) < Score(best) \/ (Score(q) = Score(best) /\ best <= q)
  BY <1>8, <1>9, <1>10 DEF Best
<1> QED BY <1>2, <1>10, <1>11

\* Any of the results is represented: one that is kept is linked to it and as good.
Stands(kept, all, among) ==
  \A i \in all : \E k \in kept : Linked(among, i, k) /\ page.score[k] >= page.score[i]

\* A list of some of the results, none twice.
Choice(list, items) ==
  /\ list \in Seq(Listed(items)) /\ Distinct(list) /\ Len(list) <= Len(items)
  /\ items # <<>> => list # <<>>

\* Without embeddings each result stands for itself.
LEMMA AllStand ==
  ASSUME page \in Pages, NEW items \in Seq(Results), Distinct(items), NEW among
  PROVE  Choice(items, items) /\ Stands(Listed(items), Listed(items), among)
<1>1. Len(items) \in Nat /\ DOMAIN items = 1..Len(items) /\ items \in [1..Len(items) -> Listed(items)]
  BY LenProperties DEF Listed
<1>2. items \in Seq(Listed(items))
  BY <1>1, SeqDef
<1>3. ASSUME NEW i \in Listed(items) PROVE Linked(among, i, i) /\ page.score[i] >= page.score[i]
  <2>1. PICK p \in DOMAIN items : i = items[p]
    BY DEF Listed
  <2>2. page.score[i] \in Nat
    BY <2>1, ScoreType
  <2> QED BY <2>2 DEF Linked
<1> QED BY <1>1, <1>2, <1>3 DEF Choice, Stands

\* Clustering leaves a choice that any of the results is represented in.
LEMMA RepresentativesFacts ==
  ASSUME page \in Pages, NEW items \in Seq(Results), Distinct(items), NEW embedded \in BOOLEAN,
         NEW among, Listed(items) \subseteq among
  PROVE  LET chosen == Representatives(items, embedded)
         IN Choice(chosen, items) /\ Stands(Listed(chosen), Listed(items), among)
<1>1. CASE ~embedded
  BY <1>1, AllStand DEF Representatives
<1>2. CASE embedded
  <2>1. PICK N \in Nat : N = Len(items) /\ DOMAIN items = 1..N
    BY LenProperties
  <2>2. PICK founder \in [1..N -> 1..N] :
          founder = Founder(items) /\ \A p \in 1..N : founder[founder[p]] = founder[p]
    BY <2>1, FounderFacts
  <2>3. PICK places \in SUBSET (1..N) : places = {p \in 1..N : founder[p] = p}
    OBVIOUS
  <2>4. PICK founders \in Seq(places) :
          /\ founders = InOrder(places) /\ Distinct(founders) /\ Listed(founders) = places
          /\ Len(founders) \in Nat /\ Len(founders) <= N /\ DOMAIN founders = 1..Len(founders)
    BY InOrderOf
  <2>5. PICK cluster : cluster = [c \in DOMAIN founders |-> {p \in 1..N : founder[p] = founders[c]}]
    OBVIOUS
  <2>6. PICK chosen : chosen = Representatives(items, embedded)
    OBVIOUS
  <2>7. chosen = [c \in DOMAIN founders |-> items[Best(items, cluster[c])]]
    BY <1>2, <2>1, <2>2, <2>3, <2>4, <2>5, <2>6 DEF Representatives
  <2>8. ASSUME NEW c \in DOMAIN founders
        PROVE  /\ founders[c] \in places
               /\ Best(items, cluster[c]) \in 1..N /\ founder[Best(items, cluster[c])] = founders[c]
               /\ chosen[c] = items[Best(items, cluster[c])]
               /\ \A q \in cluster[c] : page.score[items[q]] <= page.score[chosen[c]]
    <3>1. founders[c] \in places
      BY <2>4 DEF Listed
    <3>2. founders[c] \in cluster[c] /\ cluster[c] \in SUBSET DOMAIN items
      BY <2>1, <2>3, <2>5, <3>1
    <3>3. /\ Best(items, cluster[c]) \in cluster[c]
          /\ \A q \in cluster[c] : page.score[items[q]] <= page.score[items[Best(items, cluster[c])]]
      BY <3>2, BestIs
    <3> QED BY <2>5, <2>7, <3>1, <3>3
  <2>9. DOMAIN chosen = 1..Len(founders)
    BY <2>4, <2>7
  <2>10. \A c \in DOMAIN chosen : chosen[c] \in Listed(items)
    BY <2>1, <2>4, <2>8, <2>9 DEF Listed
  <2>11. chosen \in Seq(Listed(items)) /\ Len(chosen) = Len(founders)
    <3>1. PICK n \in Nat : n = Len(founders)
      BY <2>4
    <3>2. chosen \in [1..n -> Listed(items)]
      BY <2>7, <2>9, <2>10, <3>1
    <3>3. chosen \in Seq(Listed(items))
      BY <3>2, SeqDef
    <3> QED BY <2>4, <2>9, <3>3, LenProperties
  <2>12. ASSUME NEW c \in DOMAIN chosen, NEW d \in DOMAIN chosen, chosen[c] = chosen[d] PROVE c = d
    <3>1. Best(items, cluster[c]) = Best(items, cluster[d])
      BY <2>1, <2>4, <2>8, <2>9, <2>12 DEF Distinct
    <3>2. founders[c] = founders[d]
      BY <2>4, <2>8, <2>9, <3>1
    <3> QED BY <2>4, <2>9, <3>2 DEF Distinct
  <2>13. ASSUME NEW p \in 1..N
         PROVE  \E k \in Listed(chosen) : Linked(among, items[p], k) /\ page.score[k] >= page.score[items[p]]
    <3>1. founder[p] \in places
      BY <2>2, <2>3
    <3>2. PICK c \in DOMAIN founders : founders[c] = founder[p]
      BY <2>4, <3>1 DEF Listed
    <3>3. p \in cluster[c]
      BY <2>5, <3>2
    <3>4. Linked(among, items[p], chosen[c])
      <4>1. PICK best \in DOMAIN items : chosen[c] = items[best] /\ founder[best] = founder[p]
        BY <2>1, <2>8, <3>2
      <4>2. p \in DOMAIN items /\ Founder(items)[p] = Founder(items)[best]
        BY <2>1, <2>2, <4>1
      <4>3. Linked(among, items[p], items[best])
        BY <4>2, ClusterLinked
      <4> QED BY <4>1, <4>3
    <3>5. page.score[items[p]] <= page.score[chosen[c]]
      BY <2>8, <3>3
    <3>6. page.score[items[p]] \in Nat /\ page.score[chosen[c]] \in Nat
      BY <2>1, <2>8, ScoreType
    <3>7. chosen[c] \in Listed(chosen)
      BY <2>4, <2>9 DEF Listed
    <3> QED BY <3>4, <3>5, <3>6, <3>7
  <2>14. Stands(Listed(chosen), Listed(items), among)
    BY <2>1, <2>13 DEF Stands, Listed
  <2>15. ASSUME items # <<>> PROVE chosen # <<>>
    <3>1. 1 \in 1..N
      BY <2>1, <2>15, EmptySeq
    <3>2. Listed(chosen) # {}
      BY <2>13, <3>1
    <3> QED BY <3>2, EmptySeq DEF Listed
  <2> QED BY <2>1, <2>4, <2>6, <2>11, <2>12, <2>14, <2>15 DEF Choice, Distinct
<1> QED BY <1>1, <1>2

(***************************************************************************)
(* The best of them.                                                       *)
(***************************************************************************)

\* Sorting keeps every result and puts none before one that scores higher.
LEMMA ByScoreFacts ==
  ASSUME page \in Pages, NEW items \in Seq(Results), Distinct(items)
  PROVE  /\ ByScore(items) \in [1..Len(items) -> Listed(items)]
         /\ Distinct(ByScore(items)) /\ Listed(ByScore(items)) = Listed(items)
         /\ \A m, n \in 1..Len(items) :
              m < n => page.score[ByScore(items)[n]] <= page.score[ByScore(items)[m]]
<1> DEFINE Score(p) == page.score[items[p]]
           Precedes(p, q) == Score(p) > Score(q) \/ (Score(p) = Score(q) /\ p < q)
<1>1. PICK N \in Nat : N = Len(items) /\ DOMAIN items = 1..N
  BY LenProperties
<1>2. IsFiniteSet(1..N) /\ Cardinality(1..N) = N
  BY FS_Interval
<1>3. \A p \in 1..N : Score(p) \in Nat
  BY <1>1, ScoreType
<1>4. PICK before : before = {pair \in (1..N) \X (1..N) : Precedes(pair[1], pair[2])}
  OBVIOUS
<1>5. \A p, q \in 1..N : <<p, q>> \in before <=> Precedes(p, q)
  <2> HIDE DEF Precedes
  <2> QED BY <1>4
<1>6. Orders(before, 1..N)
  <2> HIDE DEF Score
  <2>1. \A p \in 1..N : ~Precedes(p, p)
    BY <1>3
  <2>2. \A p, q \in 1..N : p # q => Precedes(p, q) \/ Precedes(q, p)
    BY <1>3
  <2>3. \A p, q, r \in 1..N : Precedes(p, q) /\ Precedes(q, r) => Precedes(p, r)
    BY <1>3
  <2> HIDE DEF Precedes
  <2> QED BY <1>5, <2>1, <2>2, <2>3 DEF Orders
<1>7. PICK order \in [1..N -> 1..N] :
        /\ order = Arranged(1..N, before)
        /\ \A m, n \in 1..N : m < n => <<order[m], order[n]>> \in before
        /\ \A p \in 1..N : \E n \in 1..N : order[n] = p
  <2>1. PICK all : all = 1..N
    OBVIOUS
  <2>2. IsFiniteSet(all) /\ Cardinality(all) = N /\ Orders(before, all)
    BY <1>2, <1>6, <2>1
  <2>3. /\ Arranged(all, before) \in [1..N -> all]
        /\ \A m, n \in 1..N : m < n => <<Arranged(all, before)[m], Arranged(all, before)[n]>> \in before
        /\ \A p \in all : \E n \in 1..N : Arranged(all, before)[n] = p
    BY <2>2, ArrangedLists
  <2> QED BY <2>1, <2>3
<1>8. PICK sorted : sorted = ByScore(items)
  OBVIOUS
<1>9. sorted = [n \in 1..N |-> items[order[n]]]
  BY <1>1, <1>4, <1>7, <1>8 DEF ByScore
<1>10. \A n \in 1..N : items[order[n]] \in Listed(items)
  BY <1>1, <1>7 DEF Listed
<1>11. \A i \in Listed(items) : \E n \in 1..N : sorted[n] = i
  BY <1>1, <1>7, <1>9, SMTT(30) DEF Listed
<1>12. Listed(sorted) = Listed(items)
  BY <1>9, <1>10, <1>11 DEF Listed
<1>13. ASSUME NEW m \in 1..N, NEW n \in 1..N, m < n
       PROVE  order[m] # order[n] /\ page.score[sorted[n]] <= page.score[sorted[m]]
  <2> order[m] \in 1..N /\ order[n] \in 1..N
    BY <1>7
  <2>1. Precedes(order[m], order[n])
    <3> HIDE DEF Precedes
    <3> QED BY <1>5, <1>7, <1>13
  <2>2. ~Precedes(order[m], order[m]) /\ Score(order[m]) \in Nat /\ Score(order[n]) \in Nat
    <3> HIDE DEF Score
    <3> QED BY <1>3, SMTT(30)
  <2>3. order[m] # order[n]
    <3> HIDE DEF Precedes
    <3> QED BY <2>1, <2>2
  <2>4. Score(order[n]) <= Score(order[m])
    <3> HIDE DEF Score
    <3> QED BY <2>1, <2>2, SMTT(30)
  <2> QED BY <1>9, <2>3, <2>4
<1>14. ASSUME NEW m \in 1..N, NEW n \in 1..N, sorted[m] = sorted[n] PROVE m = n
  <2>1. order[m] = order[n]
    BY <1>1, <1>7, <1>9, <1>14, ZenonT(30) DEF Distinct
  <2>2. ~(m < n) /\ ~(n < m)
    BY <1>13, <2>1
  <2> QED BY <2>2
<1>15. Distinct(sorted)
  BY <1>9, <1>14 DEF Distinct
<1> QED BY <1>1, <1>8, <1>9, <1>10, <1>12, <1>13, <1>15

\* As many results are listed as the list is long, when none is listed twice.
LEMMA ListedCount ==
  ASSUME NEW n \in Nat, NEW list, DOMAIN list = 1..n, Distinct(list)
  PROVE  Cardinality(Listed(list)) = n
<1>1. PICK f : f = [p \in 1..n |-> list[p]]
  OBVIOUS
<1>2. f \in Bijection(1..n, Listed(list))
  BY <1>1 DEF Bijection, Injection, Surjection, IsInjective, Listed, Distinct
<1>3. ExistsBijection(1..n, Listed(list))
  BY <1>2 DEF ExistsBijection
<1> QED BY <1>3, FS_CountingElements

\* What the cap drops is no better than anything that stays below it.
Capped(kept, i) == Cardinality(kept) = MaxSampled /\ \A k \in kept : page.score[k] >= page.score[i]

\* Sampling clusters again, sorts, and cuts at the cap.
LEMMA SampleFacts ==
  ASSUME page \in Pages, NEW items \in Seq(Results), Distinct(items), NEW embedded \in BOOLEAN,
         NEW among, Listed(items) \subseteq among
  PROVE  LET kept == SampleResults(items, embedded)
         IN /\ Choice(kept, items)
            /\ \A i \in Listed(items) :
                 \/ \E k \in Listed(kept) : Linked(among, i, k) /\ page.score[k] >= page.score[i]
                 \/ Capped(Listed(kept), i)
<1>1. CASE Len(items) <= 1
  <2>1. SampleResults(items, embedded) = items
    BY <1>1 DEF SampleResults
  <2> QED BY <2>1, AllStand DEF Stands
<1>2. CASE ~(Len(items) <= 1)
  <2>1. PICK chosen : chosen = Representatives(items, embedded)
    OBVIOUS
  <2>2. Choice(chosen, items) /\ Stands(Listed(chosen), Listed(items), among)
    BY <2>1, RepresentativesFacts
  <2>3. Listed(items) \in SUBSET Results
    BY ScoreType DEF Listed
  <2>4. chosen \in Seq(Results) /\ Distinct(chosen)
    BY <2>2, <2>3, SeqMonotonic DEF Choice
  <2>5. PICK N \in Nat : N = Len(chosen)
    BY <2>4, LenProperties
  <2>6. PICK sorted \in [1..N -> Listed(chosen)] :
          /\ sorted = ByScore(chosen) /\ Distinct(sorted) /\ Listed(sorted) = Listed(chosen)
          /\ \A m, n \in 1..N : m < n => page.score[sorted[n]] <= page.score[sorted[m]]
    BY <2>4, <2>5, ByScoreFacts
  <2>7. sorted \in Seq(Listed(chosen)) /\ Len(sorted) = N
    <3>1. sorted \in Seq(Listed(chosen))
      BY <2>6, SeqDef
    <3> QED BY <2>6, <3>1, LenProperties
  <2>8. PICK count \in 0..N : count = IF N < MaxSampled THEN N ELSE MaxSampled
    BY SearchAssumption
  <2>9. PICK kept : kept = SampleResults(items, embedded)
    OBVIOUS
  <2>10. kept = [n \in 1..count |-> sorted[n]]
    BY <1>2, <2>1, <2>6, <2>7, <2>8, <2>9 DEF SampleResults
  <2>11. \A n \in 1..count : n \in 1..N /\ sorted[n] \in Listed(chosen)
    BY <2>6
  <2>12. Listed(chosen) \in SUBSET Listed(items)
    BY <2>2, ElementOfSeq, LenProperties DEF Choice, Listed
  <2>13. kept \in Seq(Listed(items)) /\ Len(kept) = count
    <3>1. kept \in [1..count -> Listed(items)]
      BY <2>10, <2>11, <2>12
    <3>2. kept \in Seq(Listed(items))
      BY <3>1, SeqDef
    <3> QED BY <2>10, <3>2, LenProperties
  <2>14. Distinct(kept)
    BY <2>6, <2>10, <2>11 DEF Distinct
  <2>15. Len(chosen) <= Len(items) /\ Len(items) \in Nat /\ (items # <<>> => chosen # <<>>)
    BY <2>2, LenProperties DEF Choice
  <2>16. ASSUME items # <<>> PROVE kept # <<>>
    <3>1. N # 0
      BY <2>4, <2>5, <2>15, <2>16, EmptySeq
    <3>2. count # 0
      BY <2>8, <3>1, SearchAssumption
    <3> QED BY <2>13, <3>2, EmptySeq
  <2>17. Choice(kept, items)
    BY <2>5, <2>8, <2>13, <2>14, <2>15, <2>16 DEF Choice
  <2>18. ASSUME NEW i \in Listed(items)
         PROVE  \/ \E k \in Listed(kept) : Linked(among, i, k) /\ page.score[k] >= page.score[i]
                \/ Capped(Listed(kept), i)
    <3>1. PICK k \in Listed(chosen) : Linked(among, i, k) /\ page.score[k] >= page.score[i]
      BY <2>2 DEF Stands
    <3>2. PICK n \in 1..N : sorted[n] = k
      BY <2>6 DEF Listed
    <3>3. CASE n <= count
      <4>1. n \in 1..count /\ k \in Listed(kept)
        BY <2>10, <3>2, <3>3 DEF Listed
      <4> QED BY <3>1, <4>1
    <3>4. CASE ~(n <= count)
      <4>1. count = MaxSampled
        BY <2>8, <3>2, <3>4, SearchAssumption
      <4>2. Cardinality(Listed(kept)) = count
        BY <2>10, <2>14, ListedCount
      <4>3. ASSUME NEW j \in Listed(kept) PROVE page.score[j] >= page.score[i]
        <5>1. PICK m \in 1..count : j = sorted[m]
          BY <2>10 DEF Listed
        <5>2. m \in 1..N /\ m < n
          BY <3>2, <3>4
        <5>3. page.score[k] <= page.score[j]
          BY <2>6, <3>2, <5>1, <5>2
        <5>4. i \in Results /\ j \in Results /\ k \in Results
          BY <2>3, <2>11, <2>12, <5>1
        <5>5. page.score[i] \in Nat /\ page.score[j] \in Nat /\ page.score[k] \in Nat
          BY <5>4, PageFacts
        <5> QED BY <3>1, <5>3, <5>5
      <4> QED BY <4>1, <4>2, <4>3 DEF Capped
    <3> QED BY <3>3, <3>4
  <2> QED BY <2>9, <2>17, <2>18
<1> QED BY <1>1, <1>2

(***************************************************************************)
(* Context: the windows around the matches, merged.                        *)
(***************************************************************************)

\* The lines that windows hold, and windows with a line at least between them.
Holds(list, line) == \E c \in DOMAIN list : list[c][1] <= line /\ line <= list[c][2]
Spaced(list) ==
  /\ \A c \in DOMAIN list : list[c][1] <= list[c][2]
  /\ \A c \in 1..(Len(list) - 1) : list[c][2] + 1 < list[c + 1][1]

\* A window that begins behind the others is added without touching one of them, or
\* makes the last one longer.
LEMMA JoinedFacts ==
  ASSUME NEW merged \in Seq(Nat \X Nat), NEW w \in Nat \X Nat, w[1] <= w[2], Spaced(merged),
         merged # <<>> => merged[Len(merged)][1] <= w[1]
  PROVE  /\ Joined(merged, w) \in Seq(Nat \X Nat) /\ Joined(merged, w) # <<>>
         /\ Spaced(Joined(merged, w))
         /\ Joined(merged, w)[Len(Joined(merged, w))][1] <= w[1]
         /\ \A line \in Nat :
              Holds(Joined(merged, w), line) <=> Holds(merged, line) \/ (w[1] <= line /\ line <= w[2])
<1>1. PICK n \in Nat : n = Len(merged) /\ DOMAIN merged = 1..n
  BY LenProperties
<1>2. \A c \in 1..n : merged[c] \in Nat \X Nat /\ merged[c][1] \in Nat /\ merged[c][2] \in Nat
  BY <1>1, ElementOfSeq
<1>3. w[1] \in Nat /\ w[2] \in Nat
  OBVIOUS
<1>4. PICK joined : joined = Joined(merged, w)
  OBVIOUS
<1>5. CASE merged = <<>> \/ w[1] > merged[n][2] + 1
  <2>1. joined = Append(merged, w)
    BY <1>1, <1>4, <1>5 DEF Joined
  <2>2. /\ joined \in Seq(Nat \X Nat) /\ Len(joined) = n + 1 /\ DOMAIN joined = 1..(n + 1)
        /\ joined[n + 1] = w /\ \A c \in 1..n : joined[c] = merged[c]
    <3>1. joined \in Seq(Nat \X Nat) /\ Len(joined) = n + 1
      BY <1>1, <2>1, AppendProperties
    <3>2. joined[n + 1] = w /\ \A c \in 1..n : joined[c] = merged[c]
      BY <1>1, <2>1, AppendProperties
    <3>3. DOMAIN joined = 1..(n + 1)
      BY <3>1, LenProperties
    <3> QED BY <3>1, <3>2, <3>3
  <2>3. \A c \in 1..(n + 1) : c = n + 1 \/ c \in 1..n
    OBVIOUS
  <2>4. Spaced(joined)
    <3>1. \A c \in DOMAIN joined : joined[c][1] <= joined[c][2]
      BY <1>1, <2>2, <2>3 DEF Spaced
    <3>2. ASSUME NEW c \in 1..n PROVE joined[c][2] + 1 < joined[c + 1][1]
      <4>1. CASE c = n
        <5>1. merged # <<>>
          BY <1>1, <4>1, EmptySeq
        <5>2. joined[c] = merged[n] /\ joined[c + 1] = w
          BY <2>2, <4>1
        <5>3. w[1] > merged[n][2] + 1 /\ merged[n][2] \in Nat
          BY <1>2, <1>5, <4>1, <5>1
        <5> QED BY <1>3, <5>2, <5>3
      <4>2. CASE c # n
        <5>1. c \in 1..(n - 1) /\ c + 1 \in 1..n
          BY <4>2
        <5> QED BY <1>1, <2>2, <5>1 DEF Spaced
      <4> QED BY <4>1, <4>2
    <3>3. Len(joined) - 1 = n
      BY <2>2
    <3> QED BY <3>1, <3>2, <3>3 DEF Spaced
  <2>5. \A line \in Nat : Holds(joined, line) <=> Holds(merged, line) \/ (w[1] <= line /\ line <= w[2])
    <3>1. n + 1 \in 1..(n + 1) /\ \A c \in 1..n : c \in 1..(n + 1)
      OBVIOUS
    <3> QED BY <1>1, <2>2, <2>3, <3>1 DEF Holds
  <2>6. joined # <<>>
    BY <2>2, EmptySeq
  <2>7. joined[Len(joined)][1] <= w[1]
    BY <1>3, <2>2
  <2> QED BY <1>4, <2>2, <2>4, <2>5, <2>6, <2>7
<1>6. CASE ~(merged = <<>> \/ w[1] > merged[n][2] + 1)
  <2>1. n \in 1..n /\ merged[n][1] <= w[1] /\ w[1] <= merged[n][2] + 1 /\ merged[n][1] <= merged[n][2]
    <3>1. n # 0
      BY <1>1, <1>6, EmptySeq
    <3>2. n \in 1..n
      BY <3>1
    <3> QED BY <1>1, <1>2, <1>3, <1>6, <3>2 DEF Spaced
  <2>2. PICK end \in Nat : end = IF w[2] > merged[n][2] THEN w[2] ELSE merged[n][2]
    BY <1>2, <1>3, <2>1
  <2>3. joined = [merged EXCEPT ![n] = <<merged[n][1], end>>]
    BY <1>1, <1>4, <1>6, <2>2 DEF Joined
  <2>4. DOMAIN joined = 1..n /\ joined[n] = <<merged[n][1], end>> /\ \A c \in 1..n : c # n => joined[c] = merged[c]
    BY <1>1, <2>1, <2>3
  <2>5. ASSUME NEW c \in 1..n PROVE joined[c] \in Nat \X Nat
    <3>1. CASE c = n
      <4>1. merged[n][1] \in Nat
        BY <1>2, <2>1
      <4> QED BY <2>2, <2>4, <3>1, <4>1
    <3>2. CASE c # n
      BY <1>2, <2>4, <3>2
    <3> QED BY <3>1, <3>2
  <2>6. joined \in Seq(Nat \X Nat) /\ Len(joined) = n
    <3>1. joined = [c \in 1..n |-> joined[c]]
      BY <1>1, <2>3
    <3>2. joined \in [1..n -> Nat \X Nat]
      BY <2>5, <3>1
    <3>3. joined \in Seq(Nat \X Nat)
      BY <3>2, SeqDef
    <3> QED BY <2>4, <3>3, LenProperties
  <2>7. joined[n][1] = merged[n][1] /\ joined[n][2] = end /\ merged[n][2] <= end /\ w[2] <= end
    BY <1>2, <1>3, <2>1, <2>2, <2>4
  <2>8. Spaced(joined)
    <3>1. ASSUME NEW c \in 1..n PROVE joined[c][1] <= joined[c][2]
      <4>1. CASE c = n
        BY <1>2, <2>1, <2>7, <4>1
      <4>2. CASE c # n
        BY <1>1, <2>4, <4>2 DEF Spaced
      <4> QED BY <4>1, <4>2
    <3>2. ASSUME NEW c \in 1..(n - 1) PROVE joined[c][2] + 1 < joined[c + 1][1]
      <4>1. c \in 1..n /\ c # n /\ c + 1 \in 1..n
        OBVIOUS
      <4>2. joined[c][2] = merged[c][2]
        BY <2>4, <4>1
      <4>3. joined[c + 1][1] = merged[c + 1][1]
        BY <2>4, <2>7, <4>1
      <4> QED BY <1>1, <4>2, <4>3 DEF Spaced
    <3> QED BY <2>4, <2>6, <3>1, <3>2 DEF Spaced
  <2>9. ASSUME NEW line \in Nat
        PROVE  Holds(joined, line) <=> Holds(merged, line) \/ (w[1] <= line /\ line <= w[2])
    <3>1. joined[n][1] <= line /\ line <= joined[n][2]
            <=> \/ merged[n][1] <= line /\ line <= merged[n][2]
                \/ w[1] <= line /\ line <= w[2]
      BY <1>2, <1>3, <2>1, <2>2, <2>7
    <3>2. \A c \in 1..n : c # n => (joined[c][1] <= line /\ line <= joined[c][2]
                                      <=> merged[c][1] <= line /\ line <= merged[c][2])
      BY <2>4
    <3> QED BY <1>1, <2>1, <2>4, <3>1, <3>2 DEF Holds
  <2>10. joined # <<>>
    BY <2>1, <2>6, EmptySeq
  <2>11. joined[Len(joined)][1] <= w[1]
    BY <2>1, <2>6, <2>7
  <2> QED BY <1>4, <2>6, <2>8, <2>9, <2>10, <2>11
<1> QED BY <1>5, <1>6

\* What is read of the text matches of a result.
Readable(textMatches) ==
  /\ DOMAIN textMatches \subseteq Nat /\ IsFiniteSet(DOMAIN textMatches)
  /\ \A t \in DOMAIN textMatches :
       /\ DOMAIN textMatches[t].matches \subseteq Nat /\ IsFiniteSet(DOMAIN textMatches[t].matches)
       /\ \A m \in DOMAIN textMatches[t].matches :
            Anchor(textMatches[t].matches[m]) \in {{}} \cup {{line} : line \in 0..LastLine}

LEMMA PagesReadable ==
  ASSUME page \in Pages, NEW textMatches \in TextMatches(page)
  PROVE  Readable(textMatches)
BY PagesAssumption DEF Readable

\* A window is a range of lines of the file, those that are no more than context away.
LEMMA WindowFacts ==
  ASSUME NEW line \in 0..LastLine, NEW context \in Nat
  PROVE  /\ Window(line, context) \in Nat \X Nat
         /\ Window(line, context)[1] <= Window(line, context)[2]
         /\ \A l \in Nat : Window(line, context)[1] <= l /\ l <= Window(line, context)[2]
              <=> l \in 0..LastLine /\ l <= line + context /\ line <= l + context
<1>1. PICK first \in Nat : first = IF line > context THEN line - context ELSE 0
  BY SearchAssumption
<1>2. PICK last \in Nat : last = IF LastLine < line + context THEN LastLine ELSE line + context
  BY SearchAssumption
<1>3. Window(line, context) = <<first, last>>
  BY <1>1, <1>2 DEF Window
<1>4. first <= last
  BY <1>1, <1>2, SearchAssumption
<1>5. ASSUME NEW l \in Nat
      PROVE  first <= l /\ l <= last <=> l \in 0..LastLine /\ l <= line + context /\ line <= l + context
  <2>1. first <= l <=> line <= l + context
    BY <1>1
  <2>2. l <= last <=> l <= LastLine /\ l <= line + context
    BY <1>2, SearchAssumption
  <2> QED BY <2>1, <2>2, SearchAssumption
<1> QED BY <1>3, <1>4, <1>5

\* There are finitely many places.
LEMMA LocatedFacts ==
  ASSUME NEW textMatches, Readable(textMatches)
  PROVE  Located(textMatches) \in SUBSET (Nat \X Nat) /\ IsFiniteSet(Located(textMatches))
<1>1. PICK texts \in SUBSET Nat : texts = DOMAIN textMatches /\ IsFiniteSet(texts)
  BY DEF Readable
<1>2. PICK of : of = [t \in texts |-> {t} \X (DOMAIN textMatches[t].matches)]
  OBVIOUS
<1>3. PICK family : family = {of[t] : t \in texts}
  OBVIOUS
<1>4. IsFiniteSet(family)
  <2>1. of \in Surjection(texts, family)
    BY <1>2, <1>3 DEF Surjection
  <2> QED BY <1>1, <2>1, FS_Surjection
<1>5. ASSUME NEW t \in texts PROVE IsFiniteSet(of[t]) /\ of[t] \in SUBSET (Nat \X Nat)
  <2>1. PICK places \in SUBSET Nat : places = DOMAIN textMatches[t].matches /\ IsFiniteSet(places)
    BY <1>1 DEF Readable
  <2>2. IsFiniteSet({t})
    BY FS_Singleton
  <2>3. IsFiniteSet({t} \X places)
    BY <2>1, <2>2, FS_Product
  <2>4. of[t] = {t} \X places
    BY <1>2, <2>1
  <2>5. t \in Nat
    BY <1>1
  <2> QED BY <2>3, <2>4, <2>5
<1>6. \A T \in family : IsFiniteSet(T)
  BY <1>3, <1>5
<1>7. IsFiniteSet(UNION family)
  BY <1>4, <1>6, FS_UNION
<1>8. UNION family \subseteq Nat \X Nat
  BY <1>3, <1>5
<1>9. Located(textMatches) \subseteq UNION family
  <2>1. {{t} \X (DOMAIN textMatches[t].matches) : t \in DOMAIN textMatches} = family
    BY <1>1, <1>2, <1>3
  <2> QED BY <2>1 DEF Located
<1>10. IsFiniteSet(Located(textMatches))
  BY <1>7, <1>9, FS_Subset
<1> QED BY <1>8, <1>9, <1>10

\* What a place holds, and that every match that is found has one.
LEMMA PlaceFacts ==
  ASSUME NEW textMatches, Readable(textMatches)
  PROVE  /\ \A place \in Located(textMatches) :
              /\ place[1] \in DOMAIN textMatches
              /\ place[2] \in DOMAIN textMatches[place[1]].matches
              /\ Anchor(textMatches[place[1]].matches[place[2]]) # {}
         /\ \A t \in DOMAIN textMatches : \A m \in DOMAIN textMatches[t].matches :
              Anchor(textMatches[t].matches[m]) # {} => <<t, m>> \in Located(textMatches)
<1>1. ASSUME NEW place \in Located(textMatches)
      PROVE  /\ place[1] \in DOMAIN textMatches
             /\ place[2] \in DOMAIN textMatches[place[1]].matches
             /\ Anchor(textMatches[place[1]].matches[place[2]]) # {}
  <2>1. PICK t \in DOMAIN textMatches : place \in {t} \X (DOMAIN textMatches[t].matches)
    BY DEF Located
  <2>2. place[1] = t /\ place[2] \in DOMAIN textMatches[t].matches
    BY <2>1
  <2> QED BY <2>2 DEF Located
<1>2. ASSUME NEW t \in DOMAIN textMatches, NEW m \in DOMAIN textMatches[t].matches,
             Anchor(textMatches[t].matches[m]) # {}
      PROVE  <<t, m>> \in Located(textMatches)
  <2>1. PICK place : place = <<t, m>>
    OBVIOUS
  <2>2. place[1] = t /\ place[2] = m /\ place \in {t} \X (DOMAIN textMatches[t].matches)
    BY <2>1
  <2> QED BY <1>2, <2>1, <2>2 DEF Located
<1> QED BY <1>1, <1>2

\* The window of a place is that around the one line that was found.
LEMMA WindowsFacts ==
  ASSUME NEW textMatches, Readable(textMatches), NEW context \in Nat
  PROVE  /\ Windows(textMatches, context) \in [Located(textMatches) -> Nat \X Nat]
         /\ \A place \in Located(textMatches) : \E line \in 0..LastLine :
              /\ Anchor(textMatches[place[1]].matches[place[2]]) = {line}
              /\ Windows(textMatches, context)[place] = Window(line, context)
<1>1. PICK windows : windows = Windows(textMatches, context)
  OBVIOUS
<1>2. PICK places : places = Located(textMatches)
  OBVIOUS
<1>3. ASSUME NEW place \in places
      PROVE  \E line \in 0..LastLine : /\ Anchor(textMatches[place[1]].matches[place[2]]) = {line}
                                       /\ windows[place] = Window(line, context)
  <2>1. PICK anchor : anchor = Anchor(textMatches[place[1]].matches[place[2]])
    OBVIOUS
  <2>2. place[1] \in DOMAIN textMatches /\ place[2] \in DOMAIN textMatches[place[1]].matches /\ anchor # {}
    BY <1>2, <2>1, PlaceFacts
  <2>3. PICK line \in 0..LastLine : anchor = {line}
    BY <2>1, <2>2 DEF Readable
  <2>4. (CHOOSE l \in anchor : TRUE) = line
    BY <2>3
  <2>5. windows[place] = Window(CHOOSE l \in anchor : TRUE, context)
    BY <1>1, <1>2, <2>1 DEF Windows
  <2> QED BY <2>1, <2>3, <2>4, <2>5
<1>4. \A place \in places : windows[place] \in Nat \X Nat
  BY <1>3, WindowFacts
<1>5. windows = [place \in places |-> windows[place]]
  BY <1>1, <1>2 DEF Windows
<1>6. windows \in [places -> Nat \X Nat]
  BY <1>4, <1>5
<1> QED BY <1>1, <1>2, <1>3, <1>6

\* Sorting keeps every window and puts none before one that begins earlier.
LEMMA SortedFacts ==
  ASSUME NEW places \in SUBSET (Nat \X Nat), IsFiniteSet(places), NEW windows \in [places -> Nat \X Nat]
  PROVE  /\ Sorted(windows) \in Seq(Nat \X Nat)
         /\ Listed(Sorted(windows)) = {windows[p] : p \in places}
         /\ \A m, n \in 1..Len(Sorted(windows)) :
              m < n => Sorted(windows)[m][1] <= Sorted(windows)[n][1]
<1> DEFINE Precedes(p, q) == \/ windows[p][1] < windows[q][1]
                             \/ /\ windows[p][1] = windows[q][1]
                                /\ p[1] < q[1] \/ (p[1] = q[1] /\ p[2] < q[2])
<1>1. PICK before : before = {pair \in places \X places : Precedes(pair[1], pair[2])}
  OBVIOUS
<1>2. PICK order : order = Arranged(places, before)
  OBVIOUS
<1>3. PICK sorted : sorted = [n \in DOMAIN order |-> windows[order[n]]]
  OBVIOUS
<1>4. Sorted(windows) = sorted
  <2>1. DOMAIN windows = places
    OBVIOUS
  <2> QED BY <1>1, <1>2, <1>3, <2>1 DEF Sorted
<1>5. ASSUME NEW p \in places PROVE p = <<p[1], p[2]>> /\ p[1] \in Nat /\ p[2] \in Nat /\ windows[p][1] \in Nat
  OBVIOUS
<1>6. \A p, q \in places : <<p, q>> \in before <=> Precedes(p, q)
  BY <1>1
<1>7. Orders(before, places)
  <2>1. \A p \in places : ~Precedes(p, p)
    BY <1>5
  <2>2. ASSUME NEW p \in places, NEW q \in places, p # q PROVE Precedes(p, q) \/ Precedes(q, p)
    <3>1. p[1] # q[1] \/ p[2] # q[2]
      BY <1>5, <2>2
    <3> QED BY <1>5, <3>1, SMTT(30)
  <2>3. ASSUME NEW p \in places, NEW q \in places, NEW r \in places, Precedes(p, q), Precedes(q, r)
        PROVE  Precedes(p, r)
    BY <1>5, <2>3
  <2> HIDE DEF Precedes
  <2> QED BY <1>6, <2>1, <2>2, <2>3 DEF Orders
<1>8. PICK count \in Nat : count = Cardinality(places)
  BY FS_CardinalityType
<1>9. /\ order \in [1..count -> places]
      /\ \A m, n \in 1..count : m < n => <<order[m], order[n]>> \in before
      /\ \A x \in places : \E n \in 1..count : order[n] = x
  BY <1>2, <1>7, <1>8, ArrangedLists, SMTT(30)
<1>10. DOMAIN sorted = 1..count /\ \A n \in 1..count : sorted[n] = windows[order[n]] /\ order[n] \in places
  BY <1>3, <1>9
<1>11. sorted \in Seq(Nat \X Nat) /\ Len(sorted) = count
  <2>1. \A n \in 1..count : sorted[n] \in Nat \X Nat
    BY <1>10
  <2>2. sorted \in [1..count -> Nat \X Nat]
    BY <1>3, <1>10, <2>1
  <2>3. sorted \in Seq(Nat \X Nat)
    BY <2>2, SeqDef
  <2> QED BY <1>10, <2>3, LenProperties
<1>12. Listed(sorted) = {windows[p] : p \in places}
  <2>1. \A n \in DOMAIN sorted : \E p \in places : sorted[n] = windows[p]
    BY <1>10
  <2>2. ASSUME NEW p \in places PROVE \E n \in DOMAIN sorted : sorted[n] = windows[p]
    <3>1. PICK n \in 1..count : order[n] = p
      BY <1>9
    <3> QED BY <1>10, <3>1
  <2> QED BY <2>1, <2>2 DEF Listed
<1>13. ASSUME NEW m \in 1..count, NEW n \in 1..count, m < n PROVE sorted[m][1] <= sorted[n][1]
  <2>1. Precedes(order[m], order[n]) /\ order[m] \in places /\ order[n] \in places
    BY <1>6, <1>9, <1>10, <1>13
  <2>2. windows[order[m]][1] <= windows[order[n]][1]
    BY <1>5, <2>1
  <2> QED BY <1>10, <2>2
<1> QED BY <1>4, <1>11, <1>12, <1>13

\* A window joins windows.
LEMMA JoinedType ==
  ASSUME NEW merged \in Seq(Nat \X Nat), NEW w \in Nat \X Nat
  PROVE  Joined(merged, w) \in Seq(Nat \X Nat)
<1>1. CASE merged = <<>> \/ w[1] > merged[Len(merged)][2] + 1
  <2>1. Joined(merged, w) = Append(merged, w)
    BY <1>1 DEF Joined
  <2> QED BY <2>1, AppendProperties
<1>2. CASE ~(merged = <<>> \/ w[1] > merged[Len(merged)][2] + 1)
  <2>1. PICK n \in Nat : n = Len(merged) /\ DOMAIN merged = 1..n
    BY LenProperties
  <2>2. n \in 1..n
    BY <1>2, <2>1, EmptySeq
  <2>3. merged[n] \in Nat \X Nat
    BY <2>1, <2>2, ElementOfSeq
  <2>4. PICK last \in Nat \X Nat : last = <<merged[n][1], IF w[2] > merged[n][2] THEN w[2] ELSE merged[n][2]>>
    BY <2>3
  <2>5. Joined(merged, w) = [merged EXCEPT ![n] = last]
    BY <1>2, <2>1, <2>4 DEF Joined
  <2> QED BY <2>1, <2>2, <2>5, ExceptSeq
<1> QED BY <1>1, <1>2

\* The loop of _merge_line_windows.
LEMMA MergedLists ==
  ASSUME NEW windows, Sorted(windows) \in Seq(Nat \X Nat)
  PROVE  \E merged \in [0..Len(Sorted(windows)) -> Seq(Nat \X Nat)] :
           /\ MergeLineWindows(windows) = merged[Len(Sorted(windows))]
           /\ merged[0] = <<>>
           /\ \A n \in 1..Len(Sorted(windows)) : merged[n] = Joined(merged[n - 1], Sorted(windows)[n])
<1>1. PICK sorted : sorted = Sorted(windows)
  OBVIOUS
<1>2. PICK N \in Nat : N = Len(sorted) /\ DOMAIN sorted = 1..N
  BY <1>1, LenProperties
<1>3. PICK Lists : Lists = Seq(Nat \X Nat)
  OBVIOUS
<1> DEFINE Loops(f) == f = [n \in 0..N |-> IF n = 0 THEN <<>> ELSE Joined(f[n - 1], sorted[n])]
<1>4. ASSUME NEW n \in 1..N, NEW list \in Lists PROVE Joined(list, sorted[n]) \in Lists
  <2>1. sorted[n] \in Nat \X Nat
    BY <1>1, <1>2, ElementOfSeq
  <2> QED BY <1>3, <2>1, JoinedType
<1>5. PICK merged : merged = CHOOSE g : Loops(g)
  OBVIOUS
<1>6. MergeLineWindows(windows) = merged[N]
  BY <1>1, <1>2, <1>5 DEF MergeLineWindows
<1>7. PICK step : step = [n \in 1..N |-> [list \in Lists |-> Joined(list, sorted[n])]]
  OBVIOUS
<1>8. step \in [1..N -> [Lists -> Lists]]
  BY <1>4, <1>7
<1>9. PICK none \in Lists : none = <<>>
  BY <1>3, EmptySeq
<1>10. PICK f \in [0..N -> Lists] : f[0] = none /\ \A n \in 1..N : f[n] = step[n][f[n - 1]]
  <2>1. PICK f \in [0..N -> Lists] : Iterates(f, N, none, step)
    BY <1>8, Loop
  <2> QED BY <2>1 DEF Iterates
<1>11. ASSUME NEW n \in 1..N PROVE n \in 0..N /\ n # 0 /\ n - 1 \in 0..N
  OBVIOUS
<1>12. ASSUME NEW n \in 1..N PROVE f[n] = Joined(f[n - 1], sorted[n])
  BY <1>7, <1>10, <1>11
<1>13. Loops(f)
  <2>1. \A n \in 0..N : n = 0 \/ n \in 1..N
    OBVIOUS
  <2> QED BY <1>9, <1>10, <1>12, <2>1
<1>14. Loops(merged)
  <2> HIDE DEF Loops
  <2> QED BY <1>5, <1>13
<1>15. \A n \in 0..N : merged[n] = IF n = 0 THEN <<>> ELSE Joined(merged[n - 1], sorted[n])
  BY <1>14
<1>16. merged[0] = <<>> /\ \A n \in 1..N : merged[n] = Joined(merged[n - 1], sorted[n])
  <2> HIDE DEF Loops
  <2>1. 0 \in 0..N
    OBVIOUS
  <2> QED BY <1>11, <1>15, <2>1
<1>17. PICK good : good = {n \in 0..N : merged[n] \in Lists}
  OBVIOUS
<1>18. \A n \in 0..N : n \in good
  <2> HIDE DEF Loops
  <2>1. 0 \in good
    <3>1. <<>> \in Lists /\ 0 \in 0..N
      BY <1>3, EmptySeq
    <3> QED BY <1>16, <1>17, <3>1
  <2>2. \A n \in 1..N : n - 1 \in good => n \in good
    BY <1>4, <1>11, <1>16, <1>17
  <2> QED BY <2>1, <2>2, UpTo
<1>19. merged \in [0..N -> Lists]
  <2>1. merged = [n \in 0..N |-> IF n = 0 THEN <<>> ELSE Joined(merged[n - 1], sorted[n])]
    BY <1>14
  <2> HIDE DEF Loops
  <2>2. \A n \in 0..N : merged[n] \in Lists
    BY <1>17, <1>18
  <2>3. \A n \in 0..N : (IF n = 0 THEN <<>> ELSE Joined(merged[n - 1], sorted[n])) \in Lists
    BY <1>15, <2>2
  <2> QED BY <2>1, <2>3
<1> QED BY <1>1, <1>2, <1>3, <1>6, <1>16, <1>19

\* Merging keeps the lines of windows and leaves windows apart, when they come sorted.
LEMMA MergeFacts ==
  ASSUME NEW windows, Sorted(windows) \in Seq(Nat \X Nat),
         \A n \in 1..Len(Sorted(windows)) : Sorted(windows)[n][1] <= Sorted(windows)[n][2],
         \A m, n \in 1..Len(Sorted(windows)) : m < n => Sorted(windows)[m][1] <= Sorted(windows)[n][1]
  PROVE  /\ MergeLineWindows(windows) \in Seq(Nat \X Nat) /\ Spaced(MergeLineWindows(windows))
         /\ MergeLineWindows(windows) = <<>> <=> Sorted(windows) = <<>>
         /\ \A line \in Nat : Holds(MergeLineWindows(windows), line) <=> Holds(Sorted(windows), line)
<1>1. PICK sorted : sorted = Sorted(windows)
  OBVIOUS
<1>2. PICK N \in Nat : N = Len(sorted) /\ DOMAIN sorted = 1..N
  BY <1>1, LenProperties
<1>3. PICK merged \in [0..N -> Seq(Nat \X Nat)] :
        /\ MergeLineWindows(windows) = merged[N]
        /\ merged[0] = <<>>
        /\ \A n \in 1..N : merged[n] = Joined(merged[n - 1], sorted[n])
  BY <1>1, <1>2, MergedLists
<1> DEFINE Found(n, line) == \E m \in 1..n : sorted[m][1] <= line /\ line <= sorted[m][2]
           Good(n) == /\ Spaced(merged[n])
                      /\ merged[n] = <<>> <=> n = 0
                      /\ n # 0 => merged[n][Len(merged[n])][1] <= sorted[n][1]
                      /\ \A line \in Nat : Holds(merged[n], line) <=> Found(n, line)
<1>4. PICK good : good = {n \in 0..N : Good(n)}
  OBVIOUS
<1>5. 0 \in good
  <2>1. Spaced(<<>>) /\ \A line \in Nat : ~Holds(<<>>, line)
    <3>1. DOMAIN <<>> = {} /\ Len(<<>>) = 0
      BY EmptySeq
    <3>2. 1..(0 - 1) = {}
      OBVIOUS
    <3> QED BY <3>1, <3>2 DEF Spaced, Holds
  <2>2. Good(0)
    BY <1>3, <2>1
  <2> QED BY <1>4, <2>2
<1>6. ASSUME NEW n \in 1..N, n - 1 \in good PROVE n \in good
  <2>1. PICK before \in Seq(Nat \X Nat) : before = merged[n - 1]
    <3>1. n - 1 \in 0..N
      OBVIOUS
    <3> QED BY <1>3, <3>1
  <2>2. PICK w \in Nat \X Nat : w = sorted[n] /\ w[1] <= w[2]
    <3>1. sorted[n] \in Nat \X Nat
      BY <1>1, <1>2, ElementOfSeq
    <3> QED BY <1>1, <1>2, <3>1
  <2>3. Good(n - 1)
    BY <1>4, <1>6
  <2>4. Spaced(before) /\ \A line \in Nat : Holds(before, line) <=> Found(n - 1, line)
    BY <2>1, <2>3
  <2>5. before # <<>> => before[Len(before)][1] <= w[1]
    <3> SUFFICES ASSUME before # <<>> PROVE before[Len(before)][1] <= w[1]
      OBVIOUS
    <3>1. n - 1 # 0 /\ before[Len(before)][1] <= sorted[n - 1][1]
      BY <2>1, <2>3
    <3>2. n - 1 \in 1..N /\ n - 1 < n
      BY <3>1
    <3>3. sorted[n - 1][1] <= w[1]
      BY <1>1, <1>2, <2>2, <3>2
    <3>4. PICK k \in Nat : k = Len(before) /\ DOMAIN before = 1..k
      BY LenProperties
    <3>5. k # 0
      BY <3>4, EmptySeq
    <3>6. k \in 1..k
      BY <3>5
    <3>7. before[k] \in Nat \X Nat /\ sorted[n - 1] \in Nat \X Nat
      BY <1>1, <1>2, <3>2, <3>4, <3>6, ElementOfSeq
    <3>8. before[k][1] \in Nat /\ sorted[n - 1][1] \in Nat /\ w[1] \in Nat
      BY <3>7
    <3>9. before[k][1] <= sorted[n - 1][1]
      BY <3>1, <3>4
    <3>10. before[k][1] <= w[1]
      BY <3>3, <3>8, <3>9, SMTT(30)
    <3> QED BY <3>4, <3>10
  <2>6. PICK joined : joined = Joined(before, w)
    OBVIOUS
  <2>7. /\ joined # <<>> /\ Spaced(joined) /\ joined[Len(joined)][1] <= w[1]
        /\ \A line \in Nat : Holds(joined, line) <=> Holds(before, line) \/ (w[1] <= line /\ line <= w[2])
    BY <2>2, <2>4, <2>5, <2>6, JoinedFacts
  <2>8. merged[n] = joined
    BY <1>3, <2>1, <2>2, <2>6
  <2>9. ASSUME NEW line \in Nat PROVE Holds(joined, line) <=> Found(n, line)
    <3>1. \A m \in 1..n : m = n \/ m \in 1..(n - 1)
      OBVIOUS
    <3>2. n \in 1..n /\ \A m \in 1..(n - 1) : m \in 1..n
      OBVIOUS
    <3>3. Found(n, line) <=> Found(n - 1, line) \/ (w[1] <= line /\ line <= w[2])
      BY <2>2, <3>1, <3>2
    <3> HIDE DEF Found
    <3> QED BY <2>4, <2>7, <3>3
  <2>10. Good(n)
    <3> HIDE DEF Found
    <3>1. n # 0
      OBVIOUS
    <3> QED BY <2>2, <2>7, <2>8, <2>9, <3>1
  <2> HIDE DEF Good
  <2>11. n \in 0..N
    OBVIOUS
  <2> QED BY <1>4, <2>10, <2>11
<1>7. Good(N)
  <2> HIDE DEF Good
  <2>1. \A n \in 1..N : n - 1 \in good => n \in good
    BY <1>6
  <2>2. \A n \in 0..N : n \in good
    BY <1>5, <2>1, UpTo
  <2>3. N \in 0..N
    OBVIOUS
  <2> QED BY <1>4, <2>2, <2>3
<1>8. merged[N] \in Seq(Nat \X Nat)
  <2>1. N \in 0..N
    OBVIOUS
  <2> QED BY <1>3, <2>1
<1>9. sorted = <<>> <=> N = 0
  BY <1>1, <1>2, EmptySeq
<1>10. \A line \in Nat : Found(N, line) <=> Holds(sorted, line)
  BY <1>2 DEF Holds
<1>11. \A line \in Nat : Holds(merged[N], line) <=> Holds(sorted, line)
  <2> HIDE DEF Found
  <2> QED BY <1>7, <1>10
<1>12. Spaced(merged[N]) /\ (merged[N] = <<>> <=> sorted = <<>>)
  <2> HIDE DEF Found
  <2> QED BY <1>7, <1>9
<1> QED BY <1>1, <1>3, <1>8, <1>11, <1>12

\* The lines where matches are found, and those around them.
Anchors(textMatches) ==
  UNION {UNION {Anchor(textMatches[t].matches[m]) : m \in DOMAIN textMatches[t].matches} :
           t \in DOMAIN textMatches}
Around(anchors, context) ==
  {l \in 0..LastLine : \E a \in anchors : l <= a + context /\ a <= l + context}

\* The chunks are the lines around the matches that are found, or else the fragments.
Complete(textMatches, context, chunks) ==
  IF Anchors(textMatches) = {}
  THEN Listed(chunks) = {<<t>> : t \in {u \in DOMAIN textMatches : textMatches[u].fragment}}
  ELSE /\ UNION {w[1]..w[2] : w \in Listed(chunks)} = Around(Anchors(textMatches), context)
       /\ \A c \in 1..(Len(chunks) - 1) : chunks[c][2] + 1 < chunks[c + 1][1]

\* A line is where a match is found just when a place leads to it.
LEMMA AnchorsFacts ==
  ASSUME NEW textMatches, Readable(textMatches)
  PROVE  /\ Anchors(textMatches) \subseteq 0..LastLine
         /\ \A line : line \in Anchors(textMatches) <=>
              \E place \in Located(textMatches) : line \in Anchor(textMatches[place[1]].matches[place[2]])
<1>1. ASSUME NEW line, line \in Anchors(textMatches)
      PROVE  /\ line \in 0..LastLine
             /\ \E place \in Located(textMatches) : line \in Anchor(textMatches[place[1]].matches[place[2]])
  <2>1. PICK t \in DOMAIN textMatches : \E m \in DOMAIN textMatches[t].matches :
               line \in Anchor(textMatches[t].matches[m])
    BY <1>1 DEF Anchors
  <2>2. PICK m \in DOMAIN textMatches[t].matches : line \in Anchor(textMatches[t].matches[m])
    BY <2>1
  <2>3. PICK anchor : anchor = Anchor(textMatches[t].matches[m])
    OBVIOUS
  <2>4. line \in 0..LastLine
    BY <2>1, <2>2, <2>3 DEF Readable
  <2>5. PICK place : place = <<t, m>>
    OBVIOUS
  <2>6. place \in Located(textMatches) /\ place[1] = t /\ place[2] = m
    BY <2>1, <2>2, <2>5, PlaceFacts
  <2> QED BY <2>2, <2>4, <2>6
<1>2. ASSUME NEW line, NEW place \in Located(textMatches),
             line \in Anchor(textMatches[place[1]].matches[place[2]])
      PROVE  line \in Anchors(textMatches)
  <2>1. PICK t, m : t = place[1] /\ m = place[2]
    OBVIOUS
  <2>2. t \in DOMAIN textMatches /\ m \in DOMAIN textMatches[t].matches
    BY <2>1, PlaceFacts
  <2> QED BY <1>2, <2>1, <2>2 DEF Anchors
<1> QED BY <1>1, <1>2

\* The windows, in order, hold the lines around the matches.
LEMMA WindowsHold ==
  ASSUME NEW textMatches, Readable(textMatches), NEW context \in Nat,
         NEW sorted, sorted = Sorted(Windows(textMatches, context))
  PROVE  /\ sorted \in Seq(Nat \X Nat)
         /\ \A n \in 1..Len(sorted) : sorted[n][1] <= sorted[n][2]
         /\ \A m, n \in 1..Len(sorted) : m < n => sorted[m][1] <= sorted[n][1]
         /\ sorted = <<>> <=> Anchors(textMatches) = {}
         /\ \A line \in Nat : Holds(sorted, line) <=> line \in Around(Anchors(textMatches), context)
<1>1. PICK places : places = Located(textMatches) /\ places \in SUBSET (Nat \X Nat) /\ IsFiniteSet(places)
  BY LocatedFacts
<1>2. PICK windows \in [places -> Nat \X Nat] : windows = Windows(textMatches, context)
  BY <1>1, WindowsFacts
<1>3. \A place \in places : \E line \in 0..LastLine :
        /\ Anchor(textMatches[place[1]].matches[place[2]]) = {line}
        /\ windows[place] = Window(line, context)
  BY <1>1, <1>2, WindowsFacts
<1>4. /\ sorted \in Seq(Nat \X Nat) /\ Listed(sorted) = {windows[p] : p \in places}
      /\ \A m, n \in 1..Len(sorted) : m < n => sorted[m][1] <= sorted[n][1]
  BY <1>1, <1>2, SortedFacts
<1>5. PICK N \in Nat : N = Len(sorted) /\ DOMAIN sorted = 1..N
  BY <1>4, LenProperties
<1>6. ASSUME NEW n \in 1..N PROVE \E p \in places : sorted[n] = windows[p]
  BY <1>4, <1>5 DEF Listed
<1>7. ASSUME NEW p \in places PROVE \E n \in 1..N : sorted[n] = windows[p]
  BY <1>4, <1>5 DEF Listed
<1>8. ASSUME NEW n \in 1..N PROVE sorted[n][1] <= sorted[n][2]
  <2>1. PICK p \in places : sorted[n] = windows[p]
    BY <1>6
  <2>2. PICK line \in 0..LastLine : windows[p] = Window(line, context)
    BY <1>3
  <2> QED BY <2>1, <2>2, WindowFacts
<1>9. sorted = <<>> <=> Anchors(textMatches) = {}
  <2>1. sorted = <<>> <=> N = 0
    BY <1>4, <1>5, EmptySeq
  <2>2. ASSUME N # 0 PROVE Anchors(textMatches) # {}
    <3>1. 1 \in 1..N
      BY <2>2
    <3>2. PICK p \in places : sorted[1] = windows[p]
      BY <1>6, <3>1
    <3>3. PICK line \in 0..LastLine : Anchor(textMatches[p[1]].matches[p[2]]) = {line}
      BY <1>3
    <3>4. line \in Anchors(textMatches)
      BY <1>1, <3>3, AnchorsFacts
    <3> QED BY <3>4
  <2>3. ASSUME N = 0 PROVE Anchors(textMatches) = {}
    <3>1. 1..N = {}
      BY <2>3
    <3>2. places = {}
      BY <1>7, <3>1
    <3> QED BY <1>1, <3>2, AnchorsFacts
  <2> QED BY <2>1, <2>2, <2>3
<1>10. ASSUME NEW l \in Nat PROVE Holds(sorted, l) <=> l \in Around(Anchors(textMatches), context)
  <2>1. ASSUME Holds(sorted, l) PROVE l \in Around(Anchors(textMatches), context)
    <3>1. PICK n \in 1..N : sorted[n][1] <= l /\ l <= sorted[n][2]
      BY <1>5, <2>1 DEF Holds
    <3>2. PICK p \in places : sorted[n] = windows[p]
      BY <1>6
    <3>3. PICK line \in 0..LastLine : /\ Anchor(textMatches[p[1]].matches[p[2]]) = {line}
                                      /\ windows[p] = Window(line, context)
      BY <1>3
    <3>4. l \in 0..LastLine /\ l <= line + context /\ line <= l + context
      BY <3>1, <3>2, <3>3, WindowFacts
    <3>5. line \in Anchors(textMatches)
      BY <1>1, <3>3, AnchorsFacts
    <3> QED BY <3>4, <3>5 DEF Around
  <2>2. ASSUME l \in Around(Anchors(textMatches), context) PROVE Holds(sorted, l)
    <3>1. PICK a \in Anchors(textMatches) : l \in 0..LastLine /\ l <= a + context /\ a <= l + context
      BY <2>2 DEF Around
    <3>2. PICK p \in places : a \in Anchor(textMatches[p[1]].matches[p[2]])
      BY <1>1, AnchorsFacts
    <3>3. PICK line \in 0..LastLine : /\ Anchor(textMatches[p[1]].matches[p[2]]) = {line}
                                      /\ windows[p] = Window(line, context)
      BY <1>3
    <3>4. a = line
      BY <3>2, <3>3
    <3>5. windows[p][1] <= l /\ l <= windows[p][2]
      BY <3>1, <3>3, <3>4, WindowFacts
    <3>6. PICK n \in 1..N : sorted[n] = windows[p]
      BY <1>7
    <3> QED BY <1>5, <3>5, <3>6 DEF Holds
  <2> QED BY <2>1, <2>2
<1> QED BY <1>4, <1>5, <1>8, <1>9, <1>10

\* _extract_chunks_from_text_matches finds all the context there is.
LEMMA ChunksFacts ==
  ASSUME NEW textMatches, Readable(textMatches), NEW context \in Nat
  PROVE  Complete(textMatches, context, Chunks(textMatches, context))
<1>1. PICK windows : windows = Windows(textMatches, context)
  OBVIOUS
<1>2. PICK sorted : sorted = Sorted(windows)
  OBVIOUS
<1>3. /\ sorted \in Seq(Nat \X Nat)
      /\ \A n \in 1..Len(sorted) : sorted[n][1] <= sorted[n][2]
      /\ \A m, n \in 1..Len(sorted) : m < n => sorted[m][1] <= sorted[n][1]
      /\ sorted = <<>> <=> Anchors(textMatches) = {}
      /\ \A line \in Nat : Holds(sorted, line) <=> line \in Around(Anchors(textMatches), context)
  BY <1>1, <1>2, WindowsHold
<1>4. PICK merged \in Seq(Nat \X Nat) :
        /\ merged = MergeLineWindows(windows) /\ Spaced(merged)
        /\ merged = <<>> <=> sorted = <<>>
        /\ \A line \in Nat : Holds(merged, line) <=> Holds(sorted, line)
  BY <1>2, <1>3, MergeFacts
<1>5. PICK fallbacks : fallbacks = InOrder(Fallbacks(textMatches))
  OBVIOUS
<1>6. PICK fragments : fragments = [f \in DOMAIN fallbacks |-> <<fallbacks[f]>>]
  OBVIOUS
<1>7. Chunks(textMatches, context) = IF merged # <<>> THEN merged ELSE fragments
  BY <1>1, <1>4, <1>5, <1>6 DEF Chunks
<1>8. CASE Anchors(textMatches) = {}
  <2>1. PICK texts \in SUBSET Nat : texts = DOMAIN textMatches /\ IsFiniteSet(texts)
    BY DEF Readable
  <2>2. PICK places \in SUBSET texts : places = {u \in texts : textMatches[u].fragment}
    OBVIOUS
  <2>3. Fallbacks(textMatches) = places
    <3>1. ASSUME NEW t \in texts, NEW m \in DOMAIN textMatches[t].matches
          PROVE  Anchor(textMatches[t].matches[m]) = {}
      <4>1. ASSUME NEW line \in Anchor(textMatches[t].matches[m]) PROVE line \in Anchors(textMatches)
        BY <2>1 DEF Anchors
      <4> QED BY <1>8, <4>1
    <3> QED BY <2>1, <2>2, <3>1 DEF Fallbacks
  <2>4. places \in SUBSET Nat /\ IsFiniteSet(places)
    BY <2>1, FS_Subset
  <2>5. PICK count \in Nat : count = Cardinality(places)
    BY <2>4, FS_CardinalityType
  <2>6. /\ fallbacks \in [1..count -> places]
        /\ \A i \in places : \E n \in 1..count : fallbacks[n] = i
    BY <1>5, <2>3, <2>4, <2>5, InOrderLists
  <2>7. DOMAIN fragments = 1..count /\ \A f \in 1..count : fragments[f] = <<fallbacks[f]>>
    BY <1>6, <2>6
  <2>8. \A f \in DOMAIN fragments : \E t \in places : fragments[f] = <<t>>
    BY <2>6, <2>7
  <2>9. ASSUME NEW t \in places PROVE \E f \in DOMAIN fragments : fragments[f] = <<t>>
    <3>1. PICK f \in 1..count : fallbacks[f] = t
      BY <2>6
    <3> QED BY <2>7, <3>1
  <2>10. Listed(fragments) = {<<t>> : t \in places}
    BY <2>8, <2>9 DEF Listed
  <2>11. Chunks(textMatches, context) = fragments
    BY <1>3, <1>4, <1>7, <1>8
  <2> QED BY <1>8, <2>1, <2>2, <2>10, <2>11 DEF Complete
<1>9. CASE Anchors(textMatches) # {}
  <2>1. Chunks(textMatches, context) = merged
    BY <1>3, <1>4, <1>7, <1>9
  <2>2. \A c \in DOMAIN merged : merged[c] \in Nat \X Nat
    BY <1>4, LenProperties, ElementOfSeq
  <2>3. ASSUME NEW l PROVE l \in UNION {w[1]..w[2] : w \in Listed(merged)} <=> l \in Nat /\ Holds(merged, l)
    <3>1. ASSUME NEW w \in Listed(merged), l \in w[1]..w[2] PROVE l \in Nat /\ Holds(merged, l)
      <4>1. PICK c \in DOMAIN merged : w = merged[c]
        BY DEF Listed
      <4>2. w[1] \in Nat /\ w[2] \in Nat
        BY <2>2, <4>1
      <4>3. l \in Nat /\ w[1] <= l /\ l <= w[2]
        BY <3>1, <4>2
      <4> QED BY <4>1, <4>3 DEF Holds
    <3>2. ASSUME l \in Nat, Holds(merged, l) PROVE \E w \in Listed(merged) : l \in w[1]..w[2]
      <4>1. PICK c \in DOMAIN merged : merged[c][1] <= l /\ l <= merged[c][2]
        BY <3>2 DEF Holds
      <4>2. PICK w : w = merged[c]
        OBVIOUS
      <4>3. w[1] \in Nat /\ w[2] \in Nat
        BY <2>2, <4>1, <4>2
      <4>4. l \in w[1]..w[2]
        BY <3>2, <4>1, <4>2, <4>3
      <4> QED BY <4>1, <4>2, <4>4 DEF Listed
    <3> QED BY <3>1, <3>2
  <2>4. \A l \in Around(Anchors(textMatches), context) : l \in Nat
    BY SearchAssumption DEF Around
  <2>5. UNION {w[1]..w[2] : w \in Listed(merged)} = Around(Anchors(textMatches), context)
    BY <1>3, <1>4, <2>3, <2>4
  <2>6. \A c \in 1..(Len(merged) - 1) : merged[c][2] + 1 < merged[c + 1][1]
    BY <1>4 DEF Spaced
  <2> QED BY <1>9, <2>1, <2>5, <2>6 DEF Complete
<1> QED BY <1>8, <1>9

(***************************************************************************)
(* The invariant of the search.                                            *)
(***************************************************************************)

\* A search begins with a page and with nothing else.
BeginInv ==
  /\ phase \in {"idle", "fetched", "unique", "distinct", "sampled", "done"}
  /\ phase # "idle" => page \in Pages
  /\ phase \in {"idle", "fetched"} => results = <<>> /\ unique = <<>>

\* Deduplication leaves one of the results that are the same, and what is left later is a
\* choice of them.
UniqueInv == phase \notin {"idle", "fetched"} =>
  /\ unique \in Seq(Results) /\ Distinct(unique)
  /\ page.score # <<>> => unique # <<>>
  /\ Covers(Listed(unique), Results) /\ Apart(Listed(unique))
  /\ Choice(results, unique)

\* Nothing is lost until the cap drops something.
StandsInv ==
  /\ phase = "unique" => results = unique
  /\ phase = "distinct" => Stands(Listed(results), Listed(unique), Listed(unique))
  /\ phase = "sampled" => \A i \in Listed(unique) :
       \/ \E k \in Listed(results) : Linked(Listed(unique), i, k) /\ page.score[k] >= page.score[i]
       \/ Capped(Listed(results), i)

\* A snippet is enriched from text matches of the page.
SnippetInv == matches # <<>> =>
  /\ page \in Pages
  /\ \E textMatches \in TextMatches(page), context \in Contexts, fetched \in BOOLEAN :
       /\ matches = <<textMatches, context, fetched>>
       /\ snippet = Enriched(fetched, textMatches, context)

SearchInv == BeginInv /\ UniqueInv /\ StandsInv /\ SnippetInv

\* A choice of a choice is a choice.
LEMMA ChoiceSeq ==
  ASSUME NEW S, NEW items \in Seq(S), NEW list, Choice(list, items)
  PROVE  /\ list \in Seq(S) /\ Listed(list) \subseteq Listed(items) /\ Distinct(list)
         /\ Len(list) <= Len(items) /\ (items # <<>> => list # <<>>)
<1>1. Listed(items) \subseteq S
  BY LenProperties, ElementOfSeq DEF Listed
<1>2. list \in Seq(Listed(items))
  BY DEF Choice
<1>3. list \in Seq(S)
  <2>1. Seq(Listed(items)) \subseteq Seq(S)
    BY <1>1, SeqMonotonic
  <2> QED BY <1>2, <2>1
<1>4. Listed(list) \subseteq Listed(items)
  <2>1. \A n \in DOMAIN list : list[n] \in Listed(items)
    BY <1>2, LenProperties, ElementOfSeq
  <2> QED BY <2>1 DEF Listed
<1> QED BY <1>3, <1>4 DEF Choice

LEMMA ChoiceChain ==
  ASSUME NEW S, NEW items \in Seq(S), NEW some, NEW list, Choice(some, items), Choice(list, some)
  PROVE  Choice(list, items)
<1>1. some \in Seq(S) /\ Len(some) <= Len(items) /\ (items # <<>> => some # <<>>)
  BY ChoiceSeq
<1>2. Listed(some) \subseteq Listed(items)
  BY ChoiceSeq
<1>3. list \in Seq(S) /\ Len(list) <= Len(some) /\ (some # <<>> => list # <<>>) /\ Distinct(list)
  BY <1>1, ChoiceSeq
<1>4. list \in Seq(Listed(items))
  <2>1. Seq(Listed(some)) \subseteq Seq(Listed(items))
    BY <1>2, SeqMonotonic
  <2> QED BY <2>1 DEF Choice
<1>5. Len(list) \in Nat /\ Len(some) \in Nat /\ Len(items) \in Nat
  BY <1>1, <1>3, LenProperties
<1>6. Len(list) <= Len(items)
  BY <1>1, <1>3, <1>5
<1> QED BY <1>1, <1>3, <1>4, <1>6 DEF Choice

\* The invariant says what is checked of a search.
LEMMA SearchTyped == SearchInv => SearchTypeOK
<1> SUFFICES ASSUME SearchInv PROVE SearchTypeOK
  OBVIOUS
<1> USE DEF SearchInv
<1>1. phase \in {"idle", "fetched", "unique", "distinct", "sampled", "done"}
  BY DEF BeginInv
<1>2. CASE phase \in {"idle", "fetched"}
  <2>1. results = <<>> /\ unique = <<>> /\ <<>> \in Seq(Results) /\ Len(<<>>) = 0
    BY <1>2, EmptySeq DEF BeginInv
  <2> QED BY <1>1, <1>2, <2>1 DEF SearchTypeOK
<1>3. CASE phase \notin {"idle", "fetched"}
  <2>1. unique \in Seq(Results) /\ (page.score # <<>> => unique # <<>>) /\ Choice(results, unique)
    BY <1>3 DEF UniqueInv
  <2>2. results \in Seq(Results) /\ Len(results) <= Len(unique) /\ (unique # <<>> => results # <<>>)
    BY <2>1, ChoiceSeq
  <2> QED BY <1>1, <2>1, <2>2 DEF SearchTypeOK
<1> QED BY <1>2, <1>3

\* The two properties of a search follow from its invariant.
LEMMA SearchRepresented == SearchInv => Represented
<1> SUFFICES ASSUME SearchInv PROVE Represented
  OBVIOUS
<1>1. ASSUME phase = "unique"
      PROVE  /\ \A i \in Results : \E j \in Listed(results) : i = j \/ Same(i, j)
             /\ \A i, j \in Listed(results) : i # j => ~Same(i, j)
  BY <1>1 DEF SearchInv, UniqueInv, StandsInv, Covers, Apart
<1>2. ASSUME phase = "sampled"
      PROVE  \A i \in Listed(unique) :
               \/ \E k \in Listed(results) : Linked(Listed(unique), i, k) /\ page.score[k] >= page.score[i]
               \/ /\ Cardinality(Listed(results)) = MaxSampled
                  /\ \A k \in Listed(results) : page.score[k] >= page.score[i]
  BY <1>2 DEF SearchInv, StandsInv, Capped
<1> QED BY <1>1, <1>2 DEF Represented

LEMMA SearchComplete == SearchInv => ContextComplete
<1> SUFFICES ASSUME SearchInv, matches # <<>>, matches[3] PROVE Complete(matches[1], matches[2], snippet)
  BY DEF ContextComplete, Complete, Anchors, Around
<1>1. PICK textMatches \in TextMatches(page), context \in Contexts, fetched \in BOOLEAN :
        matches = <<textMatches, context, fetched>> /\ snippet = Enriched(fetched, textMatches, context)
  BY DEF SearchInv, SnippetInv
<1>2. matches[1] = textMatches /\ matches[2] = context /\ fetched
  BY <1>1
<1>3. snippet = Chunks(textMatches, context)
  BY <1>1, <1>2 DEF Enriched
<1>4. Readable(textMatches)
  BY PagesReadable DEF SearchInv, SnippetInv
<1>5. context \in Nat
  BY SearchAssumption
<1>6. Complete(textMatches, context, snippet)
  BY <1>3, <1>4, <1>5, ChunksFacts
<1> QED BY <1>2, <1>6

LEMMA SearchStarts ==
  ASSUME NEW start \in {"idle", "fetched"}, NEW pages, SearchInit(start, pages),
         start # "idle" => pages \subseteq Pages
  PROVE  SearchInv
BY DEF SearchInit, SearchInv, BeginInv, UniqueInv, StandsInv, SnippetInv

\* One lemma for each phase of run().
LEMMA DeduplicateKeeps == SearchInv /\ Deduplicate => SearchInv'
<1> SUFFICES ASSUME SearchInv, Deduplicate PROVE SearchInv'
  OBVIOUS
<1>1. page \in Pages /\ page' = page /\ Results' = Results /\ phase' = "unique"
  BY DEF SearchInv, BeginInv, Deduplicate, Results
<1>2. PICK list : list = Deduped
  OBVIOUS
<1>3. results' = list /\ unique' = list
  BY <1>2 DEF Deduplicate
<1>4. /\ list \in Seq(Results) /\ Distinct(list)
      /\ Covers(Listed(list), Results) /\ Apart(Listed(list))
      /\ page.score # <<>> => list # <<>>
  BY <1>1, <1>2, DedupedFacts
<1>5. Choice(list, list)
  BY <1>1, <1>4, AllStand
<1>6. BeginInv'
  BY <1>1 DEF BeginInv
<1>7. UniqueInv'
  <2>1. Covers(Listed(list), Results)' /\ Apart(Listed(list))'
    BY <1>1, <1>3, <1>4 DEF Covers, Apart, Same, Listed
  <2> QED BY <1>1, <1>3, <1>4, <1>5, <2>1 DEF UniqueInv, Covers, Apart, Same, Listed, Choice, Distinct
<1>8. StandsInv'
  BY <1>1, <1>3 DEF StandsInv
<1>9. SnippetInv'
  BY DEF SearchInv, SnippetInv, Deduplicate
<1> QED BY <1>6, <1>7, <1>8, <1>9 DEF SearchInv

\* What deduplication left stays as it is.
LEMMA UniqueStays ==
  ASSUME UniqueInv, phase \notin {"idle", "fetched"}, page' = page, unique' = unique,
         Choice(results', unique)
  PROVE  UniqueInv'
<1>1. /\ unique \in Seq(Results) /\ Distinct(unique)
      /\ page.score # <<>> => unique # <<>>
      /\ Covers(Listed(unique), Results) /\ Apart(Listed(unique))
  BY DEF UniqueInv
<1>2. Results' = Results
  BY DEF Results
<1>3. Covers(Listed(unique), Results)' /\ Apart(Listed(unique))'
  BY <1>1, <1>2 DEF Covers, Apart, Same, Listed
<1>4. Choice(results, unique)'
  BY DEF Choice, Listed, Distinct
<1>5. Distinct(unique)'
  BY <1>1 DEF Distinct
<1> QED BY <1>1, <1>2, <1>3, <1>4, <1>5 DEF UniqueInv

LEMMA RemoveNearDuplicatesKeeps == SearchInv /\ RemoveNearDuplicates => SearchInv'
<1> SUFFICES ASSUME SearchInv, RemoveNearDuplicates PROVE SearchInv'
  OBVIOUS
<1>1. /\ page \in Pages /\ page' = page /\ phase = "unique" /\ phase' = "distinct"
      /\ unique' = unique /\ results = unique /\ matches' = matches /\ snippet' = snippet
  BY DEF SearchInv, BeginInv, StandsInv, RemoveNearDuplicates
<1>2. unique \in Seq(Results) /\ Distinct(unique) /\ UniqueInv
  BY <1>1 DEF SearchInv, UniqueInv
<1>3. Choice(results', unique) /\ Stands(Listed(results'), Listed(unique), Listed(unique))
  <2>1. CASE Len(results) > 1
    <3>1. PICK embedded \in BOOLEAN : results' = Representatives(unique, embedded)
      BY <1>1, <2>1 DEF RemoveNearDuplicates, Embedding, Embeds, EmbeddingRuns
    <3>2. PICK chosen : chosen = Representatives(unique, embedded)
      OBVIOUS
    <3>3. Choice(chosen, unique) /\ Stands(Listed(chosen), Listed(unique), Listed(unique))
      BY <1>1, <1>2, <3>2, RepresentativesFacts
    <3> QED BY <3>1, <3>2, <3>3
  <2>2. CASE ~(Len(results) > 1)
    <3>1. results' = unique
      BY <1>1, <2>2 DEF RemoveNearDuplicates
    <3>2. Choice(unique, unique) /\ Stands(Listed(unique), Listed(unique), Listed(unique))
      BY <1>1, <1>2, AllStand
    <3> QED BY <3>1, <3>2
  <2> QED BY <2>1, <2>2
<1>4. BeginInv'
  BY <1>1 DEF BeginInv
<1>5. UniqueInv'
  BY <1>1, <1>2, <1>3, UniqueStays
<1>6. StandsInv'
  BY <1>1, <1>3, SMTT(30) DEF StandsInv, Stands, Linked, Listed
<1>7. SnippetInv'
  BY <1>1 DEF SearchInv, SnippetInv
<1> QED BY <1>4, <1>5, <1>6, <1>7 DEF SearchInv

LEMMA SampleKeeps == SearchInv /\ Sample => SearchInv'
<1> SUFFICES ASSUME SearchInv, Sample PROVE SearchInv'
  OBVIOUS
<1>1. /\ page \in Pages /\ page' = page /\ phase = "distinct" /\ phase' = "sampled"
      /\ unique' = unique /\ matches' = matches /\ snippet' = snippet
      /\ Stands(Listed(results), Listed(unique), Listed(unique))
  BY DEF SearchInv, BeginInv, StandsInv, Sample
<1>2. unique \in Seq(Results) /\ Distinct(unique) /\ Choice(results, unique) /\ UniqueInv
  BY <1>1 DEF SearchInv, UniqueInv
<1>3. results \in Seq(Results) /\ Distinct(results) /\ Listed(results) \subseteq Listed(unique)
  BY <1>2, ChoiceSeq
<1>4. PICK embedded \in BOOLEAN : results' = SampleResults(results, embedded)
  BY DEF Sample, Embedding, Embeds, EmbeddingRuns
<1>5. PICK kept : kept = SampleResults(results, embedded)
  OBVIOUS
<1>6. PICK among : among = Listed(unique)
  OBVIOUS
<1>7. /\ Choice(kept, results)
      /\ \A i \in Listed(results) :
           \/ \E k \in Listed(kept) : Linked(among, i, k) /\ page.score[k] >= page.score[i]
           \/ Capped(Listed(kept), i)
  BY <1>1, <1>3, <1>5, <1>6, SampleFacts
<1>8. Choice(kept, unique) /\ Listed(kept) \subseteq among
  BY <1>2, <1>6, <1>7, ChoiceChain, ChoiceSeq
<1>9. \A i \in among : page.score[i] \in Nat
  <2>1. \A p \in DOMAIN unique : page.score[unique[p]] \in Nat
    BY <1>1, <1>2, ScoreType
  <2> QED BY <1>6, <2>1 DEF Listed
<1>10. ASSUME NEW i \in among
       PROVE  \/ \E k \in Listed(kept) : Linked(among, i, k) /\ page.score[k] >= page.score[i]
              \/ Capped(Listed(kept), i)
  <2>1. PICK j \in Listed(results) : Linked(among, i, j) /\ page.score[j] >= page.score[i]
    BY <1>1, <1>6 DEF Stands
  <2>2. j \in among
    BY <1>3, <1>6
  <2>3. ASSUME NEW k \in Listed(kept), page.score[k] >= page.score[j] PROVE page.score[k] >= page.score[i]
    <3>1. PICK a \in Nat, b \in Nat, c \in Nat : a = page.score[i] /\ b = page.score[j] /\ c = page.score[k]
      BY <1>8, <1>9, <2>2
    <3> QED BY <2>1, <2>3, <3>1
  <2>4. CASE \E k \in Listed(kept) : Linked(among, j, k) /\ page.score[k] >= page.score[j]
    <3>1. PICK k \in Listed(kept) : Linked(among, j, k) /\ page.score[k] >= page.score[j]
      BY <2>4
    <3>2. Linked(among, i, k)
      BY <2>1, <2>2, <3>1, LinksChain
    <3> QED BY <2>3, <3>1, <3>2
  <2>5. CASE Capped(Listed(kept), j)
    BY <2>3, <2>5 DEF Capped
  <2> QED BY <1>7, <2>4, <2>5
<1>11. results' = kept
  BY <1>4, <1>5
<1>12. BeginInv'
  BY <1>1 DEF BeginInv
<1>13. UniqueInv'
  BY <1>1, <1>2, <1>8, <1>11, UniqueStays
<1>14. StandsInv'
  <2>1. Listed(unique)' = among /\ Listed(results)' = Listed(kept) /\ phase' # "unique" /\ phase' # "distinct"
    BY <1>1, <1>6, <1>11 DEF Listed
  <2>2. ASSUME NEW i \in among
        PROVE  \/ \E k \in Listed(kept) : Linked(Listed(unique), i, k)' /\ (page.score[k] >= page.score[i])'
               \/ Capped(Listed(results), i)'
    <3>1. \A k : Linked(among, i, k) => Linked(Listed(unique), i, k)'
      BY <1>1, <2>1 DEF Linked
    <3>2. Capped(Listed(kept), i) => Capped(Listed(results), i)'
      BY <1>1, <2>1 DEF Capped
    <3> QED BY <1>1, <1>10, <3>1, <3>2
  <2> QED BY <2>1, <2>2 DEF StandsInv
<1>15. SnippetInv'
  BY <1>1 DEF SearchInv, SnippetInv
<1> QED BY <1>12, <1>13, <1>14, <1>15 DEF SearchInv

LEMMA EnrichKeeps == SearchInv /\ Enrich => SearchInv'
<1> SUFFICES ASSUME SearchInv, Enrich PROVE SearchInv'
  OBVIOUS
<1>1. /\ page \in Pages /\ page' = page /\ phase = "sampled" /\ phase' = "done"
      /\ unique' = unique /\ results' = results
  BY DEF SearchInv, BeginInv, Enrich
<1>2. BeginInv'
  BY <1>1 DEF BeginInv
<1>3. UniqueInv'
  <2>1. UniqueInv /\ Choice(results, unique)
    BY <1>1 DEF SearchInv, UniqueInv
  <2> QED BY <1>1, <2>1, UniqueStays
<1>4. StandsInv'
  BY <1>1 DEF StandsInv
<1>5. SnippetInv'
  <2>1. CASE UNCHANGED <<matches, snippet>>
    BY <1>1, <2>1 DEF SearchInv, SnippetInv
  <2>2. CASE \E textMatches \in TextMatches(page), context \in Contexts, fetched \in BOOLEAN :
               /\ matches' = <<textMatches, context, fetched>>
               /\ snippet' = Enriched(fetched, textMatches, context)
    BY <1>1, <2>2 DEF SnippetInv
  <2> QED BY <2>1, <2>2 DEF Enrich
<1> QED BY <1>2, <1>3, <1>4, <1>5 DEF SearchInv

LEMMA SearchIdles == SearchInv /\ UNCHANGED searchVars => SearchInv'
<1> SUFFICES ASSUME SearchInv, UNCHANGED searchVars PROVE SearchInv'
  OBVIOUS
<1> USE DEF searchVars
<1>1. BeginInv'
  BY DEF SearchInv, BeginInv
<1>2. UniqueInv'
  <2> SUFFICES ASSUME phase \notin {"idle", "fetched"} PROVE UniqueInv'
    BY DEF UniqueInv
  <2>1. UniqueInv /\ Choice(results, unique)
    BY DEF SearchInv, UniqueInv
  <2> QED BY <2>1, UniqueStays
<1>3. StandsInv'
  <2>1. Listed(unique)' = Listed(unique) /\ Listed(results)' = Listed(results)
    BY DEF Listed
  <2>2. \A i, k : Linked(Listed(unique), i, k)' <=> Linked(Listed(unique), i, k)
    BY <2>1 DEF Linked
  <2>3. \A i : Capped(Listed(results), i)' <=> Capped(Listed(results), i)
    BY <2>1 DEF Capped
  <2>4. Stands(Listed(results), Listed(unique), Listed(unique))'
          <=> Stands(Listed(results), Listed(unique), Listed(unique))
    BY <2>1, <2>2 DEF Stands
  <2> QED BY <2>1, <2>2, <2>3, <2>4 DEF SearchInv, StandsInv
<1>4. SnippetInv'
  BY DEF SearchInv, SnippetInv
<1> QED BY <1>1, <1>2, <1>3, <1>4 DEF SearchInv

\* Every step of the search keeps its invariant.
LEMMA SearchStepKeeps == SearchInv /\ [SearchNext]_searchVars => SearchInv'
BY DeduplicateKeeps, RemoveNearDuplicatesKeeps, SampleKeeps, EnrichKeeps, SearchIdles DEF SearchNext

\* Whatever GitHub returns, the invariant holds throughout a search.
THEOREM SearchInductive == SearchSpec => []SearchInv
<1>1. SearchInit("fetched", Pages) => SearchInv
  BY SearchStarts
<1> QED BY <1>1, SearchStepKeeps, PTL DEF SearchSpec
=============================================================================
