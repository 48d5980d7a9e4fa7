------------------------- MODULE SubsequencesProofs -------------------------
(***************************************************************************)
(* What InOrder, Arranged and Kept compute, for every list, and what loops *)
(* over numbers do.                                                        *)
(***************************************************************************)
EXTENDS Subsequences, FiniteSetTheorems, SequenceTheorems, TLAPS

\* No entry stands twice in a list.
Distinct(list) == \A p, q \in DOMAIN list : list[p] = list[q] => p = q

\* A set of numbers has a least one.
LEMMA LeastNumber ==
  ASSUME NEW T \in SUBSET Nat, T # {}
  PROVE  \E n \in T : \A m \in T : n <= m
<1> DEFINE F == {0..m : m \in T}
           R == StrictSubsetOrdering(Nat)
<1>1. F \subseteq FiniteSubsetsOf(Nat) /\ F # {}
  <2>1. \A m \in T : IsFiniteSet(0..m) /\ 0..m \in SUBSET Nat
    BY FS_Interval
  <2> QED BY <2>1 DEF FiniteSubsetsOf
<1>2. IsWellFoundedOn(R, FiniteSubsetsOf(Nat))
  BY FS_StrictSubsetOrderingWellFounded
<1>3. PICK I \in F : \A J \in F : <<J, I>> \notin R
  <2> HIDE DEF F, R
  <2> QED BY <1>1, <1>2, WFMin
<1>4. PICK n \in T : I = 0..n
  OBVIOUS
<1>5. ASSUME NEW m \in T, m < n PROVE FALSE
  <2>1. 0..m \subseteq I /\ n \in I /\ n \notin 0..m /\ 0..m \in F
    BY <1>4, <1>5
  <2>2. <<0..m, I>> \in R
    BY <2>1, <1>4 DEF StrictSubsetOrdering
  <2> QED BY <1>3, <2>1, <2>2
<1> QED BY <1>5

\* Induction up to n, for a set of numbers.
LEMMA UpTo ==
  ASSUME NEW n \in Nat, NEW good, 0 \in good, \A i \in 1..n : i - 1 \in good => i \in good
  PROVE  \A i \in 0..n : i \in good
<1>1. PICK bad : bad = {i \in 0..n : i \notin good}
  OBVIOUS
<1>2. SUFFICES ASSUME bad # {} PROVE FALSE
  BY <1>1
<1>3. bad \in SUBSET Nat
  BY <1>1
<1>4. PICK i \in bad : \A j \in bad : i <= j
  BY <1>2, <1>3, LeastNumber
<1>5. i \in 0..n /\ i # 0 /\ i \notin good
  BY <1>1
<1>6. i \in 1..n /\ i - 1 \in 0..n /\ ~(i <= i - 1)
  BY <1>5
<1>7. i - 1 \in good
  BY <1>1, <1>4, <1>6
<1> QED BY <1>5, <1>6, <1>7

\* The same where every smaller number may be used.
LEMMA AllUpTo ==
  ASSUME NEW n \in Nat, NEW good,
         \A i \in 1..n : (\A j \in 1..(i - 1) : j \in good) => i \in good
  PROVE  \A i \in 1..n : i \in good
<1>1. PICK bad : bad = {i \in 1..n : i \notin good}
  OBVIOUS
<1>2. SUFFICES ASSUME bad # {} PROVE FALSE
  BY <1>1
<1>3. bad \in SUBSET Nat
  BY <1>1
<1>4. PICK i \in bad : \A j \in bad : i <= j
  BY <1>2, <1>3, LeastNumber
<1>5. i \in 1..n /\ i \notin good
  BY <1>1
<1>6. ASSUME NEW j \in 1..(i - 1) PROVE j \in good
  <2>1. j \in 1..n /\ ~(i <= j)
    BY <1>5
  <2> QED BY <1>1, <1>4, <2>1
<1> QED BY <1>5, <1>6

\* What a loop over n items has computed after each of them.
Iterates(f, n, first, step) == f[0] = first /\ \A i \in 1..n : f[i] = step[i][f[i - 1]]

\* A loop over n items: after each of them there is the value its step makes of the one before.
LEMMA Loop ==
  ASSUME NEW n \in Nat, NEW S, NEW first \in S, NEW step \in [1..n -> [S -> S]]
  PROVE  \E f \in [0..n -> S] : Iterates(f, n, first, step)
<1>1. PICK good : good = {m \in 0..n : \E f \in [0..m -> S] : Iterates(f, m, first, step)}
  OBVIOUS
<1>2. 0 \in good
  <2>1. PICK f : f = [i \in 0..0 |-> first]
    OBVIOUS
  <2>2. f \in [0..0 -> S] /\ f[0] = first /\ 0 \in 0..n
    BY <2>1
  <2>3. \A i \in 1..0 : f[i] = step[i][f[i - 1]]
    OBVIOUS
  <2>4. Iterates(f, 0, first, step)
    BY <2>2, <2>3 DEF Iterates
  <2> QED BY <1>1, <2>1, <2>2, <2>4
<1>3. ASSUME NEW m \in 1..n, m - 1 \in good PROVE m \in good
  <2> PICK f \in [0..(m - 1) -> S] : Iterates(f, m - 1, first, step)
    BY <1>1, <1>3
  <2>1. f[0] = first /\ \A i \in 1..(m - 1) : f[i] = step[i][f[i - 1]]
    BY DEF Iterates
  <2>2. m - 1 \in 0..(m - 1) /\ f[m - 1] \in S /\ step[m] \in [S -> S]
    BY <2>1
  <2>3. PICK last \in S : last = step[m][f[m - 1]]
    BY <2>2
  <2>4. PICK g : g = [i \in 0..m |-> IF i = m THEN last ELSE f[i]]
    OBVIOUS
  <2>5. ASSUME NEW i \in 0..m, i # m PROVE i \in 0..(m - 1) /\ g[i] = f[i]
    BY <2>4, <2>5
  <2>6. g \in [0..m -> S]
    BY <2>1, <2>3, <2>4, <2>5
  <2>7. g[0] = first
    BY <2>1, <2>5
  <2>8. ASSUME NEW i \in 1..m PROVE g[i] = step[i][g[i - 1]]
    <3>1. i - 1 \in 0..m /\ i - 1 # m /\ i \in 0..m
      OBVIOUS
    <3>2. g[i - 1] = f[i - 1]
      BY <2>5, <3>1
    <3>3. CASE i = m
      BY <2>3, <2>4, <3>2, <3>3
    <3>4. CASE i # m
      <4>1. i \in 1..(m - 1) /\ g[i] = f[i]
        BY <2>5, <3>1, <3>4
      <4> QED BY <2>1, <3>2, <4>1
    <3> QED BY <3>3, <3>4
  <2>9. Iterates(g, m, first, step)
    BY <2>7, <2>8 DEF Iterates
  <2> QED BY <1>1, <2>6, <2>9
<1>4. n \in good
  <2>1. \A m \in 1..n : m - 1 \in good => m \in good
    BY <1>3
  <2>2. \A m \in 0..n : m \in good
    BY <1>2, <2>1, UpTo
  <2> QED BY <2>2
<1> QED BY <1>1, <1>4

\* Places are counted from 1 to their number, each with its own count.
LEMMA PlaceCounts ==
  ASSUME NEW places \in SUBSET Nat, IsFiniteSet(places), NEW i \in places
  PROVE  /\ Place(places, i) \in 1..Cardinality(places)
         /\ \A j \in places : i < j => Place(places, i) < Place(places, j)
<1>1. PICK upTo : upTo = {h \in places : h <= i}
  OBVIOUS
<1>2. upTo \in SUBSET places /\ i \in upTo
  BY <1>1
<1>3. IsFiniteSet(upTo) /\ Cardinality(upTo) \in Nat /\ Cardinality(upTo) <= Cardinality(places)
  BY <1>2, FS_Subset, FS_CardinalityType
<1>4. Cardinality(upTo) # 0
  BY <1>2, <1>3, FS_EmptySet
<1>5. Cardinality(places) \in Nat
  BY FS_CardinalityType
<1>6. ASSUME NEW j \in places, i < j PROVE Cardinality(upTo) < Place(places, j)
  <2>1. PICK further : further = {h \in places : h <= j}
    OBVIOUS
  <2>2. upTo \in SUBSET further /\ j \in further /\ j \notin upTo /\ further \in SUBSET places
    <3>1. i \in Nat /\ j \in Nat /\ \A h \in places : h \in Nat
      OBVIOUS
    <3>2. \A h \in places : h <= i => h <= j
      BY <1>6, <3>1
    <3>3. ~(j <= i) /\ j <= j
      BY <1>6, <3>1
    <3> QED BY <1>1, <2>1, <3>2, <3>3
  <2>3. IsFiniteSet(further) /\ Cardinality(further) \in Nat
    BY <2>2, FS_Subset, FS_CardinalityType
  <2>4. Cardinality(upTo) <= Cardinality(further)
    BY <2>2, <2>3, FS_Subset
  <2>5. Cardinality(upTo) # Cardinality(further)
    BY <2>2, <2>3, FS_Subset
  <2>6. Place(places, j) = Cardinality(further)
    BY <2>1 DEF Place
  <2> QED BY <1>3, <2>3, <2>4, <2>5, <2>6
<1>7. Place(places, i) = Cardinality(upTo)
  BY <1>1 DEF Place
<1> QED BY <1>3, <1>4, <1>5, <1>6, <1>7

\* InOrder lists every place once, from the least to the largest.
THEOREM InOrderLists ==
  ASSUME NEW places \in SUBSET Nat, IsFiniteSet(places)
  PROVE  /\ Cardinality(places) \in Nat
         /\ InOrder(places) \in [1..Cardinality(places) -> places]
         /\ InOrder(places) \in Seq(places)
         /\ Len(InOrder(places)) = Cardinality(places)
         /\ DOMAIN InOrder(places) = 1..Cardinality(places)
         /\ \A m, n \in 1..Cardinality(places) :
              m < n => InOrder(places)[m] < InOrder(places)[n]
         /\ \A i \in places : \E n \in 1..Cardinality(places) : InOrder(places)[n] = i
<1>1. PICK count \in Nat : count = Cardinality(places)
  BY FS_CardinalityType
<1> DEFINE place == [i \in places |-> Place(places, i)]
<1>2. place \in Injection(places, 1..count)
  <2>1. place \in [places -> 1..count]
    BY <1>1, PlaceCounts
  <2>2. ASSUME NEW i \in places, NEW j \in places, place[i] = place[j] PROVE i = j
    <3>1. i \in Nat /\ j \in Nat
      OBVIOUS
    <3>2. Place(places, i) \in Nat /\ Place(places, i) = Place(places, j)
      BY <2>1, <2>2
    <3>3. ~(i < j) /\ ~(j < i)
      BY <3>2, PlaceCounts
    <3> QED BY <3>1, <3>3
  <2> QED BY <2>1, <2>2 DEF Injection, IsInjective
<1>3. IsFiniteSet(1..count) /\ Cardinality(1..count) = count
  BY FS_Interval
<1>4. place \in Surjection(places, 1..count)
  BY <1>1, <1>2, <1>3, FS_Injection
<1>5. ASSUME NEW n \in 1..count PROVE \E i \in places : Place(places, i) = n
  BY <1>4 DEF Surjection
<1>6. PICK list : list = InOrder(places)
  OBVIOUS
<1>7. list = [n \in 1..count |-> CHOOSE i \in places : Place(places, i) = n]
  BY <1>1, <1>6 DEF InOrder
<1>8. ASSUME NEW n \in 1..count PROVE list[n] \in places /\ Place(places, list[n]) = n
  BY <1>5, <1>7
<1>9. list \in [1..count -> places]
  BY <1>7, <1>8
<1>10. list \in Seq(places) /\ Len(list) = count
  <2>1. list \in Seq(places)
    BY <1>9, SeqDef
  <2> QED BY <1>9, <2>1, LenProperties
<1>11. ASSUME NEW m \in 1..count, NEW n \in 1..count, m < n PROVE list[m] < list[n]
  <2>1. list[m] \in Nat /\ list[n] \in Nat
    BY <1>8
  <2>2. list[m] # list[n]
    BY <1>8, <1>11
  <2>3. ~(list[n] < list[m])
    <3> SUFFICES ASSUME list[n] < list[m] PROVE FALSE
      OBVIOUS
    <3>1. Place(places, list[n]) < Place(places, list[m])
      BY <1>8, PlaceCounts
    <3> QED BY <1>8, <1>11, <3>1
  <2> QED BY <2>1, <2>2, <2>3
<1>12. ASSUME NEW i \in places PROVE \E n \in 1..count : list[n] = i
  <2>1. PICK n \in 1..count : n = Place(places, i)
    BY <1>1, PlaceCounts
  <2>2. Place(places, list[n]) = Place(places, i) /\ list[n] \in places
    BY <1>8, <2>1
  <2>3. place[list[n]] = place[i]
    BY <2>2
  <2> HIDE DEF place
  <2> QED BY <1>2, <2>2, <2>3 DEF Injection, IsInjective
<1> QED BY <1>1, <1>6, <1>9, <1>10, <1>11, <1>12

\* The pairs put the elements of a set in an order.
Orders(before, elements) ==
  /\ \A x \in elements : <<x, x>> \notin before
  /\ \A x, y \in elements : x # y => <<x, y>> \in before \/ <<y, x>> \in before
  /\ \A x, y, z \in elements : <<x, y>> \in before /\ <<y, z>> \in before => <<x, z>> \in before

\* Arranged lists every element once, in that order.
THEOREM ArrangedLists ==
  ASSUME NEW elements, IsFiniteSet(elements), NEW before, Orders(before, elements)
  PROVE  /\ Cardinality(elements) \in Nat
         /\ Arranged(elements, before) \in [1..Cardinality(elements) -> elements]
         /\ \A m, n \in 1..Cardinality(elements) :
              m < n => <<Arranged(elements, before)[m], Arranged(elements, before)[n]>> \in before
         /\ \A x \in elements : \E n \in 1..Cardinality(elements) : Arranged(elements, before)[n] = x
<1>1. PICK count \in Nat : count = Cardinality(elements)
  BY FS_CardinalityType
<1>2. PICK earlier : earlier = [x \in elements |-> {y \in elements : <<y, x>> \in before}]
  OBVIOUS
<1>3. PICK place : place = [x \in elements |-> Cardinality(earlier[x]) + 1]
  OBVIOUS
<1>4. ASSUME NEW x \in elements
      PROVE  /\ earlier[x] \in SUBSET elements /\ x \notin earlier[x]
             /\ IsFiniteSet(earlier[x]) /\ Cardinality(earlier[x]) \in Nat
             /\ Cardinality(earlier[x]) < count
  <2>1. earlier[x] \in SUBSET elements /\ x \notin earlier[x] /\ earlier[x] # elements
    BY <1>2 DEF Orders
  <2>2. IsFiniteSet(earlier[x]) /\ Cardinality(earlier[x]) \in Nat
    BY <2>1, FS_Subset, FS_CardinalityType
  <2>3. Cardinality(earlier[x]) <= count /\ Cardinality(earlier[x]) # count
    BY <1>1, <2>1, FS_Subset
  <2> QED BY <2>1, <2>2, <2>3
<1>5. place \in [elements -> 1..count]
  BY <1>3, <1>4
<1>6. ASSUME NEW x \in elements, NEW y \in elements, <<x, y>> \in before PROVE place[x] < place[y]
  <2>1. earlier[x] \subseteq earlier[y]
    BY <1>2, <1>6 DEF Orders
  <2>2. x \in earlier[y] /\ x \notin earlier[x]
    BY <1>2, <1>4, <1>6
  <2>3. Cardinality(earlier[x]) <= Cardinality(earlier[y]) /\ Cardinality(earlier[x]) # Cardinality(earlier[y])
    BY <1>4, <2>1, <2>2, FS_Subset
  <2> QED BY <1>3, <1>4, <2>3
<1>7. ASSUME NEW x \in elements, NEW y \in elements, place[x] = place[y] PROVE x = y
  <2>1. place[x] \in Nat /\ place[y] \in Nat
    BY <1>5
  <2>2. <<x, y>> \notin before /\ <<y, x>> \notin before
    BY <1>6, <1>7, <2>1
  <2> QED BY <2>2 DEF Orders
<1>8. IsFiniteSet(1..count) /\ Cardinality(1..count) = count
  BY FS_Interval
<1>9. place \in Injection(elements, 1..count)
  BY <1>5, <1>7 DEF Injection, IsInjective
<1>10. place \in Surjection(elements, 1..count)
  BY <1>1, <1>8, <1>9, FS_Injection
<1>11. PICK list : list = Arranged(elements, before)
  OBVIOUS
<1>12. ASSUME NEW n \in 1..count PROVE list[n] \in elements /\ place[list[n]] = n
  <2>1. PICK x \in elements : place[x] = n
    BY <1>10 DEF Surjection
  <2>2. Cardinality({y \in elements : <<y, x>> \in before}) = n - 1
    <3>1. Cardinality(earlier[x]) + 1 = n /\ Cardinality(earlier[x]) \in Nat
      BY <1>3, <1>4, <2>1
    <3>2. Cardinality(earlier[x]) = n - 1
      BY <3>1
    <3> QED BY <1>2, <3>2
  <2>3. list[n] = CHOOSE z \in elements : Cardinality({y \in elements : <<y, z>> \in before}) = n - 1
    BY <1>1, <1>11 DEF Arranged
  <2>4. list[n] \in elements /\ Cardinality({y \in elements : <<y, list[n]>> \in before}) = n - 1
    BY <2>2, <2>3
  <2>5. Cardinality(earlier[list[n]]) = n - 1
    BY <1>2, <2>4
  <2> QED BY <1>3, <2>4, <2>5
<1>13. list \in [1..count -> elements]
  BY <1>1, <1>11, <1>12 DEF Arranged
<1>14. ASSUME NEW m \in 1..count, NEW n \in 1..count, m < n PROVE <<list[m], list[n]>> \in before
  <2>1. list[m] \in elements /\ list[n] \in elements /\ place[list[m]] = m /\ place[list[n]] = n
    BY <1>12
  <2>2. list[m] # list[n] /\ ~(n < m)
    BY <1>14, <2>1
  <2>3. <<list[n], list[m]>> \notin before
    BY <1>6, <2>1, <2>2
  <2> QED BY <2>1, <2>2, <2>3 DEF Orders
<1>15. ASSUME NEW x \in elements PROVE \E n \in 1..count : list[n] = x
  <2>1. PICK n \in 1..count : n = place[x]
    BY <1>5
  <2>2. list[n] \in elements /\ place[list[n]] = place[x]
    BY <1>12, <2>1
  <2> QED BY <1>7, <2>1, <2>2
<1> QED BY <1>1, <1>11, <1>13, <1>14, <1>15

\* Kept holds the entries at the places, and no others, in the order of the list.
THEOREM KeptEntries ==
  ASSUME NEW S, NEW list \in Seq(S), NEW places \in SUBSET DOMAIN list
  PROVE  /\ Kept(list, places) \in Seq(S)
         /\ DOMAIN Kept(list, places) = DOMAIN InOrder(places)
         /\ DOMAIN Kept(list, places) = 1..Len(Kept(list, places))
         /\ \A n \in DOMAIN Kept(list, places) :
              InOrder(places)[n] \in places /\ Kept(list, places)[n] = list[InOrder(places)[n]]
         /\ \A i \in places : \E n \in DOMAIN Kept(list, places) : Kept(list, places)[n] = list[i]
         /\ Distinct(list) => Distinct(Kept(list, places))
<1>1. PICK len \in Nat : len = Len(list) /\ DOMAIN list = 1..len
  BY LenProperties
<1>2. \A i \in 1..len : list[i] \in S
  BY <1>1, ElementOfSeq
<1>3. IsFiniteSet(1..len)
  BY FS_Interval
<1>4. places \in SUBSET Nat /\ IsFiniteSet(places)
  BY <1>1, <1>3, FS_Subset
<1>5. PICK count \in Nat : count = Cardinality(places)
  BY <1>4, FS_CardinalityType
<1>6. PICK order \in [1..count -> places] :
        /\ order = InOrder(places)
        /\ \A m, n \in 1..count : m < n => order[m] < order[n]
        /\ \A i \in places : \E n \in 1..count : order[n] = i
  BY <1>4, <1>5, InOrderLists
<1>7. PICK kept : kept = Kept(list, places)
  OBVIOUS
<1>8. kept = [n \in 1..count |-> list[order[n]]]
  BY <1>6, <1>7 DEF Kept
<1>9. \A n \in 1..count : order[n] \in places /\ order[n] \in 1..len
  BY <1>1, <1>6
<1>10. kept \in [1..count -> S]
  BY <1>2, <1>8, <1>9
<1>11. kept \in Seq(S)
  BY <1>10, SeqDef
<1>12. DOMAIN kept = 1..Len(kept)
  BY <1>11, LenProperties
<1>13. ASSUME Distinct(list) PROVE Distinct(kept)
  <2> SUFFICES ASSUME NEW m \in 1..count, NEW n \in 1..count, kept[m] = kept[n]
               PROVE  m = n
    BY <1>8 DEF Distinct
  <2>1. list[order[m]] = list[order[n]]
    BY <1>8
  <2>2. order[m] = order[n]
    BY <1>1, <1>9, <1>13, <2>1 DEF Distinct
  <2>3. order[m] \in Nat /\ order[n] \in Nat
    BY <1>4, <1>9
  <2> QED BY <1>6, <2>2, <2>3
<1> QED BY <1>6, <1>7, <1>8, <1>9, <1>11, <1>12, <1>13
=============================================================================
