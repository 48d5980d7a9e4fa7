-------------------------- MODULE LogicTreeProofs --------------------------
(***************************************************************************)
(* A logic tree stays a tree: what WithMappings, Split and Merge of        *)
(* LogicTree make of one, whatever the LLM answers.  And what Split and    *)
(* Merge leave in it, where their targets are leaves.                      *)
(***************************************************************************)
EXTENDS LogicTree, SubsequencesProofs

(***************************************************************************)
(* Lists and places.                                                       *)
(***************************************************************************)

LEMMA ListFacts ==
  ASSUME NEW list, IsList(list)
  PROVE  /\ Len(list) \in Nat
         /\ DOMAIN list = 1..Len(list)
         /\ list = [i \in 1..Len(list) |-> list[i]]
<1>1. PICK T : T = Lists!ToSet(list)
  OBVIOUS
<1>2. list \in Seq(T)
  BY <1>1 DEF IsList
<1> QED BY <1>2, LenProperties

LEMMA SequencesAreLists ==
  ASSUME NEW T, NEW list \in Seq(T)
  PROVE  IsList(list)
<1>1. PICK len \in Nat : len = Len(list) /\ list \in [1..len -> T]
  BY LenProperties
<1>2. list \in [1..len -> Lists!ToSet(list)]
  BY <1>1 DEF Lists!ToSet
<1> QED BY <1>2, SeqDef DEF IsList

LEMMA EmptyIsList == IsList(<<>>)
BY EmptySeq, SequencesAreLists

\* Functions on 1..n are lists.
LEMMA FunctionsAreLists ==
  ASSUME NEW n \in Nat, NEW T, NEW list \in [1..n -> T]
  PROVE  list \in Seq(T) /\ IsList(list) /\ Len(list) = n
<1>1. list \in Seq(T)
  BY SeqDef
<1> QED BY <1>1, SequencesAreLists, LenProperties

\* Min and Max find what they look for.
LEMMA LeastAndGreatest ==
  ASSUME NEW places \in SUBSET Nat, IsFiniteSet(places), places # {}
  PROVE  /\ Sets!Min(places) \in places /\ \A i \in places : Sets!Min(places) <= i
         /\ Sets!Max(places) \in places /\ \A i \in places : i <= Sets!Max(places)
<1>1. PICK count \in Nat : count = Cardinality(places) /\ count # 0
  BY FS_CardinalityType, FS_EmptySet
<1>2. PICK order \in [1..count -> places] :
        /\ \A m, n \in 1..count : m < n => order[m] < order[n]
        /\ \A i \in places : \E n \in 1..count : order[n] = i
  BY <1>1, InOrderLists
<1>3. 1 \in 1..count /\ count \in 1..count
  BY <1>1
<1>4. ASSUME NEW i \in places PROVE order[1] <= i /\ i <= order[count]
  <2>1. PICK n \in 1..count : order[n] = i
    BY <1>2
  <2>2. (1 = n \/ 1 < n) /\ (n = count \/ n < count)
    BY <1>1
  <2>3. (1 < n => order[1] < order[n]) /\ (n < count => order[n] < order[count])
    BY <1>2, <1>3
  <2>4. order[1] \in Nat /\ order[n] \in Nat /\ order[count] \in Nat
    BY <1>3
  <2> QED BY <2>1, <2>2, <2>3, <2>4
<1>5. \E x \in places : \A i \in places : x <= i
  BY <1>3, <1>4
<1>6. \E x \in places : \A i \in places : x >= i
  <2>1. \A i \in places : order[count] >= i
    <3> SUFFICES ASSUME NEW i \in places PROVE order[count] >= i
      OBVIOUS
    <3>1. order[count] \in Nat /\ i \in Nat
      BY <1>3
    <3> QED BY <1>4, <3>1
  <2> QED BY <1>3, <2>1
<1>7. Sets!Min(places) \in places /\ \A i \in places : Sets!Min(places) <= i
  BY <1>5 DEF Sets!Min
<1>8. Sets!Max(places) \in places /\ \A i \in places : Sets!Max(places) >= i
  BY <1>6 DEF Sets!Max
<1>9. ASSUME NEW i \in places PROVE i <= Sets!Max(places)
  <2>1. i \in Nat /\ Sets!Max(places) \in Nat
    BY <1>8
  <2> QED BY <1>8, <2>1
<1> QED BY <1>7, <1>8, <1>9

(***************************************************************************)
(* The shape of a tree.                                                    *)
(***************************************************************************)

LEMMA TreeFacts ==
  ASSUME NEW t, IsTree(t)
  PROVE  /\ Len(t) \in Nat /\ DOMAIN t = 1..Len(t) /\ t = [i \in 1..Len(t) |-> t[i]]
         /\ \A i \in 1..Len(t) : IsList(t[i].covered) /\ t[i].depth \in Nat
         /\ 1 \in 1..Len(t) => t[1].depth = 0
         /\ \A i \in 1..Len(t) : i # 1 =>
              i - 1 \in 1..Len(t) /\ t[i].depth >= 1 /\ t[i].depth <= t[i - 1].depth + 1
<1>1. Len(t) \in Nat /\ DOMAIN t = 1..Len(t) /\ t = [i \in 1..Len(t) |-> t[i]]
  BY ListFacts DEF IsTree
<1>2. \A i \in 1..Len(t) : IsList(t[i].covered)
  BY <1>1 DEF IsTree
<1>3. 1 \in 1..Len(t) => t[1].depth = 0
  <2>1. 1 \in 1..Len(t) => t # <<>>
    BY <1>1
  <2> QED BY <2>1 DEF IsTree
<1>4. ASSUME NEW i \in 1..Len(t), i # 1
      PROVE  i - 1 \in 1..Len(t) /\ t[i].depth \in 1..(t[i - 1].depth + 1)
  <2>1. i \in 2..Len(t) /\ i - 1 \in 1..Len(t)
    BY <1>1, <1>4
  <2> QED BY <2>1 DEF IsTree
<1>5. \A i \in 1..Len(t) : t[i].depth \in Nat
  <2> SUFFICES ASSUME NEW i \in 1..Len(t) PROVE t[i].depth \in Nat
    OBVIOUS
  <2>1. CASE i = 1
    BY <1>3, <2>1
  <2>2. CASE i # 1
    BY <1>4, <2>2
  <2> QED BY <2>1, <2>2
<1>6. ASSUME NEW i \in 1..Len(t), i # 1
      PROVE  t[i].depth >= 1 /\ t[i].depth <= t[i - 1].depth + 1
  BY <1>4, <1>5, <1>6
<1> QED BY <1>1, <1>2, <1>3, <1>4, <1>5, <1>6

LEMMA EmptyIsTree == IsTree(<<>>)
<1>1. IsList(<<>>) /\ Len(<<>>) = 0 /\ DOMAIN <<>> = {}
  BY EmptyIsList, ListFacts
<1> QED BY <1>1 DEF IsTree

\* The subtree of i: the nodes behind it that lie deeper, up to the first that does not.
LEMMA LastOfFacts ==
  ASSUME NEW t, IsTree(t), NEW i \in 1..Len(t)
  PROVE  /\ LastOf(t, i) \in i..Len(t)
         /\ LastOf(t, i) + 1 \in 1..Len(t) => t[LastOf(t, i) + 1].depth <= t[i].depth
<1>1. PICK len \in Nat : len = Len(t)
  BY TreeFacts
<1>2. PICK out : out = {j \in (i + 1)..len : t[j].depth <= t[i].depth}
  OBVIOUS
<1>3. LastOf(t, i) = IF out = {} THEN len ELSE Sets!Min(out) - 1
  BY <1>1, <1>2 DEF LastOf
<1>4. CASE out = {}
  BY <1>1, <1>3, <1>4
<1>5. CASE out # {}
  <2>1. out \in SUBSET (1..len) /\ out \in SUBSET Nat /\ IsFiniteSet(1..len)
    <3>1. IsFiniteSet(1..len)
      BY FS_Interval
    <3>2. \A j \in (i + 1)..len : j \in 1..len
      BY <1>1
    <3> QED BY <1>2, <3>1, <3>2
  <2>2. PICK least \in out : least = Sets!Min(out)
    BY <1>5, <2>1, FS_Subset, LeastAndGreatest
  <2>3. LastOf(t, i) = least - 1 /\ least \in (i + 1)..len /\ t[least].depth <= t[i].depth
    BY <1>2, <1>3, <1>5, <2>2
  <2>4. least - 1 \in i..len /\ (least - 1) + 1 = least
    BY <1>1, <2>3
  <2> QED BY <1>1, <2>3, <2>4
<1> QED BY <1>4, <1>5

\* A child lies one deeper than its parent.
LEMMA ChildDepth ==
  ASSUME NEW t, IsTree(t), NEW i \in 1..Len(t), Parent(t, i) # 0
  PROVE  i # 1 /\ Parent(t, i) \in 1..(i - 1) /\ t[i].depth = t[Parent(t, i)].depth + 1
<1>1. PICK len \in Nat : len = Len(t) /\ \A j \in 1..len : t[j].depth \in Nat
  BY TreeFacts
<1>2. PICK above : above = {j \in 1..(i - 1) : t[j].depth < t[i].depth}
  OBVIOUS
<1>3. above # {} /\ Parent(t, i) = Sets!Max(above)
  BY <1>2 DEF Parent
<1>4. above \in SUBSET (1..len) /\ above \in SUBSET Nat /\ IsFiniteSet(1..len)
  <2>1. IsFiniteSet(1..len)
    BY FS_Interval
  <2>2. \A j \in 1..(i - 1) : j \in 1..len
    BY <1>1
  <2> QED BY <1>2, <2>1, <2>2
<1>5. PICK p \in above : p = Parent(t, i) /\ \A j \in above : j <= p
  BY <1>3, <1>4, FS_Subset, LeastAndGreatest
<1>6. p \in 1..(i - 1) /\ p \in 1..len /\ t[p].depth < t[i].depth /\ p + 1 \in 1..len /\ p + 1 # 1 /\ i # 1
  BY <1>1, <1>2, <1>5
<1>7. t[p + 1].depth <= t[p].depth + 1
  <2>1. (p + 1) - 1 = p
    BY <1>6
  <2> QED BY <1>1, <1>6, <2>1, TreeFacts
<1>8. t[i].depth <= t[p + 1].depth
  <2>1. CASE p + 1 = i
    BY <1>1, <2>1
  <2>2. CASE p + 1 # i
    <3>1. p + 1 \in 1..(i - 1) /\ ~(p + 1 <= p)
      BY <1>1, <1>6, <2>2
    <3>2. ~(t[p + 1].depth < t[i].depth)
      BY <1>2, <1>5, <3>1
    <3> QED BY <1>1, <1>6, <3>2
  <2> QED BY <2>1, <2>2
<1>9. t[i].depth \in Nat /\ t[p].depth \in Nat /\ t[p + 1].depth \in Nat
  BY <1>1, <1>6
<1> QED BY <1>5, <1>6, <1>7, <1>8, <1>9

LEMMA FindFacts ==
  ASSUME NEW t, IsTree(t), NEW name, Find(t, name) # 0
  PROVE  Find(t, name) \in 1..Len(t) /\ t[Find(t, name)].name = name
<1>1. PICK len \in Nat : len = Len(t) /\ DOMAIN t = 1..len
  BY TreeFacts
<1>2. PICK found : found = {i \in 1..len : t[i].name = name}
  OBVIOUS
<1>3. found # {} /\ Find(t, name) = Sets!Min(found)
  BY <1>1, <1>2 DEF Find
<1>4. found \in SUBSET (1..len) /\ found \in SUBSET Nat /\ IsFiniteSet(1..len)
  BY <1>2, FS_Interval
<1>5. Find(t, name) \in found
  BY <1>3, <1>4, FS_Subset, LeastAndGreatest
<1> QED BY <1>1, <1>2, <1>5

(***************************************************************************)
(* Mapping codes to the predicates.                                        *)
(***************************************************************************)

LEMMA MappedIsTree ==
  ASSUME NEW t, IsTree(t), NEW mappings, \A name \in DOMAIN mappings : IsList(mappings[name])
  PROVE  IsTree(WithMappings(t, mappings))
<1>1. PICK len \in Nat : len = Len(t) /\ DOMAIN t = 1..len
  BY TreeFacts
<1>2. PICK r : r = WithMappings(t, mappings)
  OBVIOUS
<1>3. r = [i \in 1..len |->
             IF t[i].name = NoName THEN t[i]
             ELSE Node(t[i].depth, t[i].name,
                       IF t[i].name \in DOMAIN mappings THEN mappings[t[i].name] ELSE <<>>)]
  BY <1>1, <1>2 DEF WithMappings
<1>4. ASSUME NEW i \in 1..len PROVE r[i].depth = t[i].depth /\ IsList(r[i].covered)
  <2>1. CASE t[i].name = NoName
    BY <1>1, <1>3, <2>1, TreeFacts
  <2>2. CASE t[i].name # NoName
    BY <1>3, <2>2, EmptyIsList DEF Node
  <2> QED BY <2>1, <2>2
<1>5. r \in [1..len -> {r[i] : i \in 1..len}] /\ DOMAIN r = 1..len
  BY <1>3
<1>6. IsList(r) /\ Len(r) = len
  BY <1>5, FunctionsAreLists
<1>7. r # <<>> => 1 \in 1..len
  <2>1. r \in Seq(Lists!ToSet(r))
    BY <1>6 DEF IsList
  <2>2. r # <<>> => len \in Nat \ {0}
    BY <1>6, <2>1, EmptySeq
  <2> QED BY <2>2
<1>8. r # <<>> => r[1].depth = 0
  BY <1>1, <1>4, <1>7, TreeFacts
<1>9. ASSUME NEW i \in 2..len PROVE r[i].depth \in 1..(r[i - 1].depth + 1)
  <2>1. i \in 1..len /\ i # 1 /\ i - 1 \in 1..len
    OBVIOUS
  <2>2. t[i].depth \in Nat /\ t[i - 1].depth \in Nat /\ t[i].depth >= 1 /\ t[i].depth <= t[i - 1].depth + 1
    BY <1>1, <2>1, TreeFacts
  <2>3. t[i].depth \in 1..(t[i - 1].depth + 1)
    BY <2>2
  <2> QED BY <1>4, <2>1, <2>3
<1> QED BY <1>2, <1>4, <1>5, <1>6, <1>8, <1>9 DEF IsTree

(***************************************************************************)
(* Splitting: the target's subtree gives way to a list of nodes.           *)
(***************************************************************************)

\* r is t with m nodes in the place of those from i to last.
Spliced(t, i, last, nodes, m, r) ==
  /\ IsList(r) /\ Len(r) = (i - 1) + m + (Len(t) - last)
  /\ \A k \in 1..((i - 1) + m + (Len(t) - last)) :
       r[k] = IF k < i THEN t[k] ELSE IF k < i + m THEN nodes[k - (i - 1)]
              ELSE t[k - (i - 1) - m + last]

LEMMA ReplaceFacts ==
  ASSUME NEW t, IsTree(t), NEW i \in 1..Len(t),
         NEW last, last = LastOf(t, i),
         NEW nodes, IsList(nodes), NEW m \in Nat, m = Len(nodes),
         NEW r, r = Replace(t, i, nodes)
  PROVE  Spliced(t, i, last, nodes, m, r)
<1>1. PICK len \in Nat : len = Len(t) /\ DOMAIN t = 1..len
  BY TreeFacts
<1>2. i \in 1..len /\ last \in i..len
  BY <1>1, LastOfFacts
<1>3. PICK T : T = Lists!ToSet(t) \cup Lists!ToSet(nodes)
  OBVIOUS
<1>4. DOMAIN nodes = 1..m /\ nodes \in Seq(T)
  <2>1. nodes \in Seq(Lists!ToSet(nodes))
    BY DEF IsList
  <2> QED BY <1>3, <2>1, SeqMonotonic, LenProperties
<1>5. \A k \in 1..len : t[k] \in T
  BY <1>1, <1>3 DEF Lists!ToSet
<1>6. PICK front : front = SubSeq(t, 1, i - 1)
  OBVIOUS
<1>7. PICK back : back = SubSeq(t, last + 1, len)
  OBVIOUS
<1>8. front \in Seq(T) /\ Len(front) = i - 1 /\ \A k \in 1..(i - 1) : front[k] = t[k]
  <2>1. i - 1 \in Int /\ 1 \in Int /\ \A k \in 1..(i - 1) : t[k] \in T
    BY <1>1, <1>2, <1>5
  <2>2. /\ SubSeq(t, 1, i - 1) \in Seq(T)
        /\ Len(SubSeq(t, 1, i - 1)) = IF 1 <= i - 1 THEN (i - 1) - 1 + 1 ELSE 0
        /\ \A k \in 1..((i - 1) - 1 + 1) : SubSeq(t, 1, i - 1)[k] = t[1 + k - 1]
    BY <2>1, SubSeqProperties
  <2>3. /\ front \in Seq(T)
        /\ Len(front) = IF 1 <= i - 1 THEN (i - 1) - 1 + 1 ELSE 0
        /\ \A k \in 1..((i - 1) - 1 + 1) : front[k] = t[1 + k - 1]
    BY <1>6, <2>2
  <2>4. (i - 1) - 1 + 1 = i - 1 /\ \A k \in 1..(i - 1) : 1 + k - 1 = k
    BY <1>2
  <2> QED BY <1>2, <2>3, <2>4
<1>9. back \in Seq(T) /\ Len(back) = len - last /\ \A k \in 1..(len - last) : back[k] = t[last + k]
  <2>1. last + 1 \in Int /\ len \in Int /\ \A k \in (last + 1)..len : t[k] \in T
    BY <1>1, <1>2, <1>5
  <2>2. /\ SubSeq(t, last + 1, len) \in Seq(T)
        /\ Len(SubSeq(t, last + 1, len)) = IF last + 1 <= len THEN len - (last + 1) + 1 ELSE 0
        /\ \A k \in 1..(len - (last + 1) + 1) : SubSeq(t, last + 1, len)[k] = t[(last + 1) + k - 1]
    BY <2>1, SubSeqProperties
  <2>3. /\ back \in Seq(T)
        /\ Len(back) = IF last + 1 <= len THEN len - (last + 1) + 1 ELSE 0
        /\ \A k \in 1..(len - (last + 1) + 1) : back[k] = t[(last + 1) + k - 1]
    BY <1>7, <2>2
  <2>4. len - (last + 1) + 1 = len - last /\ \A k \in 1..(len - last) : (last + 1) + k - 1 = last + k
    BY <1>1, <1>2
  <2> QED BY <1>1, <1>2, <2>3, <2>4
<1>10. PICK both : both = front \o nodes
  OBVIOUS
<1>11. /\ both \in Seq(T) /\ Len(both) = (i - 1) + m
       /\ \A k \in 1..((i - 1) + m) :
            both[k] = IF k <= i - 1 THEN front[k] ELSE nodes[k - (i - 1)]
  BY <1>4, <1>8, <1>10, ConcatProperties
<1>13. r = both \o back
  BY <1>1, <1>6, <1>7, <1>10 DEF Replace
<1>14. /\ r \in Seq(T) /\ Len(r) = ((i - 1) + m) + (len - last)
       /\ \A k \in 1..(((i - 1) + m) + (len - last)) :
            r[k] = IF k <= (i - 1) + m THEN both[k] ELSE back[k - ((i - 1) + m)]
  <2>1. /\ both \o back \in Seq(T)
        /\ Len(both \o back) = Len(both) + Len(back)
        /\ \A k \in 1..(Len(both) + Len(back)) :
             (both \o back)[k] = IF k <= Len(both) THEN both[k] ELSE back[k - Len(both)]
    BY <1>9, <1>11, ConcatProperties
  <2> QED BY <1>9, <1>11, <1>13, <2>1
<1>15. ASSUME NEW k \in 1..((i - 1) + m + (len - last))
       PROVE  r[k] = IF k < i THEN t[k] ELSE IF k < i + m THEN nodes[k - (i - 1)]
                     ELSE t[k - (i - 1) - m + last]
  <2>1. CASE k < i
    <3>1. k \in 1..(i - 1) /\ k <= (i - 1) + m /\ k \in 1..((i - 1) + m)
      BY <1>2, <2>1
    <3>2. r[k] = both[k]
      BY <1>14, <3>1
    <3>3. both[k] = front[k]
      BY <1>11, <3>1
    <3>4. front[k] = t[k]
      BY <1>8, <3>1
    <3> QED BY <2>1, <3>2, <3>3, <3>4
  <2>2. CASE ~(k < i) /\ k < i + m
    <3>1. ~(k <= i - 1) /\ k <= (i - 1) + m /\ k \in 1..((i - 1) + m)
      BY <1>2, <2>2
    <3> QED BY <1>11, <1>14, <2>2, <3>1
  <2>3. CASE ~(k < i) /\ ~(k < i + m)
    <3>1. ~(k <= (i - 1) + m) /\ k - ((i - 1) + m) \in 1..(len - last)
          /\ last + (k - ((i - 1) + m)) = k - (i - 1) - m + last
      BY <1>1, <1>2, <2>3
    <3> QED BY <1>9, <1>14, <2>3, <3>1
  <2> QED BY <2>1, <2>2, <2>3
<1> QED BY <1>1, <1>14, <1>15, SequencesAreLists DEF Spliced

\* A split leaves an operator node with the c valid children, and what is around.
Expanded(t, i, last, entries, c, r) ==
  /\ IsList(r) /\ Len(r) = (i - 1) + (c + 1) + (Len(t) - last)
  /\ \A k \in 1..((i - 1) + (c + 1) + (Len(t) - last)) :
       \/ k < i /\ r[k] = t[k] /\ k \in 1..Len(t)
       \/ k = i /\ r[k] = Node(t[i].depth, NoName, <<>>)
       \/ /\ k > i /\ k < i + (c + 1) /\ k - i \in 1..c
          /\ r[k] = Node(t[i].depth + 1, entries[k - i].name,
                         IF entries[k - i].inherits THEN t[i].covered ELSE entries[k - i].covered)
       \/ /\ ~(k < i + (c + 1))
          /\ k - i - c + last \in (last + 1)..Len(t)
          /\ r[k] = t[k - i - c + last]

\* The c valid children are some of the children that are given.
EntriesOf(op, entries, c) ==
  /\ entries = ValidEntries(op) /\ DOMAIN entries = 1..c /\ c = Len(entries)
  /\ \A k \in 1..c : \E m \in DOMAIN op.into : entries[k] = op.into[m]

\* Children without a name are left out (_apply_split_operation).
LEMMA ValidEntriesFacts ==
  ASSUME NEW op, IsList(op.into)
  PROVE  \E c \in Nat : EntriesOf(op, ValidEntries(op), c)
<1>1. PICK E : E = Lists!ToSet(op.into)
  OBVIOUS
<1>2. op.into \in Seq(E)
  BY <1>1 DEF IsList
<1>3. PICK places \in SUBSET DOMAIN op.into : ValidEntries(op) = Kept(op.into, places)
  BY DEF ValidEntries
<1>4. PICK entries \in Seq(E) : entries = ValidEntries(op)
  BY <1>2, <1>3, KeptEntries
<1>5. Len(entries) \in Nat /\ DOMAIN entries = 1..Len(entries) /\ \A k \in 1..Len(entries) : entries[k] \in E
  BY <1>4, LenProperties, ElementOfSeq
<1>6. \A k \in 1..Len(entries) : \E m \in DOMAIN op.into : entries[k] = op.into[m]
  BY <1>1, <1>5 DEF Lists!ToSet
<1> QED BY <1>4, <1>5, <1>6 DEF EntriesOf

\* Entry by entry, what Split makes of the tree.
LEMMA SplitExpands ==
  ASSUME NEW t, IsTree(t), NEW op, Find(t, op.target) # 0, IsList(op.into),
         NEW i \in 1..Len(t), i = Find(t, op.target), NEW last, last = LastOf(t, i),
         NEW entries, NEW c \in Nat, EntriesOf(op, entries, c)
  PROVE  Expanded(t, i, last, entries, c, Split(t, op))
<1>1. PICK len \in Nat : len = Len(t) /\ i \in 1..len /\ last \in i..len
  BY TreeFacts, LastOfFacts
<1>2. PICK depth \in Nat : depth = t[i].depth
  BY TreeFacts
<1>3. PICK children :
        children = [k \in 1..c |->
                      Node(depth + 1, entries[k].name,
                           IF entries[k].inherits THEN t[i].covered ELSE entries[k].covered)]
  OBVIOUS
<1>4. PICK nodes : nodes = <<Node(depth, NoName, <<>>)>> \o children
  OBVIOUS
<1>5. PICK r : r = Replace(t, i, nodes)
  OBVIOUS
<1>6. Split(t, op) = r
  BY <1>2, <1>3, <1>4, <1>5 DEF Split, EntriesOf
<1>7. /\ IsList(nodes) /\ Len(nodes) = c + 1
      /\ nodes[1] = Node(depth, NoName, <<>>)
      /\ \A k \in 2..(c + 1) : k - 1 \in 1..c /\ nodes[k] = children[k - 1]
  <2>1. PICK operator : operator = <<Node(depth, NoName, <<>>)>>
    OBVIOUS
  <2>2. PICK T : T = {operator[1]} \cup {children[k] : k \in 1..c}
    OBVIOUS
  <2>3. operator \in Seq(T) /\ Len(operator) = 1
    BY <2>1, <2>2
  <2>4. children \in Seq(T) /\ Len(children) = c
    <3>1. children \in [1..c -> T]
      BY <1>3, <2>2
    <3> QED BY <3>1, FunctionsAreLists
  <2>5. /\ operator \o children \in Seq(T)
        /\ Len(operator \o children) = Len(operator) + Len(children)
        /\ \A k \in 1..(Len(operator) + Len(children)) :
             (operator \o children)[k] = IF k <= Len(operator) THEN operator[k] ELSE children[k - Len(operator)]
    BY <2>3, <2>4, ConcatProperties
  <2>6. /\ nodes \in Seq(T) /\ Len(nodes) = 1 + c
        /\ \A k \in 1..(1 + c) : nodes[k] = IF k <= 1 THEN operator[k] ELSE children[k - 1]
    BY <1>4, <2>1, <2>3, <2>4, <2>5
  <2>7. nodes[1] = operator[1] /\ \A k \in 2..(c + 1) : k - 1 \in 1..c /\ nodes[k] = children[k - 1]
    BY <2>6
  <2>8. IsList(nodes) /\ Len(nodes) = c + 1
    BY <2>6, SequencesAreLists
  <2> QED BY <2>1, <2>7, <2>8
<1>8. PICK size \in Nat : size = (i - 1) + (c + 1) + (len - last)
  <2>1. i - 1 \in Nat /\ len - last \in Nat
    BY <1>1
  <2> QED BY <2>1
<1>9. /\ IsList(r) /\ Len(r) = size
      /\ \A k \in 1..size :
           r[k] = IF k < i THEN t[k] ELSE IF k < i + (c + 1) THEN nodes[k - (i - 1)]
                  ELSE t[k - (i - 1) - (c + 1) + last]
  <2>1. PICK m \in Nat : m = c + 1
    OBVIOUS
  <2>2. /\ IsTree(t) /\ i \in 1..Len(t) /\ last = LastOf(t, i)
        /\ IsList(nodes) /\ m \in Nat /\ m = Len(nodes) /\ r = Replace(t, i, nodes)
    BY <1>5, <1>7, <2>1
  <2>3. Spliced(t, i, last, nodes, m, r)
    BY <2>2, ReplaceFacts
  <2> QED BY <1>1, <1>8, <2>1, <2>3 DEF Spliced
<1>10. ASSUME NEW k \in 1..size
       PROVE  \/ k < i /\ r[k] = t[k] /\ k \in 1..len
              \/ k = i /\ r[k] = Node(t[i].depth, NoName, <<>>)
              \/ /\ k > i /\ k < i + (c + 1) /\ k - i \in 1..c
                 /\ r[k] = Node(t[i].depth + 1, entries[k - i].name,
                                IF entries[k - i].inherits THEN t[i].covered ELSE entries[k - i].covered)
              \/ /\ ~(k < i + (c + 1))
                 /\ k - i - c + last \in (last + 1)..len
                 /\ r[k] = t[k - i - c + last]
  <2>1. CASE k < i
    BY <1>1, <1>9, <2>1
  <2>2. CASE k = i
    <3>1. ~(k < i) /\ k < i + (c + 1) /\ k - (i - 1) = 1
      BY <2>2
    <3>2. r[k] = nodes[1]
      BY <1>9, <3>1
    <3> QED BY <1>2, <1>7, <2>2, <3>2
  <2>3. CASE k > i /\ k < i + (c + 1)
    <3>1. PICK m \in 2..(c + 1) : m = k - (i - 1) /\ m - 1 = k - i
      BY <1>1, <2>3
    <3>2. r[k] = nodes[m]
      <4>1. ~(k < i)
        BY <1>1, <2>3
      <4> QED BY <1>9, <2>3, <3>1, <4>1
    <3>3. m - 1 \in 1..c /\ nodes[m] = children[m - 1]
      BY <1>7
    <3>4. PICK h \in 1..c : h = k - i /\ r[k] = children[h]
      BY <3>1, <3>2, <3>3
    <3>5. r[k] = Node(t[i].depth + 1, entries[h].name,
                      IF entries[h].inherits THEN t[i].covered ELSE entries[h].covered)
      BY <1>2, <1>3, <3>4
    <3> QED BY <2>3, <3>4, <3>5
  <2>4. CASE ~(k < i + (c + 1))
    <3>1. ~(k < i) /\ k - (i - 1) - (c + 1) + last = k - i - c + last
      BY <1>1, <2>4, SMTT(30)
    <3>3. k - i - c + last \in (last + 1)..len
      <4>1. PICK j \in Int : j = k - i - c + last
        BY <1>1
      <4>2. last + 1 <= j
        BY <1>1, <2>4, <4>1
      <4>3. k <= (i - 1) + (c + 1) + (len - last)
        BY <1>8
      <4>4. j <= len
        <5>1. i \in Int /\ last \in Int /\ len \in Int /\ k \in Int /\ c \in Int
          BY <1>1
        <5>2. k - i - c + last <= len
          BY <4>3, <5>1, SMTT(30)
        <5> QED BY <4>1, <5>2
      <4> QED BY <1>1, <4>1, <4>2, <4>4
    <3>2. r[k] = t[k - i - c + last]
      BY <1>9, <2>4, <3>1
    <3> QED BY <2>4, <3>2, <3>3
  <2> QED BY <1>1, <2>1, <2>2, <2>3, <2>4
<1> QED BY <1>1, <1>6, <1>8, <1>9, <1>10 DEF Expanded

LEMMA SplitIsTree ==
  ASSUME NEW t, IsTree(t), NEW op, Find(t, op.target) # 0,
         IsList(op.into), \A k \in DOMAIN op.into : IsList(op.into[k].covered)
  PROVE  IsTree(Split(t, op))
<1>1. PICK len \in Nat : len = Len(t)
  BY TreeFacts
<1>2. PICK i \in 1..len : i = Find(t, op.target)
  BY <1>1, FindFacts
<1>3. PICK last \in i..len : last = LastOf(t, i)
  BY <1>1, LastOfFacts
<1>4. PICK entries : entries = ValidEntries(op)
  OBVIOUS
<1>7. PICK c \in Nat : EntriesOf(op, entries, c)
  BY <1>4, ValidEntriesFacts
<1>5. \A k \in 1..c : IsList(entries[k].covered)
  BY <1>7 DEF EntriesOf
<1>6. PICK depth \in Nat : depth = t[i].depth
  BY <1>1, TreeFacts
<1>10. PICK r : r = Split(t, op)
  OBVIOUS
<1>11. Expanded(t, i, last, entries, c, r)
  BY <1>1, <1>2, <1>3, <1>7, <1>10, SplitExpands
<1>12. PICK size \in Nat : size = (i - 1) + (c + 1) + (len - last)
  <2>1. i - 1 \in Nat /\ len - last \in Nat
    OBVIOUS
  <2> QED BY <2>1
<1>13. IsList(r) /\ Len(r) = size
  BY <1>1, <1>11, <1>12 DEF Expanded
<1>14. /\ \A k \in 1..len : t[k].depth \in Nat /\ IsList(t[k].covered)
       /\ \A k \in 1..len : k # 1 => t[k].depth >= 1 /\ t[k].depth <= t[k - 1].depth + 1
       /\ t[1].depth = 0
       /\ last + 1 \in 1..len => t[last + 1].depth <= depth
  <2>1. last + 1 \in 1..len => t[last + 1].depth <= t[i].depth
    BY <1>1, <1>3, LastOfFacts
  <2>2. last + 1 \in 1..len => t[last + 1].depth <= depth
    BY <1>6, <2>1
  <2>3. 1 \in 1..len
    BY <1>1, <1>3
  <2> QED BY <1>1, <2>2, <2>3, TreeFacts
<1>15. \A k \in 1..size :
         \/ k < i /\ r[k] = t[k] /\ k \in 1..len
         \/ k = i /\ r[k].depth = depth /\ IsList(r[k].covered)
         \/ k > i /\ k < i + (c + 1) /\ r[k].depth = depth + 1 /\ IsList(r[k].covered)
         \/ /\ ~(k < i + (c + 1))
            /\ k - i - c + last \in (last + 1)..len
            /\ r[k] = t[k - i - c + last]
  <2>1. IsList(t[i].covered) /\ IsList(<<>>)
    BY <1>1, TreeFacts, EmptyIsList
  <2> SUFFICES ASSUME NEW k \in 1..size
               PROVE  \/ k < i /\ r[k] = t[k] /\ k \in 1..len
                      \/ k = i /\ r[k].depth = depth /\ IsList(r[k].covered)
                      \/ k > i /\ k < i + (c + 1) /\ r[k].depth = depth + 1 /\ IsList(r[k].covered)
                      \/ /\ ~(k < i + (c + 1))
                         /\ k - i - c + last \in (last + 1)..len
                         /\ r[k] = t[k - i - c + last]
    OBVIOUS
  <2>2. \/ k < i /\ r[k] = t[k] /\ k \in 1..len
        \/ k = i /\ r[k] = Node(depth, NoName, <<>>)
        \/ /\ k > i /\ k < i + (c + 1) /\ k - i \in 1..c
           /\ r[k] = Node(depth + 1, entries[k - i].name,
                          IF entries[k - i].inherits THEN t[i].covered ELSE entries[k - i].covered)
        \/ /\ ~(k < i + (c + 1))
           /\ k - i - c + last \in (last + 1)..len
           /\ r[k] = t[k - i - c + last]
    BY <1>1, <1>6, <1>11, <1>12 DEF Expanded
  <2>3. CASE k = i /\ r[k] = Node(depth, NoName, <<>>)
    BY <2>1, <2>3 DEF Node
  <2>4. CASE /\ k > i /\ k < i + (c + 1) /\ k - i \in 1..c
             /\ r[k] = Node(depth + 1, entries[k - i].name,
                            IF entries[k - i].inherits THEN t[i].covered ELSE entries[k - i].covered)
    <3>1. IsList(entries[k - i].covered)
      BY <1>5, <2>4
    <3> QED BY <2>1, <2>4, <3>1 DEF Node
  <2> QED BY <2>2, <2>3, <2>4
<1>16. \A k \in 1..size : IsList(r[k].covered)
  BY <1>14, <1>15
<1>17. r[1].depth = 0
  <2>1. 1 \in 1..size
    BY <1>12
  <2>2. 1 < i \/ 1 = i
    OBVIOUS
  <2>3. ~(1 > i)
    OBVIOUS
  <2>4. 1 < i + (c + 1)
    OBVIOUS
  <2> QED BY <1>6, <1>14, <1>15, <2>1, <2>2, <2>3, <2>4
<1>18. ASSUME NEW k \in 2..size PROVE r[k].depth \in 1..(r[k - 1].depth + 1)
  <2>1. k \in 1..size /\ k - 1 \in 1..size /\ k # 1
    OBVIOUS
  <2>2. CASE k < i
    <3>1. r[k] = t[k] /\ r[k - 1] = t[k - 1] /\ k \in 1..len /\ k - 1 \in 1..len
      BY <1>15, <2>1, <2>2
    <3>2. t[k].depth \in Nat /\ t[k - 1].depth \in Nat /\ t[k].depth >= 1 /\ t[k].depth <= t[k - 1].depth + 1
      BY <1>14, <2>1, <3>1
    <3> QED BY <3>1, <3>2
  <2>3. CASE k = i
    <3>1. r[k].depth = t[k].depth /\ k - 1 < i /\ k \in 1..len /\ k - 1 \in 1..len
      BY <1>6, <1>15, <2>1, <2>3
    <3>2. r[k - 1] = t[k - 1]
      BY <1>15, <2>1, <3>1
    <3>3. t[k].depth \in Nat /\ t[k - 1].depth \in Nat /\ t[k].depth >= 1 /\ t[k].depth <= t[k - 1].depth + 1
      BY <1>14, <2>1, <3>1
    <3> QED BY <3>1, <3>2, <3>3
  <2>4. CASE k > i /\ k < i + (c + 1)
    <3>1. r[k].depth = depth + 1
      BY <1>15, <2>1, <2>4
    <3>2. k - 1 = i \/ (k - 1 > i /\ k - 1 < i + (c + 1))
      BY <2>4
    <3>3. r[k - 1].depth = depth \/ r[k - 1].depth = depth + 1
      BY <1>15, <2>1, <3>2
    <3> QED BY <3>1, <3>3
  <2>5. CASE k = i + (c + 1)
    <3>1. r[k] = t[last + 1] /\ last + 1 \in 1..len /\ last + 1 # 1
      <4>1. k - i - c + last = last + 1
        BY <2>5
      <4> QED BY <1>15, <2>1, <2>5, <4>1
    <3>2. t[last + 1].depth \in Nat /\ t[last + 1].depth >= 1 /\ t[last + 1].depth <= depth
      BY <1>14, <3>1
    <3>3. k - 1 = i \/ (k - 1 > i /\ k - 1 < i + (c + 1))
      BY <2>5
    <3>4. r[k - 1].depth = depth \/ r[k - 1].depth = depth + 1
      BY <1>15, <2>1, <3>3
    <3> QED BY <3>1, <3>2, <3>4
  <2>6. CASE k > i + (c + 1)
    <3>1. PICK j \in (last + 1)..len : j = k - i - c + last /\ r[k] = t[j]
      BY <1>15, <2>1, <2>6
    <3>2. ~(k - 1 < i + (c + 1)) /\ (k - 1) - i - c + last = j - 1
      BY <2>6, <3>1
    <3>3. r[k - 1] = t[j - 1] /\ j - 1 \in (last + 1)..len
      BY <1>15, <2>1, <3>2
    <3>4. j \in 1..len /\ j - 1 \in 1..len /\ j # 1
      BY <3>3
    <3>5. t[j].depth \in Nat /\ t[j - 1].depth \in Nat /\ t[j].depth >= 1 /\ t[j].depth <= t[j - 1].depth + 1
      BY <1>14, <3>4
    <3> QED BY <3>1, <3>3, <3>5
  <2> QED BY <2>2, <2>3, <2>4, <2>5, <2>6
<1>19. DOMAIN r = 1..size
  BY <1>13, ListFacts
<1> QED BY <1>10, <1>13, <1>16, <1>17, <1>18, <1>19 DEF IsTree

(***************************************************************************)
(* Merging: siblings go with their subtrees, and one becomes the merged    *)
(* node, without children.                                                 *)
(***************************************************************************)

\* Whatever siblings are deleted, a tree is left.
LEMMA PrunedIsTree ==
  ASSUME NEW t, IsTree(t), NEW p \in 1..Len(t), NEW siblings \in SUBSET (1..Len(t)),
         \A s \in siblings : s # 1 /\ Parent(t, s) = p,
         NEW first \in siblings, NEW deleted \in SUBSET siblings,
         NEW merged, merged.depth = t[first].depth, IsList(merged.covered),
         NEW gone, gone = ((first + 1)..LastOf(t, first)) \cup UNION {s..LastOf(t, s) : s \in deleted}
  PROVE  IsTree(Kept([t EXCEPT ![first] = merged], DOMAIN t \ gone))
<1>1. PICK len \in Nat : len = Len(t) /\ DOMAIN t = 1..len /\ t = [i \in 1..len |-> t[i]]
  BY TreeFacts
<1>2. PICK t2 : t2 = [t EXCEPT ![first] = merged]
  OBVIOUS
<1>3. /\ t2 = [i \in 1..len |-> IF i = first THEN merged ELSE t[i]]
      /\ \A i \in 1..len : t2[i].depth = t[i].depth /\ IsList(t2[i].covered)
  <2>1. t2 = [i \in 1..len |-> IF i = first THEN merged ELSE t[i]]
    BY <1>1, <1>2
  <2> QED BY <1>1, <2>1, TreeFacts
<1>4. PICK C : C = {x \in {t2[i] : i \in 1..len} : IsList(x.covered)}
  OBVIOUS
<1>5. t2 \in Seq(C)
  <2>1. t2 \in [1..len -> C]
    BY <1>3, <1>4
  <2> QED BY <2>1, FunctionsAreLists
<1>6. PICK places : places = 1..len \ gone
  OBVIOUS
<1>7. places \in SUBSET (1..len) /\ places \in SUBSET Nat /\ IsFiniteSet(places) /\ DOMAIN t2 = 1..len
  <2>1. IsFiniteSet(1..len)
    BY FS_Interval
  <2>2. places \in SUBSET (1..len)
    BY <1>6
  <2>3. IsFiniteSet(places)
    BY <2>1, <2>2, FS_Subset
  <2>4. DOMAIN t2 = 1..len
    BY <1>3
  <2> QED BY <2>2, <2>3, <2>4
<1>8. PICK r : r = Kept(t2, places)
  OBVIOUS
<1>9. PICK count \in Nat : count = Cardinality(places)
  BY <1>7, FS_CardinalityType
<1>10. PICK order \in [1..count -> places] :
         /\ order = InOrder(places)
         /\ \A m, n \in 1..count : m < n => order[m] < order[n]
         /\ \A i \in places : \E n \in 1..count : order[n] = i
  BY <1>7, <1>9, InOrderLists
<1>11. /\ r \in Seq(C) /\ DOMAIN r = 1..count /\ Len(r) = count
       /\ \A n \in 1..count : r[n] = t2[order[n]]
  <2>1. r \in Seq(C) /\ DOMAIN r = DOMAIN order
    BY <1>5, <1>7, <1>8, <1>10, KeptEntries
  <2>2. DOMAIN order = 1..count
    OBVIOUS
  <2>3. r = [n \in 1..count |-> t2[order[n]]]
    BY <1>8, <1>10, <2>2 DEF Kept
  <2>4. r \in [1..count -> C] /\ r = [n \in 1..count |-> t2[order[n]]]
    <3>1. \A n \in 1..count : order[n] \in 1..len
      BY <1>7
    <3>2. \A i \in 1..len : t2[i] \in C
      BY <1>3, <1>4
    <3> QED BY <2>3, <3>1, <3>2
  <2> QED BY <2>1, <2>3, <2>4, FunctionsAreLists
<1>12. \A n \in 1..count : r[n].depth = t[order[n]].depth /\ IsList(r[n].covered)
  <2>1. \A n \in 1..count : order[n] \in 1..len
    BY <1>7
  <2> QED BY <1>3, <1>11, <2>1
<1>13. /\ \A i \in 1..len : t[i].depth \in Nat
       /\ \A i \in 1..len : i # 1 => t[i].depth >= 1 /\ t[i].depth <= t[i - 1].depth + 1
       /\ t[1].depth = 0 /\ p \in 1..len
       /\ \A s \in siblings : s \in 1..len /\ t[s].depth = t[p].depth + 1
  <2>1. \A s \in siblings : s \in 1..len /\ t[s].depth = t[p].depth + 1
    <3> SUFFICES ASSUME NEW s \in siblings PROVE s \in 1..len /\ t[s].depth = t[p].depth + 1
      OBVIOUS
    <3>1. s \in 1..Len(t) /\ Parent(t, s) = p /\ p # 0
      OBVIOUS
    <3> QED BY <1>1, <3>1, ChildDepth
  <2>2. p \in 1..len /\ 1 \in 1..len
    BY <1>1
  <2> QED BY <1>1, <2>1, <2>2, TreeFacts
<1>14. \A s \in siblings :
         /\ LastOf(t, s) \in s..len
         /\ LastOf(t, s) + 1 \in 1..len => t[LastOf(t, s) + 1].depth <= t[s].depth
  BY <1>1, LastOfFacts
\* The root is kept.
<1>15. count # 0 /\ order[1] = 1
  <2>1. 1 \in 1..len /\ \A s \in siblings : s > 1
    <3>1. 1 \in 1..len
      BY <1>13
    <3>2. \A s \in siblings : s \in 1..len /\ s # 1
      BY <1>13
    <3> QED BY <3>1, <3>2
  <2>2. ASSUME 1 \in gone PROVE FALSE
    <3>1. CASE 1 \in (first + 1)..LastOf(t, first)
      BY <2>1, <3>1
    <3>2. CASE \E s \in deleted : 1 \in s..LastOf(t, s)
      <4>1. PICK s \in deleted : 1 \in s..LastOf(t, s)
        BY <3>2
      <4>2. s > 1 /\ s <= 1 /\ s \in Nat
        BY <2>1, <4>1
      <4> QED BY <4>2
    <3> QED BY <2>2, <3>1, <3>2
  <2>3. PICK n \in 1..count : order[n] = 1
    BY <1>6, <1>10, <2>1, <2>2
  <2>4. 1 \in 1..count /\ count # 0 /\ (n = 1 \/ 1 < n)
    BY <1>9
  <2>5. 1 < n => order[1] < order[n]
    BY <1>10, <2>4
  <2>6. order[1] \in 1..len
    BY <1>7, <2>4
  <2> QED BY <2>3, <2>4, <2>5, <2>6
<1>16. r[1].depth = 0
  <2>1. 1 \in 1..count
    BY <1>15
  <2> QED BY <1>12, <1>13, <1>15, <2>1
\* Where nodes are missing, the gap starts and ends at siblings.
<1>17. ASSUME NEW i \in places, NEW j \in places, i < j, \A h \in places : ~(i < h /\ h < j)
       PROVE  t[j].depth \in 1..(t[i].depth + 1)
  <2>1. i \in 1..len /\ j \in 1..len /\ j # 1 /\ j - 1 \in 1..len /\ i + 1 \in 1..len
    BY <1>7, <1>17
  <2>2. i \notin gone /\ j \notin gone
    BY <1>6, <1>17
  <2>3. t[i].depth \in Nat /\ t[j].depth \in Nat /\ t[j].depth >= 1 /\ t[p].depth \in Nat
    BY <1>13, <2>1
  <2>4. CASE j = i + 1
    <3>1. j - 1 = i
      BY <2>1, <2>4
    <3>2. t[j].depth <= t[i].depth + 1
      BY <1>13, <2>1, <3>1
    <3> QED BY <2>3, <3>2
  <2>5. CASE j # i + 1
    <3>1. i < i + 1 /\ i + 1 < j /\ i < j - 1 /\ j - 1 < j
      BY <1>17, <2>1, <2>5
    <3>2. i + 1 \in gone /\ j - 1 \in gone
      BY <1>6, <1>17, <2>1, <3>1
    <3>3. t[i].depth + 1 >= t[p].depth + 1
      <4>1. CASE i + 1 \in (first + 1)..LastOf(t, first)
        <5>1. i \notin (first + 1)..LastOf(t, first)
          BY <2>2
        <5>2. i = first
          BY <1>13, <1>14, <2>1, <4>1, <5>1
        <5> QED BY <1>13, <2>3, <5>2
      <4>2. CASE \E s \in deleted : i + 1 \in s..LastOf(t, s)
        <5>1. PICK s \in deleted : i + 1 \in s..LastOf(t, s)
          BY <4>2
        <5>2. i \notin s..LastOf(t, s)
          BY <2>2, <5>1
        <5>3. i + 1 = s /\ s \in 1..len /\ s # 1 /\ s - 1 = i
          BY <1>13, <1>14, <2>1, <5>1, <5>2
        <5>4. t[s].depth <= t[i].depth + 1 /\ t[s].depth = t[p].depth + 1
          BY <1>13, <5>3
        <5> QED BY <2>3, <5>4
      <4> QED BY <3>2, <4>1, <4>2
    <3>4. t[j].depth <= t[p].depth + 1
      <4>1. CASE j - 1 \in (first + 1)..LastOf(t, first)
        <5>1. j \notin (first + 1)..LastOf(t, first)
          BY <2>2
        <5>2. LastOf(t, first) + 1 = j
          <6>1. PICK last \in Int : last = LastOf(t, first)
            BY <1>14
          <6>2. first \in Int /\ j \in Int
            BY <1>13, <2>1
          <6>3. j - 1 \in (first + 1)..last /\ j \notin (first + 1)..last
            BY <4>1, <5>1, <6>1
          <6>4. last + 1 = j
            BY <6>2, <6>3
          <6> QED BY <6>1, <6>4
        <5>3. t[j].depth <= t[first].depth
          BY <1>14, <2>1, <5>2
        <5> QED BY <1>13, <5>3
      <4>2. CASE \E s \in deleted : j - 1 \in s..LastOf(t, s)
        <5>1. PICK s \in deleted : j - 1 \in s..LastOf(t, s)
          BY <4>2
        <5>2. j \notin s..LastOf(t, s)
          BY <2>2, <5>1
        <5>3. LastOf(t, s) + 1 = j
          <6>1. PICK last \in Int : last = LastOf(t, s)
            BY <1>14
          <6>2. s \in Int /\ j \in Int
            BY <1>13, <2>1
          <6>3. j - 1 \in s..last /\ j \notin s..last
            BY <5>1, <5>2, <6>1
          <6>4. last + 1 = j
            BY <6>2, <6>3
          <6> QED BY <6>1, <6>4
        <5>4. t[j].depth <= t[s].depth
          BY <1>14, <2>1, <5>3
        <5> QED BY <1>13, <5>4
      <4> QED BY <3>2, <4>1, <4>2
    <3>5. t[j].depth <= t[i].depth + 1
      BY <2>3, <3>3, <3>4
    <3> QED BY <2>3, <3>5
  <2> QED BY <2>4, <2>5
<1>18. ASSUME NEW n \in 2..count PROVE r[n].depth \in 1..(r[n - 1].depth + 1)
  <2>1. n \in 1..count /\ n - 1 \in 1..count /\ n - 1 < n
    OBVIOUS
  <2>2. order[n - 1] \in places /\ order[n] \in places /\ order[n - 1] < order[n]
    BY <1>10, <2>1
  <2>3. ASSUME NEW h \in places, order[n - 1] < h, h < order[n] PROVE FALSE
    <3>1. PICK k \in 1..count : order[k] = h
      BY <1>10
    <3>2. k < n - 1 \/ k = n - 1 \/ k = n \/ n < k
      OBVIOUS
    <3>3. (k < n - 1 => order[k] < order[n - 1]) /\ (n < k => order[n] < order[k])
      BY <1>10, <2>1
    <3>4. order[k] \in Nat /\ order[n] \in Nat /\ order[n - 1] \in Nat
      BY <1>7, <2>1
    <3> QED BY <2>3, <3>1, <3>2, <3>3, <3>4
  <2>4. t[order[n]].depth \in 1..(t[order[n - 1]].depth + 1)
    BY <1>17, <2>2, <2>3
  <2> QED BY <1>12, <2>1, <2>4
<1>19. IsList(r)
  BY <1>11, SequencesAreLists
<1>20. IsTree(r)
  BY <1>11, <1>12, <1>16, <1>18, <1>19 DEF IsTree
<1> QED BY <1>1, <1>2, <1>6, <1>8, <1>20

\* A finite set can be listed, each element once.
LEMMA SetToSeqLists ==
  ASSUME NEW T, IsFiniteSet(T)
  PROVE  /\ Lists!SetToSeq(T) \in Seq(T)
         /\ Lists!ToSet(Lists!SetToSeq(T)) = T
<1>1. PICK n \in Nat : n = Cardinality(T) /\ ExistsBijection(1..n, T)
  BY FS_CardinalityType
<1>2. Lists!Cardinality(T) = n
  BY <1>1 DEF Lists!Cardinality, Cardinality
<1>3. \E f \in [1..n -> T] : Lists!IsInjective(f)
  BY <1>1 DEF ExistsBijection, Bijection, Injection, IsInjective, Lists!IsInjective
<1>4. PICK f \in [1..n -> T] : f = Lists!SetToSeq(T) /\ Lists!IsInjective(f)
  BY <1>2, <1>3 DEF Lists!SetToSeq
<1>5. f \in Injection(1..n, T)
  BY <1>4 DEF Injection, IsInjective, Lists!IsInjective
<1>6. IsFiniteSet(1..n) /\ Cardinality(1..n) = n
  BY FS_Interval
<1>7. f \in Surjection(1..n, T)
  BY <1>1, <1>5, <1>6, FS_Injection
<1>8. Lists!ToSet(f) = T
  BY <1>7 DEF Surjection, Lists!ToSet
<1> QED BY <1>4, <1>8, FunctionsAreLists

LEMMA FS_UNION_List ==
  ASSUME NEW n \in Nat, NEW T, NEW sets \in [1..n -> T],
         \A k \in 1..n : IsFiniteSet(sets[k])
  PROVE  IsFiniteSet(UNION {sets[k] : k \in 1..n})
<1>1. PICK family : family = {sets[k] : k \in 1..n}
  OBVIOUS
<1>2. sets \in Surjection(1..n, family)
  BY <1>1 DEF Surjection
<1>3. IsFiniteSet(1..n)
  BY FS_Interval
<1>4. IsFiniteSet(family)
  BY <1>2, <1>3, FS_Surjection
<1> QED BY <1>1, <1>4, FS_UNION

\* The nodes _apply_merge_operation finds are siblings, and none is the root.
LEMMA LocationFacts ==
  ASSUME NEW t, IsTree(t), NEW op, IsList(op.targets), Merges(t, op),
         NEW at, at = Locations(t, op)
  PROVE  \E n \in Nat \ {0} : \E p \in 1..Len(t) :
           /\ at \in [1..n -> 1..Len(t)]
           /\ \A k \in 1..n : Parent(t, at[k]) = p /\ at[k] # 1
<1>1. PICK len \in Nat : len = Len(t)
  BY TreeFacts
<1>2. PICK targets : targets = Kept(op.targets, {k \in DOMAIN op.targets : op.targets[k] # NoName})
  OBVIOUS
<1>3. PICK n \in Nat : DOMAIN targets = 1..n
  <2>1. op.targets \in Seq(Lists!ToSet(op.targets))
    BY DEF IsList
  <2>2. targets \in Seq(Lists!ToSet(op.targets))
    BY <1>2, <2>1, KeptEntries
  <2>3. Len(targets) \in Nat /\ DOMAIN targets = 1..Len(targets)
    BY <2>2, LenProperties
  <2> QED BY <2>3
<1>4. at = [k \in 1..n |-> Find(t, targets[k])]
  BY <1>2, <1>3 DEF Locations
<1>5. /\ Len(at) >= 2 /\ 0 \notin Lists!ToSet(at)
      /\ Cardinality({Parent(t, at[k]) : k \in DOMAIN at}) = 1
      /\ Parent(t, at[1]) # 0
  BY DEF Merges
<1>6. \A k \in 1..n : at[k] # 0
  BY <1>4, <1>5 DEF Lists!ToSet
<1>7. at \in [1..n -> 1..len]
  <2> SUFFICES ASSUME NEW k \in 1..n PROVE at[k] \in 1..len
    BY <1>4
  <2>1. at[k] = Find(t, targets[k]) /\ Find(t, targets[k]) # 0
    BY <1>4, <1>6
  <2> QED BY <1>1, <2>1, FindFacts
<1>8. n # 0
  <2>1. Len(at) = n
    BY <1>7, FunctionsAreLists
  <2> QED BY <1>5, <2>1
<1>9. PICK family : family = {Parent(t, at[k]) : k \in 1..n}
  OBVIOUS
<1>10. PICK x : family = {x}
  <2>1. Cardinality(family) = 1
    BY <1>5, <1>7, <1>9
  <2>2. PICK parent : parent = [k \in 1..n |-> Parent(t, at[k])]
    OBVIOUS
  <2>3. parent \in Surjection(1..n, family)
    BY <1>9, <2>2 DEF Surjection
  <2>4. IsFiniteSet(1..n)
    BY FS_Interval
  <2>5. IsFiniteSet(family)
    BY <2>3, <2>4, FS_Surjection
  <2> QED BY <2>1, <2>5, FS_Singleton
<1>11. \A k \in 1..n : Parent(t, at[k]) = x
  BY <1>9, <1>10
<1>12. x # 0
  <2>1. 1 \in 1..n
    BY <1>8
  <2> QED BY <1>5, <1>11, <2>1
<1>13. ASSUME NEW k \in 1..n PROVE at[k] # 1 /\ x \in 1..len
  <2>1. at[k] \in 1..Len(t) /\ Parent(t, at[k]) # 0 /\ Parent(t, at[k]) = x
    BY <1>1, <1>7, <1>11, <1>12
  <2>2. at[k] # 1 /\ x \in 1..(at[k] - 1)
    BY <2>1, ChildDepth
  <2>3. at[k] \in 1..len
    BY <1>7
  <2> QED BY <2>2, <2>3
<1>14. x \in 1..len
  <2>1. 1 \in 1..n
    BY <1>8
  <2> QED BY <1>13, <2>1
<1> QED BY <1>1, <1>7, <1>8, <1>11, <1>13, <1>14

LEMMA JoinedFacts ==
  ASSUME NEW t, IsTree(t), NEW n \in Nat, NEW at \in [1..n -> 1..Len(t)]
  PROVE  /\ IsList(JoinedCodes(t, at))
         /\ Lists!ToSet(JoinedCodes(t, at)) = UNION {Lists!ToSet(t[at[k]].covered) : k \in 1..n}
<1>1. PICK sets : sets = [k \in 1..n |-> Lists!ToSet(t[at[k]].covered)]
  OBVIOUS
<1>2. ASSUME NEW k \in 1..n PROVE IsFiniteSet(sets[k])
  <2>1. PICK codes : codes = t[at[k]].covered
    OBVIOUS
  <2>2. IsList(codes)
    BY <2>1, TreeFacts
  <2>3. PICK c \in Nat : DOMAIN codes = 1..c /\ codes = [i \in 1..c |-> codes[i]]
    BY <2>2, ListFacts
  <2>4. codes \in Surjection(1..c, Lists!ToSet(codes))
    BY <2>3 DEF Surjection, Lists!ToSet
  <2>5. IsFiniteSet(1..c)
    BY FS_Interval
  <2>6. IsFiniteSet(Lists!ToSet(codes))
    BY <2>4, <2>5, FS_Surjection
  <2> QED BY <1>1, <2>1, <2>6
<1>3. PICK all : all = UNION {sets[k] : k \in 1..n}
  OBVIOUS
<1>4. IsFiniteSet(all)
  <2>1. sets \in [1..n -> {sets[k] : k \in 1..n}]
    BY <1>1
  <2> QED BY <1>2, <1>3, <2>1, FS_UNION_List
<1>5. all = UNION {Lists!ToSet(t[at[k]].covered) : k \in 1..n}
  BY <1>1, <1>3
<1>6. JoinedCodes(t, at) = Lists!SetToSeq(all)
  BY <1>5 DEF JoinedCodes
<1> QED BY <1>4, <1>5, <1>6, SetToSeqLists, SequencesAreLists

LEMMA MergeIsTree ==
  ASSUME NEW t, IsTree(t), NEW op, IsList(op.targets), IsList(op.covered), Merges(t, op)
  PROVE  IsTree(Merge(t, op))
<1>1. PICK len \in Nat : len = Len(t) /\ DOMAIN t = 1..len
  BY TreeFacts
<1>2. PICK at : at = Locations(t, op)
  OBVIOUS
<1>3. PICK n \in Nat \ {0}, p \in 1..len :
        /\ at \in [1..n -> 1..len]
        /\ \A k \in 1..n : Parent(t, at[k]) = p /\ at[k] # 1
  BY <1>1, <1>2, LocationFacts
<1>4. PICK first : first = Sets!Min(Lists!ToSet(at))
  OBVIOUS
<1>5. PICK kin : kin = {i \in 1..len : i > 1 /\ Parent(t, i) = p}
  OBVIOUS
<1>6. 1 \in 1..n /\ Parent(t, at[1]) = p
  BY <1>3
<1>7. PICK siblings : siblings = Children(t, Parent(t, at[1]))
  OBVIOUS
<1>8. siblings = InOrder(kin)
  BY <1>1, <1>5, <1>6, <1>7 DEF Children
<1>9. kin \in SUBSET (1..len) /\ kin \in SUBSET Nat /\ IsFiniteSet(kin)
  <2>1. IsFiniteSet(1..len)
    BY FS_Interval
  <2>2. kin \in SUBSET (1..len)
    BY <1>5
  <2>3. IsFiniteSet(kin)
    BY <2>1, <2>2, FS_Subset
  <2> QED BY <2>2, <2>3
<1>10. Lists!ToSet(siblings) \subseteq kin
  <2>1. PICK c \in Nat : siblings \in [1..c -> kin]
    BY <1>8, <1>9, InOrderLists
  <2> QED BY <2>1 DEF Lists!ToSet
<1>11. first \in kin
  <2>1. PICK places : places = Lists!ToSet(at)
    OBVIOUS
  <2>2. places \in SUBSET kin
    <3>1. \A k \in 1..n : at[k] \in 1..len /\ at[k] # 1 /\ Parent(t, at[k]) = p
      BY <1>3
    <3>2. \A k \in 1..n : at[k] \in kin
      BY <1>5, <3>1
    <3> QED BY <1>3, <2>1, <3>2 DEF Lists!ToSet
  <2>3. at[1] \in places
    BY <1>3, <1>6, <2>1 DEF Lists!ToSet
  <2>4. places \in SUBSET Nat /\ IsFiniteSet(places) /\ places # {}
    BY <1>9, <2>2, <2>3, FS_Subset
  <2>5. first \in places
    BY <1>4, <2>1, <2>4, LeastAndGreatest
  <2> QED BY <2>2, <2>5
<1>12. PICK deleted : deleted = Deleted(siblings, at)
  OBVIOUS
<1>13. deleted \in SUBSET kin
  BY <1>10, <1>12 DEF Deleted
<1>14. PICK merged :
         merged = Node(t[first].depth,
                       IF op.name = NoName THEN Lists!FlattenSeq(op.targets) ELSE op.name,
                       IF op.covered = <<>> THEN JoinedCodes(t, at) ELSE op.covered)
  OBVIOUS
<1>15. merged.depth = t[first].depth /\ IsList(merged.covered)
  <2>1. merged.depth = t[first].depth
        /\ merged.covered = IF op.covered = <<>> THEN JoinedCodes(t, at) ELSE op.covered
    BY <1>14 DEF Node
  <2>2. IsList(JoinedCodes(t, at))
    BY <1>1, <1>3, JoinedFacts
  <2> QED BY <2>1, <2>2
<1>16. PICK gone :
         gone = ((first + 1)..LastOf(t, first)) \cup UNION {i..LastOf(t, i) : i \in deleted}
  OBVIOUS
<1>17. Merge(t, op) = Kept([t EXCEPT ![first] = merged], DOMAIN t \ gone)
  BY <1>2, <1>4, <1>7, <1>12, <1>14, <1>16 DEF Merge
<1>18. /\ kin \in SUBSET (1..Len(t)) /\ p \in 1..Len(t) /\ deleted \in SUBSET kin
       /\ \A s \in kin : s # 1 /\ Parent(t, s) = p
  BY <1>1, <1>3, <1>5, <1>9, <1>13
<1>19. IsTree(Kept([t EXCEPT ![first] = merged], DOMAIN t \ gone))
  BY <1>11, <1>15, <1>16, <1>18, PrunedIsTree
<1> QED BY <1>17, <1>19

\* Whatever operation the LLM asks for, and whether it applies or not, the tree stays one.
THEOREM ApplyKeepsTree ==
  ASSUME NEW t, IsTree(t), NEW op, ListsGiven(op)
  PROVE  IsTree(Apply(t, op))
<1>1. CASE ~Applies(t, op)
  BY <1>1 DEF Apply
<1>2. CASE Applies(t, op) /\ op.op = "split"
  <2>1. Splits(t, op) /\ Apply(t, op) = Split(t, op)
    BY <1>2 DEF Applies, Apply
  <2> QED BY <1>2, <2>1, SplitIsTree DEF Splits, ListsGiven
<1>3. CASE Applies(t, op) /\ op.op # "split"
  <2>1. op.op = "merge" /\ Merges(t, op) /\ Apply(t, op) = Merge(t, op)
    BY <1>3 DEF Applies, Apply
  <2> QED BY <2>1, MergeIsTree DEF ListsGiven
<1> QED BY <1>1, <1>2, <1>3

(***************************************************************************)
(* What merging deletes.                                                   *)
(***************************************************************************)

\* Deleting a child moves those behind it up and loses no other.
Loses(rest, list, c, place) ==
  /\ \A j \in 1..(place - 1) : rest[j] = list[j]
  /\ \A j \in 1..c : j # place => \E i \in 1..(c - 1) : rest[i] = list[j]

LEMMA WithoutFacts ==
  ASSUME NEW S, NEW c \in Nat, NEW list \in [1..c -> S], NEW place \in 1..c
  PROVE  /\ Without(list, place) \in [1..(c - 1) -> S]
         /\ Loses(Without(list, place), list, c, place)
<1>1. list \in Seq(S) /\ Len(list) = c
  BY FunctionsAreLists
<1>2. PICK front : front = SubSeq(list, 1, place - 1)
  OBVIOUS
<1>3. PICK back : back = SubSeq(list, place + 1, c)
  OBVIOUS
<1>4. Without(list, place) = front \o back
  BY <1>1, <1>2, <1>3 DEF Without, Lists!RemoveAt
<1>5. front \in Seq(S) /\ Len(front) = place - 1 /\ \A j \in 1..(place - 1) : front[j] = list[j]
  <2>1. place - 1 \in Int /\ 1 \in Int /\ \A j \in 1..(place - 1) : list[j] \in S
    OBVIOUS
  <2>2. /\ front \in Seq(S)
        /\ Len(front) = IF 1 <= place - 1 THEN (place - 1) - 1 + 1 ELSE 0
        /\ \A j \in 1..((place - 1) - 1 + 1) : front[j] = list[1 + j - 1]
    BY <1>2, <2>1, SubSeqProperties
  <2>3. (place - 1) - 1 + 1 = place - 1 /\ \A j \in 1..(place - 1) : 1 + j - 1 = j
    OBVIOUS
  <2> QED BY <2>2, <2>3
<1>6. back \in Seq(S) /\ Len(back) = c - place /\ \A j \in 1..(c - place) : back[j] = list[place + j]
  <2>1. place + 1 \in Int /\ c \in Int /\ \A j \in (place + 1)..c : list[j] \in S
    OBVIOUS
  <2>2. /\ back \in Seq(S)
        /\ Len(back) = IF place + 1 <= c THEN c - (place + 1) + 1 ELSE 0
        /\ \A j \in 1..(c - (place + 1) + 1) : back[j] = list[(place + 1) + j - 1]
    BY <1>3, <2>1, SubSeqProperties
  <2>3. c - (place + 1) + 1 = c - place /\ \A j \in 1..(c - place) : (place + 1) + j - 1 = place + j
    OBVIOUS
  <2> QED BY <2>2, <2>3
<1>7. PICK left : left = front \o back
  OBVIOUS
<1>8. /\ left \in Seq(S) /\ Len(left) = c - 1
      /\ \A j \in 1..(c - 1) : left[j] = IF j <= place - 1 THEN front[j] ELSE back[j - (place - 1)]
  <2>1. /\ left \in Seq(S) /\ Len(left) = Len(front) + Len(back)
        /\ \A j \in 1..(Len(front) + Len(back)) :
             left[j] = IF j <= Len(front) THEN front[j] ELSE back[j - Len(front)]
    BY <1>5, <1>6, <1>7, ConcatProperties
  <2>2. (place - 1) + (c - place) = c - 1
    OBVIOUS
  <2> QED BY <1>5, <1>6, <2>1, <2>2
<1>9. left \in [1..(c - 1) -> S]
  BY <1>8, LenProperties
<1>10. ASSUME NEW j \in 1..(place - 1) PROVE j \in 1..(c - 1) /\ left[j] = list[j]
  BY <1>5, <1>8
<1>11. ASSUME NEW j \in 1..c, j # place PROVE \E i \in 1..(c - 1) : left[i] = list[j]
  <2>1. CASE j < place
    <3>1. j \in 1..(place - 1)
      BY <2>1
    <3> QED BY <1>10, <3>1
  <2>2. CASE j > place
    <3>1. PICK i \in 1..(c - 1) : i = j - 1
      BY <2>2
    <3>2. PICK k \in 1..(c - place) : k = j - place
      BY <2>2
    <3>3. ~(i <= place - 1) /\ i - (place - 1) = k /\ place + k = j
      BY <2>2, <3>1, <3>2
    <3>4. left[i] = back[k]
      BY <1>8, <3>3
    <3>5. back[k] = list[j]
      BY <1>6, <3>3
    <3> QED BY <3>4, <3>5
  <2> QED BY <1>11, <2>1, <2>2
<1> QED BY <1>4, <1>7, <1>9, <1>10, <1>11 DEF Loses

\* The loop over the places, from the last one on.
Removes(left, children, places, n) ==
  /\ RemoveMerged(children, places) = left[n]
  /\ left[0] = children
  /\ \A m \in 1..n : left[m] = Without(left[m - 1], places[n + 2 - m])

\* The children stay a list through the loop.
LEMMA RemovedLists ==
  ASSUME NEW S, NEW children \in Seq(S), NEW n \in Nat, NEW places, Len(places) = n + 1
  PROVE  \E left \in [0..n -> Seq(S)] : Removes(left, children, places, n)
<1>1. PICK Kin : Kin = Seq(S)
  OBVIOUS
<1> DEFINE Loops(f) == f = [m \in 0..n |-> IF m = 0 THEN children ELSE Without(f[m - 1], places[n + 2 - m])]
           Code(f) == f = [m \in 0..(Len(places) - 1) |->
                             IF m = 0 THEN children ELSE Without(f[m - 1], places[Len(places) + 1 - m])]
<1>2. ASSUME NEW list \in Kin, NEW place PROVE Without(list, place) \in Kin
  <2>1. PICK c \in Nat : c = Len(list) /\ DOMAIN list = 1..c /\ list \in [1..c -> S]
    BY <1>1, LenProperties
  <2>2. CASE place \in 1..c
    <3>1. Without(list, place) \in [1..(c - 1) -> S]
      BY <2>1, <2>2, WithoutFacts
    <3>2. c - 1 \in Nat
      BY <2>2
    <3> QED BY <1>1, <3>1, <3>2, FunctionsAreLists
  <2>3. CASE place \notin 1..c
    BY <2>1, <2>3 DEF Without
  <2> QED BY <2>2, <2>3
<1>3. PICK left : left = CHOOSE g : Code(g)
  OBVIOUS
<1>4. RemoveMerged(children, places) = left[n]
  <2>1. RemoveMerged(children, places) = left[Len(places) - 1]
    BY <1>3 DEF RemoveMerged
  <2>2. Len(places) - 1 = n
    OBVIOUS
  <2> QED BY <2>1, <2>2
<1>5. PICK step : step = [m \in 1..n |-> [list \in Kin |-> Without(list, places[n + 2 - m])]]
  OBVIOUS
<1>6. step \in [1..n -> [Kin -> Kin]]
  BY <1>2, <1>5
<1>7. PICK f \in [0..n -> Kin] : f[0] = children /\ \A m \in 1..n : f[m] = step[m][f[m - 1]]
  <2>1. children \in Kin
    BY <1>1
  <2>2. PICK f \in [0..n -> Kin] : Iterates(f, n, children, step)
    BY <1>6, <2>1, Loop
  <2> QED BY <2>2 DEF Iterates
<1>8. ASSUME NEW m \in 1..n PROVE m \in 0..n /\ m # 0 /\ m - 1 \in 0..n
  OBVIOUS
<1>9. ASSUME NEW m \in 1..n PROVE f[m] = Without(f[m - 1], places[n + 2 - m])
  BY <1>5, <1>7, <1>8
<1>10. Loops(f)
  <2>1. \A m \in 0..n : m = 0 \/ m \in 1..n
    OBVIOUS
  <2> QED BY <1>7, <1>9, <2>1
<1>11. Loops(left)
  <2>1. Len(places) - 1 = n /\ \A m \in 0..n : Len(places) + 1 - m = n + 2 - m
    OBVIOUS
  <2>2. \A g : Code(g) <=> Loops(g)
    BY <2>1
  <2> HIDE DEF Loops, Code
  <2> QED BY <1>3, <1>10, <2>2
<1>12. \A m \in 0..n : left[m] = IF m = 0 THEN children ELSE Without(left[m - 1], places[n + 2 - m])
  BY <1>11
<1>13. left[0] = children /\ \A m \in 1..n : left[m] = Without(left[m - 1], places[n + 2 - m])
  <2> HIDE DEF Loops
  <2>1. 0 \in 0..n
    OBVIOUS
  <2> QED BY <1>8, <1>12, <2>1
<1>14. PICK good : good = {m \in 0..n : left[m] \in Kin}
  OBVIOUS
<1>15. \A m \in 0..n : m \in good
  <2> HIDE DEF Loops
  <2>1. 0 \in good
    <3>1. children \in Kin /\ 0 \in 0..n
      BY <1>1
    <3> QED BY <1>13, <1>14, <3>1
  <2>2. \A m \in 1..n : m - 1 \in good => m \in good
    BY <1>2, <1>8, <1>13, <1>14
  <2> QED BY <2>1, <2>2, UpTo
<1>16. left \in [0..n -> Kin]
  <2>1. left = [m \in 0..n |-> IF m = 0 THEN children ELSE Without(left[m - 1], places[n + 2 - m])]
    BY <1>11
  <2> HIDE DEF Loops
  <2>2. \A m \in 0..n : left[m] \in Kin
    BY <1>14, <1>15
  <2>3. \A m \in 0..n : (IF m = 0 THEN children ELSE Without(left[m - 1], places[n + 2 - m])) \in Kin
    BY <1>12, <2>2
  <2> QED BY <2>1, <2>3
<1> QED BY <1>1, <1>4, <1>13, <1>16 DEF Removes

\* From the last place to the second: while a place is deleted, those before it are where
\* they were, so that just the children at the places are deleted.
Deletes(left, children, c, places, n) ==
  \A j \in 1..c : \/ children[j] \in Lists!ToSet(left)
                  \/ \E k \in 2..(n + 1) : children[j] = children[places[k]]

LEMMA RemovedFacts ==
  ASSUME NEW S, NEW c \in Nat, NEW children \in [1..c -> S],
         NEW n \in Nat, NEW places \in [1..(n + 1) -> 1..c],
         \A j, k \in 1..(n + 1) : j < k => places[j] < places[k]
  PROVE  Deletes(RemoveMerged(children, places), children, c, places, n)
<1>1. children \in Seq(S) /\ Len(children) = c
  BY FunctionsAreLists
<1>2. Len(places) = n + 1
  <2>1. n + 1 \in Nat
    OBVIOUS
  <2> QED BY <2>1, FunctionsAreLists
<1>3. PICK left \in [0..n -> Seq(S)] :
        /\ RemoveMerged(children, places) = left[n]
        /\ left[0] = children
        /\ \A m \in 1..n : left[m] = Without(left[m - 1], places[n + 2 - m])
  <2>1. PICK left \in [0..n -> Seq(S)] : Removes(left, children, places, n)
    BY <1>1, <1>2, RemovedLists
  <2> QED BY <2>1 DEF Removes
<1> DEFINE Before(m) == /\ places[n + 1 - m] <= Len(left[m])
                        /\ \A j \in 1..places[n + 1 - m] : left[m][j] = children[j]
           Stays(m) == \A j \in 1..c : \/ \E i \in 1..Len(left[m]) : left[m][i] = children[j]
                                       \/ \E k \in (n + 2 - m)..(n + 1) : children[j] = children[places[k]]
<1>4. PICK good : good = {m \in 0..n : Before(m) /\ Stays(m)}
  OBVIOUS
<1>5. 0 \in good
  <2>1. n + 1 - 0 = n + 1 /\ n + 1 \in 1..(n + 1) /\ 0 \in 0..n
    OBVIOUS
  <2>2. places[n + 1] \in 1..c /\ places[n + 1] <= c /\ Len(left[0]) = c
    BY <1>1, <1>3, <2>1
  <2>3. \A j \in 1..places[n + 1] : left[0][j] = children[j]
    BY <1>3
  <2>4. Before(0)
    BY <2>1, <2>2, <2>3
  <2>5. Stays(0)
    BY <1>3, <2>2
  <2> QED BY <1>4, <2>1, <2>4, <2>5
<1>6. ASSUME NEW m \in 1..n, m - 1 \in good PROVE m \in good
  <2>1. PICK list \in Seq(S) : list = left[m - 1]
    <3>1. m - 1 \in 0..n
      OBVIOUS
    <3> QED BY <1>3, <3>1
  <2>2. PICK size \in Nat : size = Len(list) /\ list \in [1..size -> S]
    BY <2>1, LenProperties
  <2>3. Before(m - 1) /\ Stays(m - 1)
    BY <1>4, <1>6
  <2>4. PICK last \in 1..(n + 1) : last = n + 2 - m /\ last - 1 \in 1..(n + 1) /\ last - 1 = n + 1 - m
    OBVIOUS
  <2>5. n + 1 - (m - 1) = last /\ n + 2 - (m - 1) = last + 1
    BY <2>4
  <2>6. PICK place \in 1..c : place = places[last]
    BY <2>4
  <2>7. PICK next \in 1..c : next = places[last - 1] /\ next < place
    <3>1. last - 1 < last
      BY <2>4
    <3> QED BY <2>4, <2>6, <3>1
  <2>8. place <= size /\ \A j \in 1..place : list[j] = children[j]
    BY <2>1, <2>2, <2>3, <2>5, <2>6
  <2>9. \A j \in 1..c : \/ \E i \in 1..size : list[i] = children[j]
                        \/ \E k \in (last + 1)..(n + 1) : children[j] = children[places[k]]
    BY <2>1, <2>2, <2>3, <2>5
  <2>10. place \in 1..size /\ size - 1 \in Nat
    BY <2>8
  <2>11. PICK rest : rest = Without(list, place)
    OBVIOUS
  <2>12. /\ rest \in [1..(size - 1) -> S]
         /\ \A j \in 1..(place - 1) : rest[j] = list[j]
         /\ \A j \in 1..size : j # place => \E i \in 1..(size - 1) : rest[i] = list[j]
    <3>1. list \in [1..size -> S] /\ place \in 1..size
      BY <2>2, <2>10
    <3>2. Without(list, place) \in [1..(size - 1) -> S] /\ Loses(Without(list, place), list, size, place)
      BY <3>1, WithoutFacts
    <3> QED BY <2>11, <3>2 DEF Loses
  <2>13. left[m] = rest /\ Len(rest) = size - 1
    <3>1. left[m] = rest
      BY <1>3, <2>1, <2>4, <2>6, <2>11
    <3> QED BY <2>10, <2>12, <3>1, FunctionsAreLists
  <2>14. Before(m)
    <3>1. next <= size - 1
      BY <2>7, <2>8
    <3>2. ASSUME NEW j \in 1..next PROVE rest[j] = children[j]
      <4>1. j \in 1..(place - 1) /\ j \in 1..place
        BY <2>7
      <4> QED BY <2>8, <2>12, <4>1
    <3> QED BY <2>4, <2>7, <2>13, <3>1, <3>2
  <2>15. ASSUME NEW j \in 1..c
         PROVE  \/ \E i \in 1..(size - 1) : rest[i] = children[j]
                \/ \E k \in last..(n + 1) : children[j] = children[places[k]]
    <3>1. CASE \E k \in (last + 1)..(n + 1) : children[j] = children[places[k]]
      <4>1. \A k \in (last + 1)..(n + 1) : k \in last..(n + 1)
        OBVIOUS
      <4> QED BY <3>1, <4>1
    <3>2. CASE \E i \in 1..size : list[i] = children[j]
      <4>1. PICK i \in 1..size : list[i] = children[j]
        BY <3>2
      <4>2. CASE i = place
        <5>1. place \in 1..place /\ last \in last..(n + 1)
          OBVIOUS
        <5>2. children[j] = children[places[last]]
          BY <2>6, <2>8, <4>1, <4>2, <5>1
        <5> QED BY <5>1, <5>2
      <4>3. CASE i # place
        <5>1. PICK k \in 1..(size - 1) : rest[k] = list[i]
          BY <2>12, <4>3
        <5> QED BY <4>1, <5>1
      <4> QED BY <4>2, <4>3
    <3> QED BY <2>9, <3>1, <3>2
  <2>16. Stays(m)
    BY <2>4, <2>13, <2>15
  <2>17. m \in 0..n
    OBVIOUS
  <2> HIDE DEF Before, Stays
  <2> QED BY <1>4, <2>14, <2>16, <2>17
<1>7. n \in good
  <2> HIDE DEF Before, Stays
  <2>1. \A m \in 1..n : m - 1 \in good => m \in good
    BY <1>6
  <2>2. \A m \in 0..n : m \in good
    BY <1>5, <2>1, UpTo
  <2> QED BY <2>2
<1>8. PICK list \in Seq(S) : list = left[n]
  <2>1. n \in 0..n
    OBVIOUS
  <2> QED BY <1>3, <2>1
<1>9. n + 2 - n = 2
  OBVIOUS
<1>10. \A j \in 1..c : \/ \E i \in 1..Len(list) : list[i] = children[j]
                       \/ \E k \in 2..(n + 1) : children[j] = children[places[k]]
  BY <1>4, <1>7, <1>8, <1>9
<1>11. DOMAIN list = 1..Len(list)
  BY LenProperties
<1> QED BY <1>3, <1>8, <1>10, <1>11 DEF Lists!ToSet, Deletes

\* Children without repetitions, and targets among them without repetitions.
Among(siblings, c, at, n) ==
  /\ siblings \in [1..c -> Nat] /\ \A j, k \in 1..c : j < k => siblings[j] < siblings[k]
  /\ at \in [1..n -> Nat] /\ \A j, k \in 1..n : j # k => at[j] # at[k]
  /\ \A k \in 1..n : \E p \in 1..c : siblings[p] = at[k]

\* The places of the targets, in order, each of which has one.
Placed(places, siblings, c, at, n) ==
  /\ places \in [1..n -> 1..c] /\ \A j, k \in 1..n : j < k => places[j] < places[k]
  /\ \A m \in 1..n : \E k \in 1..n : siblings[places[m]] = at[k]
  /\ \A k \in 1..n : \E m \in 1..n : siblings[places[m]] = at[k]

LEMMA PlacesFacts ==
  ASSUME NEW c \in Nat, NEW n \in Nat, NEW siblings, NEW at, Among(siblings, c, at, n)
  PROVE  Placed(Places(siblings, at), siblings, c, at, n)
<1> DEFINE PlaceOf(k) == CHOOSE place \in DOMAIN siblings : siblings[place] = at[k]
           Precedes(j, k) == PlaceOf(j) < PlaceOf(k) \/ (PlaceOf(j) = PlaceOf(k) /\ j < k)
<1>1. PICK before : before = {pair \in (DOMAIN at) \X (DOMAIN at) : Precedes(pair[1], pair[2])}
  OBVIOUS
<1>2. PICK order : order = Arranged(DOMAIN at, before)
  OBVIOUS
<1>3. PICK places : places = [m \in DOMAIN order |-> PlaceOf(order[m])]
  OBVIOUS
<1>4. Places(siblings, at) = places
  BY <1>1, <1>2, <1>3 DEF Places
<1>5. DOMAIN at = 1..n /\ DOMAIN siblings = 1..c
  BY DEF Among
<1>6. ASSUME NEW k \in 1..n PROVE PlaceOf(k) \in 1..c /\ siblings[PlaceOf(k)] = at[k]
  <2>1. \E p \in DOMAIN siblings : siblings[p] = at[k]
    BY <1>5 DEF Among
  <2> QED BY <1>5, <2>1
<1> HIDE DEF PlaceOf
<1>7. Orders(before, 1..n)
  <2>1. \A j, k \in 1..n : <<j, k>> \in before <=> Precedes(j, k)
    BY <1>1, <1>5
  <2>2. \A j \in 1..n : ~Precedes(j, j)
    BY <1>6
  <2>3. \A j, k \in 1..n : j # k => Precedes(j, k) \/ Precedes(k, j)
    BY <1>6
  <2>4. ASSUME NEW i \in 1..n, NEW j \in 1..n, NEW k \in 1..n, Precedes(i, j), Precedes(j, k)
        PROVE  Precedes(i, k)
    <3>1. PlaceOf(i) \in Nat /\ PlaceOf(j) \in Nat /\ PlaceOf(k) \in Nat
      BY <1>6
    <3> QED BY <2>4, <3>1
  <2> HIDE DEF Precedes
  <2> QED BY <2>1, <2>2, <2>3, <2>4 DEF Orders
<1>8. IsFiniteSet(1..n) /\ Cardinality(1..n) = n
  BY FS_Interval
<1>9. /\ order \in [1..n -> 1..n]
      /\ \A j, k \in 1..n : j < k => <<order[j], order[k]>> \in before
      /\ \A k \in 1..n : \E m \in 1..n : order[m] = k
  <2>1. PICK all : all = 1..n
    OBVIOUS
  <2>2. order = Arranged(all, before) /\ Orders(before, all) /\ IsFiniteSet(all) /\ Cardinality(all) = n
    BY <1>2, <1>5, <1>7, <1>8, <2>1
  <2>3. /\ order \in [1..n -> all]
        /\ \A j, k \in 1..n : j < k => <<order[j], order[k]>> \in before
        /\ \A k \in all : \E m \in 1..n : order[m] = k
    BY <2>2, ArrangedLists
  <2> QED BY <2>1, <2>3
<1>10. DOMAIN places = 1..n /\ \A m \in 1..n : places[m] = PlaceOf(order[m]) /\ order[m] \in 1..n
  BY <1>3, <1>9
<1>11. places \in [1..n -> 1..c]
  <2>1. \A m \in 1..n : places[m] \in 1..c
    BY <1>6, <1>10
  <2>2. places = [m \in 1..n |-> places[m]]
    BY <1>3, <1>9
  <2> QED BY <2>1, <2>2
<1>12. ASSUME NEW j \in 1..n, NEW k \in 1..n, j < k PROVE places[j] < places[k]
  <2>1. PICK a \in 1..n, b \in 1..n : a = order[j] /\ b = order[k] /\ <<a, b>> \in before
    BY <1>9, <1>12
  <2>2. Precedes(a, b)
    BY <1>1, <2>1
  <2>3. a # b
    BY <1>6, <2>2
  <2>4. PlaceOf(a) # PlaceOf(b)
    BY <1>6, <2>3 DEF Among
  <2> QED BY <1>10, <2>1, <2>2, <2>4
<1>13. ASSUME NEW m \in 1..n PROVE siblings[places[m]] = at[order[m]] /\ order[m] \in 1..n
  BY <1>6, <1>10
<1>14. ASSUME NEW k \in 1..n PROVE \E m \in 1..n : siblings[places[m]] = at[k]
  <2>1. PICK m \in 1..n : order[m] = k
    BY <1>9
  <2> QED BY <1>13, <2>1
<1> QED BY <1>4, <1>11, <1>12, <1>13, <1>14 DEF Placed

\* A merge deletes targets, but not the first of them.
LEMMA DeletedFacts ==
  ASSUME NEW c \in Nat, NEW n \in Nat \ {0}, NEW siblings, NEW at, Among(siblings, c, at, n)
  PROVE  \A s \in Deleted(siblings, at) :
           s \in Lists!ToSet(at) /\ s # Sets!Min(Lists!ToSet(at))
<1>1. PICK places : places = Places(siblings, at)
  OBVIOUS
<1>2. /\ places \in [1..n -> 1..c]
      /\ \A j, k \in 1..n : j < k => places[j] < places[k]
      /\ \A m \in 1..n : \E k \in 1..n : siblings[places[m]] = at[k]
      /\ \A k \in 1..n : \E m \in 1..n : siblings[places[m]] = at[k]
  <2>1. n \in Nat
    OBVIOUS
  <2>2. Placed(places, siblings, c, at, n)
    BY <1>1, <2>1, PlacesFacts
  <2> QED BY <2>2 DEF Placed
<1>3. PICK rest \in Nat : n = rest + 1
  <2>1. n - 1 \in Nat /\ n = (n - 1) + 1
    OBVIOUS
  <2> QED BY <2>1
<1>4. /\ siblings \in [1..c -> Nat] /\ \A j, k \in 1..c : j < k => siblings[j] < siblings[k]
      /\ DOMAIN siblings = 1..c /\ DOMAIN at = 1..n /\ at \in [1..n -> Nat]
  BY DEF Among
<1>5. \A j \in 1..c : \/ siblings[j] \in Lists!ToSet(RemoveMerged(siblings, places))
                      \/ \E k \in 2..n : siblings[j] = siblings[places[k]]
  <2>1. places \in [1..(rest + 1) -> 1..c] /\ siblings \in [1..c -> Nat]
        /\ \A j, k \in 1..(rest + 1) : j < k => places[j] < places[k]
    BY <1>2, <1>3, <1>4
  <2>2. Deletes(RemoveMerged(siblings, places), siblings, c, places, rest)
    BY <2>1, RemovedFacts
  <2> QED BY <1>3, <2>2 DEF Deletes
<1>6. PICK targets : targets = Lists!ToSet(at)
  OBVIOUS
<1>7. targets = {at[k] : k \in 1..n}
  BY <1>4, <1>6 DEF Lists!ToSet
<1>8. 1 \in 1..n
  OBVIOUS
<1>9. PICK first \in Nat : first = siblings[places[1]]
  BY <1>2, <1>4, <1>8
<1>10. first \in targets
  BY <1>2, <1>7, <1>8, <1>9
<1>11. ASSUME NEW i \in targets PROVE first <= i
  <2>1. PICK k \in 1..n : i = at[k]
    BY <1>7
  <2>2. PICK m \in 1..n : siblings[places[m]] = i
    BY <1>2, <2>1
  <2>3. m = 1 \/ 1 < m
    OBVIOUS
  <2>4. CASE m = 1
    BY <1>9, <2>2, <2>4
  <2>5. CASE 1 < m
    <3>1. places[1] < places[m] /\ places[1] \in 1..c /\ places[m] \in 1..c
      BY <1>2, <1>8, <2>5
    <3>2. siblings[places[1]] < siblings[places[m]] /\ siblings[places[m]] \in Nat
      BY <1>4, <3>1
    <3> QED BY <1>9, <2>2, <3>2
  <2> QED BY <2>3, <2>4, <2>5
<1>12. Sets!Min(targets) = first
  <2>1. targets \in SUBSET Nat /\ targets # {} /\ IsFiniteSet(targets)
    <3>1. at \in Surjection(1..n, targets)
      BY <1>4, <1>7 DEF Surjection
    <3>2. IsFiniteSet(1..n)
      BY FS_Interval
    <3>3. IsFiniteSet(targets)
      BY <3>1, <3>2, FS_Surjection
    <3> QED BY <1>4, <1>7, <1>10, <3>3
  <2>2. PICK least : least = Sets!Min(targets)
    OBVIOUS
  <2>3. least \in targets /\ \A i \in targets : least <= i
    BY <2>1, <2>2, LeastAndGreatest
  <2>4. least \in Nat /\ least <= first /\ first <= least
    BY <1>10, <1>11, <2>1, <2>3
  <2> QED BY <2>2, <2>4
<1>13. ASSUME NEW s \in Deleted(siblings, at) PROVE s \in targets /\ s # first
  <2>1. s \in Lists!ToSet(siblings) /\ s \notin Lists!ToSet(RemoveMerged(siblings, places))
    BY <1>1 DEF Deleted
  <2>2. PICK j \in 1..c : s = siblings[j]
    BY <1>4, <2>1 DEF Lists!ToSet
  <2>3. PICK k \in 2..n : s = siblings[places[k]]
    BY <1>5, <2>1, <2>2
  <2>4. k \in 1..n /\ 1 < k
    OBVIOUS
  <2>5. s \in targets
    BY <1>2, <1>7, <2>3, <2>4
  <2>6. places[1] < places[k] /\ places[1] \in 1..c /\ places[k] \in 1..c
    BY <1>2, <1>8, <2>4
  <2>7. siblings[places[1]] < siblings[places[k]] /\ siblings[places[k]] \in Nat
    BY <1>4, <2>6
  <2>8. s # first
    BY <1>9, <2>3, <2>7
  <2> QED BY <2>5, <2>8
<1> QED BY <1>6, <1>12, <1>13

(***************************************************************************)
(* What an operation on leaves leaves in the tree.                         *)
(***************************************************************************)

\* Every node of t but those of changed is in r, with its name and its codes.
KeepsOthers(t, r, changed) ==
  \A i \in DOMAIN t : i \notin changed =>
    \E j \in DOMAIN r : r[j].name = t[i].name /\ r[j].covered = t[i].covered

\* A code of a tree is one of a node.
LEMMA CodesAre ==
  ASSUME NEW t, NEW x
  PROVE  x \in Codes(t) <=> \E i \in DOMAIN t : x \in Lists!ToSet(t[i].covered)
BY DEF Codes

\* A split of a leaf: the target gives way to its children, which have its codes.
LEMMA SplitKeeps ==
  ASSUME NEW t, IsTree(t), NEW op, Splits(t, op), ListsGiven(op), op.op = "split",
         LastOf(t, Find(t, op.target)) = Find(t, op.target)
  PROVE  /\ KeepsOthers(t, Split(t, op), {Find(t, op.target)})
         /\ (\A k \in DOMAIN op.into : op.into[k].inherits) => Codes(Split(t, op)) = Codes(t)
<1>1. PICK len \in Nat : len = Len(t) /\ DOMAIN t = 1..len
  BY TreeFacts
<1>2. Find(t, op.target) # 0 /\ IsList(op.into) /\ Len(ValidEntries(op)) >= 2
  BY DEF Splits, ListsGiven
<1>3. PICK i \in 1..len : i = Find(t, op.target) /\ LastOf(t, i) = i
  BY <1>1, <1>2, FindFacts
<1>4. PICK entries : entries = ValidEntries(op)
  OBVIOUS
<1>5. PICK c \in Nat : EntriesOf(op, entries, c)
  BY <1>2, <1>4, ValidEntriesFacts
<1>6. PICK r : r = Split(t, op)
  OBVIOUS
<1>7. Expanded(t, i, i, entries, c, r)
  <2>1. i \in 1..Len(t)
    BY <1>1
  <2> QED BY <1>2, <1>3, <1>5, <1>6, <2>1, SplitExpands
<1>8. PICK size \in Nat : size = (i - 1) + (c + 1) + (len - i)
  <2>1. i - 1 \in Nat /\ len - i \in Nat
    OBVIOUS
  <2> QED BY <2>1
<1>9. /\ IsList(r) /\ Len(r) = size
      /\ \A k \in 1..size :
           \/ k < i /\ r[k] = t[k] /\ k \in 1..len
           \/ k = i /\ r[k] = Node(t[i].depth, NoName, <<>>)
           \/ /\ k > i /\ k < i + (c + 1) /\ k - i \in 1..c
              /\ r[k] = Node(t[i].depth + 1, entries[k - i].name,
                             IF entries[k - i].inherits THEN t[i].covered ELSE entries[k - i].covered)
           \/ /\ ~(k < i + (c + 1))
              /\ k - i - c + i \in (i + 1)..len
              /\ r[k] = t[k - i - c + i]
  BY <1>1, <1>7, <1>8 DEF Expanded
<1>10. DOMAIN r = 1..size
  BY <1>9, ListFacts
<1>11. ASSUME NEW h \in 1..len, h # i PROVE \E k \in 1..size : r[k] = t[h]
  <2>1. CASE h < i
    <3>1. h \in 1..size /\ h < i + (c + 1)
      BY <1>8, <2>1
    <3> QED BY <1>9, <2>1, <3>1
  <2>2. CASE h > i
    <3>1. PICK k \in 1..size : k = h + c
      BY <1>8, <2>2
    <3>2. ~(k < i + (c + 1)) /\ ~(k < i) /\ ~(k = i) /\ k - i - c + i = h
      BY <2>2, <3>1
    <3> QED BY <1>9, <3>2
  <2> QED BY <1>11, <2>1, <2>2
<1>12. KeepsOthers(t, r, {i})
  BY <1>1, <1>10, <1>11 DEF KeepsOthers
<1>13. ASSUME \A k \in DOMAIN op.into : op.into[k].inherits PROVE Codes(r) = Codes(t)
  <2>1. c >= 2 /\ \A k \in 1..c : entries[k].inherits
    BY <1>2, <1>4, <1>5, <1>13 DEF EntriesOf
  <2>2. ASSUME NEW k \in 1..size, NEW x \in Lists!ToSet(r[k].covered)
        PROVE  \E h \in 1..len : x \in Lists!ToSet(t[h].covered)
    <3>1. CASE k < i /\ r[k] = t[k] /\ k \in 1..len
      BY <2>2, <3>1
    <3>2. CASE r[k] = Node(t[i].depth, NoName, <<>>)
      <4>1. r[k].covered = <<>>
        BY <3>2 DEF Node
      <4>2. Lists!ToSet(<<>>) = {}
        BY DEF Lists!ToSet
      <4> QED BY <2>2, <4>1, <4>2
    <3>3. CASE /\ k - i \in 1..c
               /\ r[k] = Node(t[i].depth + 1, entries[k - i].name,
                              IF entries[k - i].inherits THEN t[i].covered ELSE entries[k - i].covered)
      <4>1. r[k].covered = t[i].covered
        BY <2>1, <3>3 DEF Node
      <4> QED BY <2>2, <4>1
    <3>4. CASE k - i - c + i \in (i + 1)..len /\ r[k] = t[k - i - c + i]
      <4>1. k - i - c + i \in 1..len
        BY <3>4
      <4> QED BY <2>2, <3>4, <4>1
    <3> QED BY <1>9, <3>1, <3>2, <3>3, <3>4
  <2>3. ASSUME NEW h \in 1..len, NEW x \in Lists!ToSet(t[h].covered)
        PROVE  \E k \in 1..size : x \in Lists!ToSet(r[k].covered)
    <3>1. CASE h # i
      BY <1>11, <2>3, <3>1
    <3>2. CASE h = i
      <4>1. PICK k \in 1..size : k = i + 1
        BY <1>8, <2>1
      <4>2. k > i /\ k < i + (c + 1) /\ k - i = 1
        BY <2>1, <4>1
      <4>3. r[k] = Node(t[i].depth + 1, entries[1].name,
                        IF entries[1].inherits THEN t[i].covered ELSE entries[1].covered)
        BY <1>9, <4>2
      <4>4. entries[1].inherits
        BY <2>1
      <4>5. r[k].covered = t[i].covered
        BY <4>3, <4>4 DEF Node
      <4> QED BY <2>3, <3>2, <4>5
    <3> QED BY <3>1, <3>2
  <2>4. ASSUME NEW x \in Codes(r) PROVE x \in Codes(t)
    <3>1. PICK k \in 1..size : x \in Lists!ToSet(r[k].covered)
      BY <1>10, <2>4, CodesAre
    <3>2. PICK h \in 1..len : x \in Lists!ToSet(t[h].covered)
      BY <2>2, <3>1
    <3> QED BY <1>1, <3>2, CodesAre
  <2>5. ASSUME NEW x \in Codes(t) PROVE x \in Codes(r)
    <3>1. PICK h \in 1..len : x \in Lists!ToSet(t[h].covered)
      BY <1>1, <2>5, CodesAre
    <3>2. PICK k \in 1..size : x \in Lists!ToSet(r[k].covered)
      BY <2>3, <3>1
    <3> QED BY <1>10, <3>2, CodesAre
  <2> QED BY <2>4, <2>5
<1> QED BY <1>3, <1>6, <1>12, <1>13

\* The nodes the targets name, 0 among them for one that is not found.
Targeted(t, op) == {Find(t, op.targets[k]) : k \in DOMAIN op.targets}

\* A merge of leaves, each named once: the others are kept, and without codes of its own
\* the merged node has those of all targets.
LEMMA MergeKeeps ==
  ASSUME NEW t, IsTree(t), NEW op, Merges(t, op), ListsGiven(op), op.op = "merge",
         Distinct(op.targets),
         \A k \in DOMAIN op.targets :
           Find(t, op.targets[k]) # 0 => LastOf(t, Find(t, op.targets[k])) = Find(t, op.targets[k])
  PROVE  /\ KeepsOthers(t, Merge(t, op), Targeted(t, op))
         /\ op.covered = <<>> => Codes(Merge(t, op)) = Codes(t)
<1>1. PICK len \in Nat : len = Len(t) /\ DOMAIN t = 1..len /\ t = [i \in 1..len |-> t[i]]
  BY TreeFacts
<1>2. IsList(op.targets) /\ IsList(op.covered)
  BY DEF ListsGiven
<1>3. PICK at : at = Locations(t, op)
  OBVIOUS
<1>4. PICK n \in Nat \ {0}, p \in 1..len :
        /\ at \in [1..n -> 1..len]
        /\ \A k \in 1..n : Parent(t, at[k]) = p /\ at[k] # 1
  <2>1. IsTree(t) /\ IsList(op.targets) /\ Merges(t, op) /\ at = Locations(t, op)
    BY <1>2, <1>3
  <2>2. \E n \in Nat \ {0} : \E p \in 1..Len(t) :
          /\ at \in [1..n -> 1..Len(t)]
          /\ \A k \in 1..n : Parent(t, at[k]) = p /\ at[k] # 1
    BY <2>1, LocationFacts
  <2> QED BY <1>1, <2>2
\* The targets are different nodes without children.
<1>5. PICK targets :
        targets = Kept(op.targets, {k \in DOMAIN op.targets : op.targets[k] # NoName})
  OBVIOUS
<1>6. /\ DOMAIN targets = 1..n /\ Distinct(targets)
      /\ \A k \in 1..n : /\ at[k] = Find(t, targets[k])
                         /\ \E m \in DOMAIN op.targets : targets[k] = op.targets[m]
  <2>1. at = [k \in DOMAIN targets |-> Find(t, targets[k])]
    BY <1>3, <1>5 DEF Locations
  <2>2. PICK T : T = Lists!ToSet(op.targets)
    OBVIOUS
  <2>3. op.targets \in Seq(T)
    BY <1>2, <2>2 DEF IsList
  <2>4. PICK places \in SUBSET DOMAIN op.targets : targets = Kept(op.targets, places)
    BY <1>5
  <2>5. targets \in Seq(T) /\ Distinct(targets)
    BY <2>3, <2>4, KeptEntries
  <2>6. DOMAIN targets = 1..n
    BY <1>4, <2>1
  <2>7. \A k \in 1..n : targets[k] \in T
    BY <2>5, <2>6, LenProperties, ElementOfSeq
  <2> QED BY <2>1, <2>2, <2>5, <2>6, <2>7 DEF Lists!ToSet
<1>7. ASSUME NEW k \in 1..n
      PROVE  /\ at[k] \in 1..len /\ t[at[k]].name = targets[k]
             /\ LastOf(t, at[k]) = at[k] /\ at[k] \in Targeted(t, op)
  <2>1. at[k] \in 1..len /\ at[k] # 0
    BY <1>4
  <2>2. at[k] = Find(t, targets[k])
    BY <1>6
  <2>3. t[at[k]].name = targets[k]
    BY <2>1, <2>2, FindFacts
  <2>4. PICK m \in DOMAIN op.targets : targets[k] = op.targets[m]
    BY <1>6
  <2> QED BY <2>1, <2>2, <2>3, <2>4 DEF Targeted
<1>8. \A j, k \in 1..n : j # k => at[j] # at[k]
  BY <1>6, <1>7 DEF Distinct
<1>9. PICK first : first = Sets!Min(Lists!ToSet(at))
  OBVIOUS
<1>10. PICK kin : kin = {i \in 1..len : i > 1 /\ Parent(t, i) = p}
  OBVIOUS
<1>11. 1 \in 1..n /\ Parent(t, at[1]) = p
  BY <1>4
<1>12. PICK siblings : siblings = Children(t, Parent(t, at[1]))
  OBVIOUS
<1>13. PICK c \in Nat : Among(siblings, c, at, n)
  <2>1. siblings = InOrder(kin)
    BY <1>1, <1>10, <1>11, <1>12 DEF Children
  <2>2. kin \in SUBSET Nat /\ IsFiniteSet(kin)
    <3>1. IsFiniteSet(1..len)
      BY FS_Interval
    <3>2. kin \in SUBSET (1..len)
      BY <1>10
    <3>3. IsFiniteSet(kin)
      BY <3>1, <3>2, FS_Subset
    <3> QED BY <3>2, <3>3
  <2>3. PICK c \in Nat : c = Cardinality(kin)
    BY <2>2, FS_CardinalityType
  <2>4. /\ siblings \in [1..c -> kin]
        /\ \A j, k \in 1..c : j < k => siblings[j] < siblings[k]
        /\ \A i \in kin : \E m \in 1..c : siblings[m] = i
    BY <2>1, <2>2, <2>3, InOrderLists
  <2>5. \A k \in 1..n : at[k] \in kin
    <3> SUFFICES ASSUME NEW k \in 1..n PROVE at[k] \in kin
      OBVIOUS
    <3>1. at[k] \in 1..len /\ at[k] # 1 /\ Parent(t, at[k]) = p
      BY <1>4
    <3> QED BY <1>10, <3>1
  <2>6. siblings \in [1..c -> Nat] /\ at \in [1..n -> Nat]
    <3>1. \A i \in kin : i \in Nat
      BY <2>2
    <3>2. \A i \in 1..len : i \in Nat
      OBVIOUS
    <3>3. siblings \in [1..c -> Nat]
      BY <2>4, <3>1
    <3>4. at \in [1..n -> Nat]
      BY <1>4, <3>2
    <3> QED BY <3>3, <3>4
  <2> QED BY <1>8, <2>4, <2>5, <2>6 DEF Among
<1>14. PICK deleted : deleted = Deleted(siblings, at)
  OBVIOUS
<1>15. PICK nodes : nodes = Lists!ToSet(at)
  OBVIOUS
<1>16. nodes = {at[k] : k \in 1..n} /\ nodes \in SUBSET (1..len) /\ nodes \in SUBSET Targeted(t, op)
  BY <1>4, <1>7, <1>15 DEF Lists!ToSet
<1>17. deleted \in SUBSET (nodes \ {first})
  BY <1>9, <1>13, <1>14, <1>15, DeletedFacts
<1>18. first \in nodes
  <2>1. IsFiniteSet(1..len)
    BY FS_Interval
  <2>2. IsFiniteSet(nodes)
    BY <1>16, <2>1, FS_Subset
  <2>3. nodes \in SUBSET Nat /\ nodes # {}
    BY <1>11, <1>16
  <2> QED BY <1>9, <1>15, <2>2, <2>3, LeastAndGreatest
<1>19. \A s \in nodes : LastOf(t, s) = s /\ s \in 1..len
  BY <1>7, <1>16
<1>20. PICK merged :
         merged = Node(t[first].depth,
                       IF op.name = NoName THEN Lists!FlattenSeq(op.targets) ELSE op.name,
                       IF op.covered = <<>> THEN JoinedCodes(t, at) ELSE op.covered)
  OBVIOUS
<1>21. PICK gone :
         gone = ((first + 1)..LastOf(t, first)) \cup UNION {i..LastOf(t, i) : i \in deleted}
  OBVIOUS
<1>22. PICK t2 : t2 = [t EXCEPT ![first] = merged]
  OBVIOUS
<1>23. PICK places : places = (1..len) \ gone
  OBVIOUS
<1>24. PICK r : r = Merge(t, op)
  OBVIOUS
<1>25. r = Kept(t2, places)
  BY <1>1, <1>3, <1>9, <1>12, <1>14, <1>20, <1>21, <1>22, <1>23, <1>24 DEF Merge
\* Nothing but targets goes, and the first of them stays.
<1>26. gone = deleted
  <2>1. LastOf(t, first) = first /\ first \in Nat
    BY <1>18, <1>19
  <2>2. (first + 1)..LastOf(t, first) = {}
    BY <2>1
  <2>3. ASSUME NEW i \in deleted PROVE i..LastOf(t, i) = {i}
    <3>1. LastOf(t, i) = i /\ i \in Nat
      BY <1>17, <1>19
    <3> QED BY <3>1
  <2> QED BY <1>21, <2>2, <2>3
<1>27. first \in places /\ \A i \in 1..len : i \notin nodes => i \in places
  BY <1>17, <1>18, <1>19, <1>23, <1>26
<1>28. /\ t2 = [i \in 1..len |-> IF i = first THEN merged ELSE t[i]]
       /\ t2[first] = merged /\ \A i \in 1..len : i # first => t2[i] = t[i]
  BY <1>1, <1>18, <1>19, <1>22
<1>29. /\ \A i \in places : \E j \in DOMAIN r : r[j] = t2[i]
       /\ \A j \in DOMAIN r : \E i \in places : r[j] = t2[i]
  <2>1. PICK C : C = {t2[i] : i \in 1..len}
    OBVIOUS
  <2>2. t2 \in [1..len -> C]
    BY <1>28, <2>1
  <2>3. t2 \in Seq(C) /\ places \in SUBSET DOMAIN t2
    BY <1>23, <2>2, FunctionsAreLists
  <2>4. /\ \A j \in DOMAIN Kept(t2, places) :
             InOrder(places)[j] \in places /\ Kept(t2, places)[j] = t2[InOrder(places)[j]]
        /\ \A i \in places : \E j \in DOMAIN Kept(t2, places) : Kept(t2, places)[j] = t2[i]
    BY <2>3, KeptEntries
  <2> QED BY <1>25, <2>4
<1>30. KeepsOthers(t, r, Targeted(t, op))
  <2> SUFFICES ASSUME NEW i \in 1..len, i \notin Targeted(t, op)
               PROVE  \E j \in DOMAIN r : r[j].name = t[i].name /\ r[j].covered = t[i].covered
    BY <1>1 DEF KeepsOthers
  <2>1. i \notin nodes /\ i \in places /\ i # first
    BY <1>16, <1>18, <1>27
  <2>2. PICK j \in DOMAIN r : r[j] = t2[i]
    BY <1>29, <2>1
  <2> QED BY <1>28, <2>1, <2>2
<1>31. ASSUME op.covered = <<>> PROVE Codes(r) = Codes(t)
  <2>1. \A x : x \in Lists!ToSet(merged.covered) <=> \E i \in nodes : x \in Lists!ToSet(t[i].covered)
    <3>1. merged.covered = JoinedCodes(t, at)
      BY <1>20, <1>31 DEF Node
    <3>2. Lists!ToSet(JoinedCodes(t, at)) = UNION {Lists!ToSet(t[at[k]].covered) : k \in 1..n}
      <4>1. n \in Nat /\ at \in [1..n -> 1..Len(t)]
        BY <1>1, <1>4
      <4> QED BY <4>1, JoinedFacts
    <3> QED BY <1>16, <3>1, <3>2
  <2>2. ASSUME NEW x \in Codes(r) PROVE x \in Codes(t)
    <3>1. PICK j \in DOMAIN r : x \in Lists!ToSet(r[j].covered)
      BY <2>2, CodesAre
    <3>2. PICK i \in places : r[j] = t2[i]
      BY <1>29
    <3>3. i \in 1..len
      BY <1>23
    <3>4. PICK h \in 1..len : x \in Lists!ToSet(t[h].covered)
      <4>1. CASE i = first
        BY <1>16, <1>28, <2>1, <3>1, <3>2, <4>1
      <4>2. CASE i # first
        BY <1>28, <3>1, <3>2, <3>3, <4>2
      <4> QED BY <4>1, <4>2
    <3> QED BY <1>1, <3>4, CodesAre
  <2>3. ASSUME NEW x \in Codes(t) PROVE x \in Codes(r)
    <3>1. PICK i \in 1..len : x \in Lists!ToSet(t[i].covered)
      BY <1>1, <2>3, CodesAre
    <3>2. PICK h \in places : x \in Lists!ToSet(t2[h].covered)
      <4>1. CASE i \in nodes
        BY <1>27, <1>28, <2>1, <3>1, <4>1
      <4>2. CASE i \notin nodes
        BY <1>18, <1>27, <1>28, <3>1, <4>2
      <4> QED BY <4>1, <4>2
    <3>3. PICK j \in DOMAIN r : r[j] = t2[h]
      BY <1>29
    <3> QED BY <3>2, <3>3, CodesAre
  <2> QED BY <2>2, <2>3
<1> QED BY <1>24, <1>30, <1>31
=============================================================================
