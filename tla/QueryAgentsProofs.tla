------------------------- MODULE QueryAgentsProofs -------------------------
(***************************************************************************)
(* Proofs about the two query agents, for any number of results,           *)
(* directions, rounds and any targets: a result is offered to the          *)
(* evaluator once, and what is saved stays close to the target.  Last,     *)
(* what SearchResultsProofs shows of a search, wherever it is called from. *)
(***************************************************************************)
EXTENDS QueryAgents, SearchResultsProofs

(***************************************************************************)
(* QueryAgent: the invariant.                                              *)
(***************************************************************************)

\* The rounds whose search is over: a round is counted before it is searched.
RoundsSearched == IF node \in {"refine", "search"} THEN round - 1 ELSE round

\* A round begins and a refinement turns only below the bounds.
CountersInv ==
  /\ node = "generate" => round = 0 \/ round < MaxIterations
  /\ node \in {"refine", "search"} => round > 0
  /\ node = "refine" => turn < Larger(1, MaxTurns)

\* The first search saves up to the target, each later one at most one beyond it.
SavedInv ==
  \A d \in Directions :
    IF RoundsSearched = 0 THEN saved[d] = 0
                          ELSE saved[d] < Larger(1, Target) + RoundsSearched

\* What was offered has been seen, and was offered once.
OfferedInv ==
  \A d \in Directions, s \in Snippets :
    offers[d][s] = 0 \/ (offers[d][s] = 1 /\ s \in seenIds[d])

ApiInv == TypeOK /\ CountersInv /\ SavedInv /\ OfferedInv

\* The evaluator's selection is a number of examples, at most MaxSelected.
LEMMA EvaluatedType ==
  ASSUME NEW selection \in Selections
  PROVE  Evaluated(selection) \in Nat /\ Evaluated(selection) <= MaxSelected
<1>1. PICK n \in 0..MaxSelected + 1 : selection \in [1..n -> Entries]
  BY DEF Selections
<1>2. selection \in Seq(Entries)
  BY <1>1, SeqDef DEF MaxSelected
<1>3. PICK m \in Nat : m = Len(selection)
  BY <1>2, LenProperties
<1>4. PICK k \in Nat : k = Smaller(m, MaxSelected) /\ k <= 3
  BY DEF Smaller, MaxSelected
<1>5. PICK texts : texts = {i \in 1..Smaller(m, MaxSelected) : selection[i] = "text"}
  OBVIOUS
<1>6. texts \in SUBSET (1..k)
  BY <1>4, <1>5
<1>7. IsFiniteSet(1..k) /\ Cardinality(1..k) = k
  BY FS_Interval
<1>8. Cardinality(texts) \in Nat /\ Cardinality(texts) <= k
  BY <1>6, <1>7, FS_Subset, FS_CardinalityType
<1>9. Evaluated(selection) = Cardinality(texts)
  BY <1>3, <1>5 DEF Evaluated
<1> QED BY <1>4, <1>8, <1>9 DEF MaxSelected

\* Each round ends with the target, or with one example more than before.
LEMMA KeepBound ==
  ASSUME NEW count \in Nat, NEW selected \in Nat
  PROVE  /\ Keep(count, selected) \in Nat
         /\ Keep(count, selected) <= count + 1 \/ Keep(count, selected) <= Target
BY BoundsAssumption DEF Keep, Smaller

\* StateType does not declare the key of the switch, so every round is refined.
LEMMA NeverSkips == ~SkipRead
BY DEF SkipRead, StateGet, StateKeys

LEMMA BoundsTyped ==
  /\ Larger(1, MaxTurns) \in Nat /\ Larger(1, MaxTurns) >= 1 /\ Larger(1, MaxTurns) >= MaxTurns
  /\ Larger(1, MaxIterations) \in Nat /\ Larger(1, MaxIterations) >= 1
  /\ Larger(1, MaxIterations) >= MaxIterations
  /\ Larger(1, Target) \in Nat /\ Larger(1, Target) >= 1 /\ Larger(1, Target) >= Target
BY BoundsAssumption DEF Larger

LEMMA ApiStarts == ASSUME NEW start \in {"generate", "done"}, InitAt(start) PROVE ApiInv
<1> USE BoundsTyped DEF InitAt
<1>1. TypeOK
  BY DEF TypeOK, Nodes
<1>2. CountersInv
  BY DEF CountersInv
<1>3. SavedInv
  BY DEF SavedInv, RoundsSearched
<1>4. OfferedInv
  BY DEF OfferedInv
<1> QED BY <1>1, <1>2, <1>3, <1>4 DEF ApiInv

\* generate_queries_node begins a round.
LEMMA GenerateKeeps == ApiInv /\ Generate => ApiInv'
<1> SUFFICES ASSUME ApiInv, Generate PROVE ApiInv'
  OBVIOUS
<1> USE DEF ApiInv, Generate, found
<1>1. round \in Nat /\ round' = round + 1 /\ node = "generate" /\ node' = "refine" /\ turn' = 0
  BY BoundsTyped, NeverSkips DEF TypeOK
<1>2. round' \in 0..Larger(1, MaxIterations)
  BY <1>1, BoundsTyped, BoundsAssumption DEF CountersInv
<1>3. hasQueries' \in [Directions -> BOOLEAN]
  BY DEF MakeQuery
<1>4. TypeOK'
  BY <1>1, <1>2, <1>3, BoundsTyped DEF TypeOK, Nodes
<1>5. CountersInv'
  BY <1>1, BoundsTyped DEF CountersInv
<1>6. SavedInv'
  <2>1. RoundsSearched' = round /\ RoundsSearched = round
    BY <1>1 DEF RoundsSearched
  <2> QED BY <2>1 DEF SavedInv
<1>7. OfferedInv'
  BY DEF OfferedInv
<1> QED BY <1>4, <1>5, <1>6, <1>7

\* refine_queries_node counts a turn of the round.
LEMMA RefineKeeps == ApiInv /\ Refine => ApiInv'
<1> SUFFICES ASSUME ApiInv, Refine PROVE ApiInv'
  OBVIOUS
<1> USE DEF ApiInv, Refine, found
<1>1. /\ node = "refine" /\ node' \in {"search", "refine"}
      /\ turn \in Nat /\ turn' = turn + 1
      /\ node' = "refine" => ~(turn' >= MaxTurns)
  BY BoundsTyped DEF TypeOK
<1>2. turn' \in 0..Larger(1, MaxTurns)
  BY <1>1, BoundsTyped DEF CountersInv
<1>3. hasQueries' \in [Directions -> BOOLEAN] /\ refineDone' \in [Directions -> BOOLEAN]
  OBVIOUS
<1>4. TypeOK'
  BY <1>1, <1>2, <1>3 DEF TypeOK, Nodes
<1>5. CountersInv'
  BY <1>1, BoundsTyped, BoundsAssumption DEF CountersInv
<1>6. SavedInv'
  <2>1. RoundsSearched' = RoundsSearched
    BY <1>1 DEF RoundsSearched
  <2> QED BY <2>1 DEF SavedInv
<1>7. OfferedInv'
  BY DEF OfferedInv
<1> QED BY <1>4, <1>5, <1>6, <1>7

\* search_and_evaluate_node offers what is new, marks all it found as seen, and saves
\* the examples of one round.
LEMMA SearchKeeps == ApiInv /\ SearchAndEvaluate => ApiInv'
<1> SUFFICES ASSUME ApiInv, SearchAndEvaluate PROVE ApiInv'
  OBVIOUS
<1> USE DEF ApiInv
<1>1. PICK replies \in [Directions -> {SearchWithApi(reply) : reply \in Replies}],
           blank \in [Directions -> SUBSET Snippets],
           selected \in [Directions -> {Evaluated(selection) : selection \in Selections}] :
        /\ saved' = [d \in Directions |-> Keep(saved[d], selected[d])]
        /\ seenIds' = [d \in Directions |-> seenIds[d] \cup replies[d]]
        /\ offers' = [d \in Directions |-> [s \in Snippets |->
             IF s \in Candidates(d, replies[d], blank[d])
               THEN offers[d][s] + 1 ELSE offers[d][s]]]
        /\ node' = Route(saved')
  BY DEF SearchAndEvaluate
<1>2. node = "search" /\ UNCHANGED <<hasQueries, refineDone, turn, round>>
  BY DEF SearchAndEvaluate
<1>3. node' \in {"output", "generate"} /\ (node' = "generate" => ~(round >= MaxIterations))
  BY <1>1 DEF Route
<1>4. ASSUME NEW d \in Directions
      PROVE  /\ selected[d] \in Nat /\ saved[d] \in Nat
             /\ replies[d] \in SUBSET Snippets
  <2>1. \A reply \in Replies : SearchWithApi(reply) \in SUBSET Snippets
    BY DEF SearchWithApi, Replies
  <2>2. selected[d] \in {Evaluated(selection) : selection \in Selections}
    OBVIOUS
  <2> QED BY <2>1, <2>2, EvaluatedType DEF TypeOK
<1>5. ASSUME NEW d \in Directions
      PROVE  /\ saved'[d] \in Nat
             /\ saved'[d] <= saved[d] + 1 \/ saved'[d] <= Target
  BY <1>1, <1>4, KeepBound
<1>6. round \in Nat /\ round > 0 /\ round' = round
  BY <1>2, BoundsTyped DEF TypeOK, CountersInv
<1>7. TypeOK'
  <2>1. saved' \in [Directions -> Nat]
    BY <1>1, <1>5
  <2>2. seenIds' \in [Directions -> SUBSET Snippets]
    BY <1>1, <1>4 DEF TypeOK
  <2>3. offers' \in [Directions -> [Snippets -> Nat]]
    BY <1>1 DEF TypeOK
  <2> QED BY <1>2, <1>3, <2>1, <2>2, <2>3 DEF TypeOK, Nodes
<1>8. CountersInv'
  BY <1>2, <1>3, <1>6, BoundsAssumption DEF CountersInv
<1>9. SavedInv'
  <2>1. RoundsSearched' = round /\ RoundsSearched = round - 1
    BY <1>2, <1>3, <1>6 DEF RoundsSearched
  <2>2. ASSUME NEW d \in Directions PROVE saved'[d] < Larger(1, Target) + round
    <3>1. IF round - 1 = 0 THEN saved[d] = 0 ELSE saved[d] < Larger(1, Target) + (round - 1)
      BY <2>1 DEF SavedInv
    <3> QED BY <1>4, <1>5, <1>6, <3>1, BoundsTyped, BoundsAssumption
  <2> QED BY <1>6, <2>1, <2>2 DEF SavedInv
<1>10. OfferedInv'
  <2> SUFFICES ASSUME NEW d \in Directions, NEW s \in Snippets
               PROVE  offers'[d][s] = 0 \/ (offers'[d][s] = 1 /\ s \in seenIds'[d])
    BY DEF OfferedInv
  <2>1. offers'[d][s] = IF s \in Candidates(d, replies[d], blank[d])
                          THEN offers[d][s] + 1 ELSE offers[d][s]
    BY <1>1
  <2>2. seenIds'[d] = seenIds[d] \cup replies[d]
    BY <1>1
  <2>3. s \in Candidates(d, replies[d], blank[d]) => s \in replies[d] /\ s \notin seenIds[d]
    BY DEF Candidates
  <2>4. offers[d][s] = 0 \/ (offers[d][s] = 1 /\ s \in seenIds[d])
    BY DEF OfferedInv
  <2> QED BY <2>1, <2>2, <2>3, <2>4
<1> QED BY <1>7, <1>8, <1>9, <1>10

\* The other nodes save and offer nothing.
LEMMA EndKeeps == ApiInv /\ (BuildOutput \/ Raise) => ApiInv'
<1> SUFFICES ASSUME ApiInv, BuildOutput \/ Raise PROVE ApiInv'
  OBVIOUS
<1> USE DEF ApiInv, BuildOutput, Raise, found
<1>1. node' \in {"done", "failed"} /\ UNCHANGED <<saved, seenIds, offers, round, turn>>
  OBVIOUS
<1>2. TypeOK' /\ CountersInv' /\ OfferedInv'
  BY <1>1 DEF TypeOK, Nodes, CountersInv, OfferedInv
<1>3. SavedInv'
  <2>1. round \in Nat
    BY BoundsTyped DEF TypeOK
  <2>2. RoundsSearched' = round
    BY <1>1 DEF RoundsSearched
  <2>3. ASSUME NEW d \in Directions
        PROVE  IF round = 0 THEN saved[d] = 0 ELSE saved[d] < Larger(1, Target) + round
    <3>1. saved[d] \in Nat
      BY DEF TypeOK
    <3>2. RoundsSearched = IF node \in {"refine", "search"} THEN round - 1 ELSE round
      BY DEF RoundsSearched
    <3>3. node \in {"refine", "search"} => round > 0
      BY DEF CountersInv
    <3>4. IF RoundsSearched = 0 THEN saved[d] = 0
                                ELSE saved[d] < Larger(1, Target) + RoundsSearched
      BY DEF SavedInv
    <3> QED BY <2>1, <3>1, <3>2, <3>3, <3>4, BoundsTyped
  <2> QED BY <1>1, <2>2, <2>3 DEF SavedInv
<1> QED BY <1>2, <1>3

\* Whichever agent is called, its caller's spec keeps the invariant.
THEOREM ApiInductive == AgentsSpec => []ApiInv
<1>1. AgentsInit => ApiInv
  BY ApiStarts DEF AgentsInit
<1>2. ApiInv /\ UNCHANGED apiVars => ApiInv'
  BY DEF ApiInv, apiVars, TypeOK, CountersInv, SavedInv, RoundsSearched, OfferedInv
<1>3. ApiInv /\ [AgentsNext]_agentsVars => ApiInv'
  BY <1>2, GenerateKeeps, RefineKeeps, SearchKeeps, EndKeeps DEF AgentsNext, agentsVars, Next
<1> QED BY <1>1, <1>3, PTL DEF AgentsSpec

\* The evaluator is never given a snippet twice in a direction, in however many rounds
\* the searches return it: what a round found counts as seen in all later ones.
THEOREM NeverOfferedTwice == AgentsSpec => []OfferedOnce
<1>1. ApiInv => OfferedOnce
  BY DEF ApiInv, OfferedInv, OfferedOnce
<1> QED BY <1>1, ApiInductive, PTL

\* A direction that has reached its target goes on saving one example in every round
\* that runs for the other one, and no more.
THEOREM OvershootIsBounded == AgentsSpec => []OvershootBounded
<1>1. ASSUME ApiInv, NEW d \in Directions
      PROVE  saved[d] < Larger(1, Target) + Larger(1, round)
  <2>1. round \in Nat /\ saved[d] \in Nat
    BY <1>1, BoundsTyped DEF ApiInv, TypeOK
  <2>2. /\ RoundsSearched = IF node \in {"refine", "search"} THEN round - 1 ELSE round
        /\ IF RoundsSearched = 0 THEN saved[d] = 0
                                 ELSE saved[d] < Larger(1, Target) + RoundsSearched
    BY <1>1 DEF ApiInv, SavedInv, RoundsSearched
  <2>3. Larger(1, round) \in Nat /\ Larger(1, round) >= 1 /\ Larger(1, round) >= round
    BY <2>1 DEF Larger
  <2> QED BY <2>1, <2>2, <2>3, BoundsTyped
<1>2. ApiInv => OvershootBounded
  BY <1>1 DEF OvershootBounded
<1> QED BY <1>2, ApiInductive, PTL

(***************************************************************************)
(* QueryAgentGH: what its tool returns.                                    *)
(***************************************************************************)

\* _normalize_items leaves each identity once.
LEMMA NormalizeDistinct ==
  ASSUME NEW raw \in Seq(Items)
  PROVE  NormalizeItems(raw) \in Seq(Items) /\ Distinct(NormalizeItems(raw))
<1>1. PICK len \in Nat : len = Len(raw) /\ DOMAIN raw = 1..len
  BY LenProperties
<1>2. PICK firsts : firsts = {p \in DOMAIN raw : \A q \in 1..(p - 1) : raw[q] # raw[p]}
  OBVIOUS
<1>3. firsts \in SUBSET DOMAIN raw /\ firsts \in SUBSET (1..len)
  BY <1>1, <1>2
<1>4. IsFiniteSet(firsts) /\ firsts \in SUBSET Nat
  <2>1. IsFiniteSet(1..len)
    BY FS_Interval
  <2> QED BY <1>3, <2>1, FS_Subset
<1>5. PICK kept : kept = Kept(raw, firsts)
  OBVIOUS
<1>6. /\ kept \in Seq(Items)
      /\ \A n \in DOMAIN kept :
           InOrder(firsts)[n] \in firsts /\ kept[n] = raw[InOrder(firsts)[n]]
      /\ DOMAIN kept = DOMAIN InOrder(firsts)
  BY <1>3, <1>5, KeptEntries
<1>7. /\ DOMAIN kept = 1..Cardinality(firsts) /\ Cardinality(firsts) \in Nat
      /\ \A m, n \in DOMAIN kept : m < n => InOrder(firsts)[m] < InOrder(firsts)[n]
  BY <1>4, <1>6, InOrderLists
<1>8. \A p, q \in firsts : q < p => raw[q] # raw[p]
  <2> SUFFICES ASSUME NEW p \in firsts, NEW q \in firsts, q < p PROVE raw[q] # raw[p]
    OBVIOUS
  <2>1. q \in 1..(p - 1)
    BY <1>3
  <2> QED BY <1>2, <2>1
<1>9. ASSUME NEW m \in DOMAIN kept, NEW n \in DOMAIN kept, kept[m] = kept[n]
      PROVE  m = n
  <2>1. ~(m < n) /\ ~(n < m)
    BY <1>6, <1>7, <1>8, <1>9
  <2>2. m \in Nat /\ n \in Nat
    BY <1>7
  <2> QED BY <2>1, <2>2
<1> QED BY <1>2, <1>5, <1>6, <1>9 DEF NormalizeItems, Distinct

\* The representatives and the first of the others are distinct results.
LEMMA FilledDistinct ==
  ASSUME NEW items \in Seq(Items), Distinct(items), NEW chosen \in SUBSET DOMAIN items,
         NEW k \in Nat, k <= Len(items)
  PROVE  Filled(items, chosen, k) \in Seq(Items) /\ Distinct(Filled(items, chosen, k))
<1>1. PICK len \in Nat : len = Len(items) /\ DOMAIN items = 1..len
  BY LenProperties
<1>2. IsFiniteSet(1..len) /\ Cardinality(1..len) = len
  BY FS_Interval
<1>3. PICK others : others = (1..len) \ chosen
  OBVIOUS
<1>4. /\ IsFiniteSet(chosen) /\ chosen \in SUBSET Nat /\ chosen \in SUBSET (1..len)
      /\ IsFiniteSet(others) /\ others \in SUBSET Nat /\ others \in SUBSET (1..len)
  BY <1>1, <1>2, <1>3, FS_Subset
<1>5. PICK a \in Nat : a = Cardinality(chosen)
  BY <1>4, FS_CardinalityType
<1>6. PICK b \in Nat : b = Cardinality(others)
  BY <1>4, FS_CardinalityType
<1>7. a + b = len
  <2>1. chosen \cap others = {} /\ chosen \cup others = 1..len
    BY <1>3, <1>4
  <2>2. Cardinality(chosen \cup others) = Cardinality(chosen) + Cardinality(others) - Cardinality(chosen \cap others)
    BY <1>4, FS_Union
  <2>3. Cardinality(chosen \cap others) = 0
    BY <2>1, FS_EmptySet
  <2>4. Cardinality(chosen \cup others) = len
    BY <1>2, <2>1
  <2>5. len = a + b - 0
    BY <1>5, <1>6, <2>2, <2>3, <2>4
  <2> QED BY <2>5
<1>8. PICK first \in Seq(1..len) :
        /\ first = InOrder(chosen) /\ Len(first) = a
        /\ \A m \in 1..a : first[m] \in chosen
        /\ \A m, n \in 1..a : m < n => first[m] < first[n]
  <2>1. InOrder(chosen) \in [1..a -> chosen] /\ Len(InOrder(chosen)) = a
        /\ InOrder(chosen) \in Seq(chosen)
        /\ \A m, n \in 1..a : m < n => InOrder(chosen)[m] < InOrder(chosen)[n]
    BY <1>4, <1>5, InOrderLists
  <2>2. InOrder(chosen) \in Seq(1..len)
    BY <1>4, <2>1, SeqMonotonic
  <2> QED BY <2>1, <2>2
<1>9. PICK rest \in Seq(1..len) :
        /\ rest = InOrder(others) /\ Len(rest) = b
        /\ \A m \in 1..b : rest[m] \in others
        /\ \A m, n \in 1..b : m < n => rest[m] < rest[n]
  <2>1. InOrder(others) \in [1..b -> others] /\ Len(InOrder(others)) = b
        /\ InOrder(others) \in Seq(others)
        /\ \A m, n \in 1..b : m < n => InOrder(others)[m] < InOrder(others)[n]
    BY <1>4, <1>6, InOrderLists
  <2>2. InOrder(others) \in Seq(1..len)
    BY <1>4, <2>1, SeqMonotonic
  <2> QED BY <2>1, <2>2
<1>10. PICK all \in Seq(1..len) :
         /\ all = first \o rest /\ Len(all) = len
         /\ \A m \in 1..len : all[m] = IF m <= a THEN first[m] ELSE rest[m - a]
  <2>1. PICK all : all = first \o rest
    OBVIOUS
  <2>2. /\ all \in Seq(1..len) /\ Len(all) = a + b
        /\ \A m \in 1 .. a + b : all[m] = IF m <= a THEN first[m] ELSE rest[m - a]
    <3>1. PICK T : T = 1..len
      OBVIOUS
    <3>2. first \in Seq(T) /\ rest \in Seq(T) /\ Len(first) = a /\ Len(rest) = b
      BY <1>8, <1>9, <3>1
    <3> QED BY <2>1, <3>1, <3>2, ConcatProperties
  <2> QED BY <1>7, <2>1, <2>2
<1>11. ASSUME NEW m \in 1..len, NEW n \in 1..len, m < n PROVE all[m] # all[n]
  <2>1. CASE n <= a
    <3>1. m \in 1..a /\ n \in 1..a
      BY <1>11, <2>1
    <3>2. first[m] < first[n] /\ first[m] \in Nat /\ first[n] \in Nat
      BY <1>4, <1>8, <1>11, <3>1
    <3>3. m <= a /\ n <= a
      BY <3>1
    <3>4. \A h \in 1..len : h <= a => all[h] = first[h]
      BY <1>10
    <3>5. all[m] = first[m] /\ all[n] = first[n]
      BY <3>3, <3>4
    <3> QED BY <3>2, <3>5
  <2>2. CASE m > a
    <3>1. m - a \in 1..b /\ n - a \in 1..b /\ m - a < n - a
      BY <1>7, <1>11, <2>2
    <3>2. rest[m - a] < rest[n - a] /\ rest[m - a] \in Nat /\ rest[n - a] \in Nat
      BY <1>4, <1>9, <3>1
    <3>3. ~(m <= a) /\ ~(n <= a)
      BY <1>11, <2>2
    <3>4. all[m] = rest[m - a] /\ all[n] = rest[n - a]
      BY <1>10, <3>3
    <3> QED BY <3>2, <3>4
  <2>3. CASE m <= a /\ ~(n <= a)
    <3>1. m \in 1..a /\ n - a \in 1..b
      BY <1>7, <2>3
    <3>2. all[m] \in chosen /\ all[n] \in others
      BY <1>8, <1>9, <1>10, <2>3, <3>1
    <3> QED BY <1>3, <3>2
  <2> QED BY <2>1, <2>2, <2>3
<1>12. PICK order : order = SubSeq(all, 1, k)
  OBVIOUS
<1>13. /\ order \in Seq(1..len) /\ Len(order) = k
       /\ \A m \in 1..k : order[m] = all[m] /\ m \in 1..len
  <2>1. k <= len
    BY <1>1
  <2>2. \A m \in 1..k : all[m] \in 1..len
    BY <1>10, <2>1, ElementOfSeq
  <2>3. /\ SubSeq(all, 1, k) \in Seq(1..len)
        /\ Len(SubSeq(all, 1, k)) = IF 1 <= k THEN k - 1 + 1 ELSE 0
        /\ \A m \in 1 .. k - 1 + 1 : SubSeq(all, 1, k)[m] = all[1 + m - 1]
    BY <2>2, SubSeqProperties
  <2> QED BY <1>12, <2>1, <2>3
<1>14. DOMAIN order = 1..k /\ \A m \in 1..k : order[m] \in 1..len
  BY <1>13, LenProperties, ElementOfSeq
<1>15. PICK filled : filled = Filled(items, chosen, k)
  OBVIOUS
<1>16. filled = [m \in 1..k |-> items[order[m]]]
  BY <1>1, <1>3, <1>8, <1>9, <1>10, <1>12, <1>14, <1>15 DEF Filled
<1>17. filled \in Seq(Items)
  <2>1. \A m \in 1..k : items[order[m]] \in Items
    BY <1>1, <1>14, ElementOfSeq
  <2>2. filled \in [1..k -> Items]
    BY <1>16, <2>1
  <2> QED BY <2>2, SeqDef
<1>18. ASSUME NEW m \in 1..k, NEW n \in 1..k, filled[m] = filled[n] PROVE m = n
  <2>1. all[m] = all[n]
    BY <1>1, <1>13, <1>14, <1>16, <1>18 DEF Distinct
  <2>2. ~(m < n) /\ ~(n < m)
    BY <1>11, <1>13, <2>1
  <2> QED BY <2>2
<1>19. DOMAIN filled = 1..k
  BY <1>16
<1>20. Distinct(filled)
  BY <1>18, <1>19 DEF Distinct
<1> QED BY <1>15, <1>17, <1>20

\* gh_code_search returns distinct results, whichever represent the clusters.
LEMMA SearchDistinct ==
  ASSUME NEW raw \in Seq(Items), NEW blank, NEW failed \in BOOLEAN,
         NEW reply \in GhCodeSearch(raw, blank, failed)
  PROVE  SearchWithGh(reply) \in Seq(Items) /\ Distinct(SearchWithGh(reply))
<1>1. <<>> \in Seq(Items) /\ Distinct(<<>>)
  BY DEF Distinct
<1>2. CASE failed
  BY <1>1, <1>2 DEF GhCodeSearch, SearchWithGh
<1>3. CASE ~failed
  <2>1. PICK normal \in Seq(Items) : normal = NormalizeItems(raw) /\ Distinct(normal)
    BY NormalizeDistinct
  <2>2. PICK withText :
          withText = Kept(normal, {p \in DOMAIN normal : normal[p] \notin blank})
    OBVIOUS
  <2>3. withText \in Seq(Items) /\ Distinct(withText)
    <3>1. {p \in DOMAIN normal : normal[p] \notin blank} \in SUBSET DOMAIN normal
      OBVIOUS
    <3> QED BY <2>1, <2>2, <3>1, KeptEntries
  <2>4. PICK k \in Nat : k = IF GhTarget > 1 THEN GhTarget ELSE 1
    BY GhAssumption
  <2>5. PICK items \in Selected(withText, k) : reply = [error |-> FALSE, items |-> items]
    BY <1>3, <2>1, <2>2, <2>4 DEF GhCodeSearch
  <2>6. CASE Len(withText) <= k
    BY <2>3, <2>5, <2>6 DEF Selected, SearchWithGh
  <2>7. CASE ~(Len(withText) <= k)
    <3>1. PICK chosen \in SUBSET DOMAIN withText : items = Filled(withText, chosen, k)
      BY <2>5, <2>7 DEF Selected, Representing
    <3>2. k <= Len(withText)
      BY <2>3, <2>7, LenProperties
    <3>3. items \in Seq(Items) /\ Distinct(items)
      BY <2>3, <3>1, <3>2, FilledDistinct
    <3> QED BY <2>5, <3>3 DEF SearchWithGh
  <2> QED BY <2>6, <2>7
<1> QED BY <1>2, <1>3

(***************************************************************************)
(* QueryAgentGH: the invariant.                                            *)
(***************************************************************************)

\* A direction saves what was judged once, and judges what it has seen.
GhJudged ==
  \A d \in GhDirections :
    /\ Len(ghSaved[d]) <= GhTarget
    /\ Distinct(ghSaved[d])
    /\ \A p \in DOMAIN ghSaved[d] : ghOffers[d][ghSaved[d][p]] = 1
    /\ \A x \in Items : ghOffers[d][x] = 0 \/ (ghOffers[d][x] = 1 /\ x \in ghSeen[d])

\* A direction that has not begun has seen and saved nothing.
GhAhead ==
  \A d \in GhDirections : d > ghDirection =>
    ghSaved[d] = <<>> /\ ghSeen[d] = {} /\ \A x \in Items : ghOffers[d][x] = 0

\* The results at hand are distinct and new, and below the target they are judged.
GhAtHand ==
  /\ Distinct(ghCandidates)
  /\ \A p \in DOMAIN ghCandidates :
       /\ ghDirection \in GhDirections
       /\ ghCandidates[p] \in ghSeen[ghDirection]
       /\ ghOffers[ghDirection][ghCandidates[p]] = 0
  /\ ghNode = "evaluate" =>
       ghDirection \in GhDirections /\ Len(ghSaved[ghDirection]) < GhTarget

\* Short of the target, what was seen has been judged or is at hand.
GhNonePassed ==
  \A d \in GhDirections :
    /\ Len(ghSaved[d]) < GhTarget
    /\ d < ghDirection \/ (d = ghDirection /\ ghNode \in {"query", "evaluate"})
    => \A x \in ghSeen[d] :
         \/ ghOffers[d][x] = 1
         \/ d = ghDirection /\ \E p \in DOMAIN ghCandidates : ghCandidates[p] = x

GhInv == GhTypeOK /\ GhJudged /\ GhAhead /\ GhAtHand /\ GhNonePassed

LEMMA GhStarts == ASSUME NEW start \in {"query", "done"}, GhInit(start) PROVE GhInv
<1> USE DEF GhInit
<1>1. <<>> \in Seq(Items) /\ Len(<<>>) = 0 /\ Distinct(<<>>)
  BY DEF Distinct
<1>2. GhTypeOK
  BY <1>1, GhAssumption DEF GhTypeOK, GhDirections
<1>3. GhJudged
  BY <1>1, GhAssumption DEF GhJudged
<1>4. GhAhead /\ GhAtHand /\ GhNonePassed
  BY <1>1 DEF GhAhead, GhAtHand, GhNonePassed
<1> QED BY <1>2, <1>3, <1>4 DEF GhInv

\* What the steps need of the types.
LEMMA GhTyped ==
  ASSUME GhTypeOK, NEW d \in GhDirections
  PROVE  /\ ghSaved[d] \in Seq(Items) /\ Len(ghSaved[d]) \in Nat
         /\ DOMAIN ghSaved[d] = 1..Len(ghSaved[d])
         /\ ghSeen[d] \in SUBSET Items
         /\ d \in Nat /\ ghDirection \in Nat
         /\ \A x \in Items : ghOffers[d][x] \in Nat
<1>1. ghSaved[d] \in Seq(Items)
  BY DEF GhTypeOK
<1>2. Len(ghSaved[d]) \in Nat /\ DOMAIN ghSaved[d] = 1..Len(ghSaved[d])
  BY <1>1, LenProperties
<1> QED BY <1>1, <1>2 DEF GhTypeOK, GhDirections

\* A search without a query counts the iteration and nothing else.
LEMMA GhNoQueryKeeps ==
  ASSUME GhInv, ghNode = "query", GhMore, ghIteration' = ghIteration + 1,
         UNCHANGED <<ghNode, ghDirection, ghSaved, ghSeen, ghCandidates, ghOffers>>
  PROVE  GhInv'
<1>1. ghIteration' \in 0..GhIterations
  BY GhAssumption DEF GhInv, GhTypeOK, GhMore
<1> QED BY <1>1 DEF GhInv, GhTypeOK, GhJudged, GhAhead, GhAtHand, GhNonePassed

\* A search: what is new is seen now and at hand, the rest had been judged.
LEMMA GhFoundKeeps ==
  ASSUME GhInv, ghNode = "query", ghDirection \in GhDirections, GhMore,
         ghIteration' = ghIteration + 1,
         NEW hits \in Seq(Items), Distinct(hits),
         ghSeen' = [ghSeen EXCEPT ![ghDirection] = @ \cup {hits[p] : p \in DOMAIN hits}],
         ghCandidates' = GhNew(hits),
         ghNode' = IF ghCandidates' = <<>> THEN "query" ELSE "evaluate",
         UNCHANGED <<ghDirection, ghSaved, ghOffers>>
  PROVE  GhInv'
<1> USE DEF GhInv
<1>1. PICK new : new = {p \in DOMAIN hits : hits[p] \notin ghSeen[ghDirection]}
  OBVIOUS
<1>2. PICK kept : kept = Kept(hits, new)
  OBVIOUS
<1>3. /\ kept \in Seq(Items) /\ Distinct(kept)
      /\ \A n \in DOMAIN kept : \E p \in new : kept[n] = hits[p]
      /\ \A p \in new : \E n \in DOMAIN kept : kept[n] = hits[p]
  <2>1. new \in SUBSET DOMAIN hits
    BY <1>1
  <2>2. /\ kept \in Seq(Items) /\ Distinct(kept)
        /\ \A n \in DOMAIN kept : InOrder(new)[n] \in new /\ kept[n] = hits[InOrder(new)[n]]
        /\ \A p \in new : \E n \in DOMAIN kept : kept[n] = hits[p]
    BY <1>2, <2>1, KeptEntries
  <2> QED BY <2>2
<1>4. ghCandidates' = kept
  BY <1>1, <1>2 DEF GhNew
<1>5. ghCandidates = <<>>
  BY DEF GhTypeOK
<1>6. \A p \in DOMAIN hits : hits[p] \in Items
  BY LenProperties, ElementOfSeq
<1>7. /\ ghSeen'[ghDirection] = ghSeen[ghDirection] \cup {hits[p] : p \in DOMAIN hits}
      /\ \A d \in GhDirections \ {ghDirection} : ghSeen'[d] = ghSeen[d]
  BY DEF GhTypeOK
<1>8. GhTypeOK'
  <2>1. ghIteration' \in 0..GhIterations
    BY GhAssumption DEF GhTypeOK, GhMore
  <2>2. ghSeen' \in [GhDirections -> SUBSET Items]
    BY <1>6 DEF GhTypeOK
  <2>3. ghNode' \in {"query", "evaluate"} /\ (ghCandidates' # <<>>) = (ghNode' = "evaluate")
    OBVIOUS
  <2> QED BY <1>3, <1>4, <2>1, <2>2, <2>3 DEF GhTypeOK
<1>9. GhJudged'
  BY <1>7 DEF GhJudged
<1>10. GhAhead'
  BY <1>7, GhTyped DEF GhAhead
<1>11. GhAtHand'
  <2>1. ASSUME NEW n \in DOMAIN kept
        PROVE  kept[n] \in ghSeen'[ghDirection] /\ ghOffers[ghDirection][kept[n]] = 0
    <3>1. PICK p \in new : kept[n] = hits[p]
      BY <1>3
    <3>2. hits[p] \in Items /\ hits[p] \notin ghSeen[ghDirection]
      BY <1>1, <1>6, <3>1
    <3> QED BY <1>1, <1>7, <3>1, <3>2 DEF GhJudged
  <2> QED BY <1>3, <1>4, <2>1 DEF GhAtHand, GhMore
<1>12. GhNonePassed'
  <2> SUFFICES ASSUME NEW d \in GhDirections, Len(ghSaved[d]) < GhTarget,
                      d < ghDirection \/ d = ghDirection, NEW x \in ghSeen'[d]
               PROVE  \/ ghOffers[d][x] = 1
                      \/ d = ghDirection /\ \E n \in DOMAIN kept : kept[n] = x
    BY <1>4 DEF GhNonePassed
  <2>1. CASE x \in ghSeen[d]
    BY <1>5, <2>1 DEF GhNonePassed
  <2>2. CASE x \notin ghSeen[d]
    <3>1. d = ghDirection /\ \E p \in DOMAIN hits : x = hits[p]
      BY <1>7, <2>2
    <3>2. \E p \in new : x = hits[p]
      BY <1>1, <2>2, <3>1
    <3> QED BY <1>3, <3>1, <3>2
  <2> QED BY <2>1, <2>2
<1> QED BY <1>8, <1>9, <1>10, <1>11, <1>12

\* One result is judged: it was new, so it is not among the saved ones.
LEMMA GhEvaluateKeeps ==
  ASSUME GhInv, NEW keep \in BOOLEAN, GhEvaluate(keep)
  PROVE  GhInv'
<1> USE DEF GhInv
<1>1. PICK d \in GhDirections : d = ghDirection /\ Len(ghSaved[d]) < GhTarget
  BY DEF GhEvaluate, GhAtHand
<1>2. PICK list \in Seq(Items) : list = ghCandidates /\ list # <<>> /\ Distinct(list)
  BY DEF GhEvaluate, GhTypeOK, GhAtHand
<1>3. PICK len \in Nat : len = Len(list) /\ DOMAIN list = 1..len
  BY <1>2, LenProperties
<1>4. len > 0
  BY <1>2, <1>3, EmptySeq
<1>5. PICK x \in Items : x = Head(list) /\ x = list[1]
  BY <1>2, <1>3, <1>4, ElementOfSeq
<1>6. PICK rest \in Seq(Items) :
        /\ rest = Tail(list) /\ DOMAIN rest = 1 .. len - 1
        /\ \A n \in 1 .. len - 1 : rest[n] = list[n + 1]
  <2>1. Tail(list) \in Seq(Items) /\ Len(Tail(list)) = len - 1
        /\ \A n \in 1 .. len - 1 : Tail(list)[n] = list[n + 1]
    BY <1>2, <1>3, HeadTailProperties
  <2> QED BY <2>1, LenProperties
<1>7. x \in ghSeen[d] /\ ghOffers[d][x] = 0
  BY <1>1, <1>2, <1>3, <1>4, <1>5 DEF GhAtHand
<1>8. PICK kept \in Seq(Items) :
        kept = ghSaved[d] /\ Len(kept) < GhTarget /\ Distinct(kept)
        /\ \A p \in DOMAIN kept : ghOffers[d][kept[p]] = 1
  BY <1>1, GhTyped DEF GhJudged
<1>9. PICK count \in Nat : count = Len(kept) /\ DOMAIN kept = 1..count
  BY <1>8, LenProperties
<1>10. \A p \in 1..count : kept[p] # x
  BY <1>7, <1>8, <1>9
<1>11. PICK longer \in Seq(Items) :
         longer = Append(kept, x) /\ DOMAIN longer = 1 .. count + 1
         /\ Len(longer) = count + 1 /\ longer[count + 1] = x
         /\ \A p \in 1..count : longer[p] = kept[p]
  <2>1. PICK longer : longer = Append(kept, x)
    OBVIOUS
  <2>2. /\ longer \in Seq(Items) /\ Len(longer) = count + 1 /\ longer[count + 1] = x
        /\ \A p \in 1..count : longer[p] = kept[p]
    BY <1>9, <2>1, AppendProperties
  <2>3. DOMAIN longer = 1 .. count + 1
    BY <2>2, LenProperties
  <2> QED BY <2>1, <2>2, <2>3
<1>12. /\ ghOffers'[d] = [ghOffers[d] EXCEPT ![x] = 1]
       /\ \A c \in GhDirections \ {d} : ghOffers'[c] = ghOffers[c]
       /\ ghOffers' \in [GhDirections -> [Items -> Nat]]
  <2>1. ghOffers' = [ghOffers EXCEPT ![d] = [ghOffers[d] EXCEPT ![x] = ghOffers[d][x] + 1]]
    <3>1. ghOffers' = [ghOffers EXCEPT ![d][x] = @ + 1]
      BY <1>1, <1>2, <1>5 DEF GhEvaluate
    <3> QED BY <3>1
  <2>2. ghOffers[d][x] + 1 = 1
    BY <1>7
  <2>3. ghOffers \in [GhDirections -> [Items -> Nat]]
    BY DEF GhTypeOK
  <2>4. ghOffers' = [ghOffers EXCEPT ![d] = [ghOffers[d] EXCEPT ![x] = 1]]
    BY <2>1, <2>2
  <2>5. [ghOffers[d] EXCEPT ![x] = 1] \in [Items -> Nat]
    BY <2>3
  <2> QED BY <2>3, <2>4, <2>5
<1>13. \A y \in Items : ghOffers'[d][y] = IF y = x THEN 1 ELSE ghOffers[d][y]
  BY <1>12 DEF GhTypeOK
<1>14. /\ ghSaved'[d] = IF keep THEN longer ELSE kept
       /\ \A c \in GhDirections \ {d} : ghSaved'[c] = ghSaved[c]
       /\ ghSaved' \in [GhDirections -> Seq(Items)]
  BY <1>1, <1>2, <1>5, <1>8, <1>11 DEF GhEvaluate, GhTypeOK
<1>15. ghCandidates' = IF Len(ghSaved'[d]) >= GhTarget THEN <<>> ELSE rest
  BY <1>1, <1>2, <1>6 DEF GhEvaluate
<1>16. Len(ghSaved'[d]) \in Nat /\ Len(ghSaved'[d]) <= GhTarget
  BY <1>8, <1>9, <1>11, <1>14, GhAssumption
<1>17. UNCHANGED <<ghDirection, ghIteration, ghSeen>>
       /\ ghNode' = (IF ghCandidates' = <<>> THEN "query" ELSE "evaluate")
  BY DEF GhEvaluate
<1>18. GhTypeOK'
  <2>1. ghCandidates' \in Seq(Items)
    BY <1>6, <1>15
  <2> QED BY <1>12, <1>14, <1>17, <2>1 DEF GhTypeOK
<1>19. GhJudged'
  <2>1. Distinct(longer)
    <3> SUFFICES ASSUME NEW p \in 1 .. count + 1, NEW q \in 1 .. count + 1, longer[p] = longer[q]
                 PROVE  p = q
      BY <1>11 DEF Distinct
    <3>1. CASE p = count + 1 \/ q = count + 1
      BY <1>10, <1>11, <3>1
    <3>2. CASE p \in 1..count /\ q \in 1..count
      BY <1>8, <1>9, <1>11, <3>2 DEF Distinct
    <3> QED BY <3>1, <3>2
  <2>2. ASSUME NEW c \in GhDirections
        PROVE  /\ Len(ghSaved'[c]) <= GhTarget
               /\ Distinct(ghSaved'[c])
               /\ \A p \in DOMAIN ghSaved'[c] : ghOffers'[c][ghSaved'[c][p]] = 1
               /\ \A y \in Items : ghOffers'[c][y] = 0 \/ (ghOffers'[c][y] = 1 /\ y \in ghSeen'[c])
    <3>1. CASE c # d
      <4>1. ghSaved'[c] = ghSaved[c] /\ ghOffers'[c] = ghOffers[c] /\ ghSeen'[c] = ghSeen[c]
        BY <1>12, <1>14, <1>17, <3>1
      <4> QED BY <4>1 DEF GhJudged
    <3>2. CASE c = d
      <4>1. Distinct(ghSaved'[d])
        BY <1>8, <1>14, <2>1
      <4>2. \A p \in 1..count : kept[p] \in Items /\ ghOffers'[d][kept[p]] = 1
        BY <1>8, <1>9, <1>10, <1>13, ElementOfSeq
      <4>3. \A p \in DOMAIN ghSaved'[d] : ghOffers'[d][ghSaved'[d][p]] = 1
        <5>1. CASE keep
          <6> SUFFICES ASSUME NEW p \in 1 .. count + 1 PROVE ghOffers'[d][longer[p]] = 1
            BY <1>11, <1>14, <5>1
          <6>1. p = count + 1 \/ p \in 1..count
            OBVIOUS
          <6> QED BY <1>11, <1>13, <4>2, <6>1
        <5>2. CASE ~keep
          BY <1>9, <1>14, <4>2, <5>2
        <5> QED BY <5>1, <5>2
      <4>4. \A y \in Items : ghOffers'[d][y] = 0 \/ (ghOffers'[d][y] = 1 /\ y \in ghSeen'[d])
        BY <1>7, <1>13, <1>17 DEF GhJudged
      <4> QED BY <1>16, <3>2, <4>1, <4>3, <4>4
    <3> QED BY <3>1, <3>2
  <2> QED BY <2>2 DEF GhJudged
<1>20. GhAhead'
  <2>1. \A c \in GhDirections : c > ghDirection => c # d
    BY <1>1 DEF GhDirections
  <2>2. ASSUME NEW c \in GhDirections, c > ghDirection
        PROVE  ghSaved'[c] = <<>> /\ ghSeen'[c] = {} /\ \A y \in Items : ghOffers'[c][y] = 0
    <3>1. ghSaved'[c] = ghSaved[c] /\ ghOffers'[c] = ghOffers[c] /\ ghSeen'[c] = ghSeen[c]
      BY <1>12, <1>14, <1>17, <2>1, <2>2
    <3> QED BY <2>2, <3>1 DEF GhAhead
  <2> QED BY <1>17, <2>2 DEF GhAhead
<1>21. GhAtHand'
  <2>1. ASSUME NEW p \in 1 .. len - 1
        PROVE  rest[p] \in ghSeen[d] /\ ghOffers'[d][rest[p]] = 0 /\ rest[p] \in Items
    <3>1. rest[p] = list[p + 1] /\ p + 1 \in 1..len /\ p + 1 # 1 /\ 1 \in 1..len
      BY <1>4, <1>6
    <3>2. list[p + 1] # x
      BY <1>2, <1>3, <1>5, <3>1 DEF Distinct
    <3>3. list[p + 1] \in Items
      BY <1>3, <3>1, ElementOfSeq
    <3> QED BY <1>1, <1>2, <1>3, <1>13, <3>1, <3>2, <3>3 DEF GhAtHand
  <2>2. Distinct(rest)
    <3> SUFFICES ASSUME NEW p \in 1 .. len - 1, NEW q \in 1 .. len - 1, rest[p] = rest[q]
                 PROVE  p = q
      BY <1>6 DEF Distinct
    <3>1. p + 1 \in 1..len /\ q + 1 \in 1..len /\ list[p + 1] = list[q + 1]
      BY <1>6
    <3>2. p + 1 = q + 1
      BY <1>2, <1>3, <3>1 DEF Distinct
    <3> QED BY <3>2
  <2>3. Distinct(ghCandidates')
    BY <1>15, <2>2 DEF Distinct
  <2>4. \A p \in DOMAIN ghCandidates' :
          ghCandidates'[p] \in ghSeen'[ghDirection'] /\ ghOffers'[ghDirection'][ghCandidates'[p]] = 0
    BY <1>1, <1>6, <1>15, <1>17, <2>1
  <2>5. ghCandidates' # <<>> => Len(ghSaved'[d]) < GhTarget
    BY <1>15, <1>16, GhAssumption
  <2> QED BY <1>1, <1>17, <2>3, <2>4, <2>5 DEF GhAtHand
<1>22. GhNonePassed'
  <2> SUFFICES ASSUME NEW c \in GhDirections, Len(ghSaved'[c]) < GhTarget,
                      c < ghDirection \/ c = ghDirection, NEW y \in ghSeen[c]
               PROVE  \/ ghOffers'[c][y] = 1
                      \/ c = ghDirection /\ \E p \in DOMAIN ghCandidates' : ghCandidates'[p] = y
    BY <1>17 DEF GhNonePassed
  <2>1. CASE c # d
    BY <1>1, <1>12, <1>14, <2>1 DEF GhNonePassed, GhEvaluate
  <2>2. CASE c = d
    <3>1. ghCandidates' = rest
      BY <1>15, <1>16, <2>2, GhAssumption
    <3>2. y \in Items
      BY <1>1, <2>2, GhTyped
    <3>3. ghOffers[d][y] = 1 \/ \E p \in 1..len : list[p] = y
      BY <1>1, <1>2, <1>3, <2>2 DEF GhNonePassed, GhEvaluate
    <3>4. ASSUME NEW p \in 1..len, list[p] = y, y # x
          PROVE  \E q \in DOMAIN rest : rest[q] = y
      <4>1. p - 1 \in 1 .. len - 1 /\ (p - 1) + 1 = p
        BY <1>5, <3>4
      <4> QED BY <1>6, <3>4, <4>1
    <3> QED BY <1>1, <1>13, <2>2, <3>1, <3>2, <3>3, <3>4
  <2> QED BY <2>1, <2>2
<1> QED BY <1>18, <1>19, <1>20, <1>21, <1>22

LEMMA GhSearchKeeps == ASSUME GhInv, GhSearch PROVE GhInv'
<1>1. ghNode = "query" /\ ghDirection \in GhDirections /\ GhMore
      /\ ghIteration' = ghIteration + 1 /\ UNCHANGED <<ghDirection, ghSaved, ghOffers>>
  BY DEF GhSearch
<1>2. CASE UNCHANGED <<ghNode, ghSeen, ghCandidates>>
  BY <1>1, <1>2, GhNoQueryKeeps
<1>3. ASSUME NEW raw \in UNION {[1..n -> Items] : n \in 0..Cardinality(Items)}, NEW blank \in SUBSET Items,
             NEW failed \in BOOLEAN,
             NEW hits \in {SearchWithGh(reply) : reply \in GhCodeSearch(raw, blank, failed)},
             ghSeen' = [ghSeen EXCEPT ![ghDirection] = @ \cup {hits[p] : p \in DOMAIN hits}],
             ghCandidates' = GhNew(hits),
             ghNode' = IF ghCandidates' = <<>> THEN "query" ELSE "evaluate"
      PROVE  GhInv'
  <2>1. raw \in Seq(Items)
    <3>1. Cardinality(Items) \in Nat
      BY GhAssumption, FS_CardinalityType
    <3>2. PICK n \in 0..Cardinality(Items) : raw \in [1..n -> Items]
      OBVIOUS
    <3>3. n \in Nat
      BY <3>1
    <3> QED BY <3>2, <3>3, SeqDef
  <2>2. hits \in Seq(Items) /\ Distinct(hits)
    BY <2>1, SearchDistinct
  <2> QED BY <1>1, <1>3, <2>2, GhFoundKeeps
<1> QED BY <1>2, <1>3 DEF GhSearch

\* The next direction begins with nothing, and the one before is settled.
LEMMA GhNextDirectionKeeps == ASSUME GhInv, GhNextDirection PROVE GhInv'
<1> USE DEF GhInv, GhNextDirection
<1>1. /\ ghDirection \in GhDirections /\ ghDirection' = ghDirection + 1 /\ ghNode' = "query"
      /\ ghNode = "query" /\ ghCandidates = <<>>
      /\ UNCHANGED <<ghSaved, ghSeen, ghCandidates, ghOffers>>
  BY DEF GhTypeOK
<1>2. GhTypeOK'
  BY <1>1, GhAssumption DEF GhTypeOK, GhDirections
<1>3. GhJudged'
  BY <1>1 DEF GhJudged
<1>4. GhAhead'
  <2>1. ghDirection \in Nat /\ \A d \in GhDirections : d \in Nat
    BY <1>1 DEF GhDirections
  <2> QED BY <1>1, <2>1 DEF GhAhead
<1>5. GhAtHand'
  BY <1>1 DEF GhAtHand, Distinct
<1>6. GhNonePassed'
  <2> SUFFICES ASSUME NEW d \in GhDirections, Len(ghSaved[d]) < GhTarget,
                      d < ghDirection + 1 \/ d = ghDirection + 1, NEW x \in ghSeen[d]
               PROVE  ghOffers[d][x] = 1
    BY <1>1 DEF GhNonePassed
  <2>1. d \in Nat /\ ghDirection \in Nat
    BY <1>1 DEF GhDirections
  <2>2. CASE d <= ghDirection
    BY <1>1, <2>1, <2>2 DEF GhNonePassed
  <2>3. CASE d > ghDirection
    BY <2>3 DEF GhAhead
  <2> QED BY <2>1, <2>2, <2>3
<1> QED BY <1>2, <1>3, <1>4, <1>5, <1>6

LEMMA GhEndKeeps == ASSUME GhInv, GhReturn \/ GhRaise PROVE GhInv'
<1> USE DEF GhInv, GhReturn, GhRaise
<1>1. ghNode' \in {"done", "failed"} /\ ghCandidates' = <<>>
      /\ UNCHANGED <<ghDirection, ghIteration, ghSaved, ghSeen, ghOffers>>
  BY DEF GhTypeOK
<1>2. GhTypeOK' /\ GhJudged' /\ GhAhead' /\ GhAtHand'
  BY <1>1, EmptySeq DEF GhTypeOK, GhJudged, GhAhead, GhAtHand, Distinct
<1>3. GhNonePassed'
  <2> SUFFICES ASSUME NEW d \in GhDirections, Len(ghSaved[d]) < GhTarget, d < ghDirection,
                      NEW x \in ghSeen[d]
               PROVE  ghOffers[d][x] = 1
    BY <1>1 DEF GhNonePassed
  <2>1. d # ghDirection
    BY DEF GhDirections, GhTypeOK
  <2> QED BY <2>1 DEF GhNonePassed
<1> QED BY <1>2, <1>3

\* The older agent's invariant: what find_code_snippets has judged, has ahead of it
\* and has at hand are different results, and it passes none over.
THEOREM GhInductive == AgentsSpec => []GhInv
<1>1. AgentsInit => GhInv
  BY GhStarts DEF AgentsInit
<1>2. GhInv /\ UNCHANGED ghVars => GhInv'
  BY DEF GhInv, ghVars, GhTypeOK, GhJudged, GhAhead, GhAtHand, GhNonePassed
<1>3. GhInv /\ GhNext => GhInv'
  <2> SUFFICES ASSUME GhInv, GhNext PROVE GhInv'
    OBVIOUS
  <2>1. CASE \E answer \in LlmAnswers({"keep", "ignore"}) : GhEvaluate(GhKeeps(answer))
    <3>1. PICK answer : GhEvaluate(GhKeeps(answer))
      BY <2>1
    <3>2. GhKeeps(answer) \in BOOLEAN
      BY DEF GhKeeps
    <3> QED BY <3>1, <3>2, GhEvaluateKeeps
  <2> QED BY <2>1, GhSearchKeeps, GhNextDirectionKeeps, GhEndKeeps DEF GhNext
<1>4. GhInv /\ [AgentsNext]_agentsVars => GhInv'
  BY <1>2, <1>3 DEF AgentsNext, agentsVars
<1> QED BY <1>1, <1>4, PTL DEF AgentsSpec

\* The older agent judges and saves a result at most once in a direction, stops at its
\* target, and ends short of it only after it has judged all that its searches returned.
THEOREM GhSavesEachOnce == AgentsSpec => []GhSavesDistinct
<1>1. ASSUME GhInv, NEW d \in GhDirections
      PROVE  /\ Len(ghSaved[d]) <= GhTarget
             /\ \A p, q \in DOMAIN ghSaved[d] : ghSaved[d][p] = ghSaved[d][q] => p = q
             /\ \A x \in Items : ghOffers[d][x] <= 1
             /\ d < ghDirection /\ Len(ghSaved[d]) < GhTarget => \A x \in ghSeen[d] : ghOffers[d][x] = 1
  <2>1. Len(ghSaved[d]) <= GhTarget
        /\ \A p, q \in DOMAIN ghSaved[d] : ghSaved[d][p] = ghSaved[d][q] => p = q
    BY <1>1 DEF GhInv, GhJudged, Distinct
  <2>2. \A x \in Items : ghOffers[d][x] <= 1
    BY <1>1 DEF GhInv, GhJudged
  <2>3. d < ghDirection => d # ghDirection
    BY <1>1, GhTyped DEF GhInv
  <2>4. d < ghDirection /\ Len(ghSaved[d]) < GhTarget => \A x \in ghSeen[d] : ghOffers[d][x] = 1
    BY <1>1, <2>3 DEF GhInv, GhNonePassed
  <2> QED BY <2>1, <2>2, <2>4
<1>2. GhInv => GhSavesDistinct
  BY <1>1 DEF GhSavesDistinct
<1> QED BY <1>2, GhInductive, PTL

(***************************************************************************)
(* The search tool beside the agents.                                      *)
(***************************************************************************)

\* The invariant of a search holds from any of the starts.
THEOREM SearchesInductive == AgentsSpec => []SearchInv
<1>1. AgentsInit => SearchInv
  BY SearchStarts DEF AgentsInit
<1>2. SearchInv /\ [AgentsNext]_agentsVars => SearchInv'
  <2>1. [AgentsNext]_agentsVars => [SearchNext]_searchVars
    BY DEF AgentsNext, agentsVars
  <2> QED BY <2>1, SearchStepKeeps
<1> QED BY <1>1, <1>2, PTL DEF AgentsSpec

\* The agents' state and that of the search keep their types.
THEOREM AgentsTypeCorrect == AgentsSpec => []AgentsTypeOK
<1>1. ApiInv /\ GhInv /\ SearchInv => AgentsTypeOK
  BY SearchTyped DEF ApiInv, GhInv, AgentsTypeOK
<1> QED BY <1>1, ApiInductive, GhInductive, SearchesInductive, PTL

\* Whatever GitHub returns, and whichever runs of the embedding model end: deduplication
\* keeps one of the results that are the same, and a result is dropped later only for one
\* that it is linked to and that is as good, or when the cap is full of results as good.
THEOREM SearchDropsNothingUnseen == AgentsSpec => []Represented
BY SearchesInductive, SearchRepresented, PTL

\* Whatever matches are found, in whatever order: the chunks of an enriched result are all
\* the lines around them and no others, in order and apart.
THEOREM ContextIsComplete == AgentsSpec => []ContextComplete
BY SearchesInductive, SearchComplete, PTL
=============================================================================
