--------------------------- MODULE PipelineProofs ---------------------------
(***************************************************************************)
(* Proofs about Pipeline, for any environment, rule, pool of threads and   *)
(* any answers of the LLM, GitHub and the analyzers.                       *)
(***************************************************************************)
EXTENDS Pipeline, LogicTreeProofs

(***************************************************************************)
(* The inductive invariant.                                                *)
(***************************************************************************)

\* Before the tests are run no seed is chosen.
AnalysisInv ==
  /\ AnalysisTypeOK
  /\ ReportOfSeed
  /\ node \in {"analyze_rule", "decompose_rule", "dynamic_analysis"} =>
       seed = 0 /\ report = NoReport

\* The predicates are chosen once, and well.
ChoiceInv ==
  /\ covered \in Seq(Nat \ {0})
  /\ predicates \in Seq(1..Len(covered)) /\ Len(predicates) <= Len(covered)
  /\ TopPredicates

Finished == {"ended", "error", "silent"}

\* A stage has its tasks, and those it took the result of are over.
PoolInv ==
  /\ stage \in Stages
  /\ at \in Seq(Idle \cup (IF stage = "generate" THEN GenerateStates ELSE VerifyStates))
  /\ collected \in 0..Len(at)
  /\ \A i \in 1..collected : at[i] \in Finished
  /\ stage = "analyze" => predicates = <<>> /\ at = <<>> /\ review = <<>> /\ mutants = <<>>
  /\ stage \in {"analyze", "generate"} => verified = <<>> /\ review = <<>>
  /\ stage = "generate" => DOMAIN at = DOMAIN predicates
  /\ stage \notin {"analyze", "generate"} => DOMAIN at = DOMAIN review
  /\ stage \in {"group", "report", "done"} => collected = Len(at)

\* Nothing is made of a predicate before its snippets are there, and a task searches
\* or mutates as the environment says.
SynthesisInv ==
  /\ snippets \in [DOMAIN predicates -> 0..Attempts]
  /\ outcomes \in [DOMAIN predicates -> Seq(BOOLEAN)]
  /\ \A i \in DOMAIN predicates : Len(outcomes[i]) <= snippets[i]
  /\ stage = "generate" => \A i \in DOMAIN at :
       /\ at[i] \in {"queued", "search", "mutate"} => outcomes[i] = <<>>
       /\ at[i] = "search" => ~settings.direct
       /\ at[i] = "mutate" => settings.direct

\* The mutants taken so far: in order, of tasks that are over, and none left out.
MutantsInv ==
  /\ mutants \in Seq(Nat \X Nat)
  /\ \A j, k \in DOMAIN mutants : j < k => Before(mutants[j], mutants[k])
  /\ stage = "generate" =>
       /\ \A j \in DOMAIN mutants : mutants[j][1] \in 1..collected
       /\ \A i \in 1..collected : at[i] = "ended" =>
            \A k \in DOMAIN outcomes[i] :
              outcomes[i][k] => \E j \in DOMAIN mutants : mutants[j] = <<i, k>>

\* So with the verification results.
VerifiedInv ==
  /\ verified \in Seq(1..collected)
  /\ \A j, k \in DOMAIN verified : j < k => verified[j] < verified[k]
  /\ stage \notin {"analyze", "generate"} =>
       \A i \in 1..collected : at[i] = "ended" => \E j \in DOMAIN verified : verified[j] = i

\* What a review holds at each step of its task.
Sound(r) ==
  /\ r.class # "NONE" =>
       /\ ~r.toolError /\ r.llm # r.tool
       /\ r.class = IF r.tool THEN "FP" ELSE "FN"
       /\ settings.tool \in {"bandit", "codeql"} /\ r.class = "FN" => r.completed
  /\ r.score # "none" => r.class # "NONE" /\ r.score \in {"P0", "P1"}

ReviewInv ==
  /\ review \in Seq(Review)
  /\ \A i \in DOMAIN review :
       /\ Sound(review[i])
       /\ at[i] \in {"queued", "judge", "check"} => review[i].class = "NONE" /\ review[i].score = "none"
       /\ at[i] = "assess" => review[i].class # "NONE"

\* Each reportable mutant stands in a group.
SummaryInv ==
  stage \in {"report", "done"} => \A k \in Reportable : mentions[k] > 0

PipelineInv ==
  /\ AnalysisInv /\ ChoiceInv /\ PoolInv /\ SynthesisInv
  /\ MutantsInv /\ VerifiedInv /\ ReviewInv /\ SummaryInv

(***************************************************************************)
(* The analysis.                                                           *)
(***************************************************************************)

LEMMA SettingsTyped ==
  ASSUME AnalysisInv
  PROVE  /\ settings \in Settings /\ settings.tool \in Tools
         /\ settings.cap \in Nat /\ settings.direct \in BOOLEAN
BY SettingsAssumption DEF AnalysisInv, AnalysisTypeOK

LEMMA AnalysisStarts == ASSUME AnalysisInit PROVE AnalysisInv
<1> USE DEF AnalysisInit, NoReport
<1>1. settings \in Settings /\ node \in AnalysisNodes
  BY DEF AnalysisNodes
<1>2. tests \in Seq([positive : BOOLEAN]) /\ Len(tests) = 0
  BY EmptySeq
<1>3. MaxTests \in Nat /\ MaxOps \in Nat
  BY AnalysisAssumption
<1>4. seed \in 0..Len(tests) /\ report.of \in 0..Len(tests) /\ report.of = seed
  BY <1>2
<1>5. IsTree(tree)
  BY EmptyIsTree
<1>6. Len(tests) <= MaxTests /\ pending \in 0..MaxOps
  BY <1>2, <1>3
<1> QED BY <1>1, <1>2, <1>4, <1>5, <1>6 DEF AnalysisInv, AnalysisTypeOK, ReportOfSeed

LEMMA AnalyzeRuleKeeps == ASSUME AnalysisInv, AnalyzeRule PROVE AnalysisInv'
<1> USE DEF AnalyzeRule
<1>1. PICK n \in 1..MaxTests : tests' \in [1..n -> [positive : BOOLEAN]]
  OBVIOUS
<1>2. n \in Nat /\ n <= MaxTests
  BY AnalysisAssumption
<1>3. tests' \in Seq([positive : BOOLEAN]) /\ Len(tests') = n
  BY <1>1, <1>2, FunctionsAreLists
<1>4. seed' = 0 /\ report' = NoReport /\ report'.of = 0
  BY DEF AnalysisInv, NoReport
<1>5. seed' \in 0..Len(tests') /\ report'.of \in 0..Len(tests')
  BY <1>2, <1>3, <1>4
<1>6. node' = "decompose_rule" /\ node' \in AnalysisNodes
  BY DEF AnalysisNodes
<1>7. settings' \in Settings /\ IsTree(tree)' /\ pending' \in 0..MaxOps
  BY DEF AnalysisInv, AnalysisTypeOK
<1>8. AnalysisTypeOK'
  BY <1>2, <1>3, <1>5, <1>6, <1>7 DEF AnalysisTypeOK
<1> QED BY <1>4, <1>8 DEF AnalysisInv, ReportOfSeed

LEMMA DecomposeRuleKeeps == ASSUME AnalysisInv, DecomposeRule PROVE AnalysisInv'
<1> USE DEF DecomposeRule
<1>1. node' = "dynamic_analysis" /\ node' \in AnalysisNodes
  BY DEF AnalysisNodes
<1>2. IsTree(tree')
  BY AnalysisAssumption, EmptyIsTree
<1>3. AnalysisTypeOK'
  BY <1>1, <1>2 DEF AnalysisInv, AnalysisTypeOK
<1>4. seed' = 0 /\ report' = NoReport /\ report'.of = 0
  BY DEF AnalysisInv, NoReport
<1> QED BY <1>3, <1>4 DEF AnalysisInv, ReportOfSeed

LEMMA DynamicAnalysisKeeps == ASSUME AnalysisInv, DynamicAnalysis PROVE AnalysisInv'
<1> USE DEF DynamicAnalysis
<1>1. PICK len \in Nat : len = Len(tests) /\ DOMAIN tests = 1..len
  BY LenProperties DEF AnalysisInv, AnalysisTypeOK
<1>2. node' = "analyze_predicate_mappings" /\ node' \in AnalysisNodes
  BY DEF AnalysisNodes
<1>3. ASSUME NEW ran, Flagged(ran) # {}, DOMAIN ran \subseteq 1..len
      PROVE  /\ Sets!Min(Flagged(ran)) \in 1..len
             /\ Sets!Max(Flagged(ran)) \in 1..len
             /\ \A t \in Flagged(ran) : t <= Sets!Max(Flagged(ran))
  <2>1. PICK places : places = Flagged(ran)
    OBVIOUS
  <2>2. places \in SUBSET (1..len)
    BY <1>3, <2>1 DEF Flagged
  <2>3. IsFiniteSet(1..len)
    BY FS_Interval
  <2>4. IsFiniteSet(places) /\ places \in SUBSET Nat /\ places # {}
    BY <1>3, <2>1, <2>2, <2>3, FS_Subset
  <2> QED BY <2>1, <2>2, <2>4, LeastAndGreatest
<1>4. ASSUME NEW first \in [Positive -> Outcomes[settings.tool]], PositivePass(first)
      PROVE  seed' \in 0..len /\ report'.of = seed'
  <2>1. DOMAIN first \subseteq 1..len /\ Flagged(first) # {} /\ seed' = Sets!Min(Flagged(first))
    BY <1>1, <1>4 DEF Positive, PositivePass
  <2>2. seed' \in 1..len
    BY <1>3, <2>1
  <2>3. report'.of = seed'
    BY <1>4 DEF PositivePass
  <2> QED BY <2>2, <2>3
<1>5. ASSUME NEW second \in [DOMAIN tests -> Outcomes[settings.tool]], FullPass(second)
      PROVE  /\ seed' \in 0..len /\ report'.of = len
             /\ report'.of = seed' \/ ~report'.outcome.issue
  <2>1. DOMAIN second = 1..len /\ Flagged(second) # {} /\ seed' = Sets!Max(Flagged(second))
    BY <1>1, <1>5 DEF FullPass
  <2>2. seed' \in 1..len /\ \A t \in Flagged(second) : t <= seed'
    BY <1>3, <2>1
  <2>3. report'.of = len /\ report'.outcome = second[len]
    BY <1>1, <1>5 DEF FullPass
  <2>4. CASE second[len].issue
    <3>1. len \in 1..len
      BY <2>2
    <3>2. len \in Flagged(second)
      BY <2>1, <2>4, <3>1 DEF Flagged
    <3>3. seed' = len
      BY <2>2, <3>2
    <3> QED BY <2>2, <2>3, <3>3
  <2>5. CASE ~second[len].issue
    BY <2>2, <2>3, <2>5
  <2> QED BY <2>4, <2>5
<1>6. /\ seed' \in 0..len /\ report'.of \in 0..len
      /\ report'.of = seed' \/ (report'.of = len /\ ~report'.outcome.issue)
  BY <1>4, <1>5
<1>7. AnalysisTypeOK'
  BY <1>1, <1>2, <1>6 DEF AnalysisInv, AnalysisTypeOK
<1>8. ReportOfSeed'
  BY <1>1, <1>6 DEF ReportOfSeed
<1> QED BY <1>2, <1>7, <1>8 DEF AnalysisInv

LEMMA MappingsKeep == ASSUME AnalysisInv, AnalyzePredicateMappings PROVE AnalysisInv'
<1> USE DEF AnalyzePredicateMappings
<1>1. ASSUME NEW listed \in MatchLists PROVE IsList(ParseMatches(listed))
  <2>1. listed \in Seq(Lists!ToSet(listed))
    BY AnalysisAssumption DEF IsList
  <2>2. PICK places \in SUBSET DOMAIN listed : ParseMatches(listed) = Kept(listed, places)
    BY DEF ParseMatches
  <2>3. ParseMatches(listed) \in Seq(Lists!ToSet(listed))
    BY <2>1, <2>2, KeptEntries
  <2> QED BY <2>3, SequencesAreLists
<1>2. PICK mappings \in [Names(tree) -> {ParseMatches(listed) : listed \in MatchLists}] :
        tree' = WithMappings(tree, mappings)
  OBVIOUS
<1>3. \A name \in DOMAIN mappings : IsList(mappings[name])
  BY <1>1, <1>2
<1>4. IsTree(tree')
  BY <1>2, <1>3, MappedIsTree DEF AnalysisInv, AnalysisTypeOK
<1>5. node' \in {"refine_logic_tree", "end"} /\ node' \in AnalysisNodes
  BY DEF AnalysisNodes
<1>6. tests' \in Seq([positive : BOOLEAN]) /\ Len(tests') = 0
  BY EmptySeq
<1>7. MaxTests \in Nat /\ MaxOps \in Nat
  BY AnalysisAssumption
<1>8. seed' \in 0..Len(tests') /\ report'.of \in 0..Len(tests') /\ report'.of = seed'
  BY <1>6 DEF NoReport
<1>9. Len(tests') <= MaxTests /\ pending' \in 0..MaxOps
  BY <1>6, <1>7
<1>10. settings' \in Settings
  BY DEF AnalysisInv, AnalysisTypeOK
<1> QED BY <1>4, <1>5, <1>6, <1>8, <1>9, <1>10 DEF AnalysisInv, AnalysisTypeOK, ReportOfSeed

LEMMA RefineKeeps ==
  ASSUME AnalysisInv, EarlyExit \/ EndRefine \/ \E op \in Operations : Refine(op)
  PROVE  AnalysisInv'
<1>1. /\ UNCHANGED <<settings, tests, seed, report>>
      /\ node' \in {"refine_logic_tree", "end"} /\ node' \in AnalysisNodes
  BY DEF EarlyExit, EndRefine, Refine, AnalysisNodes
<1>2. pending' \in 0..MaxOps
  <2>1. MaxOps \in Nat /\ pending \in 0..MaxOps
    BY AnalysisAssumption DEF AnalysisInv, AnalysisTypeOK
  <2>2. pending' = pending \/ (pending > 0 /\ pending' = pending - 1)
    BY DEF EarlyExit, EndRefine, Refine
  <2> QED BY <2>1, <2>2
<1>3. IsTree(tree')
  <2>1. IsTree(tree)
    BY DEF AnalysisInv, AnalysisTypeOK
  <2>2. CASE EarlyExit \/ EndRefine
    BY <2>1, <2>2, EmptyIsTree DEF EarlyExit, EndRefine
  <2>3. CASE \E op \in Operations : Refine(op)
    <3>1. PICK op \in Operations : Refine(op)
      BY <2>3
    <3>2. ListsGiven(op)
      BY AnalysisAssumption
    <3>3. tree' = Apply(tree, op)
      BY <3>1 DEF Refine
    <3> QED BY <2>1, <3>2, <3>3, ApplyKeepsTree
  <2> QED BY <2>2, <2>3
<1>4. AnalysisTypeOK'
  BY <1>1, <1>2, <1>3 DEF AnalysisInv, AnalysisTypeOK
<1>5. ReportOfSeed'
  BY <1>1 DEF AnalysisInv, ReportOfSeed
<1> QED BY <1>1, <1>4, <1>5 DEF AnalysisInv

LEMMA AnalysisStepKeeps == ASSUME AnalysisInv, AnalysisStep PROVE AnalysisInv'
BY AnalyzeRuleKeeps, DecomposeRuleKeeps, DynamicAnalysisKeeps, MappingsKeep, RefineKeeps
   DEF AnalysisStep

\* The rest of the run lets the analysis be, but for the tree it drops.
LEMMA AnalysisStays ==
  ASSUME AnalysisInv, UNCHANGED <<settings, node, tests, seed, report>>,
         UNCHANGED <<tree, pending>> \/ (tree' = <<>> /\ pending' = 0)
  PROVE  AnalysisInv'
<1>1. IsTree(tree') /\ pending' \in 0..MaxOps
  BY EmptyIsTree, AnalysisAssumption DEF AnalysisInv, AnalysisTypeOK
<1>2. AnalysisTypeOK'
  BY <1>1 DEF AnalysisInv, AnalysisTypeOK
<1>3. ReportOfSeed'
  BY DEF AnalysisInv, ReportOfSeed
<1> QED BY <1>2, <1>3 DEF AnalysisInv

(***************************************************************************)
(* The choice of predicates.                                               *)
(***************************************************************************)

\* Ranks are counted from 1, no two are the same, and more code ranks first.
LEMMA RankFacts ==
  ASSUME NEW n \in Nat, NEW counts \in [1..n -> Nat]
  PROVE  /\ \A i \in 1..n : Rank(counts, i) \in 1..n
         /\ \A i, j \in 1..n :
              counts[j] > counts[i] \/ (counts[j] = counts[i] /\ j < i) => Rank(counts, j) < Rank(counts, i)
         /\ \A i, j \in 1..n : Rank(counts, i) = Rank(counts, j) => i = j
<1>1. PICK Above : Above = [i \in 1..n |-> {j \in 1..n : counts[j] > counts[i] \/ (counts[j] = counts[i] /\ j < i)}]
  OBVIOUS
<1>2. IsFiniteSet(1..n) /\ Cardinality(1..n) = n
  BY FS_Interval
<1>3. \A i, j \in 1..n : j \in Above[i] <=> counts[j] > counts[i] \/ (counts[j] = counts[i] /\ j < i)
  BY <1>1
<1>4. \A i \in 1..n : counts[i] \in Nat
  OBVIOUS
<1>5. ASSUME NEW i \in 1..n
      PROVE  /\ Above[i] \in SUBSET (1..n) /\ i \notin Above[i]
             /\ IsFiniteSet(Above[i]) /\ Cardinality(Above[i]) \in Nat
             /\ Rank(counts, i) = Cardinality(Above[i]) + 1
  <2>1. Above[i] \in SUBSET (1..n)
    BY <1>1
  <2>2. i \notin Above[i]
    BY <1>3, <1>4
  <2>3. IsFiniteSet(Above[i]) /\ Cardinality(Above[i]) \in Nat
    BY <1>2, <2>1, FS_Subset, FS_CardinalityType
  <2>4. DOMAIN counts = 1..n
    OBVIOUS
  <2>5. Rank(counts, i) = Cardinality(Above[i]) + 1
    BY <1>1, <2>4 DEF Rank
  <2> QED BY <2>1, <2>2, <2>3, <2>5
<1>6. ASSUME NEW i \in 1..n PROVE Rank(counts, i) \in 1..n
  <2>1. Cardinality(Above[i]) <= n /\ (Cardinality(Above[i]) = n => Above[i] = 1..n)
    BY <1>2, <1>5, FS_Subset
  <2>2. Above[i] # 1..n
    BY <1>5
  <2> QED BY <1>5, <2>1, <2>2
<1>7. ASSUME NEW i \in 1..n, NEW j \in 1..n, j \in Above[i] PROVE Rank(counts, j) < Rank(counts, i)
  <2>1. ASSUME NEW h \in Above[j] PROVE h \in Above[i]
    <3>1. h \in 1..n
      BY <1>5
    <3>2. counts[h] > counts[j] \/ (counts[h] = counts[j] /\ h < j)
      BY <1>3, <3>1
    <3>3. counts[j] > counts[i] \/ (counts[j] = counts[i] /\ j < i)
      BY <1>3, <1>7
    <3>4. counts[h] > counts[i] \/ (counts[h] = counts[i] /\ h < i)
      BY <1>4, <3>1, <3>2, <3>3
    <3> QED BY <1>3, <3>1, <3>4
  <2>2. Above[j] \in SUBSET Above[i] /\ Above[j] # Above[i]
    BY <1>5, <1>7, <2>1
  <2>3. Cardinality(Above[j]) <= Cardinality(Above[i]) /\ Cardinality(Above[j]) # Cardinality(Above[i])
    BY <1>5, <2>2, FS_Subset
  <2> QED BY <1>5, <2>3
<1>8. ASSUME NEW i \in 1..n, NEW j \in 1..n, Rank(counts, i) = Rank(counts, j) PROVE i = j
  <2>1. ~(Rank(counts, i) < Rank(counts, j)) /\ ~(Rank(counts, j) < Rank(counts, i))
    BY <1>6, <1>8
  <2>2. j \notin Above[i] /\ i \notin Above[j]
    BY <1>7, <2>1
  <2>3. ~(counts[j] > counts[i] \/ (counts[j] = counts[i] /\ j < i))
        /\ ~(counts[i] > counts[j] \/ (counts[i] = counts[j] /\ i < j))
    BY <1>3, <2>2
  <2> QED BY <1>4, <2>3
<1> QED BY <1>3, <1>6, <1>7, <1>8

\* Over the cap, as many predicates as the cap allows, and none is passed over for one
\* with less code.
LEMMA ChosenAreBest ==
  ASSUME NEW counts \in Seq(Nat), settings.cap \in Nat
  PROVE  /\ Chosen(counts) \in Seq(1..Len(counts)) /\ Len(Chosen(counts)) <= Len(counts)
         /\ settings.cap > 0 => Len(Chosen(counts)) <= settings.cap
         /\ \A i \in DOMAIN Chosen(counts), q \in DOMAIN counts :
              (\A j \in DOMAIN Chosen(counts) : q # Chosen(counts)[j]) =>
                counts[Chosen(counts)[i]] >= counts[q]
<1>1. PICK n \in Nat : n = Len(counts) /\ counts \in [1..n -> Nat]
  BY LenProperties
<1>2. PICK cap \in Nat : cap = settings.cap
  OBVIOUS
<1>3. PICK chosen : chosen = Chosen(counts)
  OBVIOUS
<1>4. CASE cap > 0 /\ n > cap
  <2>1. chosen = [r \in 1..cap |-> CHOOSE i \in 1..n : Rank(counts, i) = r]
    BY <1>1, <1>2, <1>3, <1>4 DEF Chosen
  <2>2. PICK rank : rank = [i \in 1..n |-> Rank(counts, i)]
    OBVIOUS
  <2>3. rank \in Injection(1..n, 1..n)
    BY <1>1, <2>2, RankFacts DEF Injection, IsInjective
  <2>4. IsFiniteSet(1..n)
    BY FS_Interval
  <2>5. rank \in Surjection(1..n, 1..n)
    BY <2>3, <2>4, FS_Injection
  <2>6. ASSUME NEW r \in 1..cap PROVE chosen[r] \in 1..n /\ Rank(counts, chosen[r]) = r
    <3>1. r \in 1..n
      BY <1>4
    <3>2. \E i \in 1..n : Rank(counts, i) = r
      BY <2>2, <2>5, <3>1 DEF Surjection
    <3> QED BY <2>1, <3>2
  <2>7. chosen \in Seq(1..n) /\ Len(chosen) = cap /\ DOMAIN chosen = 1..cap
    <3>1. chosen \in [1..cap -> 1..n]
      BY <2>1, <2>6
    <3> QED BY <3>1, FunctionsAreLists
  <2>8. ASSUME NEW r \in 1..cap, NEW q \in 1..n, \A j \in 1..cap : q # chosen[j]
        PROVE  counts[chosen[r]] >= counts[q]
    <3>1. Rank(counts, q) \in 1..n /\ \A j \in 1..n : Rank(counts, j) = Rank(counts, q) => j = q
      BY <1>1, RankFacts
    <3>2. ~(Rank(counts, q) <= cap)
      <4> SUFFICES ASSUME Rank(counts, q) <= cap PROVE FALSE
        OBVIOUS
      <4>1. PICK place \in 1..cap : place = Rank(counts, q)
        BY <3>1
      <4>2. chosen[place] \in 1..n /\ Rank(counts, chosen[place]) = Rank(counts, q)
        BY <2>6, <4>1
      <4> QED BY <2>8, <3>1, <4>1, <4>2
    <3>3. chosen[r] \in 1..n /\ Rank(counts, chosen[r]) = r
      BY <2>6
    <3>4. counts[q] > counts[chosen[r]] => Rank(counts, q) < Rank(counts, chosen[r])
      BY <1>1, <3>3, RankFacts
    <3>5. counts[q] \in Nat /\ counts[chosen[r]] \in Nat
      BY <1>1, <3>3
    <3> QED BY <3>1, <3>2, <3>3, <3>4, <3>5
  <2>9. DOMAIN counts = 1..n /\ Len(chosen) <= n /\ Len(chosen) <= cap
    BY <1>1, <1>4, <2>7
  <2>10. \A i \in DOMAIN chosen, q \in DOMAIN counts :
           (\A j \in DOMAIN chosen : q # chosen[j]) => counts[chosen[i]] >= counts[q]
    BY <2>7, <2>8, <2>9
  <2> QED BY <1>1, <1>2, <1>3, <2>7, <2>9, <2>10
<1>5. CASE ~(cap > 0 /\ n > cap)
  <2>1. chosen = [i \in 1..n |-> i]
    BY <1>1, <1>2, <1>3, <1>5 DEF Chosen
  <2>2. chosen \in [1..n -> 1..n]
    BY <2>1
  <2>3. chosen \in Seq(1..n) /\ Len(chosen) = n /\ DOMAIN chosen = 1..n
    BY <2>2, FunctionsAreLists
  <2>4. \A q \in 1..n : q = chosen[q]
    BY <2>1
  <2>5. cap > 0 => n <= cap
    BY <1>5
  <2>6. \A i \in DOMAIN chosen, q \in DOMAIN counts :
          (\A j \in DOMAIN chosen : q # chosen[j]) => counts[chosen[i]] >= counts[q]
    BY <1>1, <2>3, <2>4
  <2>7. Len(chosen) <= n /\ (cap > 0 => Len(chosen) <= cap)
    BY <2>3, <2>5
  <2> QED BY <1>1, <1>2, <1>3, <2>3, <2>6, <2>7
<1> QED BY <1>4, <1>5

\* The predicates with matched code, and how much they have.
LEMMA CoveredFacts ==
  ASSUME NEW t, IsTree(t),
         NEW counts, counts = [k \in DOMAIN WithCode(t) |-> Len(WithCode(t)[k].covered)]
  PROVE  counts \in Seq(Nat \ {0})
<1>1. PICK len \in Nat : len = Len(t) /\ DOMAIN t = 1..len
  BY TreeFacts
<1>2. PICK places : places = {i \in 1..len : t[i].name # NoName /\ t[i].covered # <<>>}
  OBVIOUS
<1>3. PICK r : r = Kept(t, places) /\ r = WithCode(t)
  BY <1>1, <1>2 DEF WithCode
<1>4. t \in Seq(Lists!ToSet(t)) /\ places \in SUBSET DOMAIN t
  BY <1>1, <1>2 DEF IsTree, IsList
<1>5. PICK n \in Nat : /\ DOMAIN r = 1..n
                       /\ \A k \in 1..n : \E i \in places : r[k] = t[i]
  <2>1. r \in Seq(Lists!ToSet(t)) /\ \A k \in DOMAIN r : InOrder(places)[k] \in places /\ r[k] = t[InOrder(places)[k]]
    <3>1. /\ Kept(t, places) \in Seq(Lists!ToSet(t))
          /\ \A k \in DOMAIN Kept(t, places) :
               InOrder(places)[k] \in places /\ Kept(t, places)[k] = t[InOrder(places)[k]]
      BY <1>4, KeptEntries
    <3> QED BY <1>3, <3>1
  <2>2. Len(r) \in Nat /\ DOMAIN r = 1..Len(r)
    BY <2>1, LenProperties
  <2> QED BY <2>1, <2>2
<1>6. ASSUME NEW k \in 1..n PROVE Len(r[k].covered) \in Nat \ {0}
  <2>1. PICK i \in places : r[k] = t[i]
    BY <1>5
  <2>2. PICK codes : codes = t[i].covered
    OBVIOUS
  <2>3. IsList(codes) /\ codes # <<>>
    BY <1>1, <1>2, <2>2, TreeFacts
  <2>4. codes \in Seq(Lists!ToSet(codes))
    BY <2>3 DEF IsList
  <2>5. Len(codes) \in Nat \ {0}
    BY <2>3, <2>4, EmptySeq
  <2> QED BY <2>1, <2>2, <2>5
<1>7. counts = [k \in 1..n |-> Len(r[k].covered)]
  BY <1>3, <1>5
<1>8. counts \in [1..n -> Nat \ {0}]
  BY <1>6, <1>7
<1> QED BY <1>8, FunctionsAreLists

(***************************************************************************)
(* Analyze: the run goes from the analysis to the first stage.             *)
(***************************************************************************)

\* Every predicate or mutant gets its task.
LEMMA SubmitFacts ==
  ASSUME NEW n \in Nat, Submit(1..n)
  PROVE  /\ at' \in Seq({"queued"}) /\ Len(at') = n /\ DOMAIN at' = 1..n
         /\ \A i \in 1..n : at'[i] = "queued"
         /\ collected' = 0
<1>1. at' = [i \in 1..n |-> "queued"] /\ collected' = 0
  BY DEF Submit
<1>2. at' \in [1..n -> {"queued"}]
  BY <1>1
<1> QED BY <1>1, <1>2, FunctionsAreLists

LEMMA AnalyzeKeeps == ASSUME PipelineInv, Analyze PROVE PipelineInv'
<1> USE DEF PipelineInv
<1>1. /\ stage = "analyze" /\ stage' = "generate" /\ tree' = <<>> /\ pending' = 0
      /\ covered' = [k \in DOMAIN WithCode(tree) |-> Len(WithCode(tree)[k].covered)]
      /\ predicates' = Chosen(covered')
      /\ snippets' = [i \in DOMAIN predicates' |-> 0]
      /\ outcomes' = [i \in DOMAIN predicates' |-> <<>>]
      /\ Submit(DOMAIN predicates')
      /\ UNCHANGED <<settings, node, tests, seed, report, mutants, review, verified, mentions>>
  BY DEF Analyze
<1>2. AnalysisInv'
  BY <1>1, AnalysisStays
<1>3. covered' \in Seq(Nat \ {0}) /\ covered' \in Seq(Nat)
  <2>1. IsTree(tree)
    BY DEF AnalysisInv, AnalysisTypeOK
  <2>2. covered' \in Seq(Nat \ {0})
    BY <1>1, <2>1, CoveredFacts
  <2> QED BY <2>2, SeqMonotonic
<1>4. /\ predicates' \in Seq(1..Len(covered')) /\ Len(predicates') <= Len(covered')
      /\ settings'.cap > 0 => Len(predicates') <= settings'.cap
      /\ \A i \in DOMAIN predicates', q \in DOMAIN covered' :
           (\A j \in DOMAIN predicates' : q # predicates'[j]) => covered'[predicates'[i]] >= covered'[q]
  BY <1>1, <1>3, SettingsTyped, ChosenAreBest
<1>5. TopPredicates'
  BY <1>4 DEF TopPredicates
<1>6. ChoiceInv'
  BY <1>3, <1>4, <1>5 DEF ChoiceInv
<1>7. PICK n \in Nat : n = Len(predicates') /\ DOMAIN predicates' = 1..n
  BY <1>4, LenProperties
<1>8. /\ at' \in Seq({"queued"}) /\ Len(at') = n /\ DOMAIN at' = 1..n
      /\ \A i \in 1..n : at'[i] = "queued"
      /\ collected' = 0
  BY <1>1, <1>7, SubmitFacts
<1>9. mutants' = <<>> /\ review' = <<>> /\ verified' = <<>>
  BY <1>1 DEF PoolInv
<1>10. PoolInv'
  <2>1. at' \in Seq(Idle \cup GenerateStates)
    BY <1>8, SeqMonotonic DEF Idle
  <2>2. collected' \in 0..Len(at') /\ \A i \in 1..collected' : FALSE
    BY <1>8
  <2> QED BY <1>1, <1>7, <1>8, <1>9, <2>1, <2>2 DEF PoolInv, Stages
<1>11. SynthesisInv'
  <2>1. Attempts' \in Nat
    BY <1>1, BoundsAssumption, SettingsTyped DEF Attempts
  <2>2. <<>> \in Seq(BOOLEAN) /\ Len(<<>>) = 0
    BY EmptySeq
  <2>3. \A i \in 1..n : snippets'[i] = 0 /\ outcomes'[i] = <<>>
    BY <1>1, <1>7
  <2>4. snippets' \in [1..n -> 0..Attempts'] /\ outcomes' \in [1..n -> Seq(BOOLEAN)]
    BY <1>1, <1>7, <2>1, <2>2
  <2>5. \A i \in 1..n : Len(outcomes'[i]) <= snippets'[i]
    BY <2>2, <2>3
  <2>6. \A i \in DOMAIN at' : at'[i] = "queued" /\ outcomes'[i] = <<>>
    BY <1>8, <2>3
  <2> QED BY <1>7, <2>4, <2>5, <2>6 DEF SynthesisInv
<1>12. MutantsInv' /\ VerifiedInv' /\ ReviewInv' /\ SummaryInv'
  <2>1. DOMAIN <<>> = {} /\ \A T : <<>> \in Seq(T)
    BY EmptySeq
  <2>2. \A i \in 1..collected' : FALSE
    BY <1>8
  <2>3. MutantsInv'
    BY <1>9, <2>1, <2>2 DEF MutantsInv
  <2>4. VerifiedInv'
    BY <1>1, <1>9, <2>1 DEF VerifiedInv
  <2>5. ReviewInv'
    BY <1>9, <2>1 DEF ReviewInv
  <2>6. SummaryInv'
    BY <1>1 DEF SummaryInv
  <2> QED BY <2>3, <2>4, <2>5, <2>6
<1> QED BY <1>2, <1>6, <1>10, <1>11, <1>12

(***************************************************************************)
(* The steps of a task.                                                    *)
(***************************************************************************)

\* A task that has steps is not over: its result is not taken yet, and the run is in one
\* of the two stages that have tasks, or it has failed in the second.
LEMMA TaskFacts ==
  ASSUME PoolInv, NEW i \in Tasks, at[i] \notin Finished
  PROVE  /\ Len(at) \in Nat /\ DOMAIN at = 1..Len(at) /\ collected \in Nat
         /\ i \notin 1..collected
         /\ stage \in {"generate", "verify", "failed"}
         /\ stage = "generate" => i \in DOMAIN predicates /\ at[i] \in {"queued"} \cup GenerateStates
         /\ stage # "generate" => i \in DOMAIN review /\ at[i] \in {"queued"} \cup VerifyStates
<1> USE DEF PoolInv, Tasks
<1>1. PICK A : A = Idle \cup (IF stage = "generate" THEN GenerateStates ELSE VerifyStates)
  OBVIOUS
<1>2. at \in Seq(A)
  BY <1>1
<1>3. PICK n \in Nat : n = Len(at) /\ DOMAIN at = 1..n /\ \A j \in 1..n : at[j] \in A
  BY <1>2, LenProperties, ElementOfSeq
<1>4. collected \in Nat /\ i \notin 1..collected
  BY <1>3
<1>5. collected # n
  BY <1>3, <1>4
<1>6. stage \in {"generate", "verify", "failed"}
  <2>1. stage # "analyze"
    <3> SUFFICES ASSUME stage = "analyze" PROVE FALSE
      OBVIOUS
    <3>1. at = <<>>
      OBVIOUS
    <3>2. DOMAIN at = {}
      BY <3>1, EmptySeq
    <3> QED BY <3>2
  <2>2. stage \notin {"group", "report", "done"}
    BY <1>3, <1>5
  <2> QED BY <2>1, <2>2 DEF Stages
<1>7. at[i] \in A
  BY <1>3
<1>8. at[i] \in Idle => at[i] = "queued"
  BY DEF Idle, Finished
<1>9. stage = "generate" => i \in DOMAIN predicates /\ at[i] \in {"queued"} \cup GenerateStates
  BY <1>1, <1>7, <1>8
<1>10. stage # "generate" => i \in DOMAIN review /\ at[i] \in {"queued"} \cup VerifyStates
  BY <1>1, <1>6, <1>7, <1>8
<1> QED BY <1>3, <1>4, <1>6, <1>9, <1>10

\* What a task's step has to do with: its own state, snippets, outcomes and review.
LEMMA TaskKeeps ==
  ASSUME PipelineInv, NEW i \in Tasks, at[i] \notin Finished, NEW to,
         at' = [at EXCEPT ![i] = to],
         to \in Idle \cup (IF stage = "generate" THEN GenerateStates ELSE VerifyStates),
         UNCHANGED <<settings, analysis, stage, covered, predicates, collected, mutants, verified, mentions>>,
         DOMAIN review' = DOMAIN review, stage = "generate" => review' = review,
         stage = "generate" => \A j \in DOMAIN predicates : j # i => outcomes'[j] = outcomes[j],
         SynthesisInv', ReviewInv'
  PROVE  PipelineInv'
<1> USE DEF PipelineInv
<1>1. PICK n \in Nat : n = Len(at) /\ DOMAIN at = 1..n
  BY TaskFacts
<1>2. collected \in Nat /\ i \in 1..n /\ i \notin 1..collected /\ stage \in {"generate", "verify", "failed"}
  BY <1>1, TaskFacts DEF Tasks
<1>3. at' \in Seq(Idle \cup (IF stage = "generate" THEN GenerateStates ELSE VerifyStates)) /\ Len(at') = n /\ DOMAIN at' = 1..n
  <2>1. PICK A : A = Idle \cup (IF stage = "generate" THEN GenerateStates ELSE VerifyStates)
    OBVIOUS
  <2>2. at \in Seq(A) /\ to \in A
    BY <2>1 DEF PoolInv
  <2>3. at' \in Seq(A) /\ Len(at') = n
    BY <1>1, <1>2, <2>2, ExceptSeq
  <2>4. DOMAIN at' = 1..n
    BY <1>1
  <2> QED BY <2>1, <2>3, <2>4
<1>4. \A j \in 1..collected : at'[j] = at[j]
  <2>1. \A j \in 1..collected : j \in 1..n /\ j # i
    BY <1>1, <1>2 DEF PoolInv
  <2> QED BY <1>1, <2>1
<1>5. AnalysisInv'
  <2>1. AnalysisInv /\ UNCHANGED <<settings, node, tests, seed, report, tree, pending>>
    BY DEF analysis
  <2> QED BY <2>1, AnalysisStays
<1>6. ChoiceInv'
  <2>1. ChoiceInv /\ UNCHANGED <<settings, covered, predicates>>
    OBVIOUS
  <2> HIDE DEF PipelineInv
  <2> QED BY <2>1 DEF ChoiceInv, TopPredicates
<1>7. PoolInv'
  <2>1. \A j \in 1..collected' : at'[j] \in Finished
    <3>1. collected' = collected /\ \A j \in 1..collected : at[j] \in Finished
      BY DEF PoolInv
    <3> QED BY <1>4, <3>1
  <2>2. DOMAIN at' = DOMAIN at /\ Len(at') = Len(at)
    BY <1>1, <1>3
  <2>3. stage' \notin {"analyze", "group", "report", "done"}
    BY <1>2
  <2> QED BY <1>3, <2>1, <2>2, <2>3 DEF PoolInv
<1>8. MutantsInv'
  <2>1. ASSUME stage = "generate", NEW j \in 1..collected PROVE outcomes'[j] = outcomes[j]
    <3>1. j \in 1..n /\ j # i
      BY <1>1, <1>2 DEF PoolInv
    <3>2. j \in DOMAIN predicates
      BY <1>1, <2>1, <3>1 DEF PoolInv
    <3> QED BY <2>1, <3>1, <3>2
  <2>2. /\ mutants' \in Seq(Nat \X Nat)
        /\ \A j, k \in DOMAIN mutants' : j < k => Before(mutants'[j], mutants'[k])
    BY DEF MutantsInv
  <2>3. ASSUME stage = "generate"
        PROVE  /\ \A j \in DOMAIN mutants' : mutants'[j][1] \in 1..collected'
               /\ \A h \in 1..collected' : at'[h] = "ended" =>
                    \A k \in DOMAIN outcomes'[h] :
                      outcomes'[h][k] => \E j \in DOMAIN mutants' : mutants'[j] = <<h, k>>
    BY <1>4, <2>1, <2>3 DEF MutantsInv
  <2> QED BY <2>2, <2>3 DEF MutantsInv, Before
<1>9. VerifiedInv'
  BY <1>4 DEF VerifiedInv
<1>10. SummaryInv'
  BY <1>2 DEF SummaryInv
<1> QED BY <1>5, <1>6, <1>7, <1>8, <1>9, <1>10

\* A step that only moves the task on.
LEMMA MoveKeeps ==
  ASSUME PipelineInv, NEW i \in Tasks, NEW from, from \notin Finished, NEW to, Move(i, from, to),
         UNCHANGED <<settings, analysis, stage, generation, collected, mutants, review, verified, mentions>>,
         to \in Finished \/ (stage = "generate" /\ to \in GenerateStates) \/ (stage # "generate" /\ to \in VerifyStates),
         stage = "generate" /\ to \in {"search", "mutate"} =>
           from = "queued" /\ settings.direct = (to = "mutate"),
         to \in {"judge", "check"} => from \in {"queued", "judge", "check"},
         to # "assess"
  PROVE  PipelineInv'
<1> USE DEF PipelineInv, Move, generation
<1>1. at[i] \notin Finished /\ at' = [at EXCEPT ![i] = to]
  OBVIOUS
<1>2. to \in Idle \cup (IF stage = "generate" THEN GenerateStates ELSE VerifyStates)
  BY DEF Finished, Idle
<1>3. DOMAIN at' = DOMAIN at /\ at'[i] = to /\ \A j \in DOMAIN at : j # i => at'[j] = at[j]
  BY <1>1 DEF Tasks
<1>4. SynthesisInv'
  <2>1. ASSUME stage = "generate", NEW j \in DOMAIN at'
        PROVE  /\ at'[j] \in {"queued", "search", "mutate"} => outcomes'[j] = <<>>
               /\ at'[j] = "search" => ~settings'.direct
               /\ at'[j] = "mutate" => settings'.direct
    <3>1. CASE j = i
      <4>1. to # "queued"
        BY DEF Finished, GenerateStates, VerifyStates
      <4>2. at'[j] \in {"queued", "search", "mutate"} => at[j] = "queued" /\ settings.direct = (to = "mutate")
        BY <1>3, <2>1, <3>1, <4>1
      <4>3. j \in DOMAIN at
        BY <1>3, <2>1
      <4>4. at[j] = "queued" => outcomes[j] = <<>>
        BY <2>1, <4>3 DEF SynthesisInv
      <4> QED BY <1>3, <3>1, <4>2, <4>4
    <3>2. CASE j # i
      BY <1>3, <2>1, <3>2 DEF SynthesisInv
    <3> QED BY <3>1, <3>2
  <2>2. UNCHANGED <<predicates, snippets, outcomes, settings, stage>>
    OBVIOUS
  <2>3. Attempts' = Attempts
    BY DEF Attempts
  <2> QED BY <2>1, <2>2, <2>3 DEF SynthesisInv
<1>5. ReviewInv'
  <2>1. ASSUME NEW j \in DOMAIN review
        PROVE  /\ Sound(review[j])'
               /\ at'[j] \in {"queued", "judge", "check"} => review'[j].class = "NONE" /\ review'[j].score = "none"
               /\ at'[j] = "assess" => review'[j].class # "NONE"
    <3>1. Sound(review[j])' /\ review'[j] = review[j]
      BY DEF ReviewInv, Sound
    <3>2. CASE j = i
      <4>1. to # "queued"
        BY DEF Finished, GenerateStates, VerifyStates
      <4>2. at'[j] \in {"queued", "judge", "check"} => at[j] \in {"queued", "judge", "check"}
        BY <1>3, <3>2, <4>1
      <4> QED BY <1>3, <3>1, <3>2, <4>2 DEF ReviewInv
    <3>3. CASE j # i
      <4>1. at'[j] = at[j]
        BY <1>1, <1>3, <3>3
      <4> QED BY <3>1, <4>1 DEF ReviewInv
    <3> QED BY <3>2, <3>3
  <2>2. review' \in Seq(Review)
    BY DEF ReviewInv
  <2> QED BY <2>1, <2>2 DEF ReviewInv
<1> QED BY <1>1, <1>2, <1>4, <1>5, TaskKeeps

LEMMA StartTaskKeeps ==
  ASSUME PipelineInv, NEW i \in Tasks, StartTask(i), UNCHANGED <<settings, analysis>>
  PROVE  PipelineInv'
<1>1. settings.direct \in BOOLEAN
  BY SettingsTyped DEF PipelineInv
<1>2. UNCHANGED <<settings, analysis, stage, generation, collected, mutants, review, verified, mentions>>
  BY DEF StartTask
<1>3. CASE stage = "generate" /\ Move(i, "queued", IF settings.direct THEN "mutate" ELSE "search")
  <2>1. PICK to : to = IF settings.direct THEN "mutate" ELSE "search"
    OBVIOUS
  <2>2. to \in GenerateStates /\ to \notin {"judge", "check", "assess"} /\ settings.direct = (to = "mutate")
    BY <1>1, <2>1 DEF GenerateStates
  <2>3. Move(i, "queued", to) /\ "queued" \notin Finished
    BY <1>3, <2>1 DEF Finished
  <2> QED BY <1>2, <1>3, <2>2, <2>3, MoveKeeps
<1>4. CASE stage = "verify" /\ Move(i, "queued", "judge")
  <2>1. "queued" \notin Finished /\ "judge" \in VerifyStates
    BY DEF Finished, VerifyStates
  <2> QED BY <1>2, <1>4, <2>1, MoveKeeps
<1> QED BY <1>3, <1>4 DEF StartTask

LEMMA TaskRaisesKeeps ==
  ASSUME PipelineInv, NEW i \in Tasks, TaskRaises(i), UNCHANGED <<settings, analysis>>
  PROVE  PipelineInv'
<1>1. UNCHANGED <<settings, analysis, stage, generation, collected, mutants, review, verified, mentions>>
  BY DEF TaskRaises
<1>2. PICK from \in {"search", "mutate", "judge", "check", "assess"}, text \in {"error", "silent"} :
        Move(i, from, text)
  BY DEF TaskRaises
<1>3. from \notin Finished /\ text \in Finished /\ text \notin {"search", "mutate", "judge", "check", "assess"}
  BY DEF Finished
<1> QED BY <1>1, <1>2, <1>3, MoveKeeps

LEMMA PredicateEndsKeeps ==
  ASSUME PipelineInv, NEW i \in Tasks, PredicateEnds(i), UNCHANGED <<settings, analysis>>
  PROVE  PipelineInv'
<1>1. UNCHANGED <<settings, analysis, stage, generation, collected, mutants, review, verified, mentions>>
  BY DEF PredicateEnds
<1>2. Move(i, "synthesize", "ended")
  BY DEF PredicateEnds
<1>3. "synthesize" \notin Finished /\ "ended" \in Finished
  BY DEF Finished
<1> QED BY <1>1, <1>2, <1>3, MoveKeeps

\* Steps of the generation leave the reviews alone.
LEMMA ReviewStays ==
  ASSUME PipelineInv, stage = "generate", UNCHANGED <<settings, stage, review>>
  PROVE  ReviewInv'
<1>1. review' = <<>>
  BY DEF PipelineInv, PoolInv
<1>2. DOMAIN review' = {} /\ review' \in Seq(Review)
  BY <1>1, EmptySeq
<1> QED BY <1>2 DEF ReviewInv

\* The snippets of a predicate are there: from now on mutants are made of them.
LEMMA SnippetsKeep ==
  ASSUME PipelineInv, NEW i \in Tasks, NEW from \in {"search", "mutate"},
         Move(i, from, "synthesize"), stage = "generate",
         NEW n \in 0..Attempts, snippets' = [snippets EXCEPT ![i] = n],
         UNCHANGED <<settings, analysis, stage, covered, predicates, collected, outcomes,
                     mutants, review, verified, mentions>>
  PROVE  PipelineInv'
<1> USE DEF PipelineInv, Move
<1>1. at[i] = from /\ at[i] \notin Finished /\ at' = [at EXCEPT ![i] = "synthesize"]
  BY DEF Finished
<1>2. DOMAIN predicates = DOMAIN at /\ i \in DOMAIN predicates
  BY DEF PoolInv, Tasks
<1>3. outcomes[i] = <<>> /\ Len(outcomes[i]) = 0
  BY <1>1, <1>2, EmptySeq DEF SynthesisInv
<1>4. SynthesisInv'
  <2>1. Attempts' = Attempts
    BY DEF Attempts
  <2>2. n \in Nat
    BY BoundsAssumption, SettingsTyped DEF Attempts
  <2>3. snippets' \in [DOMAIN predicates -> 0..Attempts] /\ snippets'[i] = n
        /\ \A j \in DOMAIN predicates : j # i => snippets'[j] = snippets[j]
    BY <1>2 DEF SynthesisInv
  <2>4. ASSUME NEW j \in DOMAIN predicates PROVE Len(outcomes[j]) <= snippets'[j]
    <3>1. CASE j = i
      BY <1>3, <2>2, <2>3, <3>1
    <3>2. CASE j # i
      BY <2>3, <3>2 DEF SynthesisInv
    <3> QED BY <3>1, <3>2
  <2>5. ASSUME NEW j \in DOMAIN at'
        PROVE  /\ at'[j] \in {"queued", "search", "mutate"} => outcomes[j] = <<>>
               /\ at'[j] = "search" => ~settings.direct
               /\ at'[j] = "mutate" => settings.direct
    <3>1. j \in DOMAIN at /\ at'[j] = IF j = i THEN "synthesize" ELSE at[j]
      BY <1>1
    <3> QED BY <3>1 DEF SynthesisInv
  <2> QED BY <2>1, <2>3, <2>4, <2>5 DEF SynthesisInv
<1>5. ReviewInv'
  BY ReviewStays
<1>6. "synthesize" \in Idle \cup (IF stage = "generate" THEN GenerateStates ELSE VerifyStates)
  BY DEF GenerateStates
<1> QED BY <1>1, <1>4, <1>5, <1>6, TaskKeeps

LEMMA QuerySnippetsKeeps ==
  ASSUME PipelineInv, NEW i \in Tasks, QuerySnippets(i), UNCHANGED <<settings, analysis>>
  PROVE  PipelineInv'
<1>1. /\ Move(i, "search", "synthesize")
      /\ UNCHANGED <<settings, analysis, stage, covered, predicates, collected, outcomes,
                     mutants, review, verified, mentions>>
  BY DEF QuerySnippets
<1>2. PICK n \in 0..MaxFound : snippets' = [snippets EXCEPT ![i] = n]
  BY DEF QuerySnippets
<1>3. at[i] = "search" /\ at[i] \notin Finished
  BY <1>1 DEF Move, Finished
<1>4. stage = "generate"
  BY <1>3, TaskFacts DEF PipelineInv, VerifyStates
<1>5. ~settings.direct
  BY <1>3, <1>4 DEF PipelineInv, SynthesisInv, Tasks
<1>6. n \in 0..Attempts
  BY <1>5 DEF Attempts
<1> QED BY <1>1, <1>2, <1>4, <1>6, SnippetsKeep

LEMMA DirectMutationKeeps ==
  ASSUME PipelineInv, NEW i \in Tasks, DirectMutation(i), UNCHANGED <<settings, analysis>>
  PROVE  PipelineInv'
<1>1. /\ Move(i, "mutate", "synthesize")
      /\ snippets' = [snippets EXCEPT ![i] = 2 * Variants]
      /\ UNCHANGED <<settings, analysis, stage, covered, predicates, collected, outcomes,
                     mutants, review, verified, mentions>>
  BY DEF DirectMutation
<1>2. at[i] = "mutate" /\ at[i] \notin Finished
  BY <1>1 DEF Move, Finished
<1>3. stage = "generate"
  BY <1>2, TaskFacts DEF PipelineInv, VerifyStates
<1>4. settings.direct
  BY <1>2, <1>3 DEF PipelineInv, SynthesisInv, Tasks
<1>5. 2 * Variants \in 0..Attempts
  BY <1>4, BoundsAssumption DEF Attempts
<1> QED BY <1>1, <1>3, <1>5, SnippetsKeep

LEMMA SynthesizeKeeps ==
  ASSUME PipelineInv, NEW i \in Tasks, Synthesize(i), UNCHANGED <<settings, analysis>>
  PROVE  PipelineInv'
<1> USE DEF PipelineInv
<1>1. /\ at[i] = "synthesize" /\ Len(outcomes[i]) < snippets[i]
      /\ UNCHANGED <<settings, analysis, stage, covered, predicates, at, collected, snippets,
                     mutants, review, verified, mentions>>
  BY DEF Synthesize
<1>2. PICK made \in BOOLEAN : outcomes' = [outcomes EXCEPT ![i] = Append(@, made)]
  <2>1. SynthesisResults \in SUBSET BOOLEAN /\ MutationResults \in SUBSET BOOLEAN
    BY DEF SynthesisResults, MutationResults
  <2> QED BY <2>1 DEF Synthesize
<1>3. at[i] \notin Finished /\ at' = [at EXCEPT ![i] = "synthesize"]
  <2>1. PICK A : at \in Seq(A)
    BY DEF PoolInv
  <2>2. at = [j \in 1..Len(at) |-> at[j]] /\ i \in 1..Len(at)
    BY <2>1, LenProperties DEF Tasks
  <2>3. at = [at EXCEPT ![i] = "synthesize"]
    BY <1>1, <2>2
  <2> QED BY <1>1, <2>3 DEF Finished
<1>4. stage = "generate" /\ i \in DOMAIN predicates
  BY <1>1, <1>3, TaskFacts DEF VerifyStates
<1>5. outcomes[i] \in Seq(BOOLEAN) /\ Len(outcomes[i]) \in Nat /\ snippets[i] \in Int
  BY <1>4, LenProperties, BoundsAssumption, SettingsTyped DEF SynthesisInv, Attempts
<1>6. /\ outcomes' \in [DOMAIN predicates -> Seq(BOOLEAN)]
      /\ outcomes'[i] = Append(outcomes[i], made) /\ Len(outcomes'[i]) = Len(outcomes[i]) + 1
      /\ \A j \in DOMAIN predicates : j # i => outcomes'[j] = outcomes[j]
  <2>1. Append(outcomes[i], made) \in Seq(BOOLEAN) /\ Len(Append(outcomes[i], made)) = Len(outcomes[i]) + 1
    BY <1>5, AppendProperties
  <2> QED BY <1>2, <1>4, <2>1 DEF SynthesisInv
<1>7. SynthesisInv'
  <2>1. Attempts' = Attempts
    BY <1>1 DEF Attempts
  <2>2. ASSUME NEW j \in DOMAIN predicates PROVE Len(outcomes'[j]) <= snippets[j]
    <3>1. CASE j = i
      BY <1>1, <1>5, <1>6, <3>1
    <3>2. CASE j # i
      BY <1>6, <3>2 DEF SynthesisInv
    <3> QED BY <3>1, <3>2
  <2>3. ASSUME NEW j \in DOMAIN at
        PROVE  /\ at[j] \in {"queued", "search", "mutate"} => outcomes'[j] = <<>>
               /\ at[j] = "search" => ~settings.direct
               /\ at[j] = "mutate" => settings.direct
    <3>1. at[j] \in {"queued", "search", "mutate"} => j # i
      BY <1>1
    <3>2. j \in DOMAIN predicates
      BY <1>4 DEF PoolInv
    <3> QED BY <1>4, <1>6, <3>1, <3>2 DEF SynthesisInv
  <2> QED BY <1>1, <1>6, <2>1, <2>2, <2>3 DEF SynthesisInv
<1>8. ReviewInv'
  BY <1>1, <1>4, ReviewStays
<1>9. "synthesize" \in Idle \cup (IF stage = "generate" THEN GenerateStates ELSE VerifyStates)
  BY <1>4 DEF GenerateStates
<1> QED BY <1>1, <1>3, <1>6, <1>7, <1>8, <1>9, TaskKeeps

\* What the analyzers report; a run of Bandit or CodeQL that failed is noticed.
LEMMA OutcomeFacts ==
  ASSUME NEW tool \in Tools, NEW o \in Outcomes[tool]
  PROVE  /\ o.issue \in BOOLEAN /\ o.runtimeError \in BOOLEAN /\ o.completed \in BOOLEAN
         /\ tool \in {"bandit", "codeql"} /\ ~o.issue /\ ~o.runtimeError => o.completed
<1>1. CASE tool = "bandit"
  <2>1. PICK r \in BanditRuns :
          o = Outcome(r.findings, BanditSucceeds(r), r.parsed /\ ~r.errors /\ r.code \in {0, 1})
    BY <1>1 DEF Outcomes, BanditOutcomes
  <2>2. /\ o.issue = r.findings /\ o.runtimeError = ~BanditSucceeds(r)
        /\ o.completed = (r.parsed /\ ~r.errors /\ r.code \in {0, 1})
    BY <2>1 DEF Outcome
  <2>3. r.findings \in BOOLEAN
    BY DEF BanditRuns
  <2>4. BanditSucceeds(r) /\ ~r.findings => r.parsed /\ ~r.errors /\ r.code \in {0, 1}
    BY DEF BanditSucceeds
  <2>5. o.runtimeError \in BOOLEAN /\ o.completed \in BOOLEAN
    BY <2>2
  <2> QED BY <2>2, <2>3, <2>4, <2>5
<1>2. CASE tool = "codeql"
  <2>1. PICK r \in CodeqlRuns :
          o = Outcome(CodeqlSucceeds(r) /\ r.rows, CodeqlSucceeds(r),
                      /\ {r.create, r.query, r.decode} = {"ok"}
                      /\ r.queryFile /\ r.database /\ r.csv)
    BY <1>2 DEF Outcomes, CodeqlOutcomes
  <2>2. /\ o.issue = (CodeqlSucceeds(r) /\ r.rows) /\ o.runtimeError = ~CodeqlSucceeds(r)
        /\ o.completed = (/\ {r.create, r.query, r.decode} = {"ok"}
                          /\ r.queryFile /\ r.database /\ r.csv)
    BY <2>1 DEF Outcome
  <2>3. CodeqlSucceeds(r) => {r.create, r.query, r.decode} = {"ok"} /\ r.queryFile /\ r.database /\ r.csv
    BY DEF CodeqlSucceeds
  <2>4. o.issue \in BOOLEAN /\ o.runtimeError \in BOOLEAN /\ o.completed \in BOOLEAN
    BY <2>2
  <2> QED BY <2>2, <2>3, <2>4
<1>3. CASE tool = "semgrep"
  <2>1. PICK r \in SemgrepRuns :
          o = Outcome(SemgrepIssue(r), r.started, r.started /\ r.code \in {0, 1})
    BY <1>3 DEF Outcomes, SemgrepOutcomes
  <2>2. SemgrepIssue(r) \in BOOLEAN
    BY DEF SemgrepIssue
  <2> QED BY <1>3, <2>1, <2>2 DEF Outcome
<1>4. CASE tool = "spotbugs"
  <2>1. PICK r \in SpotbugsRuns :
          o = Outcome(SpotbugsSucceeds(r) /\ r.report = "bugs", SpotbugsSucceeds(r),
                      SpotbugsSucceeds(r) /\ r.report \in {"clean", "bugs"})
    BY <1>4 DEF Outcomes, SpotbugsOutcomes
  <2> QED BY <1>4, <2>1 DEF Outcome
<1> QED BY <1>1, <1>2, <1>3, <1>4 DEF Tools

\* A step of the verification writes the review of its own mutant.
LEMMA NoteKeeps ==
  ASSUME PipelineInv, NEW i \in Tasks, NEW from \in VerifyStates, NEW to \in VerifyStates \cup {"ended"},
         Move(i, from, to), NEW found \in Review, Note(i, found), Sound(found),
         to \in {"judge", "check"} => found.class = "NONE" /\ found.score = "none",
         to = "assess" => found.class # "NONE",
         UNCHANGED <<settings, analysis, stage, generation, collected, mutants, verified, mentions>>
  PROVE  PipelineInv'
<1> USE DEF PipelineInv, generation
<1>1. at[i] = from /\ at[i] \notin Finished /\ at' = [at EXCEPT ![i] = to]
  BY DEF Move, Finished, VerifyStates
<1>2. stage # "generate" /\ i \in DOMAIN review
  BY <1>1, TaskFacts DEF GenerateStates, VerifyStates
<1>3. to \in Idle \cup (IF stage = "generate" THEN GenerateStates ELSE VerifyStates)
  BY <1>2 DEF Idle
<1>4. review' = [review EXCEPT ![i] = found] /\ DOMAIN review' = DOMAIN review
  BY DEF Note
<1>5. SynthesisInv'
  BY <1>2 DEF SynthesisInv, Attempts
<1>6. review' \in Seq(Review)
  <2>1. PICK n \in Nat : n = Len(review) /\ DOMAIN review = 1..n
    BY LenProperties DEF ReviewInv
  <2>2. i \in 1..n
    BY <1>2, <2>1
  <2> QED BY <1>4, <2>1, <2>2, ExceptSeq DEF ReviewInv
<1>7. ReviewInv'
  <2>1. ASSUME NEW j \in DOMAIN review
        PROVE  /\ Sound(review[j])'
               /\ at'[j] \in {"queued", "judge", "check"} => review'[j].class = "NONE" /\ review'[j].score = "none"
               /\ at'[j] = "assess" => review'[j].class # "NONE"
    <3>1. CASE j = i
      <4>1. review'[j] = found /\ at'[j] = to
        BY <1>1, <1>2, <1>4, <3>1 DEF Tasks
      <4>2. Sound(review[j])'
        BY <4>1 DEF Sound
      <4>3. to # "queued"
        BY DEF VerifyStates
      <4> QED BY <4>1, <4>2, <4>3
    <3>2. CASE j # i
      <4>1. review'[j] = review[j] /\ j \in DOMAIN at /\ at'[j] = at[j]
        BY <1>1, <1>2, <1>4, <3>2, TaskFacts DEF PoolInv
      <4>2. Sound(review[j]) /\ (Sound(review[j]) => Sound(review[j])')
        BY <4>1 DEF Sound, ReviewInv
      <4> QED BY <4>1, <4>2 DEF ReviewInv
    <3> QED BY <3>1, <3>2
  <2> QED BY <1>4, <1>6, <2>1 DEF ReviewInv
<1> QED BY <1>1, <1>2, <1>3, <1>4, <1>5, <1>7, TaskKeeps

LEMMA NewReviewFacts == NewReview \in Review /\ NewReview.class = "NONE" /\ NewReview.score = "none" /\ Sound(NewReview)
BY DEF NewReview, Review, Scores, Sound

\* The task a verification step belongs to has a review.
LEMMA ReviewFacts ==
  ASSUME PipelineInv, NEW i \in Tasks, at[i] \in VerifyStates
  PROVE  /\ review[i] \in Review /\ Sound(review[i])
         /\ at[i] \in {"judge", "check"} => review[i].class = "NONE" /\ review[i].score = "none"
         /\ at[i] = "assess" => review[i].class # "NONE"
<1>1. at[i] \notin Finished /\ at[i] \notin {"queued"} \cup GenerateStates
  BY DEF Finished, VerifyStates, GenerateStates
<1>2. i \in DOMAIN review
  BY <1>1, TaskFacts DEF PipelineInv
<1>3. review[i] \in Review
  BY <1>2, LenProperties, ElementOfSeq DEF PipelineInv, ReviewInv
<1> QED BY <1>2, <1>3 DEF PipelineInv, ReviewInv

LEMMA LlmJudgeKeeps ==
  ASSUME PipelineInv, NEW i \in Tasks, LlmJudge(i), UNCHANGED <<settings, analysis>>
  PROVE  PipelineInv'
<1>1. /\ Move(i, "judge", "check")
      /\ UNCHANGED <<settings, analysis, stage, generation, collected, mutants, verified, mentions>>
  BY DEF LlmJudge
<1>2. PICK hasIssue \in BOOLEAN : Note(i, [review[i] EXCEPT !.llm = hasIssue])
  BY DEF LlmJudge
<1>3. PICK found : found = [review[i] EXCEPT !.llm = hasIssue]
  OBVIOUS
<1>4. "judge" \in VerifyStates /\ "check" \in VerifyStates /\ at[i] = "judge"
  BY <1>1 DEF VerifyStates, Move
<1>5. review[i] \in Review /\ review[i].class = "NONE" /\ review[i].score = "none"
  BY <1>4, ReviewFacts
<1>6. found \in Review /\ found.class = "NONE" /\ found.score = "none"
  BY <1>3, <1>5 DEF Review
<1>7. Sound(found)
  BY <1>6 DEF Sound
<1>8. Note(i, found)
  BY <1>2, <1>3
<1> QED BY <1>1, <1>4, <1>6, <1>7, <1>8, NoteKeeps

LEMMA AnalyzerCheckKeeps ==
  ASSUME PipelineInv, NEW i \in Tasks, AnalyzerCheck(i), UNCHANGED <<settings, analysis>>
  PROVE  PipelineInv'
<1>1. UNCHANGED <<settings, analysis, stage, generation, collected, mutants, verified, mentions>>
  BY DEF AnalyzerCheck
<1>2. PICK ran \in Outcomes[settings.tool] :
        /\ Move(i, "check", IF Disagrees(review[i].llm, ran.issue, ran.runtimeError) THEN "assess" ELSE "ended")
        /\ Note(i, IF ~Disagrees(review[i].llm, ran.issue, ran.runtimeError) THEN NewReview ELSE
                     [review[i] EXCEPT
                        !.tool = ran.issue, !.toolError = ran.runtimeError,
                        !.completed = ran.completed,
                        !.class = IF ran.issue THEN "FP" ELSE "FN"])
  BY DEF AnalyzerCheck
<1>3. PICK found :
        /\ found = IF ~Disagrees(review[i].llm, ran.issue, ran.runtimeError) THEN NewReview ELSE
            [review[i] EXCEPT
               !.tool = ran.issue, !.toolError = ran.runtimeError,
               !.completed = ran.completed,
               !.class = IF ran.issue THEN "FP" ELSE "FN"]
        /\ Note(i, found)
  BY <1>2
<1>4. "check" \in VerifyStates /\ "assess" \in VerifyStates /\ at[i] = "check"
  BY <1>2 DEF VerifyStates, Move
<1>5. /\ ran.issue \in BOOLEAN /\ ran.runtimeError \in BOOLEAN /\ ran.completed \in BOOLEAN
      /\ settings.tool \in {"bandit", "codeql"} /\ ~ran.issue /\ ~ran.runtimeError => ran.completed
  BY SettingsTyped, OutcomeFacts DEF PipelineInv
<1>6. CASE Disagrees(review[i].llm, ran.issue, ran.runtimeError)
  <2>1. review[i] \in Review /\ review[i].score = "none"
    BY <1>4, ReviewFacts
  <2>2. found = [review[i] EXCEPT
               !.tool = ran.issue, !.toolError = ran.runtimeError,
               !.completed = ran.completed,
               !.class = IF ran.issue THEN "FP" ELSE "FN"]
    BY <1>3, <1>6
  <2>3. /\ found.llm = review[i].llm /\ found.tool = ran.issue /\ found.toolError = ran.runtimeError
        /\ found.completed = ran.completed /\ found.class = (IF ran.issue THEN "FP" ELSE "FN")
        /\ found.score = "none"
    BY <2>1, <2>2 DEF Review
  <2>4. found \in Review
    <3>1. (IF ran.issue THEN "FP" ELSE "FN") \in {"FP", "FN", "NONE"}
      OBVIOUS
    <3> QED BY <1>5, <2>1, <2>2, <3>1 DEF Review
  <2>5. ~ran.runtimeError /\ review[i].llm # ran.issue
    BY <1>6 DEF Disagrees
  <2>6. found.class # "NONE" /\ (found.class = "FN" => ~ran.issue)
    BY <2>3
  <2>7. Sound(found)
    BY <1>5, <2>3, <2>5, <2>6 DEF Sound
  <2>8. Move(i, "check", "assess")
    BY <1>2, <1>6
  <2>9. /\ "check" \in VerifyStates /\ "assess" \in VerifyStates \cup {"ended"} /\ Note(i, found)
        /\ "assess" \in {"judge", "check"} => found.class = "NONE" /\ found.score = "none"
        /\ found.class # "NONE"
    BY <1>3, <1>4, <2>6
  <2> QED BY <1>1, <2>4, <2>7, <2>8, <2>9, NoteKeeps
<1>7. CASE ~Disagrees(review[i].llm, ran.issue, ran.runtimeError)
  <2>1. Move(i, "check", "ended") /\ found = NewReview
    BY <1>2, <1>3, <1>7
  <2>2. found \in Review /\ Sound(found)
    BY <2>1, NewReviewFacts
  <2> QED BY <1>1, <1>3, <1>4, <2>1, <2>2, NoteKeeps
<1> QED BY <1>6, <1>7

LEMMA AssessKeeps ==
  ASSUME PipelineInv, NEW i \in Tasks, Assess(i), UNCHANGED <<settings, analysis>>
  PROVE  PipelineInv'
<1>1. /\ Move(i, "assess", "ended")
      /\ UNCHANGED <<settings, analysis, stage, generation, collected, mutants, verified, mentions>>
  BY DEF Assess
<1>2. PICK score \in {"none", "P0", "P1"} : Note(i, [review[i] EXCEPT !.score = score])
  BY DEF Assess, Reported, ScoreLabel
<1>3. PICK found : found = [review[i] EXCEPT !.score = score]
  OBVIOUS
<1>4. "assess" \in VerifyStates /\ at[i] = "assess"
  BY <1>1 DEF VerifyStates, Move
<1>5. review[i] \in Review /\ Sound(review[i]) /\ review[i].class # "NONE"
  BY <1>4, ReviewFacts
<1>6. /\ found \in Review /\ found.score = score
      /\ found.llm = review[i].llm /\ found.tool = review[i].tool /\ found.toolError = review[i].toolError
      /\ found.completed = review[i].completed /\ found.class = review[i].class
  BY <1>3, <1>5 DEF Review, Scores
<1>7. Sound(found)
  BY <1>5, <1>6 DEF Sound
<1>8. Note(i, found)
  BY <1>2, <1>3
<1> QED BY <1>1, <1>4, <1>6, <1>7, <1>8, NoteKeeps

LEMMA TaskStepKeeps ==
  ASSUME PipelineInv, NEW i \in Tasks, TaskStep(i), UNCHANGED <<settings, analysis>>
  PROVE  PipelineInv'
BY StartTaskKeeps, TaskRaisesKeeps, QuerySnippetsKeeps, DirectMutationKeeps, SynthesizeKeeps,
   PredicateEndsKeeps, LlmJudgeKeeps, AnalyzerCheckKeeps, AssessKeeps DEF TaskStep, VerifyOneMutant

(***************************************************************************)
(* The steps of the stages.                                                *)
(***************************************************************************)

LEMMA PoolFacts ==
  ASSUME PoolInv
  PROVE  /\ Len(at) \in Nat /\ DOMAIN at = 1..Len(at) /\ collected \in 0..Len(at) /\ collected \in Nat
<1>1. PICK A : A = Idle \cup (IF stage = "generate" THEN GenerateStates ELSE VerifyStates)
  OBVIOUS
<1>2. at \in Seq(A)
  BY <1>1 DEF PoolInv
<1>3. PICK n \in Nat : n = Len(at) /\ DOMAIN at = 1..n
  BY <1>2, LenProperties
<1>4. collected \in 0..n
  BY <1>3 DEF PoolInv
<1>5. collected \in Nat
  BY <1>4
<1> QED BY <1>3, <1>4, <1>5

LEMMA AnalysisNodeKeeps == ASSUME PipelineInv, AnalysisNode PROVE PipelineInv'
<1> USE DEF PipelineInv, work, generation
<1>1. stage = "analyze" /\ AnalysisStep /\ UNCHANGED <<stage, work>>
  BY DEF AnalysisNode
<1>2. settings' = settings
  BY <1>1 DEF AnalysisStep, AnalyzeRule, DecomposeRule, DynamicAnalysis, AnalyzePredicateMappings,
              EarlyExit, EndRefine, Refine
<1>3. AnalysisInv'
  BY <1>1, AnalysisStepKeeps
<1>4. ChoiceInv'
  BY <1>1, <1>2 DEF ChoiceInv, TopPredicates
<1>5. PoolInv'
  BY <1>1 DEF PoolInv
<1>6. SynthesisInv'
  BY <1>1, <1>2 DEF SynthesisInv, Attempts
<1>7. MutantsInv' /\ VerifiedInv'
  BY <1>1 DEF MutantsInv, VerifiedInv, Before
<1>8. ReviewInv'
  <2>1. review' = <<>> /\ DOMAIN review' = {} /\ review' \in Seq(Review)
    BY <1>1, EmptySeq DEF PoolInv
  <2> QED BY <2>1 DEF ReviewInv
<1>9. SummaryInv'
  BY <1>1 DEF SummaryInv
<1> QED BY <1>3, <1>4, <1>5, <1>6, <1>7, <1>8, <1>9

\* The mutants of a predicate: one per snippet that gave one, in their order.
LEMMA MutantsOfFacts ==
  ASSUME NEW i \in Nat, outcomes[i] \in Seq(BOOLEAN)
  PROVE  /\ MutantsOf(i) \in Seq(Nat \X Nat)
         /\ \A n \in DOMAIN MutantsOf(i) : MutantsOf(i)[n][1] = i
         /\ \A m, n \in DOMAIN MutantsOf(i) : m < n => Before(MutantsOf(i)[m], MutantsOf(i)[n])
         /\ \A k \in DOMAIN outcomes[i] :
              outcomes[i][k] => \E n \in DOMAIN MutantsOf(i) : MutantsOf(i)[n] = <<i, k>>
<1>1. PICK len \in Nat : len = Len(outcomes[i]) /\ DOMAIN outcomes[i] = 1..len
  BY LenProperties
<1>2. PICK list : list = [k \in 1..len |-> <<i, k>>]
  OBVIOUS
<1>3. PICK places : places = {k \in 1..len : outcomes[i][k]}
  OBVIOUS
<1>4. PICK made : made = Kept(list, places) /\ made = MutantsOf(i)
  BY <1>1, <1>2, <1>3 DEF MutantsOf
<1>5. list \in [1..len -> Nat \X Nat]
  BY <1>2
<1>6. list \in Seq(Nat \X Nat) /\ DOMAIN list = 1..len
  BY <1>5, FunctionsAreLists
<1>7. places \in SUBSET (1..len) /\ places \in SUBSET Nat /\ IsFiniteSet(1..len)
  BY <1>3, FS_Interval
<1>8. IsFiniteSet(places)
  BY <1>7, FS_Subset
<1>9. PICK order : order = InOrder(places)
  OBVIOUS
<1>10. PICK count \in Nat : /\ DOMAIN order = 1..count
                            /\ \A m, n \in 1..count : m < n => order[m] < order[n]
  BY <1>7, <1>8, <1>9, InOrderLists
<1>11. /\ Kept(list, places) \in Seq(Nat \X Nat) /\ DOMAIN Kept(list, places) = DOMAIN InOrder(places)
       /\ \A n \in DOMAIN Kept(list, places) :
            InOrder(places)[n] \in places /\ Kept(list, places)[n] = list[InOrder(places)[n]]
       /\ \A k \in places : \E n \in DOMAIN Kept(list, places) : Kept(list, places)[n] = list[k]
  <2>1. list \in Seq(Nat \X Nat) /\ places \in SUBSET DOMAIN list
    BY <1>6, <1>7
  <2> QED BY <2>1, KeptEntries
<1>12. /\ made \in Seq(Nat \X Nat) /\ DOMAIN made = 1..count
       /\ \A n \in 1..count : order[n] \in places /\ made[n] = list[order[n]]
       /\ \A k \in places : \E n \in 1..count : made[n] = list[k]
  BY <1>4, <1>9, <1>10, <1>11
<1>13. \A n \in 1..count : made[n] = <<i, order[n]>> /\ order[n] \in Nat
  BY <1>2, <1>7, <1>12
<1>14. ASSUME NEW m \in 1..count, NEW n \in 1..count, m < n PROVE Before(made[m], made[n])
  <2>1. order[m] < order[n]
    BY <1>10, <1>14
  <2> QED BY <1>13, <2>1 DEF Before
<1>15. ASSUME NEW k \in 1..len, outcomes[i][k] PROVE \E n \in 1..count : made[n] = <<i, k>>
  BY <1>2, <1>3, <1>12, <1>15
<1>16. /\ made \in Seq(Nat \X Nat)
       /\ \A n \in DOMAIN made : made[n][1] = i
       /\ \A m, n \in DOMAIN made : m < n => Before(made[m], made[n])
       /\ \A k \in DOMAIN outcomes[i] :
            outcomes[i][k] => \E n \in DOMAIN made : made[n] = <<i, k>>
  <2>1. made \in Seq(Nat \X Nat) /\ DOMAIN made = 1..count
    BY <1>12
  <2>2. \A n \in DOMAIN made : made[n][1] = i
    BY <1>13, <2>1
  <2>3. \A m, n \in DOMAIN made : m < n => Before(made[m], made[n])
    BY <1>14, <2>1
  <2>4. \A k \in DOMAIN outcomes[i] : outcomes[i][k] => \E n \in DOMAIN made : made[n] = <<i, k>>
    BY <1>1, <1>15, <2>1
  <2> QED BY <2>1, <2>2, <2>3, <2>4
<1> QED BY <1>4, <1>16

\* What a stage takes is the next result in the order of submission.
LEMMA TakeMutants ==
  ASSUME MutantsInv, stage = "generate", collected \in Nat, NEW i, i = collected + 1,
         outcomes[i] \in Seq(BOOLEAN), mutants' = mutants \o MutantsOf(i),
         collected' = i, UNCHANGED <<stage, at, outcomes>>
  PROVE  MutantsInv'
<1>1. i \in Nat /\ \A h \in 1..i : h \in 1..collected \/ h = i
  OBVIOUS
<1>2. PICK added \in Seq(Nat \X Nat) :
        /\ added = MutantsOf(i)
        /\ \A n \in DOMAIN added : added[n][1] = i
        /\ \A m, n \in DOMAIN added : m < n => Before(added[m], added[n])
        /\ \A k \in DOMAIN outcomes[i] :
             outcomes[i][k] => \E n \in DOMAIN added : added[n] = <<i, k>>
  BY <1>1, MutantsOfFacts
<1>3. PICK old \in Seq(Nat \X Nat) :
        /\ old = mutants
        /\ \A j, k \in DOMAIN old : j < k => Before(old[j], old[k])
        /\ \A j \in DOMAIN old : old[j][1] \in 1..collected
        /\ \A h \in 1..collected : at[h] = "ended" =>
             \A k \in DOMAIN outcomes[h] :
               outcomes[h][k] => \E j \in DOMAIN old : old[j] = <<h, k>>
  BY DEF MutantsInv
<1>4. PICK x \in Nat : x = Len(old) /\ DOMAIN old = 1..x
  BY LenProperties
<1>5. PICK y \in Nat : y = Len(added) /\ DOMAIN added = 1..y
  BY LenProperties
<1>6. PICK new : new = old \o added /\ mutants' = new
  BY <1>2, <1>3
<1>7. /\ new \in Seq(Nat \X Nat) /\ Len(new) = x + y
      /\ \A j \in 1..(x + y) : new[j] = IF j <= x THEN old[j] ELSE added[j - x]
  BY <1>4, <1>5, <1>6, ConcatProperties
<1>8. DOMAIN new = 1..(x + y)
  BY <1>7, LenProperties
<1>9. ASSUME NEW j \in 1..(x + y), j <= x
      PROVE  j \in 1..x /\ new[j] = old[j] /\ new[j][1] \in 1..collected
  <2>1. j \in 1..x
    BY <1>9
  <2>2. new[j] = old[j]
    BY <1>7, <1>9
  <2>3. old[j][1] \in 1..collected
    BY <1>3, <1>4, <2>1
  <2> QED BY <2>1, <2>2, <2>3
<1>10. ASSUME NEW j \in 1..(x + y), ~(j <= x)
       PROVE  j - x \in 1..y /\ new[j] = added[j - x] /\ new[j][1] = i
  <2>1. j - x \in 1..y
    BY <1>10
  <2>2. new[j] = added[j - x]
    BY <1>7, <1>10
  <2>3. added[j - x][1] = i
    BY <1>2, <1>5, <2>1
  <2> QED BY <2>1, <2>2, <2>3
<1>11. ASSUME NEW j \in 1..(x + y), NEW k \in 1..(x + y), j < k PROVE Before(new[j], new[k])
  <2>1. CASE k <= x
    <3>1. j <= x /\ k <= x
      BY <1>11, <2>1
    <3>2. j \in 1..x /\ k \in 1..x /\ new[j] = old[j] /\ new[k] = old[k]
      BY <1>9, <3>1
    <3>3. Before(old[j], old[k])
      BY <1>3, <1>4, <1>11, <3>2
    <3> QED BY <3>2, <3>3
  <2>2. CASE ~(j <= x)
    <3>1. ~(k <= x) /\ j - x < k - x
      BY <1>11, <2>2
    <3>2. j - x \in 1..y /\ k - x \in 1..y /\ new[j] = added[j - x] /\ new[k] = added[k - x]
      BY <1>10, <2>2, <3>1
    <3>3. Before(added[j - x], added[k - x])
      BY <1>2, <1>5, <3>1, <3>2
    <3> QED BY <3>2, <3>3
  <2>3. CASE j <= x /\ ~(k <= x)
    <3>1. new[j][1] \in 1..collected /\ new[k][1] = i
      BY <1>9, <1>10, <2>3
    <3>2. new[j][1] < new[k][1]
      BY <3>1
    <3> QED BY <3>2 DEF Before
  <2> QED BY <2>1, <2>2, <2>3
<1>12. ASSUME NEW j \in 1..(x + y) PROVE new[j][1] \in 1..i
  <2>1. new[j][1] \in 1..collected \/ new[j][1] = i
    BY <1>9, <1>10
  <2>2. 1..collected \subseteq 1..i /\ i \in 1..i
    OBVIOUS
  <2> QED BY <2>1, <2>2
<1>13. ASSUME NEW h \in 1..i, at[h] = "ended", NEW k \in DOMAIN outcomes[h], outcomes[h][k]
       PROVE  \E j \in 1..(x + y) : new[j] = <<h, k>>
  <2>1. CASE h \in 1..collected
    <3>1. PICK j \in 1..x : old[j] = <<h, k>>
      BY <1>3, <1>4, <1>13, <2>1
    <3>2. j \in 1..(x + y) /\ j <= x
      OBVIOUS
    <3>3. new[j] = old[j]
      BY <1>9, <3>2
    <3> QED BY <3>1, <3>2, <3>3
  <2>2. CASE h = i
    <3>1. PICK n \in 1..y : added[n] = <<h, k>>
      BY <1>2, <1>5, <1>13, <2>2
    <3>2. x + n \in 1..(x + y) /\ ~(x + n <= x) /\ (x + n) - x = n
      OBVIOUS
    <3>3. new[x + n] = added[n]
      BY <1>10, <3>2
    <3> QED BY <3>1, <3>2, <3>3
  <2> QED BY <1>1, <2>1, <2>2
<1>14. /\ new \in Seq(Nat \X Nat)
       /\ \A j, k \in DOMAIN new : j < k => Before(new[j], new[k])
       /\ \A j \in DOMAIN new : new[j][1] \in 1..i
       /\ \A h \in 1..i : at[h] = "ended" =>
            \A k \in DOMAIN outcomes[h] :
              outcomes[h][k] => \E j \in DOMAIN new : new[j] = <<h, k>>
  BY <1>7, <1>8, <1>11, <1>12, <1>13
<1>15. UNCHANGED <<stage, at, outcomes>> /\ collected' = i /\ mutants' = new
  BY <1>6
<1>16. \A j, k \in DOMAIN mutants' : j < k => Before(mutants[j], mutants[k])'
  <2>1. \A j, k \in DOMAIN new : j < k => Before(new[j], new[k])
    BY <1>14
  <2> SUFFICES ASSUME NEW j \in DOMAIN mutants', NEW k \in DOMAIN mutants', j < k
               PROVE  Before(mutants'[j], mutants'[k])
    BY DEF Before
  <2>2. mutants' = new
    BY <1>15
  <2>3. Before(new[j], new[k])
    BY <2>1, <2>2
  <2> QED BY <2>2, <2>3
<1>17. \A j \in DOMAIN mutants' : mutants'[j][1] \in 1..collected'
  BY <1>14, <1>15
<1>18. \A h \in 1..collected' : at'[h] = "ended" =>
         \A k \in DOMAIN outcomes'[h] :
           outcomes'[h][k] => \E j \in DOMAIN mutants' : mutants'[j] = <<h, k>>
  <2>1. \A h \in 1..i : at[h] = "ended" =>
          \A k \in DOMAIN outcomes[h] :
            outcomes[h][k] => \E j \in DOMAIN new : new[j] = <<h, k>>
    BY <1>14
  <2>2. at' = at /\ outcomes' = outcomes /\ collected' = i /\ mutants' = new
    BY <1>15
  <2> QED BY <2>1, <2>2, ZenonT(30)
<1>19. mutants' \in Seq(Nat \X Nat)
  BY <1>14, <1>15
<1> QED BY <1>16, <1>17, <1>18, <1>19 DEF MutantsInv

LEMMA TakeVerified ==
  ASSUME VerifiedInv, collected \in Nat, NEW i, i = collected + 1, collected' = i,
         verified' = Append(verified, i), UNCHANGED <<stage, at>>
  PROVE  VerifiedInv'
<1>1. i \in 1..i /\ \A h \in 1..i : h \in 1..collected \/ h = i
  OBVIOUS
<1>2. verified \in Seq(1..i)
  <2>1. 1..collected \subseteq 1..i
    OBVIOUS
  <2> QED BY <2>1, SeqMonotonic DEF VerifiedInv
<1>3. PICK len \in Nat : len = Len(verified) /\ DOMAIN verified = 1..len
  BY <1>2, LenProperties
<1>4. /\ verified' \in Seq(1..i) /\ Len(verified') = len + 1
      /\ \A n \in 1..len : verified'[n] = verified[n]
      /\ verified'[len + 1] = i
  BY <1>1, <1>2, <1>3, AppendProperties
<1>5. DOMAIN verified' = 1..(len + 1)
  BY <1>4, LenProperties
<1>6. \A n \in 1..len : verified[n] \in 1..collected
  BY <1>3, ElementOfSeq DEF VerifiedInv
<1>7. ASSUME NEW j \in 1..(len + 1), NEW k \in 1..(len + 1), j < k PROVE verified'[j] < verified'[k]
  <2>1. j \in 1..len /\ (k \in 1..len \/ k = len + 1)
    BY <1>7
  <2>2. verified'[j] = verified[j] /\ verified[j] \in 1..collected
    BY <1>4, <1>6, <2>1
  <2>3. CASE k \in 1..len
    <3>1. verified'[k] = verified[k]
      BY <1>4, <2>3
    <3>2. verified[j] < verified[k]
      BY <1>3, <1>7, <2>1, <2>3 DEF VerifiedInv
    <3> QED BY <2>2, <3>1, <3>2
  <2>4. CASE k = len + 1
    <3>1. verified'[k] = i
      BY <1>4, <2>4
    <3>2. verified[j] < i
      BY <2>2
    <3> QED BY <2>2, <3>1, <3>2
  <2> QED BY <2>1, <2>3, <2>4
<1>8. ASSUME stage \notin {"analyze", "generate"}, NEW h \in 1..i, at[h] = "ended"
      PROVE  \E j \in 1..(len + 1) : verified'[j] = h
  <2>1. CASE h \in 1..collected
    <3>1. PICK j \in 1..len : verified[j] = h
      BY <1>3, <1>8, <2>1 DEF VerifiedInv
    <3> QED BY <1>4, <3>1
  <2>2. CASE h = i
    <3>1. len + 1 \in 1..(len + 1)
      OBVIOUS
    <3> QED BY <1>4, <2>2, <3>1
  <2> QED BY <1>1, <2>1, <2>2
<1> QED BY <1>4, <1>5, <1>7, <1>8 DEF VerifiedInv

LEMMA CollectKeeps ==
  ASSUME PipelineInv, Collect, UNCHANGED <<settings, analysis>>
  PROVE  PipelineInv'
<1> USE DEF PipelineInv, generation
<1>1. PICK i : /\ i = collected + 1 /\ collected < Len(at) /\ collected' = i
               /\ \/ at[i] = "ended" /\ Take(i)
                  \/ /\ at[i] = "error" \/ (at[i] = "silent" /\ stage = "generate")
                     /\ UNCHANGED <<mutants, verified>>
               /\ UNCHANGED <<stage, generation, at, review, mentions>>
  BY DEF Collect
<1>2. PICK n \in Nat : n = Len(at) /\ DOMAIN at = 1..n
  BY PoolFacts
<1>3. collected \in Nat /\ i \in 1..n /\ \A h \in 1..i : h \in 1..collected \/ h = i
  BY <1>1, <1>2, PoolFacts
<1>4. at[i] \in Finished /\ (at[i] # "ended" => UNCHANGED <<mutants, verified>>)
  BY <1>1 DEF Finished
<1>5. stage \notin {"analyze", "group", "report", "done"}
  <2>1. collected # Len(at)
    BY <1>1, <1>3
  <2>2. stage = "analyze" => at = <<>> /\ Len(<<>>) = 0
    BY EmptySeq DEF PoolInv
  <2>3. stage # "analyze"
    BY <1>2, <1>3, <2>2
  <2> QED BY <2>1, <2>3 DEF PoolInv
<1>6. AnalysisInv'
  BY AnalysisStays DEF analysis
<1>7. ChoiceInv'
  BY <1>1 DEF ChoiceInv, TopPredicates
<1>8. stage = "generate" => verified' = verified
  BY <1>1 DEF Take
<1>9. PoolInv'
  <2>1. \A h \in 1..i : at[h] \in Finished
    BY <1>3, <1>4 DEF PoolInv
  <2>2. i \in 0..n
    BY <1>3
  <2> QED BY <1>1, <1>2, <1>5, <1>8, <2>1, <2>2 DEF PoolInv
<1>10. SynthesisInv'
  BY <1>1 DEF SynthesisInv, Attempts
<1>11. MutantsInv'
  <2>1. CASE stage = "generate" /\ at[i] = "ended"
    <3>1. mutants' = mutants \o MutantsOf(i)
      BY <1>1, <2>1 DEF Take
    <3>2. i \in DOMAIN predicates
      BY <1>2, <1>3, <2>1 DEF PoolInv
    <3>3. outcomes[i] \in Seq(BOOLEAN)
      BY <3>2 DEF SynthesisInv
    <3> QED BY <1>1, <1>3, <2>1, <3>1, <3>3, TakeMutants
  <2>2. CASE stage # "generate" \/ at[i] # "ended"
    <3>1. mutants' = mutants
      BY <1>1, <1>4, <2>2 DEF Take
    <3>2. /\ mutants' \in Seq(Nat \X Nat)
          /\ \A j, k \in DOMAIN mutants' : j < k => Before(mutants'[j], mutants'[k])
      BY <3>1 DEF MutantsInv
    <3>3. ASSUME stage = "generate"
          PROVE  /\ \A j \in DOMAIN mutants' : mutants'[j][1] \in 1..i
                 /\ \A h \in 1..i : at[h] = "ended" =>
                      \A k \in DOMAIN outcomes[h] :
                        outcomes[h][k] => \E j \in DOMAIN mutants' : mutants'[j] = <<h, k>>
      <4>1. at[i] # "ended"
        BY <2>2, <3>3
      <4>2. 1..collected \subseteq 1..i
        BY <1>1, <1>3
      <4>3. \A h \in 1..i : at[h] = "ended" => h \in 1..collected
        BY <1>3, <4>1
      <4> QED BY <3>1, <3>3, <4>2, <4>3 DEF MutantsInv
    <3> QED BY <1>1, <3>2, <3>3 DEF MutantsInv, Before
  <2> QED BY <2>1, <2>2
<1>12. VerifiedInv'
  <2>1. CASE stage # "generate" /\ at[i] = "ended"
    <3>1. verified' = Append(verified, i)
      BY <1>1, <2>1 DEF Take
    <3> QED BY <1>1, <1>3, <3>1, TakeVerified
  <2>2. CASE stage = "generate" \/ at[i] # "ended"
    <3>1. verified' = verified
      BY <1>4, <1>8, <2>2
    <3>2. 1..collected \subseteq 1..i
      BY <1>1, <1>3
    <3>3. verified' \in Seq(1..i)
      BY <3>1, <3>2, SeqMonotonic DEF VerifiedInv
    <3>4. ASSUME stage # "generate", NEW h \in 1..i, at[h] = "ended"
          PROVE  \E j \in DOMAIN verified' : verified'[j] = h
      <4>1. h \in 1..collected
        BY <1>3, <2>2, <3>4
      <4> QED BY <1>5, <3>1, <3>4, <4>1 DEF VerifiedInv
    <3>5. \A j, k \in DOMAIN verified' : j < k => verified'[j] < verified'[k]
      BY <3>1 DEF VerifiedInv
    <3> QED BY <1>1, <3>3, <3>4, <3>5 DEF VerifiedInv
  <2> QED BY <2>1, <2>2
<1>13. ReviewInv'
  <2>1. \A j : Sound(review[j]) => Sound(review[j])'
    BY <1>1 DEF Sound
  <2> QED BY <1>1, <2>1 DEF ReviewInv
<1>14. SummaryInv'
  BY <1>1, <1>5 DEF SummaryInv
<1> QED BY <1>6, <1>7, <1>9, <1>10, <1>11, <1>12, <1>13, <1>14

\* A step between two stages that leaves their results alone.
LEMMA StageKeeps ==
  ASSUME PipelineInv, UNCHANGED <<settings, analysis, generation, at, collected, mutants, review, verified>>,
         stage # "generate", stage' \in Stages \ {"analyze", "generate"},
         stage' \in {"group", "report", "done"} => collected = Len(at),
         SummaryInv'
  PROVE  PipelineInv'
<1> USE DEF PipelineInv, generation
<1>1. Len(at) \in Nat /\ DOMAIN at = 1..Len(at) /\ collected \in 0..Len(at)
  BY PoolFacts
<1>2. stage = "analyze" => DOMAIN at = DOMAIN review /\ \A i \in 1..collected : FALSE
  <2>1. stage = "analyze" => at = <<>> /\ review = <<>> /\ Len(<<>>) = 0
    BY EmptySeq DEF PoolInv
  <2> QED BY <1>1, <2>1
<1>3. AnalysisInv'
  BY AnalysisStays DEF analysis
<1>4. ChoiceInv'
  BY DEF ChoiceInv, TopPredicates
<1>5. PoolInv'
  BY <1>2 DEF PoolInv
<1>6. SynthesisInv'
  BY DEF SynthesisInv, Attempts
<1>7. MutantsInv'
  BY DEF MutantsInv, Before
<1>8. VerifiedInv'
  BY <1>2 DEF VerifiedInv
<1>9. ReviewInv'
  <2>1. \A j : Sound(review[j]) => Sound(review[j])'
    BY DEF Sound
  <2> QED BY <2>1 DEF ReviewInv
<1> QED BY <1>3, <1>4, <1>5, <1>6, <1>7, <1>8, <1>9

LEMMA EndGenerateKeeps ==
  ASSUME PipelineInv, EndGenerate, UNCHANGED <<settings, analysis>>
  PROVE  PipelineInv'
<1> USE DEF PipelineInv, generation
<1>1. /\ stage = "generate" /\ stage' = "verify" /\ Submit(DOMAIN mutants)
      /\ review' = [m \in DOMAIN mutants |-> NewReview]
      /\ UNCHANGED <<generation, mutants, verified, mentions>>
  BY DEF EndGenerate
<1>2. PICK n \in Nat : n = Len(mutants) /\ DOMAIN mutants = 1..n
  BY LenProperties DEF MutantsInv
<1>3. /\ at' \in Seq({"queued"}) /\ Len(at') = n /\ DOMAIN at' = 1..n
      /\ \A i \in 1..n : at'[i] = "queued"
      /\ collected' = 0
  BY <1>1, <1>2, SubmitFacts
<1>4. /\ review' \in Seq(Review) /\ DOMAIN review' = 1..n
      /\ \A i \in 1..n : review'[i] = NewReview
  <2>1. review' \in [1..n -> Review]
    BY <1>1, <1>2, NewReviewFacts
  <2>2. \A i \in 1..n : review'[i] = NewReview
    BY <1>1, <1>2
  <2> QED BY <2>1, <2>2, FunctionsAreLists
<1>5. \A i \in 1..collected' : FALSE
  BY <1>3
<1>6. verified' = <<>> /\ DOMAIN <<>> = {} /\ \A T : <<>> \in Seq(T)
  BY <1>1, EmptySeq DEF PoolInv
<1>7. AnalysisInv'
  BY AnalysisStays DEF analysis
<1>8. ChoiceInv'
  BY <1>1 DEF ChoiceInv, TopPredicates
<1>9. PoolInv'
  <2>1. at' \in Seq(Idle \cup VerifyStates)
    BY <1>3, SeqMonotonic DEF Idle
  <2>2. collected' \in 0..Len(at')
    BY <1>3
  <2> QED BY <1>1, <1>3, <1>4, <1>5, <2>1, <2>2 DEF PoolInv, Stages
<1>10. SynthesisInv'
  BY <1>1 DEF SynthesisInv, Attempts
<1>11. MutantsInv'
  BY <1>1 DEF MutantsInv, Before
<1>12. VerifiedInv'
  BY <1>5, <1>6 DEF VerifiedInv
<1>13. ReviewInv'
  <2>1. Sound(NewReview) /\ (Sound(NewReview) => Sound(NewReview)')
    BY NewReviewFacts DEF Sound, NewReview
  <2>2. \A i \in DOMAIN review' : Sound(review[i])' /\ review'[i] = NewReview /\ at'[i] = "queued"
    BY <1>3, <1>4, <2>1 DEF Sound, NewReview
  <2> QED BY <1>4, <2>2, NewReviewFacts DEF ReviewInv
<1>14. SummaryInv'
  BY <1>1 DEF SummaryInv
<1> QED BY <1>7, <1>8, <1>9, <1>10, <1>11, <1>12, <1>13, <1>14

(***************************************************************************)
(* Grouping: each index stands in a group.                                 *)
(***************************************************************************)

LEMMA AnswerFacts ==
  ASSUME NEW count \in Nat, NEW answer \in GroupAnswers(count)
  PROVE  answer.groups \in Seq(Seq(Nat))
<1>1. \A g \in Lists!BoundedSeq(0..count, MaxMentions) : g \in Seq(Nat)
  <2> SUFFICES ASSUME NEW g \in Lists!BoundedSeq(0..count, MaxMentions) PROVE g \in Seq(Nat)
    OBVIOUS
  <2>1. PICK n \in Nat : g \in [1..n -> 0..count]
    BY BoundsAssumption DEF Lists!BoundedSeq, Lists!SeqOf
  <2>2. g \in [1..n -> Nat]
    BY <2>1
  <2> QED BY <2>2, FunctionsAreLists
<1>2. <<>> \in Seq(Seq(Nat))
  BY EmptySeq
<1>3. \A g \in Seq(Nat) : <<g>> \in Seq(Seq(Nat))
  OBVIOUS
<1>4. \A both \in [1..2 -> [1..1 -> 0..count]] : both \in Seq(Seq(Nat))
  <2> SUFFICES ASSUME NEW both \in [1..2 -> [1..1 -> 0..count]] PROVE both \in Seq(Seq(Nat))
    OBVIOUS
  <2>1. [1..1 -> 0..count] \subseteq [1..1 -> Nat]
    OBVIOUS
  <2>2. [1..1 -> Nat] \subseteq Seq(Nat)
    BY FunctionsAreLists
  <2>3. both \in [1..2 -> Seq(Nat)]
    BY <2>1, <2>2
  <2> QED BY <2>3, FunctionsAreLists
<1>5. \/ answer.groups = <<>>
      \/ \E g \in Lists!BoundedSeq(0..count, MaxMentions) : answer.groups = <<g>>
      \/ answer.groups \in [1..2 -> [1..1 -> 0..count]]
  <2>1. PICK listable :
          listable = {<<>>} \cup {<<g>> : g \in Lists!BoundedSeq(0..count, MaxMentions)}
                            \cup [1..2 -> [1..1 -> 0..count]]
    OBVIOUS
  <2>2. GroupAnswers(count) = [parsed : {FALSE}, groups : {<<>>}] \cup [parsed : {TRUE}, groups : listable]
    BY <2>1, Zenon DEF GroupAnswers
  <2>3. answer \in [parsed : {FALSE}, groups : {<<>>}] \/ answer \in [parsed : {TRUE}, groups : listable]
    BY <2>2
  <2>4. answer.groups = <<>> \/ answer.groups \in listable
    BY <2>3
  <2> QED BY <2>1, <2>4
<1> QED BY <1>1, <1>2, <1>3, <1>4, <1>5

LEMMA ListedFacts ==
  ASSUME NEW count \in Nat, NEW answer, answer.groups \in Seq(Seq(Nat))
  PROVE  ListedGroups(answer, count) \in Seq(Seq(Nat))
<1>1. PICK groups \in Seq(Seq(Nat)) : groups = answer.groups
  OBVIOUS
<1>2. PICK n \in Nat : n = Len(groups) /\ DOMAIN groups = 1..n
  BY LenProperties
<1>3. PICK valid : valid = [g \in 1..n |-> Kept(groups[g], {e \in DOMAIN groups[g] : groups[g][e] < count})]
  OBVIOUS
<1>4. ListedGroups(answer, count) = Kept(valid, {g \in 1..n : valid[g] # <<>>})
  BY <1>1, <1>2, <1>3 DEF ListedGroups
<1>5. ASSUME NEW g \in 1..n PROVE valid[g] \in Seq(Nat)
  <2>1. PICK group \in Seq(Nat) : group = groups[g]
    BY <1>2, ElementOfSeq
  <2>2. PICK places \in SUBSET DOMAIN group : valid[g] = Kept(group, places)
    BY <1>3, <2>1
  <2>3. Kept(group, places) \in Seq(Nat)
    BY KeptEntries
  <2> QED BY <2>2, <2>3
<1>6. valid \in [1..n -> Seq(Nat)]
  BY <1>3, <1>5
<1>7. valid \in Seq(Seq(Nat)) /\ DOMAIN valid = 1..n
  BY <1>6, FunctionsAreLists
<1>8. PICK places \in SUBSET DOMAIN valid : places = {g \in 1..n : valid[g] # <<>>}
  BY <1>7
<1>9. Kept(valid, places) \in Seq(Seq(Nat))
  BY <1>7, KeptEntries
<1> QED BY <1>4, <1>8, <1>9

\* "Any indices not covered are put into a default group".
LEMMA GroupsCover ==
  ASSUME NEW count \in Nat, NEW answer \in GroupAnswers(count)
  PROVE  /\ RootCauseGroups(answer, count) \in Seq(Seq(Nat))
         /\ \A x \in 0..(count - 1) :
              \E g \in DOMAIN RootCauseGroups(answer, count) :
                \E e \in DOMAIN RootCauseGroups(answer, count)[g] :
                  RootCauseGroups(answer, count)[g][e] = x
<1>1. PICK listed \in Seq(Seq(Nat)) : listed = ListedGroups(answer, count)
  BY AnswerFacts, ListedFacts
<1>2. PICK n \in Nat : n = Len(listed) /\ DOMAIN listed = 1..n
  BY LenProperties
<1>3. PICK others : others = (0..(count - 1)) \ {i \in 0..(count - 1) : \E g \in DOMAIN listed : i \in Lists!ToSet(listed[g])}
  OBVIOUS
<1>4. PICK groups : groups = RootCauseGroups(answer, count)
  OBVIOUS
<1>5. groups = IF others = {} THEN listed ELSE Append(listed, InOrder(others))
  BY <1>1, <1>3, <1>4 DEF RootCauseGroups
<1>6. others \in SUBSET (0..(count - 1)) /\ others \in SUBSET Nat /\ IsFiniteSet(0..(count - 1))
  BY <1>3, FS_Interval
<1>7. IsFiniteSet(others)
  BY <1>6, FS_Subset
<1>8. PICK rest : rest = InOrder(others)
  OBVIOUS
<1>9. rest \in Seq(others) /\ \A x \in others : \E e \in DOMAIN rest : rest[e] = x
  <2>1. /\ InOrder(others) \in Seq(others) /\ DOMAIN InOrder(others) = 1..Cardinality(others)
        /\ \A x \in others : \E e \in 1..Cardinality(others) : InOrder(others)[e] = x
    BY <1>6, <1>7, InOrderLists
  <2> QED BY <1>8, <2>1
<1>10. rest \in Seq(Nat)
  BY <1>6, <1>9, SeqMonotonic
<1>11. /\ Append(listed, rest) \in Seq(Seq(Nat)) /\ Len(Append(listed, rest)) = n + 1
       /\ \A g \in 1..n : Append(listed, rest)[g] = listed[g]
       /\ Append(listed, rest)[n + 1] = rest
  BY <1>2, <1>10, AppendProperties
<1>12. groups \in Seq(Seq(Nat))
  BY <1>5, <1>8, <1>11
<1>13. DOMAIN Append(listed, rest) = 1..(n + 1)
  BY <1>11, LenProperties
<1>14. \A g \in 1..n : g \in DOMAIN groups /\ groups[g] = listed[g]
  BY <1>2, <1>5, <1>8, <1>11, <1>13
<1>15. ASSUME NEW x \in 0..(count - 1)
       PROVE  \E g \in DOMAIN groups : \E e \in DOMAIN groups[g] : groups[g][e] = x
  <2>1. CASE x \in others
    <3>1. groups = Append(listed, rest)
      BY <1>5, <1>8, <2>1
    <3>2. n + 1 \in DOMAIN groups /\ groups[n + 1] = rest
      BY <1>11, <1>13, <3>1
    <3> QED BY <1>9, <2>1, <3>2
  <2>2. CASE x \notin others
    <3>1. PICK g \in 1..n : x \in Lists!ToSet(listed[g])
      BY <1>2, <1>3, <2>2
    <3>2. \E e \in DOMAIN listed[g] : listed[g][e] = x
      BY <3>1 DEF Lists!ToSet
    <3> QED BY <1>14, <3>2
  <2> QED BY <2>1, <2>2
<1> QED BY <1>4, <1>12, <1>15

\* What stands in a group is counted there.
LEMMA MentionFacts ==
  ASSUME NEW groups \in Seq(Seq(Nat)), NEW reported, NEW k,
         NEW g \in DOMAIN groups, NEW e \in DOMAIN groups[g], reported[groups[g][e] + 1] = k
  PROVE  Mentions(groups, reported, k) > 0
<1>1. PICK n \in Nat : n = Len(groups) /\ DOMAIN groups = 1..n
  BY LenProperties
<1>2. PICK pairs : pairs = [h \in 1..n |-> {h} \X DOMAIN groups[h]]
  OBVIOUS
<1>3. ASSUME NEW h \in 1..n PROVE IsFiniteSet(pairs[h])
  <2>1. PICK group \in Seq(Nat) : group = groups[h]
    BY <1>1, ElementOfSeq
  <2>2. PICK len \in Nat : DOMAIN group = 1..len
    BY LenProperties
  <2>3. IsFiniteSet(1..len) /\ IsFiniteSet({h})
    <3>1. IsFiniteSet(1..len)
      BY FS_Interval
    <3>2. IsFiniteSet({h})
      BY FS_Singleton
    <3> QED BY <3>1, <3>2
  <2>4. IsFiniteSet({h} \X (1..len))
    BY <2>3, FS_Product
  <2> QED BY <1>2, <2>1, <2>2, <2>4
<1>4. PICK all : all = UNION {pairs[h] : h \in 1..n}
  OBVIOUS
<1>5. IsFiniteSet(all)
  <2>1. PICK T : T = {{h} \X DOMAIN groups[h] : h \in 1..n}
    OBVIOUS
  <2>2. pairs \in [1..n -> T]
    BY <1>2, <2>1
  <2>3. IsFiniteSet(UNION {pairs[h] : h \in 1..n})
    BY <1>3, <2>2, FS_UNION_List
  <2> QED BY <1>4, <2>3
<1>6. all = UNION {{h} \X DOMAIN groups[h] : h \in DOMAIN groups}
  BY <1>1, <1>2, <1>4
<1>7. PICK found : found = {m \in all : reported[groups[m[1]][m[2]] + 1] = k}
  OBVIOUS
<1>8. <<g, e>> \in found
  BY <1>6, <1>7
<1>9. found \in SUBSET all
  BY <1>7
<1>10. IsFiniteSet(found)
  BY <1>5, <1>9, FS_Subset
<1>11. Cardinality(found) \in Nat /\ Cardinality(found) # 0
  BY <1>8, <1>10, FS_CardinalityType, FS_EmptySet
<1>12. Mentions(groups, reported, k) = Cardinality(found)
  BY <1>6, <1>7 DEF Mentions
<1> QED BY <1>11, <1>12

LEMMA GroupKeeps ==
  ASSUME PipelineInv, Group, UNCHANGED <<settings, analysis>>
  PROVE  PipelineInv'
<1>1. /\ stage = "group" /\ stage' = "report"
      /\ UNCHANGED <<generation, at, collected, mutants, review, verified>>
  BY DEF Group
<1>2. PICK places : places = Reportable
  OBVIOUS
<1>3. places \in SUBSET Nat /\ IsFiniteSet(places)
  <2>1. PICK len \in Nat : DOMAIN verified = 1..len
    BY LenProperties DEF PipelineInv, VerifiedInv
  <2>2. places \in SUBSET (1..len) /\ IsFiniteSet(1..len)
    BY <1>2, <2>1, FS_Interval DEF Reportable
  <2>3. IsFiniteSet(places)
    BY <2>2, FS_Subset
  <2> QED BY <2>2, <2>3
<1>4. PICK reported : reported = InOrder(places)
  OBVIOUS
<1>5. PICK count \in Nat : /\ count = Len(reported)
                           /\ \A k \in places : \E p \in 1..count : reported[p] = k
  BY <1>3, <1>4, InOrderLists
<1>6. PICK answer \in GroupAnswers(count) :
        mentions' = [k \in places |-> Mentions(RootCauseGroups(answer, count), reported, k)]
  BY <1>2, <1>4, <1>5 DEF Group
<1>7. PICK groups \in Seq(Seq(Nat)) :
        /\ groups = RootCauseGroups(answer, count)
        /\ \A x \in 0..(count - 1) : \E g \in DOMAIN groups : \E e \in DOMAIN groups[g] : groups[g][e] = x
  BY GroupsCover
<1>8. ASSUME NEW k \in places PROVE mentions'[k] > 0
  <2>1. PICK p \in 1..count : reported[p] = k
    BY <1>5
  <2>2. p - 1 \in 0..(count - 1) /\ (p - 1) + 1 = p
    OBVIOUS
  <2>3. PICK g \in DOMAIN groups : \E e \in DOMAIN groups[g] : groups[g][e] = p - 1
    BY <1>7, <2>2
  <2>4. PICK e \in DOMAIN groups[g] : groups[g][e] = p - 1
    BY <2>3
  <2>5. reported[groups[g][e] + 1] = k
    BY <2>1, <2>2, <2>4
  <2>6. Mentions(groups, reported, k) > 0
    BY <2>5, MentionFacts
  <2> QED BY <1>6, <1>7, <2>6
<1>9. SummaryInv'
  <2>1. Reportable' = places
    BY <1>1, <1>2 DEF Reportable
  <2> QED BY <1>8, <2>1 DEF SummaryInv
<1>10. stage # "generate" /\ stage' \in Stages \ {"analyze", "generate"} /\ collected = Len(at)
  BY <1>1 DEF PipelineInv, PoolInv, Stages
<1> QED BY <1>1, <1>9, <1>10, StageKeeps

LEMMA StageStepKeeps ==
  ASSUME PipelineInv, StageStep, UNCHANGED <<settings, analysis>>
  PROVE  PipelineInv'
<1>1. CASE Collect
  BY <1>1, CollectKeeps
<1>2. CASE CollectRaises
  <2>1. /\ stage = "verify" /\ stage' = "failed"
        /\ UNCHANGED <<generation, at, collected, mutants, review, verified, mentions>>
    BY <1>2 DEF CollectRaises
  <2>2. SummaryInv'
    BY <2>1 DEF SummaryInv
  <2> QED BY <2>1, <2>2, StageKeeps DEF Stages
<1>3. CASE EndGenerate
  BY <1>3, EndGenerateKeeps
<1>4. CASE EndVerify
  <2>1. /\ stage = "verify" /\ stage' = "group" /\ collected = Len(at)
        /\ UNCHANGED <<generation, at, collected, mutants, review, verified, mentions>>
    BY <1>4 DEF EndVerify
  <2>2. SummaryInv'
    BY <2>1 DEF SummaryInv
  <2> QED BY <2>1, <2>2, StageKeeps DEF Stages
<1>5. CASE Group
  BY <1>5, GroupKeeps
<1>6. CASE BuildReport
  <2>1. /\ stage = "report" /\ stage' = "done"
        /\ UNCHANGED <<generation, at, collected, mutants, review, verified, mentions>>
    BY <1>6 DEF BuildReport
  <2>2. SummaryInv'
    BY <2>1 DEF PipelineInv, SummaryInv, Reportable
  <2>3. collected = Len(at)
    BY <2>1 DEF PipelineInv, PoolInv
  <2> QED BY <2>1, <2>2, <2>3, StageKeeps DEF Stages
<1>7. CASE RunRaises
  <2>1. stage \in {"analyze", "group"} /\ stage' = "failed" /\ UNCHANGED work
    BY <1>7 DEF RunRaises
  <2>2. SummaryInv'
    BY <2>1 DEF SummaryInv
  <2> QED BY <2>1, <2>2, StageKeeps DEF Stages, work
<1> QED BY <1>1, <1>2, <1>3, <1>4, <1>5, <1>6, <1>7 DEF StageStep

LEMMA PipelineStarts == ASSUME Init PROVE PipelineInv
<1> USE DEF Init
<1>1. AnalysisInv
  BY AnalysisStarts
<1>2. Len(<<>>) = 0 /\ DOMAIN <<>> = {} /\ \A T : <<>> \in Seq(T)
  BY EmptySeq
<1>3. settings.cap \in Nat
  BY <1>1, SettingsTyped
<1>4. ChoiceInv
  <2>1. Len(predicates) <= Len(covered) /\ (settings.cap > 0 => Len(predicates) <= settings.cap)
    BY <1>2, <1>3
  <2> QED BY <1>2, <2>1 DEF ChoiceInv, TopPredicates
<1>5. PoolInv
  <2>1. collected \in 0..Len(at) /\ \A i \in 1..collected : FALSE
    BY <1>2
  <2> QED BY <1>2, <2>1 DEF PoolInv, Stages
<1>6. SynthesisInv
  <2>1. snippets \in [DOMAIN predicates -> 0..Attempts] /\ outcomes \in [DOMAIN predicates -> Seq(BOOLEAN)]
    BY <1>2
  <2> QED BY <1>2, <2>1 DEF SynthesisInv
<1>7. MutantsInv
  BY <1>2 DEF MutantsInv
<1>8. VerifiedInv
  BY <1>2 DEF VerifiedInv
<1>9. ReviewInv
  BY <1>2 DEF ReviewInv
<1>10. SummaryInv
  BY DEF SummaryInv
<1> QED BY <1>1, <1>4, <1>5, <1>6, <1>7, <1>8, <1>9, <1>10 DEF PipelineInv

LEMMA PipelineStutters == ASSUME PipelineInv, UNCHANGED vars PROVE PipelineInv'
<1> USE DEF PipelineInv, vars, work, generation
<1>1. AnalysisInv'
  BY AnalysisStays DEF analysis
<1>2. ChoiceInv' /\ PoolInv'
  BY DEF ChoiceInv, TopPredicates, PoolInv
<1>3. SynthesisInv' /\ MutantsInv' /\ VerifiedInv'
  BY DEF SynthesisInv, Attempts, MutantsInv, VerifiedInv, Before
<1>4. ReviewInv'
  <2>1. \A j : Sound(review[j]) => Sound(review[j])'
    BY DEF Sound
  <2> QED BY <2>1 DEF ReviewInv
<1>5. SummaryInv'
  BY DEF SummaryInv, Reportable
<1> QED BY <1>1, <1>2, <1>3, <1>4, <1>5

\* The invariant holds in every state of a run (pipeline_agent.py), for any environment,
\* rule and pool.
THEOREM PipelineInductive == Spec => []PipelineInv
<1>1. Init => PipelineInv
  BY PipelineStarts
<1>2. PipelineInv /\ [Next]_vars => PipelineInv'
  <2> SUFFICES ASSUME PipelineInv, [Next]_vars PROVE PipelineInv'
    OBVIOUS
  <2>1. CASE NodeStep
    BY <2>1, AnalysisNodeKeeps, AnalyzeKeeps, StageStepKeeps DEF NodeStep
  <2>2. CASE \E i \in Tasks : TaskStep(i) /\ UNCHANGED <<settings, analysis>>
    BY <2>2, TaskStepKeeps
  <2>3. CASE UNCHANGED vars
    BY <2>3, PipelineStutters
  <2> QED BY <2>1, <2>2, <2>3 DEF Next
<1> QED BY <1>1, <1>2, PTL DEF Spec

(***************************************************************************)
(* What follows from it.                                                   *)
(***************************************************************************)

\* The state of a run is as declared: counts fit the lists they count (PipelineState).
THEOREM PipelineTyped == Spec => []TypeOK
<1>1. PipelineInv => TypeOK
  BY DEF PipelineInv, AnalysisInv, ChoiceInv, PoolInv, SynthesisInv, ReviewInv, TypeOK
<1> QED BY <1>1, PipelineInductive, PTL

\* The report under the seed's name is the one of the seed, or one without an issue
\* (dynamic_analysis of analysis_agent.py).
THEOREM SeedReported == Spec => []ReportOfSeed
<1>1. PipelineInv => ReportOfSeed
  BY DEF PipelineInv, AnalysisInv
<1> QED BY <1>1, PipelineInductive, PTL

\* Results stand in the order of submission, however the pool runs the tasks (the loops
\* over the futures in generate_mutants_node and verify_mutants_node).
THEOREM OrderIsKept == Spec => []OrderKept
<1>1. PipelineInv => OrderKept
  BY DEF PipelineInv, MutantsInv, VerifiedInv, OrderKept
<1> QED BY <1>1, PipelineInductive, PTL

\* The failure of a task loses nothing of the other tasks (the same loops).
THEOREM ErrorsStayLocal == Spec => []ErrorsAreLocal
<1>1. ASSUME PipelineInv PROVE ErrorsAreLocal
  <2> USE DEF PipelineInv
  <2>1. Tasks = 1..Len(at)
    BY <1>1, PoolFacts DEF Tasks
  <2>2. stage = "generate" /\ collected = Len(at) =>
          \A i \in Tasks : at[i] = "ended" =>
            \A k \in DOMAIN outcomes[i] :
              outcomes[i][k] => \E j \in DOMAIN mutants : mutants[j] = <<i, k>>
    BY <1>1, <2>1 DEF MutantsInv
  <2>3. stage \in {"group", "report", "done"} =>
          \A i \in Tasks : at[i] = "ended" => \E j \in DOMAIN verified : verified[j] = i
    BY <1>1, <2>1 DEF PoolInv, VerifiedInv
  <2> QED BY <2>2, <2>3 DEF ErrorsAreLocal
<1> QED BY <1>1, PipelineInductive, PTL

\* Every report has a disagreement of its direction behind it, and no failed tool
\* (compare_node and build_report_node of verify_agent.py).
THEOREM ReportsAreFounded == Spec => []ReportsFounded
<1>1. ASSUME PipelineInv PROVE ReportsFounded
  <2> SUFFICES ASSUME NEW k \in Reportable
               PROVE  /\ ~review[verified[k]].toolError
                      /\ review[verified[k]].class = (IF review[verified[k]].tool THEN "FP" ELSE "FN")
                      /\ review[verified[k]].llm # review[verified[k]].tool
                      /\ review[verified[k]].score \in {"P0", "P1"}
    BY DEF ReportsFounded
  <2>1. PICK m : m = verified[k]
    OBVIOUS
  <2>2. m \in DOMAIN review /\ review[m].score # "none"
    <3>1. stage \notin {"analyze", "generate"}
      <4>1. stage \in {"analyze", "generate"} => verified = <<>> /\ DOMAIN <<>> = {}
        BY <1>1, EmptySeq DEF PipelineInv, PoolInv
      <4> QED BY <4>1 DEF Reportable
    <3>2. m \in 1..collected
      <4>1. PICK T : T = 1..collected /\ verified \in Seq(T)
        BY <1>1 DEF PipelineInv, VerifiedInv
      <4>2. k \in 1..Len(verified)
        BY <4>1, LenProperties DEF Reportable
      <4> QED BY <2>1, <4>1, <4>2, ElementOfSeq
    <3>3. m \in DOMAIN at
      BY <1>1, <3>2, PoolFacts DEF PipelineInv
    <3> QED BY <1>1, <2>1, <3>1, <3>3 DEF PipelineInv, PoolInv, Reportable
  <2>3. Sound(review[m])
    BY <1>1, <2>2 DEF PipelineInv, ReviewInv
  <2> QED BY <2>1, <2>2, <2>3 DEF Sound
<1> QED BY <1>1, PipelineInductive, PTL

\* With Bandit and CodeQL no false negative rests on a run that did not complete
\* (run_check of impl_bandit_check.py and impl_codeql_check.py, compare_node).
THEOREM FailuresAreNoticed == Spec => []FailuresNoticed
<1>1. PipelineInv => FailuresNoticed
  BY DEF PipelineInv, ReviewInv, Sound, FailuresNoticed, CompletedRuns
<1> QED BY <1>1, PipelineInductive, PTL

\* The cap leaves the predicates with the most matched code (generate_mutants_node).
THEOREM TopPredicatesChosen == Spec => []TopPredicates
<1>1. PipelineInv => TopPredicates
  BY DEF PipelineInv, ChoiceInv
<1> QED BY <1>1, PipelineInductive, PTL

\* Whatever the LLM answers, each reportable mutant is in the summary
\* (_get_root_cause_groups, group_results_node and build_report_node).
THEOREM SummaryComplete == Spec => []SummaryMissesNone
<1>1. ASSUME PipelineInv, ReportsFounded PROVE SummaryMissesNone
  <2> SUFFICES ASSUME stage \in {"report", "done"} PROVE Reports("FP") \cup Reports("FN") = Reportable
    BY DEF SummaryMissesNone
  <2>1. \A k \in Reportable : mentions[k] > 0 /\ review[verified[k]].class \in {"FP", "FN"}
    BY <1>1 DEF PipelineInv, SummaryInv, ReportsFounded
  <2> QED BY <2>1 DEF Reports
<1> QED BY <1>1, PipelineInductive, ReportsAreFounded, PTL

(***************************************************************************)
(* What refine_logic_tree keeps.                                           *)
(***************************************************************************)

\* An operation on leaves that applies is a split or a merge; else the tree is as before.
LEMMA SimpleKeeps ==
  ASSUME IsTree(tree), NEW op \in Operations, Simple(op), Refine(op)
  PROVE  /\ KeepsOthers(tree, tree', {Find(tree, Targets(op)[k]) : k \in DOMAIN Targets(op)})
         /\ GivesNoCode(op) => Codes(tree') = Codes(tree)
<1>1. tree' = Apply(tree, op)
  BY DEF Refine
<1>2. ListsGiven(op)
  BY AnalysisAssumption
<1>3. CASE ~Applies(tree, op)
  BY <1>1, <1>3 DEF Apply, KeepsOthers
<1>4. CASE Applies(tree, op) /\ op.op = "split"
  <2>1. Splits(tree, op) /\ tree' = Split(tree, op)
    BY <1>1, <1>4 DEF Applies, Apply
  <2>2. Targets(op) = <<op.target>> /\ DOMAIN Targets(op) = {1} /\ Targets(op)[1] = op.target
    <3>1. Targets(op) = <<op.target>>
      BY <1>4 DEF Targets
    <3>2. DOMAIN <<op.target>> = {1} /\ <<op.target>>[1] = op.target
      OBVIOUS
    <3> QED BY <3>1, <3>2
  <2>3. LastOf(tree, Find(tree, op.target)) = Find(tree, op.target)
    <3>1. \A k \in DOMAIN Targets(op) :
            Find(tree, Targets(op)[k]) # 0 =>
              LastOf(tree, Find(tree, Targets(op)[k])) = Find(tree, Targets(op)[k])
      BY DEF Simple
    <3>2. Find(tree, op.target) # 0
      BY <2>1 DEF Splits
    <3> QED BY <2>2, <3>1, <3>2
  <2>4. /\ KeepsOthers(tree, Split(tree, op), {Find(tree, op.target)})
        /\ (\A k \in DOMAIN op.into : op.into[k].inherits) => Codes(Split(tree, op)) = Codes(tree)
    BY <1>2, <1>4, <2>1, <2>3, SplitKeeps
  <2>5. {Find(tree, Targets(op)[k]) : k \in DOMAIN Targets(op)} = {Find(tree, op.target)}
    BY <2>2
  <2>6. GivesNoCode(op) => \A k \in DOMAIN op.into : op.into[k].inherits
    BY <1>4 DEF GivesNoCode
  <2> QED BY <2>1, <2>4, <2>5, <2>6
<1>5. CASE Applies(tree, op) /\ op.op # "split"
  <2>1. op.op = "merge" /\ Merges(tree, op) /\ tree' = Merge(tree, op)
    BY <1>1, <1>5 DEF Applies, Apply
  <2>2. Targets(op) = op.targets
    BY <1>5 DEF Targets
  <2>3. Distinct(op.targets)
    BY <2>2 DEF Simple, Distinct
  <2>4. \A k \in DOMAIN op.targets :
          Find(tree, op.targets[k]) # 0 =>
            LastOf(tree, Find(tree, op.targets[k])) = Find(tree, op.targets[k])
    BY <2>2 DEF Simple
  <2>5. /\ KeepsOthers(tree, Merge(tree, op), Targeted(tree, op))
        /\ op.covered = <<>> => Codes(Merge(tree, op)) = Codes(tree)
    BY <1>2, <2>1, <2>3, <2>4, MergeKeeps
  <2>6. {Find(tree, Targets(op)[k]) : k \in DOMAIN Targets(op)} = Targeted(tree, op)
    BY <2>2 DEF Targeted
  <2>7. GivesNoCode(op) => op.covered = <<>>
    BY <1>5 DEF GivesNoCode
  <2> QED BY <2>1, <2>5, <2>6, <2>7
<1> QED BY <1>3, <1>4, <1>5

\* Splitting or merging leaves, each named once, leaves every other predicate in the tree
\* with its code (_apply_split_operation and _apply_merge_operation of analysis_agent.py).
THEOREM OthersStay == Spec => OthersUntouched
<1>1. TypeOK =>
        [\A op \in Operations :
           Simple(op) /\ Refine(op) =>
             \A i \in DOMAIN tree :
               (\A k \in DOMAIN Targets(op) : i # Find(tree, Targets(op)[k])) =>
                 \E j \in DOMAIN tree' : tree'[j].name = tree[i].name
                                         /\ tree'[j].covered = tree[i].covered]_tree
  <2> SUFFICES ASSUME TypeOK, NEW op \in Operations, Simple(op), Refine(op), NEW i \in DOMAIN tree,
                      \A k \in DOMAIN Targets(op) : i # Find(tree, Targets(op)[k])
               PROVE  \E j \in DOMAIN tree' : tree'[j].name = tree[i].name
                                              /\ tree'[j].covered = tree[i].covered
    OBVIOUS
  <2>1. IsTree(tree)
    BY DEF TypeOK, AnalysisTypeOK
  <2>2. KeepsOthers(tree, tree', {Find(tree, Targets(op)[k]) : k \in DOMAIN Targets(op)})
    BY <2>1, SimpleKeeps
  <2>3. i \notin {Find(tree, Targets(op)[k]) : k \in DOMAIN Targets(op)}
    OBVIOUS
  <2> QED BY <2>2, <2>3 DEF KeepsOthers
<1> QED BY <1>1, PipelineTyped, PTL DEF OthersUntouched

\* Where such an operation gives no code of its own, the tree keeps its matched code
\* ("Preserve each predicate's 'covered' code when merging or splitting").
THEOREM CodeIsKept == Spec => RefineKeepsCode
<1>1. TypeOK =>
        [\A op \in Operations :
           Simple(op) /\ GivesNoCode(op) /\ Refine(op) => Codes(tree') = Codes(tree)]_tree
  <2> SUFFICES ASSUME TypeOK, NEW op \in Operations, Simple(op), GivesNoCode(op), Refine(op)
               PROVE  Codes(tree') = Codes(tree)
    OBVIOUS
  <2>1. IsTree(tree)
    BY DEF TypeOK, AnalysisTypeOK
  <2> QED BY <2>1, SimpleKeeps
<1> QED BY <1>1, PipelineTyped, PTL DEF RefineKeepsCode
=============================================================================
