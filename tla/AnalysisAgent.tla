--------------------------- MODULE AnalysisAgent ---------------------------
(***************************************************************************)
(* The analysis of a rule (src/src/agents/analysis_agent.py): the nodes of *)
(* its graph, from the rule and its test cases to a logic tree whose       *)
(* predicates have the seed's code they match.  The nodes run one after    *)
(* the other in one thread.  What the LLM answers and how the analyzer's   *)
(* tool ends on a test case is arbitrary.                                  *)
(***************************************************************************)
EXTENDS LogicTree, Analyzers

CONSTANTS
  Settings,    \* environments: [tool, refine, earlyExit, bLow, bHigh, ...]
  Trees,       \* logic trees the LLM may decompose a rule into, without codes
  MatchLists,  \* code lists it may match to a predicate
  Operations,  \* operations it may refine a tree with
  MaxTests,    \* bound: test cases of the rule
  MaxOps       \* bound: operations in one answer

ASSUME AnalysisAssumption ==
  /\ MaxTests \in Nat /\ MaxOps \in Nat
  /\ \A t \in Trees : IsTree(t) /\ Codes(t) = {}
  /\ \A listed \in MatchLists : IsList(listed)
  /\ \A op \in Operations : ListsGiven(op)

VARIABLES
  settings,  \* the environment variables of the process
  node,      \* node of the analysis graph to run next
  tests,     \* test_cases in the order of load_test_cases: named positive or not
  seed,      \* current_seed, as an index of tests, 0 for none
  report,    \* dynamic_analysis_report[seed]: the outcome, and of which test
  tree,      \* logic_tree, then logic_tree_with_code
  pending    \* operations of the answer still to apply

analysis == <<node, tests, seed, report, tree, pending>>

AnalysisNodes ==
  {"analyze_rule", "decompose_rule", "dynamic_analysis", "analyze_predicate_mappings",
   "refine_logic_tree", "end"}

NoReport == [of |-> 0]

AnalysisInit ==
  /\ settings \in Settings
  /\ node = "analyze_rule"
  /\ tests = <<>> /\ seed = 0 /\ report = NoReport
  /\ tree = <<>> /\ pending = 0

\* load_test_cases finds no test: ValueError, which is AnalysisRaises.
AnalyzeRule ==
  /\ node = "analyze_rule"
  /\ node' = "decompose_rule"
  /\ \E n \in 1..MaxTests : tests' \in [1..n -> [positive : BOOLEAN]]
  /\ UNCHANGED <<settings, seed, report, tree, pending>>

\* An answer that cannot be parsed leaves an empty tree.
DecomposeRule ==
  /\ node = "decompose_rule"
  /\ node' = "dynamic_analysis"
  /\ tree' \in Trees \cup {<<>>}
  /\ UNCHANGED <<settings, tests, seed, report, pending>>

-----------------------------------------------------------------------------
(* dynamic_analysis: the choice of the seed *)

Flagged(ran) == {t \in DOMAIN ran : ran[t].issue}
Positive == {t \in DOMAIN tests : tests[t].positive}

\* Faulty variant: the loop goes on after the first flagged test.
PositivePassToTheEnd(ran) ==
  /\ Flagged(ran) # {}
  /\ seed' = Sets!Min(Flagged(ran))
  /\ report' = [of |-> Sets!Max(Positive), outcome |-> ran[Sets!Max(Positive)]]

\* The tests named positive, up to the first that is flagged.
PositivePass(ran) ==
  /\ Flagged(ran) # {}
  /\ seed' = Sets!Min(Flagged(ran))
  /\ report' = [of |-> seed', outcome |-> ran[seed']]

\* None was flagged: all tests, to the end; the last flagged one is the seed, and
\* the result of the last test is reported under its name.
FullPass(ran) ==
  /\ Flagged(ran) # {}
  /\ seed' = Sets!Max(Flagged(ran))
  /\ report' = [of |-> Len(tests), outcome |-> ran[Len(tests)]]

\* A tool may end differently when it is run on a test for the second time.  No
\* flagged test is a ValueError, which is AnalysisRaises.
DynamicAnalysis ==
  /\ node = "dynamic_analysis"
  /\ node' = "analyze_predicate_mappings"
  /\ \E first \in [Positive -> Outcomes[settings.tool]] :
       \/ PositivePass(first)
       \/ /\ Flagged(first) = {}
          /\ \E second \in [DOMAIN tests -> Outcomes[settings.tool]] : FullPass(second)
  /\ UNCHANGED <<settings, tests, tree, pending>>

-----------------------------------------------------------------------------
(* analyze_predicate_mappings and refine_logic_tree *)

\* parse_predicate_mapping_output: the matches that hold more than white space.
ParseMatches(listed) == Kept(listed, {k \in DOMAIN listed : listed[k] # ""})

\* One request per predicate; a name that stands twice keeps its last answer.  The
\* tests are not read again but for the seed's code, and the model drops them.
AnalyzePredicateMappings ==
  /\ node = "analyze_predicate_mappings"
  /\ node' = IF settings.refine THEN "refine_logic_tree" ELSE "end"
  /\ \E mappings \in [Names(tree) -> {ParseMatches(listed) : listed \in MatchLists}] : tree' = WithMappings(tree, mappings)
  /\ pending' = MaxOps
  /\ tests' = <<>> /\ seed' = 0 /\ report' = NoReport
  /\ UNCHANGED settings

\* _tree_bounds.
BLow == IF settings.bLow < 1 THEN 1 ELSE settings.bLow
BHigh == IF settings.bHigh < BLow THEN BLow ELSE settings.bHigh

TooMany == settings.earlyExit /\ Len(Predicates(tree)) > BHigh

\* The hard gate: an empty tree, and so no mutants.
EarlyExit ==
  /\ node = "refine_logic_tree"
  /\ tree # <<>> /\ TooMany
  /\ tree' = <<>>
  /\ node' = "end"
  /\ UNCHANGED <<settings, tests, seed, report, pending>>

\* An operation of the answer, applied or skipped.
Refine(op) ==
  /\ node = "refine_logic_tree"
  /\ tree # <<>> /\ (pending = MaxOps => ~TooMany)
  /\ pending > 0
  /\ tree' = Apply(tree, op)
  /\ pending' = pending - 1
  /\ UNCHANGED <<settings, node, tests, seed, report>>

\* No tree, no change asked for, or no operation left; the bounds are not checked
\* again.
EndRefine ==
  /\ node = "refine_logic_tree"
  /\ pending = MaxOps /\ tree # <<>> => ~TooMany
  /\ node' = "end"
  /\ UNCHANGED <<settings, tests, seed, report, tree, pending>>

\* An exception in a node, of the LLM's client, the analyzer or the two ValueErrors.
AnalysisCanRaise == node \in AnalysisNodes \ {"end"}

AnalysisStep ==
  \/ AnalyzeRule \/ DecomposeRule \/ DynamicAnalysis \/ AnalyzePredicateMappings
  \/ EarlyExit \/ EndRefine
  \/ \E op \in Operations : Refine(op)

-----------------------------------------------------------------------------
(* Properties *)

AnalysisTypeOK ==
  /\ settings \in Settings
  /\ node \in AnalysisNodes
  /\ tests \in Seq([positive : BOOLEAN]) /\ Len(tests) <= MaxTests
  /\ seed \in 0..Len(tests) /\ report.of \in 0..Len(tests)
  /\ IsTree(tree)
  /\ pending \in 0..MaxOps

\* The report that stands under the seed's name in the mapping prompts is the one of
\* the seed, but for the fallback over all tests: there it may be that of the last
\* test, and then it shows no issue though the seed was chosen for one.
ReportOfSeed ==
  report.of = seed \/ (report.of = Len(tests) /\ ~report.outcome.issue)

\* Targets that stand once in the operation and have no children of their own.
Targets(op) == IF op.op = "split" THEN <<op.target>> ELSE op.targets
Simple(op) ==
  /\ op.op \in {"split", "merge"}
  /\ \A j, k \in DOMAIN Targets(op) : j # k => Targets(op)[j] # Targets(op)[k]
  /\ \A k \in DOMAIN Targets(op) :
       LET i == Find(tree, Targets(op)[k]) IN i # 0 => LastOf(tree, i) = i

\* The operation gives no codes of its own.
GivesNoCode(op) ==
  IF op.op = "split" THEN \A k \in DOMAIN op.into : op.into[k].inherits
                     ELSE op.covered = <<>>

\* "Preserve each predicate's 'covered' code when merging or splitting": an operation
\* on leaves that gives no code of its own, and names no target twice, keeps the
\* matched code of the tree.
RefineKeepsCode ==
  [][\A op \in Operations :
       Simple(op) /\ GivesNoCode(op) /\ Refine(op) => Codes(tree') = Codes(tree)]_tree

\* Such an operation leaves every other predicate in the tree with its code.
OthersUntouched ==
  [][\A op \in Operations :
       Simple(op) /\ Refine(op) =>
         \A i \in DOMAIN tree :
           (\A k \in DOMAIN Targets(op) : i # Find(tree, Targets(op)[k])) =>
             \E j \in DOMAIN tree' : tree'[j].name = tree[i].name
                                     /\ tree'[j].covered = tree[i].covered]_tree
=============================================================================
