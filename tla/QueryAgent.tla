----------------------------- MODULE QueryAgent -----------------------------
(***************************************************************************)
(* One call of find_code_snippets in src/src/agents/query_agent_api.py:    *)
(* the LangGraph loop generate -> refine -> search and evaluate, for the   *)
(* false-negative and the false-positive direction at once.  A node        *)
(* returns its updates in one piece, so a node is one step; what the LLM   *)
(* and GitHub answer is arbitrary.                                         *)
(*                                                                         *)
(* Of a list of queries only matters whether it is empty, of a search      *)
(* result its identity, of the saved examples how many there are.          *)
(***************************************************************************)
EXTENDS AgentUtils, FiniteSets

CONSTANTS
  Directions,     \* false_negative and false_positive
  Snippets,       \* identities of search results
  Target,         \* target_cnt
  MaxIterations,  \* max_iterations
  MaxTurns,       \* QUERY_REFINE_MAX_TURNS
  Skip            \* skip_refine_pipeline, as the caller or the environment set it

ASSUME BoundsAssumption ==
  /\ Target \in Nat
  /\ MaxIterations \in Nat
  /\ MaxTurns \in Nat
  /\ Skip \in BOOLEAN

\* The evaluator's selection is cut to three examples.
MaxSelected == 3

VARIABLES
  node,        \* the LangGraph node to run next
  hasQueries,  \* hasQueries[d]: {d}_last_query is not empty
  saved,       \* saved[d]: how many {d}_saved_examples
  seenIds,     \* {d}_seen_ids
  refineDone,  \* {d}_refine_done
  turn,        \* query_refine_turn
  round,       \* iteration_count
  offers       \* history: how often the evaluator was given a snippet

found == <<saved, seenIds, offers>>
vars == <<node, hasQueries, saved, seenIds, refineDone, turn, round, offers>>

Nodes == {"generate", "refine", "search", "output", "done", "failed"}
Larger(a, b) == IF a > b THEN a ELSE b
Smaller(a, b) == IF a < b THEN a ELSE b

InitAt(start) ==
  /\ node = start
  /\ hasQueries = [d \in Directions |-> FALSE]
  /\ saved = [d \in Directions |-> 0]
  /\ seenIds = [d \in Directions |-> {}]
  /\ refineDone = [d \in Directions |-> FALSE]
  /\ turn = 0
  /\ round = 0
  /\ offers = [d \in Directions |-> [s \in Snippets |-> 0]]

Init == InitAt("generate")

TypeOK ==
  /\ node \in Nodes
  /\ hasQueries \in [Directions -> BOOLEAN]
  /\ saved \in [Directions -> Nat]
  /\ seenIds \in [Directions -> SUBSET Snippets]
  /\ refineDone \in [Directions -> BOOLEAN]
  /\ turn \in 0..Larger(1, MaxTurns)
  /\ round \in 0..Larger(1, MaxIterations)
  /\ offers \in [Directions -> [Snippets -> Nat]]

-----------------------------------------------------------------------------
(* LangGraph keeps the keys its state type declares and drops the others    *)
(* from an input and from a node's update; reading a dropped key yields the *)
(* default.                                                                 *)

StateKeys ==
  {"messages", "target_predicate", "logic_tree_with_code", "target_cnt",
   "max_iterations", "iteration_count", "search_iterations", "language",
   "fn_last_query", "fn_saved_examples", "fn_seen_ids", "fn_seen_patterns",
   "fp_last_query", "fp_saved_examples", "fp_seen_ids", "fp_seen_patterns",
   "query_refine_turn", "query_refine_max_turns", "fn_refine_done",
   "fp_refine_done", "result"}

StateGet(key, value, default) == IF key \in StateKeys THEN value ELSE default

SkipRead == StateGet("skip_refine_pipeline", Skip, FALSE)

-----------------------------------------------------------------------------
(* Answers of the LLM.  Of a list of queries or selected examples matters   *)
(* only which entries are blank.                                            *)
Entries == {"text", "blank"}

\* _normalize_queries: without blank ones and duplicates, at most three.
NormalizeQueries(entries) == entries \ {"blank"}

\* _make_query: whether there is a query.
MakeQuery(answer) == NormalizeQueries(ParseJson(answer)) # {}

\* _refine_queries_once: an answer without queries leaves the current ones.
RefineQueriesOnce(current, answer) == MakeQuery(answer) \/ current

\* _evaluate_search_results_batch: of the first three selected, those with text.
Evaluated(selection) == Cardinality({i \in 1..Smaller(Len(selection), MaxSelected) : selection[i] = "text"})

\* All selections an answer may hold, up to one more than is read.
Selections == UNION {[1..n -> Entries] : n \in 0..MaxSelected + 1}

-----------------------------------------------------------------------------
(* The nodes *)

\* Faulty variant: the refinement turns of an earlier round still count.
GenerateWithoutReset ==
  /\ node = "generate"
  /\ hasQueries' \in [Directions -> {MakeQuery(answer) : answer \in LlmAnswers(Entries)}]
  /\ round' = round + 1
  /\ node' = IF SkipRead THEN "search" ELSE "refine"
  /\ UNCHANGED <<found, refineDone, turn>>

\* Faulty variant: the round is not counted.
GenerateUncounted ==
  /\ node = "generate"
  /\ hasQueries' \in [Directions -> {MakeQuery(answer) : answer \in LlmAnswers(Entries)}]
  /\ refineDone' = [d \in Directions |-> FALSE]
  /\ turn' = 0
  /\ node' = IF SkipRead THEN "search" ELSE "refine"
  /\ UNCHANGED <<found, round>>

\* generate_queries_node and the edge after it.
Generate ==
  /\ node = "generate"
  /\ hasQueries' \in [Directions -> {MakeQuery(answer) : answer \in LlmAnswers(Entries)}]
  /\ refineDone' = [d \in Directions |-> FALSE]
  /\ turn' = 0
  /\ round' = round + 1
  /\ node' = IF SkipRead THEN "search" ELSE "refine"
  /\ UNCHANGED found

\* refine_queries_node, then should_continue_refine.  A direction that is done
\* or has no queries stays so; in another the LLM is content with the peeked
\* results or changes the queries.
Refine ==
  /\ node = "refine"
  /\ refineDone' \in {done \in [Directions -> BOOLEAN] :
       \A d \in Directions : refineDone[d] \/ ~hasQueries[d] => done[d]}
  /\ hasQueries' \in {kept \in [Directions -> BOOLEAN] : \A d \in Directions :
       kept[d] \in IF refineDone[d] \/ ~hasQueries[d] THEN {hasQueries[d]}
                   ELSE {RefineQueriesOnce(hasQueries[d], answer) : answer \in LlmAnswers(Entries)}}
  /\ turn' = turn + 1
  /\ node' = IF \/ SkipRead
                \/ \A d \in Directions : refineDone'[d]
                \/ turn' >= MaxTurns
               THEN "search" ELSE "refine"
  /\ UNCHANGED <<found, round>>

\* Faulty variant: "> target" for ">= target".
KeepOneMore(count, selected) ==
  count + Smaller(selected, IF count > Target THEN 1 ELSE Target + 1 - count)

\* The loop appends an example and stops once the target is reached: a
\* direction that has reached it already still takes one.
Keep(count, selected) ==
  count + Smaller(selected, IF count >= Target THEN 1 ELSE Target - count)

\* _search_with_api: an error object or another answer that is no list holds no results.
SearchWithApi(reply) == IF reply.error THEN {} ELSE reply.items
Replies == [error : BOOLEAN, items : SUBSET Snippets]

\* Faulty variant: what was seen in earlier rounds is not excluded.
CandidatesOfRound(d, results, blank) == results \ blank

\* _new_candidate_snippets: what is new and has text.
Candidates(d, results, blank) == (results \ seenIds[d]) \ blank

\* _search_and_evaluate_direction: without queries nothing is searched, and
\* without a new candidate the evaluator is not asked.
PossibleOutcome(d, results, blank, selected) ==
  /\ blank \subseteq results
  /\ ~hasQueries[d] => results = {}
  /\ Candidates(d, results, blank) = {} => selected = 0

\* should_continue.
Route(counts) ==
  IF \/ \A d \in Directions : counts[d] >= Target
     \/ round >= MaxIterations
  THEN "output"
  ELSE "generate"

\* search_and_evaluate_node.  In each direction the results of all queries are
\* merged, some of them blank.  An identity counts as seen even when its text was blank.
SearchAndEvaluate ==
  /\ node = "search"
  /\ \E results \in [Directions -> {SearchWithApi(reply) : reply \in Replies}],
        blank \in [Directions -> SUBSET Snippets],
        selected \in [Directions -> {Evaluated(selection) : selection \in Selections}] :
       /\ \A d \in Directions : PossibleOutcome(d, results[d], blank[d], selected[d])
       /\ saved' = [d \in Directions |-> Keep(saved[d], selected[d])]
       /\ seenIds' = [d \in Directions |-> seenIds[d] \cup results[d]]
       /\ offers' = [d \in Directions |-> [s \in Snippets |->
            IF s \in Candidates(d, results[d], blank[d])
              THEN offers[d][s] + 1 ELSE offers[d][s]]]
       /\ node' = Route(saved')
  /\ UNCHANGED <<hasQueries, refineDone, turn, round>>

\* build_output_node.
BuildOutput ==
  /\ node = "output"
  /\ node' = "done"
  /\ UNCHANGED <<hasQueries, found, refineDone, turn, round>>

\* The LLM, or a search in mode "server", raised: agent.invoke raises, and what
\* was saved is lost to the caller.
Raise ==
  /\ node \in {"generate", "refine", "search"}
  /\ node' = "failed"
  /\ UNCHANGED <<hasQueries, found, refineDone, turn, round>>

Next == Generate \/ Refine \/ SearchAndEvaluate \/ BuildOutput \/ Raise

Spec == Init /\ [][Next]_vars

-----------------------------------------------------------------------------
(* Properties *)

\* The evaluator is given a snippet at most once per direction, however often
\* the searches of later rounds return it.
OfferedOnce == \A d \in Directions, s \in Snippets : offers[d][s] <= 1

\* A direction overshoots its target by less than one example per round, the
\* rounds that run for the sake of the other direction alone.
OvershootBounded ==
  \A d \in Directions : saved[d] < Larger(1, Target) + Larger(1, round)

\* "QUERY_AGENT_SKIP_REFINE_PIPELINE 1 = single search pass (faster)": no
\* refinement when it is set.
SkipsRefinement == Skip => node # "refine"
=============================================================================
