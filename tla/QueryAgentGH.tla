---------------------------- MODULE QueryAgentGH ----------------------------
(***************************************************************************)
(* One call of QueryAgentGH.find_code_snippets, the older query agent      *)
(* (src/src/agents/query_agent_gh.py), with its tool gh_code_search        *)
(* (src/src/tools/gh_code_search.py).  The two directions follow each      *)
(* other; each asks the LLM for a query, searches with the gh command, and *)
(* has the LLM judge the new results one by one.                           *)
(*                                                                         *)
(* Of a result only its identity matters, its url or repo and path, and    *)
(* whether it has text.                                                    *)
(***************************************************************************)
EXTENDS AgentUtils, FiniteSets, Subsequences

CONSTANTS
  Items,         \* identities of search results
  GhTarget,      \* target_cnt
  GhIterations   \* max_iterations

ASSUME GhAssumption == GhTarget \in Nat /\ GhIterations \in Nat /\ IsFiniteSet(Items)

VARIABLES
  ghNode,        \* what the agent does next
  ghDirection,   \* 1 for false negatives, 2 for false positives, 3 behind both
  ghIteration,   \* iterations of the direction that have begun
  ghSaved,       \* ghSaved[d]: its saved examples
  ghSeen,        \* ghSeen[d]: its seen_ids
  ghCandidates,  \* new results that are to be judged
  ghOffers       \* history: how often a result was judged

ghVars == <<ghNode, ghDirection, ghIteration, ghSaved, ghSeen, ghCandidates, ghOffers>>

GhDirections == 1..2

GhInit(node) ==
  /\ ghNode = node
  /\ ghDirection = 1
  /\ ghIteration = 0
  /\ ghSaved = [d \in GhDirections |-> <<>>]
  /\ ghSeen = [d \in GhDirections |-> {}]
  /\ ghCandidates = <<>>
  /\ ghOffers = [d \in GhDirections |-> [x \in Items |-> 0]]

GhTypeOK ==
  /\ ghNode \in {"query", "evaluate", "done", "failed"}
  /\ ghDirection \in 1..3
  /\ ghIteration \in 0..GhIterations
  /\ ghSaved \in [GhDirections -> Seq(Items)]
  /\ ghSeen \in [GhDirections -> SUBSET Items]
  /\ ghCandidates \in Seq(Items)
  /\ (ghCandidates # <<>>) = (ghNode = "evaluate")
  /\ ghOffers \in [GhDirections -> [Items -> Nat]]

-----------------------------------------------------------------------------
(* The tool *)

\* _normalize_items: the first of several results with one identity.
NormalizeItems(raw) == Kept(raw, {p \in DOMAIN raw : \A q \in 1..(p - 1) : raw[q] # raw[p]})

\* _embed_with_codebert, _embed_with_sentence_transformers: a library that cannot be
\* imported and a model that fails give no embedding.
EmbedWith(library, working) == library \in working

\* _embed_texts: the second library is asked when the first gives none.
EmbedTexts(working) ==
  EmbedWith("codebert", working) \/ EmbedWith("sentence_transformers", working)

\* Without an embedding or without KMeans nothing is clustered; else there are at most k
\* clusters, and a result of each, the one closest to its centre, represents it.
Representing(items, k, working) ==
  IF EmbedTexts(working) /\ "KMeans" \in working
  THEN {chosen \in SUBSET DOMAIN items : Cardinality(chosen) \in 1..k}
  ELSE {{}}

\* The representatives in the order of the results, then the first of the others.
Filled(items, chosen, k) ==
  LET others == (DOMAIN items) \ chosen
      order == SubSeq(InOrder(chosen) \o InOrder(others), 1, k)
  IN [p \in DOMAIN order |-> items[order[p]]]

\* _select_cluster_representatives: what it may return.
Selected(items, k) ==
  IF Len(items) <= k THEN {items}
  ELSE {Filled(items, chosen, k) : chosen \in
          UNION {Representing(items, k, working) :
                   working \in SUBSET {"codebert", "sentence_transformers", "KMeans"}}}

\* gh_code_search: a command that fails or prints no list is answered with an error.
GhCodeSearch(raw, blank, failed) ==
  IF failed THEN {[error |-> TRUE, items |-> <<>>]}
  ELSE LET normal == NormalizeItems(raw)
           withText == Kept(normal, {p \in DOMAIN normal : normal[p] \notin blank})
       IN {[error |-> FALSE, items |-> items] :
             items \in Selected(withText, IF GhTarget > 1 THEN GhTarget ELSE 1)}

-----------------------------------------------------------------------------
(* The agent *)

\* _make_query: whether the answer holds a query.
GhMakeQuery(answer) == "query" \in ParseJson(answer)

\* _search_with_gh.
SearchWithGh(reply) == IF reply.error THEN <<>> ELSE reply.items

\* _evaluate_snippet: without a decision the snippet is ignored.
GhKeeps(answer) == "keep" \in ParseJson(answer)
\* Faulty variant: what earlier searches returned is not excluded.
AllResults(results) == results

\* _new_candidate_snippets.
GhNew(results) == Kept(results, {p \in DOMAIN results : results[p] \notin ghSeen[ghDirection]})

GhMore == ghIteration < GhIterations /\ Len(ghSaved[ghDirection]) < GhTarget

\* The head of the loop of _run_direction, _make_query and _search_with_gh.  Without a
\* query the iteration is over.
GhSearch ==
  /\ ghNode = "query" /\ ghDirection \in GhDirections /\ GhMore
  /\ ghIteration' = ghIteration + 1
  /\ \/ /\ \E answer \in LlmAnswers({"query"}) : ~GhMakeQuery(answer)
        /\ UNCHANGED <<ghNode, ghSeen, ghCandidates>>
     \/ \E raw \in UNION {[1..n -> Items] : n \in 0..Cardinality(Items)}, blank \in SUBSET Items, failed \in BOOLEAN :
          \E results \in {SearchWithGh(reply) : reply \in GhCodeSearch(raw, blank, failed)} :
            /\ ghSeen' = [ghSeen EXCEPT ![ghDirection] = @ \cup {results[p] : p \in DOMAIN results}]
            /\ ghCandidates' = GhNew(results)
            /\ ghNode' = IF ghCandidates' = <<>> THEN "query" ELSE "evaluate"
  /\ UNCHANGED <<ghDirection, ghSaved, ghOffers>>

\* _evaluate_and_keep; the direction is over when it has reached its target.
GhEvaluate(keep) ==
  /\ ghNode = "evaluate"
  /\ ghOffers' = [ghOffers EXCEPT ![ghDirection][Head(ghCandidates)] = @ + 1]
  /\ ghSaved' = [ghSaved EXCEPT ![ghDirection] = IF keep THEN Append(@, Head(ghCandidates)) ELSE @]
  /\ ghCandidates' = IF Len(ghSaved'[ghDirection]) >= GhTarget THEN <<>> ELSE Tail(ghCandidates)
  /\ ghNode' = IF ghCandidates' = <<>> THEN "query" ELSE "evaluate"
  /\ UNCHANGED <<ghDirection, ghIteration, ghSeen>>

\* The end of the loop: find_code_snippets goes on to the other direction.
GhNextDirection ==
  /\ ghNode = "query" /\ ghDirection \in GhDirections /\ ~GhMore
  /\ ghDirection' = ghDirection + 1
  /\ ghIteration' = 0
  /\ UNCHANGED <<ghNode, ghSaved, ghSeen, ghCandidates, ghOffers>>

GhReturn ==
  /\ ghNode = "query" /\ ghDirection = 3
  /\ ghNode' = "done"
  /\ UNCHANGED <<ghDirection, ghIteration, ghSaved, ghSeen, ghCandidates, ghOffers>>

\* The LLM raised: what was saved in either direction is lost.
GhRaise ==
  /\ ghNode = "evaluate" \/ (ghNode = "query" /\ ghDirection \in GhDirections /\ GhMore)
  /\ ghNode' = "failed"
  /\ ghCandidates' = <<>>
  /\ UNCHANGED <<ghDirection, ghIteration, ghSaved, ghSeen, ghOffers>>

GhNext ==
  \/ GhSearch \/ GhNextDirection \/ GhReturn \/ GhRaise
  \/ \E answer \in LlmAnswers({"keep", "ignore"}) : GhEvaluate(GhKeeps(answer))

GhSpec == GhInit("query") /\ [][GhNext]_ghVars

-----------------------------------------------------------------------------
(* Properties *)

\* No result is judged twice or saved twice in a direction, however often the searches
\* return it, a direction never exceeds its target, and one that ends short of it has
\* passed over nothing.
GhSavesDistinct == \A d \in GhDirections :
  /\ Len(ghSaved[d]) <= GhTarget
  /\ \A p, q \in DOMAIN ghSaved[d] : ghSaved[d][p] = ghSaved[d][q] => p = q
  /\ \A x \in Items : ghOffers[d][x] <= 1
  /\ d < ghDirection /\ Len(ghSaved[d]) < GhTarget => \A x \in ghSeen[d] : ghOffers[d][x] = 1
=============================================================================
