------------------------------ MODULE Pipeline ------------------------------
(***************************************************************************)
(* One run of PipelineAgent (src/src/agents/pipeline_agent.py) for a rule: *)
(* analyze (the graph of AnalysisAgent), generate mutants in parallel over *)
(* predicates, verify them in parallel (each with the nodes of             *)
(* verify_agent.py and a run of an analyzer), group, report.               *)
(*                                                                         *)
(* Tasks of a stage run on a pool of worker threads; the node that         *)
(* submitted them collects their results in the order of submission.  A    *)
(* mutant is named by its predicate and the snippet it was made from; what *)
(* the LLM, GitHub and the analyzer answer is arbitrary.                   *)
(***************************************************************************)
EXTENDS AnalysisAgent, Synthesis, Integers, FiniteSets
LOCAL Sum == INSTANCE Functions

CONSTANTS
  Variants,       \* QUERY_SNIPPETS_PER_DIRECTION, where snippets are not searched for
  MaxFound,       \* bound: snippets the query agents find in the run
  Workers,        \* threads of the pool
  MaxMentions     \* bound: indices in one group of the LLM's answer

\* cap is MAX_PREDICATES_PER_RULE, 0 for none; direct is LLM_DIRECT_MUTATION.
ASSUME SettingsAssumption ==
  Settings \subseteq [tool : Tools, refine : BOOLEAN, earlyExit : BOOLEAN,
                      bLow : Int, bHigh : Int, cap : Nat, direct : BOOLEAN]
ASSUME PoolAssumption == Workers \in Nat \ {0}
ASSUME BoundsAssumption == Variants \in Nat /\ MaxFound \in Nat /\ MaxMentions \in Nat

VARIABLES
  stage,       \* LangGraph node of the pipeline
  covered,     \* covered-snippet count of each extracted predicate
  predicates,  \* the predicates to process, by position in covered
  at,          \* control state of each task of the stage
  collected,   \* how many results the stage has taken
  snippets,    \* snippets[i]: how many the query agent found for task i
  outcomes,    \* outcomes[i][k]: synthesis from snippet k gave a mutant
  mutants,     \* all_mutants, as <<task, snippet>>
  review,      \* what verifying a mutant has found so far
  verified,    \* verified_results, as positions in mutants
  mentions     \* how often a reportable mutant stands in root_cause_groups

generation == <<covered, predicates, snippets, outcomes>>
work == <<generation, at, collected, mutants, review, verified, mentions>>
vars == <<settings, analysis, stage, work>>

Stages == {"analyze", "generate", "verify", "group", "report", "done", "failed"}
Idle == {"queued", "ended", "error", "silent"}
GenerateStates == {"search", "mutate", "synthesize"}
VerifyStates == {"judge", "check", "assess"}

Init ==
  /\ AnalysisInit
  /\ stage = "analyze"
  /\ covered = <<>> /\ predicates = <<>>
  /\ at = <<>> /\ collected = 0
  /\ snippets = <<>> /\ outcomes = <<>>
  /\ mutants = <<>> /\ review = <<>> /\ verified = <<>> /\ mentions = <<>>

Tasks == DOMAIN at
Scores == {"none", "P0", "P1", "P2"}

Review == [llm : BOOLEAN, tool : BOOLEAN, toolError : BOOLEAN, completed : BOOLEAN,
           class : {"FP", "FN", "NONE"}, score : Scores]

Attempts == IF settings.direct THEN 2 * Variants ELSE MaxFound

TypeOK ==
  /\ AnalysisTypeOK
  /\ stage \in Stages
  /\ covered \in Seq(Nat \ {0})
  /\ Len(predicates) <= Len(covered)
  /\ at \in Seq(Idle \cup (IF stage = "generate" THEN GenerateStates ELSE VerifyStates))
  /\ collected \in 0..Len(at)
  /\ snippets \in [DOMAIN predicates -> 0..Attempts]
  /\ outcomes \in [DOMAIN predicates -> Seq(BOOLEAN)]
  /\ \A i \in DOMAIN predicates : Len(outcomes[i]) <= snippets[i]
  /\ review \in Seq(Review)

-----------------------------------------------------------------------------
(* analyze_node and the choice of predicates in generate_mutants_node *)

\* Faulty variant: the least covered come first.
RanksBelow(counts, i) ==
  Cardinality({j \in DOMAIN counts :
                 counts[j] < counts[i] \/ (counts[j] = counts[i] /\ j < i)}) + 1

\* Position of predicate i when sorted by covered count, the largest first;
\* sorted() is stable.
Rank(counts, i) ==
  Cardinality({j \in DOMAIN counts :
                 counts[j] > counts[i] \/ (counts[j] = counts[i] /\ j < i)}) + 1

\* Over the cap, the best covered predicates in the order of their rank.
Chosen(counts) ==
  IF settings.cap > 0 /\ Len(counts) > settings.cap
    THEN [r \in 1..settings.cap |-> CHOOSE i \in DOMAIN counts : Rank(counts, i) = r]
    ELSE [i \in DOMAIN counts |-> i]

\* Faulty variant: the results of the stage before still count.
SubmitMore(tasks) ==
  /\ at' = [i \in tasks |-> "queued"]
  /\ UNCHANGED collected

\* The stage gets one task per predicate or mutant and has taken no result.
Submit(tasks) ==
  /\ at' = [i \in tasks |-> "queued"]
  /\ collected' = 0

\* A node of the analysis graph runs.
AnalysisNode == stage = "analyze" /\ AnalysisStep /\ UNCHANGED <<stage, work>>

\* analyze_node hands over the tree and generate_mutants_node extracts from it the
\* predicates that have matched code; the rest of the tree is not used again.
Analyze ==
  /\ stage = "analyze" /\ node = "end"
  /\ stage' = "generate"
  /\ covered' = [k \in DOMAIN WithCode(tree) |-> Len(WithCode(tree)[k].covered)]
  /\ tree' = <<>> /\ pending' = 0
  /\ predicates' = Chosen(covered')
  /\ snippets' = [i \in DOMAIN predicates' |-> 0]
  /\ outcomes' = [i \in DOMAIN predicates' |-> <<>>]
  /\ Submit(DOMAIN predicates')
  /\ UNCHANGED <<settings, node, tests, seed, report, mutants, review, verified, mentions>>

-----------------------------------------------------------------------------
(* The pool *)

Running == {i \in Tasks : at[i] \notin Idle}
Move(i, from, to) == at[i] = from /\ at' = [at EXCEPT ![i] = to]

\* A free thread takes the oldest task.
StartTask(i) ==
  /\ \A j \in 1..(i - 1) : at[j] # "queued"
  /\ Cardinality(Running) < Workers
  /\ \/ stage = "generate" /\ Move(i, "queued", IF settings.direct THEN "mutate" ELSE "search")
     \/ stage = "verify" /\ Move(i, "queued", "judge")
  /\ UNCHANGED <<stage, generation, collected, mutants, review, verified, mentions>>

\* _process_one_predicate and _verify_one_mutant_task turn an exception into the
\* error text of this task; an exception without a text leaves it empty.
TaskRaises(i) ==
  /\ \E from \in {"search", "mutate", "judge", "check", "assess"}, text \in {"error", "silent"} :
       Move(i, from, text)
  /\ UNCHANGED <<stage, generation, collected, mutants, review, verified, mentions>>

-----------------------------------------------------------------------------
(* _process_predicate *)

Found == Sum!FoldFunction(+, 0, snippets)

QuerySnippets(i) ==
  /\ Move(i, "search", "synthesize")
  /\ \E n \in 0..MaxFound : snippets' = [snippets EXCEPT ![i] = n]
  /\ Found' <= MaxFound
  /\ UNCHANGED <<stage, covered, predicates, collected, outcomes, mutants, review,
                 verified, mentions>>

\* _process_predicate_direct makes its own model client and asks it for so many
\* variants in each direction.
DirectMutation(i) ==
  /\ Move(i, "mutate", "synthesize")
  /\ snippets' = [snippets EXCEPT ![i] = 2 * Variants]
  /\ UNCHANGED <<stage, covered, predicates, collected, outcomes, mutants, review,
                 verified, mentions>>

\* Faulty variant: each synthesis is a task of its own on the same pool.
SynthesizeInPool(i) ==
  /\ Cardinality(Running) < Workers
  /\ at[i] = "synthesize" /\ Len(outcomes[i]) < snippets[i]
  /\ \E made \in BOOLEAN : outcomes' = [outcomes EXCEPT ![i] = Append(@, made)]
  /\ UNCHANGED <<stage, covered, predicates, at, collected, snippets, mutants, review,
                 verified, mentions>>

\* _synthesize_one and _direct_mutate_one, serially: a blank snippet and an exception
\* give no mutant, and neither does an answer without code.
Synthesize(i) ==
  /\ at[i] = "synthesize" /\ Len(outcomes[i]) < snippets[i]
  /\ \E made \in {FALSE} \cup (IF settings.direct THEN MutationResults ELSE SynthesisResults) :
       outcomes' = [outcomes EXCEPT ![i] = Append(@, made)]
  /\ UNCHANGED <<stage, covered, predicates, at, collected, snippets, mutants, review,
                 verified, mentions>>

PredicateEnds(i) ==
  /\ Move(i, "synthesize", "ended")
  /\ Len(outcomes[i]) = snippets[i]
  /\ UNCHANGED <<stage, generation, collected, mutants, review, verified, mentions>>

\* The mutants of a predicate, in the order of its snippets.
MutantsOf(i) ==
  Kept([k \in DOMAIN outcomes[i] |-> <<i, k>>], {k \in DOMAIN outcomes[i] : outcomes[i][k]})

-----------------------------------------------------------------------------
(* verify_agent.py *)

NewReview == [llm |-> FALSE, tool |-> FALSE, toolError |-> FALSE, completed |-> FALSE,
              class |-> "NONE", score |-> "none"]

Note(i, found) == review' = [review EXCEPT ![i] = found]

LlmJudge(i) ==
  /\ Move(i, "judge", "check")
  /\ \E hasIssue \in BOOLEAN : Note(i, [review[i] EXCEPT !.llm = hasIssue])
  /\ UNCHANGED <<stage, generation, collected, mutants, verified, mentions>>

\* Faulty variant: the output of a failed tool is compared as well.
DisagreesAnyway(llm, tool, toolError) == llm # tool

\* compare_node: a tool that failed is not trusted.
Disagrees(llm, tool, toolError) == ~toolError /\ llm # tool

\* analyzer_check_node, compare_node and route_after_compare.  The flags of a mutant
\* without disagreement are not read again, and the model forgets them.
AnalyzerCheck(i) ==
  /\ \E ran \in Outcomes[settings.tool] :
       LET disagree == Disagrees(review[i].llm, ran.issue, ran.runtimeError) IN
       /\ Move(i, "check", IF disagree THEN "assess" ELSE "ended")
       /\ Note(i, IF ~disagree THEN NewReview ELSE
            [review[i] EXCEPT
               !.tool = ran.issue, !.toolError = ran.runtimeError,
               !.completed = ran.completed,
               !.class = IF ran.issue THEN "FP" ELSE "FN"])
  /\ UNCHANGED <<stage, generation, collected, mutants, verified, mentions>>

\* _score_label.
ScoreLabel(common, critical) ==
  IF common /\ critical THEN "P0" ELSE IF common \/ critical THEN "P1" ELSE "P2"

Reported(valid, common, critical) == valid /\ common

\* assess_node, route_after_assess and build_report_node.
Assess(i) ==
  /\ Move(i, "assess", "ended")
  /\ \E valid, common, critical \in BOOLEAN :
       Note(i, [review[i] EXCEPT !.score =
                  IF Reported(valid, common, critical)
                    THEN ScoreLabel(common, critical) ELSE "none"])
  /\ UNCHANGED <<stage, generation, collected, mutants, verified, mentions>>

\* _verify_one_mutant: a VerifyAgent of its own, whose result is the review.
VerifyOneMutant(i) == LlmJudge(i) \/ AnalyzerCheck(i) \/ Assess(i)

-----------------------------------------------------------------------------
(* Collecting results, grouping and reporting *)

Take(i) ==
  IF stage = "generate"
    THEN mutants' = mutants \o MutantsOf(i) /\ UNCHANGED verified
    ELSE verified' = Append(verified, i) /\ UNCHANGED mutants

\* Faulty variant: results are taken as they come.
CollectAny ==
  /\ collected < Len(at)
  /\ collected' = collected + 1
  /\ \E i \in Tasks :
       /\ at[i] = "ended"
       /\ \A k \in DOMAIN mutants : stage = "generate" => mutants[k][1] # i
       /\ \A k \in DOMAIN verified : verified[k] # i
       /\ Take(i)
  /\ UNCHANGED <<stage, generation, at, review, mentions>>

\* Faulty variant: the first error ends the loop over the results.
CollectUntilError ==
  /\ collected < Len(at)
  /\ LET i == collected + 1 IN
     \/ at[i] = "ended" /\ collected' = i /\ Take(i)
     \/ at[i] = "error" /\ collected' = Len(at) /\ UNCHANGED <<mutants, verified>>
  /\ UNCHANGED <<stage, generation, at, review, mentions>>

\* future.result() in the order of submission.  A result with an error text is
\* skipped, and so is, in the first stage, one whose mutants are empty.
Collect ==
  /\ collected < Len(at)
  /\ LET i == collected + 1 IN
     /\ collected' = i
     /\ \/ at[i] = "ended" /\ Take(i)
        \/ /\ at[i] = "error" \/ (at[i] = "silent" /\ stage = "generate")
           /\ UNCHANGED <<mutants, verified>>
  /\ UNCHANGED <<stage, generation, at, review, mentions>>

\* An error without a text passes for a verification result: reading its
\* classification raises, in the node and so in the run.
CollectRaises ==
  /\ stage = "verify" /\ collected < Len(at)
  /\ at[collected + 1] = "silent"
  /\ stage' = "failed"
  /\ UNCHANGED <<generation, at, collected, mutants, review, verified, mentions>>

\* The node returns: the next one has a task per mutant, or none.
EndGenerate ==
  /\ stage = "generate" /\ collected = Len(at)
  /\ stage' = "verify"
  /\ Submit(DOMAIN mutants)
  /\ review' = [m \in DOMAIN mutants |-> NewReview]
  /\ UNCHANGED <<generation, mutants, verified, mentions>>

EndVerify ==
  /\ stage = "verify" /\ collected = Len(at)
  /\ stage' = "group"
  /\ UNCHANGED <<generation, at, collected, mutants, review, verified, mentions>>

\* Positions in verified of the reportable mutants.
Reportable == {k \in DOMAIN verified : review[verified[k]].score # "none"}

\* What the LLM may answer about so many reportable mutants: groups of their indices,
\* of which one may be out of range, or nothing that can be parsed.
GroupAnswers(count) ==
  [parsed : {FALSE}, groups : {<<>>}] \cup
  [parsed : {TRUE}, groups : {<<>>} \cup {<<g>> : g \in Lists!BoundedSeq(0..count, MaxMentions)}
                                   \cup [1..2 -> [1..1 -> 0..count]]]

\* The groups the LLM listed, without indices out of range and then without empty ones.
ListedGroups(answer, count) ==
  LET Valid(group) == Kept(group, {e \in DOMAIN group : group[e] < count})
      valid == [g \in DOMAIN answer.groups |-> Valid(answer.groups[g])]
  IN Kept(valid, {g \in DOMAIN valid : valid[g] # <<>>})

\* _get_root_cause_groups: what is in none of them goes to a default group, and so does
\* everything when the answer cannot be parsed.
RootCauseGroups(answer, count) ==
  LET listed == ListedGroups(answer, count)
      others == (0..(count - 1)) \ {i \in 0..(count - 1) : \E g \in DOMAIN listed : i \in Lists!ToSet(listed[g])}
  IN IF others = {} THEN listed ELSE Append(listed, InOrder(others))

\* How often the reported mutant k stands in the groups of indices of reported.
Mentions(groups, reported, k) ==
  Cardinality({m \in UNION {{g} \X DOMAIN groups[g] : g \in DOMAIN groups} :
                 reported[groups[m[1]][m[2]] + 1] = k})

\* group_results_node.
Group ==
  /\ stage = "group"
  /\ stage' = "report"
  /\ LET reported == InOrder(Reportable) IN
     \E answer \in GroupAnswers(Len(reported)) :
       mentions' = [k \in Reportable |-> Mentions(RootCauseGroups(answer, Len(reported)), reported, k)]
  /\ UNCHANGED <<generation, at, collected, mutants, review, verified>>

\* The false positives or false negatives of the summary and of its text are those that
\* stand in the groups.
Reports(class) == {k \in Reportable : mentions[k] > 0 /\ review[verified[k]].class = class}

\* build_report_node.
BuildReport ==
  /\ stage = "report"
  /\ stage' = "done"
  /\ UNCHANGED <<generation, at, collected, mutants, review, verified, mentions>>

\* An exception outside the tasks ends the run without a report: in the analysis,
\* or in the grouping, whose LLM call and use of the answer are not guarded.
RunRaises ==
  /\ \/ stage = "analyze" /\ AnalysisCanRaise
     \/ stage = "group" /\ Reportable # {}
  /\ stage' = "failed"
  /\ UNCHANGED work

TaskStep(i) ==
  \/ StartTask(i) \/ TaskRaises(i)
  \/ QuerySnippets(i) \/ DirectMutation(i) \/ Synthesize(i) \/ PredicateEnds(i)
  \/ VerifyOneMutant(i)

StageStep ==
  \/ Collect \/ CollectRaises \/ EndGenerate \/ EndVerify
  \/ Group \/ BuildReport \/ RunRaises

NodeStep == AnalysisNode \/ Analyze \/ (StageStep /\ UNCHANGED <<settings, analysis>>)

Next ==
  \/ NodeStep
  \/ \E i \in Tasks : TaskStep(i) /\ UNCHANGED <<settings, analysis>>

Spec == Init /\ [][Next]_vars

\* Threads of the pool run, and calls to the LLM, GitHub and the analyzer return.
FairSpec == Spec /\ WF_vars(Next)

-----------------------------------------------------------------------------
(* Properties *)

Before(m, n) == m[1] < n[1] \/ (m[1] = n[1] /\ m[2] < n[2])

\* Whatever the order in which tasks end, mutants come in the order of
\* predicates and snippets, and verification results in the order of mutants.
OrderKept ==
  /\ \A j, k \in DOMAIN mutants : j < k => Before(mutants[j], mutants[k])
  /\ \A j, k \in DOMAIN verified : j < k => verified[j] < verified[k]

\* An error costs only the predicate or the mutant it happened for: once a stage
\* is over, whatever the other tasks made is there, in a run that has not failed.
ErrorsAreLocal ==
  /\ stage = "generate" /\ collected = Len(at) =>
       \A i \in Tasks : at[i] = "ended" =>
         \A k \in DOMAIN outcomes[i] :
           outcomes[i][k] => \E j \in DOMAIN mutants : mutants[j] = <<i, k>>
  /\ stage \in {"group", "report", "done"} =>
       \A i \in Tasks : at[i] = "ended" => \E j \in DOMAIN verified : verified[j] = i

\* Nothing is reported on the word of a tool that failed, and each report has a
\* disagreement of its direction behind it and one of the two higher scores.
ReportsFounded ==
  \A k \in Reportable :
    LET r == review[verified[k]] IN
    /\ ~r.toolError
    /\ r.class = (IF r.tool THEN "FP" ELSE "FN") /\ r.llm # r.tool
    /\ r.score \in {"P0", "P1"}

\* The false positives and false negatives of the summary are counted over the
\* groups: no reportable mutant is missing from them.
SummaryMissesNone ==
  stage \in {"report", "done"} => Reports("FP") \cup Reports("FN") = Reportable

\* "Hard constraint: process only the top N predicates (by covered-snippet
\* count)": as many as the cap allows, and none is passed over for one with less
\* code.
TopPredicates ==
  LET chosen == {predicates[i] : i \in DOMAIN predicates} IN
  /\ settings.cap > 0 => Len(predicates) <= settings.cap
  /\ \A p \in chosen, q \in DOMAIN covered \ chosen : covered[p] >= covered[q]

\* "Anything that is not a completed tool run must set runtime_error=True, otherwise the
\* case is misinterpreted as a clean pass": so no false negative is classified on the
\* silence of a tool that did not complete.
CompletedRuns ==
  \A i \in DOMAIN review : review[i].class = "FN" => review[i].completed

\* It is so for Bandit and CodeQL: only the checks of Semgrep and SpotBugs count a run
\* that failed as one without findings.
FailuresNoticed ==
  settings.tool \in {"bandit", "codeql"} => CompletedRuns

\* The run ends, however small the pool is.
Terminates == <>(stage \in {"done", "failed"})
=============================================================================
