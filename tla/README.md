# A verification of S-MRVA

S-MRVA looks for false positives and false negatives of static-analysis rules:
an LLM takes a rule apart into predicates, finds real code for each predicate on
GitHub, synthesizes mutants of the rule's test case from it, and compares what
the analyzer says of a mutant with what an LLM judge says. This directory holds
TLA+ modules of the parts of that program where order, failure and shared state
decide the result, TLC configurations that check them on small instances, and
proofs for the properties that hold for every instance.

Paths in this file are relative to the repository; `tools/` and `agents/` stand
for `src/tools/` and `src/agents/`.

## Inventory

| Part | State it keeps | Operations | What is hard about it |
|---|---|---|---|
| Code-search server (`tools/api_code_search_server.py`) | files in `/tmp`: socket, state file, one lock file per pid; accept queue, `running`, shutdown event | clean-up, claim, bind, listen, token check, accept loop, stop, signal handler | several processes start at once over the same files; crash and restart; signals at any point; a failed start must undo itself |
| Code-search client (`tools/api_code_search.py`) | startup lock file; one connection per query | probe, start a server, wait, call, fall back to a direct query | two workers start servers; the server dies during a call; a query must not be lost nor run twice at once |
| GitHub request gate (`tools/impl_code_search.py`) | cooldown deadline, request lock, time of the last request, request history per token (all per process) | pass the gate, reserve budget, take the slot, pace, send, mark a rate limit, fetch objects with retries | check-then-act over time; sleeps with and without the lock; exceptions |
| Token lock files (same file) | files named by token index and pid | claim, release, `__del__`, clean-up | two processes, two threads, double release, files of dead processes |
| Search results (same file) | the list of found items, as `run()` works on it | deduplicate, cluster, sample, cut context | indices, boundaries and order decide what survives |
| Query agent (`agents/query_agent_api.py`) | LangGraph state: queries, saved examples, seen identities, turns, rounds | generate, refine, search and evaluate, route, output | two directions that finish at different times; termination; keys the state type does not declare |
| Older search agent (`agents/query_agent_gh.py`, `tools/gh_code_search.py`) | lists of one call | query, search, embed, select, evaluate | dependence of rounds on one another; embeddings that fail |
| Pipeline agent (`agents/pipeline_agent.py`) | LangGraph state: predicates, mutants, verification results, groups | analyze, generate in parallel, verify in parallel, group, report | tasks on a bounded pool, collected in order; errors inside and outside tasks |
| Verify agent (`agents/verify_agent.py`) | state of one verification | judge, check, compare, assess, report | a tool that failed must not found a report |
| Analysis agent (`agents/analysis_agent.py`) | logic tree, predicate mapping, seed | choose seed, map predicates, split and merge nodes | tree surgery driven by an LLM |
| Synthesis agents (`agents/synthesis_agent*.py`) | state of one call | one LLM call and the parsing of its answer | answers that look like code and are not |
| Analyzers (`src/analyzers/`) | none | one tool run | a tool that failed taken for a tool that found nothing |
| Batch workers (`start_*.sh`) | the worker's index, output directories | one pipeline process after another | processes that die; workers outlive the script, which may be started again beside them |
| Cost tracker (`agents/cost_tracker.py`) | counters of a process | callbacks of LLM calls | updates from several threads |
| Model, prompts, tracing, rule data, reports | none | | |

How they interact: a batch worker runs one pipeline process per rule. The
pipeline's tasks call the query agent, the query agent calls the client, the
client calls the server over the socket or runs the search in its own process;
both end in the request gate. Processes share only files and the socket,
threads of a process share the gate's globals. The pipeline's tasks share
nothing but the pool and the LLM object with its cost tracker.

What makes each part correct: the *server* never loses its own lock, leaves no
files behind and stops when told; the *client* returns, with each query run by
one party at a time; the *gate* sends one search at a time, paced, within budget
and outside cooldowns; the *query agent* ends, does not evaluate twice and does
not exceed its target by much; the *pipeline* ends, keeps order, loses only what
failed, and reports only what is founded.

## Modules

| Module | Models | Composes |
|---|---|---|
| `CodeSearchServer` | server processes over the shared files and sockets | |
| `CodeSearchClient` | worker processes as clients, faults, and the system of both | `CodeSearchServer` |
| `CodeSearchProofs` | theorems about the system of both | `CodeSearchClient` |
| `PacedSlot` | what the request slot promises (abstract) | |
| `GithubGate` | threads and processes at the request gate; implements `PacedSlot` | `PacedSlot` |
| `GithubGateProofs` | theorems about it, with the counting argument for the request budget | `GithubGate` |
| `AgentUtils` | what `parse_json` and `strip_code_fence` make of an answer | |
| `QueryAgent` | one call of `find_code_snippets` | `AgentUtils` |
| `QueryAgentGH` | one call of the older agent's, with the `gh` search | `AgentUtils`, `Subsequences` |
| `SearchResults` | what the search tool makes of the items it found | `Subsequences` |
| `SearchResultsProofs` | theorems about it | `SearchResults`, `SubsequencesProofs` |
| `QueryAgents` | either agent, or the search tool | the three above |
| `QueryAgentsProofs` | theorems about the agents | `QueryAgents`, `SearchResultsProofs` |
| `Subsequences` | list comprehensions and sorting (operators) | |
| `SubsequencesProofs` | what they compute, for every list; loops | `Subsequences` |
| `LogicTree` | trees of predicates, split and merge (operators) | `Subsequences` |
| `LogicTreeProofs` | a tree stays a tree, and what an operation keeps of it | `LogicTree`, `SubsequencesProofs` |
| `Analyzers` | how a tool run ends and what is made of it (operators) | |
| `Synthesis` | what an answer of the synthesis models becomes (operators) | `AgentUtils` |
| `AnalysisAgent` | the graph of the analysis | `LogicTree`, `Analyzers` |
| `Pipeline` | one `PipelineAgent.run`, with the verify agent in its tasks | `AnalysisAgent`, `Synthesis` |
| `PipelineProofs` | theorems about it | `Pipeline`, `LogicTreeProofs` |
| `TokenLock` | searchers and their lock files | |
| `CostTracker` | callbacks of LLM calls in threads | |
| `BatchWorkers` | workers, pipeline processes, crashes, starts of the script | `TokenLock`, `CostTracker` |
| `BatchProofs` | theorems about it | `BatchWorkers`, `SubsequencesProofs` |
| `MC*` | values of the constants for TLC | |

**CodeSearchServer.** A process is named by its pid, which may be used again.
`socketPath` is the process whose inode stands at `SOCKET_PATH`, `statePath` the
pid in the state file, `lockFiles` the pids with a lock file. `spc` follows
`start()`, `serve()` and `stop()`; one step is one access to a shared file or one
transition of a connection, so any other process may run between two of them.
Sockets behave as the kernel's: `bind()` needs an absent path, a listening socket
outlives the removal of its path, closing it drops the queue, and a `connect()`
with a timeout is refused when the queue is full. `TypeOK` also says that a server
holds an accepted connection exactly while it handles it. `LeaveProbe` is the connection
a probe opens and closes. `Signal` sets the two flags; `Crash` leaves the files.

**CodeSearchClient.** `cpc` follows `_query_via_mode`, `init_server`,
`_spawn_server_process` and `_call_server`. `ServerIsReady` is the double probe of
`_server_is_ready` as up to two steps (`failedProbe` is the memory of the first).
The 30 seconds of `_wait_for_server_ready` may end at any moment.

**GithubGate.** Time is discrete and relative; `Tick` lets one unit pass whatever
the threads do, so every step may also come late. `pc` follows `search_code` and
`_fetch_object_url_content`. `overtaken` and `fired` are history variables: a
cooldown was set after the thread looked at the gate, and the requests really
sent in the last window. A search reserves budget and then waits for the slot and the
pacing; an object fetch and its download reserve (`ReserveFetch`, `ReserveDownload`)
and send (`FetchObject`, `Download`) in two steps, as nothing is locked between the
two statements: each may leave late. An exception of either request has its object
fetched again while a try is left (`Retry`). Sleeps a step does not need (0.2 s between pages) are
left to `Tick`. A process has its own copy of the globals.

`HandleRateLimit` classifies an answer as the code does; a search whose last try
is limited sleeps as well before it gives up. `ImplementsPacedSlot` maps the
holder of the request lock, the age of the last request and the requests in
flight to the variables of `PacedSlot`, in which waiting is no step at all.

**QueryAgent.** One LangGraph node is one step, as its updates are applied in one
piece. A list of queries is only empty or not, results are identities, saved
examples a number. `LlmAnswers` are the shapes an answer may have, and
`ParseJson` what the code makes of each. `StateGet` is what LangGraph does with a
key the state type does not declare: the value is dropped and reading yields the
default.

**QueryAgentGH.** The loop over directions and rounds; `GhCodeSearch` is the tool's
normalisation and the choice of representatives, with the two embedding models
either working or not. k-means is any choice of one representative per cluster.

**SearchResults.** A page is sequences of repository, url and score and a symmetric
similarity; `phase` follows `run()`. A cluster is named by its founder: an item
joins the cluster of the item closest to it among those before, the first such
cluster if there are several, or founds one (`Founder`). Two clusterings follow
one another, each with embeddings or without. `Chunks` cuts the context of text
matches: each occurrence is anchored in a line or not, gets a window, and windows
are merged by `MergeLineWindows`. The loops of the code are recursive functions
over the items done so far, and its sorts are `Arranged`.

**LogicTree, AnalysisAgent.** A tree is the sequence of its nodes in the order in
which the code walks them, each with depth, name and codes; children are the run
of deeper nodes that follows. `Split` and `Merge` do what
`_apply_split_operation` and `_apply_merge_operation` do with the first node of a
name, with indices computed before the deletions as in the code. `DynamicAnalysis`
is both passes over the test cases; a tool may end differently the second time.

**Analyzers, Synthesis.** An outcome is `issue`, `runtimeError` and the model's own
`completed`: the tool did its job. `BanditOutcomes` and so on are the outcomes of
every way a run may end, translated from the runner and the class around it.

**Pipeline.** `at` is the control state of each task, `StartTask` a thread of the
pool taking the oldest task. A mutant is the pair of its predicate and snippet.
`Collect` takes results in the order of submission. `TaskRaises` ends a task with
an error that has a text or none: one without a text is skipped while generating,
and taken for a result while verifying, where reading it fails the run
(`CollectRaises`). `RootCauseGroups` is the repair of the LLM's grouping.

**BatchWorkers.** A worker, `<<n, k>>` for the k-th of the n-th start of the script,
has one process at a time; a thread of it has a program of LLM calls and searches,
each in the steps of `CostTracker` or `TokenLock`. `Choose` finds no directory for
the rule; the process makes it at its end only (`MakeDirectory`) and then writes its
two files, each over what is there; `summaryOf` and `reportOf` are who wrote them
last. `plan` is what the threads of the processes have to do in the batch considered,
with bounds for starts and deaths. `ProcessDies` is an exception or a kill and leaves directory and lock files.
Workers are background jobs and the script traps nothing: it may be started again
beside those of earlier starts (`StartBeside`) or after their end (`StartAlone`). The
counters `passed` and `failed` are those of the newest start. History variables are
`robbed` (another searcher has removed the file of this one) and `doubled` (the rule
has been under way in two starts at once).

## Runs

Each property has a faulty variant of a definition it depends on, beside that
definition in the module (`\* Faulty variant`), under which TLC finds the property
violated.

| Run | Bounds | Shows |
|---|---|---|
| `code_search` | 2 pids, 2 clients in mode auto, 1 signal or crash, 2 server starts, accept queue of 1 | `OwnsLockFile`, `ExitedLeavesNothing`, `StartupExclusive`, `NoDoubleExecution`, `ConnectionAtOnePlace` |
| `code_search_liveness` | 1 pid started twice, a client in mode auto and one in mode server, 1 fault; fair | `QueryReturns`, `ShutdownHonoured` |
| `single_instance` | as `code_search`, no fault | two servers in `serve()` |
| `no_competing_spawn` | as `code_search`, no fault, servers started by clients only | a server started beside a live one |
| `github_gate` | 2 threads of 1 process, 1 token, interval 2, 2 requests per 2 units, waits 1 (named) and 2 (fallback), 2 pages, 2 tries; fair | `OneSearchInFlight`, `BudgetBound`, `ImplementsPacedSlot`, `OnlyOvertakenFireInCooldown`, `SlotReturned` |
| `one_in_flight` | 2 processes with a thread each | two requests in flight |
| `cooldown` | 2 threads of 1 process | a search sent during a cooldown |
| `query_agent` | 2 directions, 2 results, target 2, 3 rounds, 2 turns; older agent with 3 items, target 2, 2 rounds; all pages of 4 distinct and of 3 mixed items, files of 4 lines, context 0 and 1; fair | `OfferedOnce`, `OvershootBounded`, `GhSavesDistinct`, `Represented`, `ContextComplete`, `AgentTerminates` |
| `skip_refine` | the documented defaults: skip set, no extra turns | a refinement nevertheless |
| `pipeline` | 4 trees, up to 2 of 11 operations, up to 3 tests, 4 settings, each with another analyzer; 2 threads, 2 snippets; fair | `RefineKeepsCode`, `OthersUntouched`, `ReportOfSeed`, `OrderKept`, `ErrorsAreLocal`, `ReportsFounded`, `FailuresNoticed`, `SummaryMissesNone`, `TopPredicates`, `Terminates` |
| `completed_runs` | as `pipeline`, smaller | a false negative classified on the silence of a tool that failed |
| `batch` | 2 workers a start, 3 rules, 2 pids, 1 token, 2 attempts, 1 file that cannot be written; 1 start with a crash and up to 2 threads a process, or 2 starts with searches, or 2 starts with a crash; fair | `OneRunOnDisk`, `NoneForgotten`, `UserHasFile`, `ExclusiveInProcess`, `CostsCounted`, `BatchEnds` |

Why the bounds are enough. Two servers and two clients are where every race of
this code needs its actors: one process between two accesses, another crossing
it; the pids are reused, so a third server in a row is covered. A queue of one is
full with one waiting connection, as 128 is with 128. Window, interval and waits
are small, and a sleep may be shorter than, as long as or longer than each;
`BudgetBound` is reached with equality, when a fetch of one thread and a request of
the other leave late. Two
results let a round repeat one and add another; three rounds let a direction
overshoot twice. Four items are the fewest in which a cluster's founder, a member
taken by an earlier cluster and a bystander meet; all similarities up to both
thresholds are tried. A file of four lines with windows of one line has windows
apart, touching, overlapping and cut at either end. Trees have a predicate alone,
a predicate under a predicate, a name that stands twice, and more predicates than
the bound of the early exit; the operations include targets that are absent,
repeated, nested or unnamed, and codes that are inherited, given or empty. Three
predicates, a cap of two and two threads make tasks wait, overtake each other and
be cut. Three rules and two workers give a worker two rules, and two threads of one process
contend for one token while the other process creates the same token's file under
its own pid. A second start is where a rule can be under way twice. Two pids let two
processes of any starts be alive at once, which is all it takes to write over each
other or to clean up beside a search, and make pids be used again; a worker that finds
none free waits for one. `MaxFaults`, `MaxStarts`, `MaxSpawns`, `MaxFound`,
`MaxMentions`, `MaxTests`, `MaxOps`, `MaxOrphans` and the two numbers of a batch's
plan are bounds of the models, and so are `LastLine`, `Pages`, `Contexts` and the sets of trees, matches
and operations; the other constants are the program's own parameters.

Deadlock is checked for the code-search system and the gate, which never stop,
and for the batch, whose end is a step of its own. It is not checked for the
agents and `Pipeline`, whose runs end.

**Fairness.** The scheduler runs each live server and each client with a query
under way (`WF` per process); nothing is assumed of signals, crashes, new servers
or new queries. That a client's request is sent once it is connected is part of
this: the program does so at once. In the gate, time passes and each thread takes
its enabled steps; the lock needs no strong fairness, for `SlotReturned` speaks of
its release only. In the agents and the pipeline, calls to the LLM, to GitHub and
to the analyzer return. The batch has weak fairness per worker and per thread,
none for `ProcessDies`, `StartBeside` and `StartAlone`; claiming a token needs no more,
for it gives up after `max_attempts`.
That the analyzer returns is an assumption for Bandit and Semgrep, which are run
without a timeout.

## Where code and words differ

The six runs that expect a violation each take a sentence of the repository as a
property; `PROJECT.json` quotes it.

1. `SingleInstance`. The lock file's name holds the pid, so the lock excludes
   nobody; `bind()` does. Between `bind()` and `listen()` of one server the clean-up
   of another finds a socket nobody listens on, removes it, and both serve. A server
   that loses `bind()` also removes the winner's socket and state file in `stop()`.
2. `NoCompetingSpawn`. The startup lock is removed right after `Popen`.
3. `OneInFlight`. The request lock belongs to a process, and object fetches do not
   take it.
4. `CooldownHonoured`. The gate is read before the waits for budget and slot.
5. `SkipsRefinement`. `skip_refine_pipeline` is not a key of `QueryAgentState`.

6. `CompletedRuns`. Semgrep's exit code is not looked at, and a SpotBugs report that
   is missing or cannot be read is one without findings.

Beside each of them stands what does hold: `NoDoubleExecution` and
`ConnectionAtOnePlace` with two servers about, `OneSearchInFlight` within a
process, `OnlyOvertakenFireInCooldown` as the exact extent of the gap, and
`FailuresNoticed` for the analyzers that do tell.

What else was met while modelling, and is in the modules as the code does it:

- `sample_results` promises the top `target_count` by score; the parameter is not
  used, and up to 96 are kept.
- Near duplicates can remain after both clustering passes: an item is compared
  with founders, and the kept one is the best scored.
- A text match none of whose occurrences is located loses its fragment when
  another text match of the item is located (`Fallbacks`).
- A 403 answer with `Retry-After` and without the header of the reset time is no
  rate limit to `_handle_rate_limit`.
- A merge that names one target twice deletes a neighbour; `OthersUntouched` is
  therefore stated for operations whose targets are distinct (`Simple`).
- `strip_code_fence` takes two fenced blocks one after the other for one.
- A worker's exit status is always 0; failures show only in its counters.
- The early exit on too many predicates is not read when refinement is disabled.
- The report under the seed's name can be another test's (`ReportOfSeed`).
- A second start of the script beside workers of the first can run a rule that is
  under way once more, as the directory is made at the end; the summary and the
  report may then be of different processes (`OneRunOnDisk`, `doubled`).
- The second release of a token can take the file of another thread
  (`ExclusiveInProcess`, `robbed`).

## Proofs

The theorems hold for any number of servers, clients, threads, workers, rules,
pages, results, rounds, tests and time units, and for any value of the models'
bounds; they assume only the named assumptions of the modules: names are
distinct, parameters are naturals, threads have a process, and what the LLM or
the environment gives has the shape the code relies on (`AnalysisAssumption`: a
rule's tree is a tree without matched code, and where the code iterates over a
list it is given one). They are about `Spec` (`AgentsSpec` for the agents), which
has no fairness; `FairSpec` implies it. TLC checked each invariant, on the instance
of its run, before it was proved, and each proof has one step per action.

**CodeSearchProofs.** `FilesInv` says of every server where in its program it may
stand when the socket path, the state file or its lock file is its own:
"its state file exists" implies "it has still to pass `RemoveState`", and so on.
`ExitedLeavesNothing` alone is not inductive, since a server at the last step of
`stop()` could still own a socket path; `OwnsLockFile` is part of the induction
because a clean-up must see the owner alive. `FilesInductive` is the induction;
`LockFileKept` and `NothingLeft` follow. `LockInv` is `StartupExclusive` with the type of
the client's control state, and `StartupLockExcludes` its theorem: the file may be
left behind, which is harmless for exclusion.

`ConnectionsInv` ties the two ends of a connection together. Of a server: it is
serving someone exactly at `recv` and `github`, a queue has connections in it only
while the socket is open, nobody stands in it twice, and whoever is served no longer
waits. Of a client: its connection is open exactly while some server holds it, that
server is the only one, and which states of the connection go with which step of
`_call_server`. `NoDoubleExecution` needs all of it: a client is at `direct` with no
connection, so no server holds one of it, so none can be at `github` for it. The
queue is a sequence; the proof works with the set of clients in it and keeps "nobody
twice" through an arrival, an `accept()` and a client that disappears.

**GithubGateProofs.** `TypeCorrect` is typing. `IInv` adds three parts: `SlotHeld`
(a thread between acquiring and releasing holds the slot of its process, so
there is one), `PaceKept` (during the pacing sleep of the holder, the age of the
last request plus the rest of the sleep reaches the interval: needed because the
delay is computed before the sleep), `GateKept` (for a thread past the gate that
no cooldown overtook, the cooldown is over when its sleep is). From `Inductive`
follow `SlotExcludes` and `CooldownOvertakes`. `SlotImplemented` is the refinement:
`HoldersAct` strengthens the invariant by what a thread does while it holds a
slot, without which a release could end a request that is not under way;
`StepKinds` sorts the steps of the gate into those of the slot and the rest, and
`StepSimulation` maps each to its abstract step or to none, with `FiresOnTime`
for the interval.

The budget: the code counts a request when it reserves it, and the request may
leave any time later, a fetch or a download as well as a search. `SentReserved` is
what survives the delay: for every age below the window, the requests sent within that age and the threads
with a reservation yet to use are no more than the reservations made within that
age and the threads that share the budget. It must hold for every age, for a unit of
time moves each to the next. `ReservedBound` says that no window has more
than `Limit` reservations, and `Queue` that a log has its oldest request first, so
that dropping a prefix drops just the old ones. `BudgetHolds` is the two for the
whole window.

**BatchProofs.** `Share(w)` are the rules `w + k * NumWorkers`. The shares of two
workers are disjoint, and every rule is in one, by the least number argument
(`LeastNumber` of `SubsequencesProofs`), as the induction rules of the library are
out of reach. `WorkersInv` keeps each worker's index
in its share and a process beside a waiting worker only. `ArtifactsInv` follows a
rule's directory, summary and report, and says of each rule left behind by a worker of
the newest start what became of it, which makes `NoneLost`. `DiskInv` makes `OneRun`:
two workers with a rule under way are of different starts, as shares of one start are
disjoint, so the rule is in `doubled`; for any other rule no file appears while its
worker is at work, and the summary is its own until it has written the report.
`OneRunOnDisk` alone is not inductive, for it says nothing of a rule with a summary
and no report. `LockInv` is the properties of the lock files (a name stands for one
file, as `O_EXCL` has it) with what a claiming searcher still has left; that a clean-up
spares users follows as their pid is alive. `CostsInv`: a thread's remaining tasks are a suffix of its program
(`Suffix`), calls ended and open are those counted and started (`Balance`), and a sum
that was loaded before another call was added is never beyond the calls counted
(`Times`).

**QueryAgentsProofs.** For the query agent, `SavedInv` bounds what is saved by the
number of rounds whose search is over, which is one less than `round` between its
increment and the search; without that the bound is not inductive. `OfferedInv`
adds to `OfferedOnce` that what was offered is in `seenIds`. For the older agent,
`GhAtHand` says that the results at hand are distinct, seen and not judged yet,
`GhAhead` that a later direction is untouched, and `GhNonePassed` that short of the
target everything seen was judged or is at hand: so nothing is passed over. That
normalisation and the choice of representatives repeat nothing rests on
`Subsequences`. `SearchesInductive` adds the invariant of the search tool, which
stands beside either agent; with it `AgentsTypeCorrect`, `SearchDropsNothingUnseen`
and `ContextIsComplete` are the runs' properties for every value of the constants.

**SubsequencesProofs.** `InOrder` and `Kept` are list comprehensions defined by
counting instead of by recursion or sorting, so that facts about them are facts
about cardinalities: `InOrderLists` and `KeptEntries` say that they list what was
chosen, all of it, each place once and in order. `Arranged` is sorting in the same
way, and `ArrangedLists` says that it lists every element in the order given. What
replaces induction is the least number argument (`UpTo`, `AllUpTo`): a set that has
0, and each number whose predecessor it has, has them all. With it, `Loop` gives a
loop over n items, as a recursive function, its value after each item.

**SearchResultsProofs.** `SearchInductive` is about any page, with any scores and
similarities. Deduplication: after n items those kept are covered and apart
(`DedupedFacts`). Near duplicates: a cluster is linked to its founder because each
member joined by a close item of the same cluster (`FounderLinked`); `Linked` says so
by cuts, which makes a chain of chains a chain (`LinksChain`) and needs no paths. So
the best of a cluster stands for all of it, within the items that are left and
then, since those are linked in turn, for all that the deduplication left. Sampling
sorts and cuts: what falls to the cap is no better than any of the kept
(`SampleFacts`). `Represented` speaks of two phases only; the invariant needs
`Stands` for the phase between them. Context: after n windows, in the order of their
first lines, the merged ones hold the lines of those n and no others, are apart, and
the last of them begins no later than the windows to come (`MergeFacts`); the last
part is what makes it inductive. `PagesAssumption` says of the model's pages what
the code relies on: scores and similarities are numbers, and an occurrence is found
at one line of the file or not at all.

**LogicTreeProofs.** `ApplyKeepsTree`: whatever operation the LLM asks for, the result
is a tree again. A split puts nodes of the right depth in place of a subtree
(`ReplaceFacts`); a merge prunes whole subtrees (`PrunedIsTree`: the node after a
pruned subtree is no deeper than its root, so depths still rise by one at most).
What an operation keeps is proved where its targets are leaves, each named once;
with a target named twice or with children it is false of the code. A split
(`SplitExpands`, `SplitKeeps`) leaves the nodes around the target where they are or
moves them by as many places as children are put in. A merge (`MergeKeeps`) deletes
children by index from the last place to the second: a deletion leaves the children
before it in place, so the indices computed before the loop are still right, and just
the children at them go (`RemovedFacts`, the invariant of that loop). That they are
targets, and not the one that becomes the merged node, is `DeletedFacts`.

**PipelineProofs.** `PipelineInv` has a part for each stage, and the properties are
among its conjuncts or follow. `AnalysisInv`: type, tree and report of the analysis.
`ChoiceInv`: the predicates chosen, with `TopPredicates` from an argument about ranks
(`RankFacts`, `ChosenAreBest`: the rank by code and position is a bijection, so those
of rank up to the cap are at least as good as the rest). `PoolInv`: the tasks of a
stage, and that those whose result was taken are over. `SynthesisInv`: nothing is
made for a predicate before its snippets are there. `MutantsInv` and `VerifiedInv`:
what was collected so far is in order, comes from tasks already collected, and
leaves none of them out; this is `OrderKept` and `ErrorsAreLocal` for a stage under
way. `ReviewInv`: what a review may hold at each step of its task, and that a
class other than none has a run without error and a disagreement behind it.
`SummaryInv`: every reportable mutant is mentioned (`GroupsCover`: an index stands in
a listed group or in the default one). `OthersStay` and `CodeIsKept` are the action
properties of the refinement, `OthersUntouched` and `RefineKeepsCode`: the tree is a
tree in every state (`PipelineTyped`), and a step is one operation (`SimpleKeeps`).

**Only model-checked.** The liveness properties, `QueryReturns`, `ShutdownHonoured`,
`SlotReturned`, `AgentTerminates`, `Terminates` and `BatchEnds`: they rest on fairness,
and with it on `ENABLED`, which the prover does not handle. Every other property of a
passing run has a theorem. The six properties of the runs that expect a violation
have none, being false.

## Not modelled

Token rotation in the server and the bytes of the socket protocol (a length and a
JSON text; a message arrives whole or the connection ends). Prompts, tracing,
configuration, prices, the text of reports; loading of rules and test cases.
`_fetch_file_content`, which has no caller. Similarities and scores are numbers of
a small range, not computed from text. The `.py` files under `dataset/` are test
cases of rules, not program; data sets, reports and examples are inputs and
results. The start scripts of the other analyzers are copies of
`start_semgrep.sh`.

Assumptions the models make of what is outside: no pid is reused between a
clean-up's check and its removal in `TokenLock`, which handles all files in one step;
jobs of an earlier start end all together or go on, and no worker's shell is killed by
itself; every start finds the same rules; a statement that adds a value at hand to an attribute is not divided
in CPython; sleeps a step does not need are no steps.

## Plan

Done, in this order: the server and its clients (what everything else goes
through), the gate, the query agent, the pipeline with the verify agent; then the
analysis agent with its trees, analyzers and synthesis inside the pipeline, the
batch with token locks and costs, the older agent and the search tool, and the
refinement of the gate.

The proofs came in the order of the modules: types and the properties of the server
and the gate, then the batch, the agents and the pipeline, last those that need an
invariant of a loop: the search tool's clusters and windows, and what a merge of the
logic tree deletes. No safety property of a passing run is left without a theorem.
What would be worth stating next are the five hazards no property covers
(`PROJECT.json` says why each has none).
