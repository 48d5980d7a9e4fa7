---------------------------- MODULE BatchWorkers ----------------------------
(***************************************************************************)
(* A batch over the rules of a dataset (src/start_semgrep.sh and its four  *)
(* copies): background workers that run one pipeline process after         *)
(* another, and the process itself as far as it touches what it shares:    *)
(* its threads' LLM calls and searches with the cost tracker and the token *)
(* locks, and the output directory, which tells a later start of the       *)
(* script that the rule is done.                                           *)
(*                                                                         *)
(* The script may be started again on the same output, with or without an  *)
(* end of what an earlier start left running: its workers are background   *)
(* jobs, it traps no signal, and they outlive it.  Worker <<n, k>> is the  *)
(* k-th of the n-th start, and has the process slot of that name.          *)
(***************************************************************************)
EXTENDS TokenLock, Sequences

CONSTANTS
  Rules,        \* number of rules, in the order of the directory
  NumWorkers,
  MaxStarts,    \* bound: times the script is started, at most
  Plans         \* the batches considered: what the threads of the processes have to
                \* do, LLM calls and searches, and as bounds how often the script is
                \* started and how many processes die while their worker goes on

ASSUME BatchAssumption ==
  /\ Rules \in Nat /\ NumWorkers \in Nat \ {0}
  /\ MaxStarts \in Nat \ {0}
  /\ Slots = (1..MaxStarts) \X (0..(NumWorkers - 1))
  /\ Plans \subseteq [program : [Threads -> Seq({"llm", "search"})],
                      starts : 1..MaxStarts, crashes : Nat]

VARIABLES
  plan,       \* the batch considered; it does not change
  worker,     \* control state of each background worker
  index,      \* idx of its loop, from 0
  phase,      \* what the process in the slot does
  todo,       \* what is left of its threads' programs
  dirs,       \* rules with an output directory
  summaryOf,  \* whose process wrote each rule's summary file last
  reportOf,   \* and its report file
  starts,     \* times the script has been started: the newest start
  passed,     \* rules counted in worker_passed by the workers of the newest start
  failed,     \* and in worker_failed
  doubled,    \* history: rules that two starts have had under way at once
  crashes,
  call, loaded, started, numCalls, totalTime

INSTANCE CostTracker WITH Processes <- Slots

tracker == <<call, loaded, started, numCalls, totalTime>>
artifacts == <<dirs, summaryOf, reportOf>>
script == <<plan, starts, passed, failed>>
history == <<doubled, crashes>>
loop == <<worker, index>>
vars == <<pid, locks, tracker, loop, phase, todo, artifacts, script, history>>

WorkerStates == {"none", "next", "start", "wait", "completed"}
Phases == {"none", "work", "summary", "report"}
AllRules == 0..(Rules - 1)
Rule(w) == index[w]
Program == plan.program

\* No process has written the file.
NoRun == <<0, 0>>
summaries == {r \in AllRules : summaryOf[r] # NoRun}
reports == {r \in AllRules : reportOf[r] # NoRun}

\* The workers of the n-th start.
Team(n) == {w \in Slots : w[1] = n}

Init ==
  /\ LockInit /\ TrackerInit
  /\ plan \in Plans
  /\ worker = [w \in Slots |-> IF w \in Team(1) THEN "next" ELSE "none"]
  /\ index = [w \in Slots |-> w[2]]
  /\ phase = [w \in Slots |-> "none"] /\ todo = [t \in Threads |-> <<>>]
  /\ dirs = {}
  /\ summaryOf = [r \in AllRules |-> NoRun] /\ reportOf = [r \in AllRules |-> NoRun]
  /\ starts = 1 /\ passed = {} /\ failed = {}
  /\ doubled = {} /\ crashes = 0

-----------------------------------------------------------------------------
(* process_worker; the staggered start is the scheduler's choice *)

\* Faulty variant: the workers after the first start one rule late.
Stride(w) == index' = [index EXCEPT ![w] = IF @ = w[2] THEN @ + NumWorkers + 1 ELSE @ + NumWorkers]

\* Faulty variant: the next rule, as if the worker were alone.
AdvanceByOne(w) == index' = [index EXCEPT ![w] = @ + 1]

\* idx += NUM_WORKERS.
Advance(w) == index' = [index EXCEPT ![w] = @ + NumWorkers]

\* The output directory exists: the rule is skipped.
Skip(w) ==
  /\ worker[w] = "next" /\ Rule(w) < Rules
  /\ Rule(w) \in dirs
  /\ Advance(w)
  /\ UNCHANGED <<pid, locks, tracker, worker, phase, todo, artifacts, script, history>>

\* Workers of other starts that have the rule of w under way.
Rivals(w) ==
  {v \in Slots : v[1] # w[1] /\ worker[v] \in {"start", "wait"} /\ Rule(v) = Rule(w)}

\* There is no output directory: the worker is going to run the rule.
Choose(w) ==
  /\ worker[w] = "next" /\ Rule(w) < Rules
  /\ Rule(w) \notin dirs
  /\ worker' = [worker EXCEPT ![w] = "start"]
  /\ doubled' = IF Rivals(w) = {} THEN doubled ELSE doubled \cup {Rule(w)}
  /\ UNCHANGED <<pid, locks, tracker, index, phase, todo, artifacts, script, crashes>>

\* pipeline_agent.py is started, with a pid that no live process has.
StartProcess(w) ==
  /\ worker[w] = "start"
  /\ \E p \in Pids \ Alive : pid' = [pid EXCEPT ![w] = p]
  /\ worker' = [worker EXCEPT ![w] = "wait"]
  /\ phase' = [phase EXCEPT ![w] = "work"]
  /\ todo' = [t \in Threads |-> IF t[1] = w THEN Program[t] ELSE todo[t]]
  /\ UNCHANGED <<locks, tracker, index, artifacts, script, history>>

Complete(w) ==
  /\ worker[w] = "next" /\ Rule(w) >= Rules
  /\ worker' = [worker EXCEPT ![w] = "completed"]
  /\ UNCHANGED <<pid, locks, tracker, index, phase, todo, artifacts, script, history>>

\* The process is gone: its exit status counts the rule as passed or failed, in its
\* own worker's counters, and the worker goes on.
Exit(w, ok) ==
  /\ pid' = [pid EXCEPT ![w] = NoPid]
  /\ phase' = [phase EXCEPT ![w] = "none"]
  /\ todo' = [t \in Threads |-> IF t[1] = w THEN <<>> ELSE todo[t]]
  /\ ForgetSearches(w) /\ ForgetCalls(w)
  /\ worker' = [worker EXCEPT ![w] = "next"]
  /\ Advance(w)
  /\ passed' = IF ok /\ w[1] = starts THEN passed \cup {Rule(w)} ELSE passed
  /\ failed' = IF ~ok /\ w[1] = starts THEN failed \cup {Rule(w)} ELSE failed
  /\ UNCHANGED <<plan, starts>>

-----------------------------------------------------------------------------
(* The process: threads that ask the LLM and search, then cli() writes *)

Begins(t, task) == todo[t] # <<>> /\ Head(todo[t]) = task
Ended(t) == todo' = [todo EXCEPT ![t] = Tail(@)]

LlmStep(t) ==
  /\ Begins(t, "llm")
  /\ \/ (OnLlmStart(t) \/ LoadTime(t)) /\ UNCHANGED todo
     \/ (OnLlmError(t) \/ StoreTime(t)) /\ Ended(t)
  /\ UNCHANGED <<pid, locks, loop, phase, artifacts, script, history>>

PoolSearch(t) ==
  /\ Begins(t, "search")
  /\ SearchStep(t)
  /\ IF search'[t] = "none" THEN Ended(t) ELSE UNCHANGED todo
  /\ UNCHANGED <<pid, tracker, loop, phase, artifacts, script, history>>

\* agent.run() has returned: mkdir, which a directory that is there does not disturb,
\* then the two files, each over what is there.
MakeDirectory(w) ==
  /\ phase[w] = "work"
  /\ \A t \in Threads : t[1] = w => todo[t] = <<>>
  /\ phase' = [phase EXCEPT ![w] = "summary"]
  /\ dirs' = dirs \cup {Rule(w)}
  /\ UNCHANGED <<pid, locks, tracker, loop, todo, summaryOf, reportOf, script, history>>

WriteSummary(w) ==
  /\ phase[w] = "summary"
  /\ phase' = [phase EXCEPT ![w] = "report"]
  /\ summaryOf' = [summaryOf EXCEPT ![Rule(w)] = w]
  /\ UNCHANGED <<pid, locks, tracker, loop, todo, dirs, reportOf, script, history>>

\* The last step of a process that ends well.
WriteReport(w) ==
  /\ phase[w] = "report"
  /\ reportOf' = [reportOf EXCEPT ![Rule(w)] = w]
  /\ Exit(w, TRUE)
  /\ UNCHANGED <<dirs, summaryOf, history>>

\* An exception or a kill, at any point.
ProcessDies(w) ==
  /\ phase[w] # "none" /\ crashes < plan.crashes
  /\ crashes' = crashes + 1
  /\ Exit(w, FALSE)
  /\ UNCHANGED <<artifacts, doubled>>

\* A start of the script: new workers, new counters, and the disk as it is.
Begin ==
  /\ starts < plan.starts
  /\ starts' = starts + 1
  /\ passed' = {} /\ failed' = {}
  /\ UNCHANGED <<plan, lockFiles, index, artifacts, history>>

\* Only the script itself has been stopped, or nothing has: the jobs of the earlier
\* starts go on beside the new ones.
StartBeside ==
  /\ Begin
  /\ worker' = [w \in Slots |-> IF w \in Team(starts') THEN "next" ELSE worker[w]]
  /\ UNCHANGED <<pid, search, token, attempt, robbed, tracker, phase, todo>>

\* The jobs have been ended with it: a hang-up, or the container was stopped.
StartAlone ==
  /\ Begin
  /\ worker' = [w \in Slots |-> IF w \in Team(starts') THEN "next" ELSE "none"]
  /\ pid' = [s \in Slots |-> NoPid]
  /\ search' = [t \in Threads |-> "none"] /\ token' = [t \in Threads |-> 0]
  /\ attempt' = [t \in Threads |-> 0] /\ robbed' = {}
  /\ call' = [t \in Threads |-> "none"] /\ loaded' = [t \in Threads |-> 0]
  /\ started' = [s \in Slots |-> 0] /\ numCalls' = [s \in Slots |-> 0]
  /\ totalTime' = [s \in Slots |-> 0]
  /\ phase' = [w \in Slots |-> "none"] /\ todo' = [t \in Threads |-> <<>>]

\* The newest script has waited for all its workers.
Finished == \A w \in Team(starts) : worker[w] = "completed"
Done == Finished /\ UNCHANGED vars

WorkerStep(w) ==
  \/ Skip(w) \/ Choose(w) \/ StartProcess(w) \/ Complete(w)
  \/ MakeDirectory(w) \/ WriteSummary(w) \/ WriteReport(w)

Next ==
  \/ \E w \in Slots : WorkerStep(w) \/ ProcessDies(w)
  \/ \E t \in Threads : LlmStep(t) \/ PoolSearch(t)
  \/ StartBeside \/ StartAlone
  \/ Done

Spec == Init /\ [][Next]_vars

\* The system schedules every worker and thread, and calls to the LLM and to GitHub
\* return.  Nothing has to die or to be started again.
FairSpec ==
  /\ Spec
  /\ \A w \in Slots : WF_vars(WorkerStep(w))
  /\ \A t \in Threads : WF_vars(LlmStep(t)) /\ WF_vars(PoolSearch(t))

-----------------------------------------------------------------------------
(* Properties *)

TypeOK ==
  /\ LockTypeOK
  /\ plan \in Plans
  /\ call \in [Threads -> {"none", "open", "loaded"}]
  /\ loaded \in [Threads -> Nat]
  /\ started \in [Slots -> Nat] /\ numCalls \in [Slots -> Nat]
  /\ totalTime \in [Slots -> Nat]
  /\ worker \in [Slots -> WorkerStates] /\ index \in [Slots -> Nat]
  /\ phase \in [Slots -> Phases]
  /\ todo \in [Threads -> Seq({"llm", "search"})]
  /\ dirs \subseteq AllRules /\ summaries \subseteq dirs /\ reports \subseteq summaries
  /\ summaryOf \in [AllRules -> Slots \cup {NoRun}]
  /\ reportOf \in [AllRules -> Slots \cup {NoRun}]
  /\ starts \in 1..MaxStarts
  /\ passed \subseteq AllRules /\ failed \subseteq AllRules /\ doubled \subseteq AllRules
  /\ crashes \in 0..plan.crashes

\* The directory is looked for before a process starts and made when it has ended its
\* work.  Still the two files of a rule are always of one process, whatever died in
\* between and however often the script was started, unless two starts of it had
\* the rule under way at the same time.
OneRunOnDisk ==
  \A r \in reports \ doubled : summaryOf[r] = reportOf[r]

\* A rule is counted as passed when, and only when, its report is complete; and a
\* rule can be left out of a finished batch without being counted as failed only
\* when an earlier process died between making its directory and its last write, or
\* one of an earlier start has yet to make it.
NoneForgotten ==
  /\ passed \subseteq reports
  /\ Finished => \A r \in AllRules :
       \/ r \in reports \/ r \in failed
       \/ r \in dirs /\ (crashes > 0 \/ starts > 1)

\* LLM calls of the process p that have ended, as its threads know it: the tasks
\* <<t, i>> that thread t has behind it.
EndedTasks(t) == 1..(Len(Program[t]) - Len(todo[t]))
CallsEnded(p) ==
  UNION {{<<t, i>> : i \in {j \in EndedTasks(t) : Program[t][j] = "llm"}} :
           t \in {u \in Threads : u[1] = p}}

\* The summary counts every call that ended without an error, whichever calls
\* overlapped: the others are the entries that start_times keeps.  An overlap may
\* lose time of calls but never makes the sum more than was spent, or nothing.
CostsCounted ==
  \A p \in Slots : phase[p] # "none" =>
    LET open == {t \in Threads : t[1] = p /\ call[t] = "open"} IN
    /\ Cardinality(CallsEnded(p)) = numCalls[p] + started[p] - Cardinality(open)
    /\ totalTime[p] <= numCalls[p]
    /\ numCalls[p] > 0 => totalTime[p] > 0

\* The batch comes to its end, with the workers of every start: claiming a token gives
\* up after max_attempts.
BatchEnds ==
  <>[](Finished /\ \A w \in Slots : worker[w] \in {"none", "completed"})
=============================================================================
