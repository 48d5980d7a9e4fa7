---------------------------- MODULE BatchProofs ----------------------------
(***************************************************************************)
(* Proofs about BatchWorkers, for any number of workers, starts, rules,    *)
(* threads, tokens and crashes.                                            *)
(***************************************************************************)
EXTENDS BatchWorkers, SubsequencesProofs

(***************************************************************************)
(* The rules of a worker: every NumWorkers-th from its own number on.      *)
(***************************************************************************)

Share(w) == {w[2] + k * NumWorkers : k \in Nat}

LEMMA Numbers ==
  /\ NumWorkers \in Nat \ {0} /\ Rules \in Nat
  /\ MaxStarts \in Nat \ {0}
  BY BatchAssumption

LEMMA SlotFacts ==
  /\ \A w \in Slots : /\ w[1] \in 1..MaxStarts /\ w[2] \in 0..(NumWorkers - 1)
                      /\ w[1] \in Nat /\ w[2] \in Nat
                      /\ w = <<w[1], w[2]>> /\ w # NoRun
  /\ \A n \in 1..MaxStarts, k \in 0..(NumWorkers - 1) : <<n, k>> \in Slots
<1>1. Slots = (1..MaxStarts) \X (0..(NumWorkers - 1))
      /\ NumWorkers \in Nat /\ MaxStarts \in Nat
  BY BatchAssumption
<1>2. ASSUME NEW w \in Slots
      PROVE  w[1] \in 1..MaxStarts /\ w[2] \in 0..(NumWorkers - 1) /\ w = <<w[1], w[2]>>
  BY <1>1
<1>3. ASSUME NEW w \in Slots PROVE w # NoRun
  <2>1. w[1] >= 1
    BY <1>1, <1>2
  <2> QED BY <2>1 DEF NoRun
<1>4. ASSUME NEW w \in Slots PROVE w[1] \in Nat /\ w[2] \in Nat
  BY <1>1, <1>2
<1>5. \A n \in 1..MaxStarts, k \in 0..(NumWorkers - 1) : <<n, k>> \in Slots
  BY <1>1
<1> QED BY <1>2, <1>3, <1>4, <1>5

\* Products with a positive number: what the solver needs of them.
LEMMA Multiples ==
  ASSUME NEW n \in Nat \ {0}
  PROVE  /\ \A k \in Nat : k * n \in Nat
         /\ \A k \in Nat : (k + 1) * n = k * n + n
         /\ \A k, l \in Nat : k < l => k * n + n <= l * n
  OBVIOUS

LEMMA ShareFacts ==
  ASSUME NEW w \in Slots
  PROVE  /\ Share(w) \subseteq Nat /\ w[2] \in Share(w)
         /\ \A r \in Share(w) : r + NumWorkers \in Share(w)
         /\ \A r, i \in Share(w) : r < i + NumWorkers => r <= i
<1> USE Numbers, Multiples DEF Share
<1>1. w[2] \in Nat
  BY SlotFacts
<1>2. Share(w) \subseteq Nat
  BY <1>1
<1>3. w[2] \in Share(w)
  <2>1. w[2] = w[2] + 0 * NumWorkers
    BY <1>1
  <2> QED BY <2>1
<1>4. ASSUME NEW r \in Share(w) PROVE r + NumWorkers \in Share(w)
  <2>1. PICK k \in Nat : r = w[2] + k * NumWorkers
    OBVIOUS
  <2>2. r + NumWorkers = w[2] + (k + 1) * NumWorkers
    BY <2>1, <1>1
  <2>3. k + 1 \in Nat
    OBVIOUS
  <2> QED BY <2>2, <2>3
<1>5. ASSUME NEW r \in Share(w), NEW i \in Share(w), r < i + NumWorkers PROVE r <= i
  <2>1. PICK k \in Nat : r = w[2] + k * NumWorkers
    OBVIOUS
  <2>2. PICK l \in Nat : i = w[2] + l * NumWorkers
    OBVIOUS
  <2>3. k * NumWorkers \in Nat /\ l * NumWorkers \in Nat
    OBVIOUS
  <2>4. CASE l < k
    BY <2>1, <2>2, <2>3, <2>4, <1>1, <1>5
  <2>5. CASE k = l
    BY <2>1, <2>2, <2>3, <2>5, <1>1
  <2>6. CASE k < l
    BY <2>1, <2>2, <2>3, <2>6, <1>1
  <2> QED BY <2>4, <2>5, <2>6
<1> QED BY <1>2, <1>3, <1>4, <1>5

\* A worker's first rule is the one of its own number.
LEMMA ShareFirst ==
  ASSUME NEW w \in Slots, NEW r \in Share(w)
  PROVE  ~(r < w[2])
<1>1. PICK k \in Nat : r = w[2] + k * NumWorkers
  BY DEF Share
<1>2. k * NumWorkers \in Nat /\ w[2] \in Nat
  BY Numbers, SlotFacts, Multiples
<1> QED BY <1>1, <1>2

\* No rule is of two workers of a start.
LEMMA SharesDisjoint ==
  ASSUME NEW v \in Slots, NEW w \in Slots, v[1] = w[1], NEW r \in Share(v), r \in Share(w)
  PROVE  v = w
<1> USE Numbers, Multiples DEF Share
<1>1. PICK k \in Nat : r = v[2] + k * NumWorkers
  OBVIOUS
<1>2. PICK l \in Nat : r = w[2] + l * NumWorkers
  OBVIOUS
<1>3. k * NumWorkers \in Nat /\ l * NumWorkers \in Nat
      /\ v[2] \in Nat /\ w[2] \in Nat /\ v[2] < NumWorkers /\ w[2] < NumWorkers
  BY SlotFacts
<1>4. v[2] = w[2]
  <2>1. CASE l < k
    BY <1>1, <1>2, <1>3, <2>1
  <2>2. CASE k = l
    BY <1>1, <1>2, <1>3, <2>2
  <2>3. CASE k < l
    BY <1>1, <1>2, <1>3, <2>3
  <2> QED BY <2>1, <2>2, <2>3
<1> QED BY <1>4, SlotFacts

\* Every rule is of some worker of every start.
LEMMA SharesCover ==
  ASSUME NEW s \in 1..MaxStarts, NEW r \in Nat
  PROVE  \E w \in Team(s) : r \in Share(w)
<1> DEFINE Lost == {n \in Nat : \A w \in Team(s) : n \notin Share(w)}
<1> SUFFICES ASSUME Lost # {} PROVE FALSE
  OBVIOUS
<1>1. PICK n \in Lost : \A m \in Lost : n <= m
  <2> HIDE DEF Lost
  <2>1. Lost \in SUBSET Nat
    BY DEF Lost
  <2> QED BY <2>1, LeastNumber
<1>2. CASE n < NumWorkers
  <2>1. PICK w : w = <<s, n>>
    OBVIOUS
  <2>2. w \in Slots /\ w[1] = s /\ w[2] = n
    BY <1>2, <2>1, Numbers, SlotFacts
  <2>3. n \in Share(w) /\ w \in Team(s)
    BY <2>2, ShareFacts DEF Team
  <2> QED BY <2>3
<1>3. CASE n >= NumWorkers
  <2>1. n - NumWorkers \in Nat /\ ~(n <= n - NumWorkers)
    BY <1>3, Numbers
  <2>2. PICK w \in Team(s) : n - NumWorkers \in Share(w)
    BY <1>1, <2>1
  <2>3. (n - NumWorkers) + NumWorkers \in Share(w)
    BY <2>2, ShareFacts DEF Team
  <2>4. (n - NumWorkers) + NumWorkers = n
    BY Numbers
  <2> QED BY <2>2, <2>3, <2>4, <1>1
<1> QED BY <1>2, <1>3, Numbers

(***************************************************************************)
(* The inductive invariant.  Workers: a process is there exactly while its *)
(* worker waits for it, and only its threads have something to do.         *)
(***************************************************************************)

WorkersInv ==
  /\ plan \in Plans
  /\ pid \in [Slots -> Pids \cup {NoPid}]
  /\ worker \in [Slots -> WorkerStates] /\ phase \in [Slots -> Phases]
  /\ index \in [Slots -> Nat]
  /\ todo \in [Threads -> Seq({"llm", "search"})]
  /\ starts \in 1..MaxStarts
  /\ \A w \in Slots : index[w] \in Share(w)
  /\ \A w \in Slots : w[1] > starts => worker[w] = "none" /\ index[w] = w[2]
  /\ \A w \in Slots : phase[w] = "none" <=> pid[w] = NoPid
  /\ \A w \in Slots : phase[w] # "none" => worker[w] = "wait"
  /\ \A w \in Slots : worker[w] \in {"start", "wait"} => Rule(w) < Rules
  /\ \A w \in Slots : worker[w] = "completed" => Rule(w) >= Rules
  /\ \A t \in Threads : todo[t] # <<>> => phase[t[1]] # "none"

\* The directory and the files of a rule, and what has become of the rules a worker
\* of the newest start has left behind.
Disturbed == crashes > 0 \/ starts > 1
WritesNow(r) == \E w \in Slots : phase[w] \in {"summary", "report"} /\ Rule(w) = r
Handled(r) == r \in reports \/ r \in failed \/ (r \in dirs /\ Disturbed)

ArtifactsInv ==
  /\ summaryOf \in [AllRules -> Slots \cup {NoRun}]
  /\ reportOf \in [AllRules -> Slots \cup {NoRun}]
  /\ dirs \subseteq AllRules /\ summaries \subseteq dirs /\ reports \subseteq summaries
  /\ passed \subseteq reports /\ failed \subseteq AllRules
  /\ crashes \in 0..plan.crashes
  /\ \A w \in Slots : phase[w] \in {"summary", "report"} => Rule(w) \in dirs
  /\ \A w \in Slots : phase[w] = "report" => Rule(w) \in summaries
  /\ \A r \in dirs : r \in reports \/ Disturbed \/ WritesNow(r)
  /\ \A w \in Team(starts) : \A r \in Share(w) : r < Rule(w) => Handled(r)

\* Whose files a rule has: two workers have a rule under way only when it is doubled,
\* and one that is not doubled is written by the one worker that found no directory.
UnderWay(w) == worker[w] \in {"start", "wait"}

DiskInv ==
  /\ doubled \subseteq AllRules
  /\ \A v, w \in Slots : v # w /\ UnderWay(v) /\ UnderWay(w) /\ Rule(v) = Rule(w)
                           => Rule(w) \in doubled
  /\ \A w \in Slots : /\ worker[w] = "start" \/ phase[w] = "work"
                      /\ Rule(w) \in dirs
                      => Rule(w) \in doubled
  /\ \A w \in Slots : phase[w] = "summary" /\ Rule(w) \in summaries => Rule(w) \in doubled
  /\ \A w \in Slots : phase[w] = "report" /\ Rule(w) \notin doubled =>
       summaryOf[Rule(w)] = w /\ Rule(w) \notin reports
  /\ OneRunOnDisk

\* A batch keeps to its plan.
LEMMA PlanFacts ==
  ASSUME plan \in Plans
  PROVE  /\ Program \in [Threads -> Seq({"llm", "search"})]
         /\ plan.starts \in 1..MaxStarts /\ plan.crashes \in Nat
  BY BatchAssumption DEF Program

LEMMA PlanKept == [Next]_vars => plan' = plan /\ Program' = Program
<1> SUFFICES ASSUME [Next]_vars PROVE plan' = plan
  BY DEF Program
<1>1. ASSUME NEW w \in Slots, WorkerStep(w) \/ ProcessDies(w) PROVE plan' = plan
  BY <1>1 DEF WorkerStep, Skip, Choose, StartProcess, Complete, MakeDirectory, WriteSummary,
              WriteReport, ProcessDies, Exit, script
<1>2. ASSUME NEW t \in Threads, LlmStep(t) \/ PoolSearch(t) PROVE plan' = plan
  BY <1>2 DEF LlmStep, PoolSearch, script
<1>3. CASE StartBeside \/ StartAlone \/ UNCHANGED vars
  BY <1>3 DEF StartBeside, StartAlone, Begin, vars, script
<1> QED BY <1>1, <1>2, <1>3 DEF Next, Done

\* The slot of a thread, and the first task of its list.
LEMMA ThreadSlot == \A t \in Threads : t[1] \in Slots
  BY DEF Slots

LEMMA StripTail ==
  ASSUME NEW S, NEW s \in Seq(S), s # <<>>
  PROVE  Tail(s) \in Seq(S)
  BY HeadTailProperties

\* A rule that is under way is one of the list.
LEMMA RuleInList ==
  ASSUME WorkersInv, NEW w \in Slots, worker[w] \in {"start", "wait"} \/ phase[w] # "none"
  PROVE  Rule(w) \in AllRules /\ UnderWay(w)
<1>1. worker[w] \in {"start", "wait"} /\ Rule(w) < Rules /\ Rule(w) \in Nat
  BY DEF WorkersInv, Rule
<1> QED BY <1>1, Numbers DEF AllRules, UnderWay

LEMMA InitBatch == Init => WorkersInv /\ ArtifactsInv /\ DiskInv
<1> SUFFICES ASSUME Init PROVE WorkersInv /\ ArtifactsInv /\ DiskInv
  OBVIOUS
<1> USE DEF Init, LockInit, Rule
<1>1. WorkersInv
  <2>1. \A w \in Slots : w[2] \in Share(w) /\ w[2] \in Nat /\ w[1] \in Nat
    BY ShareFacts, SlotFacts
  <2>2. <<>> \in Seq({"llm", "search"})
    BY EmptySeq
  <2>3. \A w \in Slots : w[1] > 1 => w \notin Team(1)
    BY <2>1 DEF Team
  <2>4. 1 \in 1..MaxStarts
    BY Numbers
  <2> QED BY <2>1, <2>2, <2>3, <2>4, TokenAssumption DEF WorkersInv, WorkerStates, Phases
<1>2. summaries = {} /\ reports = {}
  BY DEF summaries, reports
<1>3. ArtifactsInv
  <2>1. ASSUME NEW w \in Team(starts), NEW r \in Share(w), r < Rule(w) PROVE FALSE
    BY <2>1, ShareFirst DEF Team
  <2>2. crashes \in 0..plan.crashes
    BY PlanFacts
  <2> QED BY <1>2, <2>1, <2>2 DEF ArtifactsInv
<1>4. DiskInv
  BY <1>2 DEF DiskInv, UnderWay, OneRunOnDisk
<1> QED BY <1>1, <1>3, <1>4

LEMMA AdvanceTyped ==
  ASSUME WorkersInv, NEW w \in Slots, Advance(w)
  PROVE  /\ index' \in [Slots -> Nat]
         /\ \A v \in Slots : index'[v] \in Share(v)
         /\ index'[w] = index[w] + NumWorkers
         /\ \A v \in Slots \ {w} : index'[v] = index[v]
<1>1. index[w] \in Share(w) /\ index \in [Slots -> Nat]
  BY DEF WorkersInv
<1>2. index[w] + NumWorkers \in Share(w)
  BY <1>1, ShareFacts
<1> QED BY <1>1, <1>2, Numbers DEF Advance, WorkersInv

\* A process is gone, with a report or without.
LEMMA ExitWorkers ==
  ASSUME WorkersInv, NEW w \in Slots, NEW ok \in BOOLEAN, Exit(w, ok), phase[w] # "none"
  PROVE  WorkersInv'
<1> USE DEF Exit, Rule
<1>1. /\ index' \in [Slots -> Nat]
      /\ \A v \in Slots : index'[v] \in Share(v)
      /\ \A v \in Slots \ {w} : index'[v] = index[v]
  BY AdvanceTyped
<1>2. <<>> \in Seq({"llm", "search"})
  BY EmptySeq
<1>3. todo' \in [Threads -> Seq({"llm", "search"})]
  BY <1>2 DEF WorkersInv
<1>4. ~(w[1] > starts)
  BY DEF WorkersInv
<1> QED BY <1>1, <1>3, <1>4, ThreadSlot DEF WorkersInv, WorkerStates, Phases

\* A thread ends a task or not; nothing of the workers changes.
LEMMA ThreadWorkers ==
  ASSUME WorkersInv, NEW t \in Threads, UNCHANGED <<pid, loop, phase, script>>,
         UNCHANGED todo \/ (todo[t] # <<>> /\ Ended(t))
  PROVE  WorkersInv'
<1>1. CASE UNCHANGED todo
  BY <1>1 DEF WorkersInv, loop, script, Rule
<1>2. CASE todo[t] # <<>> /\ Ended(t)
  <2>1. Tail(todo[t]) \in Seq({"llm", "search"})
    BY <1>2, StripTail DEF WorkersInv
  <2> QED BY <1>2, <2>1 DEF WorkersInv, Ended, loop, script, Rule
<1> QED BY <1>1, <1>2

\* The script is started: the new workers were not there, and stand at their first rule.
LEMMA BeginWorkers ==
  ASSUME WorkersInv, Begin
  PROVE  /\ starts' \in 1..MaxStarts /\ starts' = starts + 1 /\ starts \in Nat
         /\ plan' = plan
         /\ \A w \in Slots : w[1] > starts' => w[1] > starts /\ w \notin Team(starts')
         /\ \A w \in Team(starts') : /\ w \in Slots /\ index[w] = w[2]
                                     /\ worker[w] = "none" /\ phase[w] = "none"
<1>1. starts \in Nat /\ starts' = starts + 1 /\ starts' \in 1..MaxStarts /\ plan' = plan
  BY Numbers, PlanFacts DEF WorkersInv, Begin
<1>2. \A w \in Slots : w[1] \in Nat
  BY SlotFacts
<1>3. ASSUME NEW w \in Team(starts')
      PROVE  w \in Slots /\ index[w] = w[2] /\ worker[w] = "none" /\ phase[w] = "none"
  BY <1>1 DEF Team, WorkersInv
<1> QED BY <1>1, <1>2, <1>3 DEF Team

LEMMA StepWorkers == WorkersInv /\ [Next]_vars => WorkersInv'
<1> SUFFICES ASSUME WorkersInv, [Next]_vars PROVE WorkersInv'
  OBVIOUS
<1>p. plan' = plan /\ Program' = Program
  BY PlanKept
<1> USE <1>p
<1>1. ASSUME NEW w \in Slots, Skip(w) PROVE WorkersInv'
  <2>1. /\ worker[w] = "next" /\ Advance(w) /\ starts' = starts
        /\ UNCHANGED <<pid, worker, phase, todo>>
    BY <1>1 DEF Skip, script
  <2>2. /\ index' \in [Slots -> Nat] /\ \A v \in Slots : index'[v] \in Share(v)
        /\ \A v \in Slots \ {w} : index'[v] = index[v]
    BY <2>1, AdvanceTyped
  <2>3. ~(w[1] > starts)
    BY <2>1 DEF WorkersInv
  <2> QED BY <2>1, <2>2, <2>3 DEF WorkersInv, Rule
<1>2. ASSUME NEW w \in Slots, StartProcess(w) PROVE WorkersInv'
  <2>1. todo' \in [Threads -> Seq({"llm", "search"})]
    BY <1>2, PlanFacts DEF StartProcess, WorkersInv
  <2>2. phase' = [phase EXCEPT ![w] = "work"] /\ worker' = [worker EXCEPT ![w] = "wait"]
        /\ worker[w] = "start" /\ index' = index /\ starts' = starts
    BY <1>2 DEF StartProcess, script
  <2>3. PICK p \in Pids : pid' = [pid EXCEPT ![w] = p]
    BY <1>2 DEF StartProcess
  <2>4. \A t \in Threads : todo'[t] # <<>> => phase'[t[1]] # "none"
    <3> SUFFICES ASSUME NEW t \in Threads, todo'[t] # <<>> PROVE phase'[t[1]] # "none"
      OBVIOUS
    <3>1. CASE t[1] = w
      BY <2>2, <3>1 DEF WorkersInv
    <3>2. CASE t[1] # w
      BY <1>2, <2>2, <3>2, ThreadSlot DEF WorkersInv, StartProcess
    <3> QED BY <3>1, <3>2
  <2> QED BY <2>1, <2>2, <2>3, <2>4, TokenAssumption
          DEF WorkersInv, WorkerStates, Phases, Rule
<1>3. ASSUME NEW w \in Slots, Choose(w) \/ Complete(w) PROVE WorkersInv'
  BY <1>3 DEF Choose, Complete, WorkersInv, WorkerStates, Rule, script
<1>4. ASSUME NEW w \in Slots, MakeDirectory(w) \/ WriteSummary(w) PROVE WorkersInv'
  <2>1. /\ UNCHANGED <<pid, loop, todo, script>> /\ phase[w] # "none"
        /\ \E to \in {"summary", "report"} : phase' = [phase EXCEPT ![w] = to]
    BY <1>4 DEF MakeDirectory, WriteSummary
  <2> QED BY <2>1 DEF WorkersInv, Phases, loop, script, Rule
<1>5. ASSUME NEW w \in Slots, WriteReport(w) \/ ProcessDies(w) PROVE WorkersInv'
  BY <1>5, ExitWorkers DEF WriteReport, ProcessDies
<1>6. ASSUME NEW t \in Threads, LlmStep(t) \/ PoolSearch(t) PROVE WorkersInv'
  BY <1>6, ThreadWorkers DEF LlmStep, PoolSearch, Begins
<1>7. CASE StartBeside
  <2>1. Begin /\ UNCHANGED <<pid, phase, todo, index>>
        /\ worker' = [w \in Slots |-> IF w \in Team(starts') THEN "next" ELSE worker[w]]
    BY <1>7 DEF StartBeside, Begin
  <2>2. \A w \in Slots : worker'[w] = worker[w] \/ (worker'[w] = "next" /\ phase[w] = "none")
    BY <2>1, BeginWorkers
  <2>3. worker' \in [Slots -> WorkerStates]
    BY <2>1 DEF WorkersInv, WorkerStates
  <2>4. \A w \in Slots : w[1] > starts' => worker'[w] = "none" /\ index'[w] = w[2]
    BY <2>1, BeginWorkers DEF WorkersInv
  <2> QED BY <2>1, <2>2, <2>3, <2>4, BeginWorkers DEF WorkersInv, Rule
<1>8. CASE StartAlone
  <2>1. Begin /\ index' = index /\ pid' = [s \in Slots |-> NoPid]
        /\ worker' = [w \in Slots |-> IF w \in Team(starts') THEN "next" ELSE "none"]
        /\ phase' = [w \in Slots |-> "none"] /\ todo' = [t \in Threads |-> <<>>]
    BY <1>8 DEF StartAlone, Begin
  <2>2. <<>> \in Seq({"llm", "search"})
    BY EmptySeq
  <2>3. \A w \in Slots : w[1] > starts' => worker'[w] = "none" /\ index'[w] = w[2]
    BY <2>1, BeginWorkers DEF WorkersInv
  <2> QED BY <2>1, <2>2, <2>3, BeginWorkers DEF WorkersInv, WorkerStates, Phases, Rule
<1>9. CASE UNCHANGED vars
  BY <1>9 DEF vars, loop, script, WorkersInv, Rule
<1> QED BY <1>1, <1>2, <1>3, <1>4, <1>5, <1>6, <1>7, <1>8, <1>9
        DEF Next, WorkerStep, Done

\* A worker leaves its rule behind, handled if it is of the newest start, and no process
\* of it writes.
LEMMA AdvanceArtifacts ==
  ASSUME WorkersInv, ArtifactsInv, NEW w \in Slots, Advance(w), ~(w[1] > starts),
         plan' = plan,
         reports \subseteq reports', failed \subseteq failed',
         UNCHANGED <<dirs, summaryOf, starts>>,
         reportOf' \in [AllRules -> Slots \cup {NoRun}],
         reports' \subseteq summaries, passed' \subseteq reports', failed' \subseteq AllRules,
         crashes' \in 0..plan.crashes, crashes <= crashes',
         phase'[w] = "none", \A v \in Slots \ {w} : phase'[v] = phase[v],
         NEW rule, rule = Rule(w), w[1] = starts => Handled(rule)',
         phase[w] = "none" \/ Rule(w) \in reports' \/ crashes' > 0
  PROVE  ArtifactsInv'
<1>1. /\ index'[w] = index[w] + NumWorkers /\ \A v \in Slots \ {w} : index'[v] = index[v]
      /\ index \in [Slots -> Nat] /\ index[w] \in Share(w)
  BY AdvanceTyped DEF WorkersInv
<1>2. crashes \in Nat /\ crashes' \in Nat
  BY PlanFacts DEF WorkersInv, ArtifactsInv
<1>3. Disturbed => Disturbed'
  BY <1>2 DEF Disturbed
<1>4. \A r : Handled(r) => Handled(r)'
  BY <1>3 DEF Handled
<1>5. summaries' = summaries /\ Team(starts)' = Team(starts)
  BY DEF summaries, Team
<1>6. ASSUME NEW r \in dirs' PROVE r \in reports' \/ Disturbed' \/ WritesNow(r)'
  <2>1. CASE r \in reports \/ Disturbed
    BY <2>1, <1>3
  <2>2. CASE WritesNow(r)
    <3>1. PICK v \in Slots : phase[v] \in {"summary", "report"} /\ Rule(v) = r
      BY <2>2 DEF WritesNow
    <3>2. CASE v = w
      BY <3>1, <3>2 DEF Disturbed
    <3>3. CASE v # w
      BY <3>1, <3>3, <1>1 DEF WritesNow, Rule
    <3> QED BY <3>2, <3>3
  <2> QED BY <2>1, <2>2 DEF ArtifactsInv
<1>7. ASSUME NEW v \in Team(starts), NEW r \in Share(v), r < Rule(v)' PROVE Handled(r)'
  <2>0. v \in Slots /\ v[1] = starts
    BY DEF Team
  <2>1. CASE v # w
    BY <2>0, <2>1, <1>1, <1>4, <1>7 DEF ArtifactsInv, Rule
  <2>2. CASE v = w
    <3>1. r \in Nat /\ r <= index[w]
      BY <2>2, <1>1, <1>7, ShareFacts DEF Rule
    <3>2. CASE r = index[w]
      BY <2>0, <2>2, <3>2 DEF Rule
    <3>3. CASE r < index[w]
      BY <3>3, <2>2, <1>4, <1>7 DEF ArtifactsInv, Rule
    <3> QED BY <3>1, <3>2, <3>3, <1>1
  <2> QED BY <2>1, <2>2
<1>8. \A v \in Slots : phase'[v] \in {"summary", "report"} =>
         phase'[v] = phase[v] /\ Rule(v)' = Rule(v)
  BY <1>1 DEF Rule
<1> QED BY <1>5, <1>6, <1>7, <1>8 DEF ArtifactsInv

\* A process writes a file of its rule.
LEMMA FilesWritten ==
  ASSUME WorkersInv, ArtifactsInv, NEW w \in Slots, phase[w] # "none"
  PROVE  /\ summaryOf' = [summaryOf EXCEPT ![Rule(w)] = w] =>
              /\ summaries' = summaries \cup {Rule(w)}
              /\ summaryOf' \in [AllRules -> Slots \cup {NoRun}]
              /\ summaryOf'[Rule(w)] = w
              /\ \A r \in AllRules \ {Rule(w)} : summaryOf'[r] = summaryOf[r]
         /\ reportOf' = [reportOf EXCEPT ![Rule(w)] = w] =>
              /\ reports' = reports \cup {Rule(w)}
              /\ reportOf' \in [AllRules -> Slots \cup {NoRun}]
              /\ reportOf'[Rule(w)] = w
              /\ \A r \in AllRules \ {Rule(w)} : reportOf'[r] = reportOf[r]
<1>1. Rule(w) \in AllRules /\ w # NoRun
  BY RuleInList, SlotFacts
<1>2. summaryOf \in [AllRules -> Slots \cup {NoRun}] /\ reportOf \in [AllRules -> Slots \cup {NoRun}]
  BY DEF ArtifactsInv
<1> HIDE DEF Rule
<1> QED BY <1>1, <1>2 DEF summaries, reports

LEMMA SameFiles ==
  ASSUME UNCHANGED artifacts
  PROVE  dirs' = dirs /\ summaries' = summaries /\ reports' = reports
         /\ summaryOf' = summaryOf /\ reportOf' = reportOf
  BY DEF artifacts, summaries, reports

LEMMA StepArtifacts == WorkersInv /\ ArtifactsInv /\ [Next]_vars => ArtifactsInv'
<1> SUFFICES ASSUME WorkersInv, ArtifactsInv, [Next]_vars PROVE ArtifactsInv'
  OBVIOUS
<1>p. plan' = plan /\ Program' = Program
  BY PlanKept
<1> USE <1>p
<1>0. /\ crashes \in Nat /\ starts \in Nat
      /\ \A w \in Slots : index[w] \in Share(w) /\ index[w] \in Nat
  BY Numbers, PlanFacts DEF ArtifactsInv, WorkersInv
<1>1. ASSUME NEW w \in Slots, Skip(w) PROVE ArtifactsInv'
  <2>1. phase[w] = "none" /\ Rule(w) \in dirs /\ ~(w[1] > starts)
    BY <1>1 DEF Skip, WorkersInv
  <2>2. Disturbed \/ ~WritesNow(Rule(w))
    <3> SUFFICES ASSUME starts = 1, NEW v \in Slots, phase[v] \in {"summary", "report"},
                        Rule(v) = Rule(w)
                 PROVE  FALSE
      BY <1>0, Numbers DEF Disturbed, WritesNow, WorkersInv
    <3>1. ~(v[1] > starts)
      BY DEF WorkersInv
    <3>2. v[1] = w[1]
      BY <3>1, <2>1, SlotFacts, Numbers
    <3>3. v = w
      BY <3>2, <1>0, SharesDisjoint DEF Rule
    <3> QED BY <2>1, <3>3
  <2>3. Handled(Rule(w))
    BY <2>1, <2>2 DEF ArtifactsInv, Handled
  <2>4. UNCHANGED <<phase, artifacts, script, crashes>> /\ Advance(w)
    BY <1>1 DEF Skip, history
  <2>5. PICK rule : rule = Rule(w)
    OBVIOUS
  <2>6. Handled(rule)'
    BY <2>3, <2>4, <2>5, SameFiles DEF Handled, Disturbed, script
  <2> QED BY <2>1, <2>4, <2>5, <2>6, <1>0, SameFiles, AdvanceArtifacts DEF script, ArtifactsInv
<1>2. ASSUME NEW w \in Slots, WriteReport(w) PROVE ArtifactsInv'
  <2>1. PICK rule : rule = Rule(w)
    OBVIOUS
  <2>2. /\ phase[w] = "report" /\ reportOf' = [reportOf EXCEPT ![Rule(w)] = w]
        /\ passed' \subseteq passed \cup {rule} /\ failed' = failed
        /\ phase' = [phase EXCEPT ![w] = "none"] /\ Advance(w)
        /\ UNCHANGED <<dirs, summaryOf, crashes, starts>>
    BY <1>2, <2>1 DEF WriteReport, Exit, history
  <2>3. reports' = reports \cup {rule} /\ reportOf' \in [AllRules -> Slots \cup {NoRun}]
    BY <2>1, <2>2, FilesWritten
  <2>4. Handled(rule)' /\ rule \in summaries
    BY <2>1, <2>2, <2>3 DEF Handled, ArtifactsInv
  <2>5. phase'[w] = "none" /\ \A v \in Slots \ {w} : phase'[v] = phase[v]
    BY <2>2 DEF WorkersInv
  <2>6. reports' \subseteq summaries /\ passed' \subseteq reports'
    BY <2>2, <2>3, <2>4 DEF ArtifactsInv
  <2>7. crashes' \in 0..plan.crashes /\ crashes <= crashes'
    BY <1>0, <2>2 DEF ArtifactsInv
  <2>8. ~(w[1] > starts) /\ failed' \subseteq AllRules
    BY <2>2 DEF WorkersInv, ArtifactsInv
  <2> QED BY <2>1, <2>2, <2>3, <2>4, <2>5, <2>6, <2>7, <2>8, AdvanceArtifacts
<1>3. ASSUME NEW w \in Slots, ProcessDies(w) PROVE ArtifactsInv'
  <2>1. PICK rule : rule = Rule(w)
    OBVIOUS
  <2>2. /\ phase[w] # "none" /\ UNCHANGED artifacts /\ passed' = passed /\ starts' = starts
        /\ failed' = IF w[1] = starts THEN failed \cup {rule} ELSE failed
        /\ phase' = [phase EXCEPT ![w] = "none"] /\ Advance(w)
        /\ crashes < plan.crashes /\ crashes' = crashes + 1
    BY <1>3, <2>1 DEF ProcessDies, Exit
  <2>3. w[1] = starts => Handled(rule)'
    BY <2>2 DEF Handled
  <2>4. phase'[w] = "none" /\ \A v \in Slots \ {w} : phase'[v] = phase[v]
    BY <2>2 DEF WorkersInv
  <2>5. crashes' \in 0..plan.crashes /\ crashes <= crashes' /\ crashes' > 0
    BY <1>0, <2>2, PlanFacts DEF WorkersInv
  <2>6. ~(w[1] > starts)
    BY <2>2 DEF WorkersInv
  <2>7. failed' \subseteq AllRules /\ failed \subseteq failed'
    BY <2>1, <2>2, RuleInList DEF ArtifactsInv
  <2>8. /\ reports' = reports /\ UNCHANGED <<dirs, summaryOf, starts>>
        /\ reportOf' \in [AllRules -> Slots \cup {NoRun}]
        /\ reports' \subseteq summaries /\ passed' \subseteq reports'
    BY <2>2, SameFiles DEF ArtifactsInv
  <2> QED BY <2>1, <2>2, <2>3, <2>4, <2>5, <2>6, <2>7, <2>8, AdvanceArtifacts
<1>4. ASSUME NEW w \in Slots, NEW from \in Phases, NEW to \in Phases,
             phase[w] = from, phase' = [phase EXCEPT ![w] = to],
             from \notin {"summary", "report"} \/ to \in {"summary", "report"},
             UNCHANGED <<index, reportOf, script, crashes>>,
             summaryOf' \in [AllRules -> Slots \cup {NoRun}],
             dirs \subseteq dirs', summaries \subseteq summaries', summaries' \subseteq dirs',
             dirs' \subseteq dirs \cup {Rule(w)},
             dirs' # dirs => to = "summary" /\ Rule(w) \in AllRules,
             to \in {"summary", "report"} => Rule(w) \in dirs',
             to = "report" => Rule(w) \in summaries'
      PROVE  ArtifactsInv'
  <2>1. phase'[w] = to /\ \A v \in Slots \ {w} : phase'[v] = phase[v]
    BY <1>4 DEF WorkersInv
  <2>2. \A v \in Slots : Rule(v)' = Rule(v)
    BY <1>4 DEF Rule
  <2>3. ASSUME NEW r, WritesNow(r) PROVE WritesNow(r)'
    <3>1. PICK v \in Slots : phase[v] \in {"summary", "report"} /\ Rule(v) = r
      BY <2>3 DEF WritesNow
    <3>2. phase'[v] \in {"summary", "report"}
      BY <3>1, <2>1, <1>4
    <3> QED BY <3>1, <3>2, <2>2 DEF WritesNow
  <2>4. reports' = reports /\ (Disturbed' <=> Disturbed) /\ Team(starts)' = Team(starts)
        /\ passed' = passed /\ failed' = failed
    BY <1>4 DEF reports, Disturbed, Team, script
  <2>5. ASSUME NEW r \in dirs' PROVE r \in reports' \/ Disturbed' \/ WritesNow(r)'
    <3>1. CASE r \in dirs
      BY <3>1, <2>3, <2>4 DEF ArtifactsInv
    <3>2. CASE r \notin dirs
      <4>1. r = Rule(w) /\ to = "summary"
        BY <3>2, <1>4
      <4> QED BY <4>1, <2>1, <2>2 DEF WritesNow
    <3> QED BY <3>1, <3>2
  <2>6. ASSUME NEW v \in Team(starts), NEW r \in Share(v), r < Rule(v)' PROVE Handled(r)'
    BY <2>2, <2>4, <2>6, <1>4 DEF ArtifactsInv, Handled, Team
  <2>7. dirs' \subseteq AllRules
    BY <1>4 DEF ArtifactsInv
  <2>8. passed' \subseteq reports' /\ reports' \subseteq summaries' /\ crashes' \in 0..plan.crashes
        /\ failed' \subseteq AllRules /\ reportOf' \in [AllRules -> Slots \cup {NoRun}]
    BY <1>4, <2>4 DEF ArtifactsInv
  <2>9. ASSUME NEW v \in Slots
        PROVE  /\ phase'[v] \in {"summary", "report"} => Rule(v)' \in dirs'
               /\ phase'[v] = "report" => Rule(v)' \in summaries'
    BY <2>1, <2>2, <1>4 DEF ArtifactsInv
  <2> QED BY <1>4, <2>4, <2>5, <2>6, <2>7, <2>8, <2>9 DEF ArtifactsInv
<1>5. ASSUME NEW w \in Slots, StartProcess(w) PROVE ArtifactsInv'
  <2>1. phase[w] = "none" /\ phase' = [phase EXCEPT ![w] = "work"]
        /\ UNCHANGED <<index, artifacts, script, crashes>>
    BY <1>5 DEF StartProcess, WorkersInv, history
  <2>2. summaries' = summaries /\ dirs' = dirs /\ UNCHANGED <<summaryOf, reportOf>>
    BY <2>1, SameFiles
  <2> QED BY <2>1, <2>2, <1>4 DEF Phases, ArtifactsInv
<1>6. ASSUME NEW w \in Slots, MakeDirectory(w) PROVE ArtifactsInv'
  <2>1. /\ phase[w] = "work" /\ phase' = [phase EXCEPT ![w] = "summary"]
        /\ dirs' = dirs \cup {Rule(w)}
        /\ UNCHANGED <<index, summaryOf, reportOf, script, crashes>>
    BY <1>6 DEF MakeDirectory, loop, history
  <2>2. summaries' = summaries /\ Rule(w) \in AllRules
    BY <2>1, RuleInList DEF summaries
  <2> QED BY <2>1, <2>2, <1>4 DEF Phases, ArtifactsInv
<1>7. ASSUME NEW w \in Slots, WriteSummary(w) PROVE ArtifactsInv'
  <2>1. /\ phase[w] = "summary" /\ phase' = [phase EXCEPT ![w] = "report"]
        /\ summaryOf' = [summaryOf EXCEPT ![Rule(w)] = w] /\ Rule(w) \in dirs
        /\ UNCHANGED <<index, dirs, reportOf, script, crashes>>
    BY <1>7 DEF WriteSummary, ArtifactsInv, loop, history
  <2>2. summaries' = summaries \cup {Rule(w)} /\ summaryOf' \in [AllRules -> Slots \cup {NoRun}]
    BY <2>1, FilesWritten
  <2>3. summaries' \subseteq dirs
    BY <2>1, <2>2 DEF ArtifactsInv
  <2> QED BY <2>1, <2>2, <2>3, <1>4 DEF Phases, ArtifactsInv
<1>8. ASSUME UNCHANGED <<phase, index, artifacts, script, crashes>> PROVE ArtifactsInv'
  <2>1. /\ reports' = reports /\ summaries' = summaries /\ dirs' = dirs
        /\ summaryOf' = summaryOf /\ reportOf' = reportOf
        /\ starts' = starts /\ passed' = passed /\ failed' = failed /\ crashes' = crashes
    BY <1>8, SameFiles DEF script
  <2>2. \A v \in Slots : Rule(v)' = Rule(v)
    BY <1>8 DEF Rule
  <2> QED BY <1>8, <2>1, <2>2 DEF ArtifactsInv, WritesNow, Handled, Disturbed, Team
<1>9. CASE StartBeside \/ StartAlone
  <2>1. /\ Begin /\ UNCHANGED <<index, artifacts, crashes>> /\ passed' = {} /\ failed' = {}
        /\ \A w \in Slots : phase'[w] = phase[w] \/ phase'[w] = "none"
    BY <1>9 DEF StartBeside, StartAlone, Begin, history
  <2>2. Disturbed'
    BY <2>1, <1>0, BeginWorkers, Numbers DEF Disturbed, WorkersInv
  <2>3. ASSUME NEW w \in Team(starts'), NEW r \in Share(w) PROVE ~(r < Rule(w)')
    <3>1. w \in Slots /\ index'[w] = w[2]
      BY <2>1, BeginWorkers
    <3> QED BY <3>1, ShareFirst DEF Rule
  <2>4. \A w \in Slots : phase'[w] \in {"summary", "report"} =>
           phase'[w] = phase[w] /\ Rule(w)' = Rule(w)
    BY <2>1 DEF Rule
  <2>5. /\ reports' = reports /\ summaries' = summaries /\ dirs' = dirs
        /\ summaryOf' = summaryOf /\ reportOf' = reportOf /\ Team(starts)' = Team(starts')
    BY <2>1, SameFiles DEF Team
  <2> QED BY <2>1, <2>2, <2>3, <2>4, <2>5 DEF ArtifactsInv
<1>10. ASSUME NEW t \in Threads, LlmStep(t) \/ PoolSearch(t) PROVE ArtifactsInv'
  BY <1>8, <1>10 DEF LlmStep, PoolSearch, loop, history
<1>11. ASSUME NEW w \in Slots, Choose(w) \/ Complete(w) PROVE ArtifactsInv'
  BY <1>8, <1>11 DEF Choose, Complete, history
<1>12. CASE UNCHANGED vars
  BY <1>8, <1>12 DEF vars, loop, history
<1> QED BY <1>1, <1>2, <1>3, <1>5, <1>6, <1>7, <1>9, <1>10, <1>11, <1>12
        DEF Next, WorkerStep, Done

\* Workers that leave a rule or are gone: nothing that is said of the others changes.
LEMMA FewerUnderWay ==
  ASSUME DiskInv, UNCHANGED <<artifacts, doubled>>,
         \A w \in Slots : \/ ~UnderWay(w)' /\ phase'[w] = "none"
                          \/ /\ worker'[w] = worker[w] /\ index'[w] = index[w]
                             /\ phase'[w] = phase[w]
  PROVE  DiskInv'
<1>1. /\ reports' = reports /\ summaries' = summaries /\ dirs' = dirs
      /\ summaryOf' = summaryOf /\ reportOf' = reportOf /\ doubled' = doubled
  BY SameFiles
<1>2. ASSUME NEW w \in Slots, UnderWay(w)' \/ phase'[w] # "none"
      PROVE  /\ worker'[w] = worker[w] /\ Rule(w)' = Rule(w) /\ phase'[w] = phase[w]
             /\ (UnderWay(w)' <=> UnderWay(w))
  BY <1>2 DEF Rule, UnderWay
<1>3. ASSUME NEW v \in Slots, NEW w \in Slots, v # w, UnderWay(v)', UnderWay(w)',
             Rule(v)' = Rule(w)'
      PROVE  Rule(w)' \in doubled
  BY <1>2, <1>3 DEF DiskInv
<1>4. ASSUME NEW w \in Slots
      PROVE  /\ worker'[w] = "start" \/ phase'[w] = "work" =>
                  (Rule(w)' \in dirs => Rule(w)' \in doubled)
             /\ phase'[w] = "summary" => (Rule(w)' \in summaries => Rule(w)' \in doubled)
             /\ phase'[w] = "report" /\ Rule(w)' \notin doubled =>
                  summaryOf[Rule(w)'] = w /\ Rule(w)' \notin reports
  <2>1. worker'[w] = "start" => UnderWay(w)'
    BY DEF UnderWay
  <2> QED BY <1>2, <2>1 DEF DiskInv
<1>5. OneRunOnDisk'
  BY <1>1 DEF DiskInv, OneRunOnDisk
<1> QED BY <1>1, <1>3, <1>4, <1>5 DEF DiskInv

\* The files of a rule are of one process: a process that is not alone with its rule is
\* known to be, and one that is finds what it has written itself.
LEMMA StepDisk == WorkersInv /\ ArtifactsInv /\ DiskInv /\ [Next]_vars => DiskInv'
<1> SUFFICES ASSUME WorkersInv, ArtifactsInv, DiskInv, [Next]_vars PROVE DiskInv'
  OBVIOUS
<1>0. worker \in [Slots -> WorkerStates] /\ phase \in [Slots -> Phases]
      /\ \A w \in Slots : phase[w] # "none" => worker[w] = "wait"
  BY DEF WorkersInv
<1>1. ASSUME NEW w \in Slots, Choose(w) PROVE DiskInv'
  <2>1. /\ worker[w] = "next" /\ worker' = [worker EXCEPT ![w] = "start"]
        /\ Rule(w) \notin dirs /\ Rule(w) < Rules
        /\ doubled' = IF Rivals(w) = {} THEN doubled ELSE doubled \cup {Rule(w)}
        /\ UNCHANGED <<phase, index, artifacts>>
    BY <1>1 DEF Choose
  <2>2. worker'[w] = "start" /\ phase'[w] = "none"
        /\ \A v \in Slots \ {w} : worker'[v] = worker[v]
    BY <2>1, <1>0
  <2>3. \A v \in Slots : Rule(v)' = Rule(v) /\ phase'[v] = phase[v]
    BY <2>1 DEF Rule
  <2>4. doubled \subseteq doubled' /\ doubled' \subseteq AllRules
    <3>1. Rule(w) \in AllRules
      BY <2>1, Numbers DEF AllRules, Rule, WorkersInv
    <3> QED BY <2>1, <3>1 DEF DiskInv
  <2>5. ASSUME NEW v \in Slots, v # w, UnderWay(v)', Rule(v) = Rule(w)
        PROVE  Rule(w) \in doubled'
    <3>1. worker[v] \in {"start", "wait"}
      BY <2>2, <2>5 DEF UnderWay
    <3>2. v[1] # w[1]
      BY <2>5, SharesDisjoint DEF WorkersInv, Rule
    <3>3. v \in Rivals(w)
      BY <3>1, <3>2, <2>5 DEF Rivals
    <3> QED BY <2>1, <3>3
  <2>6. ASSUME NEW u \in Slots, NEW v \in Slots, u # v, UnderWay(u)', UnderWay(v)',
               Rule(u)' = Rule(v)'
        PROVE  Rule(v)' \in doubled'
    <3>1. CASE u = w \/ v = w
      BY <2>3, <2>5, <2>6, <3>1
    <3>2. CASE u # w /\ v # w
      BY <2>2, <2>3, <2>4, <2>6, <3>2 DEF DiskInv, UnderWay
    <3> QED BY <3>1, <3>2
  <2>7. /\ reports' = reports /\ summaries' = summaries /\ dirs' = dirs
        /\ summaryOf' = summaryOf /\ reportOf' = reportOf
    BY <2>1, SameFiles
  <2>8. OneRunOnDisk'
    BY <2>4, <2>7 DEF DiskInv, OneRunOnDisk
  <2>9. ASSUME NEW v \in Slots, worker'[v] = "start" \/ phase'[v] = "work", Rule(v)' \in dirs'
        PROVE  Rule(v)' \in doubled'
    <3>1. v # w
      BY <2>1, <2>3, <2>7, <2>9
    <3> QED BY <2>2, <2>3, <2>4, <2>7, <2>9, <3>1 DEF DiskInv
  <2> QED BY <2>3, <2>4, <2>6, <2>7, <2>8, <2>9 DEF DiskInv
<1>2. ASSUME NEW w \in Slots, StartProcess(w) PROVE DiskInv'
  <2>1. /\ worker[w] = "start" /\ worker' = [worker EXCEPT ![w] = "wait"]
        /\ phase' = [phase EXCEPT ![w] = "work"]
        /\ UNCHANGED <<index, artifacts, doubled>>
    BY <1>2 DEF StartProcess, history
  <2>2. \A v \in Slots : Rule(v)' = Rule(v) /\ (UnderWay(v)' <=> UnderWay(v))
    BY <2>1, <1>0 DEF Rule, UnderWay
  <2>3. phase'[w] = "work" /\ worker'[w] = "wait"
        /\ \A v \in Slots \ {w} : phase'[v] = phase[v] /\ worker'[v] = worker[v]
    BY <2>1, <1>0
  <2>4. /\ reports' = reports /\ summaries' = summaries /\ dirs' = dirs
        /\ summaryOf' = summaryOf /\ reportOf' = reportOf /\ doubled' = doubled
    BY <2>1, SameFiles
  <2>5. OneRunOnDisk'
    BY <2>4 DEF DiskInv, OneRunOnDisk
  <2> QED BY <2>1, <2>2, <2>3, <2>4, <2>5 DEF DiskInv
<1>3. ASSUME NEW w \in Slots, NEW to \in {"summary", "report"}, phase[w] # "none",
             phase' = [phase EXCEPT ![w] = to], UNCHANGED <<worker, index, reportOf, doubled>>,
             Rule(w) \in dirs' , dirs' \subseteq dirs \cup {Rule(w)},
             \A r \in AllRules \ {Rule(w)} :
                summaryOf'[r] = summaryOf[r] /\ (r \in summaries' <=> r \in summaries),
             to = "summary" => /\ summaryOf' = summaryOf /\ summaries' = summaries
                               /\ Rule(w) \in summaries => Rule(w) \in doubled,
             to = "report" => /\ dirs' = dirs
                              /\ Rule(w) \notin doubled => /\ summaryOf'[Rule(w)] = w
                                                           /\ Rule(w) \notin reports
      PROVE  DiskInv'
  <2>1. \A v \in Slots : Rule(v)' = Rule(v) /\ (UnderWay(v)' <=> UnderWay(v))
                         /\ worker'[v] = worker[v]
    BY <1>3 DEF Rule, UnderWay
  <2>2. phase'[w] = to /\ \A v \in Slots \ {w} : phase'[v] = phase[v]
    BY <1>0, <1>3
  <2>3. reports' = reports /\ doubled' = doubled /\ reports \subseteq AllRules
    BY <1>3 DEF reports
  <2>4. ASSUME NEW v \in Slots, v # w, UnderWay(v), Rule(v) = Rule(w) PROVE Rule(w) \in doubled
    BY <1>3, <2>4, RuleInList DEF DiskInv
  <2>5. OneRunOnDisk'
    <3> SUFFICES ASSUME NEW r \in reports, r \notin doubled PROVE summaryOf'[r] = reportOf[r]
      BY <1>3, <2>3 DEF OneRunOnDisk
    <3>1. summaryOf[r] = reportOf[r] /\ r \in AllRules
      BY <2>3 DEF DiskInv, OneRunOnDisk
    <3>2. to = "report" => r # Rule(w)
      BY <1>3
    <3> QED BY <1>3, <3>1, <3>2
  <2>6. ASSUME NEW v \in Slots, worker'[v] = "start" \/ phase'[v] = "work", Rule(v)' \in dirs'
        PROVE  Rule(v)' \in doubled
    <3>1. v # w
      BY <1>0, <1>3, <2>1, <2>2, <2>6
    <3>2. worker[v] = "start" \/ phase[v] = "work"
      BY <2>1, <2>2, <2>6, <3>1
    <3>3. UnderWay(v)
      BY <3>2, RuleInList
    <3>4. CASE Rule(v) = Rule(w)
      BY <2>1, <2>4, <3>1, <3>3, <3>4
    <3>5. CASE Rule(v) # Rule(w)
      BY <1>3, <2>1, <2>6, <3>2, <3>5 DEF DiskInv
    <3> QED BY <3>4, <3>5
  <2>7. ASSUME NEW v \in Slots, phase'[v] \in {"summary", "report"}, Rule(v)' \notin doubled
        PROVE  /\ phase'[v] = "summary" => Rule(v)' \notin summaries'
               /\ phase'[v] = "report" => summaryOf'[Rule(v)'] = v /\ Rule(v)' \notin reports
    <3>1. CASE v = w
      BY <1>3, <2>1, <2>2, <2>7, <3>1
    <3>2. CASE v # w
      <4>1. phase[v] = phase'[v]
        BY <2>2, <3>2
      <4>2. Rule(v) \in AllRules /\ UnderWay(v)
        BY <2>7, <4>1, RuleInList
      <4>3. Rule(v) # Rule(w)
        BY <2>1, <2>4, <2>7, <3>2, <4>2
      <4> QED BY <1>3, <2>1, <2>7, <4>1, <4>2, <4>3 DEF DiskInv
    <3> QED BY <3>1, <3>2
  <2>8. ASSUME NEW u \in Slots, NEW v \in Slots, u # v, UnderWay(u)', UnderWay(v)',
               Rule(u)' = Rule(v)'
        PROVE  Rule(v)' \in doubled
    BY <2>1, <2>8 DEF DiskInv
  <2> QED BY <2>3, <2>5, <2>6, <2>7, <2>8 DEF DiskInv
<1>4. ASSUME NEW w \in Slots, MakeDirectory(w) PROVE DiskInv'
  <2>1. /\ phase[w] = "work" /\ phase' = [phase EXCEPT ![w] = "summary"]
        /\ dirs' = dirs \cup {Rule(w)}
        /\ UNCHANGED <<worker, index, summaryOf, reportOf, doubled>>
    BY <1>4 DEF MakeDirectory, loop, history
  <2>2. summaries' = summaries
    BY <2>1 DEF summaries
  <2>3. Rule(w) \in summaries => Rule(w) \in doubled
    BY <2>1 DEF ArtifactsInv, DiskInv
  <2> QED BY <2>1, <2>2, <2>3, <1>3
<1>5. ASSUME NEW w \in Slots, WriteSummary(w) PROVE DiskInv'
  <2>1. /\ phase[w] = "summary" /\ phase' = [phase EXCEPT ![w] = "report"]
        /\ summaryOf' = [summaryOf EXCEPT ![Rule(w)] = w]
        /\ UNCHANGED <<worker, index, dirs, reportOf, doubled>>
    BY <1>5 DEF WriteSummary, loop, history
  <2>2. /\ summaries' = summaries \cup {Rule(w)} /\ summaryOf'[Rule(w)] = w
        /\ \A r \in AllRules \ {Rule(w)} : summaryOf'[r] = summaryOf[r]
    BY <2>1, FilesWritten
  <2>3. Rule(w) \in dirs /\ (Rule(w) \in reports => Rule(w) \in doubled)
    BY <2>1 DEF ArtifactsInv, DiskInv
  <2> QED BY <2>1, <2>2, <2>3, <1>3
<1>6. ASSUME NEW w \in Slots, WriteReport(w) PROVE DiskInv'
  <2>1. /\ phase[w] = "report" /\ reportOf' = [reportOf EXCEPT ![Rule(w)] = w]
        /\ phase' = [phase EXCEPT ![w] = "none"] /\ worker' = [worker EXCEPT ![w] = "next"]
        /\ Advance(w) /\ UNCHANGED <<dirs, summaryOf, doubled>>
    BY <1>6 DEF WriteReport, Exit, history
  <2>2. /\ reports' = reports \cup {Rule(w)} /\ reportOf'[Rule(w)] = w
        /\ \A r \in AllRules \ {Rule(w)} : reportOf'[r] = reportOf[r]
    BY <2>1, FilesWritten
  <2>3. /\ worker'[w] = "next" /\ phase'[w] = "none"
        /\ \A v \in Slots \ {w} : /\ worker'[v] = worker[v] /\ phase'[v] = phase[v]
                                  /\ Rule(v)' = Rule(v)
    BY <2>1, <1>0, AdvanceTyped DEF Rule
  <2>4. summaries' = summaries /\ reports \subseteq AllRules
    BY <2>1 DEF summaries, reports
  <2>5. OneRunOnDisk'
    <3> SUFFICES ASSUME NEW r \in reports', r \notin doubled PROVE summaryOf[r] = reportOf'[r]
      BY <2>1 DEF OneRunOnDisk
    <3>1. CASE r = Rule(w)
      BY <2>1, <2>2, <3>1 DEF DiskInv
    <3>2. CASE r # Rule(w)
      BY <2>2, <2>4, <3>2 DEF DiskInv, OneRunOnDisk
    <3> QED BY <3>1, <3>2
  <2>6. ASSUME NEW v \in Slots, phase'[v] = "report", Rule(v)' \notin doubled
        PROVE  summaryOf[Rule(v)'] = v /\ Rule(v)' \notin reports'
    <3>1. v # w /\ phase[v] = "report" /\ Rule(v)' = Rule(v)
      BY <2>3, <2>6
    <3>2. UnderWay(v) /\ UnderWay(w)
      BY <2>1, <3>1, RuleInList
    <3>3. Rule(v) # Rule(w)
      BY <2>6, <3>1, <3>2 DEF DiskInv
    <3> QED BY <2>2, <2>6, <3>1, <3>3 DEF DiskInv
  <2>7. ASSUME NEW u \in Slots, NEW v \in Slots, u # v, UnderWay(u)', UnderWay(v)',
               Rule(u)' = Rule(v)'
        PROVE  Rule(v)' \in doubled
    <3>1. u # w /\ v # w
      BY <2>3, <2>7 DEF UnderWay
    <3> QED BY <2>3, <2>7, <3>1 DEF DiskInv, UnderWay
  <2>8. ASSUME NEW v \in Slots
        PROVE  /\ worker'[v] = "start" \/ phase'[v] = "work" =>
                    (Rule(v)' \in dirs => Rule(v)' \in doubled)
               /\ phase'[v] = "summary" => (Rule(v)' \in summaries => Rule(v)' \in doubled)
    BY <2>3 DEF DiskInv
  <2> QED BY <2>1, <2>4, <2>5, <2>6, <2>7, <2>8 DEF DiskInv
<1>7. ASSUME NEW w \in Slots, ProcessDies(w) PROVE DiskInv'
  <2>1. /\ phase' = [phase EXCEPT ![w] = "none"] /\ worker' = [worker EXCEPT ![w] = "next"]
        /\ Advance(w) /\ UNCHANGED <<artifacts, doubled>>
    BY <1>7 DEF ProcessDies, Exit
  <2>2. /\ worker'[w] = "next" /\ phase'[w] = "none"
        /\ \A v \in Slots \ {w} : /\ worker'[v] = worker[v] /\ phase'[v] = phase[v]
                                  /\ index'[v] = index[v]
    BY <2>1, <1>0, AdvanceTyped
  <2>3. ~UnderWay(w)'
    BY <2>2 DEF UnderWay
  <2> QED BY <2>1, <2>2, <2>3, FewerUnderWay
<1>8. ASSUME NEW w \in Slots, Skip(w) \/ Complete(w) PROVE DiskInv'
  <2>1. /\ worker[w] = "next" /\ UNCHANGED <<phase, artifacts, doubled>>
        /\ \/ worker' = worker /\ Advance(w)
           \/ worker' = [worker EXCEPT ![w] = "completed"] /\ index' = index
    BY <1>8 DEF Skip, Complete, history
  <2>2. /\ worker'[w] \in {"next", "completed"} /\ phase'[w] = "none"
        /\ \A v \in Slots \ {w} : /\ worker'[v] = worker[v] /\ phase'[v] = phase[v]
                                  /\ index'[v] = index[v]
    BY <2>1, <1>0, AdvanceTyped
  <2>3. ~UnderWay(w)'
    BY <2>2 DEF UnderWay
  <2> QED BY <2>1, <2>2, <2>3, FewerUnderWay
<1>9. CASE StartBeside
  <2>1. /\ Begin /\ UNCHANGED <<phase, index, artifacts, doubled>>
        /\ worker' = [w \in Slots |-> IF w \in Team(starts') THEN "next" ELSE worker[w]]
    BY <1>9 DEF StartBeside, Begin, history
  <2>2. ASSUME NEW w \in Slots
        PROVE  \/ ~UnderWay(w)' /\ phase'[w] = "none"
               \/ worker'[w] = worker[w] /\ index'[w] = index[w] /\ phase'[w] = phase[w]
    BY <2>1, BeginWorkers DEF UnderWay
  <2> QED BY <2>1, <2>2, FewerUnderWay
<1>10. CASE StartAlone
  <2>1. /\ UNCHANGED <<artifacts, doubled>>
        /\ worker' = [w \in Slots |-> IF w \in Team(starts') THEN "next" ELSE "none"]
        /\ phase' = [w \in Slots |-> "none"]
    BY <1>10 DEF StartAlone, Begin, history
  <2>2. \A w \in Slots : ~UnderWay(w)' /\ phase'[w] = "none"
    BY <2>1 DEF UnderWay
  <2> QED BY <2>1, <2>2, FewerUnderWay
<1>11. ASSUME NEW t \in Threads, LlmStep(t) \/ PoolSearch(t) PROVE DiskInv'
  BY <1>11, FewerUnderWay DEF LlmStep, PoolSearch, loop, history
<1>12. CASE UNCHANGED vars
  BY <1>12, FewerUnderWay DEF vars, loop, history
<1> QED BY <1>1, <1>2, <1>4, <1>5, <1>6, <1>7, <1>8, <1>9, <1>10, <1>11, <1>12
        DEF Next, WorkerStep, Done

(***************************************************************************)
(* Locks: the owner of a file knows its name, and only a live process      *)
(* searches.                                                               *)
(***************************************************************************)

\* A name stands for one file, as O_EXCL has it.
FileNames == \A f, g \in lockFiles : f.token = g.token /\ f.pid = g.pid => f = g

\* A searcher that still claims has tries left, and its process lives.
LockInv ==
  /\ LockTypeOK
  /\ FileNames
  /\ UserHasFile
  /\ \A t \in Threads : search[t] = "claim" => attempt[t] < MaxAttempts
  /\ \A t \in Threads : search[t] # "none" => pid[t[1]] # NoPid

\* A searcher goes on to another index or gives up.
LEMMA TryNextTyped ==
  ASSUME LockInv, NEW t \in Threads, search[t] = "claim", TryNext(t)
  PROVE  /\ search' \in [Threads -> SearchStates]
         /\ token' \in [Threads -> 0..(TokenCount - 1)]
         /\ attempt' \in [Threads -> 0..MaxAttempts]
         /\ \A u \in Threads : u # t => search'[u] = search[u] /\ token'[u] = token[u]
                                         /\ attempt'[u] = attempt[u]
         /\ search'[t] = "none" \/ (search'[t] = "claim" /\ attempt'[t] < MaxAttempts)
<1> USE TokenAssumption DEF LockInv, LockTypeOK
<1>1. token[t] \in 0..(TokenCount - 1) /\ attempt[t] \in 0..MaxAttempts /\ attempt[t] < MaxAttempts
  OBVIOUS
<1>2. CASE token[t] + 1 < TokenCount
  BY <1>1, <1>2 DEF TryNext
<1>3. CASE ~(token[t] + 1 < TokenCount)
  <2>1. /\ token' = [token EXCEPT ![t] = 0]
        /\ attempt' = [attempt EXCEPT ![t] = attempt[t] + 1]
        /\ search' = IF attempt[t] + 1 < MaxAttempts THEN search
                       ELSE [search EXCEPT ![t] = "none"]
    BY <1>3 DEF TryNext
  <2>2. 0 \in 0..(TokenCount - 1) /\ attempt[t] + 1 \in 0..MaxAttempts
    BY <1>1
  <2>3. search' \in [Threads -> SearchStates]
    BY <2>1 DEF SearchStates
  <2> QED BY <2>1, <2>2, <2>3
<1> QED BY <1>2, <1>3

\* A new file has a name that no other one has.
LEMMA CreatedFile ==
  ASSUME LockInv, NEW t \in Threads, NEW owner \in Threads \cup {NoOwner},
         pid[t[1]] # NoPid, Named(t) = {}, lockFiles' = Created(t, owner)
  PROVE  /\ FileNames'
         /\ lockFiles' \subseteq [token : 0..(TokenCount - 1), pid : Pids,
                                   owner : Threads \cup {NoOwner}]
         /\ [token |-> token[t], pid |-> pid[t[1]], owner |-> owner] \in lockFiles'
         /\ lockFiles \subseteq lockFiles'
<1> DEFINE new == [token |-> token[t], pid |-> pid[t[1]], owner |-> owner]
<1>1. lockFiles' = lockFiles \cup {new}
  BY DEF Created
<1>2. new \in [token : 0..(TokenCount - 1), pid : Pids, owner : Threads \cup {NoOwner}]
  <2>1. pid[t[1]] \in Pids /\ token[t] \in 0..(TokenCount - 1)
    BY ThreadSlot DEF LockInv, LockTypeOK
  <2> QED BY <2>1
<1>3. \A f \in lockFiles : ~(f.token = new.token /\ f.pid = new.pid)
  BY DEF Named
<1> HIDE DEF new
<1>4. FileNames'
  BY <1>1, <1>3 DEF FileNames, LockInv
<1> QED BY <1>1, <1>2, <1>4 DEF LockInv, LockTypeOK, new

\* The threads of a process have their locks to themselves: a step of t.
LEMMA SearchLocks ==
  ASSUME LockInv, WorkersInv, NEW t \in Threads, todo[t] # <<>>, SearchStep(t), UNCHANGED pid
  PROVE  LockInv'
<1> DEFINE Files == [token : 0..(TokenCount - 1), pid : Pids, owner : Threads \cup {NoOwner}]
<1>1. pid[t[1]] # NoPid
  BY ThreadSlot DEF WorkersInv
<1>2. CASE NewSearcher(t)
  <2>1. search' = [search EXCEPT ![t] = "claim"] /\ token' = [token EXCEPT ![t] = 0]
        /\ attempt' = [attempt EXCEPT ![t] = 0] /\ robbed' = robbed
        /\ lockFiles' = {f \in lockFiles : f.pid \in Alive}
    BY <1>2 DEF NewSearcher
  <2>2. LockTypeOK'
    <3>1. 0 \in 0..(TokenCount - 1) /\ 0 \in 0..MaxAttempts
      BY TokenAssumption
    <3> QED BY <2>1, <3>1 DEF LockInv, LockTypeOK, SearchStates
  <2>3. FileNames'
    BY <2>1 DEF LockInv, FileNames
  <2>4. UserHasFile'
    <3> SUFFICES ASSUME NEW u \in Threads, search'[u] = "use", u \notin robbed'
                 PROVE  [token |-> token'[u], pid |-> pid'[u[1]], owner |-> u] \in lockFiles'
      BY DEF UserHasFile
    <3>1. u # t /\ search[u] = "use" /\ token'[u] = token[u] /\ pid' = pid /\ u \notin robbed
      BY <2>1 DEF LockInv, LockTypeOK
    <3>2. [token |-> token[u], pid |-> pid[u[1]], owner |-> u] \in lockFiles
      BY <3>1 DEF LockInv, UserHasFile
    <3>3. pid[u[1]] \in Alive
      BY <3>1, ThreadSlot DEF Alive, LockInv
    <3>4. PICK file \in lockFiles : file = [token |-> token[u], pid |-> pid[u[1]], owner |-> u]
      BY <3>2
    <3>5. file.pid = pid[u[1]]
      BY <3>4
    <3>6. file \in lockFiles'
      BY <2>1, <3>3, <3>5
    <3> QED BY <3>1, <3>4, <3>6
  <2>5. \A u \in Threads : search'[u] = "claim" => attempt'[u] < MaxAttempts
    BY <2>1, TokenAssumption DEF LockInv, LockTypeOK
  <2>6. \A u \in Threads : search'[u] # "none" => pid'[u[1]] # NoPid
    BY <1>1, <2>1 DEF LockInv, LockTypeOK
  <2> QED BY <2>2, <2>3, <2>4, <2>5, <2>6 DEF LockInv
<1>3. CASE Claim(t)
  <2>1. search' = [search EXCEPT ![t] = "use"] /\ UNCHANGED <<token, attempt, robbed>>
        /\ Named(t) = {} /\ lockFiles' = Created(t, t)
    BY <1>3 DEF Claim
  <2>2. FileNames' /\ lockFiles' \subseteq Files /\ lockFiles \subseteq lockFiles'
        /\ [token |-> token[t], pid |-> pid[t[1]], owner |-> t] \in lockFiles'
    BY <1>1, <2>1, CreatedFile
  <2>3. LockTypeOK'
    BY <2>1, <2>2 DEF LockInv, LockTypeOK, SearchStates
  <2>4. UserHasFile'
    BY <2>1, <2>2 DEF LockInv, LockTypeOK, UserHasFile
  <2> QED BY <1>1, <2>1, <2>2, <2>3, <2>4 DEF LockInv, LockTypeOK
<1>4. CASE ClaimTaken(t) \/ ClaimOrphans(t)
  <2>1. search[t] = "claim" /\ TryNext(t) /\ robbed' = robbed
    BY <1>4 DEF ClaimTaken, ClaimOrphans
  <2>2. FileNames' /\ lockFiles' \subseteq Files /\ lockFiles \subseteq lockFiles'
    <3>1. CASE ClaimTaken(t)
      BY <3>1 DEF ClaimTaken, LockInv, LockTypeOK, FileNames
    <3>2. CASE ClaimOrphans(t)
      BY <3>2, <1>1, CreatedFile DEF ClaimOrphans
    <3> QED BY <1>4, <3>1, <3>2
  <2>3. LockTypeOK'
    BY <2>1, <2>2, TryNextTyped DEF LockInv, LockTypeOK
  <2>4. \A u \in Threads : u # t => search'[u] = search[u] /\ token'[u] = token[u]
                                     /\ attempt'[u] = attempt[u]
    BY <2>1, TryNextTyped
  <2>5. search'[t] = "none" \/ (search'[t] = "claim" /\ attempt'[t] < MaxAttempts)
    BY <2>1, TryNextTyped
  <2>6. UserHasFile'
    BY <2>1, <2>2, <2>4, <2>5 DEF LockInv, UserHasFile
  <2> QED BY <1>1, <2>2, <2>3, <2>4, <2>5, <2>6 DEF LockInv
<1>5. CASE Release(t) \/ ReleaseAgain(t)
  <2>1. /\ Remove(t) /\ UNCHANGED <<token, attempt>>
        /\ \E to \in {"released", "none"} : search' = [search EXCEPT ![t] = to]
    BY <1>5 DEF Release, ReleaseAgain
  <2>2. lockFiles' = lockFiles \ Named(t)
        /\ robbed' = (robbed \cup {f.owner : f \in Named(t)}) \ {t, NoOwner}
    BY <2>1 DEF Remove
  <2>3. robbed' \subseteq Threads
    BY <2>2 DEF LockInv, LockTypeOK, Named
  <2>4. LockTypeOK'
    BY <2>1, <2>2, <2>3 DEF LockInv, LockTypeOK, SearchStates
  <2>5. FileNames'
    BY <2>2 DEF LockInv, FileNames
  <2>6. UserHasFile'
    <3> SUFFICES ASSUME NEW u \in Threads, search'[u] = "use", u \notin robbed'
                 PROVE  [token |-> token'[u], pid |-> pid'[u[1]], owner |-> u] \in lockFiles'
      BY DEF UserHasFile
    <3> DEFINE file == [token |-> token[u], pid |-> pid[u[1]], owner |-> u]
    <3>1. u # t /\ search[u] = "use" /\ token' = token /\ pid' = pid
      BY <2>1 DEF LockInv, LockTypeOK
    <3>2. u \notin robbed
      BY <2>2, <3>1, TokenAssumption
    <3>3. file \in lockFiles
      BY <3>1, <3>2 DEF LockInv, UserHasFile
    <3>4. file \notin Named(t)
      BY <2>2, <3>1, TokenAssumption
    <3> QED BY <2>2, <3>1, <3>3, <3>4
  <2> QED BY <1>1, <2>1, <2>4, <2>5, <2>6 DEF LockInv, LockTypeOK
<1> QED BY <1>2, <1>3, <1>4, <1>5 DEF SearchStep

\* A process is gone, or all are: the files stay, and nobody is left who uses them.
LEMMA ForgetLocks ==
  ASSUME LockInv, NEW S \in SUBSET Slots, UNCHANGED lockFiles,
         pid' = [s \in Slots |-> IF s \in S THEN NoPid ELSE pid[s]],
         search' = [t \in Threads |-> IF t[1] \in S THEN "none" ELSE search[t]],
         token' = [t \in Threads |-> IF t[1] \in S THEN 0 ELSE token[t]],
         attempt' = [t \in Threads |-> IF t[1] \in S THEN 0 ELSE attempt[t]],
         robbed' = {t \in robbed : t[1] \notin S}
  PROVE  LockInv'
<1>1. 0 \in 0..(TokenCount - 1) /\ 0 \in 0..MaxAttempts
  BY TokenAssumption
<1>2. pid' \in [Slots -> Pids \cup {NoPid}] /\ search' \in [Threads -> SearchStates]
  BY DEF LockInv, LockTypeOK, SearchStates
<1>3. token' \in [Threads -> 0..(TokenCount - 1)] /\ attempt' \in [Threads -> 0..MaxAttempts]
  BY <1>1 DEF LockInv, LockTypeOK
<1>4. \A t \in Threads : search'[t] # "none" =>
        /\ search'[t] = search[t] /\ token'[t] = token[t] /\ attempt'[t] = attempt[t]
        /\ pid'[t[1]] = pid[t[1]] /\ (t \in robbed' <=> t \in robbed)
  BY ThreadSlot
<1>5. UserHasFile'
  BY <1>4 DEF LockInv, UserHasFile
<1>6. LockTypeOK' /\ FileNames'
  BY <1>2, <1>3 DEF LockInv, LockTypeOK, FileNames
<1> QED BY <1>4, <1>5, <1>6 DEF LockInv

LEMMA StepLocks == WorkersInv /\ LockInv /\ [Next]_vars => LockInv'
<1> SUFFICES ASSUME WorkersInv, LockInv, [Next]_vars PROVE LockInv'
  OBVIOUS
<1>1. ASSUME UNCHANGED <<pid, locks>> PROVE LockInv'
  BY <1>1 DEF LockInv, LockTypeOK, FileNames, UserHasFile, locks
<1>2. ASSUME NEW w \in Slots, StartProcess(w) PROVE LockInv'
  <2>1. PICK p \in Pids : pid' = [pid EXCEPT ![w] = p]
    BY <1>2 DEF StartProcess
  <2>2. UNCHANGED <<lockFiles, search, token, attempt, robbed>> /\ pid[w] = NoPid
    BY <1>2 DEF StartProcess, WorkersInv, locks
  <2>3. \A t \in Threads : search[t] # "none" => t[1] # w /\ pid'[t[1]] = pid[t[1]]
    BY <2>1, <2>2, ThreadSlot DEF LockInv, LockTypeOK
  <2>4. LockTypeOK'
    BY <2>1, <2>2 DEF LockInv, LockTypeOK
  <2>5. UserHasFile' /\ FileNames'
    BY <2>2, <2>3 DEF LockInv, UserHasFile, FileNames
  <2> QED BY <2>2, <2>3, <2>4, <2>5 DEF LockInv
<1>3. ASSUME NEW w \in Slots, WriteReport(w) \/ ProcessDies(w) PROVE LockInv'
  <2>1. \E ok \in BOOLEAN : Exit(w, ok)
    BY <1>3 DEF WriteReport, ProcessDies
  <2>2. pid' = [s \in Slots |-> IF s \in {w} THEN NoPid ELSE pid[s]]
    BY <2>1 DEF Exit, LockInv, LockTypeOK
  <2>3. /\ UNCHANGED lockFiles
        /\ search' = [t \in Threads |-> IF t[1] \in {w} THEN "none" ELSE search[t]]
        /\ token' = [t \in Threads |-> IF t[1] \in {w} THEN 0 ELSE token[t]]
        /\ attempt' = [t \in Threads |-> IF t[1] \in {w} THEN 0 ELSE attempt[t]]
        /\ robbed' = {t \in robbed : t[1] \notin {w}}
    BY <2>1 DEF Exit, ForgetSearches
  <2> QED BY <2>2, <2>3, ForgetLocks
<1>4. CASE StartAlone
  <2>1. \A t \in robbed : t[1] \in Slots
    BY ThreadSlot DEF LockInv, LockTypeOK
  <2> QED BY <1>4, <2>1, ThreadSlot, ForgetLocks DEF StartAlone, Begin
<1>5. ASSUME NEW t \in Threads, LlmStep(t) PROVE LockInv'
  BY <1>1, <1>5 DEF LlmStep
<1>6. ASSUME NEW t \in Threads, PoolSearch(t) PROVE LockInv'
  BY <1>6, SearchLocks DEF PoolSearch, Begins
<1>7. ASSUME NEW w \in Slots,
             Skip(w) \/ Choose(w) \/ Complete(w) \/ MakeDirectory(w) \/ WriteSummary(w)
      PROVE  LockInv'
  BY <1>1, <1>7 DEF Skip, Choose, Complete, MakeDirectory, WriteSummary
<1>8. CASE StartBeside \/ UNCHANGED vars
  BY <1>1, <1>8 DEF vars, StartBeside, Begin, locks
<1> QED BY <1>2, <1>3, <1>4, <1>5, <1>6, <1>7, <1>8 DEF Next, WorkerStep, Done

LEMMA InitLocks == Init => LockInv
<1> SUFFICES ASSUME Init PROVE LockInv
  OBVIOUS
<1>1. 0 \in 0..(TokenCount - 1) /\ 0 \in 0..MaxAttempts
  BY TokenAssumption
<1> QED BY <1>1 DEF Init, LockInit, LockInv, LockTypeOK, FileNames, UserHasFile, SearchStates

\* Two users of one token in one process would have one file.
LEMMA FileOfOne == LockInv => ExclusiveInProcess
<1> SUFFICES ASSUME LockInv, NEW t \in Threads, NEW u \in Threads, t # u, t[1] = u[1],
                    search[t] = "use", search[u] = "use", token[t] = token[u],
                    t \notin robbed, u \notin robbed
             PROVE  FALSE
  BY DEF ExclusiveInProcess
<1> DEFINE file(v) == [token |-> token[v], pid |-> pid[v[1]], owner |-> v]
<1>1. file(t) \in lockFiles /\ file(u) \in lockFiles
  BY DEF LockInv, UserHasFile
<1>2. file(t) = file(u)
  BY <1>1 DEF LockInv, FileNames
<1> QED BY <1>2

(***************************************************************************)
(* Costs: what a thread has left is the end of its program, and each call  *)
(* it has behind it, or has open, is counted once.                         *)
(***************************************************************************)

Open(p) == {t \in Threads : t[1] = p /\ call[t] = "open"}

Suffix(t) ==
  /\ Len(todo[t]) <= Len(Program[t])
  /\ \A i \in 1..Len(todo[t]) : todo[t][i] = Program[t][Len(Program[t]) - Len(todo[t]) + i]

Balance(p) ==
  /\ IsFiniteSet(CallsEnded(p)) /\ IsFiniteSet(Open(p))
  /\ Cardinality(CallsEnded(p)) + Cardinality(Open(p)) = numCalls[p] + started[p]
  /\ Cardinality(Open(p)) <= started[p]

Times(p) ==
  /\ totalTime[p] <= numCalls[p]
  /\ numCalls[p] > 0 => totalTime[p] > 0
  /\ \A t \in Threads : t[1] = p /\ call[t] = "loaded" => loaded[t] <= numCalls[p]

Untouched(p) ==
  /\ started[p] = 0 /\ numCalls[p] = 0 /\ totalTime[p] = 0
  /\ \A t \in Threads : t[1] = p => call[t] = "none"

CostsType ==
  /\ call \in [Threads -> {"none", "open", "loaded"}]
  /\ loaded \in [Threads -> Nat]
  /\ started \in [Slots -> Nat] /\ numCalls \in [Slots -> Nat]
  /\ totalTime \in [Slots -> Nat]

CostsInv ==
  /\ CostsType
  /\ \A p \in Slots : phase[p] = "none" => Untouched(p)
  /\ \A t \in Threads : phase[t[1]] # "none" => Suffix(t)
  /\ \A p \in Slots : phase[p] # "none" => Balance(p) /\ Times(p)

LEMMA CostsImply == CostsInv => CostsCounted
<1> SUFFICES ASSUME CostsInv, NEW p \in Slots, phase[p] # "none"
             PROVE  /\ Cardinality(CallsEnded(p)) = numCalls[p] + started[p] - Cardinality(Open(p))
                    /\ totalTime[p] <= numCalls[p]
                    /\ numCalls[p] > 0 => totalTime[p] > 0
  BY DEF CostsCounted, Open
<1>1. Cardinality(CallsEnded(p)) \in Nat /\ Cardinality(Open(p)) \in Nat
  BY FS_CardinalityType DEF CostsInv, Balance
<1>2. numCalls[p] \in Nat /\ started[p] \in Nat
  BY DEF CostsInv, CostsType
<1> QED BY <1>1, <1>2 DEF CostsInv, Balance, Times

\* The end s of a sequence p without its first element is the end of p.
LEMMA ShorterSuffix ==
  ASSUME NEW S, NEW p \in Seq(S), NEW s \in Seq(S), s # <<>>, Len(s) <= Len(p),
         \A i \in 1..Len(s) : s[i] = p[Len(p) - Len(s) + i],
         NEW n, n = Len(p) - Len(s) + 1
  PROVE  /\ n \in Nat /\ p[n] = Head(s)
         /\ Len(p) - Len(Tail(s)) = n /\ Len(p) - Len(s) = n - 1
         /\ Len(Tail(s)) <= Len(p)
         /\ \A i \in 1..Len(Tail(s)) : Tail(s)[i] = p[Len(p) - Len(Tail(s)) + i]
<1>1. PICK m \in Nat, k \in Nat : m = Len(p) /\ k = Len(s)
  BY LenProperties
<1>2. k # 0
  BY <1>1, EmptySeq
<1>3. Len(Tail(s)) = k - 1 /\ \A i \in 1..(k - 1) : Tail(s)[i] = s[i + 1]
  BY <1>1, HeadTailProperties
<1>4. Head(s) = s[1]
  BY HeadTailProperties
<1>5. \A i \in 1..k : s[i] = p[m - k + i]
  BY <1>1
<1>6. n \in Nat /\ n = m - k + 1 /\ k <= m
  BY <1>1
<1>7. ASSUME NEW i \in 1..(k - 1) PROVE Tail(s)[i] = p[m - (k - 1) + i]
  <2>1. i + 1 \in 1..k
    BY <1>2
  <2>2. s[i + 1] = p[m - k + (i + 1)]
    BY <2>1, <1>5
  <2>3. m - k + (i + 1) = m - (k - 1) + i
    OBVIOUS
  <2> QED BY <2>2, <2>3, <1>3
<1>8. 1 \in 1..k
  BY <1>2
<1>9. p[n] = Head(s)
  BY <1>4, <1>5, <1>6, <1>8
<1>10. m - (k - 1) = n /\ m - k = n - 1 /\ k - 1 <= m
  <2>1. m - (k - 1) = n
    BY <1>6
  <2>2. m - k = n - 1
    BY <1>6
  <2>3. k - 1 <= m
    BY <1>6
  <2> QED BY <2>1, <2>2, <2>3
<1> QED BY <1>1, <1>3, <1>6, <1>7, <1>9, <1>10

\* A task that ends is the first that is left of the thread's program.
LEMMA TaskEnds ==
  ASSUME WorkersInv, Program' = Program,
         NEW t \in Threads, todo[t] # <<>>, Ended(t), Suffix(t)
  PROVE  /\ Suffix(t)'
         /\ \E n \in Nat : /\ Program[t][n] = Head(todo[t])
                           /\ EndedTasks(t)' = EndedTasks(t) \cup {n} /\ n \notin EndedTasks(t)
         /\ \A u \in Threads \ {t} : todo'[u] = todo[u]
<1>1. Program[t] \in Seq({"llm", "search"}) /\ todo[t] \in Seq({"llm", "search"})
  BY PlanFacts DEF WorkersInv
<1>2. todo'[t] = Tail(todo[t]) /\ \A u \in Threads \ {t} : todo'[u] = todo[u]
  BY DEF Ended, WorkersInv
<1>3. PICK n : n = Len(Program[t]) - Len(todo[t]) + 1
  OBVIOUS
<1>4. /\ n \in Nat /\ Program[t][n] = Head(todo[t])
      /\ Len(Program[t]) - Len(todo'[t]) = n /\ Len(Program[t]) - Len(todo[t]) = n - 1
      /\ Len(todo'[t]) <= Len(Program[t])
      /\ \A i \in 1..Len(todo'[t]) : todo'[t][i] = Program[t][Len(Program[t]) - Len(todo'[t]) + i]
  <2> HIDE <1>2
  <2>1. /\ n \in Nat /\ Program[t][n] = Head(todo[t])
        /\ Len(Program[t]) - Len(Tail(todo[t])) = n /\ Len(Program[t]) - Len(todo[t]) = n - 1
        /\ Len(Tail(todo[t])) <= Len(Program[t])
        /\ \A i \in 1..Len(Tail(todo[t])) :
              Tail(todo[t])[i] = Program[t][Len(Program[t]) - Len(Tail(todo[t])) + i]
    <3>1. PICK p, s : p = Program[t] /\ s = todo[t]
      OBVIOUS
    <3>2. p \in Seq({"llm", "search"}) /\ s \in Seq({"llm", "search"}) /\ s # <<>>
          /\ n = Len(p) - Len(s) + 1
      BY <1>1, <1>3, <3>1
    <3>3. Len(s) <= Len(p) /\ \A i \in 1..Len(s) : s[i] = p[Len(p) - Len(s) + i]
      BY <3>1 DEF Suffix
    <3>4. /\ n \in Nat /\ p[n] = Head(s)
          /\ Len(p) - Len(Tail(s)) = n /\ Len(p) - Len(s) = n - 1
          /\ Len(Tail(s)) <= Len(p)
          /\ \A i \in 1..Len(Tail(s)) : Tail(s)[i] = p[Len(p) - Len(Tail(s)) + i]
      BY <3>2, <3>3, ShorterSuffix
    <3> QED BY <3>1, <3>4
  <2> QED BY <2>1, <1>2
<1>5. Suffix(t)'
  BY <1>4 DEF Suffix
<1>6. EndedTasks(t)' = 1..n /\ EndedTasks(t) = 1..(n - 1)
  BY <1>4 DEF EndedTasks
<1>7. 1..n = 1..(n - 1) \cup {n} /\ n \notin 1..(n - 1)
  <2>1. n - 1 \in Nat
    BY <1>1, <1>4, LenProperties DEF Suffix
  <2> QED BY <2>1, <1>4
<1> QED BY <1>2, <1>4, <1>5, <1>6, <1>7

\* The calls behind a process after one of its tasks.
LEMMA CallEnds ==
  ASSUME WorkersInv, Program' = Program, NEW p \in Slots,
         NEW t \in Threads, todo[t] # <<>>, Ended(t), Suffix(t)
  PROVE  /\ t[1] # p \/ Head(todo[t]) # "llm" => CallsEnded(p)' = CallsEnded(p)
         /\ t[1] = p /\ Head(todo[t]) = "llm" =>
               \E e : e \notin CallsEnded(p) /\ CallsEnded(p)' = CallsEnded(p) \cup {e}
<1> DEFINE Calls(u) == {<<u, i>> : i \in {j \in EndedTasks(u) : Program[u][j] = "llm"}}
           Of(q) == {u \in Threads : u[1] = q}
<1>1. PICK n \in Nat :
        /\ Program[t][n] = Head(todo[t])
        /\ EndedTasks(t)' = EndedTasks(t) \cup {n} /\ n \notin EndedTasks(t)
  BY TaskEnds
<1>2. \A u \in Threads \ {t} : EndedTasks(u)' = EndedTasks(u)
  BY TaskEnds DEF EndedTasks
<1>3. \A e : e \in CallsEnded(p) <=>
        \E u \in Threads : u[1] = p /\ \E j \in EndedTasks(u) : Program[u][j] = "llm" /\ e = <<u, j>>
  BY DEF CallsEnded
<1>4. \A e : e \in CallsEnded(p)' <=>
        \E u \in Threads : u[1] = p /\ \E j \in EndedTasks(u)' : Program[u][j] = "llm" /\ e = <<u, j>>
  BY DEF CallsEnded
<1>5. ASSUME t[1] # p \/ Head(todo[t]) # "llm" PROVE CallsEnded(p)' = CallsEnded(p)
  <2>1. \A e : e \in CallsEnded(p)' <=> e \in CallsEnded(p)
    BY <1>1, <1>2, <1>3, <1>4, <1>5
  <2> QED BY <2>1
<1>6. ASSUME t[1] = p, Head(todo[t]) = "llm"
      PROVE  <<t, n>> \notin CallsEnded(p) /\ CallsEnded(p)' = CallsEnded(p) \cup {<<t, n>>}
  <2>1. \A e : e \in CallsEnded(p)' <=> e \in CallsEnded(p) \/ e = <<t, n>>
    BY <1>1, <1>2, <1>3, <1>4, <1>6
  <2>2. <<t, n>> \notin CallsEnded(p)
    BY <1>1, <1>3
  <2> QED BY <2>1, <2>2
<1> QED BY <1>5, <1>6

\* What is unchanged for the threads of a process keeps its account.
LEMMA SameAccount ==
  ASSUME NEW p \in Slots, Balance(p), Times(p), Program' = Program,
         \A t \in Threads : t[1] = p => todo'[t] = todo[t] /\ call'[t] = call[t]
                                                    /\ loaded'[t] = loaded[t],
         numCalls'[p] = numCalls[p], started'[p] = started[p], totalTime'[p] = totalTime[p]
  PROVE  Balance(p)' /\ Times(p)'
<1>1. Open(p)' = Open(p)
  BY DEF Open
<1>2. CallsEnded(p)' = CallsEnded(p)
  <2>1. \A e : e \in CallsEnded(p) <=>
          \E u \in Threads : u[1] = p /\ \E j \in EndedTasks(u) : Program[u][j] = "llm" /\ e = <<u, j>>
    BY DEF CallsEnded
  <2>2. \A e : e \in CallsEnded(p)' <=>
          \E u \in Threads : u[1] = p /\ \E j \in EndedTasks(u)' : Program[u][j] = "llm" /\ e = <<u, j>>
    BY DEF CallsEnded
  <2>3. \A u \in Threads : u[1] = p => EndedTasks(u)' = EndedTasks(u)
    BY DEF EndedTasks
  <2>4. \A e : e \in CallsEnded(p)' <=> e \in CallsEnded(p)
    BY <2>1, <2>2, <2>3
  <2> QED BY <2>4
<1> QED BY <1>1, <1>2 DEF Balance, Times

\* A thread's task ends that is no call, or whose call is no longer open: nothing else.
LEMMA SearchCosts ==
  ASSUME WorkersInv, CostsInv, Program' = Program, NEW t \in Threads, Begins(t, "search"),
         UNCHANGED todo \/ Ended(t), UNCHANGED <<tracker, phase>>
  PROVE  CostsInv'
<1>1. CASE UNCHANGED todo
  <2>1. \A p \in Slots : Balance(p) /\ Times(p) => Balance(p)' /\ Times(p)'
    BY <1>1, SameAccount DEF tracker
  <2>2. CostsType'
    BY DEF CostsInv, CostsType, tracker
  <2>3. ASSUME NEW p \in Slots, Untouched(p) PROVE Untouched(p)'
    BY <2>3 DEF Untouched, tracker
  <2>4. \A u \in Threads : Suffix(u) => Suffix(u)'
    BY <1>1 DEF Suffix
  <2> QED BY <2>1, <2>2, <2>3, <2>4 DEF CostsInv
<1>2. CASE Ended(t)
  <2>1. Suffix(t) /\ todo[t] # <<>> /\ Head(todo[t]) = "search"
    BY ThreadSlot DEF Begins, WorkersInv, CostsInv
  <2>2. Suffix(t)' /\ \A u \in Threads \ {t} : todo'[u] = todo[u]
    BY <1>2, <2>1, TaskEnds
  <2>3. \A p \in Slots : CallsEnded(p)' = CallsEnded(p)
    BY <1>2, <2>1, CallEnds
  <2>4. \A p \in Slots : Open(p)' = Open(p)
    BY DEF Open, tracker
  <2>5. ASSUME NEW p \in Slots, Balance(p), Times(p) PROVE Balance(p)' /\ Times(p)'
    BY <2>3, <2>4, <2>5 DEF Balance, Times, tracker
  <2>6. ASSUME NEW p \in Slots, Untouched(p) PROVE Untouched(p)'
    BY <2>6 DEF Untouched, tracker
  <2>7. CostsType'
    BY DEF CostsInv, CostsType, tracker
  <2>8. \A u \in Threads : Suffix(u) => Suffix(u)'
    BY <2>2 DEF Suffix
  <2> QED BY <2>5, <2>6, <2>7, <2>8 DEF CostsInv
<1> QED BY <1>1, <1>2

\* A step of a thread keeps the invariant when the account of its own process is kept.
LEMMA OtherAccounts ==
  ASSUME WorkersInv, CostsInv, Program' = Program, UNCHANGED phase,
         NEW t \in Threads, todo[t] # <<>>, CostsType',
         Suffix(t)', Balance(t[1])', Times(t[1])',
         \A u \in Threads \ {t} : todo'[u] = todo[u] /\ call'[u] = call[u] /\ loaded'[u] = loaded[u],
         \A p \in Slots \ {t[1]} : /\ numCalls'[p] = numCalls[p] /\ started'[p] = started[p]
                                   /\ totalTime'[p] = totalTime[p]
  PROVE  CostsInv'
<1>1. ASSUME NEW p \in Slots, p # t[1]
      PROVE  /\ phase[p] = "none" => Untouched(p)'
             /\ phase[p] # "none" => Balance(p)' /\ Times(p)'
  <2>1. \A u \in Threads : u[1] = p => u # t
    BY <1>1
  <2>2. phase[p] = "none" => Untouched(p)'
    BY <1>1, <2>1 DEF CostsInv, Untouched
  <2>3. phase[p] # "none" => Balance(p)' /\ Times(p)'
    BY <1>1, <2>1, SameAccount DEF CostsInv
  <2> QED BY <2>2, <2>3
<1>2. \A u \in Threads \ {t} : Suffix(u) => Suffix(u)'
  BY DEF Suffix
<1>3. phase[t[1]] # "none" /\ t[1] \in Slots
  BY ThreadSlot DEF WorkersInv
<1> QED BY <1>1, <1>2, <1>3 DEF CostsInv

LEMMA LlmCosts ==
  ASSUME WorkersInv, CostsInv, Program' = Program, NEW t \in Threads, LlmStep(t)
  PROVE  CostsInv'
<1> DEFINE p == t[1]
<1>0. /\ todo[t] # <<>> /\ Head(todo[t]) = "llm" /\ UNCHANGED phase /\ p \in Slots
      /\ Suffix(t) /\ Balance(p) /\ Times(p) /\ CostsType
  BY ThreadSlot DEF LlmStep, Begins, WorkersInv, CostsInv
<1>1. /\ IsFiniteSet(CallsEnded(p)) /\ IsFiniteSet(Open(p))
      /\ Cardinality(CallsEnded(p)) \in Nat /\ Cardinality(Open(p)) \in Nat
      /\ numCalls[p] \in Nat /\ started[p] \in Nat /\ totalTime[p] \in Nat /\ loaded[t] \in Nat
  BY <1>0, FS_CardinalityType DEF Balance, CostsType
<1>2. ASSUME CallsEnded(p)' = CallsEnded(p), UNCHANGED todo, CostsType', Balance(p)', Times(p)',
             \A u \in Threads \ {t} : call'[u] = call[u] /\ loaded'[u] = loaded[u],
             \A q \in Slots \ {p} : /\ numCalls'[q] = numCalls[q] /\ started'[q] = started[q]
                                   /\ totalTime'[q] = totalTime[q]
      PROVE  CostsInv'
  <2>1. Suffix(t)'
    BY <1>0, <1>2 DEF Suffix
  <2> HIDE DEF p
  <2> QED BY <1>0, <1>2, <2>1, OtherAccounts DEF p
<1>3. CASE OnLlmStart(t) /\ UNCHANGED todo
  <2>1. CallsEnded(p)' = CallsEnded(p)
    BY <1>3 DEF CallsEnded, EndedTasks
  <2>2. t \notin Open(p) /\ Open(p)' = Open(p) \cup {t}
    BY <1>0, <1>3 DEF OnLlmStart, Open, CostsType
  <2>3. started'[p] = started[p] + 1 /\ numCalls' = numCalls /\ totalTime' = totalTime /\ loaded' = loaded
        /\ call'[t] = "open" /\ (\A u \in Threads \ {t} : call'[u] = call[u])
        /\ \A q \in Slots \ {p} : started'[q] = started[q]
    BY <1>0, <1>3 DEF OnLlmStart, CostsType
  <2>4. CostsType'
    BY <1>0, <1>1, <1>3 DEF OnLlmStart, CostsType
  <2>5. IsFiniteSet(Open(p)') /\ Cardinality(Open(p)') = Cardinality(Open(p)) + 1
    BY <1>1, <2>2, FS_AddElement
  <2>6. Balance(p)'
    <3> HIDE DEF p
    <3>1. Cardinality(CallsEnded(p)) + Cardinality(Open(p)) = numCalls[p] + started[p]
          /\ Cardinality(Open(p)) <= started[p]
      BY <1>0 DEF Balance
    <3>2. Cardinality(CallsEnded(p)) + Cardinality(Open(p)') = numCalls'[p] + started'[p]
          /\ Cardinality(Open(p)') <= started'[p]
      BY <1>1, <2>3, <2>5, <3>1
    <3> QED BY <1>1, <2>1, <2>5, <3>2 DEF Balance
  <2>7. Times(p)'
    <3> HIDE DEF p
    <3> QED BY <1>0, <2>3 DEF Times
  <2> QED BY <1>2, <1>3, <2>1, <2>3, <2>4, <2>6, <2>7
<1>4. CASE LoadTime(t) /\ UNCHANGED todo
  <2>1. CallsEnded(p)' = CallsEnded(p)
    BY <1>4 DEF CallsEnded, EndedTasks
  <2>2. t \in Open(p) /\ Open(p)' = Open(p) \ {t}
    BY <1>0, <1>4 DEF LoadTime, Open, CostsType
  <2>3. started'[p] = started[p] - 1 /\ numCalls' = numCalls /\ totalTime' = totalTime
        /\ call'[t] = "loaded" /\ (\A u \in Threads \ {t} : call'[u] = call[u] /\ loaded'[u] = loaded[u])
        /\ loaded'[t] = totalTime[p]
        /\ \A q \in Slots \ {p} : started'[q] = started[q]
    BY <1>0, <1>4 DEF LoadTime, CostsType
  <2>4. /\ IsFiniteSet(Open(p)') /\ Cardinality(Open(p)') = Cardinality(Open(p)) - 1
        /\ Cardinality(Open(p)') \in Nat
    BY <1>1, <2>2, FS_RemoveElement, FS_CardinalityType
  <2>5. started[p] - 1 \in Nat
    BY <1>0, <1>1, <2>4 DEF Balance
  <2>6. CostsType'
    BY <1>0, <1>1, <1>4, <2>5 DEF LoadTime, CostsType
  <2>7. Balance(p)'
    <3> HIDE DEF p
    <3>1. Cardinality(CallsEnded(p)) + Cardinality(Open(p)) = numCalls[p] + started[p]
          /\ Cardinality(Open(p)) <= started[p]
      BY <1>0 DEF Balance
    <3>2. Cardinality(CallsEnded(p)) + Cardinality(Open(p)') = numCalls'[p] + started'[p]
          /\ Cardinality(Open(p)') <= started'[p]
      BY <1>1, <2>3, <2>4, <3>1
    <3> QED BY <1>1, <2>1, <2>4, <3>2 DEF Balance
  <2>8. Times(p)'
    <3> HIDE DEF p
    <3> QED BY <1>0, <1>1, <2>3 DEF Times
  <2> QED BY <1>2, <1>4, <2>1, <2>3, <2>6, <2>7, <2>8
<1>5. ASSUME Ended(t) PROVE Suffix(t)' /\ \A u \in Threads \ {t} : todo'[u] = todo[u]
  BY <1>0, <1>5, TaskEnds
<1>6. CASE OnLlmError(t) /\ Ended(t)
  <2>1. PICK e : e \notin CallsEnded(p) /\ CallsEnded(p)' = CallsEnded(p) \cup {e}
    BY <1>0, <1>6, CallEnds
  <2>2. t \in Open(p) /\ Open(p)' = Open(p) \ {t}
    BY <1>0, <1>6 DEF OnLlmError, Open, CostsType
  <2>3. UNCHANGED <<loaded, started, numCalls, totalTime>> /\ call'[t] = "none"
        /\ \A u \in Threads \ {t} : call'[u] = call[u]
    BY <1>0, <1>6 DEF OnLlmError, CostsType
  <2>4. /\ IsFiniteSet(Open(p)') /\ Cardinality(Open(p)') = Cardinality(Open(p)) - 1
        /\ Cardinality(Open(p)') \in Nat
    BY <1>1, <2>2, FS_RemoveElement, FS_CardinalityType
  <2>5. IsFiniteSet(CallsEnded(p)') /\ Cardinality(CallsEnded(p)') = Cardinality(CallsEnded(p)) + 1
    BY <1>1, <2>1, FS_AddElement
  <2>6. CostsType'
    BY <1>0, <1>6 DEF OnLlmError, CostsType
  <2>7. Balance(p)'
    <3> HIDE DEF p
    <3>1. Cardinality(CallsEnded(p)) + Cardinality(Open(p)) = numCalls[p] + started[p]
          /\ Cardinality(Open(p)) <= started[p]
      BY <1>0 DEF Balance
    <3>2. Cardinality(CallsEnded(p)') + Cardinality(Open(p)') = numCalls'[p] + started'[p]
          /\ Cardinality(Open(p)') <= started'[p]
      BY <1>1, <2>3, <2>4, <2>5, <3>1
    <3> QED BY <1>1, <2>4, <2>5, <3>2 DEF Balance
  <2>8. Times(p)'
    <3> HIDE DEF p
    <3> QED BY <1>0, <1>1, <2>3 DEF Times
  <2> QED BY <1>0, <1>5, <1>6, <2>3, <2>6, <2>7, <2>8, OtherAccounts
<1>7. CASE StoreTime(t) /\ Ended(t)
  <2>1. PICK e : e \notin CallsEnded(p) /\ CallsEnded(p)' = CallsEnded(p) \cup {e}
    BY <1>0, <1>7, CallEnds
  <2>2. Open(p)' = Open(p)
    BY <1>0, <1>7 DEF StoreTime, Open, CostsType
  <2>3. started' = started /\ numCalls'[p] = numCalls[p] + 1 /\ totalTime'[p] = loaded[t] + 1
        /\ call'[t] = "none" /\ call[t] = "loaded"
        /\ (\A u \in Threads \ {t} : call'[u] = call[u] /\ loaded'[u] = loaded[u])
        /\ \A q \in Slots \ {p} : numCalls'[q] = numCalls[q] /\ totalTime'[q] = totalTime[q]
    BY <1>0, <1>7 DEF StoreTime, CostsType
  <2>4. IsFiniteSet(CallsEnded(p)') /\ Cardinality(CallsEnded(p)') = Cardinality(CallsEnded(p)) + 1
    BY <1>1, <2>1, FS_AddElement
  <2>5. CostsType'
    BY <1>0, <1>1, <1>7 DEF StoreTime, CostsType
  <2>6. Balance(p)'
    <3> HIDE DEF p
    <3>1. Cardinality(CallsEnded(p)) + Cardinality(Open(p)) = numCalls[p] + started[p]
          /\ Cardinality(Open(p)) <= started[p]
      BY <1>0 DEF Balance
    <3>2. Cardinality(CallsEnded(p)') + Cardinality(Open(p)) = numCalls'[p] + started'[p]
          /\ Cardinality(Open(p)) <= started'[p]
      BY <1>1, <2>3, <2>4, <3>1
    <3> QED BY <1>1, <2>2, <2>4, <3>2 DEF Balance
  <2>7. Times(p)'
    <3>1. loaded[t] <= numCalls[p]
      BY <1>0, <2>3 DEF Times
    <3>2. \A u \in Threads : u[1] = p /\ call'[u] = "loaded" => loaded'[u] <= numCalls'[p]
      <4>1. ASSUME NEW u \in Threads, u[1] = p, call'[u] = "loaded" PROVE loaded'[u] <= numCalls[p] + 1
        <5>1. loaded'[u] = loaded[u] /\ loaded[u] <= numCalls[p] /\ loaded[u] \in Nat
          BY <1>0, <2>3, <4>1 DEF Times, CostsType
        <5> QED BY <5>1, <1>1
      <4> QED BY <4>1, <2>3
    <3> HIDE DEF p
    <3> QED BY <1>1, <2>3, <3>1, <3>2 DEF Times
  <2> QED BY <1>0, <1>5, <1>7, <2>3, <2>5, <2>6, <2>7, OtherAccounts
<1> QED BY <1>3, <1>4, <1>6, <1>7 DEF LlmStep

\* Processes come and go with an account of their own: U are the slots without one
\* after the step, N those with a new one.
LEMMA ProcessCosts ==
  ASSUME WorkersInv, CostsInv, Program' = Program, NEW U, NEW N,
         U \subseteq Slots, N \subseteq Slots,
         CostsType', \A p \in U : Untouched(p)' /\ phase'[p] = "none",
         \A p \in N : Untouched(p) /\ Untouched(p)' /\ phase'[p] # "none",
         \A t \in Threads : t[1] \in N => todo'[t] = Program[t],
         \A p \in Slots \ (U \cup N) :
            /\ phase'[p] = "none" <=> phase[p] = "none"
            /\ numCalls'[p] = numCalls[p] /\ started'[p] = started[p] /\ totalTime'[p] = totalTime[p],
         \A t \in Threads : t[1] \notin U \cup N =>
            todo'[t] = todo[t] /\ call'[t] = call[t] /\ loaded'[t] = loaded[t]
  PROVE  CostsInv'
<1>1. ASSUME NEW p \in Slots, phase'[p] = "none" PROVE Untouched(p)'
  BY <1>1 DEF CostsInv, Untouched
<1>2. ASSUME NEW t \in Threads, phase'[t[1]] # "none" PROVE Suffix(t)'
  <2>1. CASE t[1] \in N
    <3>1. Program[t] \in Seq({"llm", "search"})
      BY PlanFacts DEF WorkersInv
    <3>2. PICK n \in Nat : n = Len(Program[t])
      BY <3>1, LenProperties
    <3>3. n <= n /\ \A i \in 1..n : Program[t][i] = Program[t][n - n + i]
      OBVIOUS
    <3> QED BY <2>1, <3>2, <3>3 DEF Suffix
  <2>2. CASE t[1] \notin N
    <3>1. t[1] \in Slots \ (U \cup N)
      BY <1>2, <2>2, ThreadSlot
    <3>2. phase[t[1]] # "none" /\ todo'[t] = todo[t]
      BY <1>2, <3>1
    <3>3. Suffix(t)
      BY <3>2 DEF CostsInv
    <3> QED BY <3>2, <3>3 DEF Suffix
  <2> QED BY <2>1, <2>2
<1>3. ASSUME NEW p \in Slots, phase'[p] # "none" PROVE Balance(p)' /\ Times(p)'
  <2>1. CASE p \in N
    <3>1. \A t \in Threads : t[1] = p => EndedTasks(t)' = {}
      <4> SUFFICES ASSUME NEW t \in Threads, t[1] = p PROVE EndedTasks(t)' = {}
        OBVIOUS
      <4>1. Program[t] \in Seq({"llm", "search"}) /\ todo'[t] = Program[t]
        BY <2>1, PlanFacts DEF WorkersInv
      <4>2. PICK n \in Nat : n = Len(Program[t])
        BY <4>1, LenProperties
      <4> QED BY <4>1, <4>2 DEF EndedTasks
    <3>2. CallsEnded(p)' = {}
      <4>1. \A e : e \in CallsEnded(p)' <=> \E u \in Threads : u[1] = p /\
              \E j \in EndedTasks(u)' : Program[u][j] = "llm" /\ e = <<u, j>>
        BY DEF CallsEnded
      <4> QED BY <3>1, <4>1
    <3>3. Open(p)' = {}
      BY <2>1 DEF Open, Untouched
    <3>4. numCalls'[p] = 0 /\ started'[p] = 0 /\ totalTime'[p] = 0
          /\ \A t \in Threads : t[1] = p => call'[t] = "none"
      BY <2>1 DEF Untouched
    <3>5. Balance(p)'
      BY <3>2, <3>3, <3>4, FS_EmptySet DEF Balance
    <3>6. Times(p)'
      BY <3>4 DEF Times
    <3> QED BY <3>5, <3>6
  <2>2. CASE p \notin N
    BY <1>3, <2>2, SameAccount DEF CostsInv
  <2> QED BY <2>1, <2>2
<1> QED BY <1>1, <1>2, <1>3 DEF CostsInv

LEMMA StepCosts == WorkersInv /\ CostsInv /\ [Next]_vars => CostsInv'
<1> SUFFICES ASSUME WorkersInv, CostsInv, [Next]_vars PROVE CostsInv'
  OBVIOUS
<1>p. plan' = plan /\ Program' = Program
  BY PlanKept
<1> USE <1>p
<1>1. ASSUME UNCHANGED <<tracker, todo>>,
             \A p \in Slots : phase'[p] = "none" <=> phase[p] = "none"
      PROVE  CostsInv'
  <2>1. CostsType'
    BY <1>1 DEF CostsInv, CostsType, tracker
  <2>2. PICK U, N : U = {} /\ N = {}
    OBVIOUS
  <2>3. U \subseteq Slots /\ N \subseteq Slots /\ Slots \ (U \cup N) = Slots
    BY <2>2
  <2> QED BY <1>1, <2>1, <2>2, <2>3, ProcessCosts DEF tracker
<1>2. ASSUME NEW w \in Slots, StartProcess(w) PROVE CostsInv'
  <2>1. UNCHANGED tracker /\ phase' = [phase EXCEPT ![w] = "work"] /\ phase[w] = "none"
        /\ todo' = [t \in Threads |-> IF t[1] = w THEN Program[t] ELSE todo[t]]
    BY <1>2 DEF StartProcess, WorkersInv
  <2>2. CostsType'
    BY <2>1 DEF CostsInv, CostsType, tracker
  <2>3. Untouched(w) /\ Untouched(w)'
    BY <2>1 DEF CostsInv, Untouched, tracker
  <2>4. phase'[w] = "work" /\ \A p \in Slots \ {w} : phase'[p] = phase[p]
    BY <2>1 DEF WorkersInv
  <2>5. PICK U, N : U = {} /\ N = {w}
    OBVIOUS
  <2>6. U \subseteq Slots /\ N \subseteq Slots /\ Slots \ (U \cup N) = Slots \ {w}
        /\ \A t \in Threads : t[1] \notin U \cup N => t[1] # w
    BY <2>5
  <2> QED BY <2>1, <2>2, <2>3, <2>4, <2>5, <2>6, ProcessCosts DEF tracker
<1>3. ASSUME NEW w \in Slots, WriteReport(w) \/ ProcessDies(w) PROVE CostsInv'
  <2>1. /\ phase' = [phase EXCEPT ![w] = "none"] /\ ForgetCalls(w)
        /\ todo' = [t \in Threads |-> IF t[1] = w THEN <<>> ELSE todo[t]]
    BY <1>3 DEF WriteReport, ProcessDies, Exit
  <2>2. CostsType'
    BY <2>1 DEF CostsInv, CostsType, ForgetCalls
  <2>3. Untouched(w)'
    BY <2>1 DEF Untouched, ForgetCalls, CostsInv, CostsType
  <2>4. phase'[w] = "none" /\ \A p \in Slots \ {w} : phase'[p] = phase[p]
    BY <2>1 DEF WorkersInv
  <2>5. \A p \in Slots \ {w} : numCalls'[p] = numCalls[p] /\ started'[p] = started[p]
                               /\ totalTime'[p] = totalTime[p]
    BY <2>1 DEF ForgetCalls, CostsInv, CostsType
  <2>6. \A t \in Threads : t[1] # w =>
            todo'[t] = todo[t] /\ call'[t] = call[t] /\ loaded'[t] = loaded[t]
    BY <2>1 DEF ForgetCalls
  <2>7. PICK U, N : U = {w} /\ N = {}
    OBVIOUS
  <2>8. U \subseteq Slots /\ N \subseteq Slots /\ Slots \ (U \cup N) = Slots \ {w}
        /\ \A t \in Threads : t[1] \notin U \cup N => t[1] # w
    BY <2>7
  <2> QED BY <2>2, <2>3, <2>4, <2>5, <2>6, <2>7, <2>8, ProcessCosts
<1>4. CASE StartAlone
  <2>1. CostsType'
    BY <1>4 DEF StartAlone, CostsType
  <2>2. \A p \in Slots : Untouched(p)' /\ phase'[p] = "none"
    BY <1>4 DEF StartAlone, Untouched
  <2>3. PICK U, N : U = Slots /\ N = {}
    OBVIOUS
  <2>4. U \subseteq Slots /\ N \subseteq Slots /\ Slots \ (U \cup N) = {}
        /\ \A t \in Threads : t[1] \in U \cup N
    BY <2>3, ThreadSlot
  <2> QED BY <2>1, <2>2, <2>3, <2>4, ProcessCosts
<1>5. ASSUME NEW w \in Slots, MakeDirectory(w) \/ WriteSummary(w) PROVE CostsInv'
  <2>1. /\ UNCHANGED <<tracker, todo>> /\ phase[w] # "none"
        /\ \E to \in {"summary", "report"} : phase' = [phase EXCEPT ![w] = to]
    BY <1>5 DEF MakeDirectory, WriteSummary
  <2> QED BY <1>1, <2>1 DEF WorkersInv
<1>6. ASSUME NEW w \in Slots, Skip(w) \/ Choose(w) \/ Complete(w) PROVE CostsInv'
  BY <1>1, <1>6 DEF Skip, Choose, Complete
<1>7. ASSUME NEW t \in Threads, PoolSearch(t) PROVE CostsInv'
  BY <1>7, SearchCosts DEF PoolSearch
<1>8. CASE StartBeside \/ UNCHANGED vars
  BY <1>1, <1>8 DEF vars, StartBeside
<1> QED BY <1>2, <1>3, <1>4, <1>5, <1>6, <1>7, <1>8, LlmCosts DEF Next, WorkerStep, Done

LEMMA InitCosts == Init => CostsInv
<1> SUFFICES ASSUME Init PROVE CostsInv
  OBVIOUS
<1>1. CostsType
  BY DEF Init, TrackerInit, CostsType
<1>2. \A p \in Slots : Untouched(p) /\ phase[p] = "none"
  BY DEF Init, TrackerInit, Untouched
<1> QED BY <1>1, <1>2, ThreadSlot DEF CostsInv

(***************************************************************************)
(* The theorems.                                                           *)
(***************************************************************************)

BatchInv == WorkersInv /\ ArtifactsInv /\ DiskInv /\ LockInv /\ CostsInv

\* The invariant of the batch holds however workers, processes and threads interleave,
\* die and are started again (start_semgrep.sh, impl_code_search.py, cost_tracker.py).
THEOREM BatchInvariant == Spec => []BatchInv
<1>1. Init => BatchInv
  BY InitBatch, InitLocks, InitCosts DEF BatchInv
<1>2. BatchInv /\ [Next]_vars => BatchInv'
  BY StepWorkers, StepArtifacts, StepDisk, StepLocks, StepCosts DEF BatchInv
<1> QED BY <1>1, <1>2, PTL DEF Spec

\* Every variable keeps its type, whatever dies or is started again: no worker leaves its
\* states, no lock file has a name out of the pool, a rule's report has its summary
\* and its directory, and the number of open calls never falls below zero.
THEOREM BatchTyped == Spec => []TypeOK
<1>1. BatchInv => TypeOK
  <2> SUFFICES ASSUME BatchInv PROVE TypeOK
    OBVIOUS
  <2>1. passed \subseteq AllRules
    BY DEF BatchInv, ArtifactsInv, reports
  <2> QED BY <2>1 DEF BatchInv, WorkersInv, ArtifactsInv, DiskInv, LockInv, CostsInv, CostsType, TypeOK
<1> QED BY <1>1, BatchInvariant, PTL

\* The files of a rule that no two starts had under way at once are of one process (the
\* test for the directory in process_worker, the mkdir and the two writes of cli()), for
\* any number of workers, starts and dead processes.
THEOREM OneRun == Spec => []OneRunOnDisk
<1>1. BatchInv => OneRunOnDisk
  BY DEF BatchInv, DiskInv
<1> QED BY <1>1, BatchInvariant, PTL

\* No rule is lost between the workers: a passed rule has its report, and at the end
\* every rule has one or has failed, or it has its directory and a process has died or
\* is one of an earlier start (the skip of process_worker).
THEOREM NoneLost == Spec => []NoneForgotten
<1>1. BatchInv => NoneForgotten
  <2> SUFFICES ASSUME BatchInv PROVE NoneForgotten
    OBVIOUS
  <2>1. ASSUME Finished, NEW r \in AllRules PROVE Handled(r)
    <3>1. PICK w \in Team(starts) : r \in Share(w)
      BY <2>1, SharesCover, Numbers DEF AllRules, BatchInv, WorkersInv
    <3>2. Rule(w) >= Rules /\ Rule(w) \in Nat
      BY <2>1 DEF BatchInv, WorkersInv, Finished, Rule, Team
    <3>3. r < Rule(w)
      BY <2>1, <3>2, Numbers DEF AllRules
    <3> QED BY <3>1, <3>3 DEF BatchInv, ArtifactsInv
  <2> QED BY <2>1 DEF NoneForgotten, Handled, Disturbed, BatchInv, ArtifactsInv
<1> QED BY <1>1, BatchInvariant, PTL

\* Token locks (_claim_token_lock, _cleanup_stale_locks, _release_token_lock), for any
\* number of processes, threads and tokens: the thread that uses a token has its file,
\* unless a second release of its own process took it.
THEOREM UserKeepsFile == Spec => []UserHasFile
<1>1. BatchInv => UserHasFile
  BY DEF BatchInv, LockInv
<1> QED BY <1>1, BatchInvariant, PTL

\* Two threads of a process use one token at once only after such a release.
THEOREM TokensExclusive == Spec => []ExclusiveInProcess
<1>1. BatchInv => ExclusiveInProcess
  BY FileOfOne DEF BatchInv
<1> QED BY <1>1, BatchInvariant, PTL

\* The summary of the cost tracker counts every call that ended well, whichever calls
\* overlapped (on_llm_end); the time may be too small and is never too large or lost.
THEOREM CostsAddUp == Spec => []CostsCounted
<1>1. BatchInv => CostsCounted
  BY CostsImply DEF BatchInv
<1> QED BY <1>1, BatchInvariant, PTL
=============================================================================
