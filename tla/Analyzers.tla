----------------------------- MODULE Analyzers -----------------------------
(***************************************************************************)
(* What the four analyzers (src/src/analyzers) make of one run of their    *)
(* tool.  A run is a record of how the subprocesses ended and what they    *)
(* wrote; checking it gives the issue flag and whether the check counts as *)
(* a success.  Each analyzer's set of outcomes is a constant of the model. *)
(*                                                                         *)
(* completed is not in the code: it says that the tool ran to its end and  *)
(* its result was read, as docs/adding_an_analyzer.md asks.                *)
(***************************************************************************)
EXTENDS Naturals

Tools == {"bandit", "codeql", "semgrep", "spotbugs"}

\* CheckResult, with what is true of the run behind it.
Outcome(issue, success, completed) ==
  [issue |-> issue, runtimeError |-> ~success, completed |-> completed]

-----------------------------------------------------------------------------
(* impl_bandit_check.py *)

\* How `bandit -f json` on the file ended: findings and errors are read from the
\* parsed report.
BanditRuns ==
  {r \in [started : BOOLEAN, parsed : BOOLEAN, findings : BOOLEAN, errors : BOOLEAN,
          code : 0..2] :
     /\ ~r.started => ~r.parsed
     /\ ~r.parsed => ~r.findings /\ ~r.errors}

\* Faulty variant: a report that cannot be parsed has no findings and no errors.
BanditTrustsNoReport(r) ==
  r.started /\ (r.findings \/ (~r.errors /\ r.code \in {0, 1}))

\* A finding settles the matter; without one, every failure reason counts.
BanditSucceeds(r) ==
  r.started /\ (r.findings \/ (r.parsed /\ ~r.errors /\ r.code \in {0, 1}))

BanditOutcomes ==
  {Outcome(r.findings, BanditSucceeds(r), r.parsed /\ ~r.errors /\ r.code \in {0, 1}) :
     r \in BanditRuns}

-----------------------------------------------------------------------------
(* impl_codeql_check.py *)

\* _run_with_timeout: the process ends, with code 0 or another, or its whole
\* process group is killed.
StepEnds == {"ok", "failed", "timeout"}

\* A run stops at the first step that does not end well, so the later fields of
\* the record do not matter.
CodeqlRuns ==
  [queryFile : BOOLEAN, create : StepEnds, database : BOOLEAN, query : StepEnds,
   decode : StepEnds, csv : BOOLEAN, rows : BOOLEAN]

CodeqlSucceeds(r) ==
  /\ r.queryFile
  /\ r.create = "ok" /\ r.database
  /\ r.query = "ok"
  /\ r.decode = "ok" /\ r.csv

\* More than the header line is an issue, in a run that came that far.
CodeqlOutcomes ==
  {Outcome(CodeqlSucceeds(r) /\ r.rows, CodeqlSucceeds(r),
           /\ {r.create, r.query, r.decode} = {"ok"}
           /\ r.queryFile /\ r.database /\ r.csv) : r \in CodeqlRuns}

-----------------------------------------------------------------------------
(* impl_semgrep_check.py *)

\* The text output is searched for "<n> findings" and for the marker of a finding;
\* semgrep ends with 2 or more after a fatal error.
SemgrepRuns ==
  [started : BOOLEAN, code : 0..2, summary : {"none", "zero", "some"}, marker : BOOLEAN]

SemgrepIssue(r) == r.started /\ (r.summary = "some" \/ r.marker)

\* Whatever the exit code, a run that could be started is a success.
SemgrepOutcomes ==
  {Outcome(SemgrepIssue(r), r.started, r.started /\ r.code \in {0, 1}) : r \in SemgrepRuns}

-----------------------------------------------------------------------------
(* impl_spotbugs_check.py *)

\* javac is called again, leniently, when it fails; both and spotbugs may time out.
SpotbugsRuns ==
  [strict : StepEnds, lenient : StepEnds, started : BOOLEAN, code : 0..2,
   timeout : BOOLEAN, report : {"missing", "broken", "clean", "bugs"}]

\* _compile_java_file: an exception, as a timeout is, ends it without the retry.
Compiles(r) == r.strict = "ok" \/ (r.strict = "failed" /\ r.lenient = "ok")

\* An absent or unreadable report is taken for one without bugs.
SpotbugsSucceeds(r) == Compiles(r) /\ r.started /\ ~r.timeout /\ r.code \in {0, 1}

SpotbugsOutcomes ==
  {Outcome(SpotbugsSucceeds(r) /\ r.report = "bugs", SpotbugsSucceeds(r),
           SpotbugsSucceeds(r) /\ r.report \in {"clean", "bugs"}) : r \in SpotbugsRuns}

-----------------------------------------------------------------------------
\* run_check_in_temp_dir of each analyzer.
Outcomes ==
  [bandit |-> BanditOutcomes, codeql |-> CodeqlOutcomes,
   semgrep |-> SemgrepOutcomes, spotbugs |-> SpotbugsOutcomes]
=============================================================================
