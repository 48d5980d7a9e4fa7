--------------------------- MODULE MCBatchWorkers ---------------------------
(* An instance of BatchWorkers for TLC: two workers on three rules.           *)
EXTENDS BatchWorkers, TLC

\* What the threads of the processes have to do; one without tasks of its threads
\* has only to write its files.
MCThreads ==
  {<<<<1, 0>>, 1>>, <<<<1, 1>>, 1>>, <<<<1, 1>>, 2>>, <<<<2, 0>>, 1>>, <<<<2, 1>>, 1>>}
Programs(programs) == programs @@ [t \in MCThreads |-> <<>>]

\* One start: the process of the second worker has two threads that contend for the
\* only token and end LLM calls at the same time, and one of them searches twice.
Busy == [starts |-> 1, crashes |-> 1, program |-> Programs(
  (<<<<1, 0>>, 1>> :> <<"search">>)
    @@ (<<<<1, 1>>, 1>> :> <<"llm", "search", "search">>)
    @@ (<<<<1, 1>>, 2>> :> <<"llm", "search">>))]

\* Two starts, with processes of either that search.
Twice == [starts |-> 2, crashes |-> 0, program |-> Programs(
  (<<<<1, 1>>, 1>> :> <<"search">>) @@ (<<<<2, 0>>, 1>> :> <<"search">>))]

\* Two starts, and a process that dies.
TwiceAndCrash == [starts |-> 2, crashes |-> 1, program |-> Programs(<<>>)]

MCPlans == {Busy, Twice, TwiceAndCrash}
=============================================================================
