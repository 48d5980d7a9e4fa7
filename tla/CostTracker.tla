---------------------------- MODULE CostTracker ----------------------------
(***************************************************************************)
(* The CostTracker of a pipeline process (src/src/agents/cost_tracker.py), *)
(* whose callbacks the threads of the process run without a lock.  A       *)
(* statement that adds a number at hand to an attribute is not divided in  *)
(* CPython, but the one that adds the time of a call is: time.time() is    *)
(* called between the load of the sum and its store.  A call takes a unit  *)
(* of time.                                                                *)
(***************************************************************************)
EXTENDS Naturals, FiniteSets

CONSTANTS Threads, Processes

VARIABLES
  call,      \* the LLM call of each thread: none, open, or with the sum loaded
  loaded,    \* the sum the thread has loaded
  started,   \* entries of start_times in each process
  numCalls,  \* num_calls of each process
  totalTime  \* total_time_s of each process

TrackerInit ==
  /\ call = [t \in Threads |-> "none"]
  /\ loaded = [t \in Threads |-> 0]
  /\ started = [p \in Processes |-> 0]
  /\ numCalls = [p \in Processes |-> 0]
  /\ totalTime = [p \in Processes |-> 0]

\* on_llm_start.
OnLlmStart(t) ==
  /\ call[t] = "none"
  /\ call' = [call EXCEPT ![t] = "open"]
  /\ started' = [started EXCEPT ![t[1]] = @ + 1]
  /\ UNCHANGED <<loaded, numCalls, totalTime>>

\* The call raises: no callback of the tracker, whose start time stays in the table.
OnLlmError(t) ==
  /\ call[t] = "open"
  /\ call' = [call EXCEPT ![t] = "none"]
  /\ UNCHANGED <<loaded, started, numCalls, totalTime>>

\* on_llm_end, up to the call of time.time().
LoadTime(t) ==
  /\ call[t] = "open"
  /\ call' = [call EXCEPT ![t] = "loaded"]
  /\ started' = [started EXCEPT ![t[1]] = @ - 1]
  /\ loaded' = [loaded EXCEPT ![t] = totalTime[t[1]]]
  /\ UNCHANGED <<numCalls, totalTime>>

\* Faulty variant: the number of calls is set from what was loaded with the time.
StoreBoth(t) ==
  /\ call[t] = "loaded"
  /\ call' = [call EXCEPT ![t] = "none"]
  /\ totalTime' = [totalTime EXCEPT ![t[1]] = loaded[t] + 1]
  /\ numCalls' = [numCalls EXCEPT ![t[1]] = loaded[t] + 1]
  /\ loaded' = [loaded EXCEPT ![t] = 0]
  /\ UNCHANGED started

\* The rest of on_llm_end.
StoreTime(t) ==
  /\ call[t] = "loaded"
  /\ call' = [call EXCEPT ![t] = "none"]
  /\ totalTime' = [totalTime EXCEPT ![t[1]] = loaded[t] + 1]
  /\ numCalls' = [numCalls EXCEPT ![t[1]] = @ + 1]
  /\ loaded' = [loaded EXCEPT ![t] = 0]
  /\ UNCHANGED started

\* A new process has a tracker of its own.
ForgetCalls(p) ==
  /\ call' = [t \in Threads |-> IF t[1] = p THEN "none" ELSE call[t]]
  /\ loaded' = [t \in Threads |-> IF t[1] = p THEN 0 ELSE loaded[t]]
  /\ started' = [started EXCEPT ![p] = 0]
  /\ numCalls' = [numCalls EXCEPT ![p] = 0]
  /\ totalTime' = [totalTime EXCEPT ![p] = 0]
=============================================================================
