----------------------------- MODULE PacedSlot -----------------------------
(***************************************************************************)
(* What _acquire_github_slot and _release_github_slot of                   *)
(* src/src/tools/impl_code_search.py promise the searches of a process:    *)
(* one request at a time, and each at least MinInterval after the one      *)
(* before, however the threads are scheduled.  GithubGate is shown to      *)
(* implement it.                                                           *)
(***************************************************************************)
EXTENDS Naturals

CONSTANTS Threads, Processes, Process, NoThread, MinInterval

VARIABLES
  holder,   \* holder[p]: the thread that has the slot of process p
  since,    \* since[p]: time since its last request left, at most MinInterval
  sending   \* sending[p]: the holder's request is in flight

slotVars == <<holder, since, sending>>

SlotInit ==
  /\ holder = [p \in Processes |-> NoThread]
  /\ since = [p \in Processes |-> MinInterval]
  /\ sending = [p \in Processes |-> FALSE]

Acquire(t) ==
  /\ holder[Process[t]] = NoThread
  /\ holder' = [holder EXCEPT ![Process[t]] = t]
  /\ UNCHANGED <<since, sending>>

SendRequest(t) ==
  /\ holder[Process[t]] = t /\ ~sending[Process[t]]
  /\ since[Process[t]] = MinInterval
  /\ since' = [since EXCEPT ![Process[t]] = 0]
  /\ sending' = [sending EXCEPT ![Process[t]] = TRUE]
  /\ UNCHANGED holder

Release(t) ==
  /\ holder[Process[t]] = t /\ sending[Process[t]]
  /\ holder' = [holder EXCEPT ![Process[t]] = NoThread]
  /\ sending' = [sending EXCEPT ![Process[t]] = FALSE]
  /\ UNCHANGED since

TimePasses ==
  /\ since' = [p \in Processes |->
                 IF since[p] < MinInterval THEN since[p] + 1 ELSE MinInterval]
  /\ UNCHANGED <<holder, sending>>

SlotNext ==
  TimePasses \/ \E t \in Threads : Acquire(t) \/ SendRequest(t) \/ Release(t)

SlotSpec == SlotInit /\ [][SlotNext]_slotVars
=============================================================================
