----------------------------- MODULE TokenLock -----------------------------
(***************************************************************************)
(* The token locks of GitHubCodeSearcher (src/src/tools/                   *)
(* impl_code_search.py): a thread that searches without a token of its own *)
(* makes a searcher, which claims a token of the pool by creating a file   *)
(* in /tmp, and removes the file when the search is over.  The file's name *)
(* is the token's index and the pid, so only threads of one process        *)
(* contend for it.                                                         *)
(*                                                                         *)
(* A thread is <<s, k>>, the k-th of the process in slot s.  A dead        *)
(* process leaves its files; its pid may come again.                       *)
(***************************************************************************)
EXTENDS Naturals, FiniteSets

CONSTANTS
  Threads,      \* threads that search
  Pids,         \* pids the system hands out
  NoPid,        \* the slot has no process
  NoOwner,      \* the file has no searcher
  TokenCount,   \* tokens of the pool
  MaxAttempts,  \* max_attempts of _claim_token_lock
  MaxOrphans    \* bound: files that could be created but not written

Slots == {t[1] : t \in Threads}

ASSUME TokenAssumption ==
  /\ TokenCount \in Nat \ {0} /\ MaxAttempts \in Nat \ {0} /\ MaxOrphans \in Nat
  /\ Threads = {<<t[1], t[2]>> : t \in Threads}
  /\ NoPid \notin Pids /\ NoOwner \notin Threads

VARIABLES
  pid,        \* the live process of each slot
  lockFiles,  \* [token, pid] from the name, owner for the searcher that made it
  search,     \* control state of each thread's searcher
  token,      \* _token_idx, while claiming the index it tries
  attempt,    \* rounds over the pool so far
  robbed      \* threads that use a token and whose file another one removed

locks == <<lockFiles, search, token, attempt, robbed>>

SearchStates == {"none", "claim", "use", "released"}

LockInit ==
  /\ pid = [s \in Slots |-> NoPid]
  /\ lockFiles = {}
  /\ search = [t \in Threads |-> "none"]
  /\ token = [t \in Threads |-> 0]
  /\ attempt = [t \in Threads |-> 0]
  /\ robbed = {}

Alive == {pid[s] : s \in Slots} \ {NoPid}

\* _get_lock_file_path.
Named(t) == {f \in lockFiles : f.token = token[t] /\ f.pid = pid[t[1]]}

\* Faulty variant: whoever's pid is not mine is dead.
NewSearcherAlone(t) ==
  /\ search[t] = "none"
  /\ lockFiles' = {f \in lockFiles : f.pid = pid[t[1]]}
  /\ search' = [search EXCEPT ![t] = "claim"]
  /\ token' = [token EXCEPT ![t] = 0]
  /\ attempt' = [attempt EXCEPT ![t] = 0]
  /\ UNCHANGED robbed

\* A searcher of the pool is made: __init__ with _cleanup_stale_locks, a step, as no
\* pid comes again between a check and a removal.
NewSearcher(t) ==
  /\ search[t] = "none"
  /\ lockFiles' = {f \in lockFiles : f.pid \in Alive}
  /\ search' = [search EXCEPT ![t] = "claim"]
  /\ token' = [token EXCEPT ![t] = 0]
  /\ attempt' = [attempt EXCEPT ![t] = 0]
  /\ UNCHANGED robbed

\* Faulty variant: the index after the last is tried too.
TryNextAfterLast(t) ==
  IF token[t] < TokenCount
    THEN /\ token' = [token EXCEPT ![t] = @ + 1]
         /\ UNCHANGED <<search, attempt>>
    ELSE /\ token' = [token EXCEPT ![t] = 0]
         /\ attempt' = [attempt EXCEPT ![t] = @ + 1]
         /\ search' = IF attempt[t] + 1 < MaxAttempts THEN search
                        ELSE [search EXCEPT ![t] = "none"]

\* Faulty variant: the thread waits until a token is free.
TryNextForEver(t) ==
  /\ token' = [token EXCEPT ![t] = (@ + 1) % TokenCount]
  /\ UNCHANGED <<search, attempt>>

\* The next index, or the next attempt after a sleep; after the last one the
\* RuntimeError ends the search.
TryNext(t) ==
  IF token[t] + 1 < TokenCount
    THEN /\ token' = [token EXCEPT ![t] = @ + 1]
         /\ UNCHANGED <<search, attempt>>
    ELSE /\ token' = [token EXCEPT ![t] = 0]
         /\ attempt' = [attempt EXCEPT ![t] = @ + 1]
         /\ search' = IF attempt[t] + 1 < MaxAttempts THEN search
                        ELSE [search EXCEPT ![t] = "none"]

Created(t, owner) == lockFiles \cup {[token |-> token[t], pid |-> pid[t[1]], owner |-> owner]}

\* Faulty variant: without O_EXCL an existing file is opened like a new one.
ClaimAny(t) ==
  /\ search[t] = "claim"
  /\ lockFiles' = (lockFiles \ Named(t)) \cup Created(t, t)
  /\ search' = [search EXCEPT ![t] = "use"]
  /\ UNCHANGED <<token, attempt, robbed>>

\* os.open with O_CREAT | O_EXCL.
Claim(t) ==
  /\ search[t] = "claim"
  /\ Named(t) = {}
  /\ lockFiles' = Created(t, t)
  /\ search' = [search EXCEPT ![t] = "use"]
  /\ UNCHANGED <<token, attempt, robbed>>

ClaimTaken(t) ==
  /\ search[t] = "claim"
  /\ Named(t) # {}
  /\ TryNext(t)
  /\ UNCHANGED <<lockFiles, robbed>>

\* The file was created but not written: an OSError, the next index, and a file that
\* no searcher removes.
ClaimOrphans(t) ==
  /\ search[t] = "claim"
  /\ Named(t) = {}
  /\ Cardinality({f \in lockFiles : f.owner = NoOwner}) < MaxOrphans
  /\ lockFiles' = Created(t, NoOwner)
  /\ TryNext(t)
  /\ UNCHANGED robbed

\* _release_token_lock: the file of the name is removed, whoever's it is.
Remove(t) ==
  /\ lockFiles' = lockFiles \ Named(t)
  /\ robbed' = (robbed \cup {f.owner : f \in Named(t)}) \ {t, NoOwner}

\* The finally of run() and peek().
Release(t) ==
  /\ search[t] = "use"
  /\ Remove(t)
  /\ search' = [search EXCEPT ![t] = "released"]
  /\ UNCHANGED <<token, attempt>>

\* The same instance's __del__: its path was not reset.
ReleaseAgain(t) ==
  /\ search[t] = "released"
  /\ Remove(t)
  /\ search' = [search EXCEPT ![t] = "none"]
  /\ UNCHANGED <<token, attempt>>

SearchStep(t) ==
  \/ NewSearcher(t) \/ Claim(t) \/ ClaimTaken(t) \/ ClaimOrphans(t)
  \/ Release(t) \/ ReleaseAgain(t)

\* The process of the slot is gone, its files are not.
ForgetSearches(s) ==
  /\ search' = [t \in Threads |-> IF t[1] = s THEN "none" ELSE search[t]]
  /\ token' = [t \in Threads |-> IF t[1] = s THEN 0 ELSE token[t]]
  /\ attempt' = [t \in Threads |-> IF t[1] = s THEN 0 ELSE attempt[t]]
  /\ robbed' = {t \in robbed : t[1] # s}
  /\ UNCHANGED lockFiles

-----------------------------------------------------------------------------
(* Properties *)

LockTypeOK ==
  /\ pid \in [Slots -> Pids \cup {NoPid}]
  /\ lockFiles \subseteq [token : 0..(TokenCount - 1), pid : Pids,
                          owner : Threads \cup {NoOwner}]
  /\ search \in [Threads -> SearchStates]
  /\ token \in [Threads -> 0..(TokenCount - 1)]
  /\ attempt \in [Threads -> 0..MaxAttempts]
  /\ robbed \subseteq Threads

\* While a search uses a token the file that says so is there: no clean-up of
\* another process takes it.  Only a thread of the same process may, with its second
\* release.
UserHasFile ==
  \A t \in Threads :
    search[t] = "use" /\ t \notin robbed =>
      [token |-> token[t], pid |-> pid[t[1]], owner |-> t] \in lockFiles

\* "Each instance locks exactly one token": two threads of a process use one token at
\* once only after a second release has taken away the file of one of them.
ExclusiveInProcess ==
  \A t, u \in Threads :
    /\ t # u /\ t[1] = u[1]
    /\ search[t] = "use" /\ search[u] = "use" /\ token[t] = token[u]
    => t \in robbed \/ u \in robbed
=============================================================================
