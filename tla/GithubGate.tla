----------------------------- MODULE GithubGate -----------------------------
(***************************************************************************)
(* How the threads of src/src/tools/impl_code_search.py reach GitHub: the  *)
(* cooldown gate shared by a process, the per-token request budget, and    *)
(* the slot that serializes and paces requests.                            *)
(*                                                                         *)
(* Time is discrete and relative: a deadline is the time left until it, a  *)
(* timestamp the age it has reached.  Tick lets one unit pass, whatever    *)
(* the threads are doing, so every step may also be late.                  *)
(***************************************************************************)
EXTENDS Naturals, Sequences, FiniteSets

CONSTANTS
  Threads,      \* callers of run() and peek()
  Processes,    \* each has its own copy of the module's globals
  Process,      \* Process[t]: where thread t runs
  Token,        \* Token[t]: the token its searcher uses
  NoThread,     \* the slot is free
  MinInterval,  \* GITHUB_MIN_REQUEST_INTERVAL
  Limit,        \* GITHUB_TOKEN_RPM_LIMIT
  Window,       \* REQUEST_WINDOW_SECONDS
  Waits,        \* seconds that GitHub names, and backoff values
  FallbackWait, \* 60, when it names none
  MaxPages,     \* max_pages of search_code
  MaxRetries,   \* max_retries of _fetch_object_url_content
  FetchFull     \* API_CODE_SEARCH_FETCH_FULL_CONTENT

ASSUME ThreadsAssumption ==
  /\ Process \in [Threads -> Processes]
  /\ NoThread \notin Threads
  /\ IsFiniteSet(Threads)

ASSUME TimesAssumption ==
  /\ MinInterval \in Nat
  /\ Limit \in Nat \ {0}
  /\ Window \in Nat \ {0}
  /\ Waits \subseteq Nat
  /\ FallbackWait \in Nat
  /\ MaxPages \in Nat \ {0}
  /\ MaxRetries \in Nat \ {0}
  /\ FetchFull \in BOOLEAN

VARIABLES
  cooldown,   \* cooldown[p]: _SECONDARY_BLOCKED_UNTIL - now, 0 when past
  slot,       \* slot[p]: holder of _GITHUB_REQUEST_LOCK
  lastAge,    \* lastAge[p]: now - _LAST_REQUEST_AT, at most MinInterval
  history,    \* history[p, k]: ages in _request_history_by_token, oldest first
  pc,         \* control state of each thread
  sleep,      \* time.sleep() still to pass
  page,       \* search_code: the page to request next
  retries,    \* _fetch_object_url_content: retry_count
  overtaken,  \* history: a cooldown was set after t had passed the gate
  fired       \* history: fired[p, k], ages of requests sent in the last Window

shared == <<cooldown, slot, lastAge, history>>
locals == <<pc, sleep, page, retries>>
vars == <<cooldown, slot, lastAge, history, pc, sleep, page, retries, overtaken, fired>>

Keys == Processes \X {Token[t] : t \in Threads}
Key(t) == <<Process[t], Token[t]>>

\* search_code: gate, budget (throttled), slot, pace, request, mark.
\* enrich_with_context: fetch* for the object URL, download* for its file; at
\* *Reserved the budget has counted a request that has not left.
PastGate == {"budget", "slot", "pace", "request"}
Control == PastGate \cup {"idle", "gate", "mark",
                          "fetchBudget", "fetchReserved", "fetchRequest",
                          "downloadBudget", "downloadReserved", "downloadRequest"}
InFlight == {"request", "fetchRequest", "downloadRequest"}

Init ==
  /\ cooldown = [p \in Processes |-> 0]
  /\ slot = [p \in Processes |-> NoThread]
  /\ lastAge = [p \in Processes |-> MinInterval]
  /\ history = [k \in Keys |-> <<>>]
  /\ pc = [t \in Threads |-> "idle"]
  /\ sleep = [t \in Threads |-> 0]
  /\ page = [t \in Threads |-> 1]
  /\ retries = [t \in Threads |-> 0]
  /\ overtaken = [t \in Threads |-> FALSE]
  /\ fired = [k \in Keys |-> <<>>]

TypeOK ==
  /\ cooldown \in [Processes -> Nat]
  /\ slot \in [Processes -> Threads \cup {NoThread}]
  /\ lastAge \in [Processes -> 0..MinInterval]
  /\ history \in [Keys -> Seq(0..Window)]
  /\ pc \in [Threads -> Control]
  /\ sleep \in [Threads -> Nat]
  /\ page \in [Threads -> 1..MaxPages]
  /\ retries \in [Threads -> 0..MaxRetries]
  /\ overtaken \in [Threads -> BOOLEAN]
  /\ fired \in [Keys -> Seq(0..Window)]

-----------------------------------------------------------------------------
Goto(t, to) == pc' = [pc EXCEPT ![t] = to]
Sleep(t, time) == sleep' = [sleep EXCEPT ![t] = time]
At(t, control) == pc[t] = control /\ sleep[t] = 0

Monus(a, b) == IF a > b THEN a - b ELSE 0

\* popleft() while the oldest timestamp has reached the window.
Recent(ages) ==
  LET old == {i \in DOMAIN ages : \A j \in 1..i : ages[j] >= Window} IN
  SubSeq(ages, Cardinality(old) + 1, Len(ages))

\* A request leaves: history of what was really sent.
RecordFired(t) == fired' = [fired EXCEPT ![Key(t)] = Append(@, 0)]

\* run() and peek(): peek asks for one page.  Whether the caller enriches what it
\* gets is left open for both, though only run() does.
Begin(t) ==
  /\ At(t, "idle")
  /\ \E first \in {1, MaxPages} : page' = [page EXCEPT ![t] = first]
  /\ Goto(t, "gate")
  /\ UNCHANGED <<shared, sleep, retries, overtaken, fired>>

\* Faulty variant: the wait is computed and not slept.
PassGateAwake(t) ==
  /\ At(t, "gate")
  /\ overtaken' = [overtaken EXCEPT ![t] = FALSE]
  /\ Goto(t, "budget")
  /\ UNCHANGED <<shared, sleep, page, retries, fired>>

\* _secondary_wait and the sleep that follows it.
PassGate(t) ==
  /\ At(t, "gate")
  /\ Sleep(t, IF cooldown[Process[t]] = 0 THEN 0 ELSE cooldown[Process[t]] + 1)
  /\ overtaken' = [overtaken EXCEPT ![t] = FALSE]
  /\ Goto(t, "budget")
  /\ UNCHANGED <<shared, page, retries, fired>>

\* Faulty variant: one request too many in the window.
ThrottleOffByOne(t, from, to) ==
  LET recent == Recent(history[Key(t)]) IN
  /\ At(t, from)
  /\ IF Len(recent) <= Limit
       THEN /\ history' = [history EXCEPT ![Key(t)] = Append(recent, 0)]
            /\ Goto(t, to)
            /\ UNCHANGED sleep
       ELSE /\ history' = [history EXCEPT ![Key(t)] = recent]
            /\ Sleep(t, Monus(Window, Head(recent)) + 1)
            /\ UNCHANGED pc
  /\ UNCHANGED <<cooldown, slot, lastAge, page, retries, overtaken>>

\* _throttle_token_requests: under its lock, forget what is older than the
\* window and reserve a request, or sleep and look again.
Throttle(t, from, to) ==
  LET recent == Recent(history[Key(t)]) IN
  /\ At(t, from)
  /\ IF Len(recent) < Limit
       THEN /\ history' = [history EXCEPT ![Key(t)] = Append(recent, 0)]
            /\ Goto(t, to)
            /\ UNCHANGED sleep
       ELSE /\ history' = [history EXCEPT ![Key(t)] = recent]
            /\ Sleep(t, Monus(Window, Head(recent)) + 1)
            /\ UNCHANGED pc
  /\ UNCHANGED <<cooldown, slot, lastAge, page, retries, overtaken>>

ThrottleSearch(t) == Throttle(t, "budget", "slot") /\ UNCHANGED fired

\* Faulty variant: the lock is let go for the pacing sleep, as a comment in
\* _acquire_github_slot considers.
AcquireAndLetGo(t) ==
  /\ At(t, "slot")
  /\ slot[Process[t]] = NoThread
  /\ Sleep(t, Monus(MinInterval, lastAge[Process[t]]))
  /\ Goto(t, "pace")
  /\ UNCHANGED <<cooldown, slot, lastAge, history, page, retries, overtaken, fired>>

\* _acquire_github_slot takes the lock, computes the pacing delay ...
AcquireSlot(t) ==
  /\ At(t, "slot")
  /\ slot[Process[t]] = NoThread
  /\ slot' = [slot EXCEPT ![Process[t]] = t]
  /\ Sleep(t, Monus(MinInterval, lastAge[Process[t]]))
  /\ Goto(t, "pace")
  /\ UNCHANGED <<cooldown, lastAge, history, page, retries, overtaken, fired>>

\* Faulty variant: the time of the request is not noted.
FireUnnoted(t) ==
  /\ At(t, "pace")
  /\ RecordFired(t)
  /\ Goto(t, "request")
  /\ UNCHANGED <<cooldown, slot, lastAge, history, sleep, page, retries, overtaken>>

\* ... sleeps with the lock held, notes the time, and returns to session.get.
Fire(t) ==
  /\ At(t, "pace")
  /\ lastAge' = [lastAge EXCEPT ![Process[t]] = 0]
  /\ RecordFired(t)
  /\ Goto(t, "request")
  /\ UNCHANGED <<cooldown, slot, history, sleep, page, retries, overtaken>>

\* What search_code's caller does once it has its results.
SearchReturns(t) ==
  \E to \in IF FetchFull THEN {"idle", "fetchBudget"} ELSE {"idle"} : Goto(t, to)

\* Faulty variant: no bound on the pages of a search.
RespondUnbounded(t) ==
  /\ At(t, "request")
  /\ slot' = [slot EXCEPT ![Process[t]] = NoThread]
  /\ \/ Goto(t, "mark") /\ UNCHANGED page
     \/ /\ page' = [page EXCEPT ![t] = @ + 1]
        /\ Goto(t, "gate")
     \/ SearchReturns(t) /\ page' = [page EXCEPT ![t] = 1]
  /\ UNCHANGED <<cooldown, lastAge, history, sleep, retries, overtaken, fired>>

\* Faulty variant: an exception leaves without releasing the slot.
RespondWithoutFinally(t) ==
  /\ At(t, "request")
  /\ \/ Goto(t, "mark") /\ UNCHANGED page /\ slot' = [slot EXCEPT ![Process[t]] = NoThread]
     \/ SearchReturns(t) /\ page' = [page EXCEPT ![t] = 1] /\ UNCHANGED slot
  /\ UNCHANGED <<cooldown, lastAge, history, sleep, retries, overtaken, fired>>

\* The response, or an exception: the slot is released first (finally), then a
\* rate limit is still to be marked, the next page asked for, or the search over.
Respond(t) ==
  /\ At(t, "request")
  /\ slot' = [slot EXCEPT ![Process[t]] = NoThread]
  /\ \/ Goto(t, "mark") /\ UNCHANGED page
     \/ /\ page[t] < MaxPages
        /\ page' = [page EXCEPT ![t] = @ + 1]
        /\ Goto(t, "gate")
     \/ SearchReturns(t) /\ page' = [page EXCEPT ![t] = 1]
  /\ UNCHANGED <<cooldown, lastAge, history, sleep, retries, overtaken, fired>>

\* The headers that name a time: X-RateLimit-Reset of a 403 with no request remaining,
\* and Retry-After of a 429.
Limited ==
  [status : {403, 429}, header : {"number", "unreadable", "missing"}, seconds : Waits]

\* _handle_rate_limit: the waits a response calls for, none when it is no rate limit.
\* A 403 without the reset header is none, whatever its Retry-After says.
HandleRateLimit(response) ==
  IF response.header = "number" THEN {response.seconds}
  ELSE IF response.status = 403 /\ response.header = "missing" THEN {}
  ELSE {FallbackWait}

RateLimitWaits == UNION {HandleRateLimit(response) : response \in Limited}

\* _secondary_mark_blocked; search_code does not retry.
MarkBlocked(t) ==
  /\ At(t, "mark")
  /\ \E wait \in RateLimitWaits : cooldown' = [cooldown EXCEPT ![Process[t]] = wait + 1]
  /\ overtaken' = [u \in Threads |->
       overtaken[u] \/ (Process[u] = Process[t] /\ pc[u] \in PastGate)]
  /\ SearchReturns(t)
  /\ page' = [page EXCEPT ![t] = 1]
  /\ UNCHANGED <<slot, lastAge, history, sleep, retries, fired>>

-----------------------------------------------------------------------------
(* _fetch_object_url_content: the budget, but neither gate nor slot *)

ReserveFetch(t) == Throttle(t, "fetchBudget", "fetchReserved") /\ UNCHANGED fired
ReserveDownload(t) == Throttle(t, "downloadBudget", "downloadReserved") /\ UNCHANGED fired

\* requests.get, after the budget's lock was let go: at any time after.
Send(t, from, to) ==
  /\ At(t, from)
  /\ RecordFired(t)
  /\ Goto(t, to)
  /\ UNCHANGED <<shared, sleep, page, retries, overtaken>>

FetchObject(t) == Send(t, "fetchReserved", "fetchRequest")
Download(t) == Send(t, "downloadReserved", "downloadRequest")

\* enrich_with_context goes on to its next result, or has none left.
NextResult(t) ==
  /\ \E to \in {"idle", "fetchBudget"} : Goto(t, to)
  /\ retries' = [retries EXCEPT ![t] = 0]

\* A try is left: sleep, and ask for the object again.
Retry(t, waits) ==
  /\ retries[t] + 1 < MaxRetries
  /\ retries' = [retries EXCEPT ![t] = @ + 1]
  /\ \E wait \in waits : Sleep(t, wait)
  /\ Goto(t, "fetchBudget")

\* Content or a final error; a download URL; a rate limit, a 5xx status or a
\* RequestException with a try left; or a rate limit of the last try, which is slept
\* through as well.
FetchResponds(t) ==
  /\ At(t, "fetchRequest")
  /\ \/ NextResult(t) /\ UNCHANGED sleep
     \/ Goto(t, "downloadBudget") /\ UNCHANGED <<sleep, retries>>
     \/ Retry(t, Waits \cup RateLimitWaits)
     \/ /\ retries[t] + 1 = MaxRetries
        /\ \E wait \in RateLimitWaits : Sleep(t, wait)
        /\ NextResult(t)
  /\ UNCHANGED <<shared, page, overtaken, fired>>

\* The text, or any other status, is final; a RequestException goes to the handler of
\* the object's request, and the object is fetched again.
DownloadResponds(t) ==
  /\ At(t, "downloadRequest")
  /\ \/ NextResult(t) /\ UNCHANGED sleep
     \/ Retry(t, Waits)
  /\ UNCHANGED <<shared, page, overtaken, fired>>

-----------------------------------------------------------------------------
Older(ages) == [i \in DOMAIN ages |-> IF ages[i] < Window THEN ages[i] + 1 ELSE Window]

\* One unit of time passes.
Tick ==
  /\ cooldown' = [p \in Processes |-> Monus(cooldown[p], 1)]
  /\ lastAge' = [p \in Processes |->
                   IF lastAge[p] < MinInterval THEN lastAge[p] + 1 ELSE MinInterval]
  /\ history' = [k \in Keys |-> Older(history[k])]
  /\ sleep' = [t \in Threads |-> Monus(sleep[t], 1)]
  /\ fired' = [k \in Keys |-> Recent(Older(fired[k]))]
  /\ UNCHANGED <<slot, pc, page, retries, overtaken>>

SearchStep(t) ==
  PassGate(t) \/ ThrottleSearch(t) \/ AcquireSlot(t) \/ Fire(t) \/ Respond(t)
    \/ MarkBlocked(t)

FetchStep(t) ==
  \/ ReserveFetch(t) \/ FetchObject(t) \/ FetchResponds(t)
  \/ ReserveDownload(t) \/ Download(t) \/ DownloadResponds(t)

Next == Tick \/ \E t \in Threads : Begin(t) \/ SearchStep(t) \/ FetchStep(t)

Spec == Init /\ [][Next]_vars

\* Time passes, and a thread that may take a step of its own takes it: a
\* request has a timeout, so its response comes.
FairSpec ==
  /\ Spec
  /\ WF_vars(Tick)
  /\ \A t \in Threads : WF_vars(SearchStep(t) \/ FetchStep(t))

-----------------------------------------------------------------------------
(* Properties *)

\* In a process, at most one search request is in flight, and its thread holds
\* the slot.
OneSearchInFlight ==
  \A t \in Threads : pc[t] = "request" =>
    /\ slot[Process[t]] = t
    /\ \A u \in Threads : Process[u] = Process[t] /\ pc[u] = "request" => u = t

Slot == INSTANCE PacedSlot WITH
  holder <- slot,
  since <- lastAge,
  sending <- [p \in Processes |-> slot[p] # NoThread /\ pc[slot[p]] = "request"]

\* The lock, the pacing sleep under it, the timestamp written after the sleep and the
\* release in finally add up to a slot that serves one search request of a process at
\* a time, MinInterval after the one before.
ImplementsPacedSlot == Slot!SlotSpec

\* A search request leaves during a cooldown only if that cooldown was set
\* after its thread had looked at the gate.
OnlyOvertakenFireInCooldown ==
  [][\A t \in Threads :
       pc[t] = "pace" /\ pc'[t] = "request" /\ ~overtaken[t]
         => cooldown[Process[t]] = 0]_vars

\* The per-token budget counts reservations, and a request, a search's as well as a
\* fetch's, may leave long after its own, when that has left the window: still a
\* window sees at most Limit requests, and one per thread.
BudgetBound ==
  \A k \in Keys :
    Len(fired[k]) <= Limit + Cardinality({t \in Threads : Key(t) = k})

\* The slot always becomes free again.
SlotReturned ==
  \A p \in Processes : slot[p] # NoThread ~> slot[p] = NoThread

\* "Only ONE GitHub HTTP request may be in flight at any moment, regardless of
\* how many callers/threads/processes share this module."
OneInFlight ==
  \A t, u \in Threads : pc[t] \in InFlight /\ pc[u] \in InFlight => t = u

\* "If any request hit a rate limit, all requests wait out the cooldown before
\* hitting GitHub again."
CooldownHonoured ==
  [][\A t \in Threads :
       pc[t] \notin InFlight /\ pc'[t] \in InFlight => cooldown[Process[t]] = 0]_vars
=============================================================================
