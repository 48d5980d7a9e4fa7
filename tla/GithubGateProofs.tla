-------------------------- MODULE GithubGateProofs --------------------------
(***************************************************************************)
(* Proofs about GithubGate, for any number of threads, processes and       *)
(* tokens and any intervals: the slot excludes, requests are paced, a      *)
(* request leaves during a cooldown only when the cooldown overtook it,    *)
(* and the budget of requests is kept.                                     *)
(***************************************************************************)
EXTENDS GithubGate, FiniteSetTheorems, SequenceTheorems, TLAPS

(***************************************************************************)
(* Sequences of ages.                                                      *)
(***************************************************************************)

\* Dropping the timestamps that have left the window keeps the others' type.
LEMMA RecentType ==
  ASSUME NEW ages \in Seq(0..Window)
  PROVE  Recent(ages) \in Seq(0..Window)
<1> DEFINE old == {i \in DOMAIN ages : \A j \in 1..i : ages[j] >= Window}
<1>1. Len(ages) \in Nat /\ DOMAIN ages = 1..Len(ages)
  BY LenProperties
<1>2. IsFiniteSet(1..Len(ages)) /\ Cardinality(1..Len(ages)) = Len(ages)
  BY <1>1, FS_Interval
<1>3. Cardinality(old) \in Nat /\ Cardinality(old) <= Len(ages)
  BY <1>1, <1>2, FS_Subset, FS_CardinalityType
<1>4. PICK n \in Nat : n = Cardinality(old)
  BY <1>3
<1>5. ASSUME NEW i \in n + 1 .. Len(ages) PROVE ages[i] \in 0..Window
  <2>1. i \in 1..Len(ages)
    BY <1>1
  <2> QED BY <2>1, ElementOfSeq
<1>6. SubSeq(ages, n + 1, Len(ages)) \in Seq(0..Window)
  BY <1>1, <1>3, <1>5, SubSeqProperties
<1> QED BY <1>4, <1>6 DEF Recent

\* A unit of time makes every age larger, up to the window.
LEMMA OlderType ==
  ASSUME NEW ages \in Seq(0..Window)
  PROVE  Older(ages) \in Seq(0..Window)
<1>1. Len(ages) \in Nat /\ DOMAIN ages = 1..Len(ages)
      /\ \A i \in 1..Len(ages) : ages[i] \in 0..Window
  BY LenProperties, ElementOfSeq
<1>2. Older(ages) \in [1..Len(ages) -> 0..Window]
  BY <1>1, TimesAssumption DEF Older
<1> QED BY <1>1, <1>2, SeqDef

\* A key is a process with a token.
LEMMA KeyType == \A t \in Threads : Key(t) \in Keys /\ Process[t] \in Processes
  BY ThreadsAssumption DEF Key, Keys

\* Whatever the headers of a rate limit say, the wait is a number of seconds.
LEMMA RateLimitWaitsTyped == RateLimitWaits \subseteq Nat
<1>1. ASSUME NEW response \in Limited PROVE HandleRateLimit(response) \subseteq Nat
  <2>1. response.seconds \in Waits
    BY <1>1 DEF Limited
  <2>2. response.seconds \in Nat /\ FallbackWait \in Nat
    BY <2>1, TimesAssumption
  <2>3. \A wait \in HandleRateLimit(response) : wait = response.seconds \/ wait = FallbackWait
    BY DEF HandleRateLimit
  <2> QED BY <2>2, <2>3
<1> QED BY <1>1 DEF RateLimitWaits

LEMMA MonusType == \A a, b \in Nat : Monus(a, b) \in Nat
  BY DEF Monus

(***************************************************************************)
(* Type correctness.                                                       *)
(***************************************************************************)

LEMMA InitTyped == Init => TypeOK
<1> SUFFICES ASSUME Init PROVE TypeOK
  OBVIOUS
<1>1. <<>> \in Seq(0..Window)
  BY EmptySeq
<1> QED
  BY <1>1, TimesAssumption DEF Init, TypeOK, Control

\* The reservation of a request, whoever asks for it.
LEMMA ThrottleTyped ==
  ASSUME TypeOK, NEW t \in Threads, NEW from \in Control, NEW to \in Control,
         Throttle(t, from, to)
  PROVE  /\ history' \in [Keys -> Seq(0..Window)]
         /\ pc' \in [Threads -> Control]
         /\ sleep' \in [Threads -> Nat]
<1> DEFINE recent == Recent(history[Key(t)])
<1>1. Key(t) \in Keys /\ history[Key(t)] \in Seq(0..Window)
  BY KeyType DEF TypeOK
<1>2. recent \in Seq(0..Window)
  BY <1>1, RecentType
<1> HIDE DEF recent
<1>3. CASE Len(recent) < Limit
  <2>1. Append(recent, 0) \in Seq(0..Window)
    BY <1>2, AppendProperties, TimesAssumption
  <2> QED BY <1>1, <1>3, <2>1 DEF Throttle, TypeOK, Goto, recent
<1>4. CASE ~(Len(recent) < Limit)
  <2>1. recent # <<>>
    BY <1>4, EmptySeq, TimesAssumption
  <2>2. Head(recent) \in 0..Window
    BY <1>2, <2>1, HeadTailProperties
  <2>3. Window \in Nat /\ Head(recent) \in Nat
    BY <2>2, TimesAssumption
  <2>4. Monus(Window, Head(recent)) + 1 \in Nat
    BY <2>3 DEF Monus
  <2> QED BY <1>1, <1>2, <1>4, <2>4 DEF Throttle, TypeOK, Sleep, recent
<1> QED BY <1>3, <1>4

\* One unit of time keeps every type.
LEMMA TickTyped == TypeOK /\ Tick => TypeOK'
<1> SUFFICES ASSUME TypeOK, Tick PROVE TypeOK'
  OBVIOUS
<1>1. cooldown' \in [Processes -> Nat] /\ sleep' \in [Threads -> Nat]
  BY DEF TypeOK, Tick, Monus
<1>2. lastAge' \in [Processes -> 0..MinInterval]
  BY TimesAssumption DEF TypeOK, Tick
<1>3. history' \in [Keys -> Seq(0..Window)]
  BY OlderType DEF TypeOK, Tick
<1>4. fired' \in [Keys -> Seq(0..Window)]
  BY OlderType, RecentType DEF TypeOK, Tick
<1> QED BY <1>1, <1>2, <1>3, <1>4 DEF TypeOK, Tick

\* A sent request is recorded with age 0.
LEMMA RecordTyped ==
  ASSUME TypeOK, NEW t \in Threads, RecordFired(t)
  PROVE  fired' \in [Keys -> Seq(0..Window)]
<1>1. Key(t) \in Keys /\ fired[Key(t)] \in Seq(0..Window)
  BY KeyType DEF TypeOK
<1>2. Append(fired[Key(t)], 0) \in Seq(0..Window)
  BY <1>1, AppendProperties, TimesAssumption
<1> QED BY <1>1, <1>2 DEF RecordFired, TypeOK

\* The steps of a search keep every type.
LEMMA SearchTyped ==
  ASSUME TypeOK, NEW t \in Threads, Begin(t) \/ SearchStep(t)
  PROVE  TypeOK'
<1> USE DEF TypeOK, Control, PastGate, Goto, Sleep, shared
<1>1. CASE Begin(t)
  BY <1>1, TimesAssumption DEF Begin
<1>2. CASE PassGate(t)
  <2>1. Process[t] \in Processes
    BY KeyType
  <2> QED BY <1>2, <2>1 DEF PassGate
<1>3. CASE ThrottleSearch(t)
  <2>1. Throttle(t, "budget", "slot") /\ "budget" \in Control /\ "slot" \in Control
    BY <1>3 DEF ThrottleSearch
  <2>2. /\ history' \in [Keys -> Seq(0..Window)]
        /\ pc' \in [Threads -> Control]
        /\ sleep' \in [Threads -> Nat]
    BY <2>1, ThrottleTyped
  <2> QED BY <1>3, <2>1, <2>2 DEF ThrottleSearch, Throttle
<1>4. CASE AcquireSlot(t)
  <2>1. Process[t] \in Processes
    BY KeyType
  <2>2. Monus(MinInterval, lastAge[Process[t]]) \in Nat
    BY <2>1, TimesAssumption DEF Monus
  <2> QED BY <1>4, <2>1, <2>2 DEF AcquireSlot
<1>5. CASE Fire(t)
  <2>1. fired' \in [Keys -> Seq(0..Window)]
    BY <1>5, RecordTyped DEF Fire
  <2> QED BY <1>5, <2>1, KeyType, TimesAssumption DEF Fire
<1>6. CASE Respond(t)
  <2>1. slot' \in [Processes -> Threads \cup {NoThread}]
    BY <1>6 DEF Respond
  <2>2. pc' \in [Threads -> Control]
    BY <1>6 DEF Respond, SearchReturns
  <2>3. page' \in [Threads -> 1..MaxPages]
    <3>1. page[t] < MaxPages => page[t] + 1 \in 1..MaxPages
      BY TimesAssumption
    <3>2. 1 \in 1..MaxPages
      BY TimesAssumption
    <3>3. \/ page' \in {page, [page EXCEPT ![t] = 1]}
          \/ /\ page[t] < MaxPages
             /\ page' = [page EXCEPT ![t] = page[t] + 1]
      BY <1>6 DEF Respond
    <3> QED BY <3>1, <3>2, <3>3
  <2> QED BY <1>6, <2>1, <2>2, <2>3 DEF Respond
<1>7. CASE MarkBlocked(t)
  <2>1. PICK wait \in RateLimitWaits : cooldown' = [cooldown EXCEPT ![Process[t]] = wait + 1]
    BY <1>7 DEF MarkBlocked
  <2>2. wait + 1 \in Nat
    BY RateLimitWaitsTyped
  <2>3. cooldown' \in [Processes -> Nat]
    BY <2>1, <2>2
  <2> QED BY <1>7, <2>3, TimesAssumption DEF MarkBlocked, SearchReturns
<1> QED BY <1>1, <1>2, <1>3, <1>4, <1>5, <1>6, <1>7 DEF SearchStep

\* The steps of a fetch keep every type.
LEMMA FetchTyped ==
  ASSUME TypeOK, NEW t \in Threads, FetchStep(t)
  PROVE  TypeOK'
<1>1. ASSUME NEW from \in Control, NEW to \in Control, Throttle(t, from, to), UNCHANGED fired
      PROVE  TypeOK'
  <2>1. /\ history' \in [Keys -> Seq(0..Window)]
        /\ pc' \in [Threads -> Control]
        /\ sleep' \in [Threads -> Nat]
    BY <1>1, ThrottleTyped
  <2> QED BY <1>1, <2>1 DEF Throttle, TypeOK
<1>2. CASE ReserveFetch(t) \/ ReserveDownload(t)
  BY <1>1, <1>2 DEF ReserveFetch, ReserveDownload, Control
<1>5. CASE FetchObject(t) \/ Download(t)
  <2>1. PICK to \in {"fetchRequest", "downloadRequest"} : \E from : Send(t, from, to)
    BY <1>5 DEF FetchObject, Download
  <2>2. fired' \in [Keys -> Seq(0..Window)]
    BY <2>1, RecordTyped DEF Send
  <2> QED BY <2>1, <2>2 DEF Send, TypeOK, Control, Goto, shared
<1>3. CASE FetchResponds(t)
  <2> USE <1>3 DEF FetchResponds, Retry, NextResult, Goto, Sleep
  <2>1. pc' \in [Threads -> Control]
    BY DEF TypeOK, Control
  <2>2. sleep' \in [Threads -> Nat]
    BY TimesAssumption, RateLimitWaitsTyped DEF TypeOK
  <2>3. retries' \in [Threads -> 0..MaxRetries]
    BY TimesAssumption DEF TypeOK
  <2> QED BY <2>1, <2>2, <2>3 DEF TypeOK, shared
<1>4. CASE DownloadResponds(t)
  <2> USE <1>4 DEF DownloadResponds, Retry, NextResult, Goto, Sleep
  <2>1. pc' \in [Threads -> Control]
    BY DEF TypeOK, Control
  <2>2. sleep' \in [Threads -> Nat]
    BY TimesAssumption DEF TypeOK
  <2>3. retries' \in [Threads -> 0..MaxRetries]
    <3>1. \/ retries' = [retries EXCEPT ![t] = 0]
          \/ retries[t] + 1 < MaxRetries /\ retries' = [retries EXCEPT ![t] = retries[t] + 1]
      OBVIOUS
    <3>2. retries \in [Threads -> 0..MaxRetries] /\ 0 \in 0..MaxRetries
      BY TimesAssumption DEF TypeOK
    <3>3. retries[t] + 1 < MaxRetries => retries[t] + 1 \in 0..MaxRetries
      BY <3>2, TimesAssumption
    <3> HIDE <1>4
    <3> QED BY <3>1, <3>2, <3>3
  <2> QED BY <2>1, <2>2, <2>3 DEF TypeOK, shared
<1> QED BY <1>2, <1>3, <1>4, <1>5 DEF FetchStep

\* Every variable keeps its type: in particular no age exceeds the window, and
\* no page or retry its bound.
THEOREM TypeCorrect == Spec => []TypeOK
<1>1. TypeOK /\ [Next]_vars => TypeOK'
  <2>1. CASE UNCHANGED vars
    BY <2>1 DEF vars, TypeOK
  <2> QED BY <2>1, TickTyped, SearchTyped, FetchTyped DEF Next
<1> QED BY InitTyped, <1>1, PTL DEF Spec

(***************************************************************************)
(* Safety.  The three parts of the inductive invariant say what a thread   *)
(* may still rely on after it has slept.                                   *)
(***************************************************************************)

\* A thread that paces or requests holds the slot of its process.
SlotHeld ==
  \A t \in Threads : pc[t] \in {"pace", "request"} => slot[Process[t]] = t

\* The sleep a pacing thread has left covers what is missing of the interval.
PaceKept ==
  \A t \in Threads : pc[t] = "pace" => sleep[t] + lastAge[Process[t]] >= MinInterval

\* The cooldown a thread saw at the gate is over when it wakes up.
GateKept ==
  \A t \in Threads :
    pc[t] \in PastGate /\ ~overtaken[t] => cooldown[Process[t]] <= sleep[t]

IInv == TypeOK /\ SlotHeld /\ PaceKept /\ GateKept

LEMMA InitInv == Init => IInv
<1> SUFFICES ASSUME Init PROVE IInv
  OBVIOUS
<1>1. TypeOK
  BY InitTyped
<1>2. SlotHeld /\ PaceKept /\ GateKept
  BY DEF Init, SlotHeld, PaceKept, GateKept, PastGate
<1> QED BY <1>1, <1>2 DEF IInv

\* Time alone takes from a sleep what it takes from what the sleep is for.
LEMMA TickInv == IInv /\ Tick => IInv'
<1> SUFFICES ASSUME IInv, Tick PROVE IInv'
  OBVIOUS
<1>1. TypeOK'
  BY TickTyped DEF IInv
<1>2. SlotHeld'
  BY DEF IInv, SlotHeld, Tick
<1>3. PaceKept'
  <2> SUFFICES ASSUME NEW t \in Threads, pc[t] = "pace"
               PROVE  sleep'[t] + lastAge'[Process[t]] >= MinInterval
    BY DEF PaceKept, Tick
  <2>1. /\ sleep[t] \in Nat /\ lastAge[Process[t]] \in 0..MinInterval
        /\ MinInterval \in Nat /\ Process[t] \in Processes
    BY KeyType, TimesAssumption DEF IInv, TypeOK
  <2>2. sleep[t] + lastAge[Process[t]] >= MinInterval
    BY DEF IInv, PaceKept
  <2> QED BY <2>1, <2>2 DEF Tick, Monus
<1>4. GateKept'
  <2> SUFFICES ASSUME NEW t \in Threads, pc[t] \in PastGate, ~overtaken[t]
               PROVE  cooldown'[Process[t]] <= sleep'[t]
    BY DEF GateKept, Tick
  <2>1. sleep[t] \in Nat /\ cooldown[Process[t]] \in Nat /\ Process[t] \in Processes
    BY KeyType DEF IInv, TypeOK
  <2>2. cooldown[Process[t]] <= sleep[t]
    BY DEF IInv, GateKept
  <2> QED BY <2>1, <2>2 DEF Tick, Monus
<1> QED BY <1>1, <1>2, <1>3, <1>4 DEF IInv

\* What a thread that is not in a search changes is no concern of the three.
LEMMA FetchInv ==
  ASSUME IInv, NEW t \in Threads, Begin(t) \/ FetchStep(t)
  PROVE  IInv'
<1>1. TypeOK'
  BY SearchTyped, FetchTyped DEF IInv
<1>2. /\ UNCHANGED <<cooldown, slot, lastAge, overtaken>>
      /\ \A u \in Threads \ {t} : pc'[u] = pc[u] /\ sleep'[u] = sleep[u]
      /\ pc'[t] \notin PastGate
  <2> USE DEF IInv, TypeOK, PastGate, Goto, Sleep
  <2>1. CASE Begin(t)
    BY <2>1 DEF Begin, shared
  <2>2. CASE ReserveFetch(t) \/ ReserveDownload(t)
    BY <2>2 DEF ReserveFetch, ReserveDownload, Throttle, At
  <2>3. CASE FetchObject(t) \/ Download(t)
    BY <2>3 DEF FetchObject, Download, Send, shared
  <2>4. CASE FetchResponds(t)
    BY <2>4 DEF FetchResponds, Retry, NextResult, shared
  <2>5. CASE DownloadResponds(t)
    BY <2>5 DEF DownloadResponds, Retry, NextResult, shared
  <2> QED BY <2>1, <2>2, <2>3, <2>4, <2>5 DEF FetchStep
<1>3. SlotHeld' /\ PaceKept' /\ GateKept'
  BY <1>2 DEF IInv, SlotHeld, PaceKept, GateKept, PastGate
<1> QED BY <1>1, <1>3 DEF IInv

\* Only the holder of the slot leaves it, and only when it is free is it taken.
LEMMA SearchKeepsSlot ==
  ASSUME IInv, NEW t \in Threads, SearchStep(t)
  PROVE  SlotHeld'
<1> USE ThreadsAssumption DEF IInv, TypeOK, SlotHeld, Goto
<1>1. CASE PassGate(t) \/ ThrottleSearch(t) \/ MarkBlocked(t)
  BY <1>1 DEF PassGate, ThrottleSearch, Throttle, MarkBlocked, SearchReturns, At, shared
<1>2. CASE AcquireSlot(t)
  BY <1>2 DEF AcquireSlot
<1>3. CASE Fire(t)
  BY <1>3 DEF Fire, At
<1>4. CASE Respond(t)
  BY <1>4 DEF Respond, SearchReturns, At
<1> QED BY <1>1, <1>2, <1>3, <1>4 DEF SearchStep

\* The holder computes its delay from the last request, and no other request
\* of the process can come between.
LEMMA SearchKeepsPace ==
  ASSUME IInv, NEW t \in Threads, SearchStep(t)
  PROVE  PaceKept'
<1> USE KeyType, TimesAssumption DEF IInv, TypeOK, PaceKept, Goto, Sleep
<1>1. CASE PassGate(t) \/ ThrottleSearch(t)
  BY <1>1 DEF PassGate, ThrottleSearch, Throttle, At, shared
<1>2. CASE MarkBlocked(t) \/ Respond(t)
  BY <1>2 DEF MarkBlocked, Respond, SearchReturns, At
<1>3. CASE AcquireSlot(t)
  BY <1>3 DEF AcquireSlot, Monus
<1>4. CASE Fire(t)
  BY <1>4 DEF Fire, SlotHeld, At
<1> QED BY <1>1, <1>2, <1>3, <1>4 DEF SearchStep

\* A new cooldown overtakes every thread past the gate; an old one is slept out.
LEMMA SearchKeepsGate ==
  ASSUME IInv, NEW t \in Threads, SearchStep(t)
  PROVE  GateKept'
<1> USE KeyType DEF IInv, TypeOK, GateKept, PastGate, Goto, Sleep
<1>1. CASE PassGate(t)
  BY <1>1 DEF PassGate, shared
<1>2. CASE ThrottleSearch(t)
  <2>1. /\ pc[t] = "budget" /\ sleep[t] = 0 /\ sleep'[t] \in Nat
        /\ \A u \in Threads \ {t} : pc'[u] = pc[u] /\ sleep'[u] = sleep[u]
        /\ UNCHANGED <<cooldown, overtaken>>
    <3>1. sleep' \in [Threads -> Nat]
      BY <1>2, ThrottleTyped DEF ThrottleSearch, Control
    <3> QED BY <1>2, <3>1 DEF ThrottleSearch, Throttle, At
  <2>2. ~overtaken[t] => cooldown[Process[t]] <= sleep'[t]
    <3>1. cooldown[Process[t]] \in Nat
      OBVIOUS
    <3>2. ~overtaken[t] => cooldown[Process[t]] <= 0
      BY <2>1
    <3> QED BY <2>1, <3>1, <3>2
  <2> QED BY <2>1, <2>2
<1>3. CASE AcquireSlot(t)
  <2>1. Monus(MinInterval, lastAge[Process[t]]) \in Nat
    BY TimesAssumption DEF Monus
  <2> QED BY <1>3, <2>1 DEF AcquireSlot, At
<1>4. CASE Fire(t) \/ Respond(t)
  BY <1>4 DEF Fire, Respond, SearchReturns, At
<1>5. CASE MarkBlocked(t)
  BY <1>5 DEF MarkBlocked, SearchReturns, At
<1> QED BY <1>1, <1>2, <1>3, <1>4, <1>5 DEF SearchStep

\* The invariant of the gate in search_code: who holds the slot, how long it paces, and
\* until when it was told to wait.
THEOREM Inductive == Spec => []IInv
<1>1. IInv /\ [Next]_vars => IInv'
  <2> SUFFICES ASSUME IInv, [Next]_vars PROVE IInv'
    OBVIOUS
  <2>1. CASE UNCHANGED vars
    BY <2>1 DEF vars, IInv, TypeOK, SlotHeld, PaceKept, GateKept
  <2>2. ASSUME NEW t \in Threads, SearchStep(t) PROVE IInv'
    BY <2>2, SearchTyped, SearchKeepsSlot, SearchKeepsPace, SearchKeepsGate DEF IInv
  <2> QED BY <2>1, <2>2, TickInv, FetchInv DEF Next
<1> QED BY InitInv, <1>1, PTL DEF Spec

\* At most one search request of a process is in flight, whatever the number
\* of its threads: the slot is taken before session.get and released by finally.
THEOREM SlotExcludes == Spec => []OneSearchInFlight
<1>1. IInv => OneSearchInFlight
  BY DEF IInv, SlotHeld, OneSearchInFlight
<1> QED BY <1>1, Inductive, PTL

\* What a step from "pace" to "request" can be.
LEMMA OnlyFireSends ==
  ASSUME TypeOK, Next, NEW t \in Threads, pc[t] = "pace", pc'[t] = "request"
  PROVE  Fire(t)
<1> USE DEF TypeOK, Goto, At
<1>1. ~Tick
  BY DEF Tick
<1>2. ASSUME NEW u \in Threads, Begin(u) PROVE FALSE
  BY <1>2 DEF Begin
<1>3. ASSUME NEW u \in Threads, FetchStep(u) PROVE FALSE
  BY <1>3 DEF FetchStep, ReserveFetch, ReserveDownload, FetchObject, Download, Send,
              Throttle, FetchResponds, DownloadResponds, Retry, NextResult
<1>4. ASSUME NEW u \in Threads, SearchStep(u) PROVE Fire(t)
  BY <1>4 DEF SearchStep, PassGate, ThrottleSearch, Throttle, AcquireSlot, Fire,
              Respond, MarkBlocked, SearchReturns, shared
<1> QED BY <1>1, <1>2, <1>3, <1>4 DEF Next

\* A search request leaves during a cooldown only if the cooldown was set after
\* its thread had looked at the gate.
THEOREM CooldownOvertakes == Spec => OnlyOvertakenFireInCooldown
<1>1. IInv /\ [Next]_vars =>
        [\A t \in Threads : pc[t] = "pace" /\ pc'[t] = "request" /\ ~overtaken[t]
           => cooldown[Process[t]] = 0]_vars
  <2> SUFFICES ASSUME IInv, Next, NEW t \in Threads, pc[t] = "pace",
                      pc'[t] = "request", ~overtaken[t]
               PROVE  cooldown[Process[t]] = 0
    OBVIOUS
  <2>1. sleep[t] = 0
    BY OnlyFireSends DEF IInv, Fire, At
  <2>2. cooldown[Process[t]] \in Nat
    BY KeyType DEF IInv, TypeOK
  <2> QED BY <2>1, <2>2 DEF IInv, GateKept, PastGate
<1> QED BY <1>1, Inductive, PTL DEF Spec, OnlyOvertakenFireInCooldown

(***************************************************************************)
(* Refinement: the slot with its pacing implements PacedSlot.              *)
(***************************************************************************)

\* Who holds the slot of a process is one of its threads, on its way to a request or
\* in it.
HolderActive ==
  \A p \in Processes : slot[p] # NoThread =>
    Process[slot[p]] = p /\ pc[slot[p]] \in {"pace", "request"}

\* A step of a thread that neither takes nor leaves the slot.
Elsewhere(t) ==
  \/ Begin(t) \/ FetchStep(t) \/ PassGate(t) \/ ThrottleSearch(t) \/ MarkBlocked(t)

\* Such a step is none for the slot.
LEMMA ElsewhereSteps ==
  ASSUME TypeOK, NEW t \in Threads, Elsewhere(t)
  PROVE  /\ UNCHANGED <<slot, lastAge>>
         /\ \A u \in Threads \ {t} : pc'[u] = pc[u]
         /\ pc[t] \notin {"pace", "request"} /\ pc'[t] \notin {"pace", "request"}
<1> USE DEF TypeOK, Goto, At
<1>1. CASE Begin(t) \/ PassGate(t)
  BY <1>1 DEF Begin, PassGate, shared
<1>2. CASE ThrottleSearch(t)
  BY <1>2 DEF ThrottleSearch, Throttle
<1>3. CASE MarkBlocked(t)
  BY <1>3 DEF MarkBlocked, SearchReturns
<1>4. CASE ReserveFetch(t) \/ ReserveDownload(t)
  BY <1>4 DEF ReserveFetch, ReserveDownload, Throttle
<1>5. CASE FetchObject(t) \/ Download(t)
  BY <1>5 DEF FetchObject, Download, Send, shared
<1>6. CASE FetchResponds(t) \/ DownloadResponds(t)
  BY <1>6 DEF FetchResponds, DownloadResponds, Retry, NextResult, shared
<1> QED BY <1>1, <1>2, <1>3, <1>4, <1>5, <1>6 DEF Elsewhere, FetchStep

\* The steps of the system, as the slot sees them.
LEMMA StepKinds ==
  ASSUME Next
  PROVE  Tick \/ \E t \in Threads : Elsewhere(t) \/ AcquireSlot(t) \/ Fire(t) \/ Respond(t)
BY DEF Next, SearchStep, Elsewhere

\* What a thread does in search_code while it holds a slot: a release ends a request
\* that is under way.
THEOREM HoldersAct == Spec => []HolderActive
<1>1. Init => HolderActive
  BY DEF Init, HolderActive
<1>2. IInv /\ HolderActive /\ [Next]_vars => HolderActive'
  <2> SUFFICES ASSUME IInv, HolderActive, [Next]_vars PROVE HolderActive'
    OBVIOUS
  <2> USE ThreadsAssumption DEF IInv, TypeOK, HolderActive, Goto, At
  <2>1. CASE UNCHANGED vars
    BY <2>1 DEF vars
  <2>2. CASE Tick
    BY <2>2 DEF Tick
  <2>3. ASSUME NEW t \in Threads, Elsewhere(t) PROVE HolderActive'
    <3>1. /\ UNCHANGED slot
          /\ \A u \in Threads \ {t} : pc'[u] = pc[u]
          /\ pc[t] \notin {"pace", "request"}
      BY <2>3, ElsewhereSteps
    <3>2. ASSUME NEW p \in Processes, slot[p] # NoThread
          PROVE  slot[p] \in Threads \ {t}
      BY <3>1, <3>2
    <3> QED BY <3>1, <3>2
  <2>4. ASSUME NEW t \in Threads, AcquireSlot(t) PROVE HolderActive'
    BY <2>4 DEF AcquireSlot
  <2>5. ASSUME NEW t \in Threads, Fire(t) PROVE HolderActive'
    BY <2>5 DEF Fire
  <2>6. ASSUME NEW t \in Threads, Respond(t) PROVE HolderActive'
    <3>1. /\ slot' = [slot EXCEPT ![Process[t]] = NoThread]
          /\ \A u \in Threads \ {t} : pc'[u] = pc[u]
      BY <2>6 DEF Respond, SearchReturns
    <3>2. ASSUME NEW p \in Processes, slot'[p] # NoThread
          PROVE  slot'[p] = slot[p] /\ slot[p] \in Threads \ {t}
      BY <3>1, <3>2
    <3> QED BY <3>1, <3>2
  <2> QED BY <2>1, <2>2, <2>3, <2>4, <2>5, <2>6, StepKinds
<1> QED BY <1>1, <1>2, Inductive, PTL DEF Spec

\* Two search requests of a process leave at least MinInterval apart.
LEMMA FiresOnTime ==
  ASSUME IInv, NEW t \in Threads, Fire(t)
  PROVE  lastAge[Process[t]] = MinInterval
<1>1. sleep[t] = 0 /\ pc[t] = "pace"
  BY DEF Fire, At
<1>2. lastAge[Process[t]] \in 0..MinInterval /\ MinInterval \in Nat
  BY KeyType, TimesAssumption DEF IInv, TypeOK
<1>3. sleep[t] + lastAge[Process[t]] >= MinInterval
  BY <1>1 DEF IInv, PaceKept
<1> QED BY <1>1, <1>2, <1>3

\* What PacedSlot's sending[p] is in the gate.
Sending == [p \in Processes |-> slot[p] # NoThread /\ pc[slot[p]] = "request"]

\* Every step of the gate is one of the slot or none.
LEMMA StepSimulation ==
  ASSUME IInv, HolderActive, HolderActive', [Next]_vars
  PROVE  [Slot!SlotNext]_(Slot!slotVars)
<1> USE ThreadsAssumption DEF IInv, TypeOK, HolderActive, Goto, At
<1>1. ASSUME UNCHANGED <<slot, lastAge>>, Sending' = Sending
      PROVE  UNCHANGED Slot!slotVars
  BY <1>1 DEF Slot!slotVars, Sending
<1>2. CASE UNCHANGED vars
  <2>1. Sending' = Sending
    BY <1>2 DEF vars, Sending
  <2> QED BY <1>1, <1>2, <2>1 DEF vars
<1>3. CASE Tick
  <2>1. Sending' = Sending
    BY <1>3 DEF Tick, Sending
  <2>2. lastAge' = [p \in Processes |->
                      IF lastAge[p] < MinInterval THEN lastAge[p] + 1 ELSE MinInterval]
    BY <1>3 DEF Tick
  <2>3. Slot!TimePasses
    BY <1>3, <2>1, <2>2 DEF Tick, Slot!TimePasses, Sending
  <2> QED BY <2>3 DEF Slot!SlotNext
<1>4. ASSUME NEW t \in Threads, Elsewhere(t) PROVE UNCHANGED Slot!slotVars
  <2>1. UNCHANGED <<slot, lastAge>>
    BY <1>4, ElsewhereSteps
  <2>2. ASSUME NEW p \in Processes PROVE Sending'[p] = Sending[p]
    BY <1>4, ElsewhereSteps DEF Sending
  <2>3. Sending' = Sending
    BY <2>2 DEF Sending
  <2> QED BY <1>1, <2>1, <2>3
<1>5. ASSUME NEW t \in Threads, AcquireSlot(t) PROVE Slot!SlotNext
  <2>1. ASSUME NEW p \in Processes PROVE Sending'[p] = Sending[p]
    BY <1>5 DEF AcquireSlot, Sending
  <2>2. Sending' = Sending
    BY <2>1 DEF Sending
  <2>3. Slot!Acquire(t)
    BY <1>5, <2>2 DEF AcquireSlot, Slot!Acquire, Sending
  <2> QED BY <2>3 DEF Slot!SlotNext
<1>6. ASSUME NEW t \in Threads, Fire(t) PROVE Slot!SlotNext
  <2>1. slot[Process[t]] = t /\ ~Sending[Process[t]] /\ Process[t] \in Processes
    BY <1>6, KeyType DEF Fire, SlotHeld, Sending
  <2>2. Sending' = [Sending EXCEPT ![Process[t]] = TRUE]
    <3>1. Sending'[Process[t]] = TRUE
      <4>1. slot' = slot /\ pc'[t] = "request"
        BY <1>6 DEF Fire
      <4>2. Process[t] \in Processes /\ slot[Process[t]] = t /\ t # NoThread
        BY <2>1
      <4> QED BY <4>1, <4>2 DEF Sending
    <3>2. ASSUME NEW p \in Processes \ {Process[t]} PROVE Sending'[p] = Sending[p]
      <4>1. slot[p] # NoThread => slot[p] \in Threads \ {t}
        OBVIOUS
      <4>2. slot' = slot /\ \A u \in Threads \ {t} : pc'[u] = pc[u]
        BY <1>6 DEF Fire
      <4> QED BY <4>1, <4>2 DEF Sending
    <3>3. Sending' = [p \in Processes |-> IF p = Process[t] THEN TRUE ELSE Sending[p]]
      <4>1. Sending' = [p \in Processes |-> Sending'[p]]
        BY DEF Sending
      <4>2. \A p \in Processes :
              Sending'[p] = IF p = Process[t] THEN TRUE ELSE Sending[p]
        BY <3>1, <3>2
      <4> QED BY <4>1, <4>2
    <3> QED BY <3>3 DEF Sending
  <2>3. Slot!SendRequest(t)
    BY <1>6, <2>1, <2>2, FiresOnTime DEF Fire, Slot!SendRequest, Sending
  <2> QED BY <2>3 DEF Slot!SlotNext
<1>7. ASSUME NEW t \in Threads, Respond(t) PROVE Slot!SlotNext
  <2>1. slot[Process[t]] = t /\ Sending[Process[t]] = TRUE /\ Process[t] \in Processes
    <3>1. pc[t] = "request" /\ slot[Process[t]] = t /\ Process[t] \in Processes
      BY <1>7, KeyType DEF Respond, SlotHeld
    <3> QED BY <3>1 DEF Sending
  <2>2. Sending' = [Sending EXCEPT ![Process[t]] = FALSE]
    <3>1. /\ slot' = [slot EXCEPT ![Process[t]] = NoThread]
          /\ \A u \in Threads \ {t} : pc'[u] = pc[u]
      BY <1>7 DEF Respond, SearchReturns
    <3>2. Sending'[Process[t]] = FALSE
      BY <2>1, <3>1 DEF Sending
    <3>3. ASSUME NEW p \in Processes \ {Process[t]} PROVE Sending'[p] = Sending[p]
      <4>1. slot[p] # NoThread => slot[p] \in Threads \ {t}
        OBVIOUS
      <4> QED BY <3>1, <4>1 DEF Sending
    <3> QED BY <2>1, <3>2, <3>3 DEF Sending
  <2>3. Slot!Release(t)
    BY <1>7, <2>1, <2>2 DEF Respond, Slot!Release, Sending
  <2> QED BY <2>3 DEF Slot!SlotNext
<1> QED BY <1>2, <1>3, <1>4, <1>5, <1>6, <1>7, StepKinds

\* The gate implements the paced slot: a process sends one search request at a time, each
\* MinInterval after the one before, whatever its threads wait for and for how long.
THEOREM SlotImplemented == Spec => ImplementsPacedSlot
<1>1. Init => Slot!SlotInit
  BY DEF Init, Slot!SlotInit
<1>2. IInv /\ HolderActive /\ HolderActive' /\ [Next]_vars => [Slot!SlotNext]_(Slot!slotVars)
  BY StepSimulation
<1> QED BY <1>1, <1>2, Inductive, HoldersAct, PTL DEF Spec, ImplementsPacedSlot, Slot!SlotSpec

(***************************************************************************)
(* The budget.  Although a request may leave long after it was reserved,   *)
(* and a popped timestamp is gone for good, a window never sees more than  *)
(* Limit requests of a token, and one per thread that uses it.             *)
(***************************************************************************)

\* The requests of a log that are at most so old.
Young(ages, age) == {i \in DOMAIN ages : ages[i] <= age}
Count(ages, age) == Cardinality(Young(ages, age))

Ages == 0 .. Window - 1

(***************************************************************************)
(* Counting in a log of ages.                                              *)
(***************************************************************************)

\* A log holds at least as many requests as it holds young ones.
LEMMA CountType ==
  ASSUME NEW ages \in Seq(0..Window), NEW age \in Nat
  PROVE  /\ IsFiniteSet(Young(ages, age))
         /\ Count(ages, age) \in Nat
         /\ Count(ages, age) <= Len(ages)
<1>1. Len(ages) \in Nat /\ DOMAIN ages = 1..Len(ages)
  BY LenProperties
<1>2. IsFiniteSet(1..Len(ages)) /\ Cardinality(1..Len(ages)) = Len(ages)
  BY <1>1, FS_Interval
<1>3. Young(ages, age) \in SUBSET (1..Len(ages))
  BY <1>1 DEF Young
<1> QED BY <1>2, <1>3, FS_Subset, FS_CardinalityType DEF Count

\* What Recent drops is a prefix of old requests, up to the first young one.
LEMMA RecentShape ==
  ASSUME NEW ages \in Seq(0..Window)
  PROVE  \E n \in 0..Len(ages) :
           /\ Recent(ages) = SubSeq(ages, n + 1, Len(ages))
           /\ \A i \in 1..n : ages[i] >= Window
           /\ n < Len(ages) => \E j \in 1 .. n + 1 : ~(ages[j] >= Window)
<1> DEFINE old == {i \in DOMAIN ages : \A j \in 1..i : ages[j] >= Window}
<1>1. PICK len \in Nat : len = Len(ages) /\ DOMAIN ages = 1..len
  BY LenProperties
<1>2. IsFiniteSet(1..len) /\ Cardinality(1..len) = len
  BY FS_Interval
<1>3. old \in SUBSET (1..len)
  BY <1>1
<1>4. \A i \in 1..len : i \in old <=> \A j \in 1..i : ages[j] >= Window
  BY <1>1
<1>5. Recent(ages) = SubSeq(ages, Cardinality(old) + 1, Len(ages))
  BY DEF Recent
<1> HIDE DEF old
<1>6. IsFiniteSet(old) /\ Cardinality(old) \in Nat /\ Cardinality(old) <= len
  BY <1>2, <1>3, FS_Subset, FS_CardinalityType
<1>7. PICK n \in 0..len : n = Cardinality(old)
  BY <1>6
<1>8. ASSUME NEW i \in old PROVE i \in 1..n
  <2>1. i \in 1..len
    BY <1>3
  <2>2. 1..i \in SUBSET old
    BY <1>4, <2>1
  <2>3. Cardinality(1..i) = i
    BY <2>1, FS_Interval
  <2>4. Cardinality(1..i) <= Cardinality(old)
    BY <1>6, <2>2, FS_Subset
  <2> QED BY <1>7, <2>1, <2>3, <2>4
<1>9. old = 1..n
  <2>1. IsFiniteSet(1..n) /\ Cardinality(1..n) = n
    BY FS_Interval
  <2>2. old \in SUBSET (1..n)
    BY <1>8
  <2> QED BY <1>7, <2>1, <2>2, FS_Subset
<1>10. \A i \in 1..n : ages[i] >= Window
  BY <1>4, <1>9
<1>11. n < len => \E j \in 1 .. n + 1 : ~(ages[j] >= Window)
  <2>1. n + 1 \notin old
    BY <1>9
  <2> QED BY <1>4, <2>1
<1> QED BY <1>1, <1>5, <1>7, <1>10, <1>11

\* The popped requests were not young.
LEMMA RecentCount ==
  ASSUME NEW ages \in Seq(0..Window), NEW age \in Ages
  PROVE  Count(Recent(ages), age) = Count(ages, age)
<1>1. PICK n \in 0..Len(ages) :
        /\ Recent(ages) = SubSeq(ages, n + 1, Len(ages))
        /\ \A i \in 1..n : ages[i] >= Window
  BY RecentShape
<1>2. PICK len \in Nat : len = Len(ages) /\ DOMAIN ages = 1..len
  BY LenProperties
<1>3. \A i \in 1..len : ages[i] \in 0..Window
  BY <1>2, ElementOfSeq
<1> DEFINE recent == Recent(ages)
<1>4. /\ recent \in Seq(0..Window)
      /\ Len(recent) = len - n
      /\ \A i \in 1 .. len - n : recent[i] = ages[n + i]
  <2>1. \A i \in n + 1 .. len : ages[i] \in 0..Window
    BY <1>2, <1>3
  <2>2. /\ SubSeq(ages, n + 1, len) \in Seq(0..Window)
        /\ Len(SubSeq(ages, n + 1, len)) = IF n + 1 <= len THEN len - (n + 1) + 1 ELSE 0
        /\ \A i \in 1 .. len - (n + 1) + 1 : SubSeq(ages, n + 1, len)[i] = ages[n + 1 + i - 1]
    BY <1>2, <2>1, SubSeqProperties
  <2>3. n <= len
    BY <1>2
  <2> QED BY <1>1, <1>2, <2>2, <2>3
<1>5. DOMAIN recent = 1 .. len - n
  BY <1>4, LenProperties
<1> HIDE DEF recent
<1> DEFINE shift == [i \in Young(recent, age) |-> n + i]
<1>6. shift \in Bijection(Young(recent, age), Young(ages, age))
  <2>1. ASSUME NEW i \in Young(recent, age) PROVE shift[i] \in Young(ages, age)
    BY <1>2, <1>4, <1>5 DEF Young
  <2>2. ASSUME NEW i \in Young(recent, age), NEW j \in Young(recent, age), shift[i] = shift[j]
        PROVE  i = j
    BY <1>5, <2>2 DEF Young
  <2>3. ASSUME NEW j \in Young(ages, age)
        PROVE  \E i \in Young(recent, age) : shift[i] = j
    <3>1. j \in 1..len /\ ages[j] <= age
      BY <1>2 DEF Young
    <3>2. ~(j \in 1..n)
      BY <1>1, <1>3, <3>1, TimesAssumption DEF Ages
    <3>3. j - n \in 1 .. len - n /\ n + (j - n) = j
      BY <1>2, <3>1, <3>2
    <3>4. j - n \in Young(recent, age)
      BY <1>4, <1>5, <3>1, <3>3 DEF Young
    <3> QED BY <3>3, <3>4
  <2> QED BY <2>1, <2>2, <2>3 DEF Bijection, Injection, Surjection, IsInjective
<1>7. IsFiniteSet(Young(recent, age))
  BY <1>4, CountType DEF Ages
<1> QED BY <1>6, <1>7, FS_Bijection DEF ExistsBijection, Count, recent

\* A request that is noted now counts for every age.
LEMMA AppendCount ==
  ASSUME NEW ages \in Seq(0..Window), NEW age \in Nat
  PROVE  Count(Append(ages, 0), age) = Count(ages, age) + 1
<1>1. PICK len \in Nat : len = Len(ages) /\ DOMAIN ages = 1..len
  BY LenProperties
<1>2. PICK longer \in Seq(0..Window) :
        /\ longer = Append(ages, 0)
        /\ Len(longer) = len + 1
        /\ \A i \in 1..len : longer[i] = ages[i]
        /\ longer[len + 1] = 0
  <2>1. 0 \in 0..Window
    BY TimesAssumption
  <2> QED BY <1>1, <2>1, AppendProperties
<1>3. DOMAIN longer = 1 .. len + 1
  BY <1>2, LenProperties
<1>4. Young(longer, age) = Young(ages, age) \cup {len + 1}
  BY <1>1, <1>2, <1>3 DEF Young
<1>5. len + 1 \notin Young(ages, age)
  BY <1>1 DEF Young
<1>6. IsFiniteSet(Young(ages, age))
  BY CountType
<1> QED BY <1>2, <1>4, <1>5, <1>6, FS_AddElement DEF Count

\* After a unit of time no request is new, and the others were younger by one.
LEMMA OlderCount ==
  ASSUME NEW ages \in Seq(0..Window), NEW age \in Ages
  PROVE  Count(Older(ages), age) = IF age = 0 THEN 0 ELSE Count(ages, age - 1)
<1>1. PICK len \in Nat : len = Len(ages) /\ DOMAIN ages = 1..len
  BY LenProperties
<1>2. \A i \in 1..len : ages[i] \in 0..Window
  BY <1>1, ElementOfSeq
<1>3. DOMAIN Older(ages) = 1..len
      /\ \A i \in 1..len : Older(ages)[i] = IF ages[i] < Window THEN ages[i] + 1 ELSE Window
  BY <1>1 DEF Older
<1>4. CASE age = 0
  <2>1. Young(Older(ages), age) = {}
    <3>1. \A i \in 1..len : Older(ages)[i] > 0
      BY <1>2, <1>3, TimesAssumption
    <3>2. \A i \in 1..len : ~(Older(ages)[i] <= 0)
      <4> SUFFICES ASSUME NEW i \in 1..len PROVE ~(Older(ages)[i] <= 0)
        OBVIOUS
      <4>1. Older(ages)[i] \in Nat
        BY <1>2, <1>3, TimesAssumption
      <4> QED BY <3>1, <4>1
    <3> QED BY <1>3, <1>4, <3>2 DEF Young
  <2> QED BY <1>4, <2>1, FS_EmptySet DEF Count
<1>5. CASE age # 0
  <2>1. Young(Older(ages), age) = Young(ages, age - 1)
    BY <1>1, <1>2, <1>3, <1>5, TimesAssumption DEF Young, Ages
  <2> QED BY <1>5, <2>1 DEF Count
<1> QED BY <1>4, <1>5

(***************************************************************************)
(* The invariant.                                                          *)
(***************************************************************************)

\* Where a thread has a reservation that it has not used: a search that waits for the
\* slot or paces, a fetch between its reservation and requests.get.
Reserved == {"slot", "pace", "fetchReserved", "downloadReserved"}

\* The threads that share a budget, and those with a reservation yet to use.
Sharing(k) == {t \in Threads : Key(t) = k}
Pending(k) == {t \in Sharing(k) : pc[t] \in Reserved}

\* A log of sent requests is a queue: oldest first, none older than the window.
Queue(ages) ==
  \A i \in 1..Len(ages) :
    ages[i] < Window /\ \A j \in 1..i : ages[j] >= ages[i]

\* What was sent lately, or is still to be sent, was reserved as lately, but
\* for one request of each thread, which it may have held back for any time.
SentReserved ==
  \A k \in Keys : \A age \in Ages :
    Count(fired[k], age) + Cardinality(Pending(k))
      <= Count(history[k], age) + Cardinality(Sharing(k))

\* A window never has more than Limit reservations.
ReservedBound == \A k \in Keys : Count(history[k], Window - 1) <= Limit

BudgetInv == SentReserved /\ ReservedBound /\ \A k \in Keys : Queue(fired[k])

LEMMA WindowAge == Window - 1 \in Ages /\ Window - 1 \in Nat /\ \A age \in Ages : age \in Nat
  BY TimesAssumption DEF Ages

\* The threads of a budget are finitely many.
LEMMA SharingFinite ==
  ASSUME NEW k
  PROVE  /\ IsFiniteSet(Sharing(k)) /\ Cardinality(Sharing(k)) \in Nat
         /\ IsFiniteSet(Pending(k)) /\ Cardinality(Pending(k)) \in Nat
         /\ Cardinality(Pending(k)) <= Cardinality(Sharing(k))
<1>1. IsFiniteSet(Threads)
  BY ThreadsAssumption
<1>2. Sharing(k) \in SUBSET Threads
  BY DEF Sharing
<1>3. IsFiniteSet(Sharing(k))
  BY <1>1, <1>2, FS_Subset
<1>4. Pending(k) \in SUBSET Sharing(k)
  BY DEF Pending
<1> QED BY <1>3, <1>4, FS_Subset, FS_CardinalityType

\* The bound follows: all that fired[k] holds left within the last window.
LEMMA BudgetFollows == TypeOK /\ BudgetInv => BudgetBound
<1> SUFFICES ASSUME TypeOK, BudgetInv, NEW k \in Keys
             PROVE  Len(fired[k]) <= Limit + Cardinality(Sharing(k))
  BY DEF BudgetBound, Sharing
<1>1. PICK sent \in Seq(0..Window) : sent = fired[k]
  BY DEF TypeOK
<1>2. PICK len \in Nat : len = Len(sent) /\ DOMAIN sent = 1..len
  BY LenProperties
<1>3. Young(sent, Window - 1) = 1..len
  <2>1. \A i \in 1..len : sent[i] \in 0..Window /\ sent[i] < Window
    BY <1>1, <1>2, ElementOfSeq DEF BudgetInv, Queue
  <2>2. \A i \in 1..len : sent[i] <= Window - 1
    BY <2>1, TimesAssumption
  <2> QED BY <1>2, <2>2 DEF Young
<1>4. Count(sent, Window - 1) = len
  BY <1>3, FS_Interval DEF Count
<1>5. len + Cardinality(Pending(k)) <= Count(history[k], Window - 1) + Cardinality(Sharing(k))
  BY <1>1, <1>4, WindowAge DEF BudgetInv, SentReserved
<1>6. PICK reserved \in Nat : reserved = Count(history[k], Window - 1) /\ reserved <= Limit
  BY WindowAge, CountType DEF TypeOK, BudgetInv, ReservedBound
<1>7. PICK pending \in Nat, sharing \in Nat :
        pending = Cardinality(Pending(k)) /\ sharing = Cardinality(Sharing(k))
  BY SharingFinite
<1>8. len + pending <= reserved + sharing
  BY <1>5, <1>6, <1>7
<1>9. len <= Limit + sharing
  BY <1>6, <1>8, TimesAssumption
<1> QED BY <1>1, <1>2, <1>7, <1>9

(***************************************************************************)
(* How the steps move its parts.                                           *)
(***************************************************************************)

\* Only a thread of k that gets or uses a reservation changes who is pending.
LEMMA PendingMoves ==
  ASSUME NEW t \in Threads, \A u \in Threads \ {t} : pc'[u] = pc[u], NEW k
  PROVE  /\ (Key(t) # k \/ (pc[t] \in Reserved <=> pc'[t] \in Reserved))
            => Cardinality(Pending(k)') = Cardinality(Pending(k))
         /\ (Key(t) = k /\ pc[t] \notin Reserved /\ pc'[t] \in Reserved)
            => Cardinality(Pending(k)') = Cardinality(Pending(k)) + 1
         /\ (Key(t) = k /\ pc[t] \in Reserved /\ pc'[t] \notin Reserved)
            => Cardinality(Pending(k)') = Cardinality(Pending(k)) - 1
<1> USE DEF Pending, Sharing
<1>1. IsFiniteSet(Pending(k))
  BY SharingFinite
<1>2. ASSUME Key(t) # k \/ (pc[t] \in Reserved <=> pc'[t] \in Reserved)
      PROVE  Pending(k)' = Pending(k)
  BY <1>2
<1>3. ASSUME Key(t) = k, pc[t] \notin Reserved, pc'[t] \in Reserved
      PROVE  Cardinality(Pending(k)') = Cardinality(Pending(k)) + 1
  <2>1. Pending(k)' = Pending(k) \cup {t} /\ t \notin Pending(k)
    BY <1>3
  <2> HIDE DEF Pending
  <2> QED BY <1>1, <2>1, FS_AddElement
<1>4. ASSUME Key(t) = k, pc[t] \in Reserved, pc'[t] \notin Reserved
      PROVE  Cardinality(Pending(k)') = Cardinality(Pending(k)) - 1
  <2>1. Pending(k)' = Pending(k) \ {t} /\ t \in Pending(k)
    BY <1>4
  <2> HIDE DEF Pending
  <2> QED BY <1>1, <2>1, FS_RemoveElement
<1> HIDE DEF Pending
<1> QED BY <1>2, <1>3, <1>4

\* _throttle_token_requests adds one reservation, within the limit, or none.
LEMMA ThrottleReserves ==
  ASSUME TypeOK, ReservedBound, NEW t \in Threads, NEW from \in Control,
         NEW to \in Control, from # to, Throttle(t, from, to)
  PROVE  /\ ReservedBound'
         /\ \A k \in Keys, age \in Ages :
              Count(history'[k], age) =
                IF k = Key(t) /\ pc'[t] = to THEN Count(history[k], age) + 1
                                             ELSE Count(history[k], age)
<1> DEFINE log == history[Key(t)]
           recent == Recent(log)
<1>1. Key(t) \in Keys /\ log \in Seq(0..Window) /\ pc \in [Threads -> Control]
      /\ history \in [Keys -> Seq(0..Window)]
  BY KeyType DEF TypeOK
<1>2. recent \in Seq(0..Window)
  BY <1>1, RecentType
<1>3. \A age \in Ages : Count(recent, age) = Count(log, age) /\ Count(log, age) \in Nat
  BY <1>1, RecentCount, CountType, WindowAge
<1>4. ASSUME Len(recent) < Limit
      PROVE  /\ \A age \in Ages : Count(history'[Key(t)], age) = Count(log, age) + 1
             /\ Count(history'[Key(t)], Window - 1) <= Limit
             /\ \A k \in Keys \ {Key(t)} : history'[k] = history[k]
             /\ pc'[t] = to
  <2>1. history' = [history EXCEPT ![Key(t)] = Append(recent, 0)] /\ pc'[t] = to
    BY <1>1, <1>4 DEF Throttle, Goto
  <2>2. history'[Key(t)] = Append(recent, 0) /\ \A k \in Keys \ {Key(t)} : history'[k] = history[k]
    BY <1>1, <2>1
  <2> HIDE DEF recent, log
  <2>3. \A age \in Ages : Count(history'[Key(t)], age) = Count(log, age) + 1
    BY <1>2, <1>3, <2>2, AppendCount, WindowAge
  <2>4. Count(recent, Window - 1) \in Nat /\ Count(recent, Window - 1) <= Len(recent)
    BY <1>2, CountType, WindowAge
  <2>5. Len(recent) \in Nat
    BY <1>2, LenProperties
  <2>6. Count(recent, Window - 1) + 1 <= Limit
    BY <1>4, <2>4, <2>5, TimesAssumption
  <2> QED BY <1>3, <2>1, <2>2, <2>3, <2>6, WindowAge
<1>5. ASSUME ~(Len(recent) < Limit)
      PROVE  /\ \A age \in Ages : Count(history'[Key(t)], age) = Count(log, age)
             /\ \A k \in Keys \ {Key(t)} : history'[k] = history[k]
             /\ pc'[t] # to
  <2>1. history' = [history EXCEPT ![Key(t)] = recent] /\ pc'[t] = from
    BY <1>1, <1>5 DEF Throttle, At
  <2>2. history'[Key(t)] = recent /\ \A k \in Keys \ {Key(t)} : history'[k] = history[k]
    BY <1>1, <2>1
  <2> QED BY <1>3, <2>1, <2>2
<1>6. \A k \in Keys : Count(history[k], Window - 1) <= Limit
  BY DEF ReservedBound
<1> HIDE DEF recent
<1>7. ReservedBound'
  <2>1. Count(history'[Key(t)], Window - 1) <= Limit
    BY <1>1, <1>4, <1>5, <1>6, WindowAge
  <2>2. \A k \in Keys \ {Key(t)} : history'[k] = history[k]
    BY <1>4, <1>5
  <2> QED BY <1>6, <2>1, <2>2 DEF ReservedBound
<1>8. ASSUME NEW k \in Keys, NEW age \in Ages
      PROVE  Count(history'[k], age) =
                IF k = Key(t) /\ pc'[t] = to THEN Count(history[k], age) + 1
                                             ELSE Count(history[k], age)
  BY <1>4, <1>5
<1> QED BY <1>7, <1>8

\* A request that is sent joins the queue as its youngest, and counts.
LEMMA RecordCounts ==
  ASSUME TypeOK, NEW t \in Threads, RecordFired(t), \A k \in Keys : Queue(fired[k])
  PROVE  /\ \A k \in Keys : Queue(fired'[k])
         /\ \A k \in Keys, age \in Ages :
              Count(fired'[k], age) =
                IF k = Key(t) THEN Count(fired[k], age) + 1 ELSE Count(fired[k], age)
<1>1. Key(t) \in Keys /\ fired \in [Keys -> Seq(0..Window)]
  BY KeyType DEF TypeOK
<1>2. PICK log \in Seq(0..Window) : log = fired[Key(t)]
  BY <1>1
<1>3. fired'[Key(t)] = Append(log, 0) /\ \A k \in Keys \ {Key(t)} : fired'[k] = fired[k]
  BY <1>1, <1>2 DEF RecordFired
<1>4. Queue(Append(log, 0))
  <2>1. 0 \in 0..Window
    BY TimesAssumption
  <2>2. PICK len \in Nat : len = Len(log)
    BY LenProperties
  <2>3. PICK longer : longer = Append(log, 0)
    OBVIOUS
  <2>4. /\ Len(longer) = len + 1 /\ longer[len + 1] = 0
        /\ \A i \in 1..len : longer[i] = log[i]
    BY <2>1, <2>2, <2>3, AppendProperties
  <2>5. \A i \in 1..len : log[i] \in 0..Window
    BY <2>2, ElementOfSeq
  <2>6. \A i \in 1..len : log[i] < Window /\ \A j \in 1..i : log[j] >= log[i]
    BY <1>1, <1>2, <2>2 DEF Queue
  <2>7. ASSUME NEW i \in 1..len + 1
        PROVE  longer[i] < Window /\ \A j \in 1..i : longer[j] >= longer[i]
    <3>1. CASE i = len + 1
      BY <2>4, <2>5, <3>1, TimesAssumption
    <3>2. CASE i # len + 1
      <4>1. i \in 1..len
        BY <3>2
      <4>2. \A j \in 1..i : longer[j] = log[j]
        BY <2>4, <4>1
      <4> QED BY <2>4, <2>6, <4>1, <4>2
    <3> QED BY <3>1, <3>2
  <2> QED BY <2>3, <2>4, <2>7 DEF Queue
<1>5. \A age \in Ages : Count(Append(log, 0), age) = Count(log, age) + 1
  BY AppendCount, WindowAge
<1> QED BY <1>2, <1>3, <1>4, <1>5

\* Popping what has left the window leaves a queue.
LEMMA QueueAges ==
  ASSUME NEW ages \in Seq(0..Window), Queue(ages)
  PROVE  Queue(Recent(Older(ages)))
<1>1. PICK len \in Nat : len = Len(ages) /\ DOMAIN ages = 1..len
  BY LenProperties
<1>2. \A i \in 1..len : ages[i] \in 0..Window /\ ages[i] < Window
                        /\ \A j \in 1..i : ages[j] >= ages[i]
  BY <1>1, ElementOfSeq DEF Queue
<1>3. PICK older \in Seq(0..Window) : older = Older(ages)
  BY OlderType
<1>4. DOMAIN older = 1..len /\ \A i \in 1..len : older[i] = ages[i] + 1
  BY <1>1, <1>2, <1>3 DEF Older
<1>5. Len(older) = len
  BY <1>4, LenProperties
<1>6. PICK n \in 0..len :
        /\ Recent(older) = SubSeq(older, n + 1, len)
        /\ n < len => \E j \in 1 .. n + 1 : ~(older[j] >= Window)
  BY <1>5, RecentShape
<1>7. \A i \in 1..len : older[i] \in Nat /\ \A j \in 1..i : older[j] >= older[i]
  BY <1>2, <1>4
<1>8. \A i \in n + 1 .. len : older[i] < Window
  <2> SUFFICES ASSUME NEW i \in n + 1 .. len PROVE older[i] < Window
    OBVIOUS
  <2>1. PICK j \in 1 .. n + 1 : ~(older[j] >= Window)
    BY <1>6
  <2>2. i \in 1..len /\ j \in 1..i
    OBVIOUS
  <2>3. older[j] >= older[i] /\ older[j] \in Nat /\ older[i] \in Nat
    BY <1>7, <2>2
  <2> QED BY <2>1, <2>3, TimesAssumption
<1>9. PICK rest : rest = Recent(older)
  OBVIOUS
<1>10. Len(rest) = len - n /\ \A i \in 1 .. len - n : rest[i] = older[n + i]
  <2>1. ASSUME NEW i \in n + 1 .. len PROVE older[i] \in 0..Window
    <3>1. i \in 1..Len(older)
      BY <1>5
    <3> QED BY <3>1, ElementOfSeq
  <2>2. /\ Len(SubSeq(older, n + 1, len)) = IF n + 1 <= len THEN len - (n + 1) + 1 ELSE 0
        /\ \A i \in 1 .. len - (n + 1) + 1 : SubSeq(older, n + 1, len)[i] = older[n + 1 + i - 1]
    BY <2>1, SubSeqProperties
  <2> QED BY <1>6, <1>9, <2>2
<1>11. ASSUME NEW i \in 1 .. len - n
       PROVE  rest[i] < Window /\ \A j \in 1..i : rest[j] >= rest[i]
  <2>1. n + i \in n + 1 .. len /\ n + i \in 1..len
    OBVIOUS
  <2>2. ASSUME NEW j \in 1..i PROVE rest[j] >= rest[i]
    <3>1. j \in 1 .. len - n /\ n + j \in 1 .. n + i
      OBVIOUS
    <3> QED BY <1>7, <1>10, <2>1, <3>1
  <2> QED BY <1>8, <1>10, <2>1, <2>2
<1> QED BY <1>3, <1>9, <1>10, <1>11 DEF Queue

\* Time passes: what counts as young now was so a unit before, but what is new is
\* nothing, and every thread may have a reservation left.
LEMMA TickBudget ==
  ASSUME TypeOK, BudgetInv, Tick
  PROVE  BudgetInv'
<1>1. /\ \A k \in Keys : fired[k] \in Seq(0..Window) /\ history[k] \in Seq(0..Window)
      /\ \A k \in Keys : history'[k] = Older(history[k])
      /\ \A k \in Keys : fired'[k] = Recent(Older(fired[k]))
      /\ pc' = pc
  BY DEF TypeOK, Tick
<1>2. ASSUME NEW k \in Keys, NEW age \in Ages
      PROVE  /\ Count(history'[k], age) = IF age = 0 THEN 0 ELSE Count(history[k], age - 1)
             /\ Count(fired'[k], age) = IF age = 0 THEN 0 ELSE Count(fired[k], age - 1)
  <2>1. Older(fired[k]) \in Seq(0..Window)
    BY <1>1, OlderType
  <2> QED BY <1>1, <2>1, OlderCount, RecentCount
<1>3. ASSUME NEW k \in Keys, NEW age \in Ages
      PROVE  Count(fired'[k], age) + Cardinality(Pending(k)')
               <= Count(history'[k], age) + Cardinality(Sharing(k))
  <2>1. Pending(k)' = Pending(k)
    BY <1>1 DEF Pending
  <2>2. CASE age = 0
    <3>1. Count(fired'[k], age) = 0 /\ Count(history'[k], age) = 0
      BY <1>2, <2>2
    <3>2. PICK pending \in Nat, sharing \in Nat :
            pending = Cardinality(Pending(k)) /\ sharing = Cardinality(Sharing(k))
            /\ pending <= sharing
      BY SharingFinite
    <3> QED BY <2>1, <3>1, <3>2
  <2>3. CASE age # 0
    <3>1. age - 1 \in Ages
      BY <2>3, TimesAssumption DEF Ages
    <3>2. Count(fired[k], age - 1) + Cardinality(Pending(k))
            <= Count(history[k], age - 1) + Cardinality(Sharing(k))
      BY <3>1 DEF BudgetInv, SentReserved
    <3>3. /\ Count(fired'[k], age) = Count(fired[k], age - 1)
          /\ Count(history'[k], age) = Count(history[k], age - 1)
      BY <1>2, <2>3
    <3> QED BY <2>1, <3>2, <3>3
  <2> QED BY <2>2, <2>3
<1>4. ASSUME NEW k \in Keys PROVE Count(history'[k], Window - 1) <= Limit
  <2>1. PICK log \in Seq(0..Window) : log = history[k]
    BY <1>1
  <2>2. Count(history'[k], Window - 1) \in {0, Count(log, Window - 1 - 1)}
    BY <1>2, <2>1, WindowAge
  <2>3. CASE Window = 1
    BY <1>2, <2>3, WindowAge, TimesAssumption
  <2>4. CASE Window # 1
    <3>1. Window - 1 - 1 \in Nat
      BY <2>4, TimesAssumption
    <3>2. Young(log, Window - 1 - 1) \in SUBSET Young(log, Window - 1)
      <4>1. \A i \in DOMAIN log : log[i] \in 0..Window
        BY LenProperties, ElementOfSeq
      <4> QED BY <4>1, TimesAssumption DEF Young
    <3>3. Count(log, Window - 1 - 1) <= Count(log, Window - 1)
      BY <3>2, CountType, WindowAge, FS_Subset DEF Count
    <3>4. PICK now \in Nat, before \in Nat :
            now = Count(log, Window - 1 - 1) /\ before = Count(log, Window - 1)
      BY <3>1, CountType, WindowAge
    <3>5. before <= Limit
      BY <2>1, <3>4 DEF BudgetInv, ReservedBound
    <3> QED BY <2>2, <3>3, <3>4, <3>5, TimesAssumption
  <2> QED BY <2>3, <2>4
<1>5. ASSUME NEW k \in Keys PROVE Queue(fired'[k])
  BY <1>1, QueueAges DEF BudgetInv
<1>6. SentReserved'
  <2>1. \A k \in Keys : Sharing(k)' = Sharing(k)
    BY DEF Sharing
  <2> QED BY <1>3, <2>1 DEF SentReserved
<1> QED BY <1>4, <1>5, <1>6 DEF BudgetInv, ReservedBound

\* A step that notes no request and gives or takes nobody's reservation.
LEMMA QuietBudget ==
  ASSUME TypeOK, BudgetInv, NEW t \in Threads,
         UNCHANGED <<history, fired>>, \A u \in Threads \ {t} : pc'[u] = pc[u],
         pc[t] \in Reserved <=> pc'[t] \in Reserved
  PROVE  BudgetInv'
<1>1. ASSUME NEW k \in Keys PROVE Cardinality(Pending(k)') = Cardinality(Pending(k))
  BY PendingMoves
<1>2. SentReserved'
  <2>1. \A k \in Keys : Sharing(k)' = Sharing(k)
    BY DEF Sharing
  <2> QED BY <1>1, <2>1 DEF BudgetInv, SentReserved
<1> QED BY <1>2 DEF BudgetInv, ReservedBound

\* A step may send and reserve, as long as what is sent or pending grows by no more
\* than what is reserved.
LEMMA MovedBudget ==
  ASSUME TypeOK, BudgetInv, NEW k \in Keys, NEW age \in Ages,
         NEW sent \in Int, NEW reserved \in Int, NEW pending \in Int,
         sent + pending <= reserved,
         Count(fired'[k], age) = Count(fired[k], age) + sent,
         Count(history'[k], age) = Count(history[k], age) + reserved,
         Cardinality(Pending(k)') = Cardinality(Pending(k)) + pending
  PROVE  Count(fired'[k], age) + Cardinality(Pending(k)')
           <= Count(history'[k], age) + Cardinality(Sharing(k))
<1>1. fired[k] \in Seq(0..Window) /\ history[k] \in Seq(0..Window)
  BY DEF TypeOK
<1>2. PICK f \in Nat, h \in Nat : f = Count(fired[k], age) /\ h = Count(history[k], age)
  BY <1>1, CountType, WindowAge
<1>3. PICK p \in Nat, s \in Nat : p = Cardinality(Pending(k)) /\ s = Cardinality(Sharing(k))
  BY SharingFinite
<1>4. f + p <= h + s
  BY <1>2, <1>3 DEF BudgetInv, SentReserved
<1> QED BY <1>2, <1>3, <1>4

\* _throttle_token_requests: what becomes pending is reserved in the same step.
LEMMA ReserveBudget ==
  ASSUME TypeOK, BudgetInv, NEW t \in Threads, NEW from \in Control \ Reserved,
         NEW to \in Control \cap Reserved, Throttle(t, from, to), UNCHANGED fired
  PROVE  BudgetInv'
<1>1. pc[t] = from /\ pc'[t] \in {from, to} /\ UNCHANGED fired
      /\ \A u \in Threads \ {t} : pc'[u] = pc[u]
  BY DEF TypeOK, Throttle, At, Goto
<1>2. /\ ReservedBound'
      /\ \A k \in Keys, age \in Ages :
           Count(history'[k], age) =
             IF k = Key(t) /\ pc'[t] = to THEN Count(history[k], age) + 1
                                          ELSE Count(history[k], age)
  BY ThrottleReserves DEF BudgetInv
<1>3. from \notin Reserved /\ to \in Reserved
  OBVIOUS
<1>4. ASSUME NEW k \in Keys, NEW age \in Ages
      PROVE  Count(fired'[k], age) + Cardinality(Pending(k)')
               <= Count(history'[k], age) + Cardinality(Sharing(k))
  <2>1. fired[k] \in Seq(0..Window) /\ history[k] \in Seq(0..Window)
    BY DEF TypeOK
  <2>2. /\ Count(fired[k], age) \in Nat /\ Count(history[k], age) \in Nat
        /\ Cardinality(Pending(k)) \in Nat
    BY <2>1, CountType, WindowAge, SharingFinite
  <2>3. Count(fired'[k], age) = Count(fired[k], age) + 0
    BY <1>1, <2>2
  <2>4. CASE Key(t) = k /\ pc'[t] = to
    <3>1. Count(history'[k], age) = Count(history[k], age) + 1
      BY <1>2, <2>4
    <3>2. Cardinality(Pending(k)') = Cardinality(Pending(k)) + 1
      BY <1>1, <1>3, <2>4, PendingMoves
    <3>3. 0 \in Int /\ 1 \in Int /\ 0 + 1 <= 1
      OBVIOUS
    <3> QED BY <2>3, <3>1, <3>2, <3>3, MovedBudget
  <2>5. CASE ~(Key(t) = k /\ pc'[t] = to)
    <3>1. Count(history'[k], age) = Count(history[k], age) + 0
      BY <1>2, <2>2, <2>5
    <3>2. Cardinality(Pending(k)') = Cardinality(Pending(k))
      BY <1>1, <1>3, <2>5, PendingMoves
    <3>3. Cardinality(Pending(k)') = Cardinality(Pending(k)) + 0
      BY <2>2, <3>2
    <3>4. 0 \in Int /\ 0 + 0 <= 0
      OBVIOUS
    <3> QED BY <2>3, <3>1, <3>3, <3>4, MovedBudget
  <2> QED BY <2>4, <2>5
<1>5. \A k \in Keys : Sharing(k)' = Sharing(k)
  BY DEF Sharing
<1> QED BY <1>1, <1>2, <1>4, <1>5 DEF BudgetInv, SentReserved

\* session.get and requests.get: what is sent was pending, however long.
LEMMA SendBudget ==
  ASSUME TypeOK, BudgetInv, NEW t \in Threads, RecordFired(t), UNCHANGED history,
         pc[t] \in Reserved, pc'[t] \notin Reserved,
         \A u \in Threads \ {t} : pc'[u] = pc[u]
  PROVE  BudgetInv'
<1>1. UNCHANGED history /\ pc[t] \in Reserved /\ pc'[t] \notin Reserved
      /\ \A u \in Threads \ {t} : pc'[u] = pc[u]
  OBVIOUS
<1>2. /\ \A k \in Keys : Queue(fired'[k])
      /\ \A k \in Keys, age \in Ages :
           Count(fired'[k], age) =
             IF k = Key(t) THEN Count(fired[k], age) + 1 ELSE Count(fired[k], age)
  BY RecordCounts DEF BudgetInv
<1>3. ASSUME NEW k \in Keys, NEW age \in Ages
      PROVE  Count(fired'[k], age) + Cardinality(Pending(k)')
               <= Count(history'[k], age) + Cardinality(Sharing(k))
  <2>1. fired[k] \in Seq(0..Window) /\ history[k] \in Seq(0..Window)
    BY DEF TypeOK
  <2>2. /\ Count(fired[k], age) \in Nat /\ Count(history[k], age) \in Nat
        /\ Cardinality(Pending(k)) \in Nat
    BY <2>1, CountType, WindowAge, SharingFinite
  <2>3. Count(history'[k], age) = Count(history[k], age) + 0
    BY <1>1, <2>2
  <2>4. CASE Key(t) = k
    <3>1. Count(fired'[k], age) = Count(fired[k], age) + 1
      BY <1>2, <2>4
    <3>2. Cardinality(Pending(k)') = Cardinality(Pending(k)) - 1
      BY <1>1, <2>4, PendingMoves
    <3>3. Cardinality(Pending(k)') = Cardinality(Pending(k)) + (-1)
      BY <2>2, <3>2
    <3>4. 1 \in Int /\ -1 \in Int /\ 0 \in Int /\ 1 + (-1) <= 0
      OBVIOUS
    <3> QED BY <2>3, <3>1, <3>3, <3>4, MovedBudget
  <2>5. CASE Key(t) # k
    <3>1. Count(fired'[k], age) = Count(fired[k], age) + 0
      BY <1>2, <2>2, <2>5
    <3>2. Cardinality(Pending(k)') = Cardinality(Pending(k))
      BY <1>1, <2>5, PendingMoves
    <3>3. Cardinality(Pending(k)') = Cardinality(Pending(k)) + 0
      BY <2>2, <3>2
    <3>4. 0 \in Int /\ 0 + 0 <= 0
      OBVIOUS
    <3> QED BY <2>3, <3>1, <3>3, <3>4, MovedBudget
  <2> QED BY <2>4, <2>5
<1>4. ReservedBound'
  BY DEF BudgetInv, ReservedBound
<1>5. \A k \in Keys : Sharing(k)' = Sharing(k)
  BY DEF Sharing
<1> QED BY <1>2, <1>3, <1>4, <1>5 DEF BudgetInv, SentReserved

\* The steps that reserve or send, and the others.
LEMMA StepBudget ==
  ASSUME TypeOK, BudgetInv, NEW t \in Threads, Begin(t) \/ SearchStep(t) \/ FetchStep(t)
  PROVE  BudgetInv'
<1> USE DEF At, Goto, Reserved
<1>1. pc \in [Threads -> Control]
  BY DEF TypeOK
<1>2. CASE Begin(t) \/ PassGate(t)
  BY <1>1, <1>2, QuietBudget DEF Begin, PassGate, shared
<1>3. CASE AcquireSlot(t)
  BY <1>1, <1>3, QuietBudget DEF AcquireSlot
<1>4. CASE Respond(t) \/ MarkBlocked(t)
  BY <1>1, <1>4, QuietBudget DEF Respond, MarkBlocked, SearchReturns
<1>5. CASE FetchResponds(t) \/ DownloadResponds(t)
  BY <1>1, <1>5, QuietBudget DEF FetchResponds, DownloadResponds, Retry, NextResult, shared
<1>6. CASE ThrottleSearch(t)
  BY <1>6, ReserveBudget DEF ThrottleSearch, Control, PastGate
<1>7. CASE ReserveFetch(t)
  BY <1>7, ReserveBudget DEF ReserveFetch, Control, PastGate
<1>8. CASE ReserveDownload(t)
  BY <1>8, ReserveBudget DEF ReserveDownload, Control, PastGate
<1>9. CASE Fire(t)
  BY <1>1, <1>9, SendBudget DEF Fire
<1>10. CASE FetchObject(t) \/ Download(t)
  BY <1>1, <1>10, SendBudget DEF FetchObject, Download, Send, shared
<1> QED BY <1>2, <1>3, <1>4, <1>5, <1>6, <1>7, <1>8, <1>9, <1>10 DEF SearchStep, FetchStep

\* At the start nothing is reserved, sent or pending.
LEMMA InitBudget == Init => BudgetInv
<1> SUFFICES ASSUME Init PROVE BudgetInv
  OBVIOUS
<1>1. \A k \in Keys : fired[k] = <<>> /\ history[k] = <<>>
  BY DEF Init
<1>2. \A age : Count(<<>>, age) = 0
  BY FS_EmptySet DEF Count, Young
<1>3. \A k \in Keys : Pending(k) = {}
  BY DEF Pending, Sharing, Init, Reserved
<1>4. ASSUME NEW k \in Keys, NEW age \in Ages
      PROVE  Count(fired[k], age) + Cardinality(Pending(k))
               <= Count(history[k], age) + Cardinality(Sharing(k))
  <2>1. Count(fired[k], age) = 0 /\ Count(history[k], age) = 0 /\ Cardinality(Pending(k)) = 0
    BY <1>1, <1>2, <1>3, FS_EmptySet
  <2> QED BY <2>1, SharingFinite
<1>5. Queue(<<>>)
  BY DEF Queue
<1> QED BY <1>1, <1>2, <1>4, <1>5, TimesAssumption DEF BudgetInv, SentReserved, ReservedBound

\* The counting invariant of the budget: what was really sent in any window, and what
\* may still leave, was reserved in it, but for one request per sharing thread.
THEOREM BudgetInductive == Spec => []BudgetInv
<1>1. TypeOK /\ BudgetInv /\ [Next]_vars => BudgetInv'
  <2>1. TypeOK /\ BudgetInv /\ UNCHANGED vars => BudgetInv'
    BY DEF vars, BudgetInv, SentReserved, ReservedBound, Pending, Sharing
  <2> QED BY <2>1, TickBudget, StepBudget DEF Next
<1> QED BY InitBudget, <1>1, TypeCorrect, PTL DEF Spec

\* _throttle_token_requests counts a request when it is reserved, the search sends it
\* after it has waited for the slot: still no window sees more than the limit and one
\* request of each thread of the token, for any number of threads.
THEOREM BudgetHolds == Spec => []BudgetBound
BY BudgetFollows, BudgetInductive, TypeCorrect, PTL
=============================================================================
