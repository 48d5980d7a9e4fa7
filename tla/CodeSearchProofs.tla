-------------------------- MODULE CodeSearchProofs --------------------------
(***************************************************************************)
(* Proofs about CodeSearchClient, for any number of servers and clients,   *)
(* any modes and any number of crashes: what the files in /tmp still say   *)
(* about the processes that created them.                                  *)
(***************************************************************************)
EXTENDS CodeSearchClient, SequenceTheorems, TLAPS

(***************************************************************************)
(* The inductive invariant.  A server's name may stand in a shared file    *)
(* only while the step of stop() that removes it is still to come.         *)
(***************************************************************************)

ControlTyped ==
  /\ spc \in [Servers -> Gone \cup Starting \cup Serving \cup Stopping]
  /\ lockFiles \subseteq Servers

SocketRemovedLater ==
  \A s \in Servers : socketPath = s => spc[s] \notin {"stopState", "stopLock", "exited"}

StateRemovedLater ==
  \A s \in Servers : statePath = s => spc[s] \notin {"stopLock", "exited"}

LockRemovedLater ==
  \A s \in Servers : s \in lockFiles => spc[s] # "exited"

FilesInv ==
  /\ ControlTyped
  /\ SocketRemovedLater
  /\ StateRemovedLater
  /\ LockRemovedLater
  /\ OwnsLockFile

LockInv ==
  /\ cpc \in [Clients -> ClientStates]
  /\ StartupExclusive

LEMMA InitFiles == Init => FilesInv /\ LockInv
  BY NamesAssumption
  DEF Init, ServerInit, FilesInv, LockInv, ControlTyped, SocketRemovedLater,
      StateRemovedLater, LockRemovedLater, OwnsLockFile, StartupExclusive,
      HoldsStartupLock, Gone, Serving, ClientStates

\* Each step of a server keeps its own files in order, and touches no other
\* live server's lock.
LEMMA ServerFiles ==
  ASSUME FilesInv, NEW s \in Servers, ServerStep(s)
  PROVE  FilesInv'
<1> USE NamesAssumption
    DEF FilesInv, ControlTyped, SocketRemovedLater, StateRemovedLater,
        LockRemovedLater, OwnsLockFile, Goto, Gone, Starting, Serving, Stopping, files
<1>1. CASE CleanLocks(s)
  BY <1>1 DEF CleanLocks, Alive
<1>2. CASE ProbeSocket(s) \/ UnlinkStale(s)
  BY <1>2 DEF ProbeSocket, UnlinkStale, Unlink
<1>3. CASE ClaimLock(s) \/ Bind(s)
  BY <1>3 DEF ClaimLock, Bind
<1>4. CASE Listen(s) \/ InitializeTokens(s) \/ WriteState(s)
  BY <1>4 DEF Listen, InitializeTokens, WriteState
<1>5. CASE Close(s, "abortClose", "abortUnlink") \/ Close(s, "stopClose", "stopUnlink")
  BY <1>5 DEF Close
<1>6. CASE Unlink(s, "abortUnlink", "abortLock") \/ Unlink(s, "stopUnlink", "stopState")
  BY <1>6 DEF Unlink
<1>7. CASE ReleaseLock(s, "abortLock", "stopClose") \/ ReleaseLock(s, "stopLock", "exited")
  BY <1>7 DEF ReleaseLock
<1>8. CASE RemoveState(s)
  BY <1>8 DEF RemoveState
<1>9. CASE Accept(s) \/ ReceiveRequest(s) \/ ReceiveEof(s) \/ HandleRequest(s)
             \/ LeaveServeLoop(s)
  BY <1>9 DEF Accept, ReceiveRequest, ReceiveEof, HandleRequest, LeaveServeLoop
<1> QED
  BY <1>1, <1>2, <1>3, <1>4, <1>5, <1>6, <1>7, <1>8, <1>9
  DEF ServerStep, AbortStart, Stop

\* A new process of an old pid, a signal and a crash keep the files in order.
LEMMA LaunchFiles ==
  ASSUME FilesInv, NEW s \in Servers, Launch(s) \/ Signal(s) \/ Crash(s)
  PROVE  FilesInv'
  BY DEF Launch, Signal, Crash, FilesInv, ControlTyped, SocketRemovedLater,
         StateRemovedLater, LockRemovedLater, OwnsLockFile, Goto, Gone, Starting,
         Serving, Stopping, files

\* Of the files of a server, a client touches none.
LEMMA ClientFiles ==
  ASSUME NEW c \in Clients, Ask(c) \/ QueryStep(c) \/ ClientCrash(c), ~SpawnServer(c)
  PROVE  UNCHANGED <<files, spc>>
<1> USE DEF processes, serverVars, files
<1>1. CASE Ask(c)
  BY <1>1 DEF Ask
<1>2. CASE CheckServer(c) \/ InitServer(c) \/ Recheck(c)
  BY <1>2 DEF CheckServer, InitServer, Recheck, ServerIsReady
<1>3. CASE AcquireStartupLock(c) \/ SpawnFails(c) \/ RemoveStartupLock(c)
  BY <1>3 DEF AcquireStartupLock, SpawnFails, RemoveStartupLock
<1>4. CASE WaitSucceeds(c) \/ WaitTimesOut(c)
  BY <1>4 DEF WaitSucceeds, WaitTimesOut
<1>5. CASE Connect(c) \/ Send(c) \/ ReceiveAnswer(c) \/ DirectQueryEnds(c)
  BY <1>5 DEF Connect, Send, ReceiveAnswer, DirectQueryEnds
<1>6. CASE ClientCrash(c)
  BY <1>6 DEF ClientCrash
<1> QED BY <1>1, <1>2, <1>3, <1>4, <1>5, <1>6 DEF QueryStep

LEMMA UnchangedFiles ==
  ASSUME FilesInv, UNCHANGED <<files, spc>>
  PROVE  FilesInv'
  BY DEF FilesInv, ControlTyped, SocketRemovedLater, StateRemovedLater,
         LockRemovedLater, OwnsLockFile, files

LEMMA StepFiles == FilesInv /\ [Next]_vars => FilesInv'
<1> SUFFICES ASSUME FilesInv, [Next]_vars PROVE FilesInv'
  OBVIOUS
<1>1. ASSUME NEW s \in Servers, ServerProgram(s) PROVE FilesInv'
  BY <1>1, ServerFiles DEF ServerProgram
<1>2. ASSUME NEW s \in Servers, StartServer(s) \/ ServerFault(s) PROVE FilesInv'
  BY <1>2, LaunchFiles DEF StartServer, ServerFault
<1>3. ASSUME NEW c \in Clients, Ask(c) \/ QueryStep(c) \/ ClientCrash(c)
      PROVE  FilesInv'
  <2>1. CASE SpawnServer(c)
    BY <2>1, LaunchFiles DEF SpawnServer
  <2> QED BY <1>3, <2>1, ClientFiles, UnchangedFiles
<1>4. CASE UNCHANGED vars
  BY <1>4, UnchangedFiles DEF vars, serverVars, files
<1> QED BY <1>1, <1>2, <1>3, <1>4 DEF Next

\* The invariant of the shared files: a server's name stands in one only while the step
\* of stop() that removes it is still to come, or it was killed.
THEOREM FilesInductive == Spec => []FilesInv
  BY InitFiles, StepFiles, PTL DEF Spec

\* A live server past its claim owns its lock file: no clean-up of another
\* server, and no crash, takes it away.
THEOREM LockFileKept == Spec => []OwnsLockFile
<1>1. FilesInv => OwnsLockFile
  BY DEF FilesInv
<1> QED BY <1>1, FilesInductive, PTL

\* A server that ends by itself leaves none of the shared files behind.
THEOREM NothingLeft == Spec => []ExitedLeavesNothing
<1>1. FilesInv => ExitedLeavesNothing
  BY DEF FilesInv, SocketRemovedLater, StateRemovedLater, LockRemovedLater,
         ExitedLeavesNothing
<1> QED BY <1>1, FilesInductive, PTL

(***************************************************************************)
(* The startup lock.                                                       *)
(***************************************************************************)

\* Only the client that created the file has control states that remove it.
LEMMA StepLock == LockInv /\ [Next]_vars => LockInv'
<1> SUFFICES ASSUME LockInv, [Next]_vars PROVE LockInv'
  OBVIOUS
<1> USE DEF LockInv, StartupExclusive, HoldsStartupLock, ClientStates, Probing
<1>1. CASE UNCHANGED <<cpc, startupLock>>
  BY <1>1
<1>2. ASSUME NEW c \in Clients, Ask(c) \/ QueryStep(c) \/ ClientCrash(c)
      PROVE  LockInv'
  <2> USE DEF Step
  <2>1. CASE Ask(c)
    BY <2>1 DEF Ask
  <2>2. CASE CheckServer(c)
    BY <2>2 DEF CheckServer, ServerIsReady
  <2>3. CASE InitServer(c) \/ Recheck(c)
    BY <2>3 DEF InitServer, Recheck, ServerIsReady
  <2>4. CASE AcquireStartupLock(c)
    BY <2>4 DEF AcquireStartupLock
  <2>5. CASE SpawnServer(c) \/ SpawnFails(c)
    BY <2>5 DEF SpawnServer, SpawnFails
  <2>6. CASE RemoveStartupLock(c)
    BY <2>6 DEF RemoveStartupLock
  <2>7. CASE WaitSucceeds(c) \/ WaitTimesOut(c)
    BY <2>7 DEF WaitSucceeds, WaitTimesOut
  <2>8. CASE Connect(c) \/ Send(c) \/ ReceiveAnswer(c) \/ DirectQueryEnds(c)
    BY <2>8 DEF Connect, Send, ReceiveAnswer, DirectQueryEnds
  <2>9. CASE ClientCrash(c)
    BY <2>9 DEF ClientCrash
  <2> QED
    BY <1>2, <2>1, <2>2, <2>3, <2>4, <2>5, <2>6, <2>7, <2>8, <2>9 DEF QueryStep
<1> QED
  BY <1>1, <1>2
  DEF Next, vars, clientVars, ServerProgram, StartServer, ServerFault

\* At most one client is between creating the startup lock file and removing
\* it, and the file exists meanwhile: O_CREAT | O_EXCL, and nobody else's
\* os.remove.
THEOREM StartupLockExcludes == Spec => []StartupExclusive
<1>1. LockInv => StartupExclusive
  BY DEF LockInv
<1> QED BY InitFiles, StepLock, <1>1, PTL DEF Spec

(***************************************************************************)
(* Connections.  What waits at a server is a sequence; of it matters what  *)
(* it holds and that it holds no client twice.                             *)
(***************************************************************************)

In(q) == {q[i] : i \in DOMAIN q}
NoClientTwice(q) == \A i, j \in DOMAIN q : q[i] = q[j] /\ q[i] \in Clients => i = j
Queues == Seq(Clients \cup {Eof})

\* A connection is queued.
LEMMA QueueAppend ==
  ASSUME NEW q \in Queues, NoClientTwice(q), NEW x \in Clients \cup {Eof}, x = Eof \/ x \notin In(q)
  PROVE  /\ Append(q, x) \in Queues /\ In(Append(q, x)) = In(q) \cup {x}
         /\ NoClientTwice(Append(q, x))
<1>1. PICK n \in Nat : n = Len(q) /\ DOMAIN q = 1..n
  BY LenProperties DEF Queues
<1>2. /\ Append(q, x) \in Queues /\ DOMAIN Append(q, x) = 1..(n + 1)
      /\ (\A i \in 1..n : Append(q, x)[i] = q[i]) /\ Append(q, x)[n + 1] = x
  BY <1>1, AppendProperties, LenProperties DEF Queues
<1>3. 1..(n + 1) = 1..n \cup {n + 1} /\ n + 1 \notin 1..n
  OBVIOUS
<1>4. In(Append(q, x)) = In(q) \cup {x}
  BY <1>1, <1>2, <1>3 DEF In
<1>5. Eof \notin Clients
  BY NamesAssumption
<1>6. NoClientTwice(Append(q, x))
  BY <1>1, <1>2, <1>3, <1>5 DEF In, NoClientTwice
<1> QED BY <1>2, <1>4, <1>6

\* The oldest one is accepted.
LEMMA QueueAccept ==
  ASSUME NEW q \in Queues, NoClientTwice(q), q # <<>>
  PROVE  /\ Tail(q) \in Queues /\ NoClientTwice(Tail(q)) /\ In(q) = In(Tail(q)) \cup {Head(q)}
         /\ Head(q) \in Clients \cup {Eof} /\ (Head(q) \in Clients => Head(q) \notin In(Tail(q)))
<1>1. PICK n \in Nat : n = Len(q) /\ DOMAIN q = 1..n
  BY LenProperties DEF Queues
<1>2. n # 0
  BY <1>1, EmptySeq DEF Queues
<1>3. /\ Tail(q) \in Queues /\ DOMAIN Tail(q) = 1..(n - 1)
      /\ (\A i \in 1..(n - 1) : Tail(q)[i] = q[i + 1]) /\ Head(q) = q[1]
  <2>1. /\ Tail(q) \in Queues /\ Len(Tail(q)) = n - 1
        /\ \A i \in 1..Len(Tail(q)) : Tail(q)[i] = q[i + 1]
    BY <1>1, HeadTailProperties DEF Queues
  <2> QED BY <2>1, LenProperties DEF Queues
<1>4. /\ 1 \in 1..n
      /\ \A i \in 1..(n - 1) : i + 1 \in 1..n /\ i + 1 # 1
      /\ \A j \in 1..n : j = 1 \/ (j - 1 \in 1..(n - 1) /\ (j - 1) + 1 = j)
  BY <1>2
<1>5. In(q) = In(Tail(q)) \cup {Head(q)}
  <2>1. \A x : x \in In(q) => x \in In(Tail(q)) \cup {Head(q)}
    <3> SUFFICES ASSUME NEW j \in 1..n, q[j] # Head(q) PROVE q[j] \in In(Tail(q))
      BY <1>1 DEF In
    <3>1. j - 1 \in 1..(n - 1) /\ (j - 1) + 1 = j
      BY <1>3, <1>4
    <3>2. Tail(q)[j - 1] = q[j]
      BY <1>3, <3>1
    <3> QED BY <1>3, <3>1, <3>2 DEF In
  <2>2. \A x : x \in In(Tail(q)) \cup {Head(q)} => x \in In(q)
    BY <1>1, <1>3, <1>4 DEF In
  <2> QED BY <2>1, <2>2
<1>6. NoClientTwice(Tail(q)) /\ (Head(q) \in Clients => Head(q) \notin In(Tail(q)))
  BY <1>1, <1>3, <1>4 DEF In, NoClientTwice
<1>7. Head(q) \in Clients \cup {Eof}
  BY HeadTailProperties DEF Queues
<1> QED BY <1>3, <1>5, <1>6, <1>7

\* A client dies before it has sent its request.
LEMMA QueueEof ==
  ASSUME NEW q \in Queues, NoClientTwice(q), NEW c \in Clients, NEW r,
         r = [i \in DOMAIN q |-> IF q[i] = c THEN Eof ELSE q[i]]
  PROVE  /\ r \in Queues /\ NoClientTwice(r)
         /\ \A d \in Clients : d \in In(r) <=> d # c /\ d \in In(q)
         /\ (In(q) = {} => In(r) = {})
<1>1. PICK n \in Nat : n = Len(q) /\ DOMAIN q = 1..n
  BY LenProperties DEF Queues
<1>2. \A i \in 1..n : q[i] \in Clients \cup {Eof}
  BY <1>1, ElementOfSeq DEF Queues
<1>3. r \in Queues
  BY <1>1, <1>2 DEF Queues
<1>4. Eof \notin Clients
  BY NamesAssumption
<1>5. NoClientTwice(r)
  BY <1>4 DEF NoClientTwice
<1> QED BY <1>3, <1>4, <1>5 DEF In

(***************************************************************************)
(* The invariant: a server holds connections only while its socket is open *)
(* or it serves one; a client's connection is held by the one server that  *)
(* has not answered it, and only while the client waits or is dead.        *)
(***************************************************************************)

Open == {"tokens", "abortClose", "writeState", "stopClose"} \cup Serving
Waiting(s) == In(backlog[s])
Holds(s, c) == current[s] = c \/ c \in Waiting(s)

ServerConnections(s) ==
  /\ current[s] = NoOne <=> spc[s] \notin {"recv", "github"}
  /\ spc[s] = "github" => current[s] \in Clients /\ conn[current[s]] = "sent"
  /\ listening[s] => spc[s] \in Open
  /\ Waiting(s) # {} => listening[s]
  /\ NoClientTwice(backlog[s])
  /\ current[s] \in Clients => current[s] \notin Waiting(s)

ClientConnection(c) ==
  /\ conn[c] \in {"open", "sent"} <=> \E s \in Servers : Holds(s, c)
  /\ \A s, t \in Servers : Holds(s, c) /\ Holds(t, c) => s = t
  /\ cpc[c] \notin {"connected", "sent", "crashed"} => conn[c] = "none"
  /\ cpc[c] = "connected" => conn[c] \in {"open", "eof"}
  /\ cpc[c] = "sent" => conn[c] \in {"sent", "ok", "error", "eof"}
  /\ cpc[c] = "crashed" => conn[c] # "open"

Typed == ServerTypeOK /\ ClientTypeOK

ConnectionsInv ==
  /\ Typed
  /\ \A s \in Servers : ServerConnections(s)
  /\ \A c \in Clients : ClientConnection(c)

LEMMA InitConnections == Init => ConnectionsInv
<1> SUFFICES ASSUME Init PROVE ConnectionsInv
  OBVIOUS
<1> USE DEF Init, ServerInit
<1>1. <<>> \in Queues /\ In(<<>>) = {} /\ NoClientTwice(<<>>)
  BY EmptySeq DEF Queues, In, NoClientTwice
<1>2. Typed
  <2>1. ServerTypeOK
    BY <1>1 DEF ServerTypeOK, Gone, ConnStates, Queues
  <2>2. faults \in 0..MaxFaults /\ spawns \in 0..MaxSpawns
    BY BoundsAssumption
  <2>3. cpc \in [Clients -> ClientStates]
    BY DEF ClientStates
  <2>4. startupLock \in BOOLEAN /\ failedProbe \in [Clients -> BOOLEAN]
    OBVIOUS
  <2> QED BY <2>1, <2>2, <2>3, <2>4 DEF Typed, ClientTypeOK
<1>3. \A s \in Servers : ServerConnections(s)
  BY <1>1, NamesAssumption DEF ServerConnections, Waiting
<1>4. \A c \in Clients : ClientConnection(c)
  BY <1>1, NamesAssumption DEF ClientConnection, Holds, Waiting
<1> QED BY <1>2, <1>3, <1>4 DEF ConnectionsInv

LEMMA HeldIs == \A s \in Servers, c \in Clients : c \in Held(s) <=> Holds(s, c)
  BY DEF Held, Holds, Waiting, In

LEMMA ConnectionsGiveProperties ==
  ConnectionsInv => NoDoubleExecution /\ ConnectionAtOnePlace
<1> SUFFICES ASSUME ConnectionsInv PROVE NoDoubleExecution /\ ConnectionAtOnePlace
  OBVIOUS
<1>1. NoDoubleExecution
  BY DEF ConnectionsInv, NoDoubleExecution, ServerConnections, ClientConnection
<1>2. ConnectionAtOnePlace
  BY HeldIs DEF ConnectionsInv, ConnectionAtOnePlace, ClientConnection
<1> QED BY <1>1, <1>2

(***************************************************************************)
(* Types.                                                                  *)
(***************************************************************************)

LEMMA ProbeTyped ==
  ASSUME Typed, socketPath \in Servers, LeaveProbe
  PROVE  backlog' \in [Servers -> Queues]
<1>1. backlog \in [Servers -> Queues] /\ backlog[socketPath] \in Queues
  BY DEF Typed, ClientTypeOK, ServerTypeOK, Queues
<1>2. Append(backlog[socketPath], Eof) \in Queues
  BY <1>1, AppendProperties DEF Queues
<1> QED BY <1>1, <1>2 DEF LeaveProbe

LEMMA GotoTyped ==
  ASSUME Typed, NEW s \in Servers, NEW to \in Gone \cup Starting \cup Serving \cup Stopping, Goto(s, to)
  PROVE  spc' \in [Servers -> Gone \cup Starting \cup Serving \cup Stopping]
  BY DEF Typed, ClientTypeOK, ServerTypeOK, Goto

LEMMA DropTyped ==
  ASSUME Typed, NEW s, NEW D, DropConnections(s, D)
  PROVE  conn' \in [Clients -> ConnStates]
  BY DEF Typed, ClientTypeOK, ServerTypeOK, DropConnections, ConnStates

LEMMA ServerTyped ==
  ASSUME Typed, NEW s \in Servers, ServerStep(s) \/ Launch(s) \/ Signal(s) \/ Crash(s)
  PROVE  ServerTypeOK'
<1> USE DEF Typed, ClientTypeOK, ServerTypeOK, files, sockets, Gone, Starting, Serving, Stopping
<1>1. CASE CleanLocks(s) \/ ClaimLock(s) \/ Bind(s) \/ InitializeTokens(s)
  BY <1>1 DEF CleanLocks, ClaimLock, Bind, InitializeTokens, Goto
<1>2. CASE ProbeSocket(s)
  <2>1. UNCHANGED backlog \/ (socketPath \in Servers /\ LeaveProbe)
    BY <1>2 DEF ProbeSocket, Reachable
  <2>2. backlog' \in [Servers -> Seq(Clients \cup {Eof})]
    BY <2>1, ProbeTyped DEF Queues
  <2>3. spc' \in [Servers -> Gone \cup Starting \cup Serving \cup Stopping]
    BY <1>2, GotoTyped DEF ProbeSocket
  <2> QED BY <1>2, <2>2, <2>3 DEF ProbeSocket
<1>3. CASE UnlinkStale(s) \/ Unlink(s, "abortUnlink", "abortLock") \/ Unlink(s, "stopUnlink", "stopState")
  BY <1>3 DEF UnlinkStale, Unlink, Goto
<1>4. CASE Listen(s) \/ WriteState(s) \/ RemoveState(s) \/ ReceiveRequest(s) \/ LeaveServeLoop(s)
  BY <1>4 DEF Listen, WriteState, RemoveState, ReceiveRequest, LeaveServeLoop, Goto
<1>5. CASE Close(s, "abortClose", "abortUnlink") \/ Close(s, "stopClose", "stopUnlink") \/ Crash(s)
  <2>1. conn' \in [Clients -> ConnStates]
    BY <1>5, DropTyped DEF Close, Crash
  <2>2. backlog' \in [Servers -> Seq(Clients \cup {Eof})]
    <3>1. <<>> \in Seq(Clients \cup {Eof})
      BY EmptySeq
    <3> QED BY <1>5, <3>1 DEF Close, Crash
  <2> QED BY <1>5, <2>1, <2>2 DEF Close, Crash, Goto, ForgetFlags
<1>6. CASE ReleaseLock(s, "abortLock", "stopClose") \/ ReleaseLock(s, "stopLock", "exited")
  BY <1>6 DEF ReleaseLock, ForgetFlags, Goto
<1>7. CASE Accept(s)
  <2>1. Tail(backlog[s]) \in Seq(Clients \cup {Eof}) /\ Head(backlog[s]) \in Clients \cup {Eof}
    BY <1>7, HeadTailProperties DEF Accept
  <2> QED BY <1>7, <2>1 DEF Accept, Goto
<1>8. CASE ReceiveEof(s)
  BY <1>8 DEF ReceiveEof, Goto
<1>9. CASE HandleRequest(s)
  <2>1. conn' \in [Clients -> ConnStates]
    BY <1>9 DEF HandleRequest, ConnStates
  <2> QED BY <1>9, <2>1 DEF HandleRequest, Goto
<1>10. CASE Launch(s) \/ Signal(s)
  BY <1>10 DEF Launch, Signal, Goto
<1> QED BY <1>1, <1>2, <1>3, <1>4, <1>5, <1>6, <1>7, <1>8, <1>9, <1>10
        DEF ServerStep, AbortStart, Stop

LEMMA ClientTyped ==
  ASSUME Typed, NEW c \in Clients, Ask(c) \/ QueryStep(c) \/ ClientCrash(c), ~SpawnServer(c)
  PROVE  ServerTypeOK'
<1>0. ASSUME UNCHANGED <<files, processes, listening, current>>,
             backlog' \in [Servers -> Queues], conn' \in [Clients -> ConnStates]
      PROVE  ServerTypeOK'
  BY <1>0 DEF Typed, ClientTypeOK, ServerTypeOK, files, processes, Queues
<1>1. backlog \in [Servers -> Queues] /\ conn \in [Clients -> ConnStates]
  BY DEF Typed, ClientTypeOK, ServerTypeOK, Queues
<1>2. ASSUME UNCHANGED serverVars PROVE ServerTypeOK'
  BY <1>0, <1>1, <1>2 DEF serverVars, files, processes
<1>3. CASE Ask(c) \/ AcquireStartupLock(c) \/ SpawnFails(c) \/ RemoveStartupLock(c)
            \/ WaitTimesOut(c) \/ DirectQueryEnds(c)
  BY <1>2, <1>3 DEF Ask, AcquireStartupLock, SpawnFails, RemoveStartupLock, WaitTimesOut, DirectQueryEnds
<1>4. CASE CheckServer(c) \/ InitServer(c) \/ Recheck(c) \/ WaitSucceeds(c)
  <2>1. UNCHANGED <<files, processes, listening, current, conn>>
        /\ (UNCHANGED backlog \/ (Reachable /\ LeaveProbe))
    BY <1>4 DEF CheckServer, InitServer, Recheck, WaitSucceeds, ServerIsReady
  <2>2. Reachable => socketPath \in Servers
    BY DEF Reachable, Typed, ClientTypeOK, ServerTypeOK
  <2> QED BY <1>0, <1>1, <2>1, <2>2, ProbeTyped
<1>5. CASE Connect(c)
  <2>1. backlog' \in [Servers -> Queues]
    <3>1. CASE socketPath # NoOne /\ listening[socketPath]
      <4>1. socketPath \in Servers /\ Append(backlog[socketPath], c) \in Queues
        BY <1>1, <3>1, AppendProperties DEF Typed, ClientTypeOK, ServerTypeOK, Queues
      <4> QED BY <1>1, <1>5, <3>1, <4>1 DEF Connect
    <3>2. CASE ~(socketPath # NoOne /\ listening[socketPath])
      BY <1>1, <1>5, <3>2 DEF Connect
    <3> QED BY <3>1, <3>2
  <2>2. conn' \in [Clients -> ConnStates]
    BY <1>1, <1>5 DEF Connect, ConnStates
  <2> QED BY <1>0, <1>5, <2>1, <2>2 DEF Connect
<1>6. CASE Send(c) \/ ReceiveAnswer(c)
  <2>1. conn' \in [Clients -> ConnStates]
    BY <1>1, <1>6 DEF Send, ReceiveAnswer, ConnStates
  <2> QED BY <1>0, <1>1, <1>6, <2>1 DEF Send, ReceiveAnswer
<1>7. CASE ClientCrash(c)
  <2>1. CASE conn[c] = "open"
    <3>1. conn' \in [Clients -> ConnStates]
      BY <1>1, <1>7, <2>1 DEF ClientCrash, ConnStates
    <3>2. current' \in [Servers -> Clients \cup {Eof, NoOne}]
      BY <1>7, <2>1 DEF ClientCrash, Typed, ClientTypeOK, ServerTypeOK
    <3>3. backlog' \in [Servers -> Queues]
      <4>1. \A q \in Queues : [i \in DOMAIN q |-> IF q[i] = c THEN Eof ELSE q[i]] \in Queues
        <5> SUFFICES ASSUME NEW q \in Queues PROVE [i \in DOMAIN q |-> IF q[i] = c THEN Eof ELSE q[i]] \in Queues
          OBVIOUS
        <5>1. PICK n \in Nat : DOMAIN q = 1..n
          BY LenProperties DEF Queues
        <5>2. \A i \in 1..n : q[i] \in Clients \cup {Eof}
          BY <5>1, LenProperties, ElementOfSeq DEF Queues
        <5> QED BY <5>1, <5>2 DEF Queues
      <4> QED BY <1>1, <1>7, <2>1, <4>1 DEF ClientCrash
    <3> QED BY <1>7, <3>1, <3>2, <3>3 DEF Typed, ClientTypeOK, ServerTypeOK, ClientCrash, files, processes, Queues
  <2>2. CASE conn[c] # "open"
    BY <1>0, <1>1, <1>7, <2>2 DEF ClientCrash
  <2> QED BY <2>1, <2>2
<1> QED BY <1>3, <1>4, <1>5, <1>6, <1>7 DEF QueryStep

\* The client's own variables and the counters.
LEMMA ClientPartTyped == Typed /\ [Next]_vars =>
  /\ startupLock' \in BOOLEAN /\ cpc' \in [Clients -> ClientStates]
  /\ failedProbe' \in [Clients -> BOOLEAN]
  /\ faults' \in 0..MaxFaults /\ spawns' \in 0..MaxSpawns
<1> SUFFICES ASSUME Typed, [Next]_vars
             PROVE  /\ startupLock' \in BOOLEAN /\ cpc' \in [Clients -> ClientStates]
                    /\ failedProbe' \in [Clients -> BOOLEAN]
                    /\ faults' \in 0..MaxFaults /\ spawns' \in 0..MaxSpawns
  OBVIOUS
<1> USE DEF Typed, ClientTypeOK, clientVars, counters
<1>1. CASE UNCHANGED <<clientVars, counters>>
  BY <1>1
<1>2. ASSUME NEW s \in Servers, StartServer(s) \/ ServerFault(s)
      PROVE  /\ UNCHANGED clientVars /\ faults' \in 0..MaxFaults /\ spawns' \in 0..MaxSpawns
  BY <1>2, BoundsAssumption DEF StartServer, ServerFault, Fault
<1>3. ASSUME NEW c \in Clients, Ask(c) \/ QueryStep(c) \/ ClientCrash(c)
      PROVE  /\ startupLock' \in BOOLEAN /\ cpc' \in [Clients -> ClientStates]
             /\ failedProbe' \in [Clients -> BOOLEAN]
             /\ faults' \in 0..MaxFaults /\ spawns' \in 0..MaxSpawns
  <2>1. cpc' \in [Clients -> ClientStates]
    <3> USE DEF Step, ClientStates, Probing
    <3>1. CASE Ask(c) \/ AcquireStartupLock(c) \/ SpawnServer(c) \/ SpawnFails(c) \/ RemoveStartupLock(c)
               \/ WaitSucceeds(c) \/ WaitTimesOut(c) \/ DirectQueryEnds(c) \/ ClientCrash(c)
      BY <3>1 DEF Ask, AcquireStartupLock, SpawnServer, SpawnFails, RemoveStartupLock,
                  WaitSucceeds, WaitTimesOut, DirectQueryEnds, ClientCrash
    <3>2. CASE CheckServer(c) \/ InitServer(c) \/ Recheck(c)
      BY <3>2 DEF CheckServer, InitServer, Recheck, ServerIsReady
    <3>3. CASE Connect(c) \/ Send(c) \/ ReceiveAnswer(c)
      BY <3>3 DEF Connect, Send, ReceiveAnswer
    <3> QED BY <1>3, <3>1, <3>2, <3>3 DEF QueryStep
  <2>2. startupLock' \in BOOLEAN /\ failedProbe' \in [Clients -> BOOLEAN]
    <3>1. CASE CheckServer(c) \/ InitServer(c) \/ Recheck(c)
      BY <3>1 DEF CheckServer, InitServer, Recheck, ServerIsReady
    <3>2. CASE Ask(c) \/ AcquireStartupLock(c) \/ SpawnServer(c) \/ SpawnFails(c) \/ RemoveStartupLock(c)
               \/ WaitSucceeds(c) \/ WaitTimesOut(c) \/ DirectQueryEnds(c) \/ ClientCrash(c)
      BY <3>2 DEF Ask, AcquireStartupLock, SpawnServer, SpawnFails, RemoveStartupLock,
                  WaitSucceeds, WaitTimesOut, DirectQueryEnds, ClientCrash
    <3>3. CASE Connect(c) \/ Send(c) \/ ReceiveAnswer(c)
      BY <3>3 DEF Connect, Send, ReceiveAnswer
    <3> QED BY <1>3, <3>1, <3>2, <3>3 DEF QueryStep
  <2>3. faults' \in 0..MaxFaults /\ spawns' \in 0..MaxSpawns
    <3>1. CASE SpawnServer(c) \/ ClientCrash(c)
      BY <3>1, BoundsAssumption DEF SpawnServer, ClientCrash, Fault
    <3>2. CASE CheckServer(c) \/ InitServer(c) \/ Recheck(c)
      BY <3>2 DEF CheckServer, InitServer, Recheck, ServerIsReady
    <3>3. CASE Ask(c) \/ AcquireStartupLock(c) \/ SpawnFails(c) \/ RemoveStartupLock(c)
               \/ WaitSucceeds(c) \/ WaitTimesOut(c) \/ DirectQueryEnds(c)
      BY <3>3 DEF Ask, AcquireStartupLock, SpawnFails, RemoveStartupLock,
                  WaitSucceeds, WaitTimesOut, DirectQueryEnds
    <3>4. CASE Connect(c) \/ Send(c) \/ ReceiveAnswer(c)
      BY <3>4 DEF Connect, Send, ReceiveAnswer
    <3> QED BY <1>3, <3>1, <3>2, <3>3, <3>4 DEF QueryStep
  <2> QED BY <2>1, <2>2, <2>3
<1> QED BY <1>1, <1>2, <1>3 DEF Next, vars, ServerProgram

LEMMA StepTyped == Typed /\ [Next]_vars => Typed'
<1> SUFFICES ASSUME Typed, [Next]_vars PROVE ServerTypeOK'
  BY ClientPartTyped DEF Typed, ClientTypeOK
<1>1. ASSUME NEW s \in Servers, ServerProgram(s) \/ StartServer(s) \/ ServerFault(s) PROVE ServerTypeOK'
  BY <1>1, ServerTyped DEF ServerProgram, StartServer, ServerFault
<1>2. ASSUME NEW c \in Clients, Ask(c) \/ QueryStep(c) \/ ClientCrash(c) PROVE ServerTypeOK'
  <2>1. CASE SpawnServer(c)
    BY <2>1, ServerTyped DEF SpawnServer
  <2> QED BY <1>2, <2>1, ClientTyped
<1>3. CASE UNCHANGED vars
  BY <1>3 DEF Typed, ClientTypeOK, ServerTypeOK, vars, serverVars
<1> QED BY <1>1, <1>2, <1>3 DEF Next

(***************************************************************************)
(* Steps that open or end no connection of a client.                       *)
(***************************************************************************)

ConnectionsKept ==
  /\ \A s \in Servers : ServerConnections(s)
  /\ \A c \in Clients : ClientConnection(c)

\* What a server's step to another control state has to respect.
Fits(s) ==
  /\ current[s] = NoOne <=> spc'[s] \notin {"recv", "github"}
  /\ spc'[s] = "github" => current[s] \in Clients /\ conn[current[s]] = "sent"
  /\ listening'[s] => spc'[s] \in Open

Untied == {"connected", "sent", "crashed"}

LEMMA NoNewConnection ==
  ASSUME ConnectionsInv, UNCHANGED <<current, conn>>,
         \A s \in Servers : /\ spc'[s] = spc[s] \/ Fits(s)
                            /\ listening'[s] = listening[s] \/ (listening'[s] /\ Fits(s))
                            /\ backlog'[s] = backlog[s]
                               \/ (listening[s] /\ backlog'[s] = Append(backlog[s], Eof)),
         \A c \in Clients : cpc'[c] = cpc[c] \/ (cpc[c] \notin Untied /\ cpc'[c] \notin Untied)
  PROVE  ConnectionsKept'
<1>1. Eof \notin Clients
  BY NamesAssumption
<1>2. ASSUME NEW s \in Servers
      PROVE  /\ Waiting(s)' \cap Clients = Waiting(s) \cap Clients
             /\ NoClientTwice(backlog[s])'
             /\ Waiting(s)' # {} => listening[s]
  <2>1. backlog[s] \in Queues /\ NoClientTwice(backlog[s]) /\ (Waiting(s) # {} => listening[s])
    BY DEF ConnectionsInv, Typed, ClientTypeOK, ServerTypeOK, Queues, ServerConnections
  <2>2. CASE backlog'[s] = backlog[s]
    BY <2>1, <2>2 DEF Waiting, NoClientTwice
  <2>3. CASE listening[s] /\ backlog'[s] = Append(backlog[s], Eof)
    <3>1. In(backlog'[s]) = In(backlog[s]) \cup {Eof} /\ NoClientTwice(backlog'[s])
      BY <2>1, <2>3, QueueAppend
    <3> QED BY <3>1, <2>3, <1>1 DEF Waiting, NoClientTwice
  <2> QED BY <2>2, <2>3
<1>3. ASSUME NEW s \in Servers PROVE ServerConnections(s)'
  <2>1. ServerConnections(s)
    BY DEF ConnectionsInv
  <2>2. Waiting(s)' # {} => listening'[s]
    BY <1>2
  <2>3. listening'[s] => spc'[s] \in Open
    BY <2>1 DEF ServerConnections, Fits
  <2>4. current[s] \in Clients => current[s] \notin Waiting(s)'
    BY <1>2, <2>1 DEF ServerConnections
  <2>5. /\ current[s] = NoOne <=> spc'[s] \notin {"recv", "github"}
        /\ spc'[s] = "github" => current[s] \in Clients /\ conn[current[s]] = "sent"
    BY <2>1 DEF ServerConnections, Fits
  <2> QED BY <1>2, <2>2, <2>3, <2>4, <2>5 DEF ServerConnections
<1>4. ASSUME NEW c \in Clients PROVE ClientConnection(c)'
  <2>1. \A s \in Servers : Holds(s, c)' <=> Holds(s, c)
    BY <1>2 DEF Holds
  <2>2. ClientConnection(c)
    BY DEF ConnectionsInv
  <2>3. /\ conn'[c] \in {"open", "sent"} <=> \E s \in Servers : Holds(s, c)'
        /\ \A s, t \in Servers : Holds(s, c)' /\ Holds(t, c)' => s = t
    BY <2>1, <2>2 DEF ClientConnection
  <2>4. /\ cpc'[c] \notin {"connected", "sent", "crashed"} => conn'[c] = "none"
        /\ cpc'[c] = "connected" => conn'[c] \in {"open", "eof"}
        /\ cpc'[c] = "sent" => conn'[c] \in {"sent", "ok", "error", "eof"}
        /\ cpc'[c] = "crashed" => conn'[c] # "open"
    BY <2>2 DEF ClientConnection, Untied
  <2> QED BY <2>3, <2>4 DEF ClientConnection
<1> QED BY <1>3, <1>4 DEF ConnectionsKept

\* A step of one server that leaves its connections, but for a probe at another one.
LEMMA ServerKeeps ==
  ASSUME ConnectionsInv, NEW s \in Servers, UNCHANGED <<current, conn>>,
         \A c \in Clients : cpc'[c] = cpc[c] \/ (cpc[c] \notin Untied /\ cpc'[c] \notin Untied),
         NEW to, Goto(s, to), Fits(s),
         UNCHANGED listening \/ (listening' = [listening EXCEPT ![s] = TRUE]),
         UNCHANGED backlog \/ (Reachable /\ LeaveProbe)
  PROVE  ConnectionsKept'
<1>1. ASSUME NEW t \in Servers
      PROVE  /\ spc'[t] = spc[t] \/ Fits(t)
             /\ listening'[t] = listening[t] \/ (listening'[t] /\ Fits(t))
             /\ backlog'[t] = backlog[t]
                  \/ (listening[t] /\ backlog'[t] = Append(backlog[t], Eof))
  <2>1. spc'[t] = spc[t] \/ Fits(t)
    BY DEF Goto, ConnectionsInv, Typed, ClientTypeOK, ServerTypeOK
  <2>2. listening'[t] = listening[t] \/ (listening'[t] /\ Fits(t))
    BY DEF ConnectionsInv, Typed, ClientTypeOK, ServerTypeOK
  <2>3. backlog'[t] = backlog[t] \/ (listening[t] /\ backlog'[t] = Append(backlog[t], Eof))
    BY DEF Reachable, LeaveProbe, ConnectionsInv, Typed, ClientTypeOK, ServerTypeOK
  <2> QED BY <2>1, <2>2, <2>3
<1> QED BY <1>1, NoNewConnection

LEMMA ServerQuiet ==
  ASSUME ConnectionsInv, NEW s \in Servers,
         \A c \in Clients : cpc'[c] = cpc[c] \/ (cpc[c] \notin Untied /\ cpc'[c] \notin Untied),
         \/ CleanLocks(s) \/ ProbeSocket(s) \/ UnlinkStale(s) \/ ClaimLock(s) \/ Bind(s) \/ Listen(s)
         \/ InitializeTokens(s) \/ WriteState(s) \/ ReceiveRequest(s) \/ LeaveServeLoop(s)
         \/ Unlink(s, "abortUnlink", "abortLock") \/ ReleaseLock(s, "abortLock", "stopClose")
         \/ Unlink(s, "stopUnlink", "stopState") \/ RemoveState(s) \/ ReleaseLock(s, "stopLock", "exited")
         \/ Launch(s)
  PROVE  ConnectionsKept'
<1>1. PICK to :
        /\ Goto(s, to) /\ to \in Gone \cup Starting \cup Serving \cup Stopping
        /\ UNCHANGED <<current, conn>>
        /\ to \in {"recv", "github"} <=> spc[s] \in {"recv", "github"}
        /\ to = "github" => current[s] \in Clients /\ conn[current[s]] = "sent"
        /\ \/ UNCHANGED listening /\ (spc[s] \in Open => to \in Open)
           \/ listening' = [listening EXCEPT ![s] = TRUE] /\ to \in Open
        /\ UNCHANGED backlog \/ (Reachable /\ LeaveProbe)
  <2> USE DEF files, sockets, Gone, Starting, Serving, Stopping, Open
  <2>1. CASE CleanLocks(s) \/ ProbeSocket(s) \/ UnlinkStale(s) \/ ClaimLock(s) \/ Bind(s)
    BY <2>1 DEF CleanLocks, ProbeSocket, UnlinkStale, Unlink, ClaimLock, Bind
  <2>2. CASE Listen(s) \/ InitializeTokens(s) \/ WriteState(s) \/ ReceiveRequest(s) \/ LeaveServeLoop(s)
    BY <2>2 DEF Listen, InitializeTokens, WriteState, ReceiveRequest, LeaveServeLoop
  <2>3. CASE \/ Unlink(s, "abortUnlink", "abortLock") \/ ReleaseLock(s, "abortLock", "stopClose")
             \/ Unlink(s, "stopUnlink", "stopState") \/ RemoveState(s)
             \/ ReleaseLock(s, "stopLock", "exited") \/ Launch(s)
    BY <2>3 DEF Unlink, ReleaseLock, RemoveState, Launch
  <2> QED BY <2>1, <2>2, <2>3
<1>2. Fits(s)
  <2>1. ServerConnections(s) /\ spc'[s] = to
    BY <1>1 DEF ConnectionsInv, Typed, ClientTypeOK, ServerTypeOK, Goto
  <2>2. current[s] = NoOne <=> to \notin {"recv", "github"}
    BY <1>1, <2>1 DEF ServerConnections
  <2>3. listening'[s] => to \in Open
    BY <1>1, <2>1 DEF ServerConnections
  <2> QED BY <1>1, <2>1, <2>2, <2>3 DEF Fits
<1>3. UNCHANGED listening \/ (listening' = [listening EXCEPT ![s] = TRUE])
  BY <1>1
<1> QED BY <1>1, <1>2, <1>3, ServerKeeps

(***************************************************************************)
(* Steps that end connections or hand them on.                             *)
(***************************************************************************)

\* A server closes its sockets, or its process is gone.
LEMMA CloseConnections ==
  ASSUME ConnectionsInv, NEW s \in Servers, UNCHANGED cpc,
         DropConnections(s, Held(s)), current'[s] = NoOne,
         \A t \in Servers \ {s} : current'[t] = current[t] /\ spc'[t] = spc[t],
         listening' = [listening EXCEPT ![s] = FALSE], backlog' = [backlog EXCEPT ![s] = <<>>],
         spc'[s] \notin {"recv", "github"}
  PROVE  ConnectionsKept'
<1>1. /\ ~listening'[s] /\ backlog'[s] = <<>>
      /\ \A t \in Servers \ {s} : listening'[t] = listening[t] /\ backlog'[t] = backlog[t]
  BY DEF ConnectionsInv, Typed, ClientTypeOK, ServerTypeOK
<1>2. Waiting(s)' = {} /\ NoClientTwice(backlog[s])'
  BY <1>1 DEF Waiting, In, NoClientTwice
<1>3. \A c \in Clients : conn'[c] = IF Holds(s, c) /\ conn[c] \in {"open", "sent"} THEN "eof" ELSE conn[c]
  BY HeldIs DEF DropConnections
<1>4. \A c \in Clients : ~Holds(s, c)'
  BY <1>2, NamesAssumption DEF Holds
<1>5. \A t \in Servers \ {s}, c \in Clients : Holds(t, c)' <=> Holds(t, c)
  BY <1>1 DEF Holds, Waiting
<1>6. ASSUME NEW t \in Servers PROVE ServerConnections(t)'
  <2>1. CASE t = s
    BY <1>1, <1>2, <2>1, NamesAssumption DEF ServerConnections
  <2>2. CASE t # s
    <3>1. ServerConnections(t)
      BY DEF ConnectionsInv
    <3>2. spc[t] = "github" => current[t] \in Clients /\ conn'[current[t]] = "sent"
      <4> SUFFICES ASSUME spc[t] = "github" PROVE current[t] \in Clients /\ conn'[current[t]] = "sent"
        OBVIOUS
      <4>1. current[t] \in Clients /\ conn[current[t]] = "sent" /\ Holds(t, current[t])
        BY <3>1 DEF ServerConnections, Holds
      <4>2. ~Holds(s, current[t])
        BY <4>1, <2>2 DEF ConnectionsInv, ClientConnection
      <4> QED BY <4>1, <4>2, <1>3
    <3> QED BY <1>1, <2>2, <3>1, <3>2 DEF ServerConnections, Waiting, NoClientTwice
  <2> QED BY <2>1, <2>2
<1>7. ASSUME NEW c \in Clients PROVE ClientConnection(c)'
  <2>1. ClientConnection(c)
    BY DEF ConnectionsInv
  <2>2. CASE Holds(s, c)
    <3>1. conn'[c] = "eof" /\ conn[c] \in {"open", "sent"} /\ \A t \in Servers : ~Holds(t, c)'
      BY <1>3, <1>4, <1>5, <2>1, <2>2 DEF ClientConnection
    <3> QED BY <2>1, <3>1 DEF ClientConnection
  <2>3. CASE ~Holds(s, c)
    <3>1. conn'[c] = conn[c] /\ \A t \in Servers : Holds(t, c)' <=> Holds(t, c)
      BY <1>3, <1>4, <1>5, <2>3
    <3>2. cpc'[c] = cpc[c]
      OBVIOUS
    <3> QED BY <2>1, <3>1, <3>2 DEF ClientConnection
  <2> QED BY <2>2, <2>3
<1> QED BY <1>6, <1>7 DEF ConnectionsKept

LEMMA CloseOrCrash ==
  ASSUME ConnectionsInv, NEW s \in Servers, UNCHANGED cpc,
         \/ Close(s, "abortClose", "abortUnlink") \/ Close(s, "stopClose", "stopUnlink") \/ Crash(s)
  PROVE  ConnectionsKept'
<1>1. CASE Close(s, "abortClose", "abortUnlink") \/ Close(s, "stopClose", "stopUnlink")
  <2>1. spc[s] \notin {"recv", "github"} /\ current[s] = NoOne
    BY <1>1 DEF Close, ConnectionsInv, ServerConnections
  <2>2. spc'[s] \notin {"recv", "github"} /\ \A t \in Servers \ {s} : spc'[t] = spc[t]
    BY <1>1 DEF Close, Goto, ConnectionsInv, Typed, ClientTypeOK, ServerTypeOK
  <2> QED BY <1>1, <2>1, <2>2, CloseConnections DEF Close
<1>2. CASE Crash(s)
  <2>1. spc'[s] = "crashed" /\ current'[s] = NoOne
        /\ \A t \in Servers \ {s} : current'[t] = current[t] /\ spc'[t] = spc[t]
    BY <1>2 DEF Crash, Goto, ConnectionsInv, Typed, ClientTypeOK, ServerTypeOK
  <2> QED BY <1>2, <2>1, CloseConnections DEF Crash
<1> QED BY <1>1, <1>2

\* The oldest waiting connection becomes the accepted one.
LEMMA AcceptConnection ==
  ASSUME ConnectionsInv, NEW s \in Servers, UNCHANGED cpc, Accept(s)
  PROVE  ConnectionsKept'
<1> DEFINE q == backlog[s]
<1>1. /\ q \in Queues /\ q # <<>> /\ NoClientTwice(q) /\ (In(q) # {} => listening[s])
      /\ current[s] = NoOne /\ spc[s] = "accept" /\ UNCHANGED <<listening, conn>>
      /\ backlog' = [backlog EXCEPT ![s] = Tail(q)] /\ current' = [current EXCEPT ![s] = Head(q)]
      /\ Goto(s, "recv")
  BY DEF Accept, ConnectionsInv, Typed, ClientTypeOK, ServerTypeOK, Queues, ServerConnections, Waiting
<1>2. /\ Tail(q) \in Queues /\ NoClientTwice(Tail(q)) /\ In(q) = In(Tail(q)) \cup {Head(q)}
      /\ Head(q) \in Clients \cup {Eof} /\ (Head(q) \in Clients => Head(q) \notin In(Tail(q)))
  BY <1>1, QueueAccept
<1>3. /\ backlog'[s] = Tail(q) /\ current'[s] = Head(q) /\ spc'[s] = "recv"
      /\ \A t \in Servers \ {s} : backlog'[t] = backlog[t] /\ current'[t] = current[t] /\ spc'[t] = spc[t]
  BY <1>1 DEF Goto, ConnectionsInv, Typed, ClientTypeOK, ServerTypeOK
<1>4. \A t \in Servers, c \in Clients : Holds(t, c)' <=> Holds(t, c)
  <2> SUFFICES ASSUME NEW t \in Servers, NEW c \in Clients PROVE Holds(t, c)' <=> Holds(t, c)
    OBVIOUS
  <2>1. CASE t = s
    <3>1. Holds(s, c) <=> c \in In(q)
      BY <1>1, NamesAssumption DEF Holds, Waiting
    <3>2. Holds(s, c)' <=> c = Head(q) \/ c \in In(Tail(q))
      BY <1>3 DEF Holds, Waiting
    <3> QED BY <1>2, <2>1, <3>1, <3>2
  <2>2. CASE t # s
    BY <1>3, <2>2 DEF Holds, Waiting
  <2> QED BY <2>1, <2>2
<1>5. ASSUME NEW t \in Servers PROVE ServerConnections(t)'
  <2>1. CASE t = s
    <3>1. listening'[s] /\ "recv" \in Open
      BY <1>1, <1>2 DEF Open, Serving
    <3>2. current'[s] # NoOne
      BY <1>2, <1>3, NamesAssumption
    <3>3. NoClientTwice(backlog'[s]) /\ (current'[s] \in Clients => current'[s] \notin In(backlog'[s]))
      BY <1>2, <1>3
    <3> HIDE DEF q
    <3> QED BY <1>3, <2>1, <3>1, <3>2, <3>3 DEF ServerConnections, Waiting, NoClientTwice
  <2>2. CASE t # s
    BY <1>1, <1>3, <2>2 DEF ConnectionsInv, ServerConnections, Waiting, NoClientTwice
  <2> QED BY <2>1, <2>2
<1>6. \A c \in Clients : ClientConnection(c)'
  BY <1>1, <1>4 DEF ConnectionsInv, ClientConnection
<1> QED BY <1>5, <1>6 DEF ConnectionsKept

\* The accepted connection is closed: by its peer, or answered.
LEMMA EndConnection ==
  ASSUME ConnectionsInv, NEW s \in Servers, UNCHANGED cpc, ReceiveEof(s) \/ HandleRequest(s)
  PROVE  ConnectionsKept'
<1>1. /\ UNCHANGED <<listening, backlog>> /\ Goto(s, "accept")
      /\ current' = [current EXCEPT ![s] = NoOne] /\ spc[s] \in {"recv", "github"}
  BY DEF ReceiveEof, HandleRequest
<1>2. /\ current'[s] = NoOne /\ spc'[s] = "accept"
      /\ \A t \in Servers \ {s} : current'[t] = current[t] /\ spc'[t] = spc[t]
  BY <1>1 DEF Goto, ConnectionsInv, Typed, ClientTypeOK, ServerTypeOK
<1>3. ServerConnections(s)
  BY DEF ConnectionsInv
<1>4. \A c \in Clients : c # current[s] => conn'[c] = conn[c]
  BY DEF ReceiveEof, HandleRequest, ConnectionsInv, Typed, ClientTypeOK, ServerTypeOK
<1>5. current[s] \in Clients => conn[current[s]] = "sent" /\ conn'[current[s]] \in {"ok", "error"}
  <2>1. CASE ReceiveEof(s)
    BY <2>1, NamesAssumption DEF ReceiveEof
  <2>2. CASE HandleRequest(s)
    BY <1>3, <2>2 DEF HandleRequest, ServerConnections, ConnectionsInv, Typed, ClientTypeOK, ServerTypeOK
  <2> QED BY <2>1, <2>2
<1>6. \A t \in Servers, c \in Clients : Holds(t, c)' <=> Holds(t, c) /\ c # current[s]
  <2> SUFFICES ASSUME NEW t \in Servers, NEW c \in Clients
               PROVE  Holds(t, c)' <=> Holds(t, c) /\ c # current[s]
    OBVIOUS
  <2>1. CASE t = s
    BY <1>1, <1>2, <1>3, <2>1, NamesAssumption DEF Holds, Waiting, ServerConnections
  <2>2. CASE t # s
    <3>1. Holds(t, c)' <=> Holds(t, c)
      BY <1>1, <1>2, <2>2 DEF Holds, Waiting
    <3>2. ~(Holds(t, c) /\ c = current[s])
      BY <2>2 DEF Holds, ConnectionsInv, ClientConnection
    <3> QED BY <3>1, <3>2
  <2> QED BY <2>1, <2>2
<1>7. ASSUME NEW t \in Servers PROVE ServerConnections(t)'
  <2>1. CASE t = s
    BY <1>1, <1>2, <1>3, <2>1, NamesAssumption
    DEF ServerConnections, Waiting, NoClientTwice, Open, Serving
  <2>2. CASE t # s
    <3>1. ServerConnections(t)
      BY DEF ConnectionsInv
    <3>2. current[t] \in Clients => current[t] # current[s]
      BY <2>2 DEF Holds, ConnectionsInv, ClientConnection
    <3> QED BY <1>1, <1>2, <1>4, <2>2, <3>1, <3>2 DEF ServerConnections, Waiting, NoClientTwice
  <2> QED BY <2>1, <2>2
<1>8. ASSUME NEW c \in Clients PROVE ClientConnection(c)'
  <2>1. ClientConnection(c) /\ cpc' = cpc
    BY DEF ConnectionsInv
  <2>2. CASE c = current[s]
    <3>1. conn[c] = "sent" /\ conn'[c] \in {"ok", "error"} /\ \A t \in Servers : ~Holds(t, c)'
      BY <1>5, <1>6, <2>2
    <3> QED BY <2>1, <3>1 DEF ClientConnection
  <2>3. CASE c # current[s]
    BY <1>4, <1>6, <2>1, <2>3 DEF ClientConnection
  <2> QED BY <2>2, <2>3
<1> QED BY <1>7, <1>8 DEF ConnectionsKept

(***************************************************************************)
(* Steps of the clients.                                                   *)
(***************************************************************************)

LEMMA ClientQuiet ==
  ASSUME ConnectionsInv, NEW c \in Clients,
         \/ Ask(c) \/ CheckServer(c) \/ InitServer(c) \/ Recheck(c) \/ AcquireStartupLock(c)
         \/ SpawnFails(c) \/ RemoveStartupLock(c) \/ WaitSucceeds(c) \/ WaitTimesOut(c)
         \/ DirectQueryEnds(c)
  PROVE  ConnectionsKept'
<1>1. /\ UNCHANGED <<current, conn, listening, spc>>
      /\ UNCHANGED backlog \/ (Reachable /\ LeaveProbe)
  <2> USE DEF serverVars, processes
  <2>1. CASE CheckServer(c) \/ InitServer(c) \/ Recheck(c) \/ WaitSucceeds(c)
    BY <2>1 DEF CheckServer, InitServer, Recheck, WaitSucceeds, ServerIsReady
  <2>2. CASE Ask(c) \/ AcquireStartupLock(c) \/ SpawnFails(c) \/ RemoveStartupLock(c)
             \/ WaitTimesOut(c) \/ DirectQueryEnds(c)
    BY <2>2 DEF Ask, AcquireStartupLock, SpawnFails, RemoveStartupLock, WaitTimesOut, DirectQueryEnds
  <2> QED BY <2>1, <2>2
<1>2. UNCHANGED cpc \/ (cpc[c] \notin Untied /\ \E to : to \notin Untied /\ cpc' = [cpc EXCEPT ![c] = to])
  <2> USE DEF Step, Untied
  <2>1. CASE CheckServer(c) \/ InitServer(c) \/ Recheck(c) \/ WaitSucceeds(c)
    BY <2>1 DEF CheckServer, InitServer, Recheck, WaitSucceeds, ServerIsReady
  <2>2. CASE Ask(c) \/ AcquireStartupLock(c) \/ SpawnFails(c) \/ RemoveStartupLock(c)
             \/ WaitTimesOut(c) \/ DirectQueryEnds(c)
    BY <2>2 DEF Ask, AcquireStartupLock, SpawnFails, RemoveStartupLock, WaitTimesOut, DirectQueryEnds
  <2> QED BY <2>1, <2>2
<1>3. \A d \in Clients : cpc'[d] = cpc[d] \/ (cpc[d] \notin Untied /\ cpc'[d] \notin Untied)
  BY <1>2 DEF ConnectionsInv, Typed, ClientTypeOK
<1>4. \A t \in Servers : backlog'[t] = backlog[t] \/ (listening[t] /\ backlog'[t] = Append(backlog[t], Eof))
  BY <1>1 DEF Reachable, LeaveProbe, ConnectionsInv, Typed, ClientTypeOK, ServerTypeOK
<1> QED BY <1>1, <1>3, <1>4, NoNewConnection

LEMMA ConnectConnection ==
  ASSUME ConnectionsInv, NEW c \in Clients, Connect(c)
  PROVE  ConnectionsKept'
<1>1. CASE ~(socketPath # NoOne /\ listening[socketPath])
  <2>1. UNCHANGED <<current, conn, listening, spc, backlog>> /\ cpc[c] = "connect"
        /\ cpc' = [cpc EXCEPT ![c] = "direct"]
    BY <1>1 DEF Connect, Step, processes
  <2>2. \A d \in Clients : cpc'[d] = cpc[d] \/ (cpc[d] \notin Untied /\ cpc'[d] \notin Untied)
    BY <2>1 DEF ConnectionsInv, Typed, ClientTypeOK, Untied
  <2> QED BY <2>1, <2>2, NoNewConnection
<1>2. CASE socketPath # NoOne /\ listening[socketPath]
  <2>1. PICK s \in Servers : s = socketPath /\ listening[s]
    BY <1>2 DEF ConnectionsInv, Typed, ClientTypeOK, ServerTypeOK
  <2>2. /\ UNCHANGED <<listening, current, spc>> /\ cpc[c] = "connect"
        /\ cpc'[c] = "connected" /\ (\A d \in Clients \ {c} : cpc'[d] = cpc[d])
        /\ conn'[c] = "open" /\ (\A d \in Clients \ {c} : conn'[d] = conn[d])
        /\ backlog'[s] = Append(backlog[s], c) /\ \A t \in Servers \ {s} : backlog'[t] = backlog[t]
    BY <1>2, <2>1 DEF Connect, Step, processes, ConnectionsInv, Typed, ClientTypeOK, ServerTypeOK
  <2>3. conn[c] = "none" /\ \A t \in Servers : ~Holds(t, c)
    BY <2>2 DEF ConnectionsInv, ClientConnection
  <2>4. In(backlog'[s]) = In(backlog[s]) \cup {c} /\ NoClientTwice(backlog'[s])
    <3>1. backlog[s] \in Queues /\ NoClientTwice(backlog[s]) /\ c \notin In(backlog[s])
      BY <2>3 DEF ConnectionsInv, Typed, ClientTypeOK, ServerTypeOK, Queues, ServerConnections, Holds, Waiting
    <3> QED BY <2>2, <3>1, QueueAppend
  <2>5. \A t \in Servers, d \in Clients : Holds(t, d)' <=> Holds(t, d) \/ (t = s /\ d = c)
    <3> SUFFICES ASSUME NEW t \in Servers, NEW d \in Clients
                 PROVE  Holds(t, d)' <=> Holds(t, d) \/ (t = s /\ d = c)
      OBVIOUS
    <3>1. CASE t = s
      BY <2>2, <2>4, <3>1 DEF Holds, Waiting
    <3>2. CASE t # s
      BY <2>2, <3>2 DEF Holds, Waiting
    <3> QED BY <3>1, <3>2
  <2>6. ASSUME NEW t \in Servers PROVE ServerConnections(t)'
    <3>1. ServerConnections(t)
      BY DEF ConnectionsInv
    <3>2. current[t] \in Clients => current[t] # c
      BY <2>3 DEF Holds
    <3>3. CASE t = s
      BY <2>1, <2>2, <2>4, <3>1, <3>2, <3>3 DEF ServerConnections, Waiting, NoClientTwice
    <3>4. CASE t # s
      BY <2>2, <3>1, <3>2, <3>4 DEF ServerConnections, Waiting, NoClientTwice
    <3> QED BY <3>3, <3>4
  <2>7. ASSUME NEW d \in Clients PROVE ClientConnection(d)'
    <3>1. ClientConnection(d)
      BY DEF ConnectionsInv
    <3>2. CASE d = c
      BY <2>2, <2>3, <2>5, <3>2 DEF ClientConnection
    <3>3. CASE d # c
      BY <2>2, <2>5, <3>1, <3>3 DEF ClientConnection
    <3> QED BY <3>2, <3>3
  <2> QED BY <2>6, <2>7 DEF ConnectionsKept
<1> QED BY <1>1, <1>2

\* The request is sent, or its answer read.
LEMMA TalkConnection ==
  ASSUME ConnectionsInv, NEW c \in Clients, Send(c) \/ ReceiveAnswer(c)
  PROVE  ConnectionsKept'
<1>1. /\ UNCHANGED <<listening, current, spc, backlog>>
      /\ \A d \in Clients \ {c} : cpc'[d] = cpc[d] /\ conn'[d] = conn[d]
  BY DEF Send, ReceiveAnswer, Step, processes, ConnectionsInv, Typed, ClientTypeOK, ServerTypeOK
<1>2. /\ conn[c] = "open" /\ conn'[c] = "sent" /\ cpc'[c] = "sent"
      \/ /\ conn[c] \notin {"open", "sent"} /\ conn'[c] = "none" /\ cpc'[c] \notin Untied
  <2>1. CASE Send(c)
    BY <2>1 DEF Send, Step, Untied, ConnectionsInv, Typed, ClientTypeOK, ServerTypeOK, ClientConnection
  <2>2. CASE ReceiveAnswer(c)
    BY <2>2 DEF ReceiveAnswer, Step, Untied, ConnectionsInv, Typed, ClientTypeOK, ServerTypeOK
  <2> QED BY <2>1, <2>2
<1>3. \A t \in Servers, d \in Clients : Holds(t, d)' <=> Holds(t, d)
  BY <1>1 DEF Holds, Waiting
<1>4. ASSUME NEW t \in Servers PROVE ServerConnections(t)'
  <2>1. ServerConnections(t)
    BY DEF ConnectionsInv
  <2>2. spc[t] = "github" => conn'[current[t]] = "sent"
    <3>1. conn[c] = "sent" => conn'[c] = "sent"
      BY <1>2, <1>3 DEF ConnectionsInv, ClientConnection
    <3> QED BY <1>1, <2>1, <3>1 DEF ServerConnections
  <2> QED BY <1>1, <2>1, <2>2 DEF ServerConnections, Waiting, NoClientTwice
<1>5. ASSUME NEW d \in Clients PROVE ClientConnection(d)'
  <2>1. ClientConnection(d)
    BY DEF ConnectionsInv
  <2>2. CASE d = c
    BY <1>2, <1>3, <2>1, <2>2 DEF ClientConnection, Untied
  <2>3. CASE d # c
    BY <1>1, <1>3, <2>1, <2>3 DEF ClientConnection
  <2> QED BY <2>2, <2>3
<1> QED BY <1>4, <1>5 DEF ConnectionsKept

\* A client dies; a request that it has sent stays where it is.
LEMMA CrashConnection ==
  ASSUME ConnectionsInv, NEW c \in Clients, ClientCrash(c)
  PROVE  ConnectionsKept'
<1>1. /\ UNCHANGED <<listening, spc>> /\ cpc'[c] = "crashed"
      /\ \A d \in Clients \ {c} : cpc'[d] = cpc[d]
  BY DEF ClientCrash, processes, ConnectionsInv, Typed, ClientTypeOK
<1>2. CASE conn[c] # "open"
  <2>1. UNCHANGED <<backlog, current, conn>>
    BY <1>2 DEF ClientCrash
  <2>2. \A t \in Servers, d \in Clients : Holds(t, d)' <=> Holds(t, d)
    BY <2>1 DEF Holds, Waiting
  <2>3. \A t \in Servers : ServerConnections(t)'
    BY <1>1, <2>1 DEF ConnectionsInv, ServerConnections, Waiting, NoClientTwice
  <2>4. \A d \in Clients : ClientConnection(d)'
    BY <1>1, <1>2, <2>1, <2>2 DEF ConnectionsInv, ClientConnection
  <2> QED BY <2>3, <2>4 DEF ConnectionsKept
<1>3. CASE conn[c] = "open"
  <2>1. /\ backlog' = [t \in Servers |-> [i \in DOMAIN backlog[t] |->
                        IF backlog[t][i] = c THEN Eof ELSE backlog[t][i]]]
        /\ current' = [t \in Servers |-> IF current[t] = c THEN Eof ELSE current[t]]
        /\ conn'[c] = "none" /\ \A d \in Clients \ {c} : conn'[d] = conn[d]
    BY <1>3 DEF ClientCrash, ConnectionsInv, Typed, ClientTypeOK, ServerTypeOK
  <2>2. ASSUME NEW t \in Servers
        PROVE  /\ NoClientTwice(backlog'[t])
               /\ \A d \in Clients : d \in In(backlog'[t]) <=> d # c /\ d \in In(backlog[t])
               /\ In(backlog[t]) = {} => In(backlog'[t]) = {}
    <3>1. backlog[t] \in Queues /\ NoClientTwice(backlog[t])
      BY DEF ConnectionsInv, Typed, ClientTypeOK, ServerTypeOK, Queues, ServerConnections
    <3>2. PICK r : r = [i \in DOMAIN backlog[t] |-> IF backlog[t][i] = c THEN Eof ELSE backlog[t][i]]
      OBVIOUS
    <3>3. backlog'[t] = r
      BY <2>1, <3>2
    <3> QED BY <3>1, <3>2, <3>3, QueueEof
  <2>3. \A t \in Servers, d \in Clients : Holds(t, d)' <=> Holds(t, d) /\ d # c
    BY <2>1, <2>2, NamesAssumption DEF Holds, Waiting
  <2>4. ASSUME NEW t \in Servers PROVE ServerConnections(t)'
    <3>1. ServerConnections(t)
      BY DEF ConnectionsInv
    <3>2. current'[t] = IF current[t] = c THEN Eof ELSE current[t]
      BY <2>1
    <3>3. spc[t] = "github" => current[t] # c /\ current[t] \in Clients
      BY <1>3, <3>1 DEF ServerConnections
    <3>4. /\ current'[t] = NoOne <=> spc[t] \notin {"recv", "github"}
          /\ spc[t] = "github" => current'[t] \in Clients /\ conn'[current'[t]] = "sent"
      BY <2>1, <3>1, <3>2, <3>3, NamesAssumption DEF ServerConnections
    <3>5. /\ Waiting(t)' # {} => listening[t]
          /\ NoClientTwice(backlog'[t])
          /\ current'[t] \in Clients => current'[t] \notin Waiting(t)'
      BY <2>2, <3>1, <3>2, NamesAssumption DEF ServerConnections, Waiting
    <3> QED BY <1>1, <3>1, <3>4, <3>5 DEF ServerConnections, NoClientTwice
  <2>5. ASSUME NEW d \in Clients PROVE ClientConnection(d)'
    <3>1. ClientConnection(d)
      BY DEF ConnectionsInv
    <3>2. CASE d = c
      BY <1>1, <2>1, <2>3, <3>2 DEF ClientConnection
    <3>3. CASE d # c
      BY <1>1, <2>1, <2>3, <3>1, <3>3 DEF ClientConnection
    <3> QED BY <3>2, <3>3
  <2> QED BY <2>4, <2>5 DEF ConnectionsKept
<1> QED BY <1>2, <1>3

LEMMA StepConnections == ConnectionsInv /\ [Next]_vars => ConnectionsInv'
<1> SUFFICES ASSUME ConnectionsInv, [Next]_vars PROVE ConnectionsKept'
  BY StepTyped DEF ConnectionsInv, ConnectionsKept
<1>1. ASSUME NEW s \in Servers, ServerProgram(s) PROVE ConnectionsKept'
  <2>1. ServerStep(s) /\ UNCHANGED cpc
    BY <1>1 DEF ServerProgram, clientVars
  <2>2. CASE Close(s, "abortClose", "abortUnlink") \/ Close(s, "stopClose", "stopUnlink")
    BY <2>1, <2>2, CloseOrCrash
  <2>3. CASE Accept(s)
    BY <2>1, <2>3, AcceptConnection
  <2>4. CASE ReceiveEof(s) \/ HandleRequest(s)
    BY <2>1, <2>4, EndConnection
  <2> QED BY <2>1, <2>2, <2>3, <2>4, ServerQuiet DEF ServerStep, AbortStart, Stop
<1>2. ASSUME NEW s \in Servers, StartServer(s) PROVE ConnectionsKept'
  BY <1>2, ServerQuiet DEF StartServer, clientVars
<1>3. ASSUME NEW s \in Servers, ServerFault(s) PROVE ConnectionsKept'
  <2>1. CASE Crash(s)
    BY <1>3, <2>1, CloseOrCrash DEF ServerFault, clientVars
  <2>2. CASE Signal(s)
    BY <1>3, <2>2, NoNewConnection DEF ServerFault, Signal, sockets, clientVars
  <2> QED BY <1>3, <2>1, <2>2 DEF ServerFault
<1>4. ASSUME NEW c \in Clients, SpawnServer(c) PROVE ConnectionsKept'
  <2>1. PICK s \in Servers : Launch(s)
    BY <1>4 DEF SpawnServer
  <2>2. \A d \in Clients : cpc'[d] = cpc[d] \/ (cpc[d] \notin Untied /\ cpc'[d] \notin Untied)
    BY <1>4 DEF SpawnServer, Step, Untied, ConnectionsInv, Typed, ClientTypeOK
  <2> QED BY <2>1, <2>2, ServerQuiet
<1>5. ASSUME NEW c \in Clients, Ask(c) \/ QueryStep(c) \/ ClientCrash(c) PROVE ConnectionsKept'
  BY <1>4, <1>5, ClientQuiet, ConnectConnection, TalkConnection, CrashConnection DEF QueryStep
<1>6. CASE UNCHANGED vars
  BY <1>6, NoNewConnection DEF vars, serverVars, clientVars
<1> QED BY <1>1, <1>2, <1>3, <1>5, <1>6 DEF Next

\* The invariant of the connections: which server holds a client's connection, while
\* serve() has its socket open or answers it, and none is held twice.
THEOREM ConnectionsInductive == Spec => []ConnectionsInv
  BY InitConnections, StepConnections, PTL DEF Spec

\* Every variable keeps its type: servers, clients and connections never leave their
\* states, whoever dies.
THEOREM CodeSearchTyped == Spec => []TypeOK
<1>1. ConnectionsInv => TypeOK
  BY DEF ConnectionsInv, ServerConnections, Typed, TypeOK
<1> QED BY <1>1, ConnectionsInductive, PTL

\* A client falls back to GitHub (_query_via_mode) only when no server runs its query,
\* for any number of servers, clients and faults.
THEOREM NoQueryTwice == Spec => []NoDoubleExecution
<1>1. ConnectionsInv => NoDoubleExecution
  BY ConnectionsGiveProperties
<1> QED BY <1>1, ConnectionsInductive, PTL

\* A connection is in the backlog of one server, or accepted by it; no request that
\* was sent to a live server is lost (serve(), _close_socket and the kernel's queue).
THEOREM OneServerPerConnection == Spec => []ConnectionAtOnePlace
<1>1. ConnectionsInv => ConnectionAtOnePlace
  BY ConnectionsGiveProperties
<1> QED BY <1>1, ConnectionsInductive, PTL
=============================================================================
