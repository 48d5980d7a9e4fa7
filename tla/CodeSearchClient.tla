-------------------------- MODULE CodeSearchClient --------------------------
(***************************************************************************)
(* The client of src/src/tools/api_code_search.py, composed with the       *)
(* server processes of CodeSearchServer: worker processes that call        *)
(* github_code_search() or peek(), start a server when none answers, and   *)
(* fall back to calling GitHub themselves.                                 *)
(***************************************************************************)
EXTENDS CodeSearchServer

CONSTANTS
  Mode,       \* Mode[c]: API_CODE_SEARCH_MODE of client process c
  MaxFaults,  \* bound: signals and crashes, of servers and clients together
  MaxStarts,  \* bound: server processes started by the entrypoint
  MaxSpawns   \* bound: server processes started by it and by clients

ASSUME ModeAssumption == Mode \in [Clients -> {"direct", "server", "auto"}]
ASSUME BoundsAssumption == MaxFaults \in Nat /\ MaxStarts \in Nat /\ MaxSpawns \in Nat

VARIABLES
  startupLock,  \* the file STARTUP_LOCK_PATH exists
  cpc,          \* control state of each client
  failedProbe,  \* failedProbe[c]: the first probe of _server_is_ready failed
  faults,       \* signals and crashes so far
  spawns        \* server processes started so far

clientVars == <<startupLock, cpc, failedProbe>>
counters == <<faults, spawns>>
vars == <<serverVars, clientVars, counters>>

\* ready, initReady, recheck: the three calls of _server_is_ready;
\* spawn, unlock: _spawn_server_process; wait: _wait_for_server_ready.
Probing == {"ready", "initReady", "recheck"}
ClientStates ==
  {"idle", "acquire", "spawn", "unlock", "wait", "connect", "connected",
   "sent", "direct", "crashed"} \cup Probing

\* Between creating the startup lock file and removing it.
HoldsStartupLock(c) == cpc[c] \in {"recheck", "spawn", "unlock"}

Init ==
  /\ ServerInit
  /\ startupLock = FALSE
  /\ cpc = [c \in Clients |-> "idle"]
  /\ failedProbe = [c \in Clients |-> FALSE]
  /\ faults = 0
  /\ spawns = 0

ClientTypeOK ==
  /\ startupLock \in BOOLEAN
  /\ cpc \in [Clients -> ClientStates]
  /\ failedProbe \in [Clients -> BOOLEAN]
  /\ faults \in 0..MaxFaults
  /\ spawns \in 0..MaxSpawns

\* The types of the variables; and a server holds an accepted connection exactly while
\* _handle_connection runs, which closes it however it ends.
TypeOK ==
  /\ ServerTypeOK
  /\ ClientTypeOK
  /\ \A s \in Servers : current[s] # NoOne <=> spc[s] \in {"recv", "github"}

-----------------------------------------------------------------------------
Step(c, from, to) == cpc[c] = from /\ cpc' = [cpc EXCEPT ![c] = to]

\* _query_via_mode begins.
Ask(c) ==
  /\ IF Mode[c] = "direct" THEN Step(c, "idle", "direct") ELSE Step(c, "idle", "ready")
  /\ UNCHANGED <<serverVars, startupLock, failedProbe, counters>>

StateNamesLiveServer == statePath # NoOne /\ Alive(statePath)

\* _server_is_ready called at control state "from": one probe, and if it fails
\* a second one provided the state file names a live process.
ServerIsReady(c, from, yes, no) ==
  /\ cpc[c] = from
  /\ \/ /\ Reachable
        /\ failedProbe[c] => StateNamesLiveServer
        /\ LeaveProbe
        /\ Step(c, from, yes)
        /\ failedProbe' = [failedProbe EXCEPT ![c] = FALSE]
     \/ /\ ~Reachable /\ ~failedProbe[c]
        /\ failedProbe' = [failedProbe EXCEPT ![c] = TRUE]
        /\ UNCHANGED <<cpc, backlog>>
     \/ /\ failedProbe[c]
        /\ ~(Reachable /\ StateNamesLiveServer)
        /\ Step(c, from, no)
        /\ failedProbe' = [failedProbe EXCEPT ![c] = FALSE]
        /\ UNCHANGED backlog
  /\ UNCHANGED <<files, processes, listening, current, conn, startupLock, counters>>

\* Mode "server" raises RuntimeError when no server answers: the call is over.
CheckServer(c) ==
  ServerIsReady(c, "ready", "connect",
                IF Mode[c] = "server" THEN "idle" ELSE "initReady")

-----------------------------------------------------------------------------
(* init_server *)

InitServer(c) == ServerIsReady(c, "initReady", "connect", "acquire")

\* Faulty variant: the file is opened without O_EXCL.
AcquireWithoutExcl(c) ==
  /\ Step(c, "acquire", "recheck")
  /\ startupLock' = TRUE
  /\ UNCHANGED <<serverVars, failedProbe, counters>>

AcquireStartupLock(c) ==
  /\ IF startupLock THEN Step(c, "acquire", "wait") ELSE Step(c, "acquire", "recheck")
  /\ startupLock' = TRUE
  /\ UNCHANGED <<serverVars, failedProbe, counters>>

\* The double check; when it succeeds, only the descriptor is closed.
Recheck(c) == ServerIsReady(c, "recheck", "connect", "spawn")

SpawnServer(c) ==
  /\ Step(c, "spawn", "unlock")
  /\ spawns < MaxSpawns
  /\ spawns' = spawns + 1
  /\ \E s \in Servers : Launch(s)
  /\ UNCHANGED <<startupLock, failedProbe, faults>>

\* Popen raised, or the machine has no process to give: init_server returns
\* False and leaves the lock file.
SpawnFails(c) ==
  /\ Step(c, "spawn", "direct")
  /\ UNCHANGED <<serverVars, startupLock, failedProbe, counters>>

\* _spawn_server_process removes the lock file as soon as Popen has returned.
RemoveStartupLock(c) ==
  /\ Step(c, "unlock", "wait")
  /\ startupLock' = FALSE
  /\ UNCHANGED <<serverVars, failedProbe, counters>>

\* _wait_for_server_ready polls until a probe succeeds ...
WaitSucceeds(c) ==
  /\ Reachable
  /\ LeaveProbe
  /\ Step(c, "wait", "connect")
  /\ UNCHANGED <<files, processes, listening, current, conn, startupLock,
                 failedProbe, counters>>

\* ... or 30 seconds are over, whatever the server is doing then.
WaitTimesOut(c) ==
  /\ Step(c, "wait", "direct")
  /\ UNCHANGED <<serverVars, startupLock, failedProbe, counters>>

-----------------------------------------------------------------------------
(* _call_server *)

\* A blocking connect: refused without a listener, else it waits for room, so
\* it takes its place among the waiting connections at once.
Connect(c) ==
  /\ IF socketPath # NoOne /\ listening[socketPath]
       THEN /\ Step(c, "connect", "connected")
            /\ backlog' = [backlog EXCEPT ![socketPath] = Append(@, c)]
            /\ conn' = [conn EXCEPT ![c] = "open"]
       ELSE /\ Step(c, "connect", "direct")
            /\ UNCHANGED <<backlog, conn>>
  /\ UNCHANGED <<files, processes, listening, current, startupLock,
                 failedProbe, counters>>

Send(c) ==
  /\ IF conn[c] = "open"
       THEN /\ Step(c, "connected", "sent")
            /\ conn' = [conn EXCEPT ![c] = "sent"]
       ELSE /\ Step(c, "connected", "direct")
            /\ conn' = [conn EXCEPT ![c] = "none"]
  /\ UNCHANGED <<files, processes, listening, backlog, current, startupLock,
                 failedProbe, counters>>

\* Faulty variant: recv() gives up on a server that is still at work.
ReceiveWithTimeout(c) ==
  /\ IF conn[c] = "ok" THEN Step(c, "sent", "idle") ELSE Step(c, "sent", "direct")
  /\ conn' = [conn EXCEPT ![c] = "none"]
  /\ UNCHANGED <<files, processes, listening, backlog, current, startupLock,
                 failedProbe, counters>>

\* _recv_message: a connection that ends before a whole message yields nothing.
Received(answer) == IF answer = "eof" THEN "none" ELSE answer

\* recv() has no timeout: only an answer or the end of the connection ends it.
\* Anything but an "ok" answer makes the caller query GitHub itself.
ReceiveAnswer(c) ==
  /\ conn[c] \in {"ok", "error", "eof"}
  /\ IF Received(conn[c]) = "ok" THEN Step(c, "sent", "idle") ELSE Step(c, "sent", "direct")
  /\ conn' = [conn EXCEPT ![c] = "none"]
  /\ UNCHANGED <<files, processes, listening, backlog, current, startupLock,
                 failedProbe, counters>>

\* direct_fn returned or raised; an exception becomes an empty list.
DirectQueryEnds(c) ==
  /\ Step(c, "direct", "idle")
  /\ UNCHANGED <<serverVars, startupLock, failedProbe, counters>>

-----------------------------------------------------------------------------
(* The environment *)

\* docker-entrypoint.sh or an operator starts a server.
StartServer(s) ==
  /\ spawns < MaxStarts /\ spawns < MaxSpawns
  /\ spawns' = spawns + 1
  /\ Launch(s)
  /\ UNCHANGED <<clientVars, faults>>

Fault == faults < MaxFaults /\ faults' = faults + 1

ServerFault(s) ==
  /\ Fault
  /\ Signal(s) \/ Crash(s)
  /\ UNCHANGED <<clientVars, spawns>>

\* A worker dies.  A connection without a request becomes one that ended;
\* a request already sent will still be run.
ClientCrash(c) ==
  /\ Fault
  /\ cpc[c] # "crashed"
  /\ cpc' = [cpc EXCEPT ![c] = "crashed"]
  /\ IF conn[c] = "open"
       THEN /\ backlog' = [s \in Servers |-> [i \in DOMAIN backlog[s] |->
                             IF backlog[s][i] = c THEN Eof ELSE backlog[s][i]]]
            /\ current' = [s \in Servers |-> IF current[s] = c THEN Eof ELSE current[s]]
            /\ conn' = [conn EXCEPT ![c] = "none"]
       ELSE UNCHANGED <<backlog, current, conn>>
  /\ UNCHANGED <<files, processes, listening, startupLock, failedProbe, spawns>>

-----------------------------------------------------------------------------
\* A step of the client's own program while a query is under way.
QueryStep(c) ==
  \/ CheckServer(c) \/ InitServer(c) \/ AcquireStartupLock(c) \/ Recheck(c)
  \/ SpawnServer(c) \/ SpawnFails(c) \/ RemoveStartupLock(c)
  \/ WaitSucceeds(c) \/ WaitTimesOut(c)
  \/ Connect(c) \/ Send(c) \/ ReceiveAnswer(c) \/ DirectQueryEnds(c)

ServerProgram(s) == ServerStep(s) /\ UNCHANGED <<clientVars, counters>>

Next ==
  \/ \E s \in Servers : ServerProgram(s) \/ StartServer(s) \/ ServerFault(s)
  \/ \E c \in Clients : Ask(c) \/ QueryStep(c) \/ ClientCrash(c)

Spec == Init /\ [][Next]_vars

\* The scheduler runs every live process, and the 30 seconds of a wait pass.
Fairness ==
  /\ \A s \in Servers : WF_vars(ServerProgram(s))
  /\ \A c \in Clients : WF_vars(QueryStep(c))

FairSpec == Spec /\ Fairness

-----------------------------------------------------------------------------
(* Properties *)

\* At most one client is between creating the startup lock file and removing
\* it, and the file is there meanwhile: _acquire_startup_lock's O_EXCL.
StartupExclusive ==
  /\ \A c, d \in Clients : HoldsStartupLock(c) /\ HoldsStartupLock(d) => c = d
  /\ \A c \in Clients : HoldsStartupLock(c) => startupLock

\* A live server past its claim owns its lock file, in particular no clean-up
\* of another server takes it for a stale one.
OwnsLockFile ==
  \A s \in Servers :
    spc[s] \in Serving \cup {"bind", "listen", "tokens", "abortClose",
                             "abortUnlink", "abortLock", "writeState"}
      => s \in lockFiles

\* A server that ended by itself left none of the shared files behind, however
\* its start or its loop ended.
ExitedLeavesNothing ==
  \A s \in Servers : spc[s] = "exited" =>
    socketPath # s /\ statePath # s /\ s \notin lockFiles

\* No query runs at GitHub twice at the same time: the client takes it up only
\* when the server has answered, closed the connection or died.
NoDoubleExecution ==
  \A c \in Clients, s \in Servers :
    ~(cpc[c] = "direct" /\ spc[s] = "github" /\ current[s] = c)

\* A connection waits or is served at one place: no request is run by two
\* servers, and none is lost by a server that still lives.
ConnectionAtOnePlace ==
  \A c \in Clients :
    /\ \A s, t \in Servers : c \in Held(s) /\ c \in Held(t) => s = t
    /\ cpc[c] = "sent" /\ conn[c] = "sent" => \E s \in Servers : c \in Held(s)

\* Every query returns to its caller, whatever servers and other clients do.
QueryReturns ==
  \A c \in Clients : (cpc[c] # "idle") ~> (cpc[c] \in {"idle", "crashed"})

\* A server told to stop while it serves does stop, however many clients keep
\* it busy.
ShutdownHonoured ==
  \A s \in Servers :
    (shutdown[s] /\ ~running[s] /\ spc[s] \in Serving) ~> ~Alive(s)

\* "Single server instance enforced via file-based locking": never two servers
\* in serve().
SingleInstance ==
  \A s, t \in Servers : spc[s] \in Serving /\ spc[t] \in Serving => s = t

\* "A filesystem lock serializes startup so multiple worker processes do not
\* spawn competing servers": a client that starts a server finds none alive.
NoCompetingSpawn ==
  [][\A c \in Clients :
       cpc[c] = "spawn" /\ cpc'[c] = "unlock" => \A s \in Servers : ~Alive(s)]_vars
=============================================================================
