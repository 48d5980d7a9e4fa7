-------------------------- MODULE CodeSearchServer --------------------------
(***************************************************************************)
(* The request serialization server of                                     *)
(* src/src/tools/api_code_search_server.py: any number of server           *)
(* processes, each running main() = start(); serve(); stop(), over the     *)
(* files they share in /tmp.                                               *)
(*                                                                         *)
(* A process is named by its pid.  A pid may be used again once its        *)
(* process is gone, as it is when a container is restarted on the same     *)
(* /tmp.  One step of this module is one access to a shared file or one    *)
(* transition of a connection; between two steps any other process runs.   *)
(*                                                                         *)
(* SOCKET_PATH holds the inode bound by one process, so it is modelled by  *)
(* that process: bind() needs an absent path, hence a process never has    *)
(* two inodes there.  A listening socket outlives the removal of its path. *)
(***************************************************************************)
EXTENDS Naturals, Sequences

CONSTANTS
  Servers,    \* pids a server process may have
  Clients,    \* client processes (module CodeSearchClient)
  NoOne,      \* an absent file, no accepted connection
  Eof,        \* a connection whose peer closed it without a request (a probe)
  Backlog     \* listen(128): connections that wait before a probe is refused

ASSUME BacklogAssumption == Backlog \in Nat \ {0}

ASSUME NamesAssumption ==
  /\ NoOne \notin Servers \cup Clients
  /\ Eof \notin Servers \cup Clients \cup {NoOne}
  /\ Servers \cap Clients = {}

VARIABLES
  socketPath,  \* SOCKET_PATH: the server that bound the inode there, or NoOne
  statePath,   \* STATE_PATH: the pid written there, or NoOne
  lockFiles,   \* pids p with a file api_code_search_server_pid_{p}.lock
  spc,         \* control state of each server process
  listening,   \* listening[s]: s has a socket in the listening state
  backlog,     \* connections to s not accepted yet, oldest first
  current,     \* the connection s has accepted and not closed, or NoOne
  running,     \* self.running
  shutdown,    \* self._shutdown_event
  conn         \* state of the one connection of each client to some server

files == <<socketPath, statePath, lockFiles>>
processes == <<spc, running, shutdown>>
sockets == <<listening, backlog, current, conn>>
serverVars == <<socketPath, statePath, lockFiles, spc, listening, backlog,
                current, running, shutdown, conn>>

\* Control states: no process, start() in program order (abort* is its
\* clean-up when no token is usable), serve(), and stop().
Gone == {"off", "exited", "crashed"}
Starting == {"cleanLocks", "probe", "unlinkStale", "claim", "bind", "listen",
             "tokens", "abortClose", "abortUnlink", "abortLock", "writeState"}
Serving == {"accept", "recv", "github"}
Stopping == {"stopClose", "stopUnlink", "stopState", "stopLock"}

Alive(s) == spc[s] \notin Gone

\* open: connected, no request yet; sent: the request is in the socket;
\* ok, error: the answer is in the socket; eof: closed by the server.
ConnStates == {"none", "open", "sent", "ok", "error", "eof"}

ServerInit ==
  /\ socketPath = NoOne
  /\ statePath = NoOne
  /\ lockFiles = {}
  /\ spc = [s \in Servers |-> "off"]
  /\ listening = [s \in Servers |-> FALSE]
  /\ backlog = [s \in Servers |-> <<>>]
  /\ current = [s \in Servers |-> NoOne]
  /\ running = [s \in Servers |-> FALSE]
  /\ shutdown = [s \in Servers |-> FALSE]
  /\ conn = [c \in Clients |-> "none"]

ServerTypeOK ==
  /\ socketPath \in Servers \cup {NoOne}
  /\ statePath \in Servers \cup {NoOne}
  /\ lockFiles \subseteq Servers
  /\ spc \in [Servers -> Gone \cup Starting \cup Serving \cup Stopping]
  /\ listening \in [Servers -> BOOLEAN]
  /\ backlog \in [Servers -> Seq(Clients \cup {Eof})]
  /\ current \in [Servers -> Clients \cup {Eof, NoOne}]
  /\ running \in [Servers -> BOOLEAN]
  /\ shutdown \in [Servers -> BOOLEAN]
  /\ conn \in [Clients -> ConnStates]

-----------------------------------------------------------------------------
(* Helpers *)

Goto(s, to) == spc' = [spc EXCEPT ![s] = to]

\* connect() of a socket with a timeout: it does not wait for room.
Reachable ==
  /\ socketPath # NoOne
  /\ listening[socketPath]
  /\ Len(backlog[socketPath]) < Backlog

\* Such a connection is closed at once by its owner: the server will read EOF.
LeaveProbe ==
  backlog' = [backlog EXCEPT ![socketPath] = Append(@, Eof)]

\* The clients whose connection s still holds.
Held(s) ==
  {c \in Clients : c = current[s] \/ \E i \in DOMAIN backlog[s] : backlog[s][i] = c}

\* Faulty variant: the clients of a closed socket are not told.
KeepConnections(s, dropped) == conn' = conn

\* The kernel closes the listening socket of s, and the accepted one with the
\* process; every client of these reads EOF or is reset.
DropConnections(s, dropped) ==
  conn' = [c \in Clients |->
             IF c \in dropped /\ conn[c] \in {"open", "sent"} THEN "eof" ELSE conn[c]]

-----------------------------------------------------------------------------
(* start() *)

\* Popen by a client or the entrypoint: CodeSearchServer.__init__.
Launch(s) ==
  /\ spc[s] \in Gone
  /\ Goto(s, "cleanLocks")
  /\ UNCHANGED <<files, running, shutdown, sockets>>

\* Faulty variant: without _pid_is_alive every other process is taken for dead.
CleanAllLocks(s) ==
  /\ spc[s] = "cleanLocks"
  /\ lockFiles' = lockFiles \cap {s}
  /\ Goto(s, "probe")
  /\ UNCHANGED <<socketPath, statePath, running, shutdown, sockets>>

\* _cleanup_stale_resources, lock files: only those of dead pids go; the
\* starting process counts itself alive.
CleanLocks(s) ==
  /\ spc[s] = "cleanLocks"
  /\ lockFiles' = {p \in lockFiles : Alive(p)}
  /\ Goto(s, "probe")
  /\ UNCHANGED <<socketPath, statePath, running, shutdown, sockets>>

\* _cleanup_stale_resources, socket file: absent, answering, or to be removed.
ProbeSocket(s) ==
  /\ spc[s] = "probe"
  /\ \/ /\ socketPath = NoOne
        /\ Goto(s, "claim")
        /\ UNCHANGED backlog
     \/ /\ Reachable
        /\ LeaveProbe
        /\ Goto(s, "claim")
     \/ /\ socketPath # NoOne /\ ~Reachable
        /\ Goto(s, "unlinkStale")
        /\ UNCHANGED backlog
  /\ UNCHANGED <<files, running, shutdown, listening, current, conn>>

\* os.remove(SOCKET_PATH), whoever is behind the path: after the failed probe
\* of the clean-up, and in _close_socket.
Unlink(s, from, to) ==
  /\ spc[s] = from
  /\ socketPath' = NoOne
  /\ Goto(s, to)
  /\ UNCHANGED <<statePath, lockFiles, running, shutdown, sockets>>

UnlinkStale(s) == Unlink(s, "unlinkStale", "claim")

\* _claim_lock: O_CREAT|O_EXCL on a name that holds the own pid.
ClaimLock(s) ==
  /\ spc[s] = "claim"
  /\ IF s \in lockFiles
       THEN Goto(s, "stopClose") /\ UNCHANGED lockFiles
       ELSE Goto(s, "bind") /\ lockFiles' = lockFiles \cup {s}
  /\ UNCHANGED <<socketPath, statePath, running, shutdown, sockets>>

\* _create_socket: bind() fails on an existing path; start() then releases the
\* lock and main() goes on to stop().
Bind(s) ==
  /\ spc[s] = "bind"
  /\ IF socketPath = NoOne
       THEN /\ socketPath' = s
            /\ Goto(s, "listen")
            /\ UNCHANGED lockFiles
       ELSE /\ lockFiles' = lockFiles \ {s}
            /\ Goto(s, "stopClose")
            /\ UNCHANGED socketPath
  /\ UNCHANGED <<statePath, running, shutdown, sockets>>

Listen(s) ==
  /\ spc[s] = "listen"
  /\ listening' = [listening EXCEPT ![s] = TRUE]
  /\ Goto(s, "tokens")
  /\ UNCHANGED <<files, running, shutdown, backlog, current, conn>>

\* _initialize_available_tokens: GitHub says which tokens are usable.
InitializeTokens(s) ==
  /\ spc[s] = "tokens"
  /\ \E to \in {"writeState", "abortClose"} : Goto(s, to)
  /\ UNCHANGED <<files, running, shutdown, sockets>>

WriteState(s) ==
  /\ spc[s] = "writeState"
  /\ statePath' = s
  /\ Goto(s, "accept")
  /\ running' = [running EXCEPT ![s] = TRUE]
  /\ UNCHANGED <<socketPath, lockFiles, shutdown, sockets>>

-----------------------------------------------------------------------------
(* serve() *)

\* Faulty variant: the loop is "while True".
AcceptForever(s) ==
  /\ spc[s] = "accept"
  /\ backlog[s] # <<>>
  /\ current' = [current EXCEPT ![s] = Head(backlog[s])]
  /\ backlog' = [backlog EXCEPT ![s] = Tail(@)]
  /\ Goto(s, "recv")
  /\ UNCHANGED <<files, running, shutdown, listening, conn>>

Accept(s) ==
  /\ spc[s] = "accept"
  /\ running[s]
  /\ backlog[s] # <<>>
  /\ current' = [current EXCEPT ![s] = Head(backlog[s])]
  /\ backlog' = [backlog EXCEPT ![s] = Tail(@)]
  /\ Goto(s, "recv")
  /\ UNCHANGED <<files, running, shutdown, listening, conn>>

\* _recv_message has no timeout of its own: it waits for a request or EOF.
ReceiveRequest(s) ==
  /\ spc[s] = "recv"
  /\ current[s] \in Clients
  /\ conn[current[s]] = "sent"
  /\ Goto(s, "github")
  /\ UNCHANGED <<files, running, shutdown, sockets>>

\* Faulty variant: the connection is closed after the answer instead of in the
\* finally, and the return at an empty message leaves it open.
ReceiveEofOpen(s) ==
  /\ spc[s] = "recv"
  /\ current[s] = Eof
  /\ Goto(s, "accept")
  /\ UNCHANGED <<files, running, shutdown, sockets>>

\* An empty message: _handle_connection returns, and its finally closes the connection.
ReceiveEof(s) ==
  /\ spc[s] = "recv"
  /\ current[s] = Eof
  /\ current' = [current EXCEPT ![s] = NoOne]
  /\ Goto(s, "accept")
  /\ UNCHANGED <<files, running, shutdown, listening, backlog, conn>>

\* _handle_request ran the query against GitHub; _send_message; conn.close().
HandleRequest(s) ==
  /\ spc[s] = "github"
  /\ \E status \in {"ok", "error"} : conn' = [conn EXCEPT ![current[s]] = status]
  /\ current' = [current EXCEPT ![s] = NoOne]
  /\ Goto(s, "accept")
  /\ UNCHANGED <<files, running, shutdown, listening, backlog>>

\* The loop ends when running is cleared, or, on a second without connections,
\* when the event is set.
LeaveServeLoop(s) ==
  /\ spc[s] = "accept"
  /\ \/ ~running[s]
     \/ backlog[s] = <<>> /\ shutdown[s]
  /\ Goto(s, "stopClose")
  /\ UNCHANGED <<files, running, shutdown, sockets>>

-----------------------------------------------------------------------------
(* stop(), and the clean-up of a start() that found no usable token *)

\* self.socket.close(), self.running = False; what was not accepted is lost.
Close(s, from, to) ==
  /\ spc[s] = from
  /\ DropConnections(s, Held(s))
  /\ listening' = [listening EXCEPT ![s] = FALSE]
  /\ backlog' = [backlog EXCEPT ![s] = <<>>]
  /\ running' = [running EXCEPT ![s] = FALSE]
  /\ Goto(s, to)
  /\ UNCHANGED <<files, shutdown, current>>

\* The flags of a process end with it.
ForgetFlags(s) ==
  /\ running' = [running EXCEPT ![s] = FALSE]
  /\ shutdown' = [shutdown EXCEPT ![s] = FALSE]

ReleaseLock(s, from, to) ==
  /\ spc[s] = from
  /\ lockFiles' = lockFiles \ {s}
  /\ Goto(s, to)
  /\ IF to = "exited" THEN ForgetFlags(s) ELSE UNCHANGED <<running, shutdown>>
  /\ UNCHANGED <<socketPath, statePath, sockets>>

\* Faulty variant: stop() forgets the state file.
KeepState(s) ==
  /\ spc[s] = "stopState"
  /\ Goto(s, "stopLock")
  /\ UNCHANGED <<files, running, shutdown, sockets>>

\* _remove_state_file, whichever server wrote it.
RemoveState(s) ==
  /\ spc[s] = "stopState"
  /\ statePath' = NoOne
  /\ Goto(s, "stopLock")
  /\ UNCHANGED <<socketPath, lockFiles, running, shutdown, sockets>>

AbortStart(s) ==
  \/ Close(s, "abortClose", "abortUnlink")
  \/ Unlink(s, "abortUnlink", "abortLock")
  \/ ReleaseLock(s, "abortLock", "stopClose")

Stop(s) ==
  \/ Close(s, "stopClose", "stopUnlink")
  \/ Unlink(s, "stopUnlink", "stopState")
  \/ RemoveState(s)
  \/ ReleaseLock(s, "stopLock", "exited")

-----------------------------------------------------------------------------
(* What happens to a process *)

\* SIGTERM or SIGINT: _signal_handler.  In stop() nothing reads the flags again.
Signal(s) ==
  /\ spc[s] \in Starting \cup Serving
  /\ running' = [running EXCEPT ![s] = FALSE]
  /\ shutdown' = [shutdown EXCEPT ![s] = TRUE]
  /\ UNCHANGED <<files, spc, sockets>>

\* SIGKILL, out of memory: the files stay.
Crash(s) ==
  /\ Alive(s)
  /\ DropConnections(s, Held(s))
  /\ listening' = [listening EXCEPT ![s] = FALSE]
  /\ backlog' = [backlog EXCEPT ![s] = <<>>]
  /\ current' = [current EXCEPT ![s] = NoOne]
  /\ Goto(s, "crashed")
  /\ ForgetFlags(s)
  /\ UNCHANGED files

\* A step of the server's own program.
ServerStep(s) ==
  \/ CleanLocks(s) \/ ProbeSocket(s) \/ UnlinkStale(s) \/ ClaimLock(s)
  \/ Bind(s) \/ Listen(s) \/ InitializeTokens(s) \/ WriteState(s)
  \/ AbortStart(s)
  \/ Accept(s) \/ ReceiveRequest(s) \/ ReceiveEof(s) \/ HandleRequest(s)
  \/ LeaveServeLoop(s) \/ Stop(s)

=============================================================================
