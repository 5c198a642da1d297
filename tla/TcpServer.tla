----------------------------- MODULE TcpServer -----------------------------
(***************************************************************************)
(* CTcpServer and its registry, used by several terminals of one process,  *)
(* each with a thread of its own that calls init() and stop(). Module      *)
(* Terminal has one of them with its list; here a terminal is what it does *)
(* to its server, and a server is its members, the thread that runs        *)
(* server_task, and the descriptor table it shares with the others.        *)
(***************************************************************************)

CONSTANTS
  Terminal, Port,
  Server,    \* the CTcpServer objects that can be made: none is ever deleted
  Fd,        \* the descriptors of the process
  Sharing    \* a terminal may use a port while another's server is registered

VARIABLES
  sm_mapServer,              \* the server registered for a port
  port, proc, sockfd,        \* m_port, m_proc (whose serverTask), m_sockfd
  running,                   \* servers whose thread has been told to run
  at, arg,                   \* where server_task is, and with which argument
  file,                      \* what each descriptor denotes
  m_pServer, m_port,         \* of each terminal
  pc,                        \* where each terminal's thread is
  up,                        \* init() has set the terminal's server to work,
                             \* and stop() has not been called since
  down                       \* stop() has returned

server   == <<sm_mapServer, port, proc>>
acceptor == <<at, arg>>
terminal == <<m_pServer, m_port>>
history  == <<up, down>>
vars == <<server, sockfd, running, acceptor, file, terminal, pc, history>>

None == "none"
NoFd == "-1"

ASSUME TcpServerAssumption ==
  /\ Sharing \in BOOLEAN
  /\ None \notin Terminal \cup Port \cup Server
  /\ NoFd \notin Fd

Free == [by |-> None, kind |-> "free", port |-> None]

InStop == {"check", "unregister", "close", "clear", "halt", "wait"}

TypeOK ==
  /\ sm_mapServer \in [Port -> Server \cup {None}]
  /\ port \in [Server -> Port \cup {None}]
  /\ proc \in [Server -> Terminal \cup {None}]
  /\ sockfd \in [Server -> Fd \cup {NoFd}]
  /\ running \in SUBSET Server
  /\ at \in [Server -> {"idle", "enter", "blocked", "call"}]
  /\ arg \in [Server -> Fd \cup Port \cup {NoFd, None}]
  /\ file \in [Fd -> [by : Server \cup {None},
                      kind : {"free", "open", "bound", "listening"},
                      port : Port \cup {None}]]
  /\ m_pServer \in [Terminal -> Server \cup {None}]
  /\ m_port \in [Terminal -> BOOLEAN]
  /\ pc \in [Terminal -> InStop \cup
       {"idle", "start", "socket", "bind", "listen", "run", "return"}]
  /\ up \in SUBSET Terminal /\ down \in SUBSET Terminal

Init ==
  /\ sm_mapServer = [p \in Port |-> None]
  /\ port = [s \in Server |-> None]
  /\ proc = [s \in Server |-> None]
  /\ sockfd = [s \in Server |-> NoFd]
  /\ running = {}
  /\ at = [s \in Server |-> "idle"] /\ arg = [s \in Server |-> None]
  /\ file = [f \in Fd |-> Free]
  /\ m_pServer = [t \in Terminal |-> None] /\ m_port = [t \in Terminal |-> FALSE]
  /\ pc = [t \in Terminal |-> "idle"]
  /\ up = {} /\ down = {}

Step(t, from, to) == pc[t] = from /\ pc' = [pc EXCEPT ![t] = to]

\* The port is taken while a socket is bound to it, or an accept() on one that
\* has been closed goes on.
Taken(p) ==
  \/ \E f \in Fd : file[f].port = p
  \/ \E s \in Server : at[s] = "blocked" /\ arg[s] = p

----------------------------------------------------------------------------
(* Slips the code avoids: each is the definition of the same name, less its *)
(* suffix, with one mistake. No action below uses them.                     *)

StartCheck_Unchecked(t) ==
  /\ Step(t, "start", "socket")
  /\ UNCHANGED <<server, sockfd, running, acceptor, file, terminal, history>>

Unregister_All(t) ==
  /\ Step(t, "unregister", "close")
  /\ sm_mapServer' = [p \in Port |-> None]
  /\ UNCHANGED <<port, proc, sockfd, running, acceptor, file, terminal, history>>

Clear_Forgotten(t) ==
  /\ Step(t, "clear", "halt")
  /\ UNCHANGED <<server, sockfd, running, acceptor, file, terminal, history>>

Halt_Untold(t) ==
  /\ Step(t, "halt", "wait")
  /\ UNCHANGED <<server, sockfd, running, acceptor, file, terminal, history>>

Wait_AtOnce(t) ==
  /\ Step(t, "wait", "idle")
  /\ down' = down \cup {t}
  /\ UNCHANGED <<server, sockfd, running, acceptor, file, terminal, up>>

----------------------------------------------------------------------------
(* ITerminal::init                                                         *)

\* getServer(): the server registered for the port, or a new one.
getServer(p) ==
  IF sm_mapServer[p] # None THEN sm_mapServer[p]
  ELSE CHOOSE s \in Server : port[s] = None

\* attach() refuses a second callback.
Attach(t, s) == proc' = [proc EXCEPT ![s] = IF @ = None THEN t ELSE @]

\* INetServer::create, under sm_mutex, and attach(), which init() does not ask
\* whether it has refused.
Create(t, p) ==
  LET s == getServer(p) IN
  /\ Step(t, "idle", "start")
  /\ ~m_port[t]
  /\ sm_mapServer[p] # None \/ \E n \in Server : port[n] = None
  /\ Sharing \/ \A u \in Terminal \ {t} : m_pServer[u] # s /\ proc[s] # u
  /\ sm_mapServer' = [sm_mapServer EXCEPT ![p] = s]
  /\ port' = [port EXCEPT ![s] = p]
  /\ m_pServer' = [m_pServer EXCEPT ![t] = s]
  /\ down' = down \ {t}
  /\ Attach(t, s)
  /\ UNCHANGED <<sockfd, running, acceptor, file, m_port, up>>

\* With a socket start() fails, and so does init().
StartCheck(t) ==
  /\ Step(t, "start", IF sockfd[m_pServer[t]] = NoFd THEN "socket" ELSE "idle")
  /\ UNCHANGED <<server, sockfd, running, acceptor, file, terminal, history>>

Socket(t) ==
  /\ Step(t, "socket", "bind")
  /\ \E f \in Fd : file[f] = Free
  /\ LET f == CHOOSE f \in Fd : file[f] = Free IN
       /\ file' = [file EXCEPT ![f] = [by |-> m_pServer[t], kind |-> "open", port |-> None]]
       /\ sockfd' = [sockfd EXCEPT ![m_pServer[t]] = f]
  /\ UNCHANGED <<server, running, acceptor, terminal, history>>

SocketFail(t) ==
  /\ Step(t, "socket", "idle")
  /\ sockfd' = [sockfd EXCEPT ![m_pServer[t]] = NoFd]
  /\ UNCHANGED <<server, running, acceptor, file, terminal, history>>

Bind(t) ==
  LET s == m_pServer[t] IN
  /\ Step(t, "bind", "listen")
  /\ sockfd[s] # NoFd /\ file[sockfd[s]].kind = "open" /\ ~Taken(port[s])
  /\ file' = [file EXCEPT ![sockfd[s]].kind = "bound", ![sockfd[s]].port = port[s]]
  /\ UNCHANGED <<server, sockfd, running, acceptor, terminal, history>>

Listen(t) ==
  LET s == m_pServer[t] IN
  /\ Step(t, "listen", "run")
  /\ sockfd[s] # NoFd /\ file[sockfd[s]].kind = "bound"
  /\ file' = [file EXCEPT ![sockfd[s]].kind = "listening"]
  /\ UNCHANGED <<server, sockfd, running, acceptor, terminal, history>>

\* bind() or listen() fails: the socket stays in m_sockfd, init() returns false.
StartFail(t) ==
  /\ pc[t] \in {"bind", "listen"}
  /\ pc' = [pc EXCEPT ![t] = "idle"]
  /\ UNCHANGED <<server, sockfd, running, acceptor, file, terminal, history>>

\* m_pThread->run(): from here on server_task may call the terminal.
Run(t) ==
  /\ Step(t, "run", "return")
  /\ running' = running \cup {m_pServer[t]}
  /\ up' = up \cup {t}
  /\ UNCHANGED <<server, sockfd, acceptor, file, terminal, down>>

\* init() sets m_port and returns true.
Started(t) ==
  /\ Step(t, "return", "idle")
  /\ m_port' = [m_port EXCEPT ![t] = TRUE]
  /\ UNCHANGED <<server, sockfd, running, acceptor, file, m_pServer, history>>

----------------------------------------------------------------------------
(* ITerminal::stop and CTcpServer::stop                                    *)

\* isRun() of the server, which also says so of one that failed to start.
StopCall(t) ==
  /\ pc[t] = "idle" /\ m_pServer[t] # None
  /\ up' = up \ {t}
  /\ IF sockfd[m_pServer[t]] = NoFd
       THEN down' = down \cup {t} /\ UNCHANGED pc
       ELSE Step(t, "idle", "check") /\ UNCHANGED down
  /\ UNCHANGED <<server, sockfd, running, acceptor, file, terminal>>

StopCheck(t) ==
  /\ Step(t, "check", IF sockfd[m_pServer[t]] = NoFd THEN "idle" ELSE "unregister")
  /\ down' = IF sockfd[m_pServer[t]] = NoFd THEN down \cup {t} ELSE down
  /\ UNCHANGED <<server, sockfd, running, acceptor, file, terminal, up>>

\* closeServer(): whatever is registered for the port, under sm_mutex.
Unregister(t) ==
  /\ Step(t, "unregister", "close")
  /\ sm_mapServer' = [sm_mapServer EXCEPT ![port[m_pServer[t]]] = None]
  /\ UNCHANGED <<port, proc, sockfd, running, acceptor, file, terminal, history>>

Close(t) ==
  LET f == sockfd[m_pServer[t]] IN
  /\ Step(t, "close", "clear")
  /\ file' = IF f = NoFd THEN file ELSE [file EXCEPT ![f] = Free]
  /\ UNCHANGED <<server, sockfd, running, acceptor, terminal, history>>

Clear(t) ==
  /\ Step(t, "clear", "halt")
  /\ sockfd' = [sockfd EXCEPT ![m_pServer[t]] = NoFd]
  /\ UNCHANGED <<server, running, acceptor, file, terminal, history>>

Halt(t) ==
  /\ Step(t, "halt", "wait")
  /\ running' = running \ {m_pServer[t]}
  /\ UNCHANGED <<server, sockfd, acceptor, file, terminal, history>>

\* m_pThread->stop(true) returns when no server_task is in progress.
Wait(t) ==
  /\ Step(t, "wait", "idle")
  /\ at[m_pServer[t]] = "idle"
  /\ down' = down \cup {t}
  /\ UNCHANGED <<server, sockfd, running, acceptor, file, terminal, up>>

----------------------------------------------------------------------------
(* CTcpServer::server_task                                                 *)

Move(s, from, to, a) ==
  /\ at[s] = from
  /\ at' = [at EXCEPT ![s] = to]
  /\ arg' = [arg EXCEPT ![s] = a]
  /\ UNCHANGED <<server, sockfd, running, file, terminal, pc, history>>

\* m_sockfd is read, and accept() called with it.
Task(s) == s \in running /\ Move(s, "idle", "enter", sockfd[s])

\* The number may by now denote nothing, or somebody else's socket.
Enter(s) ==
  /\ at[s] = "enter"
  /\ LET listens == arg[s] # NoFd /\ file[arg[s]].kind = "listening" IN
     \/ listens  /\ Move(s, "enter", "blocked", file[arg[s]].port)
     \/ ~listens /\ Move(s, "enter", "idle", None)

\* A client, whom m_proc is called with, or three seconds without one.
Accept(s)  == Move(s, "blocked", "call", arg[s])
Timeout(s) == Move(s, "blocked", "idle", None)
Return(s)  == Move(s, "call", "idle", None)

ServerTask(s) == Task(s) \/ Enter(s) \/ Accept(s) \/ Timeout(s) \/ Return(s)

Start(t) ==
  \/ \E p \in Port : Create(t, p)
  \/ StartCheck(t) \/ Socket(t) \/ SocketFail(t)
  \/ Bind(t) \/ Listen(t) \/ StartFail(t) \/ Run(t) \/ Started(t)

Stopping(t) ==
  StopCheck(t) \/ Unregister(t) \/ Close(t) \/ Clear(t) \/ Halt(t) \/ Wait(t)

Next ==
  \/ \E t \in Terminal : Start(t) \/ StopCall(t) \/ Stopping(t)
  \/ \E s \in Server : ServerTask(s)

Spec == Init /\ [][Next]_vars

\* A stop() that has begun goes on; server_task is scheduled, accept() ends by
\* its timeout and the callback returns.
FairSpec ==
  /\ Spec
  /\ \A t \in Terminal : WF_vars(Stopping(t))
  /\ \A s \in Server : WF_vars(ServerTask(s))

----------------------------------------------------------------------------
(* Properties                                                              *)

\* A terminal whose server init() has set to work is served, while init() is
\* still to return and until stop() is called.
Serving ==
  \A t \in up :
    LET s == m_pServer[t] IN
    /\ sm_mapServer[port[s]] = s /\ proc[s] = t /\ s \in running
    /\ sockfd[s] \in Fd
    /\ file[sockfd[s]] = [by |-> s, kind |-> "listening", port |-> port[s]]

\* When stop() has returned no server calls the terminal, nor will until
\* init() is called again.
Stopped ==
  \A t \in down, s \in Server :
    proc[s] = t => s \notin running /\ at[s] = "idle"

\* A start() that fails and is tried again leaves no descriptor behind that no
\* server knows. A terminal may forget its server, whose socket then stays open.
NoLeak ==
  \A f \in Fd : file[f] # Free => sockfd[file[f].by] = f

\* stop() returns, though it waits for an accept().
StopReturns == \A t \in Terminal : pc[t] \in InStop ~> pc[t] = "idle"

Serves == [t \in Terminal |-> IF t \in up THEN port[m_pServer[t]] ELSE None]

Calls ==
  [t \in Terminal |-> IF m_pServer[t] # None /\ at[m_pServer[t]] = "call"
                      THEN arg[m_pServer[t]] ELSE None]

Quiet == down \cup {t \in Terminal : m_pServer[t] = None}

Service == INSTANCE PortService WITH serves <- Serves, calls <- Calls, quiet <- Quiet

\* Two terminals are never served on one port. One that is served is called for
\* clients of its own port and no others, though descriptors are reused under a
\* server_task that is about to accept(), and none is called once stop() has
\* returned. One that is stopping may get clients of another's port: Close
\* frees its number before Clear.
ImplementsService == Service!Spec
=============================================================================
