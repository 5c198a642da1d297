------------------------------ MODULE Terminal ------------------------------
(***************************************************************************)
(* The server terminal: the ITerminal the program makes, the CTcpServer it *)
(* listens with, and its list of protocols.                                *)
(*                                                                         *)
(*   main      the program: init(), stop(), the destructor                 *)
(*   acceptor  CTcpServer::server_task, calling ITerminal::serverTask      *)
(*   manager   ITerminal::managerTask                                      *)
(*                                                                         *)
(* m_mutex protects m_listProtocol, not its size() in serverTask. What a   *)
(* protocol does once it runs is module Session; here it is valid or       *)
(* invalid, and `delete p' takes time, or does not return at all: label    *)
(* "hang". That happens to a session without its timeouts, to one whose    *)
(* thread waits on a foreign descriptor, and, since it ends the process,   *)
(* to one whose thread calls parse() pure (Timed, Astray and Aborted in    *)
(* Session).                                                               *)
(***************************************************************************)
EXTENDS Integers, FiniteSets

CONSTANTS
  Conn,      \* the connections clients make
  Max        \* m_maxSession

ASSUME TerminalAssumption ==
  /\ IsFiniteSet(Conn)
  /\ "none" \notin Conn    \* NoConn is no connection
  /\ Max \in Nat

VARIABLES
  object,    \* the terminal: derived class alive, or destroyed
  port,      \* m_port # 0
  timeout,   \* m_timeout is what init() was given
  sock,      \* CTcpServer::m_sockfd, and what it denotes
  running,   \* the threads told to run
  mutex,     \* who holds m_mutex
  list,      \* m_listProtocol
  todo,      \* the part of the list managerTask has not visited
  conn,      \* the life of each connection
  timed,     \* connections whose session was given the terminal's timeout
  invalid,   \* protocols for which isInvalid()
  cur,       \* the connection serverTask and managerTask are at
  stopped,   \* stop() has returned
  pc

terminal  == <<object, port, timeout, stopped>>
protocols == <<list, todo, conn, timed, invalid>>
threads   == <<running, cur>>
vars == <<terminal, sock, mutex, protocols, threads, pc>>

Thread == {"main", "acceptor", "manager"}
Worker == Thread \ {"main"}
Nobody == "nobody"
NoConn == "none"

InStop == {"halt", "isRun", "close", "clear", "haltServer", "wait", "lock",
           "delete", "hang"}

Label == InStop \cup
  {"idle", "start", "timeout", "port", "run", "gone",                  \* main
   "blocked", "task", "protocol", "push", "abort",                     \* acceptor
   "sweep", "erase", "delay"}                                          \* manager

Deleting == {"erase", "hang"}

Stage == {"away", "refused", "accepted", "session", "running", "deleted"}

TypeOK ==
  /\ object \in {"whole", "base"}
  /\ port \in BOOLEAN /\ timeout \in BOOLEAN
  /\ sock \in {"none", "open", "listening", "shut"}
  /\ running \in SUBSET Worker
  /\ mutex \in Thread \cup {Nobody}
  /\ list \in SUBSET Conn /\ todo \in SUBSET list
  /\ conn \in [Conn -> Stage]
  /\ timed \in SUBSET Conn /\ invalid \in SUBSET Conn
  /\ cur \in [Worker -> Conn \cup {NoConn}]
  /\ stopped \in BOOLEAN
  /\ pc \in [Thread -> Label]

Init ==
  /\ object = "whole" /\ port = FALSE /\ timeout = FALSE /\ sock = "none"
  /\ running = {} /\ mutex = Nobody /\ list = {} /\ todo = {}
  /\ conn = [c \in Conn |-> "away"] /\ timed = {} /\ invalid = {}
  /\ cur = [w \in Worker |-> NoConn]
  /\ stopped = FALSE
  /\ pc = [t \in Thread |-> "idle"]

Goto(t, l) == pc' = [pc EXCEPT ![t] = l]

Set(c, stage) == conn' = [conn EXCEPT ![c] = stage]

\* `delete p' destroys the protocol and its session.
Delete(c) ==
  /\ Set(c, "deleted")
  /\ timed' = timed \ {c}
  /\ invalid' = invalid \ {c}

\* The thread has no connection in its local variables.
Leave(w) == cur' = [cur EXCEPT ![w] = NoConn]

----------------------------------------------------------------------------
(* Slips the code avoids: each is the definition of the same name, less its *)
(* suffix, with one mistake. No action below uses them.                     *)

InitTimeout_Lost ==
  /\ pc["main"] = "timeout"
  /\ Goto("main", "port")
  /\ UNCHANGED <<terminal, sock, mutex, protocols, threads>>

ServerWait_NotAll ==
  /\ pc["main"] = "wait"
  /\ Goto("main", "lock")
  /\ UNCHANGED <<terminal, sock, mutex, protocols, threads>>

StopLock_Unguarded ==
  /\ pc["main"] = "lock"
  /\ Goto("main", "delete")
  /\ UNCHANGED <<terminal, sock, mutex, protocols, threads>>

StopClear_Undeleted ==
  /\ pc["main"] = "delete"
  /\ list' = {}
  /\ mutex' = Nobody
  /\ stopped' = TRUE
  /\ Goto("main", IF object = "whole" THEN "idle" ELSE "gone")
  /\ UNCHANGED <<object, port, timeout, sock, todo, conn, timed, invalid, threads>>

Full_OneMore == Cardinality(list) > Max + 1

ManagerKeep_Invalid(c) ==
  /\ pc["manager"] = "sweep"
  /\ c \in todo
  /\ todo' = todo \ {c}
  /\ UNCHANGED <<terminal, sock, mutex, list, conn, timed, invalid, threads, pc>>

ManagerUnlock_WhenFound ==
  /\ pc["manager"] = "sweep"
  /\ todo = {}
  /\ mutex' = IF list = {} THEN mutex ELSE Nobody
  /\ Goto("manager", "delay")
  /\ UNCHANGED <<terminal, sock, protocols, threads>>

----------------------------------------------------------------------------
(* main: ITerminal::init                                                   *)

\* INetServer::create and attach. A terminal with a port refuses.
InitCreate ==
  /\ pc["main"] = "idle"
  /\ ~port
  /\ Goto("main", "start")
  /\ UNCHANGED <<terminal, sock, mutex, protocols, threads>>

\* CTcpServer::start succeeds: the acceptor runs before init() goes on.
InitStart ==
  /\ pc["main"] = "start"
  /\ sock = "none"
  /\ sock' = "listening"
  /\ running' = running \cup {"acceptor"}
  /\ stopped' = FALSE
  /\ Goto("main", "timeout")
  /\ UNCHANGED <<object, port, timeout, mutex, protocols, cur>>

\* It fails: a socket that bind or listen refused stays in m_sockfd, and with
\* one there start() refuses to try again.
InitFail ==
  /\ pc["main"] = "start"
  /\ sock' \in {sock, "open"}
  /\ Goto("main", "idle")
  /\ UNCHANGED <<terminal, mutex, protocols, threads>>

InitTimeout ==
  /\ pc["main"] = "timeout"
  /\ timeout' = TRUE
  /\ Goto("main", "port")
  /\ UNCHANGED <<object, port, stopped, sock, mutex, protocols, threads>>

InitPort ==
  /\ pc["main"] = "port"
  /\ port' = TRUE
  /\ Goto("main", "run")
  /\ UNCHANGED <<object, timeout, stopped, sock, mutex, protocols, threads>>

InitRun ==
  /\ pc["main"] = "run"
  /\ running' = running \cup {"manager"}
  /\ Goto("main", "idle")
  /\ UNCHANGED <<terminal, sock, mutex, protocols, cur>>

----------------------------------------------------------------------------
(* main: ITerminal::stop                                                   *)

\* Called by the program, or by ~ITerminal when the derived class, which has
\* createProtocol(), is destroyed.
Stop ==
  /\ pc["main"] = "idle"
  /\ object' \in {"whole", "base"}
  /\ Goto("main", "halt")
  /\ UNCHANGED <<port, timeout, stopped, sock, mutex, protocols, threads>>

\* m_thread.stop() does not wait for a managerTask in progress.
StopManager ==
  /\ pc["main"] = "halt"
  /\ running' = running \ {"manager"}
  /\ Goto("main", "isRun")
  /\ UNCHANGED <<terminal, sock, mutex, protocols, cur>>

StopIsRun ==
  /\ pc["main"] = "isRun"
  /\ Goto("main", IF sock # "none" THEN "close" ELSE "lock")
  /\ UNCHANGED <<terminal, sock, mutex, protocols, threads>>

\* CTcpServer::stop. An accept() in progress goes on.
ServerClose ==
  /\ pc["main"] = "close"
  /\ sock' = "shut"
  /\ Goto("main", "clear")
  /\ UNCHANGED <<terminal, mutex, protocols, threads>>

ServerClear ==
  /\ pc["main"] = "clear"
  /\ sock' = "none"
  /\ Goto("main", "haltServer")
  /\ UNCHANGED <<terminal, mutex, protocols, threads>>

ServerHalt ==
  /\ pc["main"] = "haltServer"
  /\ running' = running \ {"acceptor"}
  /\ Goto("main", "wait")
  /\ UNCHANGED <<terminal, sock, mutex, protocols, cur>>

\* m_pThread->stop(true) returns when no server_task is in progress.
ServerWait ==
  /\ pc["main"] = "wait"
  /\ pc["acceptor"] = "idle"
  /\ Goto("main", "lock")
  /\ UNCHANGED <<terminal, sock, mutex, protocols, threads>>

StopLock ==
  /\ pc["main"] = "lock"
  /\ mutex = Nobody
  /\ mutex' = "main"
  /\ Goto("main", "delete")
  /\ UNCHANGED <<terminal, sock, protocols, threads>>

\* The loop deletes every protocol and leaves it in the list.
StopDelete(c) ==
  /\ pc["main"] \in {"delete", "hang"}
  /\ c \in list /\ conn[c] = "running"
  /\ Delete(c)
  /\ Goto("main", "delete")
  /\ UNCHANGED <<terminal, sock, mutex, list, todo, threads>>

\* A `delete p' of the loop that may not return.
StopHang ==
  /\ pc["main"] = "delete"
  /\ \E c \in list : conn[c] = "running"
  /\ Goto("main", "hang")
  /\ UNCHANGED <<terminal, sock, mutex, protocols, threads>>

\* m_listProtocol.clear(); the guard unlocks on return. ~ITerminal goes on to
\* detach managerTask and to destroy the members.
StopClear ==
  /\ pc["main"] = "delete"
  /\ \A c \in list : conn[c] # "running"
  /\ list' = {}
  /\ mutex' = Nobody
  /\ stopped' = TRUE
  /\ Goto("main", IF object = "whole" THEN "idle" ELSE "gone")
  /\ UNCHANGED <<object, port, timeout, sock, todo, conn, timed, invalid, threads>>

----------------------------------------------------------------------------
(* acceptor: CTcpServer::server_task and ITerminal::serverTask             *)

\* accept(m_sockfd) fails at once when m_sockfd does not listen.
AcceptCall ==
  /\ pc["acceptor"] = "idle"
  /\ "acceptor" \in running
  /\ sock = "listening"
  /\ Goto("acceptor", "blocked")
  /\ UNCHANGED <<terminal, sock, mutex, protocols, threads>>

\* SO_RCVTIMEO of the listening socket: three seconds.
AcceptTimeout ==
  /\ pc["acceptor"] = "blocked"
  /\ Goto("acceptor", "idle")
  /\ UNCHANGED <<terminal, sock, mutex, protocols, threads>>

Accept(c) ==
  /\ pc["acceptor"] = "blocked"
  /\ conn[c] = "away"
  /\ Set(c, "accepted")
  /\ cur' = [cur EXCEPT !["acceptor"] = c]
  /\ Goto("acceptor", "task")
  /\ UNCHANGED <<terminal, sock, mutex, list, todo, timed, invalid, running>>

\* serverTask reads the length of the list without m_mutex.
Full == Cardinality(list) > Max

TaskRefuse ==
  /\ pc["acceptor"] = "task"
  /\ Full
  /\ Set(cur["acceptor"], "refused")
  /\ Leave("acceptor")
  /\ Goto("acceptor", "idle")
  /\ UNCHANGED <<terminal, sock, mutex, list, todo, timed, invalid, running>>

\* ISession::create with m_timeout as it is now.
TaskSession ==
  /\ pc["acceptor"] = "task"
  /\ ~Full
  /\ Set(cur["acceptor"], "session")
  /\ timed' = IF timeout THEN timed \cup {cur["acceptor"]} ELSE timed
  /\ Goto("acceptor", "protocol")
  /\ UNCHANGED <<terminal, sock, mutex, list, todo, invalid, threads>>

\* createProtocol() is pure once the derived class is destroyed.
TaskProtocol ==
  /\ pc["acceptor"] = "protocol"
  /\ IF object = "whole"
       THEN Set(cur["acceptor"], "running") /\ Goto("acceptor", "push")
       ELSE Goto("acceptor", "abort") /\ UNCHANGED conn
  /\ UNCHANGED <<terminal, sock, mutex, list, todo, timed, invalid, threads>>

TaskLock ==
  /\ pc["acceptor"] = "push"
  /\ mutex = Nobody
  /\ mutex' = "acceptor"
  /\ UNCHANGED <<terminal, sock, protocols, threads, pc>>

TaskPush ==
  /\ pc["acceptor"] = "push"
  /\ mutex = "acceptor"
  /\ list' = list \cup {cur["acceptor"]}
  /\ mutex' = Nobody
  /\ Leave("acceptor")
  /\ Goto("acceptor", "idle")
  /\ UNCHANGED <<terminal, sock, todo, conn, timed, invalid, running>>

----------------------------------------------------------------------------
(* manager: ITerminal::managerTask                                         *)

ManagerTask ==
  /\ pc["manager"] = "idle"
  /\ "manager" \in running
  /\ Goto("manager", "lock")
  /\ UNCHANGED <<terminal, sock, mutex, protocols, threads>>

ManagerLock ==
  /\ pc["manager"] = "lock"
  /\ mutex = Nobody
  /\ mutex' = "manager"
  /\ todo' = list
  /\ Goto("manager", "sweep")
  /\ UNCHANGED <<terminal, sock, list, conn, timed, invalid, threads>>

ManagerKeep(c) ==
  /\ pc["manager"] = "sweep"
  /\ c \in todo \ invalid
  /\ todo' = todo \ {c}
  /\ UNCHANGED <<terminal, sock, mutex, list, conn, timed, invalid, threads, pc>>

ManagerErase(c) ==
  /\ pc["manager"] = "sweep"
  /\ c \in todo \cap invalid
  /\ list' = list \ {c}
  /\ todo' = todo \ {c}
  /\ cur' = [cur EXCEPT !["manager"] = c]
  /\ \E l \in Deleting : Goto("manager", l)
  /\ UNCHANGED <<terminal, sock, mutex, conn, timed, invalid, running>>

ManagerDelete ==
  /\ pc["manager"] \in Deleting
  /\ Delete(cur["manager"])
  /\ Leave("manager")
  /\ Goto("manager", "sweep")
  /\ UNCHANGED <<terminal, sock, mutex, list, todo, running>>

ManagerUnlock ==
  /\ pc["manager"] = "sweep"
  /\ todo = {}
  /\ mutex' = Nobody
  /\ Goto("manager", "delay")
  /\ UNCHANGED <<terminal, sock, protocols, threads>>

ManagerDelay ==
  /\ pc["manager"] = "delay"
  /\ Goto("manager", "idle")
  /\ UNCHANGED <<terminal, sock, mutex, protocols, threads>>

----------------------------------------------------------------------------
(* The session threads                                                     *)

\* A session logs out or is closed, and may log in again before it is found.
Turn(c) ==
  /\ conn[c] = "running"
  /\ invalid' = IF c \in invalid THEN invalid \ {c} ELSE invalid \cup {c}
  /\ UNCHANGED <<terminal, sock, mutex, list, todo, conn, timed, threads, pc>>

InitCall == InitCreate \/ InitStart \/ InitFail \/ InitTimeout \/ InitPort \/ InitRun
StopCall == \/ StopManager \/ StopIsRun
            \/ ServerClose \/ ServerClear \/ ServerHalt \/ ServerWait
            \/ StopLock \/ (\E c \in Conn : StopDelete(c)) \/ StopHang \/ StopClear
Task     == \/ TaskRefuse \/ TaskSession \/ TaskProtocol \/ TaskLock \/ TaskPush
Acceptor == AcceptCall \/ AcceptTimeout \/ (\E c \in Conn : Accept(c)) \/ Task
Manager  == \/ ManagerTask \/ ManagerLock
            \/ \E c \in Conn : ManagerKeep(c) \/ ManagerErase(c)
            \/ ManagerDelete \/ ManagerUnlock \/ ManagerDelay

Next ==
  \/ InitCall \/ Stop \/ StopCall
  \/ Acceptor \/ Manager
  \/ \E c \in Conn : Turn(c)

Spec == Init /\ [][Next]_vars

(***************************************************************************)
(* A stop() that has begun goes on; accept() ends by its timeout and       *)
(* server_task returns; the manager's loop runs. A delete at "hang" need   *)
(* not return. Nothing makes the program call init() or stop(), or a       *)
(* client connect.                                                         *)
(***************************************************************************)
Fairness ==
  /\ WF_vars(pc["main"] # "hang" /\ StopCall)
  /\ WF_vars(AcceptTimeout) /\ WF_vars(Task)
  /\ WF_vars(pc["manager"] # "hang" /\ Manager)

FairSpec == Spec /\ Fairness

----------------------------------------------------------------------------
(* Properties                                                              *)

Alive == {c \in Conn : conn[c] \in {"accepted", "session", "running"}}

\* When stop() returns every protocol is deleted and no other can appear.
StopLeavesNothing == stopped => Alive = {} /\ list = {} /\ pc["acceptor"] = "idle"

\* Whoever takes m_mutex finds living protocols in the list: main leaves
\* dangling pointers there, but holds the mutex until they are gone.
NoDangling ==
  mutex # "main" => \A c \in list : conn[c] = "running"

\* The list has at most one connection more than m_maxSession, the documented
\* maximum: the test is for greater.
ListBound == Cardinality(list) <= Max + 1

\* createProtocol() is called pure only when the derived class is destroyed
\* before stop() has run.
PureOnlyUnstopped == pc["acceptor"] = "abort" => object = "base" /\ ~stopped

\* A `delete p' under m_mutex has not returned.
Hanging == "hang" \in {pc["main"], pc["manager"]}

\* stop() returns, though it waits for the acceptor, the manager's sweep and
\* every session, unless a delete, its own or the manager's, never returns:
\* nothing else can hold it up for ever.
StopReturns ==
  (pc["main"] \in InStop) ~> (stopped \/ pc["acceptor"] = "abort" \/ []Hanging)

\* While the terminal runs, a protocol that stays invalid is deleted, unless
\* the manager is kept for ever by the delete of another one.
InvalidIsDeleted ==
  \A c \in Conn : (c \in list \cap invalid)
    ~> \/ conn[c] = "deleted" \/ c \notin invalid
       \/ "manager" \notin running \/ []Hanging

place == [c \in Conn |->
  IF conn[c] \in {"away", "accepted"} THEN "away"
  ELSE IF conn[c] \in {"session", "running"} THEN "served"
  ELSE "gone"]

Pool == INSTANCE Pool WITH
  Client <- Conn, Limit <- Max + 2, open <- ~stopped, place <- place

\* A connection is served once, never after stop() has returned, and beside the
\* list of at most Max + 1 there is only the one managerTask is deleting.
ImplementsPool == Pool!Spec

\* From the moment init() has set m_port every session has the timeout it was
\* given. Those of the connections that serverTask is called for earlier, while
\* init() is between start() and its assignments, may have none.
TimedSincePort ==
  [][\A c \in Conn : port /\ conn[c] = "accepted" /\ conn'[c] = "session"
       => c \in timed']_vars
=============================================================================
