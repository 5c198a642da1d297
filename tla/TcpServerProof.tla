--------------------------- MODULE TcpServerProof ---------------------------
(***************************************************************************)
(* Theorems of TcpServer. Those about what a terminal is promised are for  *)
(* terminals that keep to ports of their own: with a port shared Serving   *)
(* fails in the second terminal's init(). Type correctness needs no such   *)
(* program.                                                                *)
(***************************************************************************)
EXTENDS TcpServer, TLAPS

InStart == {"start", "socket", "bind", "listen", "run", "return"}

\* What the threads and server_task hold while they are where they are.
Locals ==
  /\ \A t \in Terminal : pc[t] # "idle" => m_pServer[t] # None
  /\ \A s \in Server : at[s] = "enter" => arg[s] \in Fd \cup {NoFd}

\* A server that has been made has its port, and a terminal's is its own.
Owned ==
  /\ \A s \in Server :
       port[s] = None => proc[s] = None /\ sockfd[s] = NoFd
  /\ \A t \in Terminal : m_pServer[t] # None =>
       proc[m_pServer[t]] = t /\ port[m_pServer[t]] # None
  /\ \A p \in Port : sm_mapServer[p] # None => port[sm_mapServer[p]] = p

\* The owner of a server is at work on it, past the point a.
Gone(s, a) ==
  /\ proc[s] # None
  /\ m_pServer[proc[s]] = s /\ pc[proc[s]] \in a

\* A server with a socket is the one registered for its port, unless stop()
\* has taken it from there and not yet forgotten the socket.
Registered ==
  /\ \A s \in Server : sockfd[s] # NoFd =>
       sm_mapServer[port[s]] = s \/ Gone(s, {"close", "clear"})
  /\ \A t \in Terminal : pc[t] \in InStart =>
       sm_mapServer[port[m_pServer[t]]] = m_pServer[t]

\* The descriptor of a server is its own, unless stop() has closed it and not
\* yet forgotten it.
Held ==
  /\ \A s \in Server : sockfd[s] # NoFd =>
       file[sockfd[s]].by = s \/ Gone(s, {"clear"})
  /\ \A f \in Fd : file[f] # Free => file[f].by # None

\* How far start() and stop() have come.
Progress ==
  /\ \A t \in Terminal :
       /\ pc[t] \in {"socket", "halt", "wait"} => sockfd[m_pServer[t]] = NoFd
       /\ pc[t] \in {"bind", "listen", "run", "check", "unregister", "close", "clear"} =>
            sockfd[m_pServer[t]] # NoFd
       /\ pc[t] = "clear" => file[sockfd[m_pServer[t]]].by # m_pServer[t]
       /\ pc[t] = "listen" => file[sockfd[m_pServer[t]]].port = port[m_pServer[t]]
       /\ pc[t] = "run" =>
            file[sockfd[m_pServer[t]]] =
              [by |-> m_pServer[t], kind |-> "listening", port |-> port[m_pServer[t]]]

\* Only init() sets a thread to work, and stop() waits for it.
Working ==
  /\ \A t \in up :
       /\ pc[t] \in {"idle", "return"} /\ m_pServer[t] # None
       /\ pc[t] = "idle" => m_port[t]
  /\ \A t \in Terminal : pc[t] = "return" => t \in up
  /\ \A t \in Terminal : m_port[t] => pc[t] \notin InStart
  /\ \A s \in Server : s \in running \/ at[s] # "idle" =>
       /\ proc[s] # None /\ m_pServer[proc[s]] = s
       /\ m_port[proc[s]] \/ pc[proc[s]] = "return"
       /\ proc[s] \in up \/ pc[proc[s]] \in InStop
  /\ \A s \in running : pc[proc[s]] # "wait"
  /\ \A t \in down :
       /\ t \notin up /\ pc[t] = "idle"
       /\ m_pServer[t] # None /\ sockfd[m_pServer[t]] = NoFd

\* A terminal that is served is called for clients of its own port only.
OwnClients ==
  \A s \in Server : at[s] = "call" /\ proc[s] \in up => arg[s] = port[s]

\* server_task calls accept() with the server's socket while that is served.
Current ==
  \A s \in Server : proc[s] \in up =>
    /\ at[s] = "enter" => arg[s] = sockfd[s]
    /\ at[s] = "blocked" => arg[s] = port[s]

IInv ==
  /\ ~Sharing
  /\ TypeOK /\ Locals /\ Owned /\ Registered /\ Held /\ Progress
  /\ Working /\ Current /\ Serving /\ NoLeak /\ OwnClients

----------------------------------------------------------------------------
USE TcpServerAssumption

(* Type correctness, whoever shares a port with whom.                      *)

TInv == TypeOK /\ Locals

File == [by : Server \cup {None}, kind : {"free", "open", "bound", "listening"},
         port : Port \cup {None}]

\* bind() and listen() change what their descriptor denotes.
LEMMA FileTyping ==
  ASSUME file \in [Fd -> File], NEW d \in Fd, NEW p \in Port \cup {None}
  PROVE  /\ [file EXCEPT ![d].kind = "bound", ![d].port = p] \in [Fd -> File]
         /\ [file EXCEPT ![d].kind = "listening"] \in [Fd -> File]
<1>1. file[d] \in File
  OBVIOUS
<1>2. [file[d] EXCEPT !.kind = "bound", !.port = p] \in File
  BY <1>1 DEF File
<1>3. [file[d] EXCEPT !.kind = "listening"] \in File
  BY <1>1 DEF File
<1>4. QED  BY <1>2, <1>3

LEMMA TypingStart ==
  ASSUME TInv, NEW t \in Terminal, Start(t) PROVE TInv'
<1> USE DEF TInv, TypeOK, Locals, InStop, Step, Free, server, acceptor,
      terminal, history
<1>1. ASSUME NEW p \in Port, Create(t, p) PROVE TInv'
  <2>1. getServer(p) \in Server /\ getServer(p) # None
    BY <1>1 DEF Create, getServer
  <2>2. proc' \in [Server -> Terminal \cup {None}]
    BY <1>1 DEF Create, Attach
  <2>3. QED  BY <1>1, <2>1, <2>2 DEF Create
<1>2. CASE StartCheck(t)
  BY <1>2 DEF StartCheck
<1>3. CASE Socket(t)
  <2>1. PICK f \in Fd :
          /\ file' = [file EXCEPT ![f] = [by |-> m_pServer[t], kind |-> "open", port |-> None]]
          /\ sockfd' = [sockfd EXCEPT ![m_pServer[t]] = f]
    BY <1>3 DEF Socket
  <2>2. m_pServer[t] \in Server /\ pc' = [pc EXCEPT ![t] = "bind"]
    BY <1>3 DEF Socket
  <2>3. file' \in [Fd -> File]
    BY <2>1, <2>2 DEF File
  <2>4. UNCHANGED <<server, running, acceptor, terminal, history>>
    BY <1>3 DEF Socket
  <2>5. QED  BY <2>1, <2>2, <2>3, <2>4 DEF File
<1>4. CASE SocketFail(t)
  BY <1>4 DEF SocketFail
<1>5. CASE Bind(t)
  <2> DEFINE s == m_pServer[t]
  <2>1. /\ s \in Server /\ sockfd[s] \in Fd
        /\ file' = [file EXCEPT ![sockfd[s]].kind = "bound", ![sockfd[s]].port = port[s]]
        /\ pc' = [pc EXCEPT ![t] = "listen"]
        /\ UNCHANGED <<server, sockfd, running, acceptor, terminal, history>>
    BY <1>5 DEF Bind
  <2>2. file \in [Fd -> File] /\ port[s] \in Port \cup {None}
    BY <2>1 DEF File
  <2>3. file' \in [Fd -> File]
    BY <2>1, <2>2, FileTyping
  <2>4. QED  BY <2>1, <2>3 DEF File
<1>6. CASE Listen(t)
  <2> DEFINE s == m_pServer[t]
  <2>1. /\ s \in Server /\ sockfd[s] \in Fd
        /\ file' = [file EXCEPT ![sockfd[s]].kind = "listening"]
        /\ pc' = [pc EXCEPT ![t] = "run"]
        /\ UNCHANGED <<server, sockfd, running, acceptor, terminal, history>>
    BY <1>6 DEF Listen
  <2>2. file \in [Fd -> File]
    BY DEF File
  <2>3. file' \in [Fd -> File]
    BY <2>1, <2>2, FileTyping
  <2>4. QED  BY <2>1, <2>3 DEF File
<1>7. CASE StartFail(t)
  BY <1>7 DEF StartFail
<1>8. CASE Run(t)
  BY <1>8 DEF Run
<1>9. CASE Started(t)
  BY <1>9 DEF Started
<1>10. QED
  BY <1>1, <1>2, <1>3, <1>4, <1>5, <1>6, <1>7, <1>8, <1>9 DEF Start

LEMMA TypingStop ==
  ASSUME TInv, NEW t \in Terminal, StopCall(t) \/ Stopping(t) PROVE TInv'
<1> USE DEF TInv, TypeOK, Locals, InStop, Step, Free, server, acceptor,
      terminal, history
<1>1. CASE StopCall(t)
  <2>1. CASE sockfd[m_pServer[t]] = NoFd
    BY <1>1, <2>1 DEF StopCall
  <2>2. CASE sockfd[m_pServer[t]] # NoFd
    BY <1>1, <2>2 DEF StopCall
  <2>3. QED  BY <2>1, <2>2
<1>2. CASE StopCheck(t)
  BY <1>2 DEF StopCheck
<1>3. CASE Unregister(t)
  BY <1>3 DEF Unregister
<1>4. CASE Close(t)
  BY <1>4 DEF Close
<1>5. CASE Clear(t)
  BY <1>5 DEF Clear
<1>6. CASE Halt(t)
  BY <1>6 DEF Halt
<1>7. CASE Wait(t)
  BY <1>7 DEF Wait
<1>8. QED
  BY <1>1, <1>2, <1>3, <1>4, <1>5, <1>6, <1>7 DEF Stopping

LEMMA TypingServerTask ==
  ASSUME TInv, NEW s \in Server, ServerTask(s) PROVE TInv'
<1> USE DEF TInv, TypeOK, Locals, InStop, server, terminal, history, Move
<1>1. CASE Task(s)
  BY <1>1 DEF Task
<1>2. CASE Enter(s)
  <2>1. CASE arg[s] \in Fd /\ Move(s, "enter", "blocked", file[arg[s]].port)
    <3>1. file[arg[s]].port \in Port \cup {None}
      BY <2>1
    <3>2. QED  BY <2>1, <3>1
  <2>2. CASE Move(s, "enter", "idle", None)
    BY <2>2
  <2>3. QED  BY <1>2, <2>1, <2>2 DEF Enter
<1>3. CASE Accept(s)
  BY <1>3 DEF Accept
<1>4. CASE Timeout(s)
  BY <1>4 DEF Timeout
<1>5. CASE Return(s)
  BY <1>5 DEF Return
<1>6. QED
  BY <1>1, <1>2, <1>3, <1>4, <1>5 DEF ServerTask

\* Every variable of the servers and their terminals keeps its type, also when
\* two terminals start, fail and stop one server between them.
THEOREM Typing == Spec => []TypeOK
<1>1. Init => TInv
  BY DEF Init, TInv, TypeOK, Locals, Free
<1>2. TInv /\ [Next]_vars => TInv'
  <2>1. ASSUME TInv, UNCHANGED vars PROVE TInv'
    BY <2>1 DEF vars, TInv, TypeOK, Locals, server, acceptor, terminal, history
  <2>2. QED  BY <2>1, TypingStart, TypingStop, TypingServerTask DEF Next
<1>3. QED  BY <1>1, <1>2, PTL DEF Spec, TInv

----------------------------------------------------------------------------
\* A terminal in init() or stop() is at work on its own server.
LEMMA AtWork ==
  ASSUME IInv, NEW t \in Terminal, pc[t] # "idle"
  PROVE  /\ m_pServer[t] \in Server
         /\ proc[m_pServer[t]] = t /\ port[m_pServer[t]] \in Port
BY DEF IInv, TypeOK, Locals, Owned

\* A terminal that is served has a server with a socket.
LEMMA UpHasSocket ==
  ASSUME IInv, NEW t \in up PROVE sockfd[m_pServer[t]] # NoFd
<1>1. sockfd[m_pServer[t]] \in Fd
  BY DEF IInv, Serving
<1>2. QED  BY <1>1

\* A terminal that has stopped is not at work, nor is its server.
LEMMA DownIsQuiet ==
  ASSUME IInv, NEW t \in down, NEW s \in Server, proc[s] = t
  PROVE  s \notin running /\ at[s] = "idle"
<1>1. t \notin up /\ pc[t] \notin InStop
  BY DEF IInv, Working, InStop
<1>2. QED  BY <1>1 DEF IInv, Working

\* What stop() is about to unregister is its own server.
LEMMA OwnEntry ==
  ASSUME IInv, NEW t \in Terminal, pc[t] = "unregister"
  PROVE  sm_mapServer[port[m_pServer[t]]] = m_pServer[t]
<1>1. sockfd[m_pServer[t]] # NoFd
  BY DEF IInv, Progress
<1>2. ~Gone(m_pServer[t], {"close", "clear"})
  BY AtWork DEF Gone
<1>3. QED  BY <1>1, <1>2, AtWork DEF IInv, Registered

\* When stop() is about to forget its descriptor, none is the server's.
LEMMA NoneLeft ==
  ASSUME IInv, NEW t \in Terminal, pc[t] = "clear", NEW f \in Fd, file[f] # Free
  PROVE  file[f].by \in Server \ {m_pServer[t]}
<1>1. file[f].by \in Server /\ sockfd[file[f].by] = f
  BY DEF IInv, TypeOK, Held, NoLeak
<1>2. file[sockfd[m_pServer[t]]].by # m_pServer[t]
  BY DEF IInv, Progress
<1>3. QED  BY <1>1, <1>2

\* accept() on a descriptor of a server that is served is on its port.
LEMMA OwnSocket ==
  ASSUME IInv, NEW s \in Server, at[s] = "enter", arg[s] \in Fd
  PROVE  /\ file[arg[s]].port \in Port \cup {None}
         /\ proc[s] \in up => file[arg[s]].port = port[s]
<1>1. file[arg[s]].port \in Port \cup {None}
  BY DEF IInv, TypeOK
<1>2. ASSUME proc[s] \in up PROVE file[arg[s]].port = port[s]
  <2>1. m_pServer[proc[s]] = s /\ arg[s] = sockfd[s]
    BY <1>2 DEF IInv, Working, Current
  <2>2. file[sockfd[s]] = [by |-> s, kind |-> "listening", port |-> port[s]]
    BY <1>2, <2>1 DEF IInv, Serving
  <2>3. QED  BY <2>1, <2>2
<1>3. QED  BY <1>1, <1>2

USE DEF IInv, TypeOK, Locals, Owned, Gone, Registered, Held, Progress, Working,
  Current, Serving, NoLeak, OwnClients, InStart, InStop, Step, Free, NoFd, None,
  server, acceptor, terminal, history

LEMMA InitIInv == ~Sharing /\ Init => IInv
BY DEF Init

\* create() and attach().
LEMMA StepCreate ==
  ASSUME IInv, NEW t \in Terminal, NEW p \in Port, Create(t, p) PROVE IInv'
<1> DEFINE s == getServer(p)
<1>1. /\ s \in Server
      /\ sm_mapServer[p] # None => s = sm_mapServer[p]
      /\ sm_mapServer[p] = None => port[s] = None
  BY DEF Create, getServer
<1>2. /\ proc[s] \in {None, t} /\ (port[s] \in {None, p})
      /\ \A u \in Terminal \ {t} : m_pServer[u] # s
  BY <1>1 DEF Create
<1>3. /\ pc[t] = "idle" /\ pc' = [pc EXCEPT ![t] = "start"]
      /\ ~m_port[t]
      /\ sm_mapServer' = [sm_mapServer EXCEPT ![p] = s]
      /\ port' = [port EXCEPT ![s] = p]
      /\ m_pServer' = [m_pServer EXCEPT ![t] = s]
      /\ proc' = [proc EXCEPT ![s] = t]
      /\ down' = down \ {t}
      /\ UNCHANGED <<sockfd, running, acceptor, file, m_port, up>>
  BY <1>1, <1>2 DEF Create, Attach
<1> HIDE DEF s
<1>4. TypeOK' /\ Locals' /\ Owned'
  BY <1>1, <1>2, <1>3
<1>5. Registered'
  BY <1>1, <1>2, <1>3
<1>6. Held'
  BY <1>1, <1>2, <1>3
<1>7. Progress'
  BY <1>1, <1>2, <1>3
<1>8. Working' /\ Current'
  BY <1>1, <1>2, <1>3
<1>9. Serving' /\ NoLeak' /\ OwnClients'
  BY <1>1, <1>2, <1>3
<1>10. QED  BY <1>4, <1>5, <1>6, <1>7, <1>8, <1>9

\* The rest of init().
LEMMA StepStart ==
  ASSUME IInv, NEW t \in Terminal, Start(t) PROVE IInv'
<1> DEFINE s == m_pServer[t]
<1>1. ASSUME NEW p \in Port, Create(t, p) PROVE IInv'
  BY <1>1, StepCreate
<1>2. CASE StartCheck(t)
  BY <1>2 DEF StartCheck
<1>3. CASE Socket(t)
  <2>1. s \in Server /\ proc[s] = t /\ sockfd[s] = NoFd
    BY <1>3, AtWork DEF Socket
  <2>2. PICK f \in Fd :
          /\ file[f] = Free
          /\ file' = [file EXCEPT ![f] = [by |-> s, kind |-> "open", port |-> None]]
          /\ sockfd' = [sockfd EXCEPT ![s] = f]
    BY <1>3 DEF Socket
  <2>3. /\ pc[t] = "socket" /\ pc' = [pc EXCEPT ![t] = "bind"]
        /\ UNCHANGED <<server, running, acceptor, terminal, history>>
    BY <1>3 DEF Socket
  <2>4. TypeOK' /\ Locals' /\ Owned'
    BY <2>1, <2>2, <2>3
  <2>5. Registered' /\ Held'
    BY <2>1, <2>2, <2>3
  <2>6. Progress'
    BY <2>1, <2>2, <2>3
  <2>7. Working' /\ Current'
    BY <2>1, <2>2, <2>3
  <2>8. Serving' /\ OwnClients'
    BY <2>1, <2>2, <2>3
  <2>9. NoLeak'
    BY <2>1, <2>2, <2>3
  <2>10. QED  BY <2>4, <2>5, <2>6, <2>7, <2>8, <2>9
<1>4. CASE SocketFail(t)
  <2>1. sockfd[s] = NoFd /\ sockfd' = [sockfd EXCEPT ![s] = NoFd]
    BY <1>4 DEF SocketFail
  <2>2. sockfd' = sockfd
    BY <2>1
  <2>3. QED  BY <1>4, <2>2 DEF SocketFail
<1>5. CASE Bind(t)
  <2>1. TypeOK' /\ Locals' /\ Owned'
    BY <1>5 DEF Bind
  <2>2. Registered' /\ Held' /\ Progress'
    BY <1>5 DEF Bind
  <2>3. Working' /\ Current'
    BY <1>5 DEF Bind
  <2>4. Serving' /\ OwnClients'
    BY <1>5 DEF Bind
  <2>5. NoLeak'
    BY <1>5 DEF Bind
  <2>6. QED  BY <2>1, <2>2, <2>3, <2>4, <2>5
<1>6. CASE Listen(t)
  BY <1>6 DEF Listen
<1>7. CASE StartFail(t)
  BY <1>7 DEF StartFail
<1>8. CASE Run(t)
  BY <1>8 DEF Run
<1>9. CASE Started(t)
  BY <1>9 DEF Started
<1>10. QED
  BY <1>1, <1>2, <1>3, <1>4, <1>5, <1>6, <1>7, <1>8, <1>9 DEF Start

\* stop().
LEMMA StepStop ==
  ASSUME IInv, NEW t \in Terminal, StopCall(t) \/ Stopping(t) PROVE IInv'
<1> DEFINE s == m_pServer[t]
<1>1. CASE StopCall(t)
  <2>1. CASE sockfd[s] = NoFd
    <3>1. t \notin up
      BY <2>1, UpHasSocket
    <3>2. up' = up
      BY <1>1, <3>1 DEF StopCall
    <3>3. pc' = pc /\ down' = down \cup {t}
      BY <1>1, <2>1 DEF StopCall
    <3>4. QED  BY <1>1, <2>1, <3>1, <3>2, <3>3 DEF StopCall
  <2>2. CASE sockfd[s] # NoFd
    <3>1. t \notin down /\ pc' = [pc EXCEPT ![t] = "check"]
      BY <1>1, <2>2 DEF StopCall
    <3>2. QED  BY <1>1, <2>2, <3>1 DEF StopCall
  <2>3. QED  BY <2>1, <2>2
<1>2. CASE StopCheck(t)
  <2>1. pc' = [pc EXCEPT ![t] = "unregister"] /\ down' = down
    BY <1>2 DEF StopCheck
  <2>2. QED  BY <1>2, <2>1 DEF StopCheck
<1>3. CASE Unregister(t)
  <2>1. s \in Server /\ proc[s] = t /\ sm_mapServer[port[s]] = s
    BY <1>3, AtWork, OwnEntry DEF Unregister, Step
  <2>2. \A x \in Server : x # s /\ port[x] # None /\ sm_mapServer[port[x]] = x =>
          sm_mapServer'[port[x]] = x
    BY <1>3, <2>1 DEF Unregister
  <2>3. TypeOK' /\ Locals' /\ Owned' /\ Held' /\ Progress'
    BY <1>3 DEF Unregister
  <2>4. Registered'
    BY <1>3, <2>1, <2>2 DEF Unregister
  <2>5. Serving'
    BY <1>3, <2>1, <2>2 DEF Unregister
  <2>6. Working' /\ Current' /\ NoLeak' /\ OwnClients'
    BY <1>3 DEF Unregister
  <2>7. QED  BY <2>3, <2>4, <2>5, <2>6
<1>4. CASE Close(t)
  BY <1>4 DEF Close
<1>5. CASE Clear(t)
  <2>1. TypeOK' /\ Locals' /\ Owned'
    BY <1>5 DEF Clear
  <2>2. Registered' /\ Held' /\ Progress'
    BY <1>5 DEF Clear
  <2>3. Working' /\ Current'
    BY <1>5 DEF Clear
  <2>4. Serving' /\ OwnClients'
    BY <1>5 DEF Clear
  <2>5. NoLeak'
    BY <1>5, NoneLeft DEF Clear
  <2>6. QED  BY <2>1, <2>2, <2>3, <2>4, <2>5
<1>6. CASE Halt(t)
  BY <1>6 DEF Halt
<1>7. CASE Wait(t)
  <2>1. s \in Server /\ proc[s] = t /\ sockfd[s] = NoFd
    BY <1>7, AtWork DEF Wait
  <2>2. \A x \in Server : x \in running \/ at[x] # "idle" => proc[x] # t
    BY <1>7, <2>1 DEF Wait
  <2>3. Working'
    BY <1>7, <2>1, <2>2 DEF Wait
  <2>4. TypeOK' /\ Locals' /\ Owned' /\ Registered' /\ Held' /\ Progress'
    BY <1>7 DEF Wait
  <2>5. Current' /\ Serving' /\ NoLeak' /\ OwnClients'
    BY <1>7 DEF Wait
  <2>6. QED  BY <2>3, <2>4, <2>5
<1>8. QED
  BY <1>1, <1>2, <1>3, <1>4, <1>5, <1>6, <1>7 DEF Stopping

\* server_task.
LEMMA StepServerTask ==
  ASSUME IInv, NEW s \in Server, ServerTask(s) PROVE IInv'
<1>1. CASE Task(s)
  BY <1>1 DEF Task, Move
<1>2. CASE Enter(s)
  <2>1. CASE arg[s] \in Fd /\ Move(s, "enter", "blocked", file[arg[s]].port)
    <3>1. file[arg[s]].port \in Port \cup {None}
      BY <2>1, OwnSocket DEF Move
    <3>2. proc[s] \in up => file[arg[s]].port = port[s]
      BY <2>1, OwnSocket DEF Move
    <3>3. TypeOK' /\ Locals'
      BY <2>1, <3>1 DEF Move
    <3>4. Working' /\ Current'
      BY <2>1, <3>2 DEF Move
    <3>5. Owned' /\ Registered' /\ Held' /\ Progress'
      BY <2>1 DEF Move
    <3>6. Serving' /\ NoLeak' /\ OwnClients'
      BY <2>1 DEF Move
    <3>7. QED  BY <3>3, <3>4, <3>5, <3>6
  <2>2. CASE Move(s, "enter", "idle", None)
    BY <2>2 DEF Move
  <2>3. QED  BY <1>2, <2>1, <2>2 DEF Enter
<1>3. CASE Accept(s)
  <2>1. TypeOK' /\ Locals' /\ Owned' /\ Registered' /\ Held' /\ Progress'
    BY <1>3 DEF Accept, Move
  <2>2. Working' /\ Current' /\ Serving' /\ NoLeak' /\ OwnClients'
    BY <1>3 DEF Accept, Move
  <2>3. QED  BY <2>1, <2>2
<1>4. CASE Timeout(s)
  BY <1>4 DEF Timeout, Move
<1>5. CASE Return(s)
  BY <1>5 DEF Return, Move
<1>6. QED
  BY <1>1, <1>2, <1>3, <1>4, <1>5 DEF ServerTask

LEMMA StepNone == ASSUME IInv, UNCHANGED vars PROVE IInv'
BY DEF vars

----------------------------------------------------------------------------
\* The invariant of the argument.
THEOREM Invariance == ~Sharing /\ Spec => []IInv
<1> HIDE DEF IInv
<1>1. IInv /\ [Next]_vars => IInv'
  BY StepStart, StepStop, StepServerTask, StepNone DEF Next
<1>2. QED  BY <1>1, InitIInv, PTL DEF Spec

\* A terminal whose server init() has set to work stays registered, listening
\* and served until it calls stop(), however many others start, fail, stop and
\* start again beside it.
THEOREM Served == ~Sharing /\ Spec => []Serving
BY Invariance, PTL DEF IInv

\* After stop() no server_task calls the terminal.
THEOREM StoppedIsQuiet == ~Sharing /\ Spec => []Stopped
<1>1. IInv => Stopped
  BY DownIsQuiet DEF Stopped
<1> HIDE DEF IInv
<1>2. QED  BY <1>1, Invariance, PTL

\* Every descriptor in use is in the m_sockfd of the server that opened it.
THEOREM NoneLeaks == ~Sharing /\ Spec => []NoLeak
BY Invariance, PTL DEF IInv

\* A terminal that is served gets the clients of its own port only, though
\* server_task calls accept() with a number it has read before.
THEOREM ClientsAreOwn == ~Sharing /\ Spec => []OwnClients
BY Invariance, PTL DEF IInv

----------------------------------------------------------------------------
(* PortService                                                             *)

HIDE DEF IInv, TypeOK, Locals, Owned, Gone, Registered, Held, Progress, Working,
  Current, Serving, NoLeak, OwnClients, InStart, InStop, Step, Free, NoFd, None,
  server, acceptor, terminal, history

\* A socket that listens is on a port, and so is whoever has come to it.
OnPort ==
  /\ \A f \in Fd : file[f].kind \in {"bound", "listening"} => file[f].port \in Port
  /\ \A s \in Server : at[s] \in {"blocked", "call"} => arg[s] \in Port

LEMMA StepOnPort ==
  ASSUME IInv, OnPort, [Next]_vars PROVE OnPort'
<1> USE DEF OnPort, Step, server, acceptor, terminal, history
<1>0. TypeOK
  BY DEF IInv
<1> USE DEF TypeOK
<1>1. ASSUME NEW t \in Terminal, Start(t) PROVE OnPort'
  <2>1. ASSUME NEW p \in Port, Create(t, p) PROVE OnPort'
    BY <2>1 DEF Create
  <2>2. CASE StartCheck(t)
    BY <2>2 DEF StartCheck
  <2>3. CASE Socket(t)
    BY <1>0, <2>3 DEF Socket
  <2>4. CASE SocketFail(t)
    BY <2>4 DEF SocketFail
  <2>5. CASE Bind(t)
    <3>1. port[m_pServer[t]] \in Port
      BY <2>5, AtWork DEF Bind
    <3>2. QED  BY <1>0, <2>5, <3>1 DEF Bind
  <2>6. CASE Listen(t)
    BY <1>0, <2>6 DEF Listen
  <2>7. CASE StartFail(t)
    BY <2>7 DEF StartFail
  <2>8. CASE Run(t) \/ Started(t)
    BY <2>8 DEF Run, Started
  <2>9. QED
    BY <1>1, <2>1, <2>2, <2>3, <2>4, <2>5, <2>6, <2>7, <2>8 DEF Start
<1>2. ASSUME NEW t \in Terminal, StopCall(t) \/ Stopping(t) PROVE OnPort'
  <2>1. CASE Close(t)
    BY <1>0, <2>1 DEF Close, Free
  <2>2. CASE ~Close(t)
    BY <1>2, <2>2 DEF StopCall, Stopping, StopCheck, Unregister, Clear, Halt, Wait
  <2>3. QED  BY <2>1, <2>2
<1>3. ASSUME NEW s \in Server, ServerTask(s) PROVE OnPort'
  <2>1. CASE Task(s)
    BY <1>0, <2>1 DEF Task, Move
  <2>2. CASE Enter(s)
    <3>1. at[s] = "enter" => arg[s] \in Fd \cup {NoFd}
      BY DEF IInv, Locals
    <3>2. QED  BY <1>0, <2>2, <3>1 DEF Enter, Move
  <2>3. CASE Accept(s)
    BY <1>0, <2>3 DEF Accept, Move
  <2>4. CASE Timeout(s) \/ Return(s)
    BY <1>0, <2>4 DEF Timeout, Return, Move
  <2>5. QED  BY <1>3, <2>1, <2>2, <2>3, <2>4 DEF ServerTask
<1>4. CASE UNCHANGED vars
  BY <1>4 DEF vars
<1>5. QED  BY <1>1, <1>2, <1>3, <1>4 DEF Next

\* A server at work has one terminal, which is served or stopping.
LEMMA OneTerminal ==
  ASSUME IInv, NEW s \in Server, at[s] # "idle"
  PROVE  /\ proc[s] \in Terminal /\ m_pServer[proc[s]] = s
         /\ m_port[proc[s]] \/ pc[proc[s]] = "return"
         /\ \A t \in Terminal : m_pServer[t] = s => t = proc[s]
         /\ proc[s] \in up \/ pc[proc[s]] \in InStop
         /\ proc[s] \notin Quiet
<1>1. /\ proc[s] \in Terminal /\ m_pServer[proc[s]] = s
      /\ m_port[proc[s]] \/ pc[proc[s]] = "return"
      /\ proc[s] \in up \/ pc[proc[s]] \in InStop
  BY DEF IInv, Working, TypeOK
<1>2. \A t \in Terminal : m_pServer[t] = s => t = proc[s]
  BY DEF IInv, Owned
<1>3. proc[s] \notin down
  BY <1>1 DEF IInv, Working, InStop
<1>4. m_pServer[proc[s]] # None
  BY <1>1
<1>5. QED  BY <1>1, <1>2, <1>3, <1>4 DEF Quiet

\* A terminal is not called unless it is served or stopping.
LEMMA NotCalled ==
  ASSUME IInv, NEW t \in Terminal, t \notin up, pc[t] \notin InStop
  PROVE  Serves[t] = None /\ Calls[t] = None
<1>1. Serves[t] = None
  BY DEF Serves
<1>2. ASSUME m_pServer[t] # None PROVE at[m_pServer[t]] # "call"
  <2>1. m_pServer[t] \in Server /\ proc[m_pServer[t]] = t
    BY <1>2 DEF IInv, TypeOK, Owned
  <2>2. QED  BY <2>1, OneTerminal
<1>3. QED  BY <1>1, <1>2 DEF Calls

\* Two terminals are never served on one port: the port is registered for one.
LEMMA OwnPort ==
  ASSUME IInv, NEW t \in Terminal, pc[t] = "run", NEW u \in up
  PROVE  port[m_pServer[u]] # port[m_pServer[t]]
<1>1. sm_mapServer[port[m_pServer[u]]] = m_pServer[u] /\ proc[m_pServer[u]] = u
  BY DEF IInv, Serving
<1>2. sm_mapServer[port[m_pServer[t]]] = m_pServer[t]
  BY DEF IInv, Registered, InStart
<1>3. proc[m_pServer[t]] = t
  BY AtWork
<1>4. pc[u] \in {"idle", "return"}
  BY DEF IInv, Working
<1>5. QED  BY <1>1, <1>2, <1>3, <1>4

\* init() is Wake, once it has the terminal's server, and Serve when it sets
\* that to work.
LEMMA StartServes ==
  ASSUME IInv, NEW t \in Terminal, Start(t)
  PROVE  [Service!Next]_<<Serves, Calls, Quiet>>
<1> DEFINE s == m_pServer[t]
<1> USE DEF Step, server, acceptor, terminal, history
<1>1. ASSUME NEW p \in Port, Create(t, p) PROVE Service!Wake(t)
  <2> DEFINE n == getServer(p)
  <2>1. /\ pc[t] = "idle" /\ ~m_port[t]
        /\ m_pServer' = [m_pServer EXCEPT ![t] = n]
        /\ port' = [port EXCEPT ![n] = p]
        /\ down' = down \ {t}
        /\ UNCHANGED <<at, arg, up>>
    BY <1>1 DEF Create
  <2>2. n \in Server /\ (proc[n] = None \/ proc[n] = t)
    <3>1. n \in Server
      BY <1>1 DEF Create, getServer, IInv, TypeOK
    <3>2. ~Sharing
      BY DEF IInv
    <3>3. proc[n] \in Terminal \cup {None}
      BY <3>1 DEF IInv, TypeOK
    <3>4. QED  BY <1>1, <3>1, <3>2, <3>3 DEF Create
  <2> HIDE DEF n
  <2>3. t \notin up /\ pc[t] \notin InStop
    BY <2>1 DEF IInv, Working, InStop
  <2>4. Serves[t] = None /\ Calls[t] = None
    BY <2>3, NotCalled
  <2>5. at[n] # "call"
    <3>1. ASSUME at[n] # "idle" PROVE FALSE
      BY <2>1, <2>2, <3>1, OneTerminal
    <3>2. QED  BY <3>1
  <2>6. \A u \in up : u \in Terminal /\ u # t /\ m_pServer[u] # n
    <3>1. \A u \in up : proc[m_pServer[u]] = u
      BY DEF IInv, Serving
    <3>2. up \subseteq Terminal
      BY DEF IInv, TypeOK
    <3>3. QED  BY <2>2, <2>3, <3>1, <3>2
  <2>7. m_pServer \in [Terminal -> Server \cup {None}] /\ port \in [Server -> Port \cup {None}]
    BY DEF IInv, TypeOK
  <2>8. Serves' = Serves
    BY <2>1, <2>2, <2>6, <2>7 DEF Serves
  <2>9. Calls' = Calls
    BY <2>1, <2>2, <2>4, <2>5, <2>7 DEF Calls
  <2>10. Quiet' = Quiet \ {t}
    BY <2>1, <2>2, <2>7 DEF Quiet
  <2>11. QED  BY <2>4, <2>8, <2>9, <2>10 DEF Service!Wake
<1>2. CASE \/ StartCheck(t) \/ Socket(t) \/ SocketFail(t) \/ Bind(t) \/ Listen(t)
          \/ StartFail(t) \/ Started(t)
  <2>1. UNCHANGED <<port, at, arg, m_pServer, up, down>>
    BY <1>2 DEF StartCheck, Socket, SocketFail, Bind, Listen, StartFail, Started
  <2>2. QED  BY <2>1 DEF Serves, Calls, Quiet
<1>3. CASE Run(t)
  <2>1. /\ pc[t] = "run" /\ up' = up \cup {t}
        /\ UNCHANGED <<port, at, arg, m_pServer, down>>
    BY <1>3 DEF Run
  <2>2. t \notin up /\ pc[t] \notin InStop /\ t \notin down
    BY <2>1 DEF IInv, Working, InStop
  <2>3. s \in Server /\ port[s] \in Port
    BY <2>1, AtWork
  <2>4. t \notin Quiet /\ Serves[t] = None /\ Calls[t] = None
    BY <2>2, <2>3, NotCalled DEF Quiet
  <2>5. \A u \in Terminal : Serves[u] # port[s]
    BY <2>1, <2>3, OwnPort DEF Serves
  <2>6. Serves' = [Serves EXCEPT ![t] = port[s]]
    BY <2>1, <2>2 DEF Serves
  <2>7. Calls' = Calls /\ Quiet' = Quiet
    BY <2>1 DEF Calls, Quiet
  <2>8. QED
    BY <2>3, <2>4, <2>5, <2>6, <2>7 DEF Service!Next, Service!Serve
<1>4. QED  BY <1>1, <1>2, <1>3 DEF Start, Service!Next

\* stop() is GiveUp when it is called, and Rest when it returns.
LEMMA StopRests ==
  ASSUME IInv, NEW t \in Terminal, StopCall(t) \/ Stopping(t)
  PROVE  [Service!Next]_<<Serves, Calls, Quiet>>
<1> DEFINE s == m_pServer[t]
<1> USE DEF Step, server, acceptor, terminal, history
<1>0. down \subseteq Terminal
  BY DEF IInv, TypeOK
<1>1. ASSUME t \notin up, up' = up, Calls[t] = None, down' = down \cup {t},
             UNCHANGED <<port, at, arg, m_pServer>>
      PROVE  Service!Rest(t)
  <2>1. Serves[t] = None
    BY <1>1 DEF Serves
  <2>2. UNCHANGED <<Serves, Calls>>
    BY <1>1 DEF Serves, Calls
  <2>3. Quiet' = Quiet \cup {t}
    BY <1>1 DEF Quiet
  <2>4. QED  BY <1>1, <2>1, <2>2, <2>3 DEF Service!Rest
<1>2. CASE StopCall(t)
  <2>1. pc[t] = "idle" /\ up' = up \ {t} /\ UNCHANGED <<port, at, arg, m_pServer>>
    BY <1>2 DEF StopCall
  <2>2. CASE sockfd[s] = NoFd
    <3>1. t \notin up
      BY <2>2, UpHasSocket
    <3>2. up' = up /\ down' = down \cup {t}
      BY <1>2, <2>1, <2>2, <3>1 DEF StopCall
    <3>3. Calls[t] = None
      BY <2>1, <3>1, NotCalled DEF InStop
    <3>4. QED  BY <1>1, <2>1, <3>1, <3>2, <3>3 DEF Service!Next
  <2>3. CASE sockfd[s] # NoFd
    <3>1. down' = down
      BY <1>2, <2>3 DEF StopCall
    <3>2. Serves' = [Serves EXCEPT ![t] = None]
      BY <2>1 DEF Serves
    <3>3. Calls' = Calls /\ Quiet' = Quiet
      BY <2>1, <3>1 DEF Calls, Quiet
    <3>4. QED  BY <3>2, <3>3 DEF Service!Next, Service!GiveUp
  <2>4. QED  BY <2>2, <2>3
<1>3. CASE StopCheck(t) \/ Unregister(t) \/ Close(t) \/ Clear(t) \/ Halt(t)
  <2>1. StopCheck(t) => down' = down
    <3>1. pc[t] = "check" => sockfd[s] # NoFd
      BY DEF IInv, Progress
    <3>2. QED  BY <3>1 DEF StopCheck
  <2>2. UNCHANGED <<port, at, arg, m_pServer, up, down>>
    BY <1>3, <2>1 DEF StopCheck, Unregister, Close, Clear, Halt
  <2>3. QED  BY <2>2 DEF Serves, Calls, Quiet
<1>4. CASE Wait(t)
  <2>1. /\ pc[t] = "wait" /\ at[s] = "idle" /\ up' = up /\ down' = down \cup {t}
        /\ UNCHANGED <<port, at, arg, m_pServer>>
    BY <1>4 DEF Wait
  <2>2. t \notin up
    BY <2>1 DEF IInv, Working
  <2>3. Calls[t] = None
    BY <2>1 DEF Calls
  <2>4. QED  BY <1>1, <2>1, <2>2, <2>3 DEF Service!Next
<1>5. QED  BY <1>2, <1>3, <1>4 DEF Stopping

\* server_task is Call when accept() has a client, and Return.
LEMMA TaskCalls ==
  ASSUME IInv, OnPort, NEW s \in Server, ServerTask(s)
  PROVE  [Service!Next]_<<Serves, Calls, Quiet>>
<1> DEFINE t == proc[s]
<1> USE DEF server, terminal, history
<1>0. /\ at \in [Server -> {"idle", "enter", "blocked", "call"}]
      /\ arg \in [Server -> Fd \cup Port \cup {NoFd, None}]
      /\ m_pServer \in [Terminal -> Server \cup {None}]
  BY DEF IInv, TypeOK
<1>1. ASSUME NEW from, NEW to, NEW a, Move(s, from, to, a)
      PROVE  /\ at[s] = from
             /\ at' = [at EXCEPT ![s] = to] /\ arg' = [arg EXCEPT ![s] = a]
             /\ Serves' = Serves /\ Quiet' = Quiet
  BY <1>1 DEF Move, Serves, Quiet
<1>2. CASE Task(s) \/ Enter(s) \/ Timeout(s)
  <2>1. PICK from, to, a : Move(s, from, to, a) /\ from # "call" /\ to # "call"
    BY <1>2 DEF Task, Enter, Timeout
  <2>2. Calls' = Calls
    BY <1>0, <1>1, <2>1 DEF Calls, Move
  <2>3. QED  BY <1>1, <2>1, <2>2
<1>3. CASE Accept(s)
  <2>1. Move(s, "blocked", "call", arg[s])
    BY <1>3 DEF Accept
  <2>2. at[s] = "blocked" /\ arg[s] \in Port
    BY <2>1 DEF Move, OnPort
  <2>3. /\ t \in Terminal /\ m_pServer[t] = s /\ t \notin Quiet
        /\ \A u \in Terminal : m_pServer[u] = s => u = t
    BY <2>2, OneTerminal
  <2>4. Calls[t] = None
    BY <2>2, <2>3 DEF Calls
  <2>5. Serves[t] \in {arg[s], None}
    BY <2>2, <2>3 DEF Serves, IInv, Current
  <2>6. Calls' = [Calls EXCEPT ![t] = arg[s]]
    BY <1>0, <2>1, <2>3 DEF Calls, Move
  <2>7. Service!Call(t, arg[s])
    BY <1>1, <2>1, <2>3, <2>4, <2>5, <2>6 DEF Service!Call
  <2>8. QED  BY <2>2, <2>3, <2>7 DEF Service!Next
<1>4. CASE Return(s)
  <2>1. Move(s, "call", "idle", None)
    BY <1>4 DEF Return
  <2>2. /\ t \in Terminal /\ m_pServer[t] = s
        /\ \A u \in Terminal : m_pServer[u] = s => u = t
    BY <2>1, OneTerminal DEF Move
  <2>3. Calls' = [Calls EXCEPT ![t] = None]
    BY <1>0, <2>1, <2>2 DEF Calls, Move
  <2>4. Service!Return(t)
    BY <1>1, <2>1, <2>3 DEF Service!Return
  <2>5. QED  BY <2>2, <2>4 DEF Service!Next
<1>5. QED  BY <1>2, <1>3, <1>4 DEF ServerTask

\* The servers of a process implement PortService for terminals with ports of
\* their own, however many of each there are and however few descriptors.
THEOREM Refinement == ~Sharing /\ Spec => ImplementsService
<1>1. Init => Service!Init
  BY DEF Init, Service!Init, Serves, Calls, Quiet
<1>2. Init => OnPort
  BY DEF Init, OnPort, Free
<1>3. IInv /\ OnPort /\ [Next]_vars => [Service!Next]_<<Serves, Calls, Quiet>>
  <2>1. ASSUME UNCHANGED vars PROVE UNCHANGED <<Serves, Calls, Quiet>>
    BY <2>1 DEF vars, server, acceptor, terminal, history, Serves, Calls, Quiet
  <2>2. QED  BY <2>1, StartServes, StopRests, TaskCalls DEF Next
<1>4. IInv /\ OnPort /\ [Next]_vars => OnPort'
  BY StepOnPort
<1>5. QED
  BY <1>1, <1>2, <1>3, <1>4, Invariance, PTL DEF Spec, ImplementsService, Service!Spec
=============================================================================
