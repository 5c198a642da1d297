--------------------------- MODULE TerminalProof ---------------------------
(***************************************************************************)
(* Theorems of Terminal for every finite set of connections and every Max. *)
(***************************************************************************)
EXTENDS Terminal, FiniteSetTheorems, TLAPS

InTask == {"task", "protocol", "push", "abort"}

\* Where each thread can be.
Places ==
  /\ pc["main"] \in InStop \cup {"idle", "start", "timeout", "port", "run", "gone"}
  /\ pc["acceptor"] \in InTask \cup {"idle", "blocked"}
  /\ pc["manager"] \in {"idle", "lock", "sweep", "erase", "hang", "delay"}

\* Who holds m_mutex, and what it protects.
Locking ==
  /\ mutex = "main" <=> pc["main"] \in {"delete", "hang"}
  /\ mutex = "manager" <=> pc["manager"] \in {"sweep", "erase", "hang"}
  /\ mutex = "acceptor" => pc["acceptor"] = "push"
  /\ mutex # "manager" => todo = {}

\* Every living connection is somebody's: in the list or in the hands of the
\* acceptor or of the manager, never of two of them.
Owned ==
  /\ cur["acceptor"] \in Conn <=> pc["acceptor"] \in InTask
  /\ cur["manager"] \in Conn <=> pc["manager"] \in Deleting
  /\ cur["acceptor"] \notin list /\ cur["manager"] \notin list
  /\ pc["acceptor"] = "task" => conn[cur["acceptor"]] = "accepted"
  /\ pc["acceptor"] \in {"protocol", "abort"} => conn[cur["acceptor"]] = "session"
  /\ pc["acceptor"] = "push" => conn[cur["acceptor"]] = "running"
  /\ pc["manager"] \in Deleting => conn[cur["manager"]] = "running"
  /\ cur["acceptor"] \in Conn => cur["acceptor"] # cur["manager"]
  /\ \A c \in Conn :
       /\ conn[c] \in {"accepted", "session"} => c = cur["acceptor"]
       /\ conn[c] = "running" =>
            c \in list \/ c = cur["acceptor"] \/ c = cur["manager"]
  /\ \A c \in list :
       conn[c] = "running" \/ (mutex = "main" /\ conn[c] = "deleted")

Quiet == "acceptor" \notin running /\ pc["acceptor"] = "idle"

\* How stop() ends the acceptor before it takes the list.
Stopping ==
  /\ pc["main"] = "start" => ~port
  /\ sock = "listening" => port \/ pc["main"] \in {"timeout", "port"}
  /\ sock = "shut" <=> pc["main"] = "clear"
  /\ pc["main"] \in {"haltServer", "wait", "lock", "delete", "hang"} => sock = "none"
  /\ sock # "listening" /\ pc["main"] \notin {"clear", "haltServer", "wait"} => Quiet
  /\ pc["main"] = "wait" => "acceptor" \notin running
  /\ stopped => Quiet /\ list = {} /\ cur["manager"] = NoConn /\ sock # "listening"
  /\ object = "base" => pc["main"] \in InStop \cup {"gone"}
  /\ pc["acceptor"] = "abort" => object = "base"

\* The test of the list's length still holds when the acceptor appends to it.
Room ==
  /\ Cardinality(list) <= Max + 1
  /\ pc["acceptor"] \in {"protocol", "push"} => Cardinality(list) <= Max

IInv == TypeOK /\ Places /\ Locking /\ Owned /\ Stopping /\ Room

----------------------------------------------------------------------------
USE DEF IInv, TypeOK, Places, Locking, Owned, Quiet, Stopping, Room, InTask,
  Thread, Worker, Label, InStop, Stage, Nobody, NoConn, terminal, protocols,
  threads, Goto, Set, Delete, Leave, Deleting

LEMMA InitIInv == Init => IInv
<1> SUFFICES ASSUME Init PROVE IInv
  OBVIOUS
<1> USE TerminalAssumption DEF Init
<1>1. TypeOK
  OBVIOUS
<1>2. Places /\ Locking /\ Owned /\ Stopping
  OBVIOUS
<1>3. Room
  BY FS_EmptySet
<1>4. QED  BY <1>1, <1>2, <1>3

\* The list is finite, so its length is a number.
LEMMA ListIsFinite == ASSUME TypeOK PROVE IsFiniteSet(list) /\ Cardinality(list) \in Nat
BY FS_Subset, FS_CardinalityType, TerminalAssumption

LEMMA ListLength ==
  ASSUME TypeOK, NEW c
  PROVE  /\ Cardinality(list \cup {c}) \in Nat
         /\ Cardinality(list \cup {c}) <= Cardinality(list) + 1
         /\ Cardinality(list \ {c}) \in Nat
         /\ Cardinality(list \ {c}) <= Cardinality(list)
<1>1. IsFiniteSet(list) /\ Cardinality(list) \in Nat
  BY ListIsFinite
<1>2. Cardinality(list \cup {c}) \in {Cardinality(list), Cardinality(list) + 1}
  BY <1>1, FS_AddElement
<1>3. Cardinality(list \ {c}) \in {Cardinality(list), Cardinality(list) - 1}
  BY <1>1, FS_RemoveElement
<1>4. IsFiniteSet(list \ {c})
  BY <1>1, FS_RemoveElement
<1>5. Cardinality(list \ {c}) \in Nat
  BY <1>4, FS_CardinalityType
<1>6. QED  BY <1>1, <1>2, <1>3, <1>5

LEMMA InitStep == ASSUME IInv, InitCall PROVE IInv'
<1>1. CASE InitCreate
  BY <1>1, TerminalAssumption DEF InitCreate
<1>2. CASE InitStart
  BY <1>2, TerminalAssumption DEF InitStart
<1>3. CASE InitFail
  BY <1>3, TerminalAssumption DEF InitFail
<1>4. CASE InitTimeout
  BY <1>4, TerminalAssumption DEF InitTimeout
<1>5. CASE InitPort
  BY <1>5, TerminalAssumption DEF InitPort
<1>6. CASE InitRun
  BY <1>6, TerminalAssumption DEF InitRun
<1>7. QED
  BY <1>1, <1>2, <1>3, <1>4, <1>5, <1>6 DEF InitCall

LEMMA StopStep == ASSUME IInv, StopCall PROVE IInv'
<1>1. CASE StopManager
  BY <1>1, TerminalAssumption DEF StopManager
<1>2. CASE StopIsRun
  BY <1>2, TerminalAssumption DEF StopIsRun
<1>3. CASE ServerClose
  BY <1>3, TerminalAssumption DEF ServerClose
<1>4. CASE ServerClear
  BY <1>4, TerminalAssumption DEF ServerClear
<1>5. CASE ServerHalt
  BY <1>5, TerminalAssumption DEF ServerHalt
<1>6. CASE ServerWait
  BY <1>6, TerminalAssumption DEF ServerWait
<1>7. CASE StopLock
  BY <1>7, TerminalAssumption DEF StopLock
<1>8. ASSUME NEW c \in Conn, StopDelete(c) PROVE IInv'
  BY <1>8, TerminalAssumption DEF StopDelete
<1>9. CASE StopHang
  BY <1>9, TerminalAssumption DEF StopHang
<1>10. CASE StopClear
  <2>1. (TypeOK /\ Places /\ Locking /\ Owned /\ Stopping)'
    BY <1>10, TerminalAssumption DEF StopClear
  <2>2. Room'
    BY <1>10, FS_EmptySet, TerminalAssumption DEF StopClear
  <2>3. QED  BY <2>1, <2>2
<1>11. QED
  BY <1>1, <1>2, <1>3, <1>4, <1>5, <1>6, <1>7, <1>8, <1>9, <1>10 DEF StopCall

LEMMA TaskStep == ASSUME IInv, Task PROVE IInv'
<1>1. CASE TaskRefuse
  BY <1>1, TerminalAssumption DEF TaskRefuse
<1>2. CASE TaskSession
  <2>1. (TypeOK /\ Places /\ Locking /\ Owned /\ Stopping)'
    BY <1>2, TerminalAssumption DEF TaskSession
  <2>2. Cardinality(list) <= Max
    BY <1>2, ListIsFinite, TerminalAssumption DEF TaskSession, Full
  <2>3. Room'
    BY <1>2, <2>2, TerminalAssumption DEF TaskSession
  <2>4. QED  BY <2>1, <2>3
<1>3. CASE TaskProtocol
  BY <1>3, TerminalAssumption DEF TaskProtocol
<1>4. CASE TaskLock
  BY <1>4, TerminalAssumption DEF TaskLock
<1>5. CASE TaskPush
  <2>1. TypeOK' /\ Places' /\ Locking'
    BY <1>5, TerminalAssumption DEF TaskPush
  <2>2. Owned' /\ Stopping'
    BY <1>5, TerminalAssumption DEF TaskPush
  <2>3. Cardinality(list') \in Nat /\ Cardinality(list') <= Cardinality(list) + 1
    BY <1>5, ListLength DEF TaskPush
  <2>4. Room'
    BY <1>5, <2>3, ListIsFinite, TerminalAssumption DEF TaskPush
  <2>5. QED  BY <2>1, <2>2, <2>4
<1>6. QED
  BY <1>1, <1>2, <1>3, <1>4, <1>5 DEF Task

LEMMA AcceptorStep == ASSUME IInv, Acceptor PROVE IInv'
<1>1. CASE AcceptCall
  BY <1>1, TerminalAssumption DEF AcceptCall
<1>2. CASE AcceptTimeout
  BY <1>2, TerminalAssumption DEF AcceptTimeout
<1>3. ASSUME NEW c \in Conn, Accept(c) PROVE IInv'
  BY <1>3, TerminalAssumption DEF Accept
<1>4. QED
  BY <1>1, <1>2, <1>3, TaskStep DEF Acceptor

LEMMA ManagerStep == ASSUME IInv, Manager PROVE IInv'
<1>1. CASE ManagerTask
  BY <1>1, TerminalAssumption DEF ManagerTask
<1>2. CASE ManagerLock
  BY <1>2, TerminalAssumption DEF ManagerLock
<1>3. ASSUME NEW c \in Conn, ManagerKeep(c) PROVE IInv'
  BY <1>3, TerminalAssumption DEF ManagerKeep
<1>4. ASSUME NEW c \in Conn, ManagerErase(c) PROVE IInv'
  <2>1. (TypeOK /\ Places /\ Locking /\ Owned /\ Stopping)'
    BY <1>4, TerminalAssumption DEF ManagerErase
  <2>2. Cardinality(list') \in Nat /\ Cardinality(list') <= Cardinality(list)
    BY <1>4, ListLength DEF ManagerErase
  <2>3. Room'
    BY <1>4, <2>2, ListIsFinite, TerminalAssumption DEF ManagerErase
  <2>4. QED  BY <2>1, <2>3
<1>5. CASE ManagerDelete
  BY <1>5, TerminalAssumption DEF ManagerDelete
<1>6. CASE ManagerUnlock
  BY <1>6, TerminalAssumption DEF ManagerUnlock
<1>7. CASE ManagerDelay
  BY <1>7, TerminalAssumption DEF ManagerDelay
<1>8. QED
  BY <1>1, <1>2, <1>3, <1>4, <1>5, <1>6, <1>7 DEF Manager

LEMMA TurnStep == ASSUME IInv, NEW c \in Conn, Turn(c) PROVE IInv'
BY TerminalAssumption DEF Turn

LEMMA StepIInv == IInv /\ [Next]_vars => IInv'
<1> SUFFICES ASSUME IInv, [Next]_vars PROVE IInv'
  OBVIOUS
<1>1. CASE UNCHANGED vars
  BY <1>1 DEF vars
<1>2. CASE Stop
  BY <1>2, TerminalAssumption DEF Stop
<1>3. CASE Next /\ ~Stop
  <2> HIDE DEF IInv
  <2> QED
    BY <1>3, InitStep, StopStep, AcceptorStep, ManagerStep, TurnStep DEF Next
<1>4. QED  BY <1>1, <1>2, <1>3

----------------------------------------------------------------------------
\* The invariant of the argument holds for every set of connections and every
\* m_maxSession.
THEOREM Invariance == Spec => []IInv
<1> HIDE DEF IInv
<1> QED  BY InitIInv, StepIInv, PTL DEF Spec

\* Every variable keeps its type.
THEOREM Typing == Spec => []TypeOK
BY Invariance, PTL DEF IInv

\* ITerminal::stop() returns with no connection alive, none in the list and
\* none to come: the acceptor is gone before the list is taken, and what the
\* manager has taken out of the list it deletes under m_mutex.
THEOREM NothingLeft == Spec => []StopLeavesNothing
<1>1. IInv => StopLeavesNothing
  BY DEF StopLeavesNothing, Alive
<1> HIDE DEF IInv
<1>2. QED  BY <1>1, Invariance, PTL

\* Whoever holds m_mutex, save main in stop(), finds only living protocols in
\* the list.
THEOREM Living == Spec => []NoDangling
<1>1. IInv => NoDangling
  BY DEF NoDangling
<1> HIDE DEF IInv
<1>2. QED  BY <1>1, Invariance, PTL

\* The list never has more than m_maxSession + 1 protocols, though its length
\* is read without m_mutex and long before serverTask appends.
THEOREM Bounded == Spec => []ListBound
<1>1. IInv => ListBound
  BY DEF ListBound
<1> HIDE DEF IInv
<1>2. QED  BY <1>1, Invariance, PTL

\* serverTask calls createProtocol() pure only under ~ITerminal.
THEOREM PureOnlyInDestructor == Spec => []PureOnlyUnstopped
<1>1. IInv => PureOnlyUnstopped
  BY DEF PureOnlyUnstopped
<1> HIDE DEF IInv
<1>2. QED  BY <1>1, Invariance, PTL

----------------------------------------------------------------------------
(* Who waits for whom.                                                     *)

\* stop() waits for the server_task in progress, or for m_mutex; the acceptor
\* waits for m_mutex in serverTask, the manager in managerTask.
WaitsFor(t, u) ==
  \/ t = "main" /\ u = "acceptor" /\ pc[t] = "wait" /\ pc[u] # "idle"
  \/ /\ mutex = u /\ u # t
     /\ \/ t \in {"main", "manager"} /\ pc[t] = "lock"
        \/ t = "acceptor" /\ pc[t] = "push"

\* The three threads never wait for each other in a circle, nor is there a chain
\* longer than stop(), the acceptor it waits for, and the manager that holds
\* m_mutex while it deletes a session: who holds m_mutex waits for no thread.
NoCircularWait ==
  \A t, u, v, w \in Thread : ~ (WaitsFor(t, u) /\ WaitsFor(u, v) /\ WaitsFor(v, w))

\* stop() and managerTask never lock each other out, though stop() waits for the
\* acceptor and the acceptor for the manager.
THEOREM NobodyIsLockedOut == Spec => []NoCircularWait
<1>1. IInv => NoCircularWait
  <2> SUFFICES ASSUME IInv, NEW t \in Thread, NEW u \in Thread, NEW v \in Thread,
                      NEW w \in Thread,
                      WaitsFor(t, u), WaitsFor(u, v), WaitsFor(v, w)
               PROVE  FALSE
    BY DEF NoCircularWait
  <2>1. \A x, y \in Thread : ~ (mutex = x /\ WaitsFor(x, y))
    BY DEF WaitsFor
  <2>2. mutex # u /\ mutex # v
    BY <2>1
  <2>3. t = "main" /\ u = "acceptor" /\ u = "main"
    BY <2>2 DEF WaitsFor
  <2>4. QED  BY <2>3
<1> HIDE DEF IInv
<1>2. QED  BY <1>1, Invariance, PTL

----------------------------------------------------------------------------
(* Terminal implements Pool.                                               *)

poolVars == <<~stopped, place>>

LEMMA SamePool ==
  ASSUME stopped' = stopped,
         \A c \in Conn : conn'[c] = conn[c]
  PROVE  UNCHANGED poolVars
BY DEF poolVars, place

\* The step of one connection that leaves the pool's doors alone.
LEMMA MovePool ==
  ASSUME NEW c \in Conn, NEW from, NEW to, place[c] = from,
         place'[c] = to, stopped' = stopped,
         \A d \in Conn \ {c} : conn'[d] = conn[d]
  PROVE  Pool!Move(c, from, to)
<1>1. place' = [place EXCEPT ![c] = to]
  BY DEF place
<1>2. QED  BY <1>1 DEF Pool!Move

\* Pool brings its own copy of Cardinality, which is the same.
LEMMA SameCardinality == ASSUME NEW S PROVE Pool!Cardinality(S) = Cardinality(S)
BY Zenon DEF Cardinality, Pool!Cardinality

LEMMA ServedAreFew ==
  ASSUME IInv, pc["acceptor"] = "task", Cardinality(list) <= Max
  PROVE  Cardinality(Pool!Served) < Max + 2
<1>1. Pool!Served \subseteq list \cup {cur["manager"]}
  <2>1. ASSUME NEW c \in Conn, place[c] = "served"
        PROVE  c \in list \cup {cur["manager"]}
    <3>1. conn[c] \in {"session", "running"}
      BY <2>1 DEF place
    <3>2. QED  BY <3>1
  <2>2. QED  BY <2>1 DEF Pool!Served
<1>2. IsFiniteSet(list \cup {cur["manager"]})
  BY ListIsFinite, FS_AddElement
<1>3. Cardinality(Pool!Served) <= Cardinality(list \cup {cur["manager"]})
  BY <1>1, <1>2, FS_Subset
<1>4. Cardinality(Pool!Served) \in Nat
  BY <1>1, <1>2, FS_Subset, FS_CardinalityType
<1>5. /\ Cardinality(list \cup {cur["manager"]}) \in Nat
      /\ Cardinality(list \cup {cur["manager"]}) <= Cardinality(list) + 1
  BY ListLength
<1>6. Cardinality(list) \in Nat
  BY ListIsFinite
<1> HIDE DEF IInv
<1>7. QED
  BY <1>3, <1>4, <1>5, <1>6, TerminalAssumption

LEMMA StopPool == ASSUME IInv, StopCall PROVE [Pool!Next]_poolVars
<1>1. CASE StopManager \/ StopIsRun \/ ServerClose \/ ServerClear \/ ServerHalt
           \/ ServerWait \/ StopLock \/ StopHang
  BY <1>1, SamePool DEF StopManager, StopIsRun, ServerClose, ServerClear,
     ServerHalt, ServerWait, StopLock, StopHang
<1>2. ASSUME NEW c \in Conn, StopDelete(c) PROVE Pool!Next
  <2>1. place[c] = "served" /\ place'[c] = "gone"
    BY <1>2 DEF StopDelete, place
  <2>2. Pool!Move(c, "served", "gone")
    BY <1>2, <2>1, MovePool DEF StopDelete
  <2>3. QED  BY <2>2 DEF Pool!Next, Pool!End
<1>3. CASE StopClear
  <2>1. \A c \in Conn : conn[c] \notin {"session", "running"}
    BY <1>3, TerminalAssumption DEF StopClear
  <2>2. Pool!Served = {}
    BY <2>1 DEF Pool!Served, place
  <2>3. place' = place /\ (~stopped)' = FALSE
    BY <1>3 DEF StopClear, place
  <2>4. QED  BY <2>2, <2>3 DEF Pool!Next, Pool!Shut
<1>4. QED  BY <1>1, <1>2, <1>3 DEF StopCall

LEMMA AcceptorPool == ASSUME IInv, Acceptor PROVE [Pool!Next]_poolVars
<1>1. CASE AcceptCall \/ AcceptTimeout \/ TaskLock \/ TaskPush
  <2>1. conn' = conn /\ stopped' = stopped
    BY <1>1 DEF AcceptCall, AcceptTimeout, TaskLock, TaskPush
  <2>2. QED  BY <2>1, SamePool
<1>2. ASSUME NEW c \in Conn, Accept(c) PROVE UNCHANGED poolVars
  BY <1>2 DEF Accept, poolVars, place
<1>3. CASE TaskRefuse
  <2> DEFINE c == cur["acceptor"]
  <2>1. c \in Conn /\ place[c] = "away" /\ place'[c] = "gone"
    BY <1>3 DEF TaskRefuse, place
  <2>2. Pool!Move(c, "away", "gone")
    BY <1>3, <2>1, MovePool DEF TaskRefuse
  <2>3. QED  BY <2>1, <2>2 DEF Pool!Next, Pool!Refuse
<1>4. CASE TaskSession
  <2> DEFINE c == cur["acceptor"]
  <2>1. c \in Conn /\ place[c] = "away" /\ place'[c] = "served"
    BY <1>4 DEF TaskSession, place
  <2>2. Pool!Move(c, "away", "served")
    BY <1>4, <2>1, MovePool DEF TaskSession
  <2>3. Cardinality(list) <= Max
    BY <1>4, ListIsFinite, TerminalAssumption DEF TaskSession, Full
  <2>4. Cardinality(Pool!Served) < Max + 2
    BY <1>4, <2>3, ServedAreFew DEF TaskSession
  <2>5. ~stopped
    BY <1>4 DEF TaskSession
  <2>6. Pool!Serve(c)
    BY <2>2, <2>4, <2>5, SameCardinality DEF Pool!Serve
  <2>7. QED  BY <2>1, <2>6 DEF Pool!Next
<1>5. CASE TaskProtocol
  BY <1>5 DEF TaskProtocol, poolVars, place
<1>6. QED  BY <1>1, <1>2, <1>3, <1>4, <1>5 DEF Acceptor, Task

LEMMA ManagerPool == ASSUME IInv, Manager PROVE [Pool!Next]_poolVars
<1>1. CASE ManagerTask \/ ManagerLock \/ ManagerUnlock \/ ManagerDelay
           \/ \E c \in Conn : ManagerKeep(c) \/ ManagerErase(c)
  BY <1>1, SamePool DEF ManagerTask, ManagerLock, ManagerUnlock, ManagerDelay,
     ManagerKeep, ManagerErase
<1>2. CASE ManagerDelete
  <2> DEFINE c == cur["manager"]
  <2>1. c \in Conn /\ place[c] = "served" /\ place'[c] = "gone"
    BY <1>2 DEF ManagerDelete, place
  <2>2. Pool!Move(c, "served", "gone")
    BY <1>2, <2>1, MovePool DEF ManagerDelete
  <2>3. QED  BY <2>1, <2>2 DEF Pool!Next, Pool!End
<1>3. QED  BY <1>1, <1>2 DEF Manager

LEMMA StepPool == IInv /\ [Next]_vars => [Pool!Next]_poolVars
<1> SUFFICES ASSUME IInv, [Next]_vars PROVE [Pool!Next]_poolVars
  OBVIOUS
<1>1. CASE UNCHANGED vars
  BY <1>1, SamePool DEF vars
<1>2. CASE InitStart
  <2>1. place' = place /\ (~stopped)' = TRUE
    BY <1>2 DEF InitStart, place
  <2>2. QED  BY <2>1 DEF Pool!Next, Pool!Open
<1>3. CASE Stop \/ (InitCall /\ ~InitStart) \/ \E c \in Conn : Turn(c)
  BY <1>3, SamePool DEF Stop, InitCall, InitCreate, InitFail, InitTimeout,
     InitPort, InitRun, Turn
<1>4. CASE StopCall \/ Acceptor \/ Manager
  <2> HIDE DEF IInv
  <2> QED  BY <1>4, StopPool, AcceptorPool, ManagerPool
<1>5. QED  BY <1>1, <1>2, <1>3, <1>4 DEF Next

\* The terminal is a pool of Max + 2: a client is served once and not after
\* stop(), and never more at a time than the list holds and managerTask deletes.
THEOREM Refinement == Spec => ImplementsPool
<1>1. Init => Pool!Init
  BY DEF Init, Pool!Init, place
<1> HIDE DEF IInv
<1>2. QED
  BY <1>1, Invariance, StepPool, PTL DEF Spec, ImplementsPool, Pool!Spec, poolVars

----------------------------------------------------------------------------
\* init() stores the timeout before the port, and nothing takes it back.
TimeoutFirst == port \/ pc["main"] = "port" => timeout

\* What is true of a step that makes a session.
Timed == \A c \in Conn : port /\ conn[c] = "accepted" /\ conn'[c] = "session"
  => c \in timed'

LEMMA StepTimeoutFirst == IInv /\ TimeoutFirst /\ [Next]_vars => TimeoutFirst'
<1> SUFFICES ASSUME IInv, TimeoutFirst, [Next]_vars PROVE TimeoutFirst'
  OBVIOUS
<1> USE DEF TimeoutFirst
<1>1. CASE UNCHANGED vars
  BY <1>1 DEF vars
<1>2. CASE InitCall
  BY <1>2 DEF InitCall, InitCreate, InitStart, InitFail, InitTimeout, InitPort,
     InitRun
<1>3. CASE Stop
  BY <1>3 DEF Stop
<1>4. CASE StopCall
  BY <1>4 DEF StopCall, StopManager, StopIsRun, ServerClose, ServerClear,
     ServerHalt, ServerWait, StopLock, StopDelete, StopHang, StopClear
<1>5. CASE Acceptor
  BY <1>5 DEF Acceptor, AcceptCall, AcceptTimeout, Accept, Task, TaskRefuse,
     TaskSession, TaskProtocol, TaskLock, TaskPush
<1>6. CASE Manager
  BY <1>6 DEF Manager, ManagerTask, ManagerLock, ManagerKeep, ManagerErase,
     ManagerDelete, ManagerUnlock, ManagerDelay
<1>7. CASE \E c \in Conn : Turn(c)
  BY <1>7 DEF Turn
<1>8. QED  BY <1>1, <1>2, <1>3, <1>4, <1>5, <1>6, <1>7 DEF Next

LEMMA StepTimed == IInv /\ TimeoutFirst /\ [Next]_vars => [Timed]_vars
<1> SUFFICES ASSUME IInv, TimeoutFirst, Next,
                    NEW c \in Conn, port, conn[c] = "accepted",
                    conn'[c] = "session"
             PROVE  c \in timed'
  BY DEF Timed
<1>1. CASE TaskSession
  <2>1. c = cur["acceptor"]
    OBVIOUS
  <2>2. timeout
    BY DEF TimeoutFirst
  <2>3. QED  BY <1>1, <2>1, <2>2 DEF TaskSession
<1>2. CASE InitCall
  BY <1>2 DEF InitCall, InitCreate, InitStart, InitFail, InitTimeout, InitPort,
     InitRun
<1>3. CASE Stop
  BY <1>3 DEF Stop
<1>4. CASE StopCall
  BY <1>4 DEF StopCall, StopManager, StopIsRun, ServerClose, ServerClear,
     ServerHalt, ServerWait, StopLock, StopDelete, StopHang, StopClear
<1>5. CASE Acceptor /\ ~TaskSession
  <2>1. CASE AcceptCall \/ AcceptTimeout
    BY <2>1 DEF AcceptCall, AcceptTimeout
  <2>2. ASSUME NEW d \in Conn, Accept(d) PROVE FALSE
    BY <2>2 DEF Accept
  <2>3. CASE TaskRefuse
    BY <2>3 DEF TaskRefuse
  <2>4. CASE TaskProtocol
    BY <2>4 DEF TaskProtocol
  <2>5. CASE TaskLock \/ TaskPush
    BY <2>5 DEF TaskLock, TaskPush
  <2>6. QED
    BY <1>5, <2>1, <2>2, <2>3, <2>4, <2>5 DEF Acceptor, Task
<1>6. CASE Manager
  <2>1. CASE ManagerDelete
    BY <2>1 DEF ManagerDelete
  <2>2. CASE Manager /\ ~ManagerDelete
    <3>1. conn' = conn
      BY <2>2 DEF Manager, ManagerTask, ManagerLock, ManagerKeep, ManagerErase,
         ManagerUnlock, ManagerDelay
    <3>2. QED  BY <3>1
  <2>3. QED  BY <1>6, <2>1, <2>2
<1>7. CASE \E d \in Conn : Turn(d)
  BY <1>7 DEF Turn
<1>8. QED  BY <1>1, <1>2, <1>3, <1>4, <1>5, <1>6, <1>7 DEF Next

\* Once init() has set m_port no session is made without the timeout, whatever
\* the acceptor and the program do meanwhile.
THEOREM SessionsAreTimed == Spec => TimedSincePort
<1>1. Init => TimeoutFirst
  BY DEF Init, TimeoutFirst
<1> HIDE DEF IInv
<1>2. QED
  BY <1>1, Invariance, StepTimeoutFirst, StepTimed, PTL
     DEF Spec, TimedSincePort, Timed
=============================================================================
