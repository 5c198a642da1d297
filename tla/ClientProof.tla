---------------------------- MODULE ClientProof ----------------------------
(***************************************************************************)
(* Theorems of Client.                                                     *)
(***************************************************************************)
EXTENDS Client, TLAPS

\* Where each thread can be.
Places ==
  /\ pc["main"] \in InClose \cup
       {"idle", "isAttach", "run", "setConnect", "send", "sendOwn", "sendOther",
        "reading", "astray", "gone"}
  /\ pc["receiver"] \in InClose \cup
       {"idle", "task", "waiting", "dispatch", "enter", "callback",
        "send", "sendOwn", "sendOther", "astray", "wild"}

\* A TCP client connects once, and until it has there is no thread whose
\* callback could close it; later connect() runs the thread no more.
ConnectsOnce ==
  type = emTCPClient =>
    /\ ~isConnect /\ pc["main"] # "setConnect" =>
         ~running /\ pc["receiver"] = "idle"
    /\ pc["main"] \in {"isAttach", "run"} => ~isConnect
    /\ pc["main"] = "run" => attached

\* close() stops the thread before it unbinds the callback.
HaltsFirst ==
  type = emTCPClient => \A t \in Thread : pc[t] = "unbind" => ~running

\* The thread of a TCP client runs only while there is a callback for it.
RunsAttached == type = emTCPClient /\ running => attached

IInv == TypeOK /\ Places /\ ConnectsOnce /\ HaltsFirst /\ RunsAttached

----------------------------------------------------------------------------
USE DEF IInv, TypeOK, Places, ConnectsOnce, HaltsFirst, RunsAttached, Thread,
  Label, InClose, Home, Goto, Calls, Denoted, client, thread, socket,
  emTCPClient, emUDPClient, FD, NoFd, InSend

LEMMA InitIInv == Init => IInv
BY DEF Init

\* init(), attach() and connect().
LEMMA StepMain ==
  ASSUME IInv, InitCall \/ Attach \/ Connect \/ Connecting PROVE IInv'
<1>1. CASE InitCall
  BY <1>1 DEF InitCall
<1>2. CASE Attach
  BY <1>2 DEF Attach
<1>3. CASE TcpConnect
  BY <1>3 DEF TcpConnect
<1>4. CASE UdpConnect
  BY <1>4 DEF UdpConnect
<1>5. CASE ConnectIsAttach
  BY <1>5 DEF ConnectIsAttach
<1>6. CASE ConnectRun
  BY <1>6 DEF ConnectRun
<1>7. CASE ConnectSet
  BY <1>7 DEF ConnectSet
<1>8. QED
  BY <1>1, <1>2, <1>3, <1>4, <1>5, <1>6, <1>7 DEF Connect, Connecting

\* send() and close(), which both threads may be in.
LEMMA StepBoth ==
  ASSUME IInv, NEW t \in Thread,
         SendCall(t) \/ Sending(t) \/ SendEnd(t) \/ CloseCall(t) \/ Closing(t)
  PROVE  IInv'
<1>1. CASE SendCall(t)
  BY <1>1 DEF SendCall
<1>2. CASE SendDone(t)
  BY <1>2 DEF SendDone
<1>3. CASE SendFail(t)
  BY <1>3 DEF SendFail
<1>4. CASE CloseCall(t)
  BY <1>4 DEF CloseCall
<1>5. CASE CloseHalt(t)
  <2>1. running' \in BOOLEAN /\ (running' => running /\ ~attached)
    BY <1>5, Zenon DEF CloseHalt
  <2>2. type = emTCPClient => ~running'
    BY <2>1
  <2>3. TypeOK' /\ Places'
    BY <1>5, <2>1 DEF CloseHalt
  <2>4. ConnectsOnce' /\ HaltsFirst' /\ RunsAttached'
    BY <1>5, <2>1, <2>2 DEF CloseHalt
  <2>5. QED  BY <2>3, <2>4
<1>6. CASE CloseUnbind(t)
  <2>1. attached' \in BOOLEAN
    BY <1>6, Zenon DEF CloseUnbind
  <2>2. type = emTCPClient => ~running
    BY <1>6 DEF CloseUnbind
  <2>3. TypeOK' /\ Places'
    BY <1>6, <2>1 DEF CloseUnbind
  <2>4. ConnectsOnce' /\ HaltsFirst' /\ RunsAttached'
    BY <1>6, <2>1, <2>2 DEF CloseUnbind
  <2>5. QED  BY <2>3, <2>4
<1>7. CASE CloseFd(t)
  BY <1>7 DEF CloseFd
<1>8. CASE SendStart(t)
  BY <1>8 DEF SendStart
<1>9. CASE SendMore(t)
  BY <1>9 DEF SendMore
<1>10. QED
  BY <1>1, <1>2, <1>3, <1>4, <1>5, <1>6, <1>7, <1>8, <1>9
     DEF Sending, SendEnd, SendTimeout, Closing

\* recv() and the destructor.
LEMMA StepRest ==
  ASSUME IInv, RecvCall \/ RecvData \/ RecvNothing \/ Delete PROVE IInv'
<1>1. CASE RecvCall
  BY <1>1 DEF RecvCall
<1>2. CASE RecvData
  <2>1. inbox' \in BOOLEAN
    BY <1>2, Zenon DEF RecvData
  <2>2. UNCHANGED <<client, thread, desc, timed, linked, closed>>
    BY <1>2 DEF RecvData
  <2>3. QED  BY <1>2, <2>1, <2>2 DEF RecvData
<1>3. CASE RecvNothing
  BY <1>3 DEF RecvNothing
<1>4. CASE Delete
  BY <1>4 DEF Delete
<1>5. QED  BY <1>1, <1>2, <1>3, <1>4

\* recv_task.
LEMMA StepReceiver ==
  ASSUME IInv, Receive \/ TaskEnd \/ TaskAstray \/ CallbackReturn \/ Wild
  PROVE  IInv'
<1>1. CASE Task
  BY <1>1 DEF Task
<1>2. CASE TaskRecv
  BY <1>2 DEF TaskRecv
<1>3. CASE TaskData
  <2>1. inbox' \in BOOLEAN
    BY <1>3, Zenon DEF TaskData
  <2>2. UNCHANGED <<client, thread, desc, timed, linked, closed>>
    BY <1>3 DEF TaskData
  <2>3. QED  BY <1>3, <2>1, <2>2 DEF TaskData
<1>4. CASE TaskTimeout
  BY <1>4 DEF TaskTimeout
<1>5. CASE Dispatch
  BY <1>5 DEF Dispatch
<1>6. CASE TaskEnd
  BY <1>6 DEF TaskEnd
<1>7. CASE TaskAstray
  BY <1>7 DEF TaskAstray
<1>8. CASE CallbackReturn
  BY <1>8 DEF CallbackReturn
<1>9. CASE Wild
  BY <1>9 DEF Wild
<1>10. CASE Enter
  BY <1>10 DEF Enter
<1>11. QED
  BY <1>1, <1>2, <1>3, <1>4, <1>5, <1>6, <1>7, <1>8, <1>9, <1>10 DEF Receive

LEMMA StepOthers ==
  ASSUME IInv, Arrive \/ Reuse \/ OtherClose \/ UNCHANGED vars PROVE IInv'
<1>1. CASE Arrive
  BY <1>1 DEF Arrive
<1>2. CASE Reuse
  BY <1>2 DEF Reuse
<1>3. CASE OtherClose
  BY <1>3 DEF OtherClose
<1>4. CASE UNCHANGED vars
  BY <1>4 DEF vars
<1>5. QED  BY <1>1, <1>2, <1>3, <1>4

----------------------------------------------------------------------------
\* The invariant of the argument.
THEOREM Invariance == Spec => []IInv
<1> HIDE DEF IInv
<1>1. IInv /\ [Next]_vars => IInv'
  BY StepMain, StepBoth, StepRest, StepReceiver, StepOthers DEF Next
<1>2. QED  BY <1>1, InitIInv, PTL DEF Spec

\* Every variable of a client keeps its type.
THEOREM Typing == Spec => []TypeOK
BY Invariance, PTL DEF IInv

\* The thread of a TCP client runs only while there is a callback for it,
\* though the callback and the program may be in close() at once, and the one
\* may close while the other is still in connect().
THEOREM Attached == Spec => []RunsAttached
<1>1. IInv => RunsAttached
  OBVIOUS
<1> HIDE DEF IInv, RunsAttached
<1>2. QED  BY <1>1, Invariance, PTL

----------------------------------------------------------------------------
(* What close() ends.                                                      *)

\* m_sockfd denotes a socket of init()'s until a close() has returned, and
\* something else from then on.
Known ==
  /\ desc = "none" <=> sockfd = NoFd
  /\ closed <=> desc \in {"free", "other"}

\* Only a client with a socket sends or closes, which attach() refuses.
UsesFd ==
  \A t \in Thread :
    pc[t] \in InClose \cup {"send", "sendOwn", "sendOther"} => sockfd = FD

\* The callback is unbound before the socket is closed, for good.
Unbound ==
  /\ \A t \in Thread : pc[t] = "closeFd" => ~attached
  /\ closed => ~attached

\* recv() is refused to a client with a callback, which gets no other one.
ReadsAlone == pc["main"] = "reading" => ~attached /\ sockfd = FD

\* A client without a callback has no thread, before the first close() and
\* until one of them is about to close the socket.
NoThread ==
  ~attached /\ ~closed =>
    \/ ~running /\ pc["receiver"] = "idle" /\ pc["main"] # "run"
    \/ pc["main"] \in {"closeFd", "gone"}
    \/ pc["receiver"] = "closeFd"

\* The program calls nothing after delete.
Deleted == object = "gone" <=> pc["main"] = "gone"

CInv ==
  Known /\ UsesFd /\ Unbound /\ ReadsAlone /\ NoThread /\ Deleted /\ OneReader

USE DEF CInv, Known, UsesFd, Unbound, ReadsAlone, NoThread, Deleted, OneReader

LEMMA InitCInv == Init => CInv
BY DEF Init

\* init(), attach() and connect().
LEMMA CloseMain ==
  ASSUME IInv, CInv, InitCall \/ Attach \/ Connect \/ Connecting
  PROVE  CInv'
<1>1. CASE InitCall
  BY <1>1 DEF InitCall
<1>2. CASE Attach
  BY <1>2 DEF Attach
<1>3. CASE TcpConnect
  BY <1>3 DEF TcpConnect
<1>4. CASE UdpConnect
  BY <1>4 DEF UdpConnect
<1>5. CASE ConnectIsAttach
  BY <1>5 DEF ConnectIsAttach
<1>6. CASE ConnectRun
  BY <1>6 DEF ConnectRun
<1>7. CASE ConnectSet
  BY <1>7 DEF ConnectSet
<1>8. QED
  BY <1>1, <1>2, <1>3, <1>4, <1>5, <1>6, <1>7 DEF Connect, Connecting

\* send() and close(), which both threads may be in.
LEMMA CloseBoth ==
  ASSUME IInv, CInv, NEW t \in Thread,
         SendCall(t) \/ Sending(t) \/ SendEnd(t) \/ CloseCall(t) \/ Closing(t)
  PROVE  CInv'
<1>1. CASE SendCall(t)
  BY <1>1 DEF SendCall
<1>2. CASE SendDone(t)
  BY <1>2 DEF SendDone
<1>3. CASE SendFail(t)
  BY <1>3 DEF SendFail
<1>4. CASE CloseCall(t)
  BY <1>4 DEF CloseCall
<1>5. CASE CloseHalt(t)
  BY <1>5 DEF CloseHalt
<1>6. CASE CloseUnbind(t)
  BY <1>6 DEF CloseUnbind
<1>7. CASE CloseFd(t)
  BY <1>7 DEF CloseFd
<1>8. CASE SendStart(t)
  BY <1>8 DEF SendStart
<1>9. CASE SendMore(t)
  BY <1>9 DEF SendMore
<1>10. QED
  BY <1>1, <1>2, <1>3, <1>4, <1>5, <1>6, <1>7, <1>8, <1>9
     DEF Sending, SendEnd, SendTimeout, Closing

\* recv() and the destructor.
LEMMA CloseRest ==
  ASSUME IInv, CInv, RecvCall \/ RecvData \/ RecvNothing \/ Delete
  PROVE  CInv'
<1>1. CASE RecvCall
  BY <1>1 DEF RecvCall
<1>2. CASE RecvData
  BY <1>2 DEF RecvData
<1>3. CASE RecvNothing
  BY <1>3 DEF RecvNothing
<1>4. CASE Delete
  BY <1>4 DEF Delete
<1>5. QED
  BY <1>1, <1>2, <1>3, <1>4

\* recv_task.
LEMMA CloseReceiver ==
  ASSUME IInv, CInv, Receive \/ TaskEnd \/ TaskAstray \/ CallbackReturn \/ Wild
  PROVE  CInv'
<1>1. CASE Task
  BY <1>1 DEF Task
<1>2. CASE TaskRecv
  BY <1>2 DEF TaskRecv
<1>3. CASE TaskData
  BY <1>3 DEF TaskData
<1>4. CASE TaskTimeout
  BY <1>4 DEF TaskTimeout
<1>5. CASE Dispatch
  BY <1>5 DEF Dispatch
<1>6. CASE TaskEnd
  BY <1>6 DEF TaskEnd
<1>7. CASE TaskAstray
  BY <1>7 DEF TaskAstray
<1>8. CASE CallbackReturn
  BY <1>8 DEF CallbackReturn
<1>9. CASE Wild
  BY <1>9 DEF Wild
<1>10. CASE Enter
  BY <1>10 DEF Enter
<1>11. QED
  BY <1>1, <1>2, <1>3, <1>4, <1>5, <1>6, <1>7, <1>8, <1>9, <1>10 DEF Receive

\* The peer and the rest of the process.
LEMMA CloseOthers ==
  ASSUME IInv, CInv, Arrive \/ Reuse \/ OtherClose \/ UNCHANGED vars
  PROVE  CInv'
<1>1. CASE Arrive
  BY <1>1 DEF Arrive
<1>2. CASE Reuse
  BY <1>2 DEF Reuse
<1>3. CASE OtherClose
  BY <1>3 DEF OtherClose
<1>4. CASE UNCHANGED vars
  BY <1>4 DEF vars
<1>5. QED
  BY <1>1, <1>2, <1>3, <1>4

----------------------------------------------------------------------------
\* The invariant of the argument.
THEOREM CloseInvariance == Spec => []CInv
<1> HIDE DEF IInv, CInv
<1>1. IInv /\ CInv /\ [Next]_vars => CInv'
  BY CloseMain, CloseBoth, CloseRest, CloseReceiver, CloseOthers DEF Next
<1>2. QED  BY <1>1, InitCInv, Invariance, PTL DEF Spec

\* recv() and recv_task are never on the socket at once, though close() waits
\* for neither, the callback may close under recv(), and connect() may run the
\* thread of a UDP client again and again.
THEOREM OneReaderAtATime == Spec => []OneReader
<1>1. CInv => OneReader
  OBVIOUS
<1> HIDE DEF CInv, OneReader
<1>2. QED  BY <1>1, CloseInvariance, PTL

\* Once close() has returned recv_task does not find a callback again: at most
\* one more call of it begins, which recv_task was about to make.
THEOREM CloseIsLastCall == Spec => LastCall
<1>1. IInv /\ CInv /\ [Next]_vars
        => [closed /\ pc["receiver"] # "enter" => pc'["receiver"] # "enter"]_vars
  <2> SUFFICES ASSUME IInv, CInv, Next, closed,
                      pc["receiver"] # "enter", pc'["receiver"] = "enter"
               PROVE  FALSE
    BY DEF vars
  <2>1. CASE InitCall \/ Attach \/ Connect \/ Connecting
    BY <2>1 DEF InitCall, Attach, Connect, Connecting, TcpConnect, UdpConnect,
       ConnectIsAttach, ConnectRun, ConnectSet
  <2>2. ASSUME NEW t \in Thread,
               SendCall(t) \/ Sending(t) \/ SendEnd(t) \/ CloseCall(t) \/ Closing(t)
        PROVE  FALSE
    <3>1. \E l \in Label \ {"enter"} : Goto(t, l)
      <4>1. CASE SendCall(t) \/ CloseCall(t) \/ SendStart(t)
        BY <4>1 DEF SendCall, CloseCall, SendStart
      <4>2. CASE \/ SendMore(t) \/ SendFail(t)
                \/ CloseHalt(t) \/ CloseUnbind(t)
        BY <4>2 DEF SendMore, SendFail, CloseHalt, CloseUnbind
      <4>3. CASE SendDone(t) \/ CloseFd(t)
        <5>1. Goto(t, Home[t])
          BY <4>3 DEF SendDone, CloseFd
        <5>2. Home[t] \in Label \ {"enter"}
          OBVIOUS
        <5>3. QED  BY <5>1, <5>2
      <4>4. QED
        BY <2>2, <4>1, <4>2, <4>3 DEF Sending, SendTimeout, SendEnd, Closing
    <3>2. QED  BY <3>1
  <2>3. CASE RecvCall \/ RecvData \/ RecvNothing \/ Delete
    BY <2>3 DEF RecvCall, RecvData, RecvNothing, Delete
  <2>4. CASE Receive \/ TaskEnd \/ TaskAstray \/ CallbackReturn \/ Wild
    <3>1. CASE Dispatch
      <4>1. ~attached
        OBVIOUS
      <4>2. QED  BY <3>1, <4>1 DEF Dispatch
    <3>2. CASE ~Dispatch
      BY <2>4, <3>2 DEF Receive, Task, TaskRecv, TaskData, TaskTimeout, Enter,
         TaskEnd, TaskAstray, CallbackReturn, Wild
    <3>3. QED  BY <3>1, <3>2
  <2>5. CASE Arrive \/ Reuse \/ OtherClose
    BY <2>5 DEF Arrive, Reuse, OtherClose
  <2>6. QED
    BY <2>1, <2>2, <2>3, <2>4, <2>5 DEF Next
<1> HIDE DEF IInv, CInv
<1>2. QED  BY <1>1, Invariance, CloseInvariance, PTL DEF Spec, LastCall

\* Once a close() has returned there is no callback, and a TCP client's thread
\* is told to run no more.
THEOREM ClosedStaysStopped ==
  Spec => [](closed => ~attached /\ (type = emTCPClient => ~running))
<1>1. IInv /\ CInv => (closed => ~attached /\ (type = emTCPClient => ~running))
  OBVIOUS
<1> HIDE DEF IInv, CInv
<1>2. QED  BY <1>1, Invariance, CloseInvariance, PTL
=============================================================================
