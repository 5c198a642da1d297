---------------------------- MODULE SessionProof ----------------------------
(***************************************************************************)
(* Theorems of Session for every Timeout and Period.                       *)
(***************************************************************************)
EXTENDS Session, TLAPS

\* Where each thread can be, and where its close() can return to.
Places ==
  /\ pc["server"] \in {"set", "stamp", "construct", "push", "done"}
  /\ pc["session"] \in InClose \cup
       {"off", "idle", "recv", "recvOwn", "recvOther", "dispatch", "abort",
        "parse", "login", "loginSet", "keepAlive",
        "send", "sending", "sendOwn", "sendOther", "logout", "logoutSet"}
  /\ pc["timer"] \in InClose \cup
       {"idle", "timerCheck", "timerState", "logout", "logoutSet"}
  /\ pc["reaper"] \in InClose \cup {"idle", "detach", "join", "free", "done"}
  /\ ret["session"] \in {"idle", "parse"}
  /\ ret["timer"] = "idle"
  /\ pc["reaper"] \in InClose => ret["reaper"] \in {"detach", "free"}

\* The order in which the server thread brings a connection into being.
Birth ==
  /\ pc["server"] = "set" =>
       /\ sockfd = NoFd /\ state = emStateCreated /\ desc = "own"
       /\ ~timerOn /\ pc["timer"] = "idle"
  /\ pc["server"] \in {"set", "stamp", "construct"} =>
       pc["session"] = "off" /\ object = "none"
  /\ pc["server"] = "push" => object = "whole"
  /\ pc["server"] # "done" => ~listed
  /\ listed => object = "whole"
  /\ timerOn => Timeout > 0

\* delete p runs once, on a connection that has been published.
Death ==
  /\ pc["reaper"] = "idle" => object \in {"none", "whole"}
  /\ pc["reaper"] # "idle" => pc["server"] = "done" /\ ~listed
  /\ pc["reaper"] \notin {"idle", "done"} => object = "base"
  /\ pc["reaper"] = "done" => object = "gone"

\* The socket is closed before anyone says so.
Descriptor ==
  /\ sockfd = NoFd /\ pc["server"] # "set" => desc # "own"
  /\ \A t \in Closer : pc[t] \in {"fdClear", "setClose"} => desc # "own"
  /\ state = emStateClose => desc # "own"

\* What each step of ~IProtocol leaves behind.
Teardown ==
  /\ pc["reaper"] \notin {"idle", "close"} => ~timerOn
  /\ pc["reaper"] \in {"detach", "join", "free", "done"} => desc # "own"
  /\ pc["reaper"] \in InClose /\ ret["reaper"] = "free" =>
       ~timerOn /\ desc # "own" /\ pc["session"] = "off"
  /\ pc["reaper"] \in {"free", "done"} => pc["session"] = "off"
  /\ pc["reaper"] = "done" => pc["timer"] = "idle"

IInv == TypeOK /\ Places /\ Birth /\ Death /\ Descriptor /\ Teardown

----------------------------------------------------------------------------
USE DEF IInv, TypeOK, Places, Birth, Death, Descriptor, Teardown, Thread, Label,
  InClose, Limit, Closer, FD, NoFd, emStateCreated, emStateLogout, emStateLogin,
  emStateClose, session, timer, protocol, Goto, CallClose, Denoted, InRecv, SendFail

LEMMA InitIInv == Init => IInv
<1> SUFFICES ASSUME Init PROVE IInv
  OBVIOUS
<1> USE SessionAssumption DEF Init
<1>1. TypeOK
  <2>1. pc \in [Thread -> Label]
    OBVIOUS
  <2>2. ret \in [Thread -> {"idle", "parse", "detach", "free"}]
    OBVIOUS
  <2>3. quiet \in 0 .. Limit /\ timerLeft \in 0 .. Period
    OBVIOUS
  <2>4. state \in 0 .. 3 /\ sockfd \in {1, -1}
    OBVIOUS
  <2>5. /\ timerOn = FALSE /\ listed = FALSE /\ attached = FALSE
       /\ recvTimeo = FALSE /\ sendTimeo = FALSE
    OBVIOUS
  <2>6. desc = "own" /\ object = "none"
    OBVIOUS
  <2>7. QED  BY <2>1, <2>2, <2>3, <2>4, <2>5, <2>6
<1>2. Places
  OBVIOUS
<1>3. Birth
  OBVIOUS
<1>4. Death /\ Descriptor /\ Teardown
  OBVIOUS
<1>5. QED  BY <1>1, <1>2, <1>3, <1>4

LEMMA ServerStep == ASSUME IInv, Server PROVE IInv'
<1>1. ASSUME NEW ok \in BOOLEAN, Set(ok) PROVE IInv'
  <2>1. recvTimeo' \in BOOLEAN /\ sendTimeo' \in BOOLEAN
    BY <1>1, Zenon DEF Set
  <2>2. TypeOK'
    BY <1>1, <2>1, SessionAssumption DEF Set
  <2>3. (Places /\ Birth)'
    BY <1>1, SessionAssumption DEF Set
  <2>4. (Death /\ Descriptor /\ Teardown)'
    BY <1>1, SessionAssumption DEF Set
  <2>5. QED  BY <2>2, <2>3, <2>4
<1>2. CASE SetStamp
  BY <1>2, SessionAssumption DEF SetStamp
<1>3. CASE Construct
  BY <1>3, SessionAssumption DEF Construct
<1>4. CASE PushBack
  BY <1>4, SessionAssumption DEF PushBack
<1>5. QED  BY <1>1, <1>2, <1>3, <1>4 DEF Server

LEMMA CloseStep == ASSUME IInv, NEW t \in Closer, Close(t) PROVE IInv'
<1>1. CASE CloseTimer(t)
  BY <1>1, SessionAssumption DEF CloseTimer
<1>2. CASE CloseSwitch(t)
  BY <1>2, SessionAssumption DEF CloseSwitch
<1>3. CASE Logout(t, "closeLogout", "closeLogoutSet", "fdCheck")
  BY <1>3, SessionAssumption DEF Logout
<1>4. CASE CloseFdCheck(t)
  BY <1>4, SessionAssumption DEF CloseFdCheck
<1>5. CASE CloseFd(t)
  BY <1>5, SessionAssumption DEF CloseFd
<1>6. CASE CloseFdClear(t)
  BY <1>6, SessionAssumption DEF CloseFdClear
<1>7. CASE CloseSet(t)
  BY <1>7, SessionAssumption DEF CloseSet
<1>8. QED
  BY <1>1, <1>2, <1>3, <1>4, <1>5, <1>6, <1>7 DEF Close

LEMMA ReceiveStep ==
  ASSUME IInv, SessionTask \/ RecvCall \/ Recv \/ Dispatch \/ ParseReturn
  PROVE  IInv'
<1>1. CASE SessionTask
  BY <1>1, SessionAssumption DEF SessionTask
<1>2. CASE RecvCall
  BY <1>2, SessionAssumption DEF RecvCall
<1>3. CASE RecvTimeout
  BY <1>3, SessionAssumption DEF RecvTimeout
<1>4. CASE RecvError
  BY <1>4, SessionAssumption DEF RecvError
<1>5. CASE RecvEof
  BY <1>5, SessionAssumption DEF RecvEof
<1>6. CASE RecvData
  BY <1>6, SessionAssumption DEF RecvData
<1>7. CASE Dispatch
  BY <1>7, SessionAssumption DEF Dispatch
<1>8. CASE ParseReturn
  BY <1>8, SessionAssumption DEF ParseReturn
<1>9. QED
  BY <1>1, <1>2, <1>3, <1>4, <1>5, <1>6, <1>7, <1>8 DEF Recv

LEMMA ParseStep == ASSUME IInv, Parse PROVE IInv'
<1>1. CASE LoginCheck
  BY <1>1, SessionAssumption DEF LoginCheck
<1>2. CASE LoginStamp
  BY <1>2, SessionAssumption DEF LoginStamp
<1>3. CASE LoginSet
  BY <1>3, SessionAssumption DEF LoginSet
<1>4. CASE KeepAliveCheck
  BY <1>4, SessionAssumption DEF KeepAliveCheck
<1>5. CASE KeepAliveStamp
  BY <1>5, SessionAssumption DEF KeepAliveStamp
<1>6. CASE ParseLogout
  BY <1>6, SessionAssumption DEF ParseLogout
<1>7. CASE Logout("session", "logout", "logoutSet", "parse")
  BY <1>7, SessionAssumption DEF Logout
<1>8. CASE SendCheck
  BY <1>8, SessionAssumption DEF SendCheck
<1>9. CASE SendFd
  BY <1>9, SessionAssumption DEF SendFd
<1>10. CASE SendCall
  BY <1>10, SessionAssumption DEF SendCall
<1>11. QED
  BY <1>1, <1>2, <1>3, <1>4, <1>5, <1>6, <1>7, <1>8, <1>9, <1>10 DEF Parse

LEMMA SendStep == ASSUME IInv, Send PROVE IInv'
<1>1. CASE SendMore
  BY <1>1, SessionAssumption DEF SendMore
<1>2. ASSUME NEW ok \in BOOLEAN, SendEnd(ok) PROVE IInv'
  <2>1. CASE ok
    BY <1>2, <2>1, SessionAssumption DEF SendEnd
  <2>2. CASE ~ok
    BY <1>2, <2>2, SessionAssumption DEF SendEnd
  <2>3. QED  BY <2>1, <2>2
<1>3. QED  BY <1>1, <1>2 DEF Send, SendTimeout

LEMMA TimerStep == ASSUME IInv, Expire \/ TimerProc PROVE IInv'
<1>1. CASE Expire
  BY <1>1, SessionAssumption DEF Expire
<1>2. CASE TimerCheck
  BY <1>2, SessionAssumption DEF TimerCheck
<1>3. CASE TimerState
  BY <1>3, SessionAssumption DEF TimerState
<1>4. CASE Logout("timer", "logout", "logoutSet", "idle")
  BY <1>4, SessionAssumption DEF Logout
<1>5. QED
  BY <1>1, <1>2, <1>3, <1>4 DEF TimerProc

\* Both ways to start `delete p' do the same to a listed protocol.
LEMMA DeleteStep ==
  ASSUME IInv, pc["reaper"] = "idle", listed, listed' = FALSE,
         object' = "base", CallClose("reaper", "detach"),
         UNCHANGED <<session, timer, desc, attached>>
  PROVE  IInv'
<1>1. TypeOK'
  BY SessionAssumption
<1>2. Places'
  OBVIOUS
<1>3. Birth'
  OBVIOUS
<1>4. Death' /\ Descriptor' /\ Teardown'
  OBVIOUS
<1>5. QED  BY <1>1, <1>2, <1>3, <1>4

LEMMA ReaperStep == ASSUME IInv, Reaper PROVE IInv'
<1>1. CASE Reap
  BY <1>1, DeleteStep DEF Reap
<1>2. CASE StopDelete
  BY <1>2, DeleteStep DEF StopDelete
<1>3. CASE Detach
  <2>1. TypeOK'
    BY <1>3, SessionAssumption DEF Detach
  <2>2. (Places /\ Birth /\ Death /\ Descriptor /\ Teardown)'
    BY <1>3 DEF Detach
  <2>3. QED  BY <2>1, <2>2
<1>4. CASE Join
  BY <1>4, SessionAssumption DEF Join
<1>5. CASE Free
  BY <1>5, SessionAssumption DEF Free
<1>6. QED
  BY <1>1, <1>2, <1>3, <1>4, <1>5 DEF Reaper

LEMMA EnvironmentStep == ASSUME IInv, Environment PROVE IInv'
<1>1. CASE Reuse
  BY <1>1, SessionAssumption DEF Reuse
<1>2. CASE OtherClose
  BY <1>2, SessionAssumption DEF OtherClose
<1>3. CASE Tick
  BY <1>3, SessionAssumption DEF Tick
<1>4. QED
  BY <1>1, <1>2, <1>3 DEF Environment

LEMMA StepIInv == IInv /\ [Next]_vars => IInv'
<1> SUFFICES ASSUME IInv, [Next]_vars PROVE IInv'
  OBVIOUS
<1>1. CASE UNCHANGED vars
  BY <1>1 DEF vars
<1>2. CASE Next
  <2> HIDE DEF IInv
  <2> QED
    BY <1>2, ServerStep, CloseStep, ReceiveStep, ParseStep, SendStep, TimerStep,
       ReaperStep, EnvironmentStep DEF Next
<1>3. QED  BY <1>1, <1>2

----------------------------------------------------------------------------
\* Every variable keeps its type, and the argument below its invariant.
THEOREM Invariance == Spec => []IInv
<1> HIDE DEF IInv
<1> QED  BY InitIInv, StepIInv, PTL DEF Spec

THEOREM Typing == Spec => []TypeOK
BY Invariance, PTL DEF IInv

\* When `delete p' has returned the socket is closed, the timer is stopped and
\* no thread runs code of the connection: ~IProtocol and ~CSession do their
\* steps in an order that brings this about for every timeout.
THEOREM Quiet == Spec => []FreedIsQuiet
<1>1. IInv => FreedIsQuiet
  BY DEF FreedIsQuiet
<1> HIDE DEF IInv
<1>2. QED  BY <1>1, Invariance, PTL

\* Whoever runs CSession::close(), m_state = emStateClose is written after the
\* socket is closed.
THEOREM Released == Spec => []ClosedReleased
<1>1. IInv => ClosedReleased
  BY DEF ClosedReleased
<1> HIDE DEF IInv
<1>2. QED  BY <1>1, Invariance, PTL

----------------------------------------------------------------------------
(* Without a timer only the session thread can close a listed session.     *)

Alone ==
  Timeout <= 0 =>
    /\ pc["timer"] = "idle"
    /\ pc["reaper"] = "idle" /\ pc["server"] # "set" =>
         /\ sockfd = NoFd => \/ state = emStateClose
                             \/ pc["session"] = "setClose" /\ state # emStateLogin
         /\ pc["session"] \in {"fdCheck", "fdClose", "fdClear", "setClose"} =>
              state # emStateLogin
         /\ pc["session"] \in {"login", "loginSet", "logoutSet",
                               "closeLogout", "closeLogoutSet"} => sockfd = FD

LEMMA StepAlone == IInv /\ Alone /\ [Next]_vars => Alone'
<1> SUFFICES ASSUME IInv, Alone, Timeout <= 0, [Next]_vars PROVE Alone'
  BY DEF Alone
<1> USE SessionAssumption DEF Alone
<1>1. CASE UNCHANGED vars
  BY <1>1 DEF vars
<1>2. CASE Server
  <2>1. ASSUME NEW ok \in BOOLEAN, Set(ok) PROVE Alone'
    <3>1. sockfd' = FD /\ pc' = [pc EXCEPT !["server"] = pc'["server"]]
      BY <2>1 DEF Set
    <3>2. pc["session"] = "off" /\ pc["timer"] = "idle" /\ pc["reaper"] = "idle"
      BY <2>1 DEF Set
    <3>3. QED  BY <3>1, <3>2
  <2>2. CASE SetStamp \/ Construct \/ PushBack
    BY <2>2 DEF SetStamp, Construct, PushBack
  <2>3. QED  BY <1>2, <2>1, <2>2 DEF Server
<1>3. ASSUME NEW t \in Closer, Close(t) PROVE Alone'
  BY <1>3 DEF Close, CloseTimer, CloseSwitch, Logout, CloseFdCheck, CloseFd,
     CloseFdClear, CloseSet
<1>4. CASE SessionTask \/ RecvCall \/ Recv \/ Dispatch \/ ParseReturn
  BY <1>4 DEF SessionTask, RecvCall, Recv, RecvTimeout, RecvError, RecvEof,
     RecvData, Dispatch, ParseReturn
<1>5. CASE Parse \/ Send
  BY <1>5 DEF Parse, LoginCheck, LoginStamp, LoginSet, KeepAliveCheck,
     KeepAliveStamp, ParseLogout, Logout, SendCheck, SendFd, SendCall, Send,
     SendTimeout, SendMore, SendEnd
<1>6. CASE Expire \/ TimerProc
  BY <1>6 DEF Expire, TimerProc, TimerCheck, TimerState, Logout
<1>7. CASE Reaper
  BY <1>7 DEF Reaper, Reap, StopDelete, Detach, Join, Free
<1>8. CASE Environment
  BY <1>8 DEF Environment, Reuse, OtherClose, Tick
<1>9. QED
  BY <1>1, <1>2, <1>3, <1>4, <1>5, <1>6, <1>7, <1>8 DEF Next

\* Without a timeout no logged in session in the list is without a socket.
THEOREM NoZombieWithoutTimer == Timeout <= 0 => (Spec => []NoZombie)
<1> SUFFICES ASSUME Timeout <= 0 PROVE Spec => []NoZombie
  OBVIOUS
<1>1. Init => Alone
  BY DEF Init, Alone
<1>2. IInv /\ Alone => NoZombie
  BY DEF Alone, NoZombie
<1> HIDE DEF IInv
<1>3. Spec => [](IInv /\ Alone)
  BY <1>1, Invariance, StepAlone, PTL DEF Spec
<1>4. QED  BY <1>2, <1>3, PTL

\* Whoever is about to assign another state has found the session open, and is
\* the only one who could have closed it since.
TestedOpen ==
  Timeout <= 0 /\ pc["reaper"] = "idle" /\ state = emStateClose =>
    pc["session"] \notin {"login", "loginSet", "logoutSet", "closeLogoutSet"}

LEMMA StepTestedOpen == IInv /\ Alone /\ TestedOpen /\ [Next]_vars => TestedOpen'
<1> SUFFICES ASSUME IInv, Alone, TestedOpen, Timeout <= 0, [Next]_vars,
                    pc'["reaper"] = "idle", state' = emStateClose
             PROVE  pc'["session"] \notin {"login", "loginSet", "logoutSet", "closeLogoutSet"}
  BY DEF TestedOpen
<1> USE SessionAssumption DEF TestedOpen
<1>0. pc["timer"] = "idle" /\ ~timerOn
  BY DEF Alone
<1>1. CASE UNCHANGED vars
  BY <1>1 DEF vars
<1>2. CASE Server
  <2>1. ASSUME NEW ok \in BOOLEAN, Set(ok) PROVE FALSE
    BY <2>1 DEF Set
  <2>2. CASE SetStamp \/ Construct \/ PushBack
    BY <2>2 DEF SetStamp, Construct, PushBack
  <2>3. QED  BY <1>2, <2>1, <2>2 DEF Server
<1>3. ASSUME NEW t \in Closer, Close(t)
      PROVE  pc'["session"] \notin {"login", "loginSet", "logoutSet", "closeLogoutSet"}
  <2>1. t = "session"
    BY <1>0, <1>3 DEF Close, CloseTimer, CloseSwitch, Logout, CloseFdCheck, CloseFd,
       CloseFdClear, CloseSet
  <2>2. QED
    BY <1>3, <2>1 DEF Close, CloseTimer, CloseSwitch, Logout, CloseFdCheck, CloseFd,
       CloseFdClear, CloseSet
<1>4. CASE SessionTask \/ RecvCall \/ Recv \/ Dispatch \/ ParseReturn
  BY <1>4 DEF SessionTask, RecvCall, Recv, RecvTimeout, RecvError, RecvEof,
     RecvData, Dispatch, ParseReturn
<1>5. CASE Parse \/ Send
  BY <1>5 DEF Parse, LoginCheck, LoginStamp, LoginSet, KeepAliveCheck,
     KeepAliveStamp, ParseLogout, Logout, SendCheck, SendFd, SendCall, Send,
     SendTimeout, SendMore, SendEnd
<1>6. CASE Expire \/ TimerProc
  BY <1>0, <1>6 DEF Expire, TimerProc, TimerCheck, TimerState, Logout
<1>7. CASE Reaper
  BY <1>7 DEF Reaper, Reap, StopDelete, Detach, Join, Free
<1>8. CASE Environment
  BY <1>8 DEF Environment, Reuse, OtherClose, Tick
<1>9. QED
  BY <1>1, <1>2, <1>3, <1>4, <1>5, <1>6, <1>7, <1>8 DEF Next

\* Without a timeout a session of the list that is closed stays closed until it
\* is deleted, so that managerTask, which looks once a second, finds it: login()
\* and logout() test the state and assign it later, but nobody closes the
\* session in between.
THEOREM ClosedStaysClosed ==
  Timeout <= 0 =>
    (Spec => [][listed /\ state = emStateClose => state' = emStateClose]_vars)
<1> SUFFICES ASSUME Timeout <= 0
             PROVE  Spec => [][listed /\ state = emStateClose => state' = emStateClose]_vars
  OBVIOUS
<1>1. Init => Alone /\ TestedOpen
  BY DEF Init, Alone, TestedOpen
<1>2. IInv /\ Alone /\ TestedOpen /\ [Next]_vars =>
        (listed /\ state = emStateClose => state' = emStateClose)
  <2> SUFFICES ASSUME IInv, Alone, TestedOpen, [Next]_vars, listed, state = emStateClose
               PROVE  state' = state
    OBVIOUS
  <2>1. /\ pc["reaper"] = "idle" /\ pc["timer"] = "idle" /\ pc["server"] = "done"
        /\ pc["session"] \notin {"login", "loginSet", "logoutSet", "closeLogoutSet"}
    BY SessionAssumption DEF Alone, TestedOpen
  <2>2. CASE UNCHANGED vars
    BY <2>2 DEF vars
  <2>3. CASE Server
    BY <2>1, <2>3 DEF Server, Set, SetStamp, Construct, PushBack
  <2>4. ASSUME NEW t \in Closer, Close(t) PROVE state' = state
    BY <2>1, <2>4 DEF Close, CloseTimer, CloseSwitch, Logout, CloseFdCheck, CloseFd,
       CloseFdClear, CloseSet
  <2>5. CASE SessionTask \/ RecvCall \/ Recv \/ Dispatch \/ ParseReturn
    BY <2>5 DEF SessionTask, RecvCall, Recv, RecvTimeout, RecvError, RecvEof,
       RecvData, Dispatch, ParseReturn
  <2>6. CASE Parse \/ Send
    BY <2>1, <2>6 DEF Parse, LoginCheck, LoginStamp, LoginSet, KeepAliveCheck,
       KeepAliveStamp, ParseLogout, Logout, SendCheck, SendFd, SendCall, Send,
       SendTimeout, SendMore, SendEnd
  <2>7. CASE Expire \/ TimerProc
    BY <2>1, <2>7 DEF Expire, TimerProc, TimerCheck, TimerState, Logout
  <2>8. CASE Reaper \/ Environment
    BY <2>8 DEF Reaper, Reap, StopDelete, Detach, Join, Free, Environment, Reuse,
       OtherClose, Tick
  <2>9. QED
    BY <2>2, <2>3, <2>4, <2>5, <2>6, <2>7, <2>8 DEF Next
<1> HIDE DEF IInv
<1>3. QED  BY <1>1, <1>2, Invariance, StepAlone, StepTestedOpen, PTL DEF Spec

----------------------------------------------------------------------------
(* A number that is out of date.                                           *)

\* m_sockfd names a descriptor that is no longer the connection's own only
\* while some thread is between ::close(m_sockfd) and m_sockfd = -1.
StaleInWindow ==
  sockfd = FD /\ desc # "own" => \E u \in Closer : pc[u] = "fdClear"

\* No step but that assignment, which ends the danger, leaves the window.
LEMMA StepStale == IInv /\ StaleInWindow /\ [Next]_vars => StaleInWindow'
<1> SUFFICES ASSUME IInv, StaleInWindow, [Next]_vars, sockfd' = FD, desc' # "own"
             PROVE  \E u \in Closer : pc'[u] = "fdClear"
  BY DEF StaleInWindow
<1>1. ASSUME sockfd = FD, desc # "own",
             \A u \in Closer : pc[u] = "fdClear" => pc'[u] = "fdClear"
      PROVE  \E u \in Closer : pc'[u] = "fdClear"
  BY <1>1 DEF StaleInWindow
<1>2. CASE UNCHANGED vars
  BY <1>1, <1>2 DEF vars
<1>3. CASE Server
  <2>1. ASSUME NEW ok \in BOOLEAN, Set(ok) PROVE FALSE
    BY <2>1 DEF Set
  <2>2. CASE SetStamp \/ Construct \/ PushBack
    BY <1>1, <2>2 DEF SetStamp, Construct, PushBack
  <2>3. QED  BY <1>3, <2>1, <2>2 DEF Server
<1>4. ASSUME NEW t \in Closer, Close(t)
      PROVE  \E u \in Closer : pc'[u] = "fdClear"
  <2>1. CASE CloseFd(t)
    BY <2>1 DEF CloseFd
  <2>2. CASE CloseFdClear(t)
    BY <2>2 DEF CloseFdClear
  <2>3. CASE \/ CloseTimer(t) \/ CloseSwitch(t) \/ CloseFdCheck(t) \/ CloseSet(t)
             \/ Logout(t, "closeLogout", "closeLogoutSet", "fdCheck")
    <3>1. /\ sockfd' = sockfd /\ desc' = desc
          /\ \A u \in Closer : pc[u] = "fdClear" => pc'[u] = "fdClear"
      BY <2>3 DEF CloseTimer, CloseSwitch, CloseFdCheck, CloseSet, Logout
    <3>2. QED  BY <1>1, <3>1
  <2>4. QED  BY <1>4, <2>1, <2>2, <2>3 DEF Close
<1>5. CASE \/ SessionTask \/ RecvCall \/ Recv \/ Dispatch \/ ParseReturn \/ Parse
           \/ Send \/ Expire \/ TimerProc \/ Reaper
  <2>1. /\ sockfd' = sockfd /\ desc' = desc
        /\ \A u \in Closer : pc[u] = "fdClear" => pc'[u] = "fdClear"
    <3>1. CASE SessionTask \/ RecvCall \/ Recv \/ Dispatch \/ ParseReturn
      BY <3>1 DEF SessionTask, RecvCall, Recv, RecvTimeout, RecvError, RecvEof,
         RecvData, Dispatch, ParseReturn
    <3>2. CASE Parse \/ Send
      BY <3>2 DEF Parse, LoginCheck, LoginStamp, LoginSet, KeepAliveCheck,
         KeepAliveStamp, ParseLogout, Logout, SendCheck, SendFd, SendCall, Send,
         SendTimeout, SendMore, SendEnd
    <3>3. CASE Expire \/ TimerProc
      BY <3>3 DEF Expire, TimerProc, TimerCheck, TimerState, Logout
    <3>4. CASE Reaper
      BY <3>4 DEF Reaper, Reap, StopDelete, Detach, Join, Free
    <3>5. QED  BY <1>5, <3>1, <3>2, <3>3, <3>4
  <2>2. QED  BY <1>1, <2>1
<1>6. CASE Environment
  BY <1>1, <1>6 DEF Environment, Reuse, OtherClose, Tick
<1>7. QED
  BY <1>2, <1>3, <1>4, <1>5, <1>6 DEF Next

\* recv(), send() and ::close() of a session are given the number of its own
\* socket, unless a thread has closed that and has not yet said so in m_sockfd:
\* whatever the timeout, the hazard has no other window than these two lines of
\* CSession::close().
THEOREM StaleOnlyInWindow == Spec => []StaleInWindow
<1>1. Init => StaleInWindow
  BY DEF Init, StaleInWindow
<1> HIDE DEF IInv
<1>2. QED  BY <1>1, Invariance, StepStale, PTL DEF Spec

\* It takes two threads in close() at once to end a descriptor that is not the
\* connection's own.
THEOREM MissesOnlyInRace ==
  Spec => [][\A t \in Closer : CloseFd(t) /\ sockfd = FD /\ desc # "own"
               => \E u \in Closer \ {t} : pc[u] = "fdClear"]_vars
<1>1. ASSUME IInv, StaleInWindow, NEW t \in Closer, CloseFd(t), sockfd = FD, desc # "own"
      PROVE  \E u \in Closer \ {t} : pc[u] = "fdClear"
  BY <1>1 DEF StaleInWindow, CloseFd
<1> HIDE DEF IInv
<1>2. IInv /\ StaleInWindow =>
        \A t \in Closer : CloseFd(t) /\ sockfd = FD /\ desc # "own"
          => \E u \in Closer \ {t} : pc[u] = "fdClear"
  BY <1>1
<1>3. QED  BY <1>2, Invariance, StaleOnlyInWindow, PTL

\* Once the session thread runs there is an object.
Pure ==
  /\ pc["session"] # "off" => object # "none"
  /\ pc["session"] = "abort" => object # "whole"

LEMMA StepPure == IInv /\ Pure /\ [Next]_vars => Pure'
<1> SUFFICES ASSUME IInv, Pure, [Next]_vars PROVE Pure'
  OBVIOUS
<1> USE DEF Pure
<1>1. CASE UNCHANGED vars
  BY <1>1 DEF vars
<1>2. CASE Server
  <2>1. ASSUME NEW ok \in BOOLEAN, Set(ok) PROVE Pure'
    BY <2>1 DEF Set
  <2>2. CASE SetStamp \/ Construct \/ PushBack
    BY <2>2 DEF SetStamp, Construct, PushBack
  <2>3. QED  BY <1>2, <2>1, <2>2 DEF Server
<1>3. ASSUME NEW t \in Closer, Close(t) PROVE Pure'
  BY <1>3 DEF Close, CloseTimer, CloseSwitch, Logout, CloseFdCheck, CloseFd,
     CloseFdClear, CloseSet
<1>4. CASE SessionTask \/ RecvCall \/ Recv \/ Dispatch \/ ParseReturn
  BY <1>4 DEF SessionTask, RecvCall, Recv, RecvTimeout, RecvError, RecvEof,
     RecvData, Dispatch, ParseReturn
<1>5. CASE Parse \/ Send
  BY <1>5 DEF Parse, LoginCheck, LoginStamp, LoginSet, KeepAliveCheck,
     KeepAliveStamp, ParseLogout, Logout, SendCheck, SendFd, SendCall, Send,
     SendTimeout, SendMore, SendEnd
<1>6. CASE Expire \/ TimerProc
  BY <1>6 DEF Expire, TimerProc, TimerCheck, TimerState, Logout
<1>7. CASE Reaper
  BY <1>7 DEF Reaper, Reap, StopDelete, Detach, Join, Free
<1>8. CASE Environment
  BY <1>8 DEF Environment, Reuse, OtherClose, Tick
<1>9. QED
  BY <1>1, <1>2, <1>3, <1>4, <1>5, <1>6, <1>7, <1>8 DEF Next

\* parse() is called pure only when `delete p' has begun, and then that never
\* gets beyond waiting for the session thread.
THEOREM PureOnlyInDelete ==
  Spec => [](pc["session"] = "abort" =>
               object = "base" /\ pc["reaper"] \in InClose \cup {"detach", "join"})
<1>1. Init => Pure
  BY DEF Init, Pure
<1>2. IInv /\ Pure =>
        (pc["session"] = "abort" =>
           object = "base" /\ pc["reaper"] \in InClose \cup {"detach", "join"})
  <2> SUFFICES ASSUME IInv, Pure, pc["session"] = "abort"
               PROVE  object = "base" /\ pc["reaper"] \in InClose \cup {"detach", "join"}
    OBVIOUS
  <2>1. object \notin {"none", "whole"}
    BY DEF Pure
  <2>2. pc["reaper"] \notin {"free", "done"}
    OBVIOUS
  <2>3. pc["reaper"] # "idle"
    BY <2>1
  <2>4. QED  BY <2>2, <2>3
<1> HIDE DEF IInv
<1>3. QED  BY <1>1, <1>2, Invariance, StepPure, PTL DEF Spec

----------------------------------------------------------------------------
(* Session implements Lifetime.                                            *)

\* All that Lifetime looks at.
Same ==
  /\ desc' = "own" <=> desc = "own"
  /\ timerOn' = timerOn
  /\ sockfd' = sockfd
  /\ pc'["server"] = "set" <=> pc["server"] = "set"
  /\ pc'["session"] = "off" <=> pc["session"] = "off"
  /\ \A t \in Closer : pc'[t] = "fdClear" <=> pc[t] = "fdClear"
  /\ object' = "none" <=> object = "none"
  /\ object' = "gone" <=> object = "gone"

Stutter == UNCHANGED <<life, number, closing>>

LEMMA SameLife == Same => Stutter
BY DEF Same, Stutter, life, number, closing

\* A step gives back the timer or the thread.
LEMMA ReleaseLife ==
  ASSUME NEW r \in {"timer", "thread"}, life[r] = "held",
         life' = [life EXCEPT ![r] = "released"],
         number' = number, closing' = closing
  PROVE  Lifetime!Next
BY DEF Lifetime!Next, Lifetime!Release, Lifetime!Held, Lifetime!Released, Resource

LEMMA ServerLife == ASSUME IInv, Server PROVE Lifetime!Next \/ Stutter
<1>1. ASSUME NEW ok \in BOOLEAN, Set(ok) PROVE Lifetime!Next
  <2>1. life["timer"] = "unused" /\ life["memory"] = "held"
    BY <1>1 DEF Set, life, Resource
  <2>2. number' = number /\ closing' = closing
    BY <1>1 DEF Set, number, closing
  <2>3. CASE timerOn'
    <3>1. life' = [life EXCEPT !["timer"] = "held"]
      BY <1>1, <2>3 DEF Set, life, Resource
    <3>2. QED
      BY <2>1, <2>2, <3>1 DEF Lifetime!Next, Lifetime!Take, Lifetime!Held,
         Lifetime!Unused, Resource
  <2>4. CASE ~timerOn'
    <3>1. life' = [life EXCEPT !["timer"] = "released"]
      BY <1>1, <2>4 DEF Set, life, Resource
    <3>2. QED
      BY <2>1, <2>2, <3>1 DEF Lifetime!Next, Lifetime!Forgo, Lifetime!Released,
         Lifetime!Unused, Resource
  <2>5. QED  BY <2>3, <2>4
<1>2. CASE SetStamp \/ PushBack
  BY <1>2, SameLife DEF SetStamp, PushBack, Same
<1>3. CASE Construct
  <2>1. life["thread"] = "unused" /\ life["memory"] = "held"
    BY <1>3 DEF Construct, life, Resource
  <2>2. life' = [life EXCEPT !["thread"] = "held"]
    BY <1>3 DEF Construct, life, Resource
  <2>3. number' = number /\ closing' = closing
    BY <1>3 DEF Construct, number, closing
  <2>4. QED
    BY <2>1, <2>2, <2>3 DEF Lifetime!Next, Lifetime!Take, Lifetime!Held,
       Lifetime!Unused, Resource
<1>4. QED  BY <1>1, <1>2, <1>3 DEF Server

\* ::close(m_sockfd): the first ends the connection's socket, another one is
\* given the number only while its thread is at m_sockfd = -1.
LEMMA CloseFdLife ==
  ASSUME IInv, StaleInWindow, NEW t \in Closer, CloseFd(t)
  PROVE  Lifetime!CloseNumber(t)
<1>1. life["memory"] = "held"
  BY DEF CloseFd, life, Resource
<1>2. closing' = closing \cup {t}
  BY DEF CloseFd, closing
<1>3. number' = number
  BY DEF CloseFd, number
<1>4. CASE desc = "own"
  <2>1. sockfd = FD
    BY <1>4 DEF CloseFd
  <2>2. life["descriptor"] = "held"
    BY <1>4 DEF life, Resource
  <2>3. life' = [life EXCEPT !["descriptor"] = "released"]
    BY <1>4, <2>1 DEF CloseFd, life, Resource
  <2>4. QED
    BY <1>1, <1>2, <1>3, <2>2, <2>3 DEF Lifetime!CloseNumber, Lifetime!Held,
       Lifetime!Released
<1>5. CASE desc # "own"
  <2>1. life["descriptor"] = "released"
    BY <1>5 DEF life, Resource
  <2>2. life' = life
    BY <1>5 DEF CloseFd, life
  <2>3. closing # {} \/ number = "dropped"
    <3>1. CASE sockfd = FD
      BY <1>5, <3>1 DEF StaleInWindow, closing
    <3>2. CASE sockfd = NoFd
      BY <3>2 DEF CloseFd, number
    <3>3. QED  BY <3>1, <3>2
  <2>4. QED
    BY <1>1, <1>2, <1>3, <2>1, <2>2, <2>3 DEF Lifetime!CloseNumber, Lifetime!Held,
       Lifetime!Released, Lifetime!Dropped
<1>6. QED  BY <1>4, <1>5

LEMMA CloseLife ==
  ASSUME IInv, StaleInWindow, NEW t \in Closer, Close(t)
  PROVE  Lifetime!Next \/ Stutter
<1>1. CASE CloseTimer(t)
  <2>1. CASE timerOn /\ ~timerOn'
    <3>1. life["timer"] = "held"
      BY <2>1 DEF life, Resource
    <3>2. /\ pc["server"] # "set" /\ pc'["server"] # "set"
          /\ pc'["session"] = "off" <=> pc["session"] = "off"
          /\ desc' = desc /\ object' = object /\ timerOn' = FALSE
      BY <1>1, <2>1 DEF CloseTimer
    <3>3. life' = [life EXCEPT !["timer"] = "released"]
      BY <3>2 DEF life, Resource
    <3>4. number' = number /\ closing' = closing
      BY <1>1 DEF CloseTimer, number, closing
    <3>5. QED  BY <3>1, <3>3, <3>4, ReleaseLife
  <2>2. CASE timerOn' = timerOn
    BY <1>1, <2>2, SameLife DEF CloseTimer, Same
  <2>3. QED  BY <1>1, <2>1, <2>2 DEF CloseTimer
<1>2. CASE CloseFd(t)
  BY <1>2, CloseFdLife DEF Lifetime!Next
<1>3. CASE CloseFdClear(t)
  <2>1. t \in closing /\ closing' = closing \ {t}
    BY <1>3 DEF CloseFdClear, closing
  <2>2. number' = "dropped"
    BY <1>3 DEF CloseFdClear, number
  <2>3. life' = life
    BY <1>3 DEF CloseFdClear, life
  <2>4. QED
    BY <2>1, <2>2, <2>3 DEF Lifetime!Next, Lifetime!Drop, Lifetime!Dropped
<1>4. CASE \/ CloseSwitch(t) \/ CloseFdCheck(t) \/ CloseSet(t)
           \/ Logout(t, "closeLogout", "closeLogoutSet", "fdCheck")
  BY <1>4, SameLife DEF CloseSwitch, CloseFdCheck, CloseSet, Logout, Same
<1>5. QED  BY <1>1, <1>2, <1>3, <1>4 DEF Close

LEMMA RunLife ==
  ASSUME IInv,
         \/ SessionTask \/ RecvCall \/ Recv \/ Dispatch \/ ParseReturn
         \/ Parse \/ Send \/ Expire \/ TimerProc
  PROVE  Stutter
<1>1. CASE SessionTask \/ RecvCall \/ Recv \/ Dispatch \/ ParseReturn
  BY <1>1, SameLife DEF SessionTask, RecvCall, Recv, RecvTimeout, RecvError,
     RecvEof, RecvData, Dispatch, ParseReturn, Same
<1>2. CASE Parse \/ Send
  BY <1>2, SameLife DEF Parse, LoginCheck, LoginStamp, LoginSet, KeepAliveCheck,
     KeepAliveStamp, ParseLogout, Logout, SendCheck, SendFd, SendCall, Send,
     SendTimeout, SendMore, SendEnd, Same
<1>3. CASE Expire \/ TimerProc
  BY <1>3, SameLife DEF Expire, TimerProc, TimerCheck, TimerState, Logout, Same
<1>4. QED  BY <1>1, <1>2, <1>3

LEMMA ReaperLife ==
  ASSUME IInv, StaleInWindow, Reaper PROVE Lifetime!Next \/ Stutter
<1>1. CASE Reap \/ StopDelete \/ Detach
  <2>1. /\ UNCHANGED <<desc, timerOn, sockfd>>
        /\ pc'["server"] = pc["server"] /\ pc'["session"] = pc["session"]
        /\ \A t \in Closer : pc'[t] = "fdClear" <=> pc[t] = "fdClear"
        /\ object' = "none" <=> object = "none"
        /\ object' = "gone" <=> object = "gone"
    BY <1>1 DEF Reap, StopDelete, Detach
  <2>2. QED  BY <2>1, SameLife DEF Same
<1>2. CASE Join
  <2>1. life["thread"] = "held"
    BY <1>2 DEF Join, life, Resource
  <2>2. /\ UNCHANGED <<desc, timerOn, object>> /\ object = "base"
        /\ pc'["server"] = pc["server"] /\ pc'["session"] = "off"
    BY <1>2 DEF Join
  <2>3. life' = [life EXCEPT !["thread"] = "released"]
    BY <2>2 DEF life, Resource
  <2>4. number' = number /\ closing' = closing
    BY <1>2 DEF Join, number, closing
  <2>5. QED  BY <2>1, <2>3, <2>4, ReleaseLife
<1>3. CASE Free
  <2>1. /\ desc # "own" /\ ~timerOn /\ pc["server"] = "done"
        /\ pc["session"] = "off" /\ object = "base"
    BY <1>3 DEF Free
  <2>2. closing = {} /\ number = "dropped"
    <3>1. \A t \in Closer : pc[t] # "fdClear"
      BY <1>3, <2>1 DEF Free
    <3>2. sockfd = NoFd
      BY <2>1, <3>1 DEF StaleInWindow
    <3>3. QED  BY <2>1, <3>1, <3>2 DEF closing, number
  <2>3. /\ life["memory"] = "held"
        /\ \A q \in Resource \ {"memory"} : life[q] = "released"
    BY <2>1 DEF life, Resource
  <2>4. /\ UNCHANGED <<desc, timerOn>> /\ object' = "gone"
        /\ pc'["server"] = pc["server"] /\ pc'["session"] = "off"
    BY <1>3, <2>1 DEF Free
  <2>5. life' = [life EXCEPT !["memory"] = "released"]
    BY <2>1, <2>4 DEF life, Resource
  <2>6. number' = number /\ closing' = closing
    BY <1>3 DEF Free, number, closing
  <2>7. QED
    BY <2>2, <2>3, <2>5, <2>6 DEF Lifetime!Next, Lifetime!Free, Lifetime!Held,
       Lifetime!Released, Lifetime!Dropped
<1>4. QED  BY <1>1, <1>2, <1>3 DEF Reaper

LEMMA EnvironmentLife == ASSUME IInv, Environment PROVE Stutter
<1>1. /\ timerOn' = timerOn /\ sockfd' = sockfd /\ pc' = pc /\ object' = object
      /\ desc' = "own" <=> desc = "own"
  BY DEF Environment, Reuse, OtherClose, Tick
<1>2. QED  BY <1>1, SameLife DEF Same

LEMMA InitLife == Init => Lifetime!Init
BY DEF Init, life, number, closing, Resource, Lifetime!Init, Lifetime!Held,
   Lifetime!Unused, Lifetime!Kept

LEMMA StepLife ==
  IInv /\ StaleInWindow /\ [Next]_vars => [Lifetime!Next]_<<life, number, closing>>
<1> SUFFICES ASSUME IInv, StaleInWindow, [Next]_vars PROVE Lifetime!Next \/ Stutter
  BY DEF Stutter
<1>1. CASE UNCHANGED vars
  BY <1>1, SameLife DEF vars, Same
<1>2. CASE Next
  <2> HIDE DEF IInv
  <2> QED
    BY <1>2, ServerLife, CloseLife, RunLife, ReaperLife, EnvironmentLife DEF Next
<1>3. QED  BY <1>1, <1>2

\* A connection takes each of its descriptor, timer, thread and memory at most
\* once and ends each at most once; its number is handed to ::close again only
\* while a thread is between ::close and m_sockfd = -1; and when the memory is
\* freed the number is dropped and no thread is in that place: what the
\* destructors and CSession::close() promise together, under every
\* interleaving of the four threads.
THEOREM Refinement == Spec => ImplementsLifetime
<1> HIDE DEF IInv
<1> QED
  BY InitLife, StepLife, Invariance, StaleOnlyInWindow, PTL
     DEF Spec, ImplementsLifetime, Lifetime!Spec
=============================================================================
