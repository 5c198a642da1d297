------------------------------ MODULE Session ------------------------------
(***************************************************************************)
(* The life of one accepted connection of the server: the CSession and     *)
(* IProtocol objects made for it and the four threads that touch them      *)
(* without a lock.                                                         *)
(*                                                                         *)
(*   server   CTcpServer's accept thread, in ITerminal::serverTask: creates*)
(*            session and protocol, starts the session thread, publishes   *)
(*   session  IProtocol::sessionTask: receives, calls parse(), and from    *)
(*            parse() logs in and out, keeps alive, sends                  *)
(*   timer    CSession::timerProc, every Period seconds                    *)
(*   reaper   whoever runs `delete p' under m_mutex: managerTask when the  *)
(*            session is invalid, or ITerminal::stop                       *)
(*                                                                         *)
(* A step is one access to a shared member, or one system call together    *)
(* with the load of its argument.                                          *)
(***************************************************************************)
EXTENDS Integers

CONSTANTS
  Timeout,   \* timeout given to ITerminal::init, in seconds; -1 is none
  Period     \* period of m_timer, in seconds: 3

ASSUME SessionAssumption ==
  /\ Timeout \in Nat \cup {-1}
  /\ Period \in Nat \ {0}

\* enum state_t: login() and sessionTask() compare with <, so the order counts.
emStateCreated == 0
emStateLogout  == 1
emStateLogin   == 2
emStateClose   == 3

FD   == 1     \* the number accept() returned for this connection
NoFd == -1

VARIABLES
  state,      \* CSession::m_state
  sockfd,     \* CSession::m_sockfd
  quiet,      \* seconds since CSession::m_lastTime, counted up to Timeout
  timerOn,    \* m_timer.isRun()
  timerLeft,  \* seconds until m_timer expires
  recvTimeo,  \* SO_RCVTIMEO has been set
  sendTimeo,  \* SO_SNDTIMEO has been set
  desc,       \* what number FD denotes in the process's descriptor table
  object,     \* the protocol: derived class alive, base class only, freed
  listed,     \* in ITerminal::m_listProtocol
  attached,   \* sessionTask is attached to the session thread
  pc,         \* where each thread is
  ret         \* where each thread goes when close() returns

session  == <<state, sockfd, quiet>>
timer    == <<timerOn, timerLeft, recvTimeo, sendTimeo>>
protocol == <<object, listed, attached>>
vars == <<session, timer, desc, protocol, pc, ret>>

\* timerProc compares m_lastTime + m_timeout with the time: how much later
\* than that it is makes no difference.
Limit == IF Timeout > 0 THEN Timeout ELSE 0

Thread == {"server", "session", "timer", "reaper"}

\* The threads that can run close().
Closer == {"session", "timer", "reaper"}

\* The labels of close(), which any of three threads may be executing.
InClose == {"close", "switch", "closeLogout", "closeLogoutSet",
            "fdCheck", "fdClose", "fdClear", "setClose"}

Label == InClose \cup
  {"set", "stamp", "construct", "push", "done",             \* serverTask
   "off", "idle", "recv", "recvOwn", "recvOther", "dispatch", "abort",
   "parse", "login", "loginSet", "keepAlive",               \* sessionTask, parse
   "send", "sending", "sendOwn", "sendOther",               \* send
   "logout", "logoutSet",                                   \* logout
   "timerCheck", "timerState",                              \* timerProc
   "detach", "join", "free"}                                \* ~IProtocol

TypeOK ==
  /\ state \in emStateCreated .. emStateClose
  /\ sockfd \in {FD, NoFd}
  /\ quiet \in 0 .. Limit
  /\ timerOn \in BOOLEAN
  /\ timerLeft \in 0 .. Period
  /\ recvTimeo \in BOOLEAN
  /\ sendTimeo \in BOOLEAN
  /\ desc \in {"own", "free", "other"}
  /\ object \in {"none", "whole", "base", "gone"}
  /\ listed \in BOOLEAN
  /\ attached \in BOOLEAN
  /\ pc \in [Thread -> Label]
  /\ ret \in [Thread -> {"idle", "parse", "detach", "free"}]

Goto(t, l) == pc' = [pc EXCEPT ![t] = l] /\ UNCHANGED ret

CallClose(t, l) ==
  /\ pc' = [pc EXCEPT ![t] = "close"]
  /\ ret' = [ret EXCEPT ![t] = l]

Init ==
  /\ state = emStateCreated /\ sockfd = NoFd
  /\ quiet = Limit                        \* m_lastTime(0) is long ago
  /\ timerOn = FALSE /\ timerLeft = 0
  /\ recvTimeo = FALSE /\ sendTimeo = FALSE
  /\ desc = "own"
  /\ object = "none" /\ listed = FALSE /\ attached = FALSE
  /\ pc = [t \in Thread |-> CASE t = "server"  -> "set"
                              [] t = "session" -> "off"
                              [] OTHER         -> "idle"]
  /\ ret = [t \in Thread |-> "idle"]

----------------------------------------------------------------------------
(* Slips the code avoids: each is the definition of the same name, less its *)
(* suffix, with one mistake. No action below uses them.                     *)

CloseFdClear_Forgotten(t) ==
  /\ pc[t] = "fdClear"
  /\ Goto(t, "setClose")
  /\ UNCHANGED <<session, timer, desc, protocol>>

CloseSwitch_NoCreated(t) ==
  /\ pc[t] = "switch"
  /\ Goto(t, CASE state = emStateLogin   -> "closeLogout"
               [] state = emStateLogout  -> "fdCheck"
               [] state = emStateCreated -> "setClose"
               [] OTHER -> ret[t])
  /\ UNCHANGED <<session, timer, desc, protocol>>

RecvTimeout_OnlyGiven ==
  /\ pc["session"] = "recvOwn"
  /\ recvTimeo /\ Timeout > 0
  /\ Goto("session", "idle")
  /\ UNCHANGED <<session, timer, desc, protocol>>

LoginCheck_Closed ==
  /\ pc["session"] = "parse"
  /\ state # emStateLogin
  /\ Goto("session", "login")
  /\ UNCHANGED <<session, timer, desc, protocol>>

isInvalid_Logout == state = emStateLogout

isInvalid_Close == state = emStateClose

Join_AtOnce ==
  /\ pc["reaper"] = "join"
  /\ CallClose("reaper", "free")
  /\ UNCHANGED <<session, timer, desc, protocol>>

----------------------------------------------------------------------------
(* server thread: ISession::create, createProtocol, start, push_back       *)

\* CSession::set up to m_timer.run(). A setsockopt that fails leaves early:
\* the first sets the timeout of recv, the second that of send.
Set(ok) ==
  /\ pc["server"] = "set"
  /\ sockfd' = FD
  /\ state' = IF Timeout = -1 THEN emStateLogin ELSE state
  /\ timerOn' = (ok /\ Timeout > 0)
  /\ timerLeft' = IF timerOn' THEN Period ELSE timerLeft
  /\ recvTimeo' \in {TRUE, ok}
  /\ sendTimeo' = ok
  /\ Goto("server", IF ok THEN "stamp" ELSE "construct")
  /\ UNCHANGED <<quiet, desc, protocol>>

\* The end of CSession::set: the timer is already running.
SetStamp ==
  /\ pc["server"] = "stamp"
  /\ quiet' = 0
  /\ Goto("server", "construct")
  /\ UNCHANGED <<state, sockfd, timer, desc, protocol>>

\* createProtocol() and p->start(): the session thread runs from here on.
Construct ==
  /\ pc["server"] = "construct"
  /\ object' = "whole"
  /\ attached' = TRUE
  /\ pc' = [pc EXCEPT !["server"] = "push", !["session"] = "idle"]
  /\ UNCHANGED <<session, timer, desc, listed, ret>>

PushBack ==
  /\ pc["server"] = "push"
  /\ listed' = TRUE
  /\ Goto("server", "done")
  /\ UNCHANGED <<session, timer, desc, object, attached>>

----------------------------------------------------------------------------
(* CSession::close(), executed by thread t                                 *)

CloseTimer(t) ==
  /\ pc[t] = "close"
  /\ timerOn' = (timerOn /\ ~(Timeout > 0))
  /\ Goto(t, "switch")
  /\ UNCHANGED <<session, timerLeft, recvTimeo, sendTimeo, desc, protocol>>

CloseSwitch(t) ==
  /\ pc[t] = "switch"
  /\ Goto(t, CASE state = emStateLogin -> "closeLogout"
               [] state \in {emStateLogout, emStateCreated} -> "fdCheck"
               [] OTHER -> ret[t])
  /\ UNCHANGED <<session, timer, desc, protocol>>

\* CSession::logout(): tested at label `at', assigned at label `set'.
Logout(t, at, set, next) ==
  /\ \/ /\ pc[t] = at
        /\ Goto(t, IF state = emStateLogin THEN set ELSE next)
        /\ UNCHANGED state
     \/ /\ pc[t] = set
        /\ state' = emStateLogout
        /\ Goto(t, next)
  /\ UNCHANGED <<sockfd, quiet, timer, desc, protocol>>

CloseFdCheck(t) ==
  /\ pc[t] = "fdCheck"
  /\ Goto(t, IF sockfd >= 0 THEN "fdClose" ELSE "setClose")
  /\ UNCHANGED <<session, timer, desc, protocol>>

\* ::close(m_sockfd). It ends whatever the number denotes at that moment.
CloseFd(t) ==
  /\ pc[t] = "fdClose"
  /\ desc' = IF sockfd = FD THEN "free" ELSE desc
  /\ Goto(t, "fdClear")
  /\ UNCHANGED <<session, timer, protocol>>

CloseFdClear(t) ==
  /\ pc[t] = "fdClear"
  /\ sockfd' = NoFd
  /\ Goto(t, "setClose")
  /\ UNCHANGED <<state, quiet, timer, desc, protocol>>

CloseSet(t) ==
  /\ pc[t] = "setClose"
  /\ state' = emStateClose
  /\ Goto(t, ret[t])
  /\ UNCHANGED <<sockfd, quiet, timer, desc, protocol>>

Close(t) ==
  \/ CloseTimer(t)
  \/ CloseSwitch(t)
  \/ Logout(t, "closeLogout", "closeLogoutSet", "fdCheck")
  \/ CloseFdCheck(t)
  \/ CloseFd(t)
  \/ CloseFdClear(t)
  \/ CloseSet(t)

----------------------------------------------------------------------------
(* session thread: IProtocol::sessionTask                                  *)

\* A call with the session closed returns at once, which changes nothing.
SessionTask ==
  /\ pc["session"] = "idle"
  /\ attached
  /\ state < emStateClose
  /\ Goto("session", "recv")
  /\ UNCHANGED <<session, timer, desc, protocol>>

\* What m_sockfd denotes at this moment: -1 and a free number, nothing.
Denoted == IF sockfd = FD THEN desc ELSE "free"

\* ::recv(m_sockfd) starts: EBADF, or it waits on what the number denotes.
RecvCall ==
  /\ pc["session"] = "recv"
  /\ Goto("session", CASE Denoted = "own"   -> "recvOwn"
                       [] Denoted = "other" -> "recvOther"
                       [] OTHER             -> "idle")
  /\ UNCHANGED <<session, timer, desc, protocol>>

\* SO_RCVTIMEO of the connection's own socket runs out; unset, or 0 seconds, it
\* makes recv wait for ever. What another socket has nobody knows.
RecvTimeout ==
  /\ pc["session"] = "recvOwn"
  /\ recvTimeo /\ Timeout # 0
  /\ Goto("session", "idle")
  /\ UNCHANGED <<session, timer, desc, protocol>>

InRecv == pc["session"] \in {"recvOwn", "recvOther"}

RecvError ==
  /\ InRecv
  /\ Goto("session", "idle")
  /\ UNCHANGED <<session, timer, desc, protocol>>

\* recv returned 0: the peer is gone.
RecvEof ==
  /\ InRecv
  /\ IF state = emStateClose
       THEN Goto("session", "idle")
       ELSE CallClose("session", "idle")
  /\ UNCHANGED <<session, timer, desc, protocol>>

RecvData ==
  /\ InRecv
  /\ Goto("session", IF state = emStateClose THEN "idle" ELSE "dispatch")
  /\ UNCHANGED <<session, timer, desc, protocol>>

\* The virtual call of parse(): pure once the derived class is destroyed.
Dispatch ==
  /\ pc["session"] = "dispatch"
  /\ Goto("session", IF object = "whole" THEN "parse" ELSE "abort")
  /\ UNCHANGED <<session, timer, desc, protocol>>

\* parse() returns how much more to receive; 0 ends sessionTask.
ParseReturn ==
  /\ pc["session"] = "parse"
  /\ \E l \in {"recv", "idle"} : Goto("session", l)
  /\ UNCHANGED <<session, timer, desc, protocol>>

\* CSession::login(), called from parse().
LoginCheck ==
  /\ pc["session"] = "parse"
  /\ state < emStateLogin
  /\ Goto("session", "login")
  /\ UNCHANGED <<session, timer, desc, protocol>>

LoginStamp ==
  /\ pc["session"] = "login"
  /\ quiet' = 0
  /\ Goto("session", "loginSet")
  /\ UNCHANGED <<state, sockfd, timer, desc, protocol>>

LoginSet ==
  /\ pc["session"] = "loginSet"
  /\ state' = emStateLogin
  /\ Goto("session", "parse")
  /\ UNCHANGED <<sockfd, quiet, timer, desc, protocol>>

\* CSession::keepAlive(), called from parse().
KeepAliveCheck ==
  /\ pc["session"] = "parse"
  /\ state = emStateLogin
  /\ Goto("session", "keepAlive")
  /\ UNCHANGED <<session, timer, desc, protocol>>

KeepAliveStamp ==
  /\ pc["session"] = "keepAlive"
  /\ quiet' = 0
  /\ Goto("session", "parse")
  /\ UNCHANGED <<state, sockfd, timer, desc, protocol>>

ParseLogout ==
  /\ pc["session"] = "parse"
  /\ Goto("session", "logout")
  /\ UNCHANGED <<session, timer, desc, protocol>>

\* IProtocol::send() from parse(), then CSession::send(): a failure closes
\* a session that has no timeout.
SendCheck ==
  /\ pc["session"] = "parse"
  /\ state < emStateClose
  /\ Goto("session", "send")
  /\ UNCHANGED <<session, timer, desc, protocol>>

SendFd ==
  /\ pc["session"] = "send"
  /\ Goto("session", IF sockfd = FD THEN "sending" ELSE "parse")
  /\ UNCHANGED <<session, timer, desc, protocol>>

SendFail == IF Timeout = -1 THEN CallClose("session", "parse")
                            ELSE Goto("session", "parse")

\* ::send(m_sockfd) starts, on what the number denotes by now.
SendCall ==
  /\ pc["session"] = "sending"
  /\ \/ Denoted = "own"   /\ Goto("session", "sendOwn")
     \/ Denoted = "other" /\ Goto("session", "sendOther")
     \/ Denoted = "free"  /\ SendFail
  /\ UNCHANGED <<session, timer, desc, protocol>>

SendEnd(ok) ==
  /\ pc["session"] \in {"sendOwn", "sendOther"}
  /\ IF ok THEN Goto("session", "parse") ELSE SendFail
  /\ UNCHANGED <<session, timer, desc, protocol>>

\* A part was sent, or a signal came: the loop loads m_sockfd again.
SendMore ==
  /\ pc["session"] \in {"sendOwn", "sendOther"}
  /\ Goto("session", "sending")
  /\ UNCHANGED <<session, timer, desc, protocol>>

\* SO_SNDTIMEO runs out, as SO_RCVTIMEO does.
SendTimeout ==
  /\ pc["session"] = "sendOwn"
  /\ sendTimeo /\ Timeout # 0
  /\ SendEnd(FALSE)

Parse ==
  \/ LoginCheck \/ LoginStamp \/ LoginSet
  \/ KeepAliveCheck \/ KeepAliveStamp
  \/ ParseLogout \/ Logout("session", "logout", "logoutSet", "parse")
  \/ SendCheck \/ SendFd \/ SendCall

----------------------------------------------------------------------------
(* timer thread: CSession::timerProc                                       *)

Expire ==
  /\ pc["timer"] = "idle"
  /\ timerOn
  /\ timerLeft = 0
  /\ timerLeft' = Period
  /\ Goto("timer", "timerCheck")
  /\ UNCHANGED <<session, timerOn, recvTimeo, sendTimeo, desc, protocol>>

TimerCheck ==
  /\ pc["timer"] = "timerCheck"
  /\ Goto("timer", IF quiet >= Timeout THEN "timerState" ELSE "idle")
  /\ UNCHANGED <<session, timer, desc, protocol>>

TimerState ==
  /\ pc["timer"] = "timerState"
  /\ IF state # emStateCreated
       THEN Goto("timer", "logout")
       ELSE CallClose("timer", "idle")
  /\ UNCHANGED <<session, timer, desc, protocol>>

TimerProc ==
  \/ TimerCheck
  \/ TimerState
  \/ Logout("timer", "logout", "logoutSet", "idle")

----------------------------------------------------------------------------
(* reaper: `delete p', the destructors of the derived class, IProtocol and *)
(* CSession                                                                *)

\* IProtocol::isInvalid
isInvalid == state \in {emStateClose, emStateLogout}

\* managerTask erases and deletes an invalid protocol.
Reap ==
  /\ pc["reaper"] = "idle"
  /\ listed
  /\ isInvalid
  /\ listed' = FALSE
  /\ object' = "base"
  /\ CallClose("reaper", "detach")
  /\ UNCHANGED <<session, timer, desc, attached>>

\* ITerminal::stop deletes every listed protocol, valid or not.
StopDelete ==
  /\ pc["reaper"] = "idle"
  /\ listed
  /\ listed' = FALSE
  /\ object' = "base"
  /\ CallClose("reaper", "detach")
  /\ UNCHANGED <<session, timer, desc, attached>>

Detach ==
  /\ pc["reaper"] = "detach"
  /\ attached' = FALSE
  /\ Goto("reaper", "join")
  /\ UNCHANGED <<session, timer, desc, object, listed>>

\* m_thread.stop(true) returns when no call of sessionTask is in progress;
\* m_session->destroy() then runs close() again in ~CSession.
Join ==
  /\ pc["reaper"] = "join"
  /\ pc["session"] = "idle"
  /\ pc' = [pc EXCEPT !["reaper"] = "close", !["session"] = "off"]
  /\ ret' = [ret EXCEPT !["reaper"] = "free"]
  /\ UNCHANGED <<session, timer, desc, protocol>>

\* ~CTimer waits for a timerProc in progress; then the memory is released.
Free ==
  /\ pc["reaper"] = "free"
  /\ pc["timer"] = "idle"
  /\ object' = "gone"
  /\ Goto("reaper", "done")
  /\ UNCHANGED <<session, timer, desc, listed, attached>>

----------------------------------------------------------------------------
(* The rest of the process, and time                                       *)

\* Another accept() or socket() is given the free number, and closes it.
Reuse ==
  /\ desc = "free"
  /\ desc' = "other"
  /\ UNCHANGED <<session, timer, protocol, pc, ret>>

OtherClose ==
  /\ desc = "other"
  /\ desc' = "free"
  /\ UNCHANGED <<session, timer, protocol, pc, ret>>

Tick ==
  /\ quiet' = IF quiet < Limit THEN quiet + 1 ELSE quiet
  /\ timerLeft' = IF timerOn /\ timerLeft > 0 THEN timerLeft - 1 ELSE timerLeft
  /\ UNCHANGED <<state, sockfd, timerOn, recvTimeo, sendTimeo, desc, protocol, pc, ret>>

Server == (\E ok \in BOOLEAN : Set(ok)) \/ SetStamp \/ Construct \/ PushBack
Recv   == RecvTimeout \/ RecvError \/ RecvEof \/ RecvData
Send   == SendTimeout \/ SendMore \/ \E ok \in BOOLEAN : SendEnd(ok)
Reaper == Reap \/ StopDelete \/ Detach \/ Join \/ Free
Environment == Reuse \/ OtherClose \/ Tick

Next ==
  \/ Server
  \/ \E t \in Closer : Close(t)
  \/ SessionTask \/ RecvCall \/ Recv \/ Dispatch \/ Parse \/ Send \/ ParseReturn
  \/ Expire \/ TimerProc
  \/ Reaper
  \/ Environment

Spec == Init /\ [][Next]_vars

(***************************************************************************)
(* Every thread is scheduled: a step it can take for ever is taken. recv   *)
(* and send on the connection's own socket end by its timeouts, if these   *)
(* are set and not 0; on another's socket nothing obliges them to end.     *)
(* parse() is a function that returns (it is entered and left by its       *)
(* calls, hence the strong form), time passes, the timer library calls     *)
(* back, and the manager sweeps every second: a session that stays invalid *)
(* is reaped. Nothing is assumed of the peer or of ITerminal::stop.        *)
(***************************************************************************)
Fairness ==
  /\ WF_vars(Server)
  /\ \A t \in Closer : WF_vars(Close(t))
  /\ WF_vars(RecvCall) /\ WF_vars(RecvTimeout) /\ WF_vars(Dispatch)
  /\ WF_vars(Parse) /\ WF_vars(SendTimeout) /\ SF_vars(ParseReturn)
  /\ WF_vars(Expire) /\ WF_vars(TimerProc)
  /\ WF_vars(Reap) /\ WF_vars(Detach) /\ WF_vars(Join) /\ WF_vars(Free)
  /\ WF_vars(Tick)

FairSpec == Spec /\ Fairness

----------------------------------------------------------------------------
(* Properties                                                              *)

\* Once `delete p' has returned nothing of the connection is left: its socket
\* is closed, its timer is stopped and no thread is inside its code. The
\* order of ~IProtocol and ~CSession has to bring this about.
FreedIsQuiet ==
  object = "gone" =>
    /\ desc # "own"
    /\ ~timerOn
    /\ pc["session"] = "off"
    /\ pc["timer"] = "idle"

\* A session that says it is closed has released its socket, whichever threads
\* ran close() and however they interleaved.
ClosedReleased == state = emStateClose => desc # "own"

\* A session the manager believes logged in still has its socket: otherwise it
\* can neither receive nor expire and keeps its place in the list for ever.
NoZombie ==
  listed /\ state = emStateLogin => sockfd = FD

Aborted == pc["session"] = "abort"

\* The socket ends a recv or a send by itself. Not so with a timeout of 0, which
\* means for ever, nor after a setsockopt that was refused.
Timed == recvTimeo /\ sendTimeo /\ Timeout # 0

\* The session thread waits on a descriptor that is not its connection's: it
\* loaded m_sockfd while another thread was closing the session.
Astray == pc["session"] \in {"recvOther", "sendOther"}

\* The manager removes every closed session whose socket has its timeouts. This
\* is said of sessions without a timer (Timeout <= 0): the timer may close one
\* under login(), which makes a zombie of it (NoZombie).
ClosedIsReaped ==
  (listed /\ state = emStateClose /\ Timed) ~> (object = "gone" \/ Aborted)

\* `delete p' returns although the session thread may be blocked in recv or send
\* on the socket: it has to wait for their timeouts. It need not return when
\* these are not set or 0, when parse() is called pure, and when the session
\* thread has gone astray to somebody else's socket and never comes back.
DeleteReturns ==
  (object = "base" /\ Timed) ~> (object = "gone" \/ Aborted \/ []Astray)

\* A logged in session whose timer runs leaves the list once it has been quiet
\* for Timeout seconds, unless it is kept alive or logs in again.
IdleIsReaped ==
  (listed /\ timerOn /\ state = emStateLogin /\ quiet >= Timeout)
    ~> (quiet < Timeout \/ ~listed \/ Aborted)

\* close() ends the descriptor of its own connection and no other.
ClosesOwn ==
  [][\A t \in Thread : pc[t] = "fdClose" /\ pc'[t] # "fdClose" /\ sockfd = FD
        => desc # "other"]_vars

----------------------------------------------------------------------------
(* What a connection is made of, and when it has each part                 *)

Resource == {"descriptor", "timer", "thread", "memory"}

life == [
  descriptor |-> IF desc = "own" THEN "held" ELSE "released",
  timer      |-> IF timerOn THEN "held"
                 ELSE IF pc["server"] = "set" THEN "unused"
                 ELSE "released",
  thread     |-> IF pc["session"] # "off" THEN "held"
                 ELSE IF object = "none" THEN "unused"
                 ELSE "released",
  memory     |-> IF object = "gone" THEN "released" ELSE "held"]

\* m_sockfd, which CloseFdClear sets to -1.
number == IF sockfd = NoFd /\ pc["server"] # "set" THEN "dropped" ELSE "kept"

closing == {t \in Closer : pc[t] = "fdClear"}

Lifetime == INSTANCE Lifetime WITH
  Thread <- Closer, Resource <- Resource, Given <- {"descriptor", "memory"},
  memory <- "memory", descriptor <- "descriptor",
  life <- life, number <- number, closing <- closing

\* The threads of a connection, closing it and racing, never take a part again,
\* never end the timer, the thread or the socket twice, never hand the number of
\* the socket to ::close again except while a thread is between ::close and
\* m_sockfd = -1, and free the memory when all this is over.
ImplementsLifetime == Lifetime!Spec
============================================================================
