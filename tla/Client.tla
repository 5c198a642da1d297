------------------------------- MODULE Client -------------------------------
(***************************************************************************)
(* One INetClient: CNetClient with CTcpClient or CUdpClient.               *)
(*                                                                         *)
(*   main      the program, which calls the interface in any order         *)
(*   receiver  m_pThread, looping over recv_task; a callback, which is the *)
(*             program's code, may send and close                          *)
(*                                                                         *)
(* Nothing here has a lock. A call that returns without an effect (a test  *)
(* fails, the system refuses) is not a step.                               *)
(***************************************************************************)
EXTENDS Integers

VARIABLES
  type,       \* m_type
  object,     \* the client object: whole, or deleted
  sockfd,     \* m_sockfd
  isConnect,  \* m_isConnect
  attached,   \* isAttach(): m_proc holds the program's callback
  running,    \* m_pThread has been told to run
  desc,       \* what number FD denotes in the process's descriptor table
  timed,      \* the calls the socket has a timeout for: SO_RCVTIMEO, SO_SNDTIMEO
  linked,     \* the socket has a peer that may send
  inbox,      \* something has arrived at the socket
  closed,     \* close() has returned true
  pc          \* where each thread is

client  == <<type, object, sockfd, isConnect>>
thread  == <<attached, running>>
socket  == <<desc, timed, linked, inbox>>
vars == <<client, thread, socket, closed, pc>>

emTCPClient == "tcp"
emUDPClient == "udp"

FD   == 1
NoFd == -1

Thread == {"main", "receiver"}

InClose == {"close", "unbind", "closeFd"}

\* Where a thread executes the program's own code.
Home == [main |-> "idle", receiver |-> "callback"]

Label == InClose \cup
  {"idle", "isAttach", "run", "setConnect", "reading", "astray", "gone",  \* main
   "send", "sendOwn", "sendOther",
   "task", "waiting", "dispatch", "enter", "callback", "wild"}            \* receiver

TypeOK ==
  /\ type \in {emTCPClient, emUDPClient}
  /\ object \in {"whole", "gone"}
  /\ sockfd \in {FD, NoFd}
  /\ desc \in {"none", "own", "free", "other"}
  /\ isConnect \in BOOLEAN /\ attached \in BOOLEAN /\ running \in BOOLEAN
  /\ timed \in SUBSET {"recv", "send"}
  /\ linked \in BOOLEAN /\ inbox \in BOOLEAN
  /\ closed \in BOOLEAN
  /\ pc \in [Thread -> Label]

Init ==
  /\ type \in {emTCPClient, emUDPClient}
  /\ object = "whole" /\ sockfd = NoFd /\ isConnect = FALSE
  /\ attached = FALSE /\ running = FALSE
  /\ desc = "none" /\ timed = {} /\ linked = FALSE /\ inbox = FALSE
  /\ closed = FALSE
  /\ pc = [t \in Thread |-> "idle"]

Goto(t, l) == pc' = [pc EXCEPT ![t] = l]

\* Thread t is about to make a call of the interface.
Calls(t) == object = "whole" /\ pc[t] = Home[t]

\* What a system call given m_sockfd finds.
Denoted == IF sockfd = FD THEN desc ELSE "none"

----------------------------------------------------------------------------
(* Slips the code avoids: each is the definition of the same name, less its *)
(* suffix, with one mistake. No action below uses them.                     *)

ConnectIsAttach_NoRun ==
  /\ pc["main"] = "isAttach"
  /\ Goto("main", IF type = emTCPClient THEN "setConnect" ELSE "idle")
  /\ UNCHANGED <<client, thread, socket, closed>>

CloseHalt_LeftRunning(t) ==
  /\ pc[t] = "close"
  /\ Goto(t, "unbind")
  /\ UNCHANGED <<client, thread, socket, closed>>

CloseUnbind_Kept(t) ==
  /\ pc[t] = "unbind"
  /\ Goto(t, "closeFd")
  /\ UNCHANGED <<client, thread, socket, closed>>

RecvCall_Attached ==
  /\ Calls("main")
  /\ type = emTCPClient => isConnect
  /\ Denoted \in {"own", "other"}
  /\ Goto("main", IF Denoted = "own" THEN "reading" ELSE "astray")
  /\ UNCHANGED <<client, thread, socket, closed>>

----------------------------------------------------------------------------
(* main: init, attach, connect                                             *)

\* Whatever fails after socket() leaves m_sockfd set: init() is then refused.
\* either setsockopt may not have been reached.
InitCall ==
  /\ Calls("main")
  /\ sockfd = NoFd
  /\ sockfd' = FD
  /\ desc' = "own"
  /\ timed' \in {{}, {"recv"}, {"recv", "send"}}
  /\ UNCHANGED <<type, object, isConnect, thread, linked, inbox, closed, pc>>

\* Refused, without effect, once init() has a socket.
Attach ==
  /\ Calls("main")
  /\ sockfd = NoFd /\ ~isConnect /\ ~attached
  /\ attached' = TRUE
  /\ UNCHANGED <<client, running, socket, closed, pc>>

\* CTcpClient::connect: once, and on whatever the number denotes.
TcpConnect ==
  /\ Calls("main")
  /\ type = emTCPClient /\ ~isConnect
  /\ Denoted \in {"own", "other"}
  /\ linked' = (linked \/ Denoted = "own")
  /\ Goto("main", "isAttach")
  /\ UNCHANGED <<client, thread, desc, timed, inbox, closed>>

\* CUdpClient::connect: any number of times, with a socket or without one.
UdpConnect ==
  /\ Calls("main")
  /\ type = emUDPClient
  /\ isConnect' = TRUE
  /\ Goto("main", "isAttach")
  /\ UNCHANGED <<type, object, sockfd, thread, socket, closed>>

ConnectIsAttach ==
  /\ pc["main"] = "isAttach"
  /\ Goto("main", IF attached THEN "run"
                  ELSE IF type = emTCPClient THEN "setConnect" ELSE "idle")
  /\ UNCHANGED <<client, thread, socket, closed>>

ConnectRun ==
  /\ pc["main"] = "run"
  /\ running' = TRUE
  /\ Goto("main", IF type = emTCPClient THEN "setConnect" ELSE "idle")
  /\ UNCHANGED <<client, attached, socket, closed>>

ConnectSet ==
  /\ pc["main"] = "setConnect"
  /\ isConnect' = TRUE
  /\ Goto("main", "idle")
  /\ UNCHANGED <<type, object, sockfd, thread, socket, closed>>

----------------------------------------------------------------------------
(* send and close, by the program or by its callback                       *)

SendCall(t) ==
  /\ Calls(t)
  /\ type = emTCPClient => isConnect
  /\ sockfd = FD
  /\ Goto(t, "send")
  /\ UNCHANGED <<client, thread, socket, closed>>

\* ::send(m_sockfd) starts, or fails at once.
SendStart(t) ==
  /\ pc[t] = "send"
  /\ Goto(t, CASE Denoted = "own"   -> "sendOwn"
               [] Denoted = "other" -> "sendOther"
               [] OTHER             -> "close")
  /\ UNCHANGED <<client, thread, socket, closed>>

InSend(t) == pc[t] \in {"sendOwn", "sendOther"}

\* A part was sent, or a signal came: the loop goes on.
SendMore(t) ==
  /\ InSend(t)
  /\ Goto(t, "send")
  /\ UNCHANGED <<client, thread, socket, closed>>

\* A datagram makes the socket known to the peer.
SendDone(t) ==
  /\ InSend(t)
  /\ linked' = (linked \/ pc[t] = "sendOwn")
  /\ Goto(t, Home[t])
  /\ UNCHANGED <<client, thread, desc, timed, inbox, closed>>

SendFail(t) ==
  /\ InSend(t)
  /\ Goto(t, "close")
  /\ UNCHANGED <<client, thread, socket, closed>>

\* Only the client's own socket, and if it was given one, has a timeout for sure.
SendTimeout(t) ==
  /\ pc[t] = "sendOwn"
  /\ "send" \in timed
  /\ SendFail(t)

CloseCall(t) ==
  /\ Calls(t)
  /\ sockfd = FD
  /\ Goto(t, "close")
  /\ UNCHANGED <<client, thread, socket, closed>>

\* m_pThread->stop() does not wait for a recv_task in progress.
CloseHalt(t) ==
  /\ pc[t] = "close"
  /\ running' = (running /\ ~attached)
  /\ Goto(t, "unbind")
  /\ UNCHANGED <<client, attached, socket, closed>>

CloseUnbind(t) ==
  /\ pc[t] = "unbind"
  /\ attached' = FALSE
  /\ Goto(t, "closeFd")
  /\ UNCHANGED <<client, running, socket, closed>>

\* ::close(m_sockfd); m_sockfd and m_isConnect stay as they are.
CloseFd(t) ==
  /\ pc[t] = "closeFd"
  /\ desc' = "free"
  /\ closed' = TRUE
  /\ Goto(t, Home[t])
  /\ UNCHANGED <<client, thread, timed, linked, inbox>>

----------------------------------------------------------------------------
(* main: recv and the destructor                                           *)

RecvCall ==
  /\ Calls("main")
  /\ type = emTCPClient => isConnect
  /\ ~attached
  /\ Denoted \in {"own", "other"}
  /\ Goto("main", IF Denoted = "own" THEN "reading" ELSE "astray")
  /\ UNCHANGED <<client, thread, socket, closed>>

RecvData ==
  /\ pc["main"] = "reading"
  /\ inbox
  /\ inbox' = FALSE
  /\ Goto("main", "idle")
  /\ UNCHANGED <<client, thread, desc, timed, linked, closed>>

\* A timeout, an error or the end of the stream.
RecvNothing ==
  /\ \/ pc["main"] = "reading" /\ ~inbox
     \/ pc["main"] = "astray"
  /\ Goto("main", "idle")
  /\ UNCHANGED <<client, thread, socket, closed>>

\* ~CNetClient frees m_buffer and the members; the thread is left alone.
Delete ==
  /\ Calls("main")
  /\ object' = "gone"
  /\ Goto("main", "gone")
  /\ UNCHANGED <<type, sockfd, isConnect, thread, socket, closed>>

----------------------------------------------------------------------------
(* receiver: recv_task                                                     *)

Task ==
  /\ object = "whole"
  /\ pc["receiver"] = "idle"
  /\ running
  /\ Goto("receiver", "task")
  /\ UNCHANGED <<client, thread, socket, closed>>

\* ::recv(m_sockfd) starts, or fails at once.
TaskRecv ==
  /\ object = "whole"
  /\ pc["receiver"] = "task"
  /\ Goto("receiver", CASE Denoted = "own"   -> "waiting"
                        [] Denoted = "other" -> "astray"
                        [] OTHER             -> "idle")
  /\ UNCHANGED <<client, thread, socket, closed>>

TaskData ==
  /\ object = "whole"
  /\ pc["receiver"] = "waiting"
  /\ inbox
  /\ inbox' = FALSE
  /\ Goto("receiver", "dispatch")
  /\ UNCHANGED <<client, thread, desc, timed, linked, closed>>

TaskTimeout ==
  /\ object = "whole"
  /\ pc["receiver"] = "waiting"
  /\ "recv" \in timed /\ ~inbox
  /\ Goto("receiver", "idle")
  /\ UNCHANGED <<client, thread, socket, closed>>

\* An error or the end of the stream.
TaskEnd ==
  /\ object = "whole"
  /\ pc["receiver"] = "waiting"
  /\ ~inbox
  /\ Goto("receiver", "idle")
  /\ UNCHANGED <<client, thread, socket, closed>>

TaskAstray ==
  /\ object = "whole"
  /\ pc["receiver"] = "astray"
  /\ \E l \in {"idle", "dispatch"} : Goto("receiver", l)
  /\ UNCHANGED <<client, thread, socket, closed>>

\* m_proc(m_buffer, rlen), without a lock: m_proc is looked up here, and nothing
\* is called when it is unbound,
Dispatch ==
  /\ object = "whole"
  /\ pc["receiver"] = "dispatch"
  /\ Goto("receiver", IF attached THEN "enter" ELSE "idle")
  /\ UNCHANGED <<client, thread, socket, closed>>

\* and what was found is called here, whether or not it is still bound.
Enter ==
  /\ object = "whole"
  /\ pc["receiver"] = "enter"
  /\ Goto("receiver", "callback")
  /\ UNCHANGED <<client, thread, socket, closed>>

CallbackReturn ==
  /\ object = "whole"
  /\ pc["receiver"] = "callback"
  /\ Goto("receiver", "idle")
  /\ UNCHANGED <<client, thread, socket, closed>>

\* Whatever the thread does next, it does with a deleted client.
Wild ==
  /\ object = "gone"
  /\ running \/ pc["receiver"] # "idle"
  /\ pc["receiver"] # "wild"
  /\ Goto("receiver", "wild")
  /\ UNCHANGED <<client, thread, socket, closed>>

----------------------------------------------------------------------------
(* The peer and the rest of the process                                    *)

Arrive ==
  /\ linked /\ ~inbox
  /\ desc = "own" \/ pc["main"] = "reading" \/ pc["receiver"] = "waiting"
  /\ inbox' = TRUE
  /\ UNCHANGED <<client, thread, desc, timed, linked, closed, pc>>

Reuse ==
  /\ desc = "free"
  /\ desc' = "other"
  /\ UNCHANGED <<client, thread, timed, linked, inbox, closed, pc>>

OtherClose ==
  /\ desc = "other"
  /\ desc' = "free"
  /\ UNCHANGED <<client, thread, timed, linked, inbox, closed, pc>>

Connect  == TcpConnect \/ UdpConnect
Connecting == ConnectIsAttach \/ ConnectRun \/ ConnectSet
Whole(t) == t = "receiver" => object = "whole"
Sending(t) == Whole(t) /\ (SendStart(t) \/ SendTimeout(t))
SendEnd(t) == Whole(t) /\ (SendMore(t) \/ SendDone(t) \/ SendFail(t))
Closing(t) == Whole(t) /\ (CloseHalt(t) \/ CloseUnbind(t) \/ CloseFd(t))
Receive  == Task \/ TaskRecv \/ TaskData \/ TaskTimeout \/ Dispatch \/ Enter

Next ==
  \/ InitCall \/ Attach
  \/ Connect \/ Connecting
  \/ \E t \in Thread : SendCall(t) \/ Sending(t) \/ SendEnd(t)
                      \/ CloseCall(t) \/ Closing(t)
  \/ RecvCall \/ RecvData \/ RecvNothing
  \/ Delete
  \/ Receive \/ TaskEnd \/ TaskAstray \/ CallbackReturn \/ Wild
  \/ Arrive \/ Reuse \/ OtherClose

Spec == Init /\ [][Next]_vars

(***************************************************************************)
(* A call that has begun goes on, but a send or a recv may wait for ever   *)
(* unless it is on the client's own socket and that has a timeout for it.  *)
(* The thread runs while it is told to, a callback returns (between the    *)
(* calls it makes, hence the strong form). The program need not call       *)
(* anything, nor the peer send.                                            *)
(***************************************************************************)
Fairness ==
  /\ WF_vars(Connecting)
  /\ \A t \in Thread : WF_vars(Sending(t)) /\ WF_vars(Closing(t))
  /\ WF_vars(Receive) /\ SF_vars(CallbackReturn)

FairSpec == Spec /\ Fairness

----------------------------------------------------------------------------
(* Properties                                                              *)

\* The thread waits for ever in a send() that its callback has made.
Stuck == [](InSend("receiver") \/ pc["receiver"] = "send")

\* The thread is kept for ever by a descriptor that is somebody else's.
Kept == [](pc["receiver"] \in {"astray", "send", "sendOther"})

\* What arrives for a connected client with a callback is handed to the
\* callback, however late init(), attach() and connect() were called.
Delivered ==
  (inbox /\ desc = "own" /\ attached /\ isConnect)
    ~> (pc["receiver"] = "callback" \/ closed \/ object = "gone" \/ Stuck)

\* recv() and recv_task never wait on the socket at once, so that a packet goes
\* to the one that was asked for: recv() is refused while there is a callback,
\* and once close() has unbound it recv_task has no socket to wait on.
OneReader == ~ (pc["main"] = "reading" /\ pc["receiver"] = "waiting")

\* Once close() has returned recv_task finds no callback for what it receives,
\* or had received before. Of the calls of the callback only the one it had
\* found m_proc for earlier may still begin: close() waits for nothing.
LastCall ==
  [][closed /\ pc["receiver"] # "enter" => pc'["receiver"] # "enter"]_vars

\* A TCP client with timeouts that has been closed stops receiving, though
\* close() does not wait and can be called by the receiving thread itself. Not
\* so when the thread has gone to recv or send with the number of a socket that
\* is closed by now and is somebody else's: that may keep it for ever.
CloseEndsReceiver ==
  (closed /\ timed = {"recv", "send"} /\ type = emTCPClient)
    ~> \/ ~running /\ pc["receiver"] = "idle"
       \/ object = "gone"
       \/ Kept
=============================================================================
