------------------------------- MODULE Stream -------------------------------
(***************************************************************************)
(* The bytes of one connection: a program with a CTcpClient, the network,  *)
(* and a session whose protocol, like the one of main.cpp, sends back what *)
(* it is given.                                                            *)
(*                                                                         *)
(*   client  the program: send(), recv(), close(), one at a time           *)
(*   server  the session's thread: sessionTask, parse(), send()            *)
(*                                                                         *)
(* A byte is its number in the client's stream. TCP delivers the bytes of  *)
(* a direction in order and in pieces of any size. A call that a signal    *)
(* interrupts is made again, which is no step. Where a session thread      *)
(* meets the others within a call is module Session: here a session is     *)
(* open or closed.                                                         *)
(***************************************************************************)
EXTENDS Integers, Sequences

CONSTANTS
  Bytes,     \* how many bytes the client sends at most
  MsgLen,    \* how many of them one send() is given at most
  Window, BackWindow,  \* how many the sockets hold: to the server, to the client
  RecvLen,   \* m_recvLen
  Result,    \* what parse() may return
  SizeMax    \* a size_t is one of 0 .. SizeMax - 1

ASSUME StreamAssumption ==
  /\ Bytes \in Nat
  /\ MsgLen \in Nat \ {0}
  /\ Window \in Nat \ {0} /\ BackWindow \in Nat \ {0}
  /\ RecvLen \in Nat \ {0}
  /\ Result \subseteq Int
  /\ SizeMax \in Nat \ {0}

VARIABLES
  noTimeout,  \* the session's m_timeout is -1
  sndTimeo,   \* its socket has SO_SNDTIMEO: set() was given a timeout that is
              \* not 0, or none, and setsockopt() has not failed
  handed,     \* how many bytes the program has handed to send()
  unsent,     \* the client's send(): the bytes from p on
  up, down,   \* the bytes on their way to the server, to the client
  got,        \* what recv() has given to the program
  open,       \* the session: m_sockfd >= 0, m_state is not emStateClose
  reset,      \* the connection has been reset
  recvLen,    \* of sessionTask
  piece,      \* m_pBuffer: what parse() is about to be given
  heard,      \* what parse() has been given
  unechoed,   \* CSession::send: the bytes from p on
  asked,      \* what parse() has asked for and not been given since
  forgot,     \* a recv() has ended with nothing since parse() asked
  pc

clientSide == <<handed, unsent, got>>
network    == <<up, down, reset>>
mode       == <<noTimeout, sndTimeo>>
session    == <<mode, open, recvLen, piece, heard, unechoed>>
history    == <<asked, forgot>>
vars == <<clientSide, network, session, history, pc>>

Text == Seq(1 .. Bytes)

TypeOK ==
  /\ noTimeout \in BOOLEAN /\ sndTimeo \in BOOLEAN
  /\ open \in BOOLEAN /\ reset \in BOOLEAN /\ forgot \in BOOLEAN
  /\ handed \in 0 .. Bytes
  /\ unsent \in Text /\ up \in Text /\ down \in Text /\ got \in Text
  /\ piece \in Text /\ heard \in Text /\ unechoed \in Text
  /\ Len(up) <= Window /\ Len(down) <= BackWindow
  /\ recvLen \in 0 .. RecvLen /\ asked \in 0 .. RecvLen
  /\ pc \in [client : {"idle", "send", "recv", "end"},
             server : {"idle", "recv", "parse", "send", "return", "killed"}]

Init ==
  /\ noTimeout \in BOOLEAN /\ sndTimeo \in BOOLEAN
  /\ handed = 0 /\ unsent = <<>> /\ got = <<>>
  /\ up = <<>> /\ down = <<>> /\ reset = FALSE
  /\ open = TRUE /\ recvLen = 0
  /\ piece = <<>> /\ heard = <<>> /\ unechoed = <<>>
  /\ asked = 0 /\ forgot = FALSE
  /\ pc = [client |-> "idle", server |-> "idle"]

Goto(t, l) == pc' = [pc EXCEPT ![t] = l]

Least(a, b) == IF a < b THEN a ELSE b

First(n, s) == SubSeq(s, 1, n)
After(n, s) == SubSeq(s, n + 1, Len(s))

\* The cast of an int to size_t.
AsSize(i) == i % SizeMax

\* A system call in progress keeps a socket that has been closed.
Gone == ~open /\ pc.server \notin {"recv", "send"}

----------------------------------------------------------------------------
(* Slips the code avoids: each is the definition of the same name, less its *)
(* suffix, with one mistake. No action below uses them.                     *)

SendSome_NoAdvance ==
  /\ pc.client = "send" /\ ~reset
  /\ \E n \in 1 .. Least(Len(unsent), Window - Len(up)) :
       /\ up' = up \o First(n, unsent)
       /\ unsent' = First(Len(unsent) - n, unsent)
  /\ IF unsent' = <<>> THEN Goto("client", "idle") ELSE UNCHANGED pc
  /\ UNCHANGED <<handed, got, down, reset, session, history>>

TaskEnd_StaysOpen ==
  /\ pc.server = "recv"
  /\ up = <<>> /\ (pc.client = "end" \/ reset)
  /\ Goto("server", "idle")
  /\ UNCHANGED <<clientSide, network, session, history>>

ParseReturn_Unclipped ==
  /\ pc.server = "return"
  /\ \E r \in Result :
       /\ recvLen' = AsSize(r)
       /\ asked' = Least(recvLen', RecvLen)
  /\ Goto("server", IF recvLen' > 0 /\ open THEN "recv" ELSE "idle")
  /\ UNCHANGED <<clientSide, network, mode, open, piece, heard, unechoed, forgot>>

ParseReturn_Any ==
  /\ pc.server = "return"
  /\ \E r \in Result :
       /\ recvLen' = IF r = 0 THEN 0 ELSE RecvLen
       /\ asked' = Least(AsSize(r), RecvLen)
  /\ Goto("server", IF recvLen' > 0 /\ open THEN "recv" ELSE "idle")
  /\ UNCHANGED <<clientSide, network, mode, open, piece, heard, unechoed, forgot>>

EchoSome_Once ==
  /\ pc.server = "send" /\ ~reset
  /\ \E n \in 1 .. Least(Len(unechoed), BackWindow - Len(down)) :
       down' = down \o First(n, unechoed)
  /\ unechoed' = <<>>
  /\ Goto("server", "return")
  /\ UNCHANGED <<clientSide, up, reset, mode, open, recvLen, piece, heard, history>>

EchoFail_StaysOpen ==
  /\ unechoed' = <<>>
  /\ Goto("server", "return")
  /\ UNCHANGED <<clientSide, network, mode, open, recvLen, piece, heard, history>>

EchoTimeout_OnlyGiven ==
  /\ pc.server = "send" /\ ~reset /\ sndTimeo /\ ~noTimeout
  /\ Len(down) = BackWindow
  /\ unechoed' = <<>>
  /\ Goto("server", "return")
  /\ UNCHANGED <<clientSide, network, mode, open, recvLen, piece, heard, history>>

----------------------------------------------------------------------------
(* client: CNetClient::send                                                *)

SendCall ==
  /\ pc.client = "idle"
  /\ \E n \in 1 .. MsgLen :
       /\ handed + n <= Bytes
       /\ unsent' = [i \in 1 .. n |-> handed + i]
       /\ handed' = handed + n
  /\ Goto("client", "send")
  /\ UNCHANGED <<got, network, session, history>>

\* ::send takes as many bytes as there is room for; with none left send()
\* returns 0.
SendSome ==
  /\ pc.client = "send" /\ ~reset
  /\ \E n \in 1 .. Least(Len(unsent), Window - Len(up)) :
       /\ up' = up \o First(n, unsent)
       /\ unsent' = After(n, unsent)
  /\ IF unsent' = <<>> THEN Goto("client", "idle") ELSE UNCHANGED pc
  /\ UNCHANGED <<handed, got, down, reset, session, history>>

\* An error closes the client and send() returns -1: SO_SNDTIMEO, if init() was
\* given a timeout.
SendTimeout ==
  /\ pc.client = "send" /\ ~reset
  /\ Len(up) = Window
  /\ Goto("client", "end")
  /\ UNCHANGED <<clientSide, network, session, history>>

\* SIGPIPE ends the program, or where that is ignored send() closes the client.
SendBroken ==
  /\ pc.client = "send" /\ reset
  /\ Goto("client", "end")
  /\ UNCHANGED <<clientSide, network, session, history>>

----------------------------------------------------------------------------
(* client: CNetClient::recv and close                                      *)

RecvCall ==
  /\ pc.client = "idle"
  /\ Goto("client", "recv")
  /\ UNCHANGED <<clientSide, network, session, history>>

RecvSome ==
  /\ pc.client = "recv"
  /\ \E n \in 1 .. Len(down) :
       /\ got' = got \o First(n, down)
       /\ down' = After(n, down)
  /\ Goto("client", "idle")
  /\ UNCHANGED <<handed, unsent, up, reset, session, history>>

\* The end of the stream, or the error of a reset.
RecvEnd ==
  /\ pc.client = "recv"
  /\ down = <<>> /\ (Gone \/ reset)
  /\ Goto("client", "idle")
  /\ UNCHANGED <<clientSide, network, session, history>>

\* SO_RCVTIMEO, if init() was given a timeout.
RecvTimeout ==
  /\ pc.client = "recv"
  /\ down = <<>>
  /\ Goto("client", "idle")
  /\ UNCHANGED <<clientSide, network, session, history>>

Close ==
  /\ pc.client = "idle"
  /\ Goto("client", "end")
  /\ UNCHANGED <<clientSide, network, session, history>>

----------------------------------------------------------------------------
(* server: IProtocol::sessionTask                                          *)

Task ==
  /\ pc.server = "idle"
  /\ open
  /\ recvLen' = RecvLen
  /\ Goto("server", "recv")
  /\ UNCHANGED <<clientSide, network, mode, open, piece, heard, unechoed, history>>

\* What is received for a session that has been closed meanwhile is dropped.
TaskSome ==
  /\ pc.server = "recv"
  /\ \E n \in 1 .. Least(recvLen, Len(up)) :
       /\ up' = After(n, up)
       /\ piece' = IF open THEN First(n, up) ELSE <<>>
  /\ Goto("server", IF open THEN "parse" ELSE "idle")
  /\ UNCHANGED <<clientSide, down, reset, mode, open, recvLen, heard, unechoed, history>>

\* SO_RCVTIMEO, if the socket has one; a signal; an error.
TaskNothing ==
  /\ pc.server = "recv"
  /\ up = <<>>
  /\ forgot' = (asked > 0)
  /\ Goto("server", "idle")
  /\ UNCHANGED <<clientSide, network, session, asked>>

\* recv() = 0: the session is closed.
TaskEnd ==
  /\ pc.server = "recv"
  /\ up = <<>> /\ (pc.client = "end" \/ reset)
  /\ open' = FALSE
  /\ Goto("server", "idle")
  /\ UNCHANGED <<clientSide, network, mode, recvLen, piece, heard, unechoed, history>>

\* parse(), up to its call of send(), which refuses a closed session.
Parse ==
  /\ pc.server = "parse"
  /\ heard' = heard \o piece
  /\ piece' = <<>>
  /\ asked' = 0 /\ forgot' = FALSE
  /\ unechoed' = IF open THEN piece ELSE <<>>
  /\ Goto("server", IF open THEN "send" ELSE "return")
  /\ UNCHANGED <<clientSide, network, mode, open, recvLen>>

\* The loop goes on with what parse() returns, but not beyond m_pBuffer; a
\* recv() on a closed session fails.
ParseReturn ==
  /\ pc.server = "return"
  /\ \E r \in Result :
       /\ recvLen' = Least(AsSize(r), RecvLen)
       /\ asked' = recvLen'
  /\ Goto("server", IF recvLen' > 0 /\ open THEN "recv" ELSE "idle")
  /\ UNCHANGED <<clientSide, network, mode, open, piece, heard, unechoed, forgot>>

----------------------------------------------------------------------------
(* server: CSession::send                                                  *)

\* The next ::send of the loop fails if the session has been closed.
EchoSome ==
  /\ pc.server = "send" /\ ~reset
  /\ \E n \in 1 .. Least(Len(unechoed), BackWindow - Len(down)) :
       /\ down' = down \o First(n, unechoed)
       /\ unechoed' = IF open THEN After(n, unechoed) ELSE <<>>
  /\ IF unechoed' = <<>> THEN Goto("server", "return") ELSE UNCHANGED pc
  /\ UNCHANGED <<clientSide, up, reset, mode, open, recvLen, piece, heard, history>>

\* send() returns -1. A session with a timeout stays open.
EchoFail ==
  /\ unechoed' = <<>>
  /\ open' = (open /\ ~noTimeout)
  /\ Goto("server", "return")
  /\ UNCHANGED <<clientSide, network, mode, recvLen, piece, heard, history>>

\* SO_SNDTIMEO, three seconds if the session has no timeout. Without it ::send
\* waits for room for ever.
EchoTimeout ==
  /\ pc.server = "send" /\ ~reset /\ sndTimeo
  /\ Len(down) = BackWindow
  /\ EchoFail

EchoBroken ==
  /\ pc.server = "send" /\ reset
  /\ EchoFail

\* ::send is called without MSG_NOSIGNAL and nothing ignores SIGPIPE.
EchoKilled ==
  /\ pc.server = "send" /\ reset
  /\ open' = FALSE
  /\ Goto("server", "killed")
  /\ UNCHANGED <<clientSide, network, mode, recvLen, piece, heard, unechoed, history>>

----------------------------------------------------------------------------
(* The other threads of the server, and the network                        *)

\* The timer, the manager or ITerminal::stop closes the session.
Shut ==
  /\ open
  /\ open' = FALSE
  /\ UNCHANGED <<clientSide, network, mode, recvLen, piece, heard, unechoed, history, pc>>

\* Bytes that arrive at an end that has closed, or were not read before it
\* did, reset the connection. What is on its way may be lost.
Reset ==
  /\ ~reset
  /\ \/ pc.client = "end" /\ down # <<>>
     \/ Gone /\ up # <<>>
  /\ reset' = TRUE
  /\ up' \in {up, <<>>} /\ down' \in {down, <<>>}
  /\ UNCHANGED <<clientSide, session, history, pc>>

Client == SendCall \/ SendTimeout \/ RecvCall \/ RecvTimeout \/ Close
Sending == SendSome \/ SendBroken
Receiving == RecvSome \/ RecvEnd
Server ==
  \/ Task \/ TaskSome \/ TaskEnd \/ Parse \/ ParseReturn
  \/ EchoSome \/ EchoTimeout \/ EchoBroken \/ EchoKilled

Next == Client \/ Sending \/ Receiving \/ Server \/ TaskNothing \/ Shut \/ Reset

Spec == Init /\ [][Next]_vars

(***************************************************************************)
(* A system call of the client that can go on does, its timeouts apart,    *)
(* which it need not have; the session's thread is scheduled, its send()   *)
(* ends by SO_SNDTIMEO where there is one, its recv() by what has come or  *)
(* ended, which is seen in the end, and by no timeout; the network tells   *)
(* an end that the other has gone.                                         *)
(***************************************************************************)
FairSpec ==
  /\ Spec
  /\ WF_vars(Sending) /\ WF_vars(Receiving)
  /\ WF_vars(Server) /\ SF_vars(TaskEnd)
  /\ WF_vars(Reset)

----------------------------------------------------------------------------
(* Properties                                                              *)

Count(n) == [i \in 1 .. n |-> i]

\* Between two ends that are up no byte the program has handed to send() is
\* lost, repeated or out of place, whatever pieces ::send and ::recv make of
\* the messages; and after a send() that has returned 0 all of it is there.
NoGap ==
  open /\ pc.client # "end" =>
    heard \o piece \o up \o unsent = Count(handed)

\* recv() never writes beyond m_pBuffer nor is called with no room, whatever
\* int parse() returns.
InBuffer ==
  /\ Len(piece) <= RecvLen
  /\ pc.server = "recv" => recvLen > 0

\* A protocol that has asked for n more bytes is next given n at most; unless
\* a recv() has timed out since, when sessionTask forgets what was asked for.
Framed ==
  pc.server = "parse" /\ asked > 0 => Len(piece) <= asked \/ forgot

\* A session without a timeout sends back every byte, in order, up to the
\* point where it ends: a send() that fails closes it. One with a timeout goes
\* on after a message it has sent in part, and what comes back has holes.
Service == INSTANCE Echo WITH lossy <- ~noTimeout, sent <- handed

ImplementsEcho == Service!Spec

\* A program that sends without receiving is not stuck, though the session
\* cannot send what it would have to receive: the session's own send() gives
\* up, which needs a timeout that the program has not asked for. Where that is
\* missing (a timeout of 0, a setsockopt() that failed) the two may wait for
\* each other for ever.
SendReturns == (pc.client = "send" /\ sndTimeo) ~> (pc.client # "send")

\* A program that waits for a byte it has sent gets it, or the end of the
\* stream, if the session has no timeout.
EchoArrives ==
  (noTimeout /\ pc.client = "recv" /\ Len(got) < handed) ~> (pc.client # "recv")

\* A session whose client has gone is closed.
GoneIsNoticed == (pc.client = "end") ~> ~open
=============================================================================
