---------------------------- MODULE StreamProof ----------------------------
(***************************************************************************)
(* Theorems of Stream.                                                     *)
(***************************************************************************)
EXTENDS Stream, SequenceTheorems, TLAPS

\* What is between two calls holds nothing.
Emptied ==
  /\ pc.client \in {"idle", "recv"} => unsent = <<>>
  /\ pc.server # "parse" => piece = <<>>

\* A recv() that parse() has asked for is given no more room than that, and the
\* thread goes back to idle with the question open only if it forgets.
Asking ==
  /\ pc.server = "recv" /\ asked > 0 => recvLen <= asked \/ forgot
  /\ pc.server = "idle" /\ asked > 0 => forgot \/ ~open

IInv == TypeOK /\ Emptied /\ InBuffer /\ Asking /\ Framed /\ NoGap

----------------------------------------------------------------------------
(* Sequences of bytes                                                      *)

USE StreamAssumption

LEMMA Nothing ==
  <<>> \in Text /\ Len(<<>>) = 0 /\ \A s \in Text : s \o <<>> = s
BY ConcatEmptySeq, EmptySeq DEF Text

LEMMA Joined ==
  ASSUME NEW s \in Text, NEW t \in Text
  PROVE  s \o t \in Text /\ Len(s \o t) = Len(s) + Len(t)
BY ConcatProperties DEF Text

LEMMA Regroup ==
  ASSUME NEW s \in Text, NEW t \in Text, NEW u \in Text
  PROVE  (s \o t) \o u = s \o (t \o u)
<1> DEFINE S == 1 .. Bytes
<1>1. s \in Seq(S) /\ t \in Seq(S) /\ u \in Seq(S)
  BY DEF Text
<1> HIDE DEF S
<1>2. QED  BY <1>1, ConcatAssociative, SMTT(60)

\* What is taken from the front of a sequence and what is left make it up.
LEMMA Pieces ==
  ASSUME NEW s \in Text, NEW n \in 1 .. Len(s)
  PROVE  /\ First(n, s) \in Text /\ After(n, s) \in Text
         /\ Len(First(n, s)) = n /\ Len(After(n, s)) = Len(s) - n
         /\ First(n, s) \o After(n, s) = s
<1>1. Len(s) \in Nat /\ \A i \in 1 .. Len(s) : s[i] \in 1 .. Bytes
  BY DEF Text
<1>2. First(n, s) \in Text /\ Len(First(n, s)) = n
  BY <1>1, SubSeqProperties DEF First, Text
<1>3. After(n, s) \in Text /\ Len(After(n, s)) = Len(s) - n
  BY <1>1, SubSeqProperties DEF After, Text
<1>4. SubSeq(s, 1, n) \o SubSeq(s, n + 1, Len(s)) = SubSeq(s, 1, Len(s))
  BY <1>1, ConcatAdjacentSubSeq DEF Text
<1>5. QED
  BY <1>2, <1>3, <1>4, SubSeqFull DEF First, After, Text

\* Where a boundary moves between two sequences, what they make up is the same.
LEMMA TakenFromNext ==
  ASSUME NEW a \in Text, NEW s \in Text, NEW n \in 1 .. Len(s)
  PROVE  (a \o First(n, s)) \o After(n, s) = a \o s
<1>1. /\ First(n, s) \in Text /\ After(n, s) \in Text
      /\ First(n, s) \o After(n, s) = s
  BY Pieces
<1>2. (a \o First(n, s)) \o After(n, s) = a \o (First(n, s) \o After(n, s))
  BY <1>1, Regroup, Zenon
<1>3. QED  BY <1>1, <1>2, Zenon

LEMMA PassedOn ==
  ASSUME NEW a \in Text, NEW t \in Text, NEW s \in Text, NEW n \in 1 .. Len(s)
  PROVE  (a \o (t \o First(n, s))) \o After(n, s) = (a \o t) \o s
<1>1. First(n, s) \in Text
  BY Pieces
<1>2. a \o (t \o First(n, s)) = (a \o t) \o First(n, s)
  BY <1>1, Regroup, Zenon
<1>3. a \o t \in Text
  BY Joined
<1>4. ((a \o t) \o First(n, s)) \o After(n, s) = (a \o t) \o s
  BY <1>3, TakenFromNext, Zenon
<1>5. QED  BY <1>2, <1>4, Zenon

\* The next n bytes of the client's stream go on where h have been handed over.
LEMMA NextBytes ==
  ASSUME NEW h \in Nat, NEW n \in Nat \ {0}, h + n <= Bytes
  PROVE  /\ [i \in 1 .. n |-> h + i] \in Text
         /\ Count(h) \o [i \in 1 .. n |-> h + i] = Count(h + n)
<1> DEFINE m == [i \in 1 .. n |-> h + i]
<1>1. m \in Text /\ Len(m) = n
  BY DEF Text
<1>2. Count(h) \in Text /\ Len(Count(h)) = h
  BY DEF Count, Text
<1>3. Count(h + n) \in Text /\ Len(Count(h + n)) = h + n
  BY DEF Count, Text
<1>4. Count(h) \o m \in Text /\ Len(Count(h) \o m) = h + n
  BY <1>1, <1>2, Joined
<1>5. ASSUME NEW i \in 1 .. h + n PROVE (Count(h) \o m)[i] = Count(h + n)[i]
  <2>1. (Count(h) \o m)[i] = IF i <= h THEN Count(h)[i] ELSE m[i - h]
    BY <1>1, <1>2, ConcatProperties DEF Text
  <2>2. QED  BY <2>1 DEF Count
<1>6. Count(h) \o m = Count(h + n)
  BY <1>3, <1>4, <1>5, SeqEqual DEF Text
<1>7. QED  BY <1>1, <1>6

\* What is read of an int as a size_t is a size.
LEMMA ASize == ASSUME NEW r \in Int PROVE AsSize(r) \in Nat
BY DEF AsSize

LEMMA Texts ==
  ASSUME TypeOK
  PROVE  /\ unsent \in Text /\ up \in Text /\ down \in Text /\ got \in Text
         /\ piece \in Text /\ heard \in Text /\ unechoed \in Text
         /\ Len(unsent) \in Nat /\ Len(up) \in Nat /\ Len(down) \in Nat
         /\ Len(unechoed) \in Nat
<1>1. /\ unsent \in Text /\ up \in Text /\ down \in Text /\ got \in Text
      /\ piece \in Text /\ heard \in Text /\ unechoed \in Text
  BY DEF TypeOK
<1>2. QED  BY <1>1 DEF Text

----------------------------------------------------------------------------
(* Every step keeps the invariant                                          *)

USE DEF IInv, TypeOK, Emptied, InBuffer, Asking, Framed, NoGap, Goto, Least,
  clientSide, network, session, mode, history

LEMMA InitIInv == Init => IInv
<1> SUFFICES ASSUME Init PROVE IInv
  OBVIOUS
<1>1. Count(0) = <<>>
  BY DEF Count
<1>2. TypeOK
  <2>1. <<>> \in Text /\ Len(<<>>) = 0
    BY Nothing
  <2>2. noTimeout \in BOOLEAN /\ sndTimeo \in BOOLEAN /\ open \in BOOLEAN /\ reset \in BOOLEAN /\ forgot \in BOOLEAN
    BY DEF Init
  <2>3. pc \in [client : {"idle", "send", "recv", "end"},
             server : {"idle", "recv", "parse", "send", "return", "killed"}]
    BY DEF Init
  <2>4. handed \in 0 .. Bytes /\ recvLen \in 0 .. RecvLen /\ asked \in 0 .. RecvLen
    BY DEF Init
  <2>5. Len(up) <= Window /\ Len(down) <= BackWindow
    BY <2>1 DEF Init
  <2>6. unsent \in Text /\ up \in Text /\ down \in Text /\ got \in Text
    BY <2>1 DEF Init
  <2>7. piece \in Text /\ heard \in Text /\ unechoed \in Text
    BY <2>1 DEF Init
  <2>8. QED  BY <2>2, <2>3, <2>4, <2>5, <2>6, <2>7
<1>3. Emptied /\ InBuffer /\ Asking /\ Framed
  BY Nothing DEF Init
<1>4. NoGap
  BY <1>1, Nothing DEF Init
<1>5. QED  BY <1>2, <1>3, <1>4

\* send() of the client.
LEMMA StepSendCall == ASSUME IInv, SendCall PROVE IInv'
<1>1. PICK n \in 1 .. MsgLen :
        /\ handed + n <= Bytes
        /\ unsent' = [i \in 1 .. n |-> handed + i]
        /\ handed' = handed + n
  BY DEF SendCall
<1>2. /\ pc.client = "idle" /\ pc' = [pc EXCEPT !.client = "send"]
      /\ UNCHANGED <<got, network, session, history>>
  BY DEF SendCall
<1>3. unsent' \in Text /\ Count(handed) \o unsent' = Count(handed')
  <2>1. handed \in Nat /\ n \in Nat \ {0}
    BY <1>1
  <2> HIDE DEF IInv
  <2>2. QED  BY <1>1, <2>1, NextBytes
<1>4. TypeOK'
  <2>1. handed' \in 0 .. Bytes
    BY <1>1
  <2>2. unsent' \in Text
    BY <1>3
  <2>3. QED  BY <1>2, <2>1, <2>2
<1>5. Emptied' /\ InBuffer' /\ Asking' /\ Framed'
  BY <1>1, <1>2, <1>3
<1>6. NoGap'
  <2> SUFFICES ASSUME open PROVE heard \o piece \o up \o unsent' = Count(handed')
    BY <1>2
  <2>1. heard \o piece \o up = Count(handed)
    BY <1>2, Nothing, Joined
  <2>2. QED  BY <1>3, <2>1
<1>7. QED  BY <1>4, <1>5, <1>6

LEMMA StepSendSome == ASSUME IInv, SendSome PROVE IInv'
<1>1. PICK n \in 1 .. Least(Len(unsent), Window - Len(up)) :
        /\ up' = up \o First(n, unsent)
        /\ unsent' = After(n, unsent)
  BY DEF SendSome
<1>2. /\ pc.client = "send"
      /\ pc' = IF unsent' = <<>> THEN [pc EXCEPT !.client = "idle"] ELSE pc
      /\ UNCHANGED <<handed, got, down, reset, session, history>>
  BY DEF SendSome
<1>3. Len(unsent) \in Nat /\ Len(up) \in Nat
  BY Texts
<1>4. n \in 1 .. Len(unsent) /\ n <= Window - Len(up)
  BY <1>1, <1>3
<1>5. /\ First(n, unsent) \in Text /\ unsent' \in Text
      /\ Len(First(n, unsent)) = n
      /\ First(n, unsent) \o unsent' = unsent
  BY <1>1, <1>4, Pieces
<1>6. up' \in Text /\ Len(up') <= Window
  BY <1>1, <1>3, <1>4, <1>5, Joined
<1>7. TypeOK' /\ Emptied' /\ InBuffer' /\ Asking' /\ Framed'
  BY <1>2, <1>5, <1>6
<1>8. NoGap'
  <2> DEFINE a == heard \o piece
  <2>1. a \in Text /\ a \o up \in Text
    BY Joined
  <2> HIDE DEF a
  <2>2. (a \o up') \o unsent' = (a \o up) \o unsent
    <3>1. unsent \in Text /\ up \in Text
      BY Texts
    <3>2. \A t, x \in Text : \A i \in 1 .. Len(x) :
            (a \o (t \o First(i, x))) \o After(i, x) = (a \o t) \o x
      BY <2>1, PassedOn, Zenon
    <3>3. (a \o (up \o First(n, unsent))) \o After(n, unsent) = (a \o up) \o unsent
      BY <1>4, <3>1, <3>2, Zenon
    <3>4. QED  BY <1>1, <3>3, Zenon
  <2>3. QED  BY <1>2, <2>2 DEF a
<1>9. QED  BY <1>7, <1>8

\* sessionTask receives a piece.
LEMMA StepTaskSome == ASSUME IInv, TaskSome PROVE IInv'
<1>1. PICK n \in 1 .. Least(recvLen, Len(up)) :
        /\ up' = After(n, up)
        /\ piece' = IF open THEN First(n, up) ELSE <<>>
  BY DEF TaskSome
<1>2. /\ pc.server = "recv" /\ piece = <<>>
      /\ pc' = [pc EXCEPT !.server = IF open THEN "parse" ELSE "idle"]
      /\ UNCHANGED <<clientSide, down, reset, mode, open, recvLen, heard, unechoed, history>>
  BY DEF TaskSome
<1>3. Len(up) \in Nat
  BY Texts
<1>4. n \in 1 .. Len(up) /\ n <= recvLen
  BY <1>1, <1>3
<1>5. /\ First(n, up) \in Text /\ up' \in Text
      /\ Len(First(n, up)) = n /\ Len(up') = Len(up) - n
      /\ First(n, up) \o up' = up
  BY <1>1, <1>4, Texts, Pieces
<1>6. piece' \in Text /\ Len(piece') <= recvLen
  BY <1>1, <1>4, <1>5, Nothing
<1>7. TypeOK'
  <2>1. up' \in Text /\ Len(up') <= Window
    BY <1>3, <1>4, <1>5
  <2>2. QED  BY <1>2, <1>6, <2>1
<1>8. Emptied'
  BY <1>1, <1>2
<1>9. InBuffer' /\ Asking' /\ Framed'
  BY <1>2, <1>6
<1>10. NoGap'
  <2> SUFFICES ASSUME open, pc.client # "end"
               PROVE  heard \o piece' \o up' \o unsent = Count(handed)
    BY <1>2
  <2>1. heard \o up \o unsent = Count(handed)
    BY <1>2, Nothing
  <2>2. (heard \o piece') \o up' = heard \o up
    BY <1>1, <1>4, Texts, TakenFromNext
  <2>3. QED  BY <2>1, <2>2
<1>11. QED  BY <1>7, <1>8, <1>9, <1>10

\* parse() is given it.
LEMMA StepParse == ASSUME IInv, Parse PROVE IInv'
<1>1. heard' \in Text /\ heard' = heard \o piece /\ piece' = <<>> /\ piece' \in Text
  BY Joined, Nothing DEF Parse
<1>2. /\ asked' = 0 /\ forgot' = FALSE
      /\ unechoed' \in {piece, <<>>}
      /\ pc' = [pc EXCEPT !.server = IF open THEN "send" ELSE "return"]
      /\ UNCHANGED <<clientSide, network, mode, open, recvLen>>
  BY DEF Parse
<1>3. TypeOK'
  <2>1. heard' \in Text /\ piece' \in Text /\ unechoed' \in Text
    BY <1>1, <1>2, Texts
  <2>2. forgot' \in BOOLEAN
    BY <1>2, Zenon
  <2>3. asked' \in 0 .. RecvLen
    BY <1>2
  <2>4. pc' \in [client : {"idle", "send", "recv", "end"},
             server : {"idle", "recv", "parse", "send", "return", "killed"}]
    BY <1>2
  <2>5. UNCHANGED <<mode, open, reset, handed, unsent, up, down, got, recvLen>>
    BY <1>2
  <2>6. QED  BY <2>1, <2>2, <2>3, <2>4, <2>5
<1>4. Emptied'
  BY <1>1, <1>2
<1>5. InBuffer' /\ Asking' /\ Framed'
  BY <1>1, <1>2, Nothing
<1>6. NoGap'
  BY <1>1, <1>2, Nothing
<1>7. QED  BY <1>3, <1>4, <1>5, <1>6

LEMMA StepParseReturn == ASSUME IInv, ParseReturn PROVE IInv'
<1>1. PICK r \in Result :
        recvLen' = Least(AsSize(r), RecvLen) /\ asked' = recvLen'
  BY DEF ParseReturn
<1>2. /\ pc.server = "return"
      /\ pc' = [pc EXCEPT !.server = IF recvLen' > 0 /\ open THEN "recv" ELSE "idle"]
      /\ UNCHANGED <<clientSide, network, mode, open, piece, heard, unechoed, forgot>>
  BY DEF ParseReturn
<1>3. recvLen' \in 0 .. RecvLen
  BY <1>1, ASize
<1>4. QED  BY <1>1, <1>2, <1>3

\* send() of the session, and recv() of the client.
LEMMA StepEchoSome == ASSUME IInv, EchoSome PROVE IInv'
<1>1. PICK n \in 1 .. Least(Len(unechoed), BackWindow - Len(down)) :
        down' = down \o First(n, unechoed)
          /\ unechoed' = IF open THEN After(n, unechoed) ELSE <<>>
  BY DEF EchoSome
<1>2. /\ pc.server = "send"
      /\ pc' = IF unechoed' = <<>> THEN [pc EXCEPT !.server = "return"] ELSE pc
      /\ UNCHANGED <<clientSide, up, reset, mode, open, recvLen, piece, heard, history>>
  BY DEF EchoSome
<1>3. Len(unechoed) \in Nat /\ Len(down) \in Nat
  BY Texts
<1>4. n \in 1 .. Len(unechoed) /\ n <= BackWindow - Len(down)
  BY <1>1, <1>3
<1>5. /\ First(n, unechoed) \in Text /\ Len(First(n, unechoed)) = n
      /\ unechoed' \in Text
  BY <1>1, <1>4, Pieces, Nothing
<1>6. down' \in Text /\ Len(down') <= BackWindow
  BY <1>1, <1>3, <1>4, <1>5, Joined
<1>7. QED  BY <1>2, <1>5, <1>6

LEMMA StepRecvSome == ASSUME IInv, RecvSome PROVE IInv'
<1>1. PICK n \in 1 .. Len(down) : got' = got \o First(n, down) /\ down' = After(n, down)
  BY DEF RecvSome
<1>2. /\ pc.client = "recv" /\ pc' = [pc EXCEPT !.client = "idle"]
      /\ UNCHANGED <<handed, unsent, up, reset, session, history>>
  BY DEF RecvSome
<1>3. Len(down) \in Nat
  BY Texts
<1>4. got' \in Text /\ down' \in Text /\ Len(down') <= BackWindow
  BY <1>1, <1>3, Pieces, Joined
<1>5. QED  BY <1>2, <1>4

\* The other steps of the client.
LEMMA StepClient ==
  ASSUME IInv, SendTimeout \/ SendBroken \/ RecvCall \/ RecvEnd \/ RecvTimeout \/ Close
  PROVE  IInv'
<1>1. CASE SendTimeout
  BY <1>1 DEF SendTimeout
<1>2. CASE SendBroken
  BY <1>2 DEF SendBroken
<1>3. CASE RecvCall
  BY <1>3 DEF RecvCall
<1>4. CASE RecvEnd
  BY <1>4 DEF RecvEnd
<1>5. CASE RecvTimeout
  BY <1>5 DEF RecvTimeout
<1>6. CASE Close
  BY <1>6 DEF Close
<1>7. QED  BY <1>1, <1>2, <1>3, <1>4, <1>5, <1>6

\* The other steps of the session's thread.
LEMMA StepTask ==
  ASSUME IInv, Task \/ TaskNothing \/ TaskEnd PROVE IInv'
<1>1. CASE Task
  BY <1>1 DEF Task
<1>2. CASE TaskNothing
  <2>1. asked > 0 => forgot'
    BY <1>2, Zenon DEF TaskNothing
  <2>2. ~(asked > 0) => ~forgot'
    BY <1>2, Zenon DEF TaskNothing
  <2>3. forgot' \in BOOLEAN
    BY <1>2, SMT DEF TaskNothing
  <2>4. QED  BY <1>2, <2>1, <2>3 DEF TaskNothing
<1>3. CASE TaskEnd
  BY <1>3 DEF TaskEnd
<1>4. QED  BY <1>1, <1>2, <1>3

LEMMA StepEchoFail ==
  ASSUME IInv, EchoTimeout \/ EchoBroken \/ EchoKilled PROVE IInv'
<1>1. CASE pc.server = "send" /\ EchoFail
  <2>1. open' \in BOOLEAN /\ (open' => open)
    BY <1>1, Zenon DEF EchoFail
  <2>2. QED  BY <1>1, <2>1, Nothing DEF EchoFail
<1>2. CASE EchoKilled
  BY <1>2 DEF EchoKilled
<1>3. QED
  BY <1>1, <1>2 DEF EchoTimeout, EchoBroken

\* The rest of the server, and the network.
LEMMA StepOthers == ASSUME IInv, Shut \/ Reset \/ UNCHANGED vars PROVE IInv'
<1>1. CASE Shut
  BY <1>1 DEF Shut
<1>2. CASE Reset
  <2>1. pc.client = "end" \/ ~open
    BY <1>2 DEF Reset, Gone
  <2>2. up' \in {up, <<>>} /\ down' \in {down, <<>>}
    BY <1>2 DEF Reset
  <2>3. QED  BY <1>2, <2>1, <2>2, Nothing DEF Reset
<1>3. CASE UNCHANGED vars
  BY <1>3 DEF vars
<1>4. QED  BY <1>1, <1>2, <1>3

----------------------------------------------------------------------------
\* The invariant of the argument.
THEOREM Invariance == Spec => []IInv
<1> HIDE DEF IInv
<1>1. IInv /\ [Next]_vars => IInv'
  BY StepSendCall, StepSendSome, StepRecvSome, StepClient, StepTask, StepTaskSome,
     StepParse, StepParseReturn, StepEchoSome, StepEchoFail, StepOthers
     DEF Next, Client, Sending, Receiving, Server
<1>2. QED  BY <1>1, InitIInv, PTL DEF Spec

\* Every variable of the connection keeps its type.
THEOREM Typing == Spec => []TypeOK
BY Invariance, PTL DEF IInv

\* Whatever pieces the two ends make of the messages, every byte handed to
\* send() is with the protocol, on its way or still to be sent, once and in its
\* place.
THEOREM Gapless == Spec => []NoGap
BY Invariance, PTL DEF IInv

\* Whatever int parse() returns, recv() has room and does not go beyond
\* m_pBuffer.
THEOREM Buffered == Spec => []InBuffer
BY Invariance, PTL DEF IInv

\* A protocol that has asked for n bytes is next given n at most, or a recv()
\* has timed out since.
THEOREM Asked == Spec => []Framed
BY Invariance, PTL DEF IInv

----------------------------------------------------------------------------
(* Stream implements Echo                                                  *)

\* A line of bytes that the program has handed over in this order, h of them in
\* all.
Good(s, h) == Service!InOrder(s) /\ \A i \in DOMAIN s : s[i] <= h

\* The bytes on their way from send() to recv(), the oldest first.
Line == got \o down \o unechoed \o piece \o up \o unsent

\* CSession::send has no bytes but while it is called.
Echoing == pc.server \notin {"send", "killed"} => unechoed = <<>>

\* None overtakes another.
Ordered == Good(Line, handed)

\* Without a timeout nothing is missing from what the client has been sent, nor
\* from the rest while the connection is up.
Whole ==
  noTimeout =>
    /\ Service!Complete(got \o down)
    /\ ~reset => Service!Complete(got \o down \o unechoed)
    /\ ~reset /\ open => Line = Count(handed)

EInv == Echoing /\ Ordered /\ Whole

LEMMA Domains == \A s \in Text : DOMAIN s = 1 .. Len(s) /\ \A i \in DOMAIN s : s[i] \in Nat
BY DEF Text

LEMMA GoodPrefix ==
  ASSUME NEW s \in Text, NEW t \in Text, NEW h \in Nat, Good(s \o t, h)
  PROVE  Good(s, h)
<1>1. DOMAIN s = 1 .. Len(s) /\ DOMAIN (s \o t) = 1 .. Len(s) + Len(t)
  BY Domains, Joined
<1>2. Len(s) \in Nat /\ Len(t) \in Nat
  BY DEF Text
<1>3. \A i \in 1 .. Len(s) : (s \o t)[i] = s[i]
  BY <1>2, ConcatProperties DEF Text
<1>4. QED  BY <1>1, <1>2, <1>3 DEF Good, Service!InOrder

LEMMA CompletePrefix ==
  ASSUME NEW s \in Text, NEW t \in Text, Service!Complete(s \o t)
  PROVE  Service!Complete(s)
<1>1. DOMAIN s = 1 .. Len(s) /\ DOMAIN (s \o t) = 1 .. Len(s) + Len(t)
  BY Domains, Joined
<1>2. Len(s) \in Nat /\ Len(t) \in Nat
  BY DEF Text
<1>3. \A i \in 1 .. Len(s) : (s \o t)[i] = s[i]
  BY <1>2, ConcatProperties DEF Text
<1>4. QED  BY <1>1, <1>2, <1>3 DEF Service!Complete

LEMMA CountIsComplete == \A n \in Nat : Service!Complete(Count(n))
BY DEF Service!Complete, Count

\* What is lost out of a line leaves the rest in order.
LEMMA Cut ==
  ASSUME NEW x \in Text, NEW y \in Text, NEW z \in Text, NEW h \in Nat,
         Good((x \o y) \o z, h)
  PROVE  Good(x \o z, h)
<1> DEFINE w == (x \o y) \o z
           v == x \o z
           at(k) == IF k <= Len(x) THEN k ELSE k + Len(y)
<1>1. Len(x) \in Nat /\ Len(y) \in Nat /\ Len(z) \in Nat
  BY DEF Text
<1>2. x \o y \in Text /\ Len(x \o y) = Len(x) + Len(y)
  BY Joined
<1>3. /\ DOMAIN v = 1 .. Len(x) + Len(z)
      /\ DOMAIN w = 1 .. Len(x) + Len(y) + Len(z)
  BY <1>2, Domains, Joined
<1>4. ASSUME NEW k \in 1 .. Len(x) + Len(z)
      PROVE  at(k) \in 1 .. Len(x) + Len(y) + Len(z) /\ v[k] = w[at(k)]
  <2>1. v[k] = IF k <= Len(x) THEN x[k] ELSE z[k - Len(x)]
    BY ConcatProperties DEF Text
  <2>2. at(k) \in 1 .. Len(x) + Len(y) + Len(z)
    BY <1>1
  <2>3. w[at(k)] = IF at(k) <= Len(x) + Len(y) THEN (x \o y)[at(k)]
                   ELSE z[at(k) - (Len(x) + Len(y))]
    BY <1>2, <2>2, ConcatProperties DEF Text
  <2>4. CASE k <= Len(x)
    <3>1. (x \o y)[k] = x[k]
      BY <1>1, <2>4, ConcatProperties DEF Text
    <3>2. QED  BY <1>1, <2>1, <2>2, <2>3, <2>4, <3>1
  <2>5. CASE k > Len(x)
    BY <1>1, <2>1, <2>2, <2>3, <2>5
  <2>6. QED  BY <1>1, <2>4, <2>5
<1>5. \A i, j \in 1 .. Len(x) + Len(z) : i < j => at(i) < at(j)
  BY <1>1
<1> HIDE DEF w, v, at
<1>6. Good(w, h) => Good(v, h)
  BY <1>3, <1>4, <1>5 DEF Good, Service!InOrder
<1>7. QED  BY <1>6 DEF w, v

\* What is handed over goes to the end of the line.
LEMMA GoodNext ==
  ASSUME NEW s \in Text, NEW h \in Nat, NEW n \in Nat \ {0}, h + n <= Bytes,
         Good(s, h)
  PROVE  Good(s \o [i \in 1 .. n |-> h + i], h + n)
<1> DEFINE m == [i \in 1 .. n |-> h + i]
           w == s \o m
<1>1. Len(s) \in Nat /\ m \in Text /\ Len(m) = n
  BY NextBytes DEF Text
<1>2. DOMAIN s = 1 .. Len(s) /\ DOMAIN w = 1 .. Len(s) + n
  BY <1>1, Domains, Joined
<1>3. \A k \in 1 .. Len(s) + n : w[k] = IF k <= Len(s) THEN s[k] ELSE m[k - Len(s)]
  BY <1>1, ConcatProperties DEF Text
<1>4. \A k \in 1 .. Len(s) + n : k > Len(s) => w[k] = h + (k - Len(s))
  BY <1>1, <1>3
<1>5. \A k \in 1 .. Len(s) : w[k] = s[k] /\ s[k] \in Nat /\ s[k] <= h
  BY <1>1, <1>2, <1>3, Domains DEF Good
<1> HIDE DEF w
<1>6. Service!InOrder(w)
  <2>1. SUFFICES ASSUME NEW i \in 1 .. Len(s) + n, NEW j \in 1 .. Len(s) + n, i < j
                 PROVE  w[i] < w[j]
    BY <1>2 DEF Service!InOrder
  <2>2. CASE j <= Len(s)
    <3>1. i \in DOMAIN s /\ j \in DOMAIN s
      BY <1>1, <1>2, <2>1, <2>2
    <3>2. s[i] < s[j]
      BY <2>1, <3>1 DEF Good, Service!InOrder
    <3>3. QED  BY <1>2, <1>5, <3>1, <3>2
  <2>3. CASE i <= Len(s) /\ Len(s) < j
    <3>1. w[i] \in Nat /\ w[i] <= h
      BY <1>1, <1>5, <2>3
    <3>2. w[j] = h + (j - Len(s))
      BY <1>4, <2>3
    <3>3. QED  BY <1>1, <2>3, <3>1, <3>2
  <2>4. CASE Len(s) < i
    <3>1. w[i] = h + (i - Len(s)) /\ w[j] = h + (j - Len(s))
      BY <1>1, <1>4, <2>1, <2>4
    <3>2. QED  BY <1>1, <2>1, <2>4, <3>1
  <2>5. QED  BY <1>1, <2>2, <2>3, <2>4
<1>7. \A k \in DOMAIN w : w[k] <= h + n
  BY <1>1, <1>2, <1>4, <1>5
<1>8. QED  BY <1>6, <1>7 DEF Good, w

Cat(s, t) == s \o t

LEMMA CatText == \A s, t \in Text : Cat(s, t) \in Text
BY Joined DEF Cat

LEMMA CatNothing == \A s \in Text : Cat(s, <<>>) = s
BY Nothing DEF Cat

LEMMA CatAssociative == \A s, t, u \in Text : Cat(Cat(s, t), u) = Cat(s, Cat(t, u))
BY Regroup, Zenon DEF Cat

LEMMA CatThree ==
  ASSUME NEW x \in Text, NEW s \in Text, NEW t \in Text, NEW u \in Text
  PROVE  Cat(Cat(Cat(x, s), t), u) = Cat(x, Cat(Cat(s, t), u))
<1>1. Cat(s, t) \in Text
  BY CatText
<1>2. Cat(Cat(x, s), t) = Cat(x, Cat(s, t))
  BY CatAssociative
<1>3. Cat(Cat(x, Cat(s, t)), u) = Cat(x, Cat(Cat(s, t), u))
  BY <1>1, CatAssociative
<1>4. QED  BY <1>2, <1>3

LEMMA CatFour ==
  ASSUME NEW x \in Text, NEW s \in Text, NEW t \in Text, NEW u \in Text, NEW v \in Text
  PROVE  Cat(Cat(Cat(Cat(x, s), t), u), v) = Cat(x, Cat(Cat(Cat(s, t), u), v))
<1>1. Cat(Cat(s, t), u) \in Text
  BY CatText
<1>2. Cat(Cat(Cat(x, s), t), u) = Cat(x, Cat(Cat(s, t), u))
  BY CatThree
<1>3. Cat(Cat(x, Cat(Cat(s, t), u)), v) = Cat(x, Cat(Cat(Cat(s, t), u), v))
  BY <1>1, CatAssociative
<1>4. QED  BY <1>2, <1>3

\* A part of the line is lost.
LEMMA CutLine ==
  ASSUME NEW a \in Text, NEW b \in Text, NEW c \in Text, NEW d \in Text,
         NEW e \in Text, NEW f \in Text, NEW h \in Nat,
         Good(a \o b \o c \o d \o e \o f, h)
  PROVE  /\ Good(a \o <<>> \o c \o d \o e \o f, h)
         /\ Good(a \o b \o <<>> \o d \o e \o f, h)
         /\ Good(a \o b \o c \o <<>> \o e \o f, h)
         /\ Good(a \o b \o c \o d \o <<>> \o f, h)
<1> DEFINE Row(p, q, r, s, t, u) == Cat(Cat(Cat(Cat(Cat(p, q), r), s), t), u)
           ab   == Cat(a, b)
           abc  == Cat(ab, c)
           abcd == Cat(abc, d)
           ef   == Cat(e, f)
           def  == Cat(Cat(d, e), f)
           cdef == Cat(Cat(Cat(c, d), e), f)
<1>1. Good(Row(a, b, c, d, e, f), h)
  BY DEF Cat
<1>2. \A x, y, z \in Text : Good(Cat(Cat(x, y), z), h) => Good(Cat(x, z), h)
  BY Cut, Zenon DEF Cat
<1>3. /\ ab \in Text /\ abc \in Text /\ abcd \in Text
      /\ ef \in Text /\ def \in Text /\ cdef \in Text
  BY CatText
<1>4. ab \in Text
  BY <1>3
<1>5. abc \in Text
  BY <1>3
<1>6. /\ Cat(a, <<>>) = a /\ Cat(ab, <<>>) = ab
      /\ Cat(abc, <<>>) = abc /\ Cat(abcd, <<>>) = abcd
  BY <1>3, CatNothing
<1>7. /\ Row(a, b, c, d, e, f) = Cat(Cat(Cat(Cat(ab, c), d), e), f)
      /\ Row(a, b, c, d, e, f) = Cat(Cat(Cat(abc, d), e), f)
      /\ Row(a, b, c, d, e, f) = Cat(Cat(abcd, e), f)
      /\ Row(a, <<>>, c, d, e, f) = Cat(Cat(Cat(Cat(a, c), d), e), f)
      /\ Row(a, b, <<>>, d, e, f) = Cat(Cat(Cat(ab, d), e), f)
      /\ Row(a, b, c, <<>>, e, f) = Cat(Cat(abc, e), f)
      /\ Row(a, b, c, d, <<>>, f) = Cat(abcd, f)
  BY <1>6
<1> HIDE DEF Row, ab, abc, abcd
<1>8. Good(Row(a, <<>>, c, d, e, f), h)
  <2>1. Cat(Cat(Cat(Cat(ab, c), d), e), f) = Cat(ab, cdef)
    BY <1>4, CatFour, SMTT(60)
  <2>2. Cat(Cat(Cat(Cat(a, c), d), e), f) = Cat(a, cdef)
    BY CatFour, SMTT(60)
  <2>3. Cat(ab, cdef) = Cat(Cat(a, b), cdef)
    BY DEF ab
  <2> HIDE DEF cdef
  <2>4. Good(Cat(Cat(a, b), cdef), h)
    BY <1>1, <1>7, <2>1, <2>3
  <2>5. Good(Cat(a, cdef), h)
    BY <1>2, <1>3, <2>4
  <2>6. QED  BY <1>7, <2>2, <2>5
<1>9. Good(Row(a, b, <<>>, d, e, f), h)
  <2>1. Cat(Cat(Cat(abc, d), e), f) = Cat(abc, def)
    BY <1>5, CatThree, SMTT(60)
  <2>2. Cat(Cat(Cat(ab, d), e), f) = Cat(ab, def)
    BY <1>4, CatThree, SMTT(60)
  <2>3. Cat(abc, def) = Cat(Cat(ab, c), def)
    BY DEF abc
  <2> HIDE DEF def
  <2>4. Good(Cat(Cat(ab, c), def), h)
    BY <1>1, <1>7, <2>1, <2>3
  <2>5. Good(Cat(ab, def), h)
    BY <1>2, <1>3, <2>4
  <2>6. QED  BY <1>7, <2>2, <2>5
<1>10. Good(Row(a, b, c, <<>>, e, f), h)
  <2>1. Cat(Cat(abcd, e), f) = Cat(abcd, ef)
    BY <1>3, CatAssociative
  <2>2. Cat(Cat(abc, e), f) = Cat(abc, ef)
    BY <1>3, CatAssociative
  <2>3. Cat(abcd, ef) = Cat(Cat(abc, d), ef)
    BY DEF abcd
  <2> HIDE DEF ef
  <2>4. Good(Cat(Cat(abc, d), ef), h)
    BY <1>1, <1>7, <2>1, <2>3
  <2>5. Good(Cat(abc, ef), h)
    BY <1>2, <1>3, <2>4
  <2>6. QED  BY <1>7, <2>2, <2>5
<1>11. Good(Row(a, b, c, d, <<>>, f), h)
  BY <1>1, <1>2, <1>3, <1>7
<1> USE DEF Row
<1>12. QED  BY <1>8, <1>9, <1>10, <1>11 DEF Cat

HIDE DEF IInv, TypeOK, Emptied, InBuffer, Asking, Framed, NoGap

LEMMA LineTexts ==
  ASSUME TypeOK
  PROVE  /\ got \o down \in Text
         /\ got \o down \o unechoed \in Text
         /\ got \o down \o unechoed \o piece \in Text
         /\ got \o down \o unechoed \o piece \o up \in Text
         /\ Line \in Text
         /\ handed \in Nat /\ handed <= Bytes
<1>1. handed \in Nat /\ handed <= Bytes
  BY DEF TypeOK
<1>2. QED  BY <1>1, Texts, Joined DEF Line

LEMMA InitEInv == Init => EInv
<1> SUFFICES ASSUME Init PROVE EInv
  OBVIOUS
<1>1. got \o down = <<>> /\ got \o down \o unechoed = <<>> /\ Line = <<>>
  BY Nothing DEF Init, Line
<1>2. Count(0) = <<>> /\ handed = 0
  BY DEF Init, Count
<1>3. Echoing
  BY DEF Init, Echoing
<1>4. Service!Complete(<<>>)
  BY <1>2, CountIsComplete
<1>5. Ordered
  BY <1>1 DEF Ordered, Good, Service!InOrder
<1>6. Whole
  BY <1>1, <1>2, <1>4 DEF Whole
<1>7. QED  BY <1>3, <1>5, <1>6 DEF EInv

\* A step that moves no byte.
LEMMA StepStill ==
  ASSUME EInv, UNCHANGED <<got, down, unechoed, piece, up, unsent, handed, noTimeout, reset>>,
         open' => open, Echoing'
  PROVE  EInv'
BY DEF EInv, Ordered, Whole, Line

\* A step that moves bytes on in the line.
LEMMA StepOn ==
  ASSUME EInv, UNCHANGED <<handed, noTimeout, open, reset>>, Echoing',
         Line' = Line,
         noTimeout => Service!Complete(got \o down)',
         noTimeout /\ ~reset => Service!Complete(got \o down \o unechoed)'
  PROVE  EInv'
BY DEF EInv, Ordered, Whole

LEMMA EchoSendCall == ASSUME IInv, EInv, SendCall PROVE EInv'
<1>1. PICK n \in 1 .. MsgLen :
        /\ handed + n <= Bytes
        /\ unsent' = [i \in 1 .. n |-> handed + i]
        /\ handed' = handed + n
  BY DEF SendCall
<1>2. /\ unsent = <<>>
      /\ UNCHANGED <<got, down, unechoed, piece, up, noTimeout, open, reset>>
      /\ pc.client = "idle" /\ pc' = [pc EXCEPT !.client = "send"]
  BY DEF SendCall, IInv, Emptied
<1>3. TypeOK /\ n \in Nat \ {0}
  BY DEF IInv
<1>4. Line' = Line \o [i \in 1 .. n |-> handed + i]
  BY <1>1, <1>2, <1>3, LineTexts, Nothing DEF Line
<1>5. Ordered'
  BY <1>1, <1>3, <1>4, LineTexts, GoodNext DEF EInv, Ordered
<1>6. Whole'
  BY <1>1, <1>2, <1>3, <1>4, LineTexts, NextBytes DEF EInv, Whole
<1>7. Echoing'
  BY <1>2, <1>3 DEF EInv, Echoing, TypeOK
<1>8. QED  BY <1>5, <1>6, <1>7 DEF EInv

LEMMA EchoSendSome == ASSUME IInv, EInv, SendSome PROVE EInv'
<1> DEFINE a == got \o down \o unechoed \o piece
<1>1. PICK n \in 1 .. Least(Len(unsent), Window - Len(up)) :
        /\ up' = up \o First(n, unsent)
        /\ unsent' = After(n, unsent)
  BY DEF SendSome
<1>2. /\ pc.client = "send"
      /\ pc' = IF unsent' = <<>> THEN [pc EXCEPT !.client = "idle"] ELSE pc
      /\ UNCHANGED <<got, down, unechoed, piece, handed, noTimeout, open, reset>>
  BY DEF SendSome
<1>3. TypeOK
  BY DEF IInv
<1>4. n \in 1 .. Len(unsent)
  BY <1>1, <1>3, Texts
<1>5. a \in Text /\ up \in Text /\ unsent \in Text
  BY <1>3, Texts, LineTexts
<1> HIDE DEF a
<1>6. (a \o up') \o unsent' = (a \o up) \o unsent
  <2>1. \A t, x \in Text : \A i \in 1 .. Len(x) :
          (a \o (t \o First(i, x))) \o After(i, x) = (a \o t) \o x
    BY <1>5, PassedOn, Zenon
  <2>2. (a \o (up \o First(n, unsent))) \o After(n, unsent) = (a \o up) \o unsent
    BY <1>4, <1>5, <2>1, Zenon
  <2>3. QED  BY <1>1, <2>2, Zenon
<1>7. Line' = Line
  BY <1>2, <1>6 DEF Line, a
<1>8. Echoing'
  BY <1>2, <1>3 DEF EInv, Echoing, TypeOK
<1>9. QED
  BY <1>2, <1>7, <1>8, StepOn DEF EInv, Whole

LEMMA EchoRecvSome ==
  ASSUME IInv, EInv, RecvSome
  PROVE  /\ EInv'
         /\ got' \in Text /\ down' \in Text /\ got' \o down' = got \o down
         /\ \E n \in 1 .. Len(down) : got' = got \o First(n, down)
<1>1. PICK n \in 1 .. Len(down) : got' = got \o First(n, down) /\ down' = After(n, down)
  BY DEF RecvSome
<1>2. /\ pc.client = "recv" /\ pc' = [pc EXCEPT !.client = "idle"]
      /\ UNCHANGED <<unechoed, piece, up, unsent, handed, noTimeout, open, reset>>
  BY DEF RecvSome
<1>3. TypeOK
  BY DEF IInv
<1>4. got \in Text /\ down \in Text
  BY <1>3, Texts
<1>5. got' \in Text /\ down' \in Text
  BY <1>1, <1>4, Pieces, Joined
<1>6. got' \o down' = got \o down
  <2>1. (got \o First(n, down)) \o After(n, down) = got \o down
    BY <1>4, TakenFromNext, Zenon
  <2>2. QED  BY <1>1, <2>1, Zenon
<1>7. Line' = Line
  BY <1>2, <1>6 DEF Line
<1>8. Echoing'
  BY <1>2, <1>3 DEF EInv, Echoing, TypeOK
<1>9. EInv'
  BY <1>2, <1>6, <1>7, <1>8, StepOn DEF EInv, Whole
<1>10. QED  BY <1>1, <1>5, <1>6, <1>9

LEMMA EchoTaskSome == ASSUME IInv, EInv, TaskSome PROVE EInv'
<1> DEFINE a == got \o down \o unechoed
<1>1. PICK n \in 1 .. Least(recvLen, Len(up)) :
        /\ up' = After(n, up)
        /\ piece' = IF open THEN First(n, up) ELSE <<>>
  BY DEF TaskSome
<1>2. /\ pc.server = "recv" /\ piece = <<>>
      /\ UNCHANGED <<got, down, unechoed, unsent, handed, noTimeout, open, reset>>
  BY DEF TaskSome, IInv, Emptied
<1>3. TypeOK
  BY DEF IInv
<1>4. n \in 1 .. Len(up)
  BY <1>1, <1>3, Texts DEF TypeOK
<1>5. a \in Text /\ up \in Text /\ unsent \in Text /\ handed \in Nat
  BY <1>3, Texts, LineTexts
<1>6. First(n, up) \in Text /\ After(n, up) \in Text
  BY <1>4, <1>5, Pieces
<1>7. (a \o First(n, up)) \o After(n, up) = a \o up
  <2> HIDE DEF a
  <2>1. QED  BY <1>4, <1>5, TakenFromNext, Zenon
<1>8. a \o piece = a
  BY <1>2, <1>5, Nothing
<1>9. got \o down \o unechoed \o First(n, up) \o After(n, up) \o unsent = Line
  BY <1>7, <1>8 DEF Line
<1>10. Echoing'
  BY <1>2 DEF EInv, Echoing
<1>11. CASE open
  <2>1. Line' = Line
    BY <1>1, <1>2, <1>9, <1>11 DEF Line
  <2>2. QED  BY <1>2, <1>10, <2>1, StepOn DEF EInv, Whole
<1>12. CASE ~open
  <2>1. Line' = got \o down \o unechoed \o <<>> \o After(n, up) \o unsent
    BY <1>1, <1>2, <1>12 DEF Line
  <2>2. Good(got \o down \o unechoed \o <<>> \o After(n, up) \o unsent, handed)
    BY <1>3, <1>5, <1>6, <1>9, Texts, CutLine DEF EInv, Ordered
  <2>3. Ordered'
    BY <1>2, <2>1, <2>2 DEF Ordered
  <2>4. Whole'
    BY <1>2, <1>12 DEF EInv, Whole
  <2>5. QED  BY <1>10, <2>3, <2>4 DEF EInv
<1>13. QED  BY <1>11, <1>12

LEMMA EchoParse == ASSUME IInv, EInv, Parse PROVE EInv'
<1>1. /\ pc.server = "parse" /\ piece' = <<>>
      /\ unechoed' = IF open THEN piece ELSE <<>>
      /\ pc' = [pc EXCEPT !.server = IF open THEN "send" ELSE "return"]
      /\ UNCHANGED <<got, down, up, unsent, handed, noTimeout, open, reset>>
  BY DEF Parse
<1>2. TypeOK /\ unechoed = <<>>
  BY <1>1 DEF IInv, EInv, Echoing
<1>3. piece \in Text /\ got \o down \in Text /\ got \o down \o piece \in Text
  BY <1>2, Texts, LineTexts, Joined
<1>4. /\ got \o down \o <<>> = got \o down
      /\ got \o down \o piece \o <<>> = got \o down \o piece
  BY <1>3, Nothing
<1>5. Echoing'
  BY <1>1, <1>2 DEF Echoing, TypeOK
<1>6. CASE open
  <2>1. Line' = Line
    BY <1>1, <1>2, <1>4, <1>6 DEF Line
  <2>2. ASSUME noTimeout, ~reset PROVE Service!Complete(got \o down \o piece)
    <3>1. Service!Complete(Line)
      BY <1>2, <1>6, <2>2, LineTexts, CountIsComplete DEF EInv, Whole
    <3>2. Service!Complete(got \o down \o unechoed \o piece)
      BY <1>2, <3>1, LineTexts, Texts, CompletePrefix DEF Line
    <3>3. QED  BY <1>2, <1>4, <3>2
  <2>3. (got \o down \o unechoed)' = got \o down \o piece
    BY <1>1, <1>6
  <2>4. QED
    BY <1>1, <1>5, <1>6, <2>1, <2>2, <2>3, StepOn DEF EInv, Whole
<1>7. CASE ~open
  <2>1. Line' = got \o down \o unechoed \o <<>> \o up \o unsent
    BY <1>1, <1>2, <1>7 DEF Line
  <2>2. Good(got \o down \o unechoed \o <<>> \o up \o unsent, handed)
    BY <1>2, Texts, LineTexts, CutLine DEF EInv, Ordered, Line
  <2>3. Ordered'
    BY <1>1, <2>1, <2>2 DEF Ordered
  <2>4. Whole'
    BY <1>1, <1>2, <1>7 DEF EInv, Whole
  <2>5. QED  BY <1>5, <2>3, <2>4 DEF EInv
<1>8. QED  BY <1>6, <1>7

LEMMA EchoEchoSome == ASSUME IInv, EInv, EchoSome PROVE EInv'
<1>1. PICK n \in 1 .. Least(Len(unechoed), BackWindow - Len(down)) :
        /\ down' = down \o First(n, unechoed)
        /\ unechoed' = IF open THEN After(n, unechoed) ELSE <<>>
  BY DEF EchoSome
<1>2. /\ pc.server = "send" /\ ~reset
      /\ pc' = IF unechoed' = <<>> THEN [pc EXCEPT !.server = "return"] ELSE pc
      /\ UNCHANGED <<got, piece, up, unsent, handed, noTimeout, open, reset>>
  BY DEF EchoSome
<1>3. TypeOK
  BY DEF IInv
<1>4. n \in 1 .. Len(unechoed)
  BY <1>1, <1>3, Texts
<1>5. /\ got \in Text /\ down \in Text /\ unechoed \in Text
      /\ First(n, unechoed) \in Text /\ After(n, unechoed) \in Text
  BY <1>3, <1>4, Texts, Pieces
<1>6. down' \in Text /\ got \o down' \in Text
  BY <1>1, <1>5, Joined
<1>7. (got \o down') \o After(n, unechoed) = (got \o down) \o unechoed
  <2>1. \A t, x \in Text : \A i \in 1 .. Len(x) :
          (got \o (t \o First(i, x))) \o After(i, x) = (got \o t) \o x
    BY <1>5, PassedOn, Zenon
  <2>2. (got \o (down \o First(n, unechoed))) \o After(n, unechoed) = (got \o down) \o unechoed
    BY <1>4, <1>5, <2>1, Zenon
  <2>3. QED  BY <1>1, <2>2, Zenon
<1>8. got \o down' \o After(n, unechoed) \o piece \o up \o unsent = Line
  BY <1>7 DEF Line
<1>9. Echoing'
  BY <1>2, <1>3 DEF EInv, Echoing, TypeOK
<1>10. noTimeout => Service!Complete(got \o down')
  BY <1>2, <1>5, <1>6, <1>7, CompletePrefix DEF EInv, Whole
<1>11. CASE open
  <2>1. Line' = Line
    BY <1>1, <1>2, <1>8, <1>11 DEF Line
  <2>2. (got \o down \o unechoed)' = got \o down \o unechoed
    BY <1>1, <1>2, <1>7, <1>11
  <2>3. (got \o down)' = got \o down'
    BY <1>2
  <2>4. QED
    BY <1>2, <1>9, <1>10, <2>1, <2>2, <2>3, StepOn DEF EInv, Whole
<1>12. CASE ~open
  <2>1. Line' = got \o down' \o <<>> \o piece \o up \o unsent
    BY <1>1, <1>2, <1>12 DEF Line
  <2>2. Good(got \o down' \o <<>> \o piece \o up \o unsent, handed)
    BY <1>3, <1>5, <1>6, <1>8, Texts, LineTexts, CutLine DEF EInv, Ordered
  <2>3. Ordered'
    BY <1>2, <2>1, <2>2 DEF Ordered
  <2>4. (got \o down \o unechoed)' = got \o down'
    BY <1>1, <1>2, <1>6, <1>12, Nothing
  <2>5. Whole'
    BY <1>2, <1>10, <1>12, <2>4 DEF Whole
  <2>6. QED  BY <1>9, <2>3, <2>5 DEF EInv
<1>13. QED  BY <1>11, <1>12

\* send() of the session fails: what is left of the message is lost.
LEMMA EchoEchoFail == ASSUME IInv, EInv, pc.server = "send", EchoFail PROVE EInv'
<1>1. /\ unechoed' = <<>> /\ (open' => open /\ ~noTimeout)
      /\ UNCHANGED <<got, down, piece, up, unsent, handed, noTimeout, reset>>
  BY DEF EchoFail
<1>2. TypeOK
  BY DEF IInv
<1>3. Line' = got \o down \o <<>> \o piece \o up \o unsent
  BY <1>1 DEF Line
<1>4. Good(got \o down \o <<>> \o piece \o up \o unsent, handed)
  BY <1>2, Texts, LineTexts, CutLine DEF EInv, Ordered, Line
<1>5. (got \o down \o unechoed)' = got \o down
  BY <1>1, <1>2, LineTexts, Nothing
<1>6. Ordered'
  BY <1>1, <1>3, <1>4 DEF Ordered
<1>7. Whole'
  BY <1>1, <1>5 DEF EInv, Whole
<1>8. QED  BY <1>1, <1>6, <1>7 DEF EInv, Echoing

\* A reset loses what is on its way.
LEMMA EchoReset == ASSUME IInv, EInv, Reset PROVE EInv'
<1>1. /\ up' \in {up, <<>>} /\ down' \in {down, <<>>} /\ reset'
      /\ UNCHANGED <<got, unechoed, piece, unsent, handed, noTimeout, open, pc>>
  BY DEF Reset
<1>2. TypeOK
  BY DEF IInv
<1>3. /\ got \in Text /\ down \in Text /\ unechoed \in Text /\ piece \in Text
      /\ up \in Text /\ unsent \in Text /\ handed \in Nat /\ <<>> \in Text
  BY <1>2, Texts, LineTexts, Nothing
<1>4. Good(got \o down \o unechoed \o piece \o up' \o unsent, handed)
  BY <1>1, <1>3, CutLine DEF EInv, Ordered, Line
<1>5. up' \in Text
  BY <1>1, <1>3
<1>6. Good(got \o down' \o unechoed \o piece \o up' \o unsent, handed)
  BY <1>1, <1>3, <1>4, <1>5, CutLine
<1>7. Ordered'
  BY <1>1, <1>6 DEF Ordered, Line
<1>8. noTimeout => Service!Complete(got \o down')
  <2>1. noTimeout => Service!Complete(got)
    BY <1>3, CompletePrefix DEF EInv, Whole
  <2>2. QED  BY <1>1, <1>3, <2>1, Nothing DEF EInv, Whole
<1>9. Whole'
  BY <1>1, <1>8 DEF Whole
<1>10. QED  BY <1>1, <1>7, <1>9 DEF EInv, Echoing

\* The steps that move no byte.
LEMMA EchoStill ==
  ASSUME IInv, EInv,
         \/ SendTimeout \/ SendBroken \/ RecvCall \/ RecvEnd \/ RecvTimeout \/ Close
         \/ Task \/ TaskNothing \/ TaskEnd \/ ParseReturn \/ EchoKilled
         \/ Shut \/ UNCHANGED vars
  PROVE  EInv' /\ UNCHANGED <<handed, got, noTimeout>>
<1>1. UNCHANGED <<got, down, unechoed, piece, up, unsent, handed, noTimeout, reset>>
  BY DEF SendTimeout, SendBroken, RecvCall, RecvEnd, RecvTimeout, Close, Task,
     TaskNothing, TaskEnd, ParseReturn, EchoKilled, Shut, vars
<1>2. open' => open
  BY DEF SendTimeout, SendBroken, RecvCall, RecvEnd, RecvTimeout, Close, Task,
     TaskNothing, TaskEnd, ParseReturn, EchoKilled, Shut, vars
<1>3. \/ pc'.server = pc.server
      \/ pc.server \notin {"send", "killed"}
      \/ pc'.server = "killed"
  BY DEF SendTimeout, SendBroken, RecvCall, RecvEnd, RecvTimeout, Close, Task,
     TaskNothing, TaskEnd, ParseReturn, EchoKilled, Shut, vars, IInv, TypeOK
<1>4. Echoing'
  BY <1>1, <1>3 DEF EInv, Echoing
<1>5. QED  BY <1>1, <1>2, <1>4, StepStill

----------------------------------------------------------------------------
\* What the client receives next.
LEMMA Answers == ASSUME IInv, EInv, RecvSome PROVE Service!Answer
<1>1. TypeOK
  BY DEF IInv
<1>2. /\ got \in Text /\ down \in Text /\ got' \in Text /\ down' \in Text
      /\ got' \o down' = got \o down
  BY <1>1, EchoRecvSome, Texts
<1>3. PICK n \in 1 .. Len(down) : got' = got \o First(n, down)
  BY EchoRecvSome
<1>4. First(n, down) \in Text /\ Len(First(n, down)) = n
  BY <1>2, Pieces
<1>5. Len(got) \in Nat /\ Len(got') = Len(got) + n
  <2>1. Len(got) \in Nat
    BY <1>2 DEF Text
  <2>2. Len(got \o First(n, down)) = Len(got) + Len(First(n, down))
    BY <1>2, <1>4, Joined
  <2>3. QED  BY <1>3, <1>4, <2>1, <2>2
<1>6. got' # got
  BY <1>5
<1>7. SubSeq(got', 1, Len(got)) = got
  <2>1. \A i \in 1 .. Len(got) : got'[i] = got[i] /\ got'[i] \in 1 .. Bytes
    <3>1. \A i \in 1 .. Len(got) + n : (got \o First(n, down))[i] =
            IF i <= Len(got) THEN got[i] ELSE First(n, down)[i - Len(got)]
      BY <1>2, <1>4, ConcatProperties DEF Text
    <3>2. \A i \in 1 .. Len(got) : got[i] \in 1 .. Bytes
      BY <1>2 DEF Text
    <3>3. QED  BY <1>3, <1>5, <3>1, <3>2
  <2>2. /\ SubSeq(got', 1, Len(got)) \in Seq(1 .. Bytes)
        /\ Len(SubSeq(got', 1, Len(got))) = Len(got)
        /\ \A i \in 1 .. Len(got) : SubSeq(got', 1, Len(got))[i] = got'[i]
    BY <1>5, <2>1, SubSeqProperties
  <2>3. QED  BY <1>2, <2>1, <2>2, SeqEqual DEF Text
<1>8. Good(got', handed)
  <2>1. Good(got \o down \o unechoed \o piece, handed)
    BY <1>1, LineTexts, Texts, GoodPrefix DEF EInv, Ordered, Line
  <2>2. Good(got \o down, handed)
    BY <1>1, <2>1, LineTexts, Texts, GoodPrefix
  <2>3. QED  BY <1>1, <1>2, <2>2, LineTexts, GoodPrefix
<1>9. noTimeout => Service!Complete(got')
  BY <1>2, CompletePrefix DEF EInv, Whole
<1>10. UNCHANGED <<handed, noTimeout>>
  BY DEF RecvSome
<1>11. QED
  BY <1>6, <1>7, <1>8, <1>9, <1>10 DEF Service!Answer, Good

\* Every step keeps the line, and is one of Echo's or none.
LEMMA StepEcho ==
  ASSUME IInv, EInv, [Next]_vars
  PROVE  EInv' /\ [Service!Next]_<<~noTimeout, handed, got>>
<1>1. CASE SendCall
  <2>1. handed' > handed /\ UNCHANGED <<noTimeout, got>>
    BY <1>1 DEF SendCall, IInv, TypeOK
  <2>2. QED  BY <1>1, <2>1, EchoSendCall DEF Service!Next, Service!Send
<1>2. CASE RecvSome
  BY <1>2, EchoRecvSome, Answers DEF Service!Next
<1>3. CASE SendSome
  BY <1>3, EchoSendSome DEF SendSome
<1>4. CASE TaskSome
  BY <1>4, EchoTaskSome DEF TaskSome
<1>5. CASE Parse
  BY <1>5, EchoParse DEF Parse
<1>6. CASE EchoSome
  BY <1>6, EchoEchoSome DEF EchoSome
<1>7. CASE EchoTimeout \/ EchoBroken
  <2>1. pc.server = "send" /\ EchoFail
    BY <1>7 DEF EchoTimeout, EchoBroken
  <2>2. QED  BY <2>1, EchoEchoFail DEF EchoFail
<1>8. CASE Reset
  BY <1>8, EchoReset DEF Reset
<1>9. CASE \/ SendTimeout \/ SendBroken \/ RecvCall \/ RecvEnd \/ RecvTimeout \/ Close
          \/ Task \/ TaskNothing \/ TaskEnd \/ ParseReturn \/ EchoKilled
          \/ Shut \/ UNCHANGED vars
  BY <1>9, EchoStill
<1>10. QED
  BY <1>1, <1>2, <1>3, <1>4, <1>5, <1>6, <1>7, <1>8, <1>9
     DEF Next, Client, Sending, Receiving, Server

\* The program is answered as Echo promises: with its own bytes, in their order,
\* each at most once, and without a gap unless the session has a timeout.
THEOREM Refinement == Spec => ImplementsEcho
<1>1. Init => Service!Init
  BY DEF Init, Service!Init
<1>2. QED
  BY <1>1, InitEInv, Invariance, StepEcho, PTL DEF Spec, ImplementsEcho, Service!Spec
=============================================================================
