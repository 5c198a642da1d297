-------------------------- MODULE ProtoClientProof --------------------------
(***************************************************************************)
(* Theorems of ProtoClient.                                                *)
(***************************************************************************)
EXTENDS ProtoClient, TLAPS

\* A sender that is in send() has a request, which no other has.
OneEach ==
  \A s \in Sender :
    /\ pc[s] # "idle" => req[s] # NoReq
    /\ \A u \in Sender \ {s} : req[s] = req[u] => req[s] = NoReq

\* close() takes the ids of the requests under the lock.
Locked == pc["owner"] = "setId" => writer

\* While a request has an id that is what it is registered under and what has
\* been read of it.
IdIsKey ==
  /\ \A k \in Id \cup {0} :
       m_mapRequest[k] # NoReq => id[m_mapRequest[k]] \in {0, k}
  /\ \A s \in Sender :
       pc[s] \in {"insert", "remove"} => id[req[s]] \in {0, key[s]}

\* A request that has lost its id during send() is not in the map, but while
\* close(), which has taken the id, holds the lock.
Forgotten ==
  \A s \in Sender :
    pc[s] \in {"append", "insert", "wait", "erase", "remove"} /\ id[req[s]] = 0 =>
      writer \/ ~Registered(req[s])

\* Nothing is registered but by a send() that has not waited.
OnlyQuick == \A k \in Id \cup {0} : m_mapRequest[k] \in quick \cup {NoReq}

IInv == TypeOK /\ Locked /\ OneEach /\ IdIsKey /\ Forgotten /\ OnlyQuick

----------------------------------------------------------------------------
USE ProtoClientAssumption
USE DEF IInv, TypeOK, Locked, OneEach, IdIsKey, Forgotten, OnlyQuick, Registered, InSend,
  NoReq, Thread, Step, Leave, client, requests, locals

LEMMA InitIInv == Init => IInv
<1> SUFFICES ASSUME Init PROVE IInv
  OBVIOUS
<1>1. TypeOK
  BY DEF Init
<1>2. Locked /\ OneEach /\ IdIsKey /\ OnlyQuick
  BY DEF Init
<1>3. Forgotten
  BY DEF Init
<1>4. QED  BY <1>1, <1>2, <1>3

\* init().
LEMMA StepInit == ASSUME IInv, InitCall \/ Initing PROVE IInv'
<1>1. CASE InitCall
  BY <1>1 DEF InitCall
<1>2. CASE InitClient
  BY <1>2 DEF InitClient
<1>3. CASE InitTimeout
  BY <1>3 DEF InitTimeout
<1>4. CASE InitConnect
  BY <1>4 DEF InitConnect
<1>5. QED  BY <1>1, <1>2, <1>3, <1>4 DEF Initing

\* close().
LEMMA StepClose == ASSUME IInv, CloseCall \/ Closing PROVE IInv'
<1>1. CASE CloseCall
  BY <1>1 DEF CloseCall
<1>2. CASE CloseDelete
  BY <1>2 DEF CloseDelete
<1>3. CASE CloseNull
  BY <1>3 DEF CloseNull
<1>4. CASE CloseLock
  BY <1>4 DEF CloseLock
<1>5. CASE CloseSetId
  <2>1. PICK r \in Req : id' = [id EXCEPT ![r] = 0]
    BY <1>5 DEF CloseSetId
  <2>2. writer /\ UNCHANGED <<client, m_mapRequest, writer, locals, quick, alive, pc>>
    BY <1>5 DEF CloseSetId
  <2>3. TypeOK'
    BY <2>1, <2>2
  <2>4. Locked' /\ OneEach' /\ IdIsKey'
    BY <2>1, <2>2
  <2>5. Forgotten' /\ OnlyQuick'
    BY <2>1, <2>2
  <2>6. QED  BY <2>3, <2>4, <2>5
<1>6. CASE CloseClear
  BY <1>6 DEF CloseClear
<1>7. QED
  BY <1>1, <1>2, <1>3, <1>4, <1>5, <1>6 DEF Closing

\* setId().
LEMMA StepSetId == ASSUME IInv, SetId PROVE IInv'
BY DEF SetId

\* send(), up to the lock.
LEMMA StepSend ==
  ASSUME IInv, NEW s \in Sender,
         SendCall(s) \/ Use(s) \/ SendFail(s) \/ SendDone(s) \/ SendCrash(s) \/ Sent(s)
  PROVE  IInv'
<1>1. CASE SendCall(s)
  BY <1>1 DEF SendCall
<1>2. CASE Use(s)
  BY <1>2 DEF Use
<1>3. CASE SendFail(s)
  BY <1>3 DEF SendFail
<1>4. CASE SendDone(s)
  BY <1>4 DEF SendDone
<1>5. CASE SendCrash(s)
  BY <1>5 DEF SendCrash
<1>6. CASE Sent(s)
  BY <1>6 DEF Sent
<1>7. QED
  BY <1>1, <1>2, <1>3, <1>4, <1>5, <1>6

\* The rest of send(), with appendResopne and deleteResopne.
LEMMA StepWait ==
  ASSUME IInv, NEW s \in Sender,
         ReadId(s) \/ Insert(s) \/ InsertRefused(s) \/ Tick(s) \/ WaitOver(s) \/ Remove(s)
  PROVE  IInv'
<1>1. CASE ReadId(s)
  BY <1>1 DEF ReadId
<1>2. CASE Insert(s)
  BY <1>2 DEF Insert
<1>3. CASE InsertRefused(s)
  BY <1>3 DEF InsertRefused
<1>4. CASE Tick(s)
  BY <1>4 DEF Tick
<1>5. CASE WaitOver(s)
  BY <1>5 DEF WaitOver
<1>6. CASE Remove(s)
  BY <1>6 DEF Remove
<1>7. QED
  BY <1>1, <1>2, <1>3, <1>4, <1>5, <1>6

LEMMA StepNone == ASSUME IInv, UNCHANGED vars PROVE IInv'
BY DEF vars

----------------------------------------------------------------------------
\* The invariant of the argument.
THEOREM Invariance == Spec => []IInv
<1> HIDE DEF IInv
<1>1. IInv /\ [Next]_vars => IInv'
  BY StepInit, StepClose, StepSetId, StepSend, StepWait, StepNone DEF Next, Sending
<1>2. QED  BY <1>1, InitIInv, PTL DEF Spec

\* Every variable of the request client keeps its type.
THEOREM Typing == Spec => []TypeOK
BY Invariance, PTL DEF IInv

\* A send() that has waited leaves nothing of its request in the map, though
\* close() may take the id from the request between any two of its steps.
THEOREM NothingLeft == Spec => []LeavesNothing
<1>1. IInv => LeavesNothing
  BY DEF LeavesNothing
<1> HIDE DEF IInv
<1>2. QED  BY <1>1, Invariance, PTL

\* A request is in the map once.
OneEntry ==
  \A k, l \in Id \cup {0} :
    m_mapRequest[k] = m_mapRequest[l] /\ m_mapRequest[k] # NoReq => k = l

LEMMA StepOneEntry == IInv /\ OneEntry /\ [Next]_vars => OneEntry'
<1> SUFFICES ASSUME IInv, OneEntry, [Next]_vars PROVE OneEntry'
  OBVIOUS
<1> USE DEF OneEntry
<1>1. CASE UNCHANGED m_mapRequest
  BY <1>1
<1>2. CASE CloseClear
  BY <1>2 DEF CloseClear
<1>3. ASSUME NEW s \in Sender, Insert(s) PROVE OneEntry'
  <2>1. /\ pc[s] = "insert" /\ ~writer /\ m_mapRequest[key[s]] = NoReq
        /\ m_mapRequest' = [m_mapRequest EXCEPT ![key[s]] = req[s]]
    BY <1>3 DEF Insert
  <2>2. \A k \in Id \cup {0} : m_mapRequest[k] # req[s]
    <3>1. CASE id[req[s]] = 0
      BY <2>1, <3>1
    <3>2. CASE id[req[s]] # 0
      BY <2>1, <3>2
    <3>3. QED  BY <3>1, <3>2
  <2>3. QED  BY <2>1, <2>2
<1>4. ASSUME NEW s \in Sender, Remove(s) PROVE OneEntry'
  BY <1>4 DEF Remove
<1>5. QED
  BY <1>1, <1>2, <1>3, <1>4
  DEF vars, Next, InitCall, Initing, InitClient, InitTimeout, InitConnect, CloseCall,
      Closing, CloseDelete, CloseNull, CloseLock, CloseSetId, SetId, SendCall, Sending,
      Use, SendFail, SendDone, SendCrash, Sent, ReadId, InsertRefused, Tick, WaitOver

\* No request is registered under two ids, though appendResopne() reads the id
\* before it has the lock and close() may take it in between: close(), which
\* walks the map, comes to each once. The program leaves the id of a request
\* alone that is registered.
THEOREM RegisteredOnce == Spec => []OneEntry
<1>1. Init => OneEntry
  BY DEF Init, OneEntry
<1> HIDE DEF IInv, OneEntry
<1>2. QED  BY <1>1, StepOneEntry, Invariance, PTL DEF Spec
=============================================================================
