---------------------------- MODULE ProtoClient ----------------------------
(***************************************************************************)
(* IProtoClient: requests with an id, sent over one INetClient, and the    *)
(* map of those that wait for an answer.                                   *)
(*                                                                         *)
(*   owner    the program's thread that calls init() and close()           *)
(*   senders  its threads that call send(), each with a CResClient         *)
(*                                                                         *)
(* init() calls attach() when the client has its socket, and attach()      *)
(* refuses that (module Client): recv_proc, and dispense() with it, are    *)
(* never called, no request gets a buffer, and what send() waits for is    *)
(* the time or close(). m_rwlock protects the map; m_client, m_timeout and *)
(* the id of a request are read without it. send() goes beyond its first   *)
(* test only when there is no client: the rest depends on an init() that   *)
(* makes one meanwhile.                                                    *)
(***************************************************************************)
EXTENDS Integers

CONSTANTS
  Sender, Req,
  Id,         \* the ids the program gives to requests
  Timeouts    \* what init() may be given

ASSUME ProtoClientAssumption ==
  /\ "owner" \notin Sender
  /\ "none" \notin Req
  /\ Id \subseteq Nat \ {0}
  /\ Timeouts \subseteq Nat \cup {-1}

VARIABLES
  m_client,     \* what the pointer points to; a client that is ready can send
  m_timeout,
  m_mapRequest, \* the request registered under each id
  writer,       \* close() holds m_rwlock
  id,           \* m_id of each request
  req,          \* the request each sender is in send() with
  key,          \* the id its appendResopne or deleteResopne has read
  left,         \* how long its send() still waits, -1 for ever
  quick,        \* requests whose last send() was registered and did not wait
  alive,        \* no null or deleted client has been used
  pc

client   == <<m_client, m_timeout>>
requests == <<m_mapRequest, writer, id>>
locals   == <<req, key, left>>
vars == <<client, requests, locals, quick, alive, pc>>

Thread == Sender \cup {"owner"}
NoReq  == "none"

TypeOK ==
  /\ m_client \in {"null", "new", "open", "ready", "closed", "deleted"}
  /\ m_timeout \in Timeouts \cup {-1}
  /\ m_mapRequest \in [Id \cup {0} -> Req \cup {NoReq}]
  /\ writer \in BOOLEAN
  /\ id \in [Req -> Id \cup {0}]
  /\ req \in [Sender -> Req \cup {NoReq}]
  /\ key \in [Sender -> Id \cup {0}]
  /\ left \in [Sender -> Nat \cup {-1}]
  /\ quick \in SUBSET Req
  /\ alive \in BOOLEAN
  /\ pc \in [Thread ->
       {"idle", "init", "timeout", "connect", "delete", "null", "lock", "setId",
        "use", "sending", "sent", "append", "insert", "wait", "erase", "remove"}]

Init ==
  /\ m_client = "null" /\ m_timeout = -1
  /\ m_mapRequest = [k \in Id \cup {0} |-> NoReq] /\ writer = FALSE
  /\ id = [r \in Req |-> 0]
  /\ req = [s \in Sender |-> NoReq]
  /\ key = [s \in Sender |-> 0] /\ left = [s \in Sender |-> 0]
  /\ quick = {} /\ alive = TRUE
  /\ pc = [t \in Thread |-> "idle"]

Step(t, from, to) == pc[t] = from /\ pc' = [pc EXCEPT ![t] = to]

Registered(r) == \E k \in DOMAIN m_mapRequest : m_mapRequest[k] = r

InSend(r) == \E s \in Sender : req[s] = r

\* send() returns, and its local variables are gone.
Leave(s) ==
  /\ req' = [req EXCEPT ![s] = NoReq]
  /\ key' = [key EXCEPT ![s] = 0]
  /\ left' = [left EXCEPT ![s] = 0]

----------------------------------------------------------------------------
(* Slips the code avoids: each is the definition of the same name, less its *)
(* suffix, with one mistake. No action below uses them.                     *)

CloseClear_NotTold ==
  /\ Step("owner", "setId", "idle")
  /\ m_mapRequest' = [k \in DOMAIN m_mapRequest |-> NoReq]
  /\ writer' = FALSE
  /\ UNCHANGED <<client, id, locals, quick, alive>>

WaitOver_NoErase(s) ==
  /\ Step(s, "wait", "idle")
  /\ id[req[s]] = 0 \/ left[s] = 0
  /\ quick' = quick \ {req[s]}
  /\ Leave(s)
  /\ UNCHANGED <<client, requests, alive>>

Remove_StaysLocked(s) ==
  /\ Step(s, "remove", "idle")
  /\ ~writer
  /\ m_mapRequest' = [m_mapRequest EXCEPT ![key[s]] = NoReq]
  /\ writer' = (m_mapRequest[key[s]] = NoReq)
  /\ quick' = quick \ {req[s]}
  /\ Leave(s)
  /\ UNCHANGED <<client, id, alive>>

----------------------------------------------------------------------------
(* owner: init()                                                           *)

\* init() of an object that has a client is refused.
InitCall ==
  /\ Step("owner", "idle", "init")
  /\ m_client = "null"
  /\ m_client' = "new"
  /\ UNCHANGED <<m_timeout, requests, locals, quick, alive>>

\* What m_client->init() returns is not asked. With a socket a UDP client can
\* send, a TCP client when it is connected.
InitClient ==
  /\ Step("owner", "init", "timeout")
  /\ m_client' \in {m_client, "open", "ready"}
  /\ UNCHANGED <<m_timeout, requests, locals, quick, alive>>

InitTimeout ==
  /\ Step("owner", "timeout", "connect")
  /\ m_timeout' \in Timeouts
  /\ UNCHANGED <<m_client, requests, locals, quick, alive>>

\* After attach(), which is refused.
InitConnect ==
  /\ Step("owner", "connect", "idle")
  /\ m_client' \in IF m_client = "open" THEN {"open", "ready"} ELSE {m_client}
  /\ UNCHANGED <<m_timeout, requests, locals, quick, alive>>

----------------------------------------------------------------------------
(* owner: close()                                                          *)

\* m_client->close() leaves a client that believes it is ready.
CloseCall ==
  /\ Step("owner", "idle", "delete")
  /\ m_client # "null"
  /\ m_client' = IF m_client = "ready" THEN "closed" ELSE "new"
  /\ UNCHANGED <<m_timeout, requests, locals, quick, alive>>

CloseDelete ==
  /\ Step("owner", "delete", "null")
  /\ m_client' = "deleted"
  /\ UNCHANGED <<m_timeout, requests, locals, quick, alive>>

CloseNull ==
  /\ Step("owner", "null", "lock")
  /\ m_client' = "null"
  /\ UNCHANGED <<m_timeout, requests, locals, quick, alive>>

CloseLock ==
  /\ Step("owner", "lock", "setId")
  /\ writer' = TRUE
  /\ UNCHANGED <<client, m_mapRequest, id, locals, quick, alive>>

CloseSetId ==
  /\ pc["owner"] = "setId"
  /\ \E r \in Req :
       /\ Registered(r) /\ id[r] # 0
       /\ id' = [id EXCEPT ![r] = 0]
  /\ UNCHANGED <<client, m_mapRequest, writer, locals, quick, alive, pc>>

CloseClear ==
  /\ Step("owner", "setId", "idle")
  /\ \A r \in Req : Registered(r) => id[r] = 0
  /\ m_mapRequest' = [k \in DOMAIN m_mapRequest |-> NoReq]
  /\ writer' = FALSE
  /\ UNCHANGED <<client, id, locals, quick, alive>>

----------------------------------------------------------------------------
(* senders: send()                                                         *)

\* The program gives a request its id, and gives it again when a close() that
\* has taken it back is done with the map.
SetId ==
  /\ \E r \in Req, i \in Id :
       /\ id[r] = 0 /\ ~InSend(r) /\ ~Registered(r)
       /\ id' = [id EXCEPT ![r] = i]
  /\ UNCHANGED <<client, m_mapRequest, writer, locals, quick, alive, pc>>

\* With a client send() returns false.
SendCall(s) ==
  /\ Step(s, "idle", "use")
  /\ m_client = "null"
  /\ \E r \in Req :
       /\ ~InSend(r)
       /\ req' = [req EXCEPT ![s] = r]
  /\ UNCHANGED <<client, requests, key, left, quick, alive>>

\* m_client is read again, and m_client->send() called.
Use(s) ==
  /\ Step(s, "use", "sending")
  /\ alive' = (m_client \notin {"null", "deleted"})
  /\ UNCHANGED <<client, requests, locals, quick>>

SendFail(s) ==
  /\ Step(s, "sending", "idle")
  /\ m_client \notin {"null", "deleted"}
  /\ Leave(s)
  /\ UNCHANGED <<client, requests, quick, alive>>

\* After close() what is sent goes to whoever has the descriptor.
SendDone(s) ==
  /\ Step(s, "sending", "sent")
  /\ m_client \in {"ready", "closed"}
  /\ UNCHANGED <<client, requests, locals, quick, alive>>

\* The client is deleted under m_client->send().
SendCrash(s) ==
  /\ pc[s] = "sending"
  /\ m_client \in {"null", "deleted"}
  /\ alive' = FALSE
  /\ UNCHANGED <<client, requests, locals, quick, pc>>

\* A request without an id waits for no answer: true.
Sent(s) ==
  /\ pc[s] = "sent"
  /\ IF id[req[s]] = 0
       THEN Step(s, "sent", "idle") /\ Leave(s)
       ELSE Step(s, "sent", "append") /\ UNCHANGED locals
  /\ UNCHANGED <<client, requests, quick, alive>>

\* appendResopne and deleteResopne read the id before they take the lock.
ReadId(s) ==
  /\ Step(s, "append", "insert") \/ Step(s, "erase", "remove")
  /\ key' = [key EXCEPT ![s] = id[req[s]]]
  /\ UNCHANGED <<client, requests, req, left, quick, alive>>

\* appendResopne, when the id is free: send() takes its true for a failure and
\* returns false; the request stays registered.
Insert(s) ==
  /\ Step(s, "insert", "idle")
  /\ ~writer
  /\ m_mapRequest[key[s]] = NoReq
  /\ m_mapRequest' = [m_mapRequest EXCEPT ![key[s]] = req[s]]
  /\ quick' = quick \cup {req[s]}
  /\ Leave(s)
  /\ UNCHANGED <<client, writer, id, alive>>

\* When it is taken, send() goes on to wait.
InsertRefused(s) ==
  /\ Step(s, "insert", "wait")
  /\ ~writer
  /\ m_mapRequest[key[s]] # NoReq
  /\ left' = [left EXCEPT ![s] = m_timeout]
  /\ UNCHANGED <<client, requests, req, key, quick, alive>>

\* The time in which the loop looks for an id and a buffer.
Tick(s) ==
  /\ pc[s] = "wait"
  /\ left[s] > 0
  /\ left' = [left EXCEPT ![s] = @ - 1]
  /\ UNCHANGED <<client, requests, req, key, quick, alive, pc>>

WaitOver(s) ==
  /\ Step(s, "wait", "erase")
  /\ id[req[s]] = 0 \/ left[s] = 0
  /\ UNCHANGED <<client, requests, locals, quick, alive>>

\* deleteResopne erases what the id stands for; send() returns false.
Remove(s) ==
  /\ Step(s, "remove", "idle")
  /\ ~writer
  /\ m_mapRequest' = [m_mapRequest EXCEPT ![key[s]] = NoReq]
  /\ quick' = quick \ {req[s]}
  /\ Leave(s)
  /\ UNCHANGED <<client, writer, id, alive>>

Initing == InitClient \/ InitTimeout \/ InitConnect
Closing == CloseDelete \/ CloseNull \/ CloseLock \/ CloseSetId \/ CloseClear
Sending(s) ==
  \/ Use(s) \/ SendFail(s) \/ SendDone(s) \/ SendCrash(s) \/ Sent(s)
  \/ ReadId(s) \/ Insert(s) \/ InsertRefused(s)
  \/ Tick(s) \/ WaitOver(s) \/ Remove(s)

Next ==
  /\ alive
  /\ \/ InitCall \/ Initing
     \/ CloseCall \/ Closing
     \/ SetId
     \/ \E s \in Sender : SendCall(s) \/ Sending(s)

Spec == Init /\ [][Next]_vars

\* A call that has begun goes on, except that m_client->send() may wait for ever,
\* and the lock is given in the end to a sender that waits for it; nobody need
\* begin a call.
FairSpec ==
  /\ Spec
  /\ WF_vars(alive /\ Closing)
  /\ \A s \in Sender : /\ WF_vars(alive /\ pc[s] # "sending" /\ Sending(s))
                      /\ SF_vars(alive /\ Remove(s))

----------------------------------------------------------------------------
(* Properties                                                              *)

\* send() with a timeout returns, though it waits beside other senders and a
\* close() for the lock, and no answer ever comes.
SendReturns ==
  \A s \in Sender :
    (pc[s] = "wait" /\ left[s] >= 0) ~> (pc[s] = "idle" \/ ~alive)

\* close() ends every send() that waits with a request of the map, also one
\* without a timeout. A send() that waits for another request of the same id is
\* not in the map and is not ended.
CloseReleases ==
  \A s \in Sender :
    (pc[s] = "wait" /\ writer /\ Registered(req[s])) ~> (pc[s] = "idle" \/ ~alive)

\* A send() that has waited leaves no pointer to its request, which the program
\* may then delete, in the map that close() will write through; one that has
\* not waited does.
LeavesNothing == \A r \in Req : Registered(r) => InSend(r) \/ r \in quick
=============================================================================
