---------------------------- MODULE PortService ----------------------------
(***************************************************************************)
(* What the servers of one process promise its terminals: a port serves    *)
(* one terminal at a time, until that one gives it up; a terminal that is  *)
(* served is called for clients of its own port only, and none is called   *)
(* before init() has begun or after stop() has returned.                   *)
(***************************************************************************)

CONSTANTS Terminal, Port, None

VARIABLES
  serves,  \* the port each terminal's server is at work on
  calls,   \* the port of the client each is being called for
  quiet    \* the terminals that are not called

Init ==
  /\ serves = [t \in Terminal |-> None]
  /\ calls = [t \in Terminal |-> None]
  /\ quiet = Terminal

Wake(t) ==
  /\ serves[t] = None
  /\ quiet' = quiet \ {t}
  /\ UNCHANGED <<serves, calls>>

Serve(t, p) ==
  /\ t \notin quiet /\ serves[t] = None /\ calls[t] = None
  /\ \A u \in Terminal : serves[u] # p
  /\ serves' = [serves EXCEPT ![t] = p]
  /\ UNCHANGED <<calls, quiet>>

GiveUp(t) ==
  /\ serves' = [serves EXCEPT ![t] = None]
  /\ UNCHANGED <<calls, quiet>>

\* A terminal that has given up its port may still be called, for any client.
Call(t, p) ==
  /\ t \notin quiet /\ calls[t] = None
  /\ serves[t] \in {p, None}
  /\ calls' = [calls EXCEPT ![t] = p]
  /\ UNCHANGED <<serves, quiet>>

Return(t) ==
  /\ calls' = [calls EXCEPT ![t] = None]
  /\ UNCHANGED <<serves, quiet>>

Rest(t) ==
  /\ serves[t] = None /\ calls[t] = None
  /\ quiet' = quiet \cup {t}
  /\ UNCHANGED <<serves, calls>>

Next ==
  \E t \in Terminal :
    \/ Wake(t) \/ GiveUp(t) \/ Return(t) \/ Rest(t)
    \/ \E p \in Port : Serve(t, p) \/ Call(t, p)

Spec == Init /\ [][Next]_<<serves, calls, quiet>>
=============================================================================
