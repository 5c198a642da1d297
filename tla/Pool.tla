-------------------------------- MODULE Pool --------------------------------
(***************************************************************************)
(* What a terminal promises its program: a client is served at most once,  *)
(* at most Limit at a time, none while the pool is shut, and shutting it   *)
(* ends all service first.                                                 *)
(***************************************************************************)
EXTENDS Integers, FiniteSets

CONSTANTS Client, Limit

VARIABLES open, place

Served == {c \in Client : place[c] = "served"}

Init == open = TRUE /\ place = [c \in Client |-> "away"]

Move(c, from, to) ==
  /\ place[c] = from
  /\ place' = [place EXCEPT ![c] = to]
  /\ UNCHANGED open

Serve(c) ==
  /\ open
  /\ Cardinality(Served) < Limit
  /\ Move(c, "away", "served")

Refuse(c) == Move(c, "away", "gone")

End(c) == Move(c, "served", "gone")

Shut ==
  /\ Served = {}
  /\ open' = FALSE
  /\ UNCHANGED place

Open ==
  /\ open' = TRUE
  /\ UNCHANGED place

Next ==
  \/ \E c \in Client : Serve(c) \/ Refuse(c) \/ End(c)
  \/ Shut \/ Open

Spec == Init /\ [][Next]_<<open, place>>
=============================================================================
