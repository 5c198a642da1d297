------------------------------ MODULE Lifetime ------------------------------
(***************************************************************************)
(* What the server owes every connection, whatever its threads do: each    *)
(* thing the connection is made of is taken at most once and given back at *)
(* most once, and the memory is given back last, when nobody can use it.   *)
(*                                                                         *)
(* The descriptor is given back by its number, and the number outlives it: *)
(* the thread that has closed it has to drop the number next. Whoever      *)
(* closes it again before ends what it denotes by then. This is allowed    *)
(* only while a thread has yet to drop it; afterwards it does no harm.     *)
(***************************************************************************)
CONSTANTS
  Thread,       \* the threads that may close the connection
  Resource,     \* what a connection is made of
  Given,        \* the part of it that exists from the start
  memory,       \* the resource all others live in, one of Given
  descriptor    \* the resource that is given back by number, one of Given

VARIABLES
  life,      \* of each resource
  number,    \* of the descriptor: kept where every thread finds it, or dropped
  closing    \* the threads that have closed the number and not yet dropped it

Unused   == "unused"
Held     == "held"
Released == "released"

Kept    == "kept"
Dropped == "dropped"

Init ==
  /\ life = [r \in Resource |-> IF r \in Given THEN Held ELSE Unused]
  /\ number = Kept
  /\ closing = {}

Take(r) ==
  /\ life[r] = Unused
  /\ life[memory] = Held
  /\ life' = [life EXCEPT ![r] = Held]
  /\ UNCHANGED <<number, closing>>

\* A resource the connection turns out not to need.
Forgo(r) ==
  /\ life[r] = Unused
  /\ life' = [life EXCEPT ![r] = Released]
  /\ UNCHANGED <<number, closing>>

Release(r) ==
  /\ r \notin {memory, descriptor}
  /\ life[r] = Held
  /\ life' = [life EXCEPT ![r] = Released]
  /\ UNCHANGED <<number, closing>>

\* Thread t closes the number, the first time or again.
CloseNumber(t) ==
  /\ life[memory] = Held
  /\ \/ /\ life[descriptor] = Held
        /\ life' = [life EXCEPT ![descriptor] = Released]
     \/ /\ life[descriptor] = Released
        /\ closing # {} \/ number = Dropped
        /\ UNCHANGED life
  /\ closing' = closing \cup {t}
  /\ UNCHANGED number

Drop(t) ==
  /\ t \in closing
  /\ closing' = closing \ {t}
  /\ number' = Dropped
  /\ UNCHANGED life

Free ==
  /\ life[memory] = Held
  /\ \A r \in Resource \ {memory} : life[r] = Released
  /\ closing = {} /\ number = Dropped
  /\ life' = [life EXCEPT ![memory] = Released]
  /\ UNCHANGED <<number, closing>>

Next ==
  \/ \E r \in Resource : Take(r) \/ Forgo(r) \/ Release(r)
  \/ \E t \in Thread : CloseNumber(t) \/ Drop(t)
  \/ Free

Spec == Init /\ [][Next]_<<life, number, closing>>
=============================================================================
