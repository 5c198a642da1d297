-------------------------------- MODULE Echo --------------------------------
(***************************************************************************)
(* What the example program promises a client: the bytes that come back    *)
(* are bytes the client has sent, in their order, each at most once; and   *)
(* none is left out unless the service is lossy. A byte is its number in   *)
(* the client's stream.                                                    *)
(***************************************************************************)
EXTENDS Integers, Sequences

VARIABLES lossy, sent, got

Init == lossy \in BOOLEAN /\ sent = 0 /\ got = <<>>

Send ==
  /\ sent' > sent
  /\ UNCHANGED <<lossy, got>>

InOrder(s) == \A i, j \in DOMAIN s : i < j => s[i] < s[j]

Complete(s) == \A i \in DOMAIN s : s[i] = i

Answer ==
  /\ got' # got
  /\ SubSeq(got', 1, Len(got)) = got
  /\ \A i \in DOMAIN got' : got'[i] <= sent
  /\ IF lossy THEN InOrder(got') ELSE Complete(got')
  /\ UNCHANGED <<lossy, sent>>

Next == Send \/ Answer

Spec == Init /\ [][Next]_<<lossy, sent, got>>
=============================================================================
