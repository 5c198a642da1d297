----------------------------- MODULE MCChecksum -----------------------------
(* Every short buffer of three telling bytes; headers with and without a
   payload, of the sizes the program sends and one odd size.                *)
EXTENDS Checksum

SomeByte == {0, 1, 255}

Filled(n, a, b) == [k \in 1 .. n |-> IF k = n THEN b ELSE a]

SomeSegment ==
    { Filled(n, a, b) : n \in {20, 33, 52}, a \in SomeByte, b \in SomeByte }

SomeBuffer == UNION { [1 .. n -> SomeByte] : n \in 0 .. 6 }

SomeAddress == { <<10, 10, 10, 101>>, <<255, 255, 255, 255>> }
=============================================================================
