------------------------------ MODULE Checksum ------------------------------
(***************************************************************************)
(* The Internet checksum of the hand-made TCP/IP packets                   *)
(* (temp/tcp.cpp): checkSum() over a buffer, called for an IP header, and  *)
(* by tcpCheckSum() for a TCP segment with a pseudo header in front.       *)
(*                                                                         *)
(* A behaviour is one call.  The buffer is a sequence of bytes in the      *)
(* order they have in memory, which is the order on the wire.  cksum is an *)
(* unsigned long, wide enough for every buffer whose size is an int, so    *)
(* the model lets it grow; what is cast to unsigned short is cut.          *)
(***************************************************************************)
EXTENDS Naturals, Sequences

CONSTANTS
    Buffer,         \* the buffers checkSum() is called with directly
    Segment,        \* the segments tcpCheckSum() is called with
    Address         \* the addresses, as four bytes

Byte == {n \in Nat : n < 256}

ASSUME BufferAssumption == Buffer \subseteq Seq(Byte)
\* An IP packet is shorter than 65536 bytes: its length has sixteen bits.
ASSUME SegmentAssumption ==
    \A s \in Segment : s \in Seq(Byte) /\ Len(s) < 65536
ASSUME AddressAssumption == \A a \in Address : a \in Seq(Byte) /\ Len(a) = 4

VARIABLES
    buffer,         \* what checkSum() is given
    sent,           \* what the packet's receiver will sum, less the checksum
    i,              \* its loop counter
    cksum,          \* its sum
    total,          \* the sum before any folding (history)
    pc,             \* "words", "odd", "fold", "done"
    ret             \* its result

vars == <<buffer, sent, i, cksum, total, pc, ret>>

-----------------------------------------------------------------------------
(* Words and sums, said without a loop.                                    *)

\* The j-th byte of b, which is padded with zeros.
ByteAt(b, j) == IF j <= Len(b) THEN b[j] ELSE 0

\* The k-th word (k = 0, 1, ...) of b, big-endian.
Word(b, k) == 256 * ByteAt(b, 2 * k + 1) + ByteAt(b, 2 * k + 2)

\* What the first n words of b sum to, for each n.
SumOfFirst(b) ==
    LET sum[n \in Nat] == IF n = 0 THEN 0 ELSE sum[n - 1] + Word(b, n - 1)
    IN  sum

SumOfWords(b) == SumOfFirst(b)[(Len(b) + 1) \div 2]

\* The 16-bit one's complement sum whose plain sum is n: n modulo 65535,
\* except that only nothing sums to zero.
OnesSum(n) == IF n = 0 THEN 0 ELSE ((n - 1) % 65535) + 1

-----------------------------------------------------------------------------
(* Slips: each definition is one of the module's with a plausible mistake. *)

PseudoHeader_HostOrder(src, dst, segment) ==
    src \o dst \o <<0, 6>> \o <<20, 0>>

Odd_Low ==
    /\ pc = "odd"
    /\ cksum' = IF Len(buffer) % 2 = 1
                THEN cksum + buffer[Len(buffer)] ELSE cksum
    /\ total' = cksum'
    /\ pc' = "fold"
    /\ UNCHANGED <<buffer, sent, i, ret>>

Fold_DropCarry ==
    /\ pc = "fold"
    /\ cksum >= 65536
    /\ cksum' = cksum % 65536
    /\ UNCHANGED <<buffer, sent, i, total, pc, ret>>

-----------------------------------------------------------------------------
(* The pseudo header: psdHder, filled by tcpCheckSum().  The length in it  *)
(* is the constant 0x0014, that of a TCP header with nothing behind it.    *)

HeaderLength == 20

PseudoHeader(src, dst, segment) ==
    src \o dst \o <<0, 6>> \o <<0, HeaderLength>>

\* What the receiver of the segment puts there: the length of the segment.
TruePseudoHeader(src, dst, segment) ==
    src \o dst \o <<0, 6>> \o <<Len(segment) \div 256, Len(segment) % 256>>

-----------------------------------------------------------------------------
\* What the loop tests: cksum >> 16.
Carry == cksum >= 65536

Init ==
    /\ \/ \E b \in Buffer : buffer = b /\ sent = b
       \/ \E src, dst \in Address, s \in Segment :
            /\ buffer = PseudoHeader(src, dst, s) \o s
            /\ sent = TruePseudoHeader(src, dst, s) \o s
    /\ i = 0
    /\ cksum = 0
    /\ total = 0
    /\ pc = "words"
    /\ ret = 0

\* The loop over the pairs.
Add ==
    /\ pc = "words"
    /\ i < Len(buffer) \div 2
    /\ cksum' = cksum + 256 * buffer[2 * i + 1] + buffer[2 * i + 2]
    /\ i' = i + 1
    /\ UNCHANGED <<buffer, sent, total, pc, ret>>

AddEnd ==
    /\ pc = "words"
    /\ i >= Len(buffer) \div 2
    /\ pc' = "odd"
    /\ UNCHANGED <<buffer, sent, i, cksum, total, ret>>

\* The byte left over, as the high half of a word.
Odd ==
    /\ pc = "odd"
    /\ cksum' = IF Len(buffer) % 2 = 1
                THEN cksum + 256 * buffer[Len(buffer)] ELSE cksum
    /\ total' = cksum'
    /\ pc' = "fold"
    /\ UNCHANGED <<buffer, sent, i, ret>>

Fold ==
    /\ pc = "fold"
    /\ Carry
    /\ cksum' = (cksum \div 65536) + (cksum % 65536)
    /\ UNCHANGED <<buffer, sent, i, total, pc, ret>>

\* (unsigned short)(~cksum)
Return ==
    /\ pc = "fold"
    /\ ~ Carry
    /\ ret' = 65535 - (cksum % 65536)
    /\ pc' = "done"
    /\ UNCHANGED <<buffer, sent, i, cksum, total>>

Next == Add \/ AddEnd \/ Odd \/ Fold \/ Return

Spec == Init /\ [][Next]_vars

-----------------------------------------------------------------------------
(* Properties.                                                             *)

\* checkSum() returns an unsigned short.
TypeOK ==
    /\ buffer \in Seq(Byte)
    /\ sent \in Seq(Byte)
    /\ i \in Nat
    /\ cksum \in Nat
    /\ total \in Nat
    /\ pc \in {"words", "odd", "fold", "done"}
    /\ ret \in Nat /\ ret < 65536

\* The two loops of checkSum() (pairs of bytes, then the byte left over)
\* have summed every word of the buffer exactly once, an odd last byte as if a
\* zero followed it, when the folding begins; and a word is big-endian.
SumsWords == pc \in {"fold", "done"} => total = SumOfWords(buffer)

\* However many carries the folding loop of checkSum() has to bring back,
\* the result is the complement of the one's complement sum.
OnesComplement == pc = "done" => ret = 65535 - OnesSum(total)

\* The receiver sums what it got, the checksum included, and accepts the
\* packet when all bits are ones.  It accepts every IP header, and every TCP
\* segment of twenty bytes; one with a payload it rejects, since
\* tcpCheckSum() says 0x0014 whatever it is given.
Accepted ==
    pc = "done" =>
        (OnesSum(SumOfWords(sent) + ret) = 65535
            <=> (sent = buffer \/ Len(sent) = 12 + HeaderLength))
=============================================================================
