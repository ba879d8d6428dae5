------------------------------- MODULE TcpSeq -------------------------------
(***************************************************************************)
(* Sequence numbers of lwIP's TCP (lwip/src/include/lwip/priv/tcp_priv.h): *)
(* unsigned, of Width bits, compared by the sign of their difference; and  *)
(* the queues of segments, which are walked from their head.               *)
(***************************************************************************)
EXTENDS Integers, Sequences, FiniteSetsExt

CONSTANTS
    Width,      \* bits of a sequence number, 32 in the code
    Isn         \* sequence number of the first byte

ASSUME SeqAssumption == Width \in Nat \ {0} /\ Isn \in 0 .. 2 ^ Width - 1

Space == 2 ^ Width

Plus(a, n) == (a + n) % Space
Minus(a, b) == (a - b) % Space
Geq(a, b) == Minus(a, b) < Space \div 2
Gt(a, b) == Geq(a, b) /\ a # b
Between(a, b, c) == Geq(a, b) /\ Geq(c, a)

\* The sequence number of byte i of the stream.
SeqNo(i) == (Isn + i - 1) % Space

\* How many elements at the head of q satisfy P(index), q from k on, and
\* its last element.
Leading(q, P(_)) == CHOOSE k \in 0 .. Len(q) :
                        /\ \A i \in 1 .. k : P(i)
                        /\ k < Len(q) => ~P(k + 1)
From(q, k) == SubSeq(q, k, Len(q))
Last(q) == q[Len(q)]
=============================================================================
