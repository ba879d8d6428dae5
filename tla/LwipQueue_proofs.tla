-------------------------- MODULE LwipQueue_proofs --------------------------
(***************************************************************************)
(* Lemmas about the operators of LwipReceive: what they make of a segment, *)
(* of the queue of out-of-order segments and of the window.  Sequence      *)
(* numbers are translated into positions of the stream first; the rest is  *)
(* about positions.                                                        *)
(***************************************************************************)
EXTENDS LwipReceive, WellFoundedInduction, TLAPS

\* Positions of the stream, the announced window included, and the position
\* that a sequence number stands for.
Reach == Stream + TcpWnd + 2
Place(seqno) == Minus(seqno, Isn) + 1

\* Where a segment begins, where its data ends, and where it ends.
At(s) == Place(s.seqno)
DataTo(s) == At(s) + Len(s.data)
To(s) == At(s) + Tcplen(s)

\* The bytes of q are those of the stream from position a on.
Stretch(q, a) == q \in Seq(Nat) /\ \A k \in 1 .. Len(q) : q[k] = a + k - 1

\* A segment holds the bytes its sequence number says, and the FIN only at the
\* end of the stream.
Genuine(s) ==
    /\ s \in Segments
    /\ At(s) \in 1 .. Stream + 1
    /\ DataTo(s) <= Stream + 1
    /\ Stretch(s.data, At(s))
    /\ s.fin => DataTo(s) = Stream + 1

\* Segments in order, without overlaps, none of them empty, between two
\* positions, and the FIN only in the last.
Queue(q, from, to) ==
    /\ q \in Seq(Segments)
    /\ \A i \in 1 .. Len(q) :
           /\ Genuine(q[i]) /\ Tcplen(q[i]) > 0
           /\ from <= At(q[i]) /\ To(q[i]) <= to
           /\ q[i].fin => i = Len(q)
    /\ \A i, j \in 1 .. Len(q) : i < j => To(q[i]) <= At(q[j])

\* The receiver's fields of struct tcp_pcb.
Pcbs ==
    [rcv_nxt : 0 .. Space - 1, rcv_wnd : 0 .. TcpWnd, rcv_ann_wnd : 0 .. TcpWnd,
     rcv_ann_right_edge : 0 .. Space - 1, ooseq : Seq(Segments),
     state : {"ESTABLISHED", "CLOSE_WAIT"}, delayed : BOOLEAN]

\* The receiver, whose next byte is at position n, and its announced edge.
Receiver(p, n) ==
    /\ p \in Pcbs
    /\ p.rcv_nxt = SeqNo(n)
    /\ Queue(p.ooseq, n + 1, n + p.rcv_wnd)

Edge(p) == Place(p.rcv_ann_right_edge)

\* The announced window reaches as far as it did before, and is not wider than
\* the window.
Announced(p, n) ==
    /\ p.rcv_ann_wnd <= p.rcv_wnd
    /\ Edge(p) <= n + p.rcv_ann_wnd

-----------------------------------------------------------------------------
(* Sequence numbers and positions.                                         *)

\* The stream and the window take up at most half of the sequence space.
LEMMA SpaceFacts ==
    /\ Space \in Nat /\ Reach \in Nat /\ Isn \in 0 .. Space - 1
    /\ Space > 0 /\ 2 * Reach <= Space
    /\ Reach <= Space \div 2 /\ Space \div 2 <= Space - Reach
<1>1. Space \in Int
  BY SeqAssumption DEF Space
<1>2. Reach \in Nat /\ Reach > 0 /\ 2 * Reach <= Space
  BY <1>1, ReceiveAssumption DEF Reach
<1>3. Space \in Nat /\ Space > 0
  BY <1>1, <1>2
<1> HIDE DEF Space, Reach
<1> QED
  BY <1>2, <1>3, SeqAssumption DEF Space

\* The remainders that one turn of the sequence space can have.
LEMMA Remainder ==
    ASSUME NEW S \in Nat, S > 0, NEW x \in Int
    PROVE  /\ x \in 0 .. S - 1 => x % S = x
           /\ x \in S .. S + S - 1 => x % S = x - S
           /\ x \in -S .. -1 => x % S = x + S
<1>1. x \in 0 .. S - 1 => x % S = x
  OBVIOUS
<1>2. x \in S .. S + S - 1 => x % S = x - S
  OBVIOUS
<1>3. x \in -S .. -1 => x % S = x + S
  OBVIOUS
<1> QED
  BY <1>1, <1>2, <1>3

\* The sequence number of a position, around the wrap.
LEMMA SeqNoIs ==
    ASSUME NEW i \in 0 .. Space
    PROVE  /\ SeqNo(i) \in 0 .. Space - 1
           /\ Isn + i = 0 => SeqNo(i) = Space - 1
           /\ 0 < Isn + i /\ Isn + i <= Space => SeqNo(i) = Isn + i - 1
           /\ Space < Isn + i => SeqNo(i) = Isn + i - 1 - Space
<1> HIDE DEF Space
<1>1. Space \in Nat /\ Space > 0 /\ Isn \in 0 .. Space - 1
  BY SpaceFacts
<1> DEFINE x == Isn + i - 1
<1>2. x \in Int /\ x >= -1 /\ x <= Space + Space - 1
  BY <1>1
<1>3. SeqNo(i) = x % Space
  BY DEF SeqNo
<1>4. /\ x \in 0 .. Space - 1 => x % Space = x
      /\ x \in Space .. Space + Space - 1 => x % Space = x - Space
      /\ x \in -Space .. -1 => x % Space = x + Space
  BY <1>1, <1>2, Remainder
<1> QED
  BY <1>1, <1>2, <1>3, <1>4

\* A difference of sequence numbers, around the wrap.
LEMMA MinusIs ==
    ASSUME NEW a \in 0 .. Space - 1, NEW b \in 0 .. Space - 1
    PROVE  Minus(a, b) = IF a >= b THEN a - b ELSE a - b + Space
<1> HIDE DEF Space
<1>1. Space \in Nat /\ Space > 0
  BY SpaceFacts
<1> DEFINE x == a - b
<1>2. x \in Int /\ x >= - Space /\ x <= Space - 1
  BY <1>1
<1>3. /\ x \in 0 .. Space - 1 => x % Space = x
      /\ x \in -Space .. -1 => x % Space = x + Space
  BY <1>1, <1>2, Remainder
<1> QED
  BY <1>1, <1>2, <1>3 DEF Minus

\* Different positions have different sequence numbers, and every sequence
\* number has a position.
LEMMA PlaceOfSeqNo ==
    ASSUME NEW i \in 1 .. Space
    PROVE  Place(SeqNo(i)) = i
<1> HIDE DEF Space
<1>1. Space \in Nat /\ Space > 0 /\ Isn \in 0 .. Space - 1
  BY SpaceFacts
<1> DEFINE a == SeqNo(i)
<1>2. /\ a \in 0 .. Space - 1
      /\ 0 < Isn + i /\ Isn + i <= Space => a = Isn + i - 1
      /\ Space < Isn + i => a = Isn + i - 1 - Space
  BY <1>1, SeqNoIs
<1> HIDE DEF a
<1>3. Place(a) = IF a >= Isn THEN a - Isn + 1 ELSE a - Isn + Space + 1
  BY <1>1, <1>2, MinusIs DEF Place
<1>4. Place(a) = i
  BY <1>1, <1>2, <1>3
<1> QED
  BY <1>4 DEF a

\* The sequence number of a position, and the position of a sequence number,
\* undo each other.
LEMMA SeqNoOfPlace ==
    ASSUME NEW a \in 0 .. Space - 1
    PROVE  Place(a) \in 1 .. Space /\ SeqNo(Place(a)) = a
<1> HIDE DEF Space
<1>1. Space \in Nat /\ Space > 0 /\ Isn \in 0 .. Space - 1
  BY SpaceFacts
<1>2. Place(a) = IF a >= Isn THEN a - Isn + 1 ELSE a - Isn + Space + 1
  BY <1>1, MinusIs DEF Place
<1>3. Place(a) \in 1 .. Space
  BY <1>1, <1>2
<1> QED
  BY <1>1, <1>2, <1>3, SeqNoIs

\* Advancing a sequence number advances its position.
LEMMA PlusSeqNo ==
    ASSUME NEW i \in 0 .. Reach, NEW n \in -1 .. Reach, i + n >= 0
    PROVE  Plus(SeqNo(i), n) = SeqNo(i + n)
<1> HIDE DEF Space, Reach
<1>1. /\ Space \in Nat /\ Space > 0 /\ Isn \in 0 .. Space - 1
      /\ Reach \in Nat /\ 2 * Reach <= Space
  BY SpaceFacts
<1>2. i \in 0 .. Space /\ i + n \in 0 .. Space
  BY <1>1
<1> DEFINE x == SeqNo(i) + n
<1>3. SeqNo(i) \in 0 .. Space - 1
  BY <1>2, SeqNoIs
<1>4. x \in Int /\ x >= -1 /\ x <= Space + Space - 1
  BY <1>1, <1>3
<1>5. /\ x \in 0 .. Space - 1 => x % Space = x
      /\ x \in Space .. Space + Space - 1 => x % Space = x - Space
      /\ x \in -Space .. -1 => x % Space = x + Space
  BY <1>1, <1>4, Remainder
<1>6. Plus(SeqNo(i), n) = x % Space
  BY DEF Plus
<1> QED
  BY <1>1, <1>2, <1>3, <1>4, <1>5, <1>6, SeqNoIs

\* A difference of sequence numbers is the distance of their positions.
LEMMA MinusSeqNo ==
    ASSUME NEW i \in 0 .. Space, NEW j \in 0 .. Space,
           i - j < Space, j - i < Space
    PROVE  Minus(SeqNo(i), SeqNo(j)) = IF i >= j THEN i - j ELSE i - j + Space
<1> HIDE DEF Space
<1>1. Space \in Nat /\ Space > 0 /\ Isn \in 0 .. Space - 1
  BY SpaceFacts
<1> DEFINE a == SeqNo(i)
           b == SeqNo(j)
<1>2. /\ a \in 0 .. Space - 1
      /\ Isn + i = 0 => a = Space - 1
      /\ 0 < Isn + i /\ Isn + i <= Space => a = Isn + i - 1
      /\ Space < Isn + i => a = Isn + i - 1 - Space
  BY SeqNoIs
<1>3. /\ b \in 0 .. Space - 1
      /\ Isn + j = 0 => b = Space - 1
      /\ 0 < Isn + j /\ Isn + j <= Space => b = Isn + j - 1
      /\ Space < Isn + j => b = Isn + j - 1 - Space
  BY SeqNoIs
<1> HIDE DEF a, b
<1>4. Minus(a, b) = IF a >= b THEN a - b ELSE a - b + Space
  BY <1>2, <1>3, MinusIs
<1>5. Minus(a, b) = IF i >= j THEN i - j ELSE i - j + Space
  BY <1>1, <1>2, <1>3, <1>4
<1> QED
  BY <1>5 DEF a, b

\* Comparing sequence numbers by the sign of their difference compares the
\* positions, as long as these are not too far apart.
LEMMA GeqSeqNo ==
    ASSUME NEW i \in 0 .. Space, NEW j \in 0 .. Space,
           i - j < Reach, j - i <= Reach
    PROVE  /\ Geq(SeqNo(i), SeqNo(j)) <=> i >= j
           /\ Gt(SeqNo(i), SeqNo(j)) <=> i > j
           /\ SeqNo(i) = SeqNo(j) <=> i = j
<1> HIDE DEF Space, Reach
<1>1. /\ Space \in Nat /\ Space > 0 /\ Reach \in Nat /\ 2 * Reach <= Space
      /\ Reach <= Space \div 2 /\ Space \div 2 <= Space - Reach
  BY SpaceFacts
<1>2. i - j < Space /\ j - i < Space
  BY <1>1
<1> DEFINE h == Space \div 2
<1>3. h \in Int
  BY <1>1
<1>4. Minus(SeqNo(i), SeqNo(j)) = IF i >= j THEN i - j ELSE i - j + Space
  BY <1>2, MinusSeqNo
<1>5. SeqNo(i) \in 0 .. Space - 1 /\ SeqNo(j) \in 0 .. Space - 1
  BY SeqNoIs
<1>6. SeqNo(i) = SeqNo(j) <=> i = j
  <2>1. SeqNo(i) = SeqNo(j) => Minus(SeqNo(i), SeqNo(j)) = 0
    BY <1>1, <1>5, MinusIs
  <2> QED
    BY <2>1, <1>1, <1>2, <1>4
<1>7. Geq(SeqNo(i), SeqNo(j)) <=> i >= j
  <2>1. Geq(SeqNo(i), SeqNo(j)) <=> Minus(SeqNo(i), SeqNo(j)) < h
    BY DEF Geq
  <2> HIDE DEF h
  <2> QED
    BY <2>1, <1>1, <1>3, <1>4 DEF h
<1> QED
  BY <1>6, <1>7 DEF Gt

-----------------------------------------------------------------------------
(* Induction over sets of numbers, heads of queues, and concatenation.     *)

\* A non-empty set of numbers has a least element.
LEMMA LeastNumber ==
    ASSUME NEW S \in SUBSET Nat, S # {}
    PROVE  \E i \in S : \A j \in S : i <= j
<1> DEFINE R == OpToRel(<, Nat)
<1>1. PICK i \in S : \A j \in S : ~ (<<j, i>> \in R)
  <2> HIDE DEF R
  <2>1. IsWellFoundedOn(R, Nat)
    BY NatLessThanWellFounded, Zenon DEF R
  <2> QED
    BY <2>1, WFMin, Zenon
<1>2. ASSUME NEW j \in S
      PROVE  i <= j
  <2>1. i \in Nat /\ j \in Nat
    OBVIOUS
  <2>2. j < i => <<j, i>> \in R
    BY <2>1 DEF OpToRel
  <2> HIDE DEF R
  <2> QED
    BY <1>1, <2>1, <2>2
<1> QED
  BY <1>2

\* A set that has 1 and with every number the next has all of them.
LEMMA Induction ==
    ASSUME NEW S, 1 \in S, \A m \in Nat \ {0} : m \in S => m + 1 \in S
    PROVE  \A m \in Nat \ {0} : m \in S
<1> DEFINE T == {m \in Nat \ {0} : m \notin S}
<1> SUFFICES ASSUME T # {}
             PROVE  FALSE
  OBVIOUS
<1>1. PICK m \in T : \A j \in T : m <= j
  <2>1. T \in SUBSET Nat
    OBVIOUS
  <2> HIDE DEF T
  <2> QED
    BY <2>1, LeastNumber
<1>2. m # 1 /\ m - 1 \in Nat \ {0}
  OBVIOUS
<1>3. m - 1 \notin T
  BY <1>1, <1>2
<1>4. (m - 1) + 1 \in S
  BY <1>2, <1>3
<1> QED
  BY <1>4

\* How far a walk from the head of a queue gets.
LEMMA Walk ==
    ASSUME NEW n \in Nat, NEW S
    PROVE  \E k \in 0 .. n : (\A i \in 1 .. k : i \in S) /\ (k < n => k + 1 \notin S)
<1> DEFINE T == {i \in 1 .. n : i \notin S}
<1>1. CASE T = {}
  BY <1>1
<1>2. CASE T # {}
  <2>1. PICK m \in T : \A j \in T : m <= j
    <3>1. T \in SUBSET Nat
      OBVIOUS
    <3> HIDE DEF T
    <3> QED
      BY <3>1, <1>2, LeastNumber
  <2>2. m \in 1 .. n /\ m \notin S /\ m - 1 \in 0 .. n /\ (m - 1) + 1 = m
    OBVIOUS
  <2>3. \A i \in 1 .. m - 1 : i \in S
    BY <2>1, <2>2
  <2> QED
    BY <2>2, <2>3
<1> QED
  BY <1>1, <1>2

\* The function by which Joined is defined exists.
LEMMA JoinedExists ==
    ASSUME NEW q, NEW n \in Nat \ {0}
    PROVE  \E f : f = [i \in 1 .. n |-> IF i = 1 THEN q[i] ELSE f[i - 1] \o q[i]]
<1> DEFINE S == {m \in Nat \ {0} :
                    \E f : f = [i \in 1 .. m |-> IF i = 1 THEN q[i] ELSE f[i - 1] \o q[i]]}
<1>1. 1 \in S
  <2> DEFINE f == [i \in 1 .. 1 |-> q[i]]
  <2>1. f = [i \in 1 .. 1 |-> IF i = 1 THEN q[i] ELSE f[i - 1] \o q[i]]
    OBVIOUS
  <2> HIDE DEF f
  <2>2. \E g : g = [i \in 1 .. 1 |-> IF i = 1 THEN q[i] ELSE g[i - 1] \o q[i]]
    BY <2>1, Zenon
  <2>3. 1 \in Nat \ {0}
    OBVIOUS
  <2> QED
    BY <2>2, <2>3, Zenon
<1>2. ASSUME NEW m \in Nat \ {0}, m \in S
      PROVE  m + 1 \in S
  <2>1. PICK f : f = [i \in 1 .. m |-> IF i = 1 THEN q[i] ELSE f[i - 1] \o q[i]]
    BY <1>2, Zenon
  <2> DEFINE g == [i \in 1 .. m + 1 |-> IF i = m + 1 THEN f[m] \o q[i] ELSE f[i]]
  <2>2. \A i \in 1 .. m : f[i] = IF i = 1 THEN q[i] ELSE f[i - 1] \o q[i]
    BY <2>1, Zenon
  <2>3. ASSUME NEW i \in 1 .. m + 1
        PROVE  g[i] = IF i = 1 THEN q[i] ELSE g[i - 1] \o q[i]
    <3>1. CASE i = m + 1
      <4>1. m \in 1 .. m + 1 /\ m # m + 1 /\ i # 1 /\ i - 1 = m
        BY <3>1
      <4>2. g[m] = f[m] /\ g[i] = f[m] \o q[i]
        BY <3>1, <4>1, Zenon
      <4> HIDE DEF g
      <4> QED
        BY <4>1, <4>2, Zenon
    <3>2. CASE i \in 1 .. m
      <4>1. i # 1 => i - 1 \in 1 .. m + 1 /\ i - 1 # m + 1 /\ g[i - 1] = f[i - 1]
        BY <3>2
      <4> QED
        BY <3>2, <2>2, <4>1
    <3> QED
      BY <3>1, <3>2
  <2>4. g = [i \in 1 .. m + 1 |-> IF i = 1 THEN q[i] ELSE g[i - 1] \o q[i]]
    <3> HIDE DEF g
    <3>1. g = [i \in 1 .. m + 1 |-> g[i]]
      BY DEF g
    <3> QED
      BY <3>1, <2>3, Zenon
  <2> HIDE DEF g
  <2>5. \E h : h = [i \in 1 .. m + 1 |-> IF i = 1 THEN q[i] ELSE h[i - 1] \o q[i]]
    BY <2>4, Zenon
  <2>6. m + 1 \in Nat \ {0}
    OBVIOUS
  <2> QED
    BY <2>5, <2>6, Zenon
<1>3. n \in S
  <2> HIDE DEF S
  <2> QED
    BY <1>1, <1>2, Induction
<1> QED
  BY <1>3, Zenon

\* The length of a stretch.
LEMMA StretchLen ==
    ASSUME NEW q, NEW a
    PROVE  Stretch(q, a) => Len(q) \in Nat
BY DEF Stretch

\* Sums, in the form that the proofs about joined stretches need.
LEMMA Shift ==
    ASSUME NEW x \in Nat, NEW y \in Nat, NEW m \in Nat, NEW k \in Nat
    PROVE  y = x + m => x + (m + k) = y + k
OBVIOUS

\* Two stretches of the stream that follow one another, joined.
LEMMA Joins ==
    ASSUME NEW u, NEW v, NEW x \in Nat, NEW y \in Nat
    PROVE  Stretch(u, x) /\ Stretch(v, y) /\ y = x + Len(u) =>
               Stretch(u \o v, x) /\ Len(u \o v) = Len(u) + Len(v)
<1> SUFFICES ASSUME Stretch(u, x), Stretch(v, y), y = x + Len(u)
             PROVE  Stretch(u \o v, x) /\ Len(u \o v) = Len(u) + Len(v)
  OBVIOUS
<1>0. /\ u \in Seq(Nat) /\ v \in Seq(Nat)
      /\ \A k \in 1 .. Len(u) : u[k] = x + k - 1
      /\ \A k \in 1 .. Len(v) : v[k] = y + k - 1
  BY DEF Stretch
<1>1. u \o v \in Seq(Nat) /\ Len(u \o v) = Len(u) + Len(v) /\ Len(u) \in Nat /\ Len(v) \in Nat
  BY <1>0
<1>2. ASSUME NEW k \in 1 .. Len(u \o v)
      PROVE  (u \o v)[k] = x + k - 1
  <2>1. k \in 1 .. Len(u) + Len(v)
    BY <1>1
  <2>2. (u \o v)[k] = IF k <= Len(u) THEN u[k] ELSE v[k - Len(u)]
    BY <2>1, <1>0
  <2>3. CASE k <= Len(u)
    BY <2>1, <2>2, <2>3, <1>0, <1>1
  <2>4. CASE k > Len(u)
    <3>1. k - Len(u) \in 1 .. Len(v)
      BY <1>1, <2>1, <2>4
    <3>2. v[k - Len(u)] = y + (k - Len(u)) - 1
      BY <3>1, <1>0
    <3>3. y + (k - Len(u)) - 1 = x + k - 1
      BY <1>1, <2>1
    <3> QED
      BY <3>2, <3>3, <2>2, <2>4, <1>1, <2>1
  <2> QED
    BY <2>3, <2>4, <1>1
<1> QED
  BY <1>1, <1>2 DEF Stretch

\* Stretches of the stream that follow one another, concatenated.
LEMMA JoinedStretch ==
    ASSUME NEW n \in Nat \ {0}, NEW q \in [1 .. n -> Seq(Nat)], NEW b \in [1 .. n -> Nat],
           \A i \in 1 .. n : Stretch(q[i], b[i]),
           \A i \in 1 .. n : i < n => b[i + 1] = b[i] + Len(q[i])
    PROVE  /\ Stretch(Joined(q), b[1])
           /\ b[1] + Len(Joined(q)) = b[n] + Len(q[n])
<1>1. Len(q) = n /\ q \in Seq(Seq(Nat))
  OBVIOUS
<1> DEFINE f == CHOOSE f : f = [i \in 1 .. n |-> IF i = 1 THEN q[i] ELSE f[i - 1] \o q[i]]
<1>2. f = [i \in 1 .. n |-> IF i = 1 THEN q[i] ELSE f[i - 1] \o q[i]]
  BY JoinedExists, Zenon
<1>3. Joined(q) = f[n]
  BY <1>1 DEF Joined
<1> HIDE DEF f
<1> DEFINE Good(i) == Stretch(f[i], b[1]) /\ b[1] + Len(f[i]) = b[i] + Len(q[i])
           S == {i \in Nat \ {0} : i <= n => Good(i)}
<1>4. 1 \in S
  <2>1. f[1] = q[1]
    BY <1>2
  <2> QED
    BY <2>1
<1>5. ASSUME NEW i \in Nat \ {0}, i \in S
      PROVE  i + 1 \in S
  <2> SUFFICES ASSUME i + 1 <= n
               PROVE  Good(i + 1)
    OBVIOUS
  <2>0. i <= n => Good(i)
    BY <1>5, Zenon
  <2>1. i \in 1 .. n /\ i + 1 \in 1 .. n /\ i < n /\ Good(i)
    <3> HIDE DEF Good
    <3> QED
      BY <2>0
  <2>2. f[i + 1] = f[i] \o q[i + 1]
    <3>1. i + 1 # 1 /\ (i + 1) - 1 = i
      OBVIOUS
    <3>2. f[i + 1] = IF i + 1 = 1 THEN q[i + 1] ELSE f[(i + 1) - 1] \o q[i + 1]
      BY <1>2, <2>1, Zenon
    <3> QED
      BY <3>1, <3>2, Zenon
  <2>3. b[1] \in Nat /\ b[i + 1] \in Nat /\ b[i + 1] = b[1] + Len(f[i])
    BY <2>1
  <2>4. Stretch(f[i], b[1]) /\ Stretch(q[i + 1], b[i + 1])
    BY <2>1
  <2>5. Stretch(f[i + 1], b[1]) /\ Len(f[i + 1]) = Len(f[i]) + Len(q[i + 1])
    BY <2>2, <2>3, <2>4, Joins, SMTT(30)
  <2>6. Len(f[i]) \in Nat /\ Len(q[i + 1]) \in Nat
    BY <2>4, StretchLen, Zenon
  <2>7. b[1] + (Len(f[i]) + Len(q[i + 1])) = b[i + 1] + Len(q[i + 1])
    <3> DEFINE x == b[1]
               y == b[i + 1]
               m == Len(f[i])
               k == Len(q[i + 1])
    <3>1. x \in Nat /\ y \in Nat /\ m \in Nat /\ k \in Nat /\ y = x + m
      BY <2>3, <2>6
    <3> HIDE DEF x, y, m, k
    <3>2. x + (m + k) = y + k
      BY <3>1, Shift
    <3> QED
      BY <3>2, Zenon DEF x, y, m, k
  <2> QED
    BY <2>5, <2>7, Zenon
<1>6. n \in S
  <2> HIDE DEF S
  <2> QED
    BY <1>4, <1>5, Induction, Zenon
<1> QED
  BY <1>3, <1>6

-----------------------------------------------------------------------------
(* Segments.                                                               *)

\* Parts of a stretch.
LEMMA StretchParts ==
    ASSUME NEW q, NEW a \in Nat, NEW m \in Nat
    PROVE  Stretch(q, a) /\ m <= Len(q) =>
               /\ Stretch(SubSeq(q, 1, m), a) /\ Len(SubSeq(q, 1, m)) = m
               /\ Stretch(From(q, m + 1), a + m) /\ Len(From(q, m + 1)) = Len(q) - m
<1> SUFFICES ASSUME Stretch(q, a), m <= Len(q)
             PROVE  /\ Stretch(SubSeq(q, 1, m), a) /\ Len(SubSeq(q, 1, m)) = m
                    /\ Stretch(From(q, m + 1), a + m) /\ Len(From(q, m + 1)) = Len(q) - m
  OBVIOUS
<1>1. q \in Seq(Nat) /\ Len(q) \in Nat /\ \A k \in 1 .. Len(q) : q[k] = a + k - 1
  BY DEF Stretch
<1>2. /\ SubSeq(q, 1, m) \in Seq(Nat) /\ Len(SubSeq(q, 1, m)) = m
      /\ \A k \in 1 .. m : SubSeq(q, 1, m)[k] = q[k]
  BY <1>1
<1>3. Stretch(SubSeq(q, 1, m), a)
  BY <1>1, <1>2 DEF Stretch
<1> DEFINE r == SubSeq(q, m + 1, Len(q))
<1>4. r \in Seq(Nat) /\ Len(r) = Len(q) - m
  BY <1>1
<1>5. ASSUME NEW k \in 1 .. Len(q) - m
      PROVE  r[k] = a + m + k - 1
  <2>1. r[k] = q[m + k] /\ m + k \in 1 .. Len(q)
    BY <1>1
  <2>2. q[m + k] = a + (m + k) - 1
    BY <1>1, <2>1
  <2> QED
    BY <2>1, <2>2
<1>6. Stretch(r, a + m)
  BY <1>4, <1>5 DEF Stretch
<1> QED
  BY <1>2, <1>3, <1>4, <1>6 DEF From

\* Sequence numbers of a segment.
LEMMA SegmentPlaces ==
    ASSUME NEW s
    PROVE  Genuine(s) =>
               /\ s.seqno = SeqNo(At(s)) /\ DataEnd(s) = SeqNo(DataTo(s)) /\ End(s) = SeqNo(To(s))
               /\ At(s) \in 1 .. Stream + 1 /\ DataTo(s) \in 1 .. Stream + 1 /\ To(s) \in 1 .. Stream + 2
               /\ Len(s.data) \in Nat /\ Tcplen(s) \in Nat
               /\ DataTo(s) = At(s) + Len(s.data) /\ To(s) = At(s) + Tcplen(s)
               /\ To(s) = IF s.fin THEN DataTo(s) + 1 ELSE DataTo(s)
               /\ s.fin => DataTo(s) = Stream + 1
<1> SUFFICES ASSUME Genuine(s)
             PROVE  /\ s.seqno = SeqNo(At(s)) /\ DataEnd(s) = SeqNo(DataTo(s)) /\ End(s) = SeqNo(To(s))
                    /\ At(s) \in 1 .. Stream + 1 /\ DataTo(s) \in 1 .. Stream + 1 /\ To(s) \in 1 .. Stream + 2
                    /\ Len(s.data) \in Nat /\ Tcplen(s) \in Nat
                    /\ DataTo(s) = At(s) + Len(s.data) /\ To(s) = At(s) + Tcplen(s)
                    /\ To(s) = IF s.fin THEN DataTo(s) + 1 ELSE DataTo(s)
                    /\ s.fin => DataTo(s) = Stream + 1
  OBVIOUS
<1>1. s.seqno \in 0 .. Space - 1 /\ s.data \in Seq(1 .. Stream) /\ s.fin \in BOOLEAN
  BY DEF Genuine, Segments
<1>2. At(s) \in 1 .. Stream + 1 /\ DataTo(s) <= Stream + 1 /\ (s.fin => DataTo(s) = Stream + 1)
  BY DEF Genuine
<1> DEFINE n == Len(s.data)
<1>3. n \in Nat
  BY <1>1
<1>4. Tcplen(s) = IF s.fin THEN n + 1 ELSE n
  <2>1. Tcplen(s) = n + IF s.fin THEN 1 ELSE 0
    BY DEF Tcplen
  <2> HIDE DEF n
  <2> QED
    BY <2>1, <1>1, <1>3
<1>5. DataTo(s) = At(s) + n /\ To(s) = At(s) + Tcplen(s)
  BY DEF DataTo, To
<1>6. s.seqno = SeqNo(At(s))
  BY <1>1, SeqNoOfPlace DEF At
<1>7. /\ Stream \in Nat /\ Reach \in Nat /\ Stream + 2 <= Reach
  BY ReceiveAssumption DEF Reach
<1> HIDE DEF n
<1>8. /\ DataTo(s) \in 1 .. Stream + 1 /\ To(s) \in 1 .. Stream + 2 /\ Tcplen(s) \in Nat
      /\ To(s) = IF s.fin THEN DataTo(s) + 1 ELSE DataTo(s)
      /\ n \in -1 .. Reach /\ Tcplen(s) \in -1 .. Reach /\ At(s) \in 0 .. Reach
      /\ At(s) + n >= 0 /\ At(s) + Tcplen(s) >= 0
  BY <1>1, <1>2, <1>3, <1>4, <1>5, <1>7, SMTT(30)
<1>9. DataEnd(s) = Plus(s.seqno, n) /\ End(s) = Plus(s.seqno, Tcplen(s))
  BY DEF DataEnd, End, n
<1>10. Plus(SeqNo(At(s)), n) = SeqNo(At(s) + n)
  BY <1>8, PlusSeqNo
<1>11. Plus(SeqNo(At(s)), Tcplen(s)) = SeqNo(At(s) + Tcplen(s))
  BY <1>8, PlusSeqNo
<1> QED
  BY <1>2, <1>3, <1>5, <1>6, <1>8, <1>9, <1>10, <1>11 DEF n

\* A function on 1 .. n is a sequence.
LEMMA IsSequence ==
    ASSUME NEW T, NEW n \in Nat, NEW q \in [1 .. n -> T]
    PROVE  q \in Seq(T)
OBVIOUS

\* A segment made of a stretch of the stream.
LEMMA MakesGenuine ==
    ASSUME NEW a \in 1 .. Stream + 1, NEW d, NEW f \in BOOLEAN
    PROVE  Stretch(d, a) /\ a + Len(d) <= Stream + 1 /\ (f => a + Len(d) = Stream + 1) =>
               LET s == [seqno |-> SeqNo(a), data |-> d, fin |-> f]
               IN  Genuine(s) /\ At(s) = a /\ DataTo(s) = a + Len(d)
<1> SUFFICES ASSUME Stretch(d, a), a + Len(d) <= Stream + 1, f => a + Len(d) = Stream + 1
             PROVE  LET s == [seqno |-> SeqNo(a), data |-> d, fin |-> f]
                    IN  Genuine(s) /\ At(s) = a /\ DataTo(s) = a + Len(d)
  OBVIOUS
<1> DEFINE s == [seqno |-> SeqNo(a), data |-> d, fin |-> f]
<1>1. s.seqno = SeqNo(a) /\ s.data = d /\ s.fin = f
  OBVIOUS
<1>2. Stream \in Nat /\ Space \in Nat /\ Stream + 1 <= Space
  BY SpaceFacts, ReceiveAssumption DEF Reach
<1>3. a \in 1 .. Space /\ a \in 0 .. Space /\ a \in Nat
  BY <1>2
<1>4. At(s) = a
  BY <1>1, <1>3, PlaceOfSeqNo DEF At
<1>5. SeqNo(a) \in 0 .. Space - 1
  BY <1>3, SeqNoIs
<1>6. d \in Seq(Nat) /\ Len(d) \in Nat /\ \A k \in 1 .. Len(d) : d[k] = a + k - 1
  BY DEF Stretch
<1>7. d \in Seq(1 .. Stream)
  <2>1. \A k \in 1 .. Len(d) : d[k] \in 1 .. Stream
    BY <1>2, <1>3, <1>6
  <2>2. d \in [1 .. Len(d) -> 1 .. Stream]
    BY <2>1, <1>6
  <2> QED
    BY <2>2, <1>6, IsSequence, Zenon
<1>8. s \in Segments
  BY <1>5, <1>7 DEF Segments
<1>9. DataTo(s) = a + Len(d)
  BY <1>1, <1>4 DEF DataTo
<1> HIDE DEF s
<1>10. Genuine(s)
  BY <1>1, <1>4, <1>8, <1>9 DEF Genuine
<1> QED
  BY <1>4, <1>9, <1>10 DEF s

\* Assigning to the fields of a segment.
LEMMA SegmentData ==
    ASSUME NEW s, NEW d
    PROVE  s \in Segments => [s EXCEPT !.data = d] = [seqno |-> s.seqno, data |-> d, fin |-> s.fin]
BY DEF Segments

\* The same for the FIN flag.
LEMMA SegmentFin ==
    ASSUME NEW s, NEW f
    PROVE  s \in Segments => [s EXCEPT !.fin = f] = [seqno |-> s.seqno, data |-> s.data, fin |-> f]
BY DEF Segments

\* The same for the two fields that tcp_receive assigns when it drops what
\* rcv_nxt has passed.
LEMMA SegmentTrim ==
    ASSUME NEW s, NEW n, NEW d
    PROVE  s \in Segments =>
               [s EXCEPT !.seqno = n, !.data = d] = [seqno |-> n, data |-> d, fin |-> s.fin]
<1> SUFFICES ASSUME s \in Segments
             PROVE  [s EXCEPT !.seqno = n, !.data = d] = [seqno |-> n, data |-> d, fin |-> s.fin]
  OBVIOUS
<1> DEFINE t == [s EXCEPT !.seqno = n]
<1>1. t = [seqno |-> n, data |-> s.data, fin |-> s.fin]
  BY DEF Segments
<1>2. [s EXCEPT !.seqno = n, !.data = d] = [t EXCEPT !.data = d]
  BY DEF Segments
<1> HIDE DEF t
<1>3. [t EXCEPT !.data = d] = [seqno |-> n, data |-> d, fin |-> s.fin]
  BY <1>1
<1> QED
  BY <1>2, <1>3

\* A segment that is cut where the position b begins.
LEMMA Cut ==
    ASSUME NEW s, NEW b \in Nat
    PROVE  Genuine(s) /\ ~s.fin /\ At(s) <= b /\ b <= DataTo(s) =>
               LET c == CutAt(s, SeqNo(b))
               IN  Genuine(c) /\ ~c.fin /\ At(c) = At(s) /\ DataTo(c) = b /\ To(c) = b
<1> SUFFICES ASSUME Genuine(s), ~s.fin, At(s) <= b, b <= DataTo(s)
             PROVE  LET c == CutAt(s, SeqNo(b))
                    IN  Genuine(c) /\ ~c.fin /\ At(c) = At(s) /\ DataTo(c) = b /\ To(c) = b
  OBVIOUS
<1> DEFINE a == At(s)
           m == b - a
           d == SubSeq(s.data, 1, m)
           c == CutAt(s, SeqNo(b))
<1>1. /\ s.seqno = SeqNo(a) /\ a \in 1 .. Stream + 1 /\ DataTo(s) \in 1 .. Stream + 1
      /\ Len(s.data) \in Nat /\ DataTo(s) = a + Len(s.data)
  BY SegmentPlaces
<1>2. s \in Segments /\ Stretch(s.data, a) /\ s.fin = FALSE
  BY DEF Genuine, Segments
<1>3. Stream \in Nat /\ Space \in Nat /\ Stream + 2 <= Space
  BY SpaceFacts, ReceiveAssumption DEF Reach
<1> HIDE DEF a
<1>4. m \in Nat /\ m <= Len(s.data) /\ a + m = b /\ b <= Stream + 1 /\ a \in Nat
  BY <1>1, <1>3 DEF a
<1>5. Minus(SeqNo(b), SeqNo(a)) = m
  <2>1. b \in 0 .. Space /\ a \in 0 .. Space /\ b - a < Space /\ a - b < Space /\ b >= a
    BY <1>1, <1>3, <1>4
  <2> QED
    BY <2>1, MinusSeqNo
<1> HIDE DEF m
<1>6. Stretch(d, a) /\ Len(d) = m
  BY <1>2, <1>4, StretchParts
<1>7. c = [s EXCEPT !.data = d]
  BY <1>1, <1>5 DEF CutAt
<1>8. c = [seqno |-> SeqNo(a), data |-> d, fin |-> FALSE]
  BY <1>1, <1>2, <1>7, SegmentData, Zenon
<1> HIDE DEF c, d
<1>9. Genuine(c) /\ At(c) = a /\ DataTo(c) = a + Len(d)
  BY <1>1, <1>4, <1>6, <1>8, MakesGenuine, Zenon
<1>10. c.fin = FALSE
  BY <1>8
<1>11. To(c) = DataTo(c)
  BY <1>9, <1>10, SegmentPlaces, SMTT(30)
<1> QED
  BY <1>4, <1>6, <1>9, <1>10, <1>11 DEF a, c

\* A segment that ends with the stream may carry the FIN.
LEMMA WithFin ==
    ASSUME NEW s, NEW f \in BOOLEAN
    PROVE  Genuine(s) /\ (f => DataTo(s) = Stream + 1) =>
               LET c == [s EXCEPT !.fin = f]
               IN  Genuine(c) /\ c.fin = f /\ At(c) = At(s) /\ DataTo(c) = DataTo(s)
<1> SUFFICES ASSUME Genuine(s), f => DataTo(s) = Stream + 1
             PROVE  LET c == [s EXCEPT !.fin = f]
                    IN  Genuine(c) /\ c.fin = f /\ At(c) = At(s) /\ DataTo(c) = DataTo(s)
  OBVIOUS
<1> DEFINE c == [s EXCEPT !.fin = f]
<1>1. /\ s.seqno = SeqNo(At(s)) /\ At(s) \in 1 .. Stream + 1 /\ DataTo(s) \in 1 .. Stream + 1
      /\ DataTo(s) = At(s) + Len(s.data)
  BY SegmentPlaces
<1>2. s \in Segments /\ Stretch(s.data, At(s))
  BY DEF Genuine
<1>3. c = [seqno |-> SeqNo(At(s)), data |-> s.data, fin |-> f]
  BY <1>1, <1>2, SegmentFin
<1> HIDE DEF c
<1>4. Genuine(c) /\ At(c) = At(s) /\ DataTo(c) = At(s) + Len(s.data)
  BY <1>1, <1>2, <1>3, MakesGenuine
<1>5. c.fin = f
  BY <1>3
<1> QED
  BY <1>1, <1>4, <1>5 DEF c

-----------------------------------------------------------------------------
(* Queues of segments.                                                     *)

\* Positions of the stream and the window compare as their sequence numbers.
LEMMA Compare ==
    ASSUME NEW i \in 1 .. Reach, NEW j \in 1 .. Reach
    PROVE  /\ Geq(SeqNo(i), SeqNo(j)) <=> i >= j
           /\ Gt(SeqNo(i), SeqNo(j)) <=> i > j
           /\ SeqNo(i) = SeqNo(j) <=> i = j
<1> HIDE DEF Reach, Space
<1>1. Reach \in Nat /\ Space \in Nat /\ 2 * Reach <= Space
  BY SpaceFacts
<1>2. i \in 0 .. Space /\ j \in 0 .. Space /\ i - j < Reach /\ j - i <= Reach
  BY <1>1
<1> QED
  BY <1>2, GeqSeqNo

\* Positions of the stream are in reach of the comparisons.
LEMMA StreamInReach ==
    /\ Stream \in Nat /\ Reach \in Nat /\ TcpWnd \in Nat
    /\ \A i : i \in 1 .. Stream + 1 => i \in 1 .. Reach
    /\ \A i : i \in 1 .. Stream + 2 => i \in 1 .. Reach
BY ReceiveAssumption DEF Reach

\* What is known of each segment of a queue.
LEMMA QueueElement ==
    ASSUME NEW q, NEW a \in Nat, NEW b \in Nat, NEW i \in 1 .. Len(q)
    PROVE  Queue(q, a, b) =>
               /\ Genuine(q[i]) /\ q[i] \in Segments /\ Tcplen(q[i]) > 0
               /\ a <= At(q[i]) /\ At(q[i]) < To(q[i]) /\ To(q[i]) <= b
               /\ q[i].fin => i = Len(q)
<1> SUFFICES ASSUME Queue(q, a, b)
             PROVE  /\ Genuine(q[i]) /\ q[i] \in Segments /\ Tcplen(q[i]) > 0
                    /\ a <= At(q[i]) /\ At(q[i]) < To(q[i]) /\ To(q[i]) <= b
                    /\ q[i].fin => i = Len(q)
  OBVIOUS
<1>1. /\ Genuine(q[i]) /\ Tcplen(q[i]) > 0 /\ a <= At(q[i]) /\ To(q[i]) <= b
      /\ q[i].fin => i = Len(q)
  BY DEF Queue
<1>2. At(q[i]) \in 1 .. Stream + 1 /\ Tcplen(q[i]) \in Nat /\ To(q[i]) = At(q[i]) + Tcplen(q[i])
  BY <1>1, SegmentPlaces
<1>3. Stream \in Nat
  BY StreamInReach
<1>4. At(q[i]) < To(q[i])
  BY <1>1, <1>2, <1>3
<1>5. q[i] \in Segments
  BY <1>1 DEF Genuine
<1> QED
  BY <1>1, <1>4, <1>5

\* The order of two segments of a queue.
LEMMA QueueOrder ==
    ASSUME NEW q, NEW a, NEW b, NEW i \in 1 .. Len(q), NEW j \in 1 .. Len(q)
    PROVE  Queue(q, a, b) /\ i < j => To(q[i]) <= At(q[j])
BY DEF Queue

\* A queue is a sequence of segments.
LEMMA QueueIsSeq ==
    ASSUME NEW q, NEW a, NEW b
    PROVE  Queue(q, a, b) => q \in Seq(Segments) /\ Len(q) \in Nat
BY DEF Queue

\* The empty queue lies between any two positions.
LEMMA QueueEmpty ==
    ASSUME NEW a, NEW b
    PROVE  Queue(<<>>, a, b)
BY DEF Queue

\* A queue of one segment.
LEMMA QueueOne ==
    ASSUME NEW s, NEW a \in Nat, NEW b \in Nat
    PROVE  Genuine(s) /\ Tcplen(s) > 0 /\ a <= At(s) /\ To(s) <= b => Queue(<<s>>, a, b)
<1> SUFFICES ASSUME Genuine(s), Tcplen(s) > 0, a <= At(s), To(s) <= b
             PROVE  Queue(<<s>>, a, b)
  OBVIOUS
<1> DEFINE q == <<s>>
<1>1. s \in Segments
  BY DEF Genuine
<1>2. q \in Seq(Segments) /\ Len(q) = 1 /\ q[1] = s
  BY <1>1
<1> HIDE DEF q
<1>3. Queue(q, a, b)
  BY <1>2 DEF Queue
<1> QED
  BY <1>3 DEF q

\* A queue before another one.
LEMMA QueueJoin ==
    ASSUME NEW u, NEW v, NEW a \in Nat, NEW m \in Nat, NEW b \in Nat
    PROVE  /\ Queue(u, a, m) /\ Queue(v, m, b) /\ a <= m /\ m <= b
           /\ v # <<>> => \A i \in 1 .. Len(u) : ~u[i].fin
           => Queue(u \o v, a, b)
<1> SUFFICES ASSUME Queue(u, a, m), Queue(v, m, b), a <= m, m <= b,
                    v # <<>> => \A i \in 1 .. Len(u) : ~u[i].fin
             PROVE  Queue(u \o v, a, b)
  OBVIOUS
<1> DEFINE w == u \o v
           k == Len(u)
           n == Len(v)
<1>1. u \in Seq(Segments) /\ v \in Seq(Segments) /\ k \in Nat /\ n \in Nat
  BY QueueIsSeq
<1>2. /\ w \in Seq(Segments) /\ Len(w) = k + n
      /\ \A i \in 1 .. k + n : w[i] = IF i <= k THEN u[i] ELSE v[i - k]
  BY <1>1
<1>3. n > 0 => v # <<>>
  OBVIOUS
<1> HIDE DEF w, k, n
<1>4. ASSUME NEW i \in 1 .. k
      PROVE  /\ w[i] = u[i]
             /\ Genuine(w[i]) /\ Tcplen(w[i]) > 0
             /\ a <= At(w[i]) /\ At(w[i]) < To(w[i]) /\ To(w[i]) <= m /\ To(w[i]) <= b
             /\ w[i].fin => i = k /\ n = 0
  <2>1. w[i] = u[i] /\ i \in 1 .. Len(u)
    BY <1>1, <1>2 DEF k
  <2>2. /\ Genuine(u[i]) /\ Tcplen(u[i]) > 0
        /\ a <= At(u[i]) /\ At(u[i]) < To(u[i]) /\ To(u[i]) <= m
        /\ u[i].fin => i = Len(u)
    BY <2>1, QueueElement
  <2>3. To(u[i]) \in 1 .. Stream + 2 /\ Stream \in Nat
    BY <2>2, SegmentPlaces, StreamInReach
  <2>4. To(u[i]) <= b
    BY <2>2, <2>3
  <2>5. u[i].fin => n = 0
    BY <1>1, <1>3, <2>1
  <2> QED
    BY <2>1, <2>2, <2>4, <2>5 DEF k
<1>5. ASSUME NEW i \in k + 1 .. k + n
      PROVE  /\ w[i] = v[i - k] /\ i - k \in 1 .. Len(v)
             /\ Genuine(w[i]) /\ Tcplen(w[i]) > 0
             /\ a <= At(w[i]) /\ m <= At(w[i]) /\ At(w[i]) < To(w[i]) /\ To(w[i]) <= b
             /\ w[i].fin => i = k + n
  <2>1. i - k \in 1 .. Len(v) /\ i \in 1 .. k + n /\ ~(i <= k)
    BY <1>1 DEF n
  <2>2. w[i] = v[i - k]
    BY <2>1, <1>2
  <2> DEFINE j == i - k
  <2>3. /\ Genuine(v[j]) /\ Tcplen(v[j]) > 0
        /\ m <= At(v[j]) /\ At(v[j]) < To(v[j]) /\ To(v[j]) <= b
        /\ v[j].fin => j = Len(v)
    <3> HIDE DEF j
    <3>1. j \in 1 .. Len(v)
      BY <2>1 DEF j
    <3> QED
      BY <3>1, QueueElement
  <2>4. At(v[j]) \in 1 .. Stream + 1 /\ Stream \in Nat
    BY <2>3, SegmentPlaces, StreamInReach
  <2>5. a <= At(v[j])
    BY <2>3, <2>4
  <2>6. j = Len(v) => i = k + n
    BY <1>1, <2>1 DEF n
  <2> QED
    BY <2>1, <2>2, <2>3, <2>5, <2>6
<1>6. ASSUME NEW i \in 1 .. k + n, NEW j \in 1 .. k + n, i < j
      PROVE  To(w[i]) <= At(w[j])
  <2>1. CASE j <= k
    <3>1. i \in 1 .. k /\ j \in 1 .. k /\ i \in 1 .. Len(u) /\ j \in 1 .. Len(u)
      BY <2>1, <1>1, <1>6 DEF k
    <3>2. w[i] = u[i] /\ w[j] = u[j]
      BY <3>1, <1>4
    <3> QED
      BY <3>1, <3>2, <1>6, QueueOrder
  <2>2. CASE i > k
    <3>1. i \in k + 1 .. k + n /\ j \in k + 1 .. k + n /\ i - k < j - k
      BY <2>2, <1>1, <1>6
    <3>2. w[i] = v[i - k] /\ w[j] = v[j - k] /\ i - k \in 1 .. Len(v) /\ j - k \in 1 .. Len(v)
      BY <3>1, <1>5
    <3> QED
      BY <3>1, <3>2, QueueOrder
  <2>3. CASE i <= k /\ j > k
    <3>1. i \in 1 .. k /\ j \in k + 1 .. k + n
      BY <2>3, <1>1
    <3>2. Genuine(w[i]) /\ To(w[i]) <= m /\ Genuine(w[j]) /\ m <= At(w[j])
      BY <3>1, <1>4, <1>5
    <3>3. To(w[i]) \in 1 .. Stream + 2 /\ At(w[j]) \in 1 .. Stream + 1 /\ Stream \in Nat
      BY <3>2, SegmentPlaces, StreamInReach
    <3> QED
      BY <3>2, <3>3
  <2> QED
    BY <2>1, <2>2, <2>3, <1>1
<1>7. ASSUME NEW i \in 1 .. Len(w)
      PROVE  /\ Genuine(w[i]) /\ Tcplen(w[i]) > 0 /\ a <= At(w[i]) /\ To(w[i]) <= b
             /\ w[i].fin => i = Len(w)
  <2>1. CASE i \in 1 .. k
    <3>1. k + n = k <=> n = 0
      BY <1>1
    <3> QED
      BY <1>2, <1>4, <2>1, <3>1
  <2>2. CASE i \in k + 1 .. k + n
    BY <1>2, <1>5, <2>2
  <2> QED
    BY <2>1, <2>2, <1>1, <1>2
<1>8. Queue(w, a, b)
  BY <1>2, <1>6, <1>7 DEF Queue
<1> QED
  BY <1>8 DEF w

\* What is left of a queue after k elements.
LEMMA Suffix ==
    ASSUME NEW T, NEW q \in Seq(T), NEW k \in Nat, k <= Len(q)
    PROVE  /\ From(q, k + 1) \in Seq(T)
           /\ Len(From(q, k + 1)) = Len(q) - k
           /\ \A i \in 1 .. Len(q) - k : From(q, k + 1)[i] = q[k + i]
<1> DEFINE r == SubSeq(q, k + 1, Len(q))
<1>1. r \in Seq(T) /\ Len(r) = Len(q) - k
  OBVIOUS
<1>2. ASSUME NEW i \in 1 .. Len(q) - k
      PROVE  r[i] = q[k + i]
  OBVIOUS
<1> QED
  BY <1>1, <1>2 DEF From

\* The rest of a queue.
LEMMA QueueRest ==
    ASSUME NEW q, NEW a \in Nat, NEW b \in Nat, NEW k \in Nat, NEW m \in Nat
    PROVE  Queue(q, a, b) /\ k <= Len(q) /\ (k < Len(q) => m <= At(q[k + 1])) =>
               /\ Queue(From(q, k + 1), m, b)
               /\ Len(From(q, k + 1)) = Len(q) - k
               /\ \A i \in 1 .. Len(q) - k : From(q, k + 1)[i] = q[k + i]
<1> SUFFICES ASSUME Queue(q, a, b), k <= Len(q), k < Len(q) => m <= At(q[k + 1])
             PROVE  /\ Queue(From(q, k + 1), m, b)
                    /\ Len(From(q, k + 1)) = Len(q) - k
                    /\ \A i \in 1 .. Len(q) - k : From(q, k + 1)[i] = q[k + i]
  OBVIOUS
<1> DEFINE r == From(q, k + 1)
           n == Len(q)
<1>1. q \in Seq(Segments) /\ n \in Nat /\ k <= n
  BY QueueIsSeq
<1>3. r \in Seq(Segments) /\ Len(r) = n - k /\ \A i \in 1 .. n - k : r[i] = q[k + i]
  BY <1>1, Suffix
<1> HIDE DEF r, n
<1>4. ASSUME NEW i \in 1 .. n - k
      PROVE  /\ Genuine(r[i]) /\ Tcplen(r[i]) > 0 /\ m <= At(r[i]) /\ To(r[i]) <= b
             /\ r[i].fin => i = n - k
  <2>1. r[i] = q[k + i] /\ k + i \in 1 .. n /\ k + 1 \in 1 .. n /\ k < n
    BY <1>1, <1>3
  <2> DEFINE j == k + i
             f == k + 1
  <2>2. j \in 1 .. Len(q) /\ f \in 1 .. Len(q) /\ r[i] = q[j] /\ m <= At(q[f])
    BY <2>1 DEF n
  <2>3. f = j \/ f < j
    BY <2>1
  <2>4. j = n => i = n - k
    BY <1>1
  <2> HIDE DEF j, f
  <2>5. /\ Genuine(q[j]) /\ Tcplen(q[j]) > 0 /\ To(q[j]) <= b /\ (q[j].fin => j = Len(q))
        /\ Genuine(q[f]) /\ At(q[f]) < To(q[f])
    BY <2>2, QueueElement
  <2>6. f < j => To(q[f]) <= At(q[j])
    BY <2>2, QueueOrder
  <2>7. At(q[j]) \in 1 .. Stream + 1 /\ At(q[f]) \in 1 .. Stream + 1 /\ To(q[f]) \in 1 .. Stream + 2 /\ Stream \in Nat
    BY <2>5, SegmentPlaces, StreamInReach
  <2>8. m <= At(q[j])
    BY <2>2, <2>3, <2>5, <2>6, <2>7
  <2> QED
    BY <2>2, <2>4, <2>5, <2>8 DEF n
<1>5. ASSUME NEW i \in 1 .. n - k, NEW j \in 1 .. n - k, i < j
      PROVE  To(r[i]) <= At(r[j])
  <2>1. /\ r[i] = q[k + i] /\ k + i \in 1 .. Len(q) /\ r[j] = q[k + j] /\ k + j \in 1 .. Len(q)
        /\ k + i < k + j
    BY <1>1, <1>3, <1>5 DEF n
  <2> QED
    BY <2>1, QueueOrder
<1>6. Queue(r, m, b)
  BY <1>3, <1>4, <1>5 DEF Queue
<1> QED
  BY <1>3, <1>6 DEF r, n

\* The head of a queue that goes on.
LEMMA QueueHead ==
    ASSUME NEW q, NEW a \in Nat, NEW b \in Nat, NEW k \in Nat, NEW m \in Nat
    PROVE  Queue(q, a, b) /\ k < Len(q) /\ At(q[k + 1]) <= m =>
               /\ Queue(SubSeq(q, 1, k), a, m)
               /\ Len(SubSeq(q, 1, k)) = k
               /\ \A i \in 1 .. k : SubSeq(q, 1, k)[i] = q[i] /\ ~q[i].fin /\ To(q[i]) <= m
<1> SUFFICES ASSUME Queue(q, a, b), k < Len(q), At(q[k + 1]) <= m
             PROVE  /\ Queue(SubSeq(q, 1, k), a, m)
                    /\ Len(SubSeq(q, 1, k)) = k
                    /\ \A i \in 1 .. k : SubSeq(q, 1, k)[i] = q[i] /\ ~q[i].fin /\ To(q[i]) <= m
  OBVIOUS
<1> DEFINE r == SubSeq(q, 1, k)
           n == Len(q)
<1>1. q \in Seq(Segments) /\ n \in Nat /\ k < n
  BY QueueIsSeq
<1>2. r \in Seq(Segments) /\ Len(r) = k /\ \A i \in 1 .. k : r[i] = q[i]
  BY <1>1
<1> HIDE DEF r, n
<1>4. ASSUME NEW i \in 1 .. k
      PROVE  Genuine(r[i]) /\ Tcplen(r[i]) > 0 /\ a <= At(r[i]) /\ To(r[i]) <= m /\ ~r[i].fin
  <2> DEFINE f == k + 1
  <2>1. r[i] = q[i] /\ i \in 1 .. Len(q) /\ f \in 1 .. Len(q) /\ i < f /\ i # Len(q)
    BY <1>1, <1>2 DEF n
  <2>2. At(q[f]) <= m
    OBVIOUS
  <2> HIDE DEF f
  <2>3. /\ Genuine(q[i]) /\ Tcplen(q[i]) > 0 /\ a <= At(q[i]) /\ (q[i].fin => i = Len(q))
        /\ Genuine(q[f])
    BY <2>1, QueueElement
  <2>4. To(q[i]) <= At(q[f])
    BY <2>1, QueueOrder
  <2>5. At(q[f]) \in 1 .. Stream + 1 /\ To(q[i]) \in 1 .. Stream + 2 /\ Stream \in Nat
    BY <2>3, SegmentPlaces, StreamInReach
  <2>6. To(q[i]) <= m
    BY <2>2, <2>4, <2>5
  <2> QED
    BY <2>1, <2>3, <2>6
<1>5. ASSUME NEW i \in 1 .. k, NEW j \in 1 .. k, i < j
      PROVE  To(r[i]) <= At(r[j])
  <2>1. r[i] = q[i] /\ i \in 1 .. Len(q) /\ r[j] = q[j] /\ j \in 1 .. Len(q)
    BY <1>1, <1>2 DEF n
  <2> QED
    BY <2>1, <1>5, QueueOrder
<1>6. Queue(r, a, m)
  BY <1>2, <1>4, <1>5 DEF Queue
<1>7. \A i \in 1 .. k : r[i] = q[i] /\ ~q[i].fin /\ To(q[i]) <= m
  BY <1>2, <1>4
<1> QED
  BY <1>2, <1>6, <1>7 DEF r

\* The last segment of a queue is the one that a later one is compared with.
LEMMA QueueWithin ==
    ASSUME NEW q, NEW a \in Nat, NEW b \in Nat, NEW c \in Nat, NEW d \in Nat
    PROVE  Queue(q, a, b) /\ c <= a /\ b <= d => Queue(q, c, d)
<1> SUFFICES ASSUME Queue(q, a, b), c <= a, b <= d
             PROVE  Queue(q, c, d)
  OBVIOUS
<1>1. ASSUME NEW i \in 1 .. Len(q)
      PROVE  c <= At(q[i]) /\ To(q[i]) <= d
  <2>1. Genuine(q[i]) /\ a <= At(q[i]) /\ To(q[i]) <= b
    BY QueueElement
  <2>2. At(q[i]) \in 1 .. Stream + 1 /\ To(q[i]) \in 1 .. Stream + 2 /\ Stream \in Nat
    BY <2>1, SegmentPlaces, StreamInReach
  <2> QED
    BY <2>1, <2>2
<1> QED
  BY <1>1 DEF Queue

-----------------------------------------------------------------------------
(* How far the walks of tcp_receive get.                                   *)

\* The segments that end at position e or before are passed, and no others.
LEMMA CoveredIs ==
    ASSUME NEW q, NEW a \in Nat, NEW b \in Nat, NEW e \in 1 .. Stream + 2
    PROVE  Queue(q, a, b) =>
               LET k == Covered(q, SeqNo(e))
               IN  /\ k \in 0 .. Len(q)
                   /\ \A i \in 1 .. k : DataTo(q[i]) <= e
                   /\ k < Len(q) => DataTo(q[k + 1]) > e
<1> SUFFICES ASSUME Queue(q, a, b)
             PROVE  LET k == Covered(q, SeqNo(e))
                    IN  /\ k \in 0 .. Len(q)
                        /\ \A i \in 1 .. k : DataTo(q[i]) <= e
                        /\ k < Len(q) => DataTo(q[k + 1]) > e
  OBVIOUS
<1> DEFINE n == Len(q)
           S == {i \in 1 .. n : Geq(SeqNo(e), DataEnd(q[i]))}
<1>1. n \in Nat
  BY QueueIsSeq
<1>2. PICK m \in 0 .. n : (\A i \in 1 .. m : i \in S) /\ (m < n => m + 1 \notin S)
  <2> HIDE DEF S, n
  <2> QED
    BY <1>1, Walk
<1>3. \E k \in 0 .. Len(q) : /\ \A i \in 1 .. k : Geq(SeqNo(e), DataEnd(q[i]))
                             /\ k < Len(q) => ~Geq(SeqNo(e), DataEnd(q[k + 1]))
  BY <1>1, <1>2
<1> DEFINE k == Covered(q, SeqNo(e))
<1>4. /\ k \in 0 .. Len(q)
      /\ \A i \in 1 .. k : Geq(SeqNo(e), DataEnd(q[i]))
      /\ k < Len(q) => ~Geq(SeqNo(e), DataEnd(q[k + 1]))
  BY <1>3, Zenon DEF Covered, Leading
<1> HIDE DEF k
<1>5. ASSUME NEW i \in 1 .. Len(q)
      PROVE  Geq(SeqNo(e), DataEnd(q[i])) <=> DataTo(q[i]) <= e
  <2>1. Genuine(q[i])
    BY QueueElement
  <2>2. DataEnd(q[i]) = SeqNo(DataTo(q[i])) /\ DataTo(q[i]) \in 1 .. Stream + 1
    BY <2>1, SegmentPlaces
  <2>3. e \in 1 .. Reach /\ DataTo(q[i]) \in 1 .. Reach /\ Stream \in Nat
    BY <2>2, StreamInReach, Zenon
  <2>4. Geq(SeqNo(e), SeqNo(DataTo(q[i]))) <=> e >= DataTo(q[i])
    BY <2>3, Compare
  <2> QED
    BY <2>2, <2>3, <2>4
<1>6. \A i \in 1 .. k : DataTo(q[i]) <= e
  BY <1>1, <1>4, <1>5
<1>7. k < Len(q) => DataTo(q[k + 1]) > e
  <2> SUFFICES ASSUME k < Len(q)
               PROVE  DataTo(q[k + 1]) > e
    OBVIOUS
  <2> DEFINE j == k + 1
  <2>1. j \in 1 .. Len(q) /\ ~Geq(SeqNo(e), DataEnd(q[j]))
    BY <1>1, <1>4
  <2> HIDE DEF j
  <2>2. ~(DataTo(q[j]) <= e) /\ Genuine(q[j])
    BY <2>1, <1>5, QueueElement
  <2>3. DataTo(q[j]) \in 1 .. Stream + 1 /\ Stream \in Nat
    BY <2>2, SegmentPlaces, StreamInReach
  <2>4. DataTo(q[j]) > e
    BY <2>2, <2>3
  <2> QED
    BY <2>4 DEF j
<1> QED
  BY <1>4, <1>6, <1>7 DEF k

\* The segments that begin before position e are passed, and no others.
LEMMA EarlierIs ==
    ASSUME NEW q, NEW a \in Nat, NEW b \in Nat, NEW e \in 1 .. Stream + 1
    PROVE  Queue(q, a, b) =>
               LET k == Earlier(q, SeqNo(e))
               IN  /\ k \in 0 .. Len(q)
                   /\ \A i \in 1 .. k : At(q[i]) < e
                   /\ k < Len(q) => At(q[k + 1]) >= e
<1> SUFFICES ASSUME Queue(q, a, b)
             PROVE  LET k == Earlier(q, SeqNo(e))
                    IN  /\ k \in 0 .. Len(q)
                        /\ \A i \in 1 .. k : At(q[i]) < e
                        /\ k < Len(q) => At(q[k + 1]) >= e
  OBVIOUS
<1> DEFINE n == Len(q)
           S == {i \in 1 .. n : Gt(SeqNo(e), q[i].seqno)}
<1>1. n \in Nat
  BY QueueIsSeq
<1>2. PICK m \in 0 .. n : (\A i \in 1 .. m : i \in S) /\ (m < n => m + 1 \notin S)
  <2> HIDE DEF S, n
  <2> QED
    BY <1>1, Walk, Zenon
<1>3. \E k \in 0 .. Len(q) : /\ \A i \in 1 .. k : Gt(SeqNo(e), q[i].seqno)
                             /\ k < Len(q) => ~Gt(SeqNo(e), q[k + 1].seqno)
  BY <1>1, <1>2
<1> DEFINE k == Earlier(q, SeqNo(e))
<1>4. /\ k \in 0 .. Len(q)
      /\ \A i \in 1 .. k : Gt(SeqNo(e), q[i].seqno)
      /\ k < Len(q) => ~Gt(SeqNo(e), q[k + 1].seqno)
  BY <1>3, SMTT(30) DEF Earlier, Leading
<1> HIDE DEF k
<1>5. ASSUME NEW i \in 1 .. Len(q)
      PROVE  (Gt(SeqNo(e), q[i].seqno) <=> At(q[i]) < e) /\ At(q[i]) \in 1 .. Stream + 1
  <2>1. Genuine(q[i])
    BY QueueElement
  <2>2. q[i].seqno = SeqNo(At(q[i])) /\ At(q[i]) \in 1 .. Stream + 1
    BY <2>1, SegmentPlaces
  <2>3. e \in 1 .. Reach /\ At(q[i]) \in 1 .. Reach /\ Stream \in Nat
    BY <2>2, StreamInReach
  <2>4. Gt(SeqNo(e), SeqNo(At(q[i]))) <=> e > At(q[i])
    BY <2>3, Compare
  <2> QED
    BY <2>2, <2>3, <2>4
<1>6. \A i \in 1 .. k : At(q[i]) < e
  BY <1>1, <1>4, <1>5
<1>7. k < Len(q) => At(q[k + 1]) >= e
  <2> SUFFICES ASSUME k < Len(q)
               PROVE  At(q[k + 1]) >= e
    OBVIOUS
  <2> DEFINE j == k + 1
  <2>1. j \in 1 .. Len(q) /\ ~Gt(SeqNo(e), q[j].seqno)
    BY <1>1, <1>4
  <2> HIDE DEF j
  <2>2. ~(At(q[j]) < e) /\ At(q[j]) \in 1 .. Stream + 1 /\ Stream \in Nat
    BY <2>1, <1>5, StreamInReach
  <2>3. At(q[j]) >= e
    BY <2>2
  <2> QED
    BY <2>3 DEF j
<1> QED
  BY <1>4, <1>6, <1>7 DEF k

\* The segments that follow position e without a gap are passed, and no others.
LEMMA AdjacentIs ==
    ASSUME NEW q, NEW a \in Nat, NEW b \in Nat, NEW e \in 1 .. Stream + 2
    PROVE  Queue(q, a, b) =>
               LET k == Adjacent(q, SeqNo(e))
               IN  /\ k \in 0 .. Len(q)
                   /\ k > 0 => At(q[1]) = e
                   /\ \A i \in 1 .. k : i > 1 => At(q[i]) = To(q[i - 1])
                   /\ k < Len(q) => At(q[k + 1]) # IF k = 0 THEN e ELSE To(q[k])
<1> SUFFICES ASSUME Queue(q, a, b)
             PROVE  LET k == Adjacent(q, SeqNo(e))
                    IN  /\ k \in 0 .. Len(q)
                        /\ k > 0 => At(q[1]) = e
                        /\ \A i \in 1 .. k : i > 1 => At(q[i]) = To(q[i - 1])
                        /\ k < Len(q) => At(q[k + 1]) # IF k = 0 THEN e ELSE To(q[k])
  OBVIOUS
<1> DEFINE n == Len(q)
           P(i) == q[i].seqno = IF i = 1 THEN SeqNo(e) ELSE End(q[i - 1])
           S == {i \in 1 .. n : P(i)}
<1>1. n \in Nat
  BY QueueIsSeq
<1>2. PICK m \in 0 .. n : (\A i \in 1 .. m : i \in S) /\ (m < n => m + 1 \notin S)
  <2> HIDE DEF S, n
  <2> QED
    BY <1>1, Walk
<1>3. \E k \in 0 .. Len(q) : (\A i \in 1 .. k : P(i)) /\ (k < Len(q) => ~P(k + 1))
  <2> HIDE DEF P
  <2> QED
    BY <1>1, <1>2
<1> DEFINE k == Adjacent(q, SeqNo(e))
<1>4. k \in 0 .. Len(q) /\ (\A i \in 1 .. k : P(i)) /\ (k < Len(q) => ~P(k + 1))
  BY <1>3, Zenon DEF Adjacent, Leading
<1> HIDE DEF k, P
<1>5. ASSUME NEW i \in 1 .. Len(q)
      PROVE  /\ At(q[i]) \in 1 .. Stream + 1 /\ At(q[i]) \in 1 .. Reach /\ q[i].seqno = SeqNo(At(q[i]))
             /\ To(q[i]) \in 1 .. Stream + 2 /\ To(q[i]) \in 1 .. Reach /\ End(q[i]) = SeqNo(To(q[i]))
  <2>1. Genuine(q[i])
    BY QueueElement
  <2> QED
    BY <2>1, SegmentPlaces, StreamInReach
<1>6. ASSUME NEW i \in 1 .. Len(q)
      PROVE  P(i) <=> At(q[i]) = IF i = 1 THEN e ELSE To(q[i - 1])
  <2>1. e \in 1 .. Reach
    BY StreamInReach, Zenon
  <2>2. CASE i = 1
    <3>1. SeqNo(At(q[i])) = SeqNo(e) <=> At(q[i]) = e
      BY <1>5, <2>1, Compare
    <3> QED
      BY <2>2, <3>1, <1>5 DEF P
  <2>3. CASE i # 1
    <3> DEFINE j == i - 1
    <3>1. j \in 1 .. Len(q)
      BY <1>1, <2>3
    <3> HIDE DEF j
    <3>2. SeqNo(At(q[i])) = SeqNo(To(q[j])) <=> At(q[i]) = To(q[j])
      BY <1>5, <3>1, Compare
    <3>3. P(i) <=> q[i].seqno = End(q[j])
      BY <2>3 DEF P, j
    <3> QED
      BY <2>3, <3>1, <3>2, <3>3, <1>5 DEF j
  <2> QED
    BY <2>2, <2>3
<1>7. k > 0 => At(q[1]) = e
  <2> SUFFICES ASSUME k > 0
               PROVE  At(q[1]) = e
    OBVIOUS
  <2>1. 1 \in 1 .. k /\ 1 \in 1 .. Len(q)
    BY <1>1, <1>4
  <2> QED
    BY <2>1, <1>4, <1>6
<1>8. ASSUME NEW i \in 1 .. k, i > 1
      PROVE  At(q[i]) = To(q[i - 1])
  <2>1. i \in 1 .. Len(q) /\ i # 1
    BY <1>1, <1>4, <1>8
  <2> QED
    BY <2>1, <1>4, <1>6
<1>9. k < Len(q) => At(q[k + 1]) # IF k = 0 THEN e ELSE To(q[k])
  <2> SUFFICES ASSUME k < Len(q)
               PROVE  At(q[k + 1]) # IF k = 0 THEN e ELSE To(q[k])
    OBVIOUS
  <2> DEFINE j == k + 1
  <2>1. j \in 1 .. Len(q) /\ ~P(j) /\ (j = 1 <=> k = 0) /\ j - 1 = k
    BY <1>1, <1>4
  <2> HIDE DEF j
  <2>2. At(q[j]) # IF k = 0 THEN e ELSE To(q[k])
    BY <2>1, <1>6
  <2> QED
    BY <2>2 DEF j
<1> QED
  BY <1>4, <1>7, <1>8, <1>9 DEF k

-----------------------------------------------------------------------------
(* The queue of out-of-order segments.                                     *)

\* Arithmetic of a segment's length.
LEMMA Occupies ==
    ASSUME NEW s
    PROVE  Genuine(s) => /\ Tcplen(s) > 0 <=> At(s) < To(s)
                         /\ ~s.fin => To(s) = DataTo(s)
                         /\ s.fin => To(s) = Stream + 2 /\ DataTo(s) = Stream + 1
                         /\ DataTo(s) <= To(s)
<1> SUFFICES ASSUME Genuine(s)
             PROVE  /\ Tcplen(s) > 0 <=> At(s) < To(s)
                    /\ ~s.fin => To(s) = DataTo(s)
                    /\ s.fin => To(s) = Stream + 2 /\ DataTo(s) = Stream + 1
                    /\ DataTo(s) <= To(s)
  OBVIOUS
<1>1. /\ At(s) \in 1 .. Stream + 1 /\ DataTo(s) \in 1 .. Stream + 1
      /\ Tcplen(s) \in Nat /\ To(s) = At(s) + Tcplen(s)
      /\ To(s) = IF s.fin THEN DataTo(s) + 1 ELSE DataTo(s)
      /\ s.fin => DataTo(s) = Stream + 1
  BY SegmentPlaces
<1>2. Stream \in Nat
  BY StreamInReach
<1> QED
  BY <1>1, <1>2

\* A segment put before the empty queue.
LEMMA Alone ==
    ASSUME NEW s
    PROVE  <<s>> \o <<>> = <<s>>
OBVIOUS

\* tcp_oos_insert_segment keeps the queue sound.
LEMMA OosInsertIs ==
    ASSUME NEW c, NEW q, NEW b \in Nat
    PROVE  /\ Genuine(c) /\ Tcplen(c) > 0 /\ To(c) <= b /\ Queue(q, At(c), b)
           /\ q # <<>> /\ At(q[1]) = At(c) => Len(c.data) > Len(q[1].data)
           => Queue(OosInsert(c, q), At(c), b)
<1> SUFFICES ASSUME Genuine(c), Tcplen(c) > 0, To(c) <= b, Queue(q, At(c), b),
                    q # <<>> /\ At(q[1]) = At(c) => Len(c.data) > Len(q[1].data)
             PROVE  Queue(OosInsert(c, q), At(c), b)
  OBVIOUS
<1> DEFINE a == At(c)
           e == DataTo(c)
<1>1. /\ a \in 1 .. Stream + 1 /\ a \in Nat /\ e \in 1 .. Stream + 1 /\ e \in 1 .. Stream + 2
      /\ DataEnd(c) = SeqNo(e) /\ e = a + Len(c.data) /\ Len(c.data) \in Nat
      /\ Stream \in Nat
  BY SegmentPlaces, StreamInReach
<1>2. CASE c.fin
  <2>1. OosInsert(c, q) = <<c>>
    BY <1>2 DEF OosInsert
  <2>2. a <= a
    BY <1>1
  <2> QED
    BY <1>1, <2>1, <2>2, QueueOne
<1>3. CASE ~c.fin
  <2> DEFINE k == Covered(q, DataEnd(c))
             rest == From(q, k + 1)
             c1 == IF rest # <<>> /\ Gt(DataEnd(c), rest[1].seqno)
                   THEN CutAt(c, rest[1].seqno) ELSE c
             f == \E i \in 1 .. k : q[i].fin
             c2 == [c1 EXCEPT !.fin = f]
  <2>1. OosInsert(c, q) = <<c2>> \o rest
    BY <1>3 DEF OosInsert
  <2>2. /\ k \in 0 .. Len(q)
        /\ \A i \in 1 .. k : DataTo(q[i]) <= e
        /\ k < Len(q) => DataTo(q[k + 1]) > e
    <3> HIDE DEF a, e
    <3> QED
      BY <1>1, CoveredIs, Zenon DEF a
  <2>3. q \in Seq(Segments) /\ Len(q) \in Nat /\ k \in Nat /\ k <= Len(q)
    BY <2>2, QueueIsSeq
  <2>4. Len(rest) = Len(q) - k /\ \A i \in 1 .. Len(q) - k : rest[i] = q[k + i]
    BY <2>3, Suffix, Zenon
  <2>5. To(c) = e /\ a < e
    BY <1>1, <1>3, Occupies
  <2>6. f \in BOOLEAN
    OBVIOUS
  <2> HIDE DEF k, f, a, e
  <2>7. CASE k = Len(q)
    <3>1. rest = <<>>
      BY <2>3, <2>7, Suffix
    <3>2. c1 = c
      BY <3>1
    <3>3. f => e = Stream + 1 /\ Stream + 2 <= b
      <4> SUFFICES ASSUME f
                   PROVE  e = Stream + 1 /\ Stream + 2 <= b
        OBVIOUS
      <4>1. PICK i \in 1 .. k : q[i].fin
        BY DEF f
      <4>2. i \in 1 .. Len(q)
        BY <2>7
      <4>3. Genuine(q[i]) /\ To(q[i]) <= b
        BY <1>1, <4>2, QueueElement DEF a
      <4>4. To(q[i]) = Stream + 2 /\ DataTo(q[i]) = Stream + 1
        BY <4>1, <4>3, Occupies
      <4>5. DataTo(q[i]) <= e
        BY <2>2
      <4> QED
        BY <1>1, <4>3, <4>4, <4>5
    <3>4. Genuine(c2) /\ c2.fin = f /\ At(c2) = a /\ DataTo(c2) = e
      BY <2>6, <3>2, <3>3, WithFin DEF a, e
    <3> HIDE DEF c2
    <3>5. At(c2) < To(c2) /\ To(c2) <= b
      <4>1. CASE f
        <5>1. To(c2) = Stream + 2
          BY <3>4, <4>1, Occupies, Zenon
        <5> QED
          BY <1>1, <3>3, <3>4, <4>1, <5>1
      <4>2. CASE ~f
        <5>1. To(c2) = e
          BY <3>4, <4>2, Occupies
        <5> QED
          BY <1>1, <2>5, <3>4, <5>1
      <4> QED
        BY <4>1, <4>2
    <3>6. Tcplen(c2) > 0 /\ a <= At(c2)
      BY <1>1, <3>4, <3>5, Occupies
    <3>7. Queue(<<c2>>, a, b)
      BY <1>1, <3>4, <3>5, <3>6, QueueOne
    <3>8. <<c2>> \o rest = <<c2>>
      BY <3>1, Alone, Zenon
    <3> QED
      BY <2>1, <3>7, <3>8, Zenon DEF a
  <2>8. CASE k < Len(q)
    <3> DEFINE g == k + 1
               m == At(q[g])
    <3>1. g \in 1 .. Len(q) /\ 1 \in 1 .. Len(q) /\ (k > 0 => 1 \in 1 .. k /\ 1 < g) /\ (k = 0 => g = 1)
      BY <2>3, <2>8
    <3>2. rest[1] = q[g] /\ rest # <<>> /\ q # <<>>
      BY <2>3, <2>4, <2>8
    <3>3. DataTo(q[g]) > e
      BY <2>2, <2>8
    <3> HIDE DEF g
    <3>4. /\ Genuine(q[g]) /\ a <= m /\ At(q[g]) < To(q[g]) /\ To(q[g]) <= b
          /\ Genuine(q[1]) /\ a <= At(q[1]) /\ At(q[1]) < To(q[1])
      BY <1>1, <3>1, QueueElement DEF a
    <3>5. /\ m \in 1 .. Stream + 1 /\ q[g].seqno = SeqNo(m) /\ DataTo(q[g]) = m + Len(q[g].data)
          /\ Len(q[g].data) \in Nat /\ To(q[g]) \in 1 .. Stream + 2
      BY <3>4, SegmentPlaces, Zenon
    <3>6. a < m
      <4>1. CASE k = 0
        <5>1. g = 1
          BY <3>1, <4>1
        <5>2. m = a => Len(c.data) > Len(q[g].data)
          BY <3>2, <5>1 DEF a
        <5> QED
          BY <1>1, <3>3, <3>4, <3>5, <5>2, SMTT(30)
      <4>2. CASE k > 0
        <5>1. To(q[1]) <= m
          BY <3>1, <4>2, QueueOrder
        <5>2. At(q[1]) \in 1 .. Stream + 1 /\ To(q[1]) \in 1 .. Stream + 2
          BY <3>4, SegmentPlaces
        <5> QED
          BY <1>1, <3>4, <3>5, <5>1, <5>2
      <4> QED
        BY <4>1, <4>2, <2>3
    <3> HIDE DEF m
    <3>7. f = FALSE
      <4>1. ASSUME NEW i \in 1 .. k
            PROVE  ~q[i].fin
        <5>1. i \in 1 .. Len(q) /\ i # Len(q)
          BY <2>3, <2>8
        <5> QED
          BY <1>1, <5>1, QueueElement DEF a
      <4> QED
        BY <4>1 DEF f
    <3>8. Gt(DataEnd(c), rest[1].seqno) <=> e > m
      <4>1. e \in 1 .. Reach /\ m \in 1 .. Reach
        BY <1>1, <3>5, StreamInReach, SMTT(30)
      <4>2. Gt(SeqNo(e), SeqNo(m)) <=> e > m
        BY <4>1, Compare
      <4> QED
        BY <1>1, <3>2, <3>5, <4>2
    <3>9. Genuine(c1) /\ ~c1.fin /\ At(c1) = a /\ a < DataTo(c1) /\ DataTo(c1) <= m
      <4>1. CASE e > m
        <5>1. c1 = CutAt(c, SeqNo(m))
          BY <3>2, <3>5, <3>8, <4>1
        <5>2. m \in Nat /\ At(c) <= m /\ m <= DataTo(c) /\ m <= m
          BY <1>1, <3>5, <3>6, <4>1, SMTT(30) DEF a, e
        <5>3. Genuine(c1) /\ ~c1.fin /\ At(c1) = At(c) /\ DataTo(c1) = m
          BY <1>3, <5>1, <5>2, Cut, SMTT(30)
        <5> QED
          BY <3>6, <5>2, <5>3 DEF a
      <4>2. CASE ~(e > m)
        <5>1. c1 = c
          BY <3>2, <3>8, <4>2
        <5>2. e <= m
          BY <1>1, <3>5, <4>2
        <5> QED
          BY <1>3, <2>5, <5>1, <5>2 DEF a, e
      <4> QED
        BY <4>1, <4>2, SMTT(30)
    <3> HIDE DEF c1
    <3>10. Genuine(c2) /\ c2.fin = FALSE /\ At(c2) = a /\ DataTo(c2) = DataTo(c1)
      <4>1. c2 = [c1 EXCEPT !.fin = FALSE]
        BY <3>7, Zenon
      <4> QED
        BY <3>9, <4>1, WithFin, Zenon
    <3> HIDE DEF c2
    <3>11. To(c2) = DataTo(c1) /\ Tcplen(c2) > 0
      BY <3>9, <3>10, Occupies
    <3>12. m \in Nat /\ a <= a /\ a <= m /\ m <= b /\ m <= m
      BY <1>1, <3>4, <3>5, <3>6 DEF m
    <3>13. Queue(<<c2>>, a, m)
      BY <1>1, <3>9, <3>10, <3>11, <3>12, QueueOne, SMTT(30)
    <3>14. Queue(rest, m, b)
      BY <1>1, <2>3, <3>12, QueueRest DEF a, m, g
    <3>15. \A i \in 1 .. Len(<<c2>>) : ~(<<c2>>)[i].fin
      BY <3>10
    <3> HIDE DEF rest
    <3>16. Queue(<<c2>> \o rest, a, b)
      BY <1>1, <3>12, <3>13, <3>14, <3>15, QueueJoin
    <3> QED
      BY <2>1, <3>16 DEF a
  <2> QED
    BY <2>3, <2>7, <2>8
<1> QED
  BY <1>2, <1>3

\* The length of a sequence, from its domain.
LEMMA LenOfDomain ==
    ASSUME NEW q, NEW n \in Nat, DOMAIN q = 1 .. n
    PROVE  Len(q) = n
OBVIOUS

\* The segments before s, the last of them cut, end where s begins.
LEMMA BeforeIs ==
    ASSUME NEW q, NEW s, NEW a \in Nat, NEW b \in Nat
    PROVE  LET k == Earlier(q, s.seqno)
           IN  Queue(q, a, b) /\ Genuine(s) /\ (\A i \in 1 .. k : ~q[i].fin) =>
                   /\ Len(Before(q, s)) = k
                   /\ Queue(Before(q, s), a, At(s))
                   /\ \A i \in 1 .. k : ~Before(q, s)[i].fin
<1> DEFINE k == Earlier(q, s.seqno)
           w == Before(q, s)
           x == At(s)
<1> SUFFICES ASSUME Queue(q, a, b), Genuine(s), \A i \in 1 .. k : ~q[i].fin
             PROVE  Len(w) = k /\ Queue(w, a, x) /\ \A i \in 1 .. k : ~w[i].fin
  OBVIOUS
<1>1. s.seqno = SeqNo(x) /\ x \in 1 .. Stream + 1 /\ x \in 1 .. Reach /\ Stream \in Nat /\ x \in Nat
  BY SegmentPlaces, StreamInReach
<1>2. k \in 0 .. Len(q) /\ \A i \in 1 .. k : At(q[i]) < x
  <2> HIDE DEF x
  <2> QED
    BY <1>1, EarlierIs
<1>3. q \in Seq(Segments) /\ Len(q) \in Nat /\ k \in Nat
  BY <1>2, QueueIsSeq
<1> HIDE DEF k, x
<1> DEFINE el(i) == IF i = k /\ Gt(DataEnd(q[i]), s.seqno) THEN CutAt(q[i], s.seqno) ELSE q[i]
<1>4. w = [i \in 1 .. k |-> el(i)]
  BY SMTT(30) DEF Before, k
<1>5. ASSUME NEW i \in 1 .. k
      PROVE  /\ Genuine(el(i)) /\ ~el(i).fin /\ At(el(i)) = At(q[i]) /\ To(el(i)) <= x
             /\ At(el(i)) < To(el(i)) /\ a <= At(el(i)) /\ (i # k => el(i) = q[i])
  <2>1. i \in 1 .. Len(q) /\ ~q[i].fin /\ At(q[i]) < x
    BY <1>2, <1>3
  <2>2. Genuine(q[i]) /\ a <= At(q[i]) /\ At(q[i]) < To(q[i])
    BY <2>1, QueueElement
  <2>3. /\ At(q[i]) \in 1 .. Stream + 1 /\ DataTo(q[i]) \in 1 .. Stream + 1
        /\ DataEnd(q[i]) = SeqNo(DataTo(q[i])) /\ To(q[i]) = DataTo(q[i])
    BY <2>1, <2>2, SegmentPlaces, Occupies, SMTT(30)
  <2>4. Gt(DataEnd(q[i]), s.seqno) <=> DataTo(q[i]) > x
    <3>1. DataTo(q[i]) \in 1 .. Reach
      BY <2>3, StreamInReach
    <3> QED
      BY <1>1, <2>3, <3>1, Compare
  <2>5. CASE i = k /\ DataTo(q[i]) > x
    <3>1. el(i) = CutAt(q[i], SeqNo(x))
      BY <1>1, <2>4, <2>5
    <3>2. At(q[i]) <= x /\ x <= DataTo(q[i])
      BY <1>1, <2>1, <2>3, <2>5, SMTT(30)
    <3> HIDE DEF el
    <3>3. Genuine(el(i)) /\ ~el(i).fin /\ At(el(i)) = At(q[i]) /\ To(el(i)) = x
      BY <1>1, <2>1, <2>2, <3>1, <3>2, Cut
    <3> QED
      BY <1>1, <2>1, <2>2, <2>5, <3>3
  <2>6. CASE i = k /\ ~(DataTo(q[i]) > x)
    <3>1. el(i) = q[i]
      BY <2>4, <2>6
    <3>2. To(q[i]) <= x
      BY <1>1, <2>3, <2>6
    <3> HIDE DEF el
    <3> QED
      BY <2>1, <2>2, <3>1, <3>2
  <2>7. CASE i # k
    <3>1. el(i) = q[i]
      BY <2>7
    <3>2. i < k /\ k \in 1 .. k /\ k \in 1 .. Len(q)
      BY <1>2, <1>3, <2>7
    <3>3. To(q[i]) <= At(q[k]) /\ At(q[k]) < x /\ Genuine(q[k])
      BY <1>2, <2>1, <3>2, QueueOrder, QueueElement
    <3>4. At(q[k]) \in 1 .. Stream + 1
      BY <3>3, SegmentPlaces
    <3>5. To(q[i]) <= x
      BY <1>1, <2>3, <3>3, <3>4
    <3> HIDE DEF el
    <3> QED
      BY <2>1, <2>2, <3>1, <3>5
  <2> QED
    BY <2>5, <2>6, <2>7, Zenon
<1> HIDE DEF el, w
<1>6. \A i \in 1 .. k : w[i] = el(i)
  BY <1>4
<1>7. w \in Seq(Segments) /\ Len(w) = k
  <2>1. \A i \in 1 .. k : el(i) \in Segments
    BY <1>5 DEF Genuine
  <2>2. w \in [1 .. k -> Segments]
    BY <1>4, <2>1
  <2>3. w \in Seq(Segments)
    BY <1>3, <2>2, IsSequence
  <2>4. DOMAIN w = 1 .. k
    BY <2>2
  <2> QED
    BY <1>3, <2>3, <2>4, SMTT(30)
<1>8. ASSUME NEW i \in 1 .. k, NEW j \in 1 .. k, i < j
      PROVE  To(w[i]) <= At(w[j])
  <2>1. i # k /\ i \in 1 .. Len(q) /\ j \in 1 .. Len(q)
    BY <1>2, <1>3, <1>8
  <2>2. w[i] = q[i] /\ At(w[j]) = At(q[j])
    BY <1>5, <1>6, <2>1
  <2>3. To(q[i]) <= At(q[j])
    BY <1>8, <2>1, QueueOrder
  <2> QED
    BY <2>2, <2>3
<1>9. ASSUME NEW i \in 1 .. k
      PROVE  /\ Genuine(w[i]) /\ Tcplen(w[i]) > 0 /\ a <= At(w[i]) /\ To(w[i]) <= x
             /\ ~w[i].fin
  <2>1. Genuine(w[i]) /\ ~w[i].fin /\ To(w[i]) <= x /\ At(w[i]) < To(w[i]) /\ a <= At(w[i])
    BY <1>5, <1>6
  <2> QED
    BY <2>1, Occupies
<1>10. Queue(w, a, x)
  BY <1>7, <1>8, <1>9 DEF Queue
<1> QED
  BY <1>7, <1>9, <1>10

\* What OutOfOrder leaves in the queue: nothing is cut or reordered wrongly.
LEMMA OutOfOrderIs ==
    ASSUME NEW p, NEW s, NEW a \in Nat, NEW b \in Nat
    PROVE  /\ Queue(p.ooseq, a, b) /\ Genuine(s) /\ Tcplen(s) > 0
           /\ a <= At(s) /\ To(s) <= b /\ TrimToWindow(p, s) = s
           => Queue(OutOfOrder(p, s), a, b)
<1> SUFFICES ASSUME Queue(p.ooseq, a, b), Genuine(s), Tcplen(s) > 0,
                    a <= At(s), To(s) <= b, TrimToWindow(p, s) = s
             PROVE  Queue(OutOfOrder(p, s), a, b)
  OBVIOUS
<1> DEFINE q == p.ooseq
           x == At(s)
           k == Earlier(q, s.seqno)
           before == Before(q, s)
           after == From(q, Len(before) + 1)
<1>0. OutOfOrder(p, s) =
        IF q = <<>> THEN <<s>>
        ELSE IF after = <<>>
             THEN IF Last(q).fin THEN q ELSE before \o <<s>>
        ELSE IF s.seqno = after[1].seqno /\ Len(s.data) <= Len(after[1].data) THEN q
        ELSE IF s.seqno = after[1].seqno
             THEN SubSeq(q, 1, Len(before)) \o OosInsert(s, after)
        ELSE before \o OosInsert(s, after)
  BY DEF OutOfOrder
<1>1. /\ s.seqno = SeqNo(x) /\ x \in 1 .. Stream + 1 /\ x \in 1 .. Reach /\ Stream \in Nat /\ x \in Nat
      /\ To(s) \in 1 .. Stream + 2 /\ x < To(s)
  BY SegmentPlaces, StreamInReach, Occupies
<1>2. Queue(q, a, b) /\ x <= b /\ a <= x /\ x <= x
  BY <1>1, SMTT(30)
<1> HIDE DEF q, x
<1>3. /\ k \in 0 .. Len(q) /\ (\A i \in 1 .. k : At(q[i]) < x)
      /\ k < Len(q) => At(q[k + 1]) >= x
  BY <1>1, <1>2, EarlierIs
<1>4. q \in Seq(Segments) /\ Len(q) \in Nat /\ k \in Nat
  BY <1>2, <1>3, QueueIsSeq
<1>5. Len(before) = k
  <2>1. DOMAIN Before(q, s) = 1 .. k
    BY DEF Before
  <2>2. \A i \in 1 .. k : TRUE
    BY SMTT(30)
  <2> QED
    BY <1>4, <2>1, LenOfDomain DEF Before
<1> HIDE DEF k
<1>6. (\A i \in 1 .. k : ~q[i].fin) => Queue(before, a, x) /\ \A i \in 1 .. Len(before) : ~before[i].fin
  BY <1>2, <1>5, BeforeIs, SMTT(30) DEF k, x
<1> HIDE DEF before
<1>7. Queue(<<s>>, x, b) /\ Queue(<<s>>, a, b)
  BY <1>1, <1>2, QueueOne, SMTT(30) DEF x
<1>8. CASE q = <<>>
  BY <1>0, <1>7, <1>8
<1>9. CASE q # <<>> /\ k = Len(q)
  <2>1. after = <<>>
    BY <1>4, <1>5, <1>9, Suffix
  <2>2. CASE Last(q).fin
    BY <1>0, <1>2, <1>9, <2>1, <2>2, SMTT(30)
  <2>3. CASE ~Last(q).fin
    <3>1. \A i \in 1 .. k : ~q[i].fin
      <4>1. Last(q) = q[Len(q)]
        BY DEF Last
      <4> QED
        BY <1>2, <1>9, <2>3, <4>1, QueueElement
    <3>2. Queue(before \o <<s>>, a, b)
      BY <1>1, <1>2, <1>6, <1>7, <3>1, QueueJoin
    <3> QED
      BY <1>0, <1>9, <2>1, <2>3, <3>2, SMTT(30)
  <2> QED
    BY <2>2, <2>3
<1>10. CASE k < Len(q)
  <2> DEFINE g == k + 1
             m == At(q[g])
  <2>1. q # <<>> /\ g \in 1 .. Len(q) /\ m >= x
    BY <1>3, <1>4, <1>10, SMTT(30)
  <2>2. Genuine(q[g]) /\ m \in 1 .. Stream + 1 /\ m \in 1 .. Reach /\ q[g].seqno = SeqNo(m)
    <3> HIDE DEF g
    <3>1. Genuine(q[g])
      BY <1>2, <2>1, QueueElement
    <3> QED
      BY <3>1, SegmentPlaces, StreamInReach, SMTT(30)
  <2>3. x <= m
    BY <1>1, <2>1, <2>2, SMTT(30)
  <2>4. /\ Queue(after, x, b) /\ after # <<>> /\ after[1] = q[g]
    <3>1. /\ Queue(after, x, b) /\ Len(after) = Len(q) - k
          /\ \A i \in 1 .. Len(q) - k : after[i] = q[k + i]
      <4>1. after = From(q, k + 1)
        BY <1>5
      <4>2. k <= Len(q) /\ (k < Len(q) => x <= At(q[k + 1]))
        BY <1>3, <1>4, <2>3
      <4> HIDE DEF after, g, m
      <4>3. Queue(From(q, k + 1), x, b)
        BY <1>1, <1>2, <1>4, <4>2, QueueRest, Zenon
      <4>4. Len(after) = Len(q) - k /\ \A i \in 1 .. Len(q) - k : after[i] = q[k + i]
        BY <1>4, <4>1, <4>2, Suffix, SMTT(30)
      <4> QED
        BY <4>1, <4>3, <4>4
    <3>2. 1 \in 1 .. Len(q) - k /\ Len(q) - k # 0
      BY <1>4, <1>10
    <3> QED
      BY <3>1, <3>2
  <2>5. s.seqno = after[1].seqno <=> x = m
    BY <1>1, <2>2, <2>4, Compare
  <2>6. \A i \in 1 .. k : ~q[i].fin
    <3>1. ASSUME NEW i \in 1 .. k
          PROVE  ~q[i].fin
      <4>1. i \in 1 .. Len(q) /\ i # Len(q)
        BY <1>4, <1>10
      <4> QED
        BY <1>2, <4>1, QueueElement, SMTT(30)
    <3> QED
      BY <3>1
  <2>7. Queue(before, a, x) /\ \A i \in 1 .. Len(before) : ~before[i].fin
    BY <1>6, <2>6, SMTT(30)
  <2>8. (x = m => Len(s.data) > Len(after[1].data)) => Queue(OosInsert(s, after), x, b)
    <3>1. At(after[1]) = m
      BY <2>4
    <3> HIDE DEF after, m
    <3> QED
      BY <1>1, <2>4, <3>1, OosInsertIs, SMTT(30) DEF x
  <2> HIDE DEF after
  <2>9. CASE x = m /\ Len(s.data) <= Len(after[1].data)
    BY <1>0, <1>2, <2>1, <2>4, <2>5, <2>9, SMTT(30)
  <2>10. CASE x = m /\ ~(Len(s.data) <= Len(after[1].data))
    <3>1. Len(s.data) \in Nat /\ Len(after[1].data) \in Nat
      BY <2>2, <2>4, SegmentPlaces
    <3>2. Queue(OosInsert(s, after), x, b)
      BY <2>8, <2>10, <3>1, SMTT(30)
    <3>3. /\ Queue(SubSeq(q, 1, k), a, x) /\ Len(SubSeq(q, 1, k)) = k
          /\ \A i \in 1 .. k : ~SubSeq(q, 1, k)[i].fin
      <4>1. At(q[k + 1]) <= x
        BY <1>1, <2>10
      <4> HIDE DEF g, m
      <4>2. /\ Queue(SubSeq(q, 1, k), a, x) /\ Len(SubSeq(q, 1, k)) = k
            /\ \A i \in 1 .. k : SubSeq(q, 1, k)[i] = q[i] /\ ~q[i].fin /\ To(q[i]) <= x
        <5>1. k \in Nat /\ x \in Nat /\ Queue(q, a, b) /\ k < Len(q) /\ At(q[k + 1]) <= x
          BY <1>1, <1>2, <1>4, <1>10, <4>1, SMTT(30)
        <5> QED
          BY <5>1, QueueHead
      <4> QED
        BY <4>2, Zenon
    <3>4. Queue(SubSeq(q, 1, k) \o OosInsert(s, after), a, b)
      BY <1>1, <1>2, <3>2, <3>3, QueueJoin, Zenon
    <3> QED
      BY <1>0, <1>5, <2>1, <2>4, <2>5, <2>10, <3>4, SMTT(30)
  <2>11. CASE x # m
    <3>1. Queue(OosInsert(s, after), x, b)
      BY <2>8, <2>11, SMTT(30)
    <3>2. Queue(before \o OosInsert(s, after), a, b)
      BY <1>1, <1>2, <2>7, <3>1, QueueJoin
    <3> QED
      BY <1>0, <2>1, <2>4, <2>5, <2>11, <3>2
  <2> QED
    BY <2>9, <2>10, <2>11
<1> QED
  BY <1>3, <1>4, <1>8, <1>9, <1>10

-----------------------------------------------------------------------------
(* The window.                                                             *)

\* The right edge of the window.
LEMMA RightEdgeIs ==
    ASSUME NEW p, NEW n \in 1 .. Stream + 2
    PROVE  p.rcv_nxt = SeqNo(n) /\ p.rcv_wnd \in 0 .. TcpWnd =>
               RightEdge(p) = SeqNo(n + p.rcv_wnd) /\ n + p.rcv_wnd \in 1 .. Reach
<1> SUFFICES ASSUME p.rcv_nxt = SeqNo(n), p.rcv_wnd \in 0 .. TcpWnd
             PROVE  RightEdge(p) = SeqNo(n + p.rcv_wnd) /\ n + p.rcv_wnd \in 1 .. Reach
  OBVIOUS
<1> DEFINE w == p.rcv_wnd
<1>1. Stream \in Nat /\ TcpWnd \in Nat /\ Reach = Stream + TcpWnd + 2
  BY StreamInReach DEF Reach
<1>2. w \in 0 .. TcpWnd
  OBVIOUS
<1>3. RightEdge(p) = Plus(SeqNo(n), w)
  BY DEF RightEdge
<1> HIDE DEF w, Reach
<1>4. n \in 0 .. Reach /\ w \in -1 .. Reach /\ n + w >= 0 /\ n + w \in 1 .. Reach
  BY <1>1, <1>2
<1>5. Plus(SeqNo(n), w) = SeqNo(n + w)
  BY <1>4, PlusSeqNo
<1> QED
  BY <1>3, <1>4, <1>5 DEF w

\* A segment that ends in the window is not cut.
LEMMA Uncut ==
    ASSUME NEW p, NEW n \in 1 .. Stream + 2, NEW s
    PROVE  /\ p.rcv_nxt = SeqNo(n) /\ p.rcv_wnd \in 0 .. TcpWnd
           /\ Genuine(s) /\ To(s) <= n + p.rcv_wnd
           => TrimToWindow(p, s) = s
<1> SUFFICES ASSUME p.rcv_nxt = SeqNo(n), p.rcv_wnd \in 0 .. TcpWnd,
                    Genuine(s), To(s) <= n + p.rcv_wnd
             PROVE  TrimToWindow(p, s) = s
  OBVIOUS
<1> DEFINE r == n + p.rcv_wnd
<1>1. RightEdge(p) = SeqNo(r) /\ r \in 1 .. Reach
  BY RightEdgeIs
<1>2. End(s) = SeqNo(To(s)) /\ To(s) \in 1 .. Stream + 2 /\ To(s) \in 1 .. Reach /\ To(s) <= r
  BY SegmentPlaces, StreamInReach
<1> HIDE DEF r
<1>3. Gt(SeqNo(To(s)), SeqNo(r)) <=> To(s) > r
  BY <1>1, <1>2, Compare
<1>4. ~(To(s) > r)
  BY <1>1, <1>2, StreamInReach
<1> QED
  BY <1>1, <1>2, <1>3, <1>4 DEF TrimToWindow

\* Positions in the window.
LEMMA InWindowIs ==
    ASSUME NEW p, NEW n \in 1 .. Stream + 2, NEW i \in 1 .. Stream + 2
    PROVE  p.rcv_nxt = SeqNo(n) /\ p.rcv_wnd \in 0 .. TcpWnd =>
               (InWindow(p, SeqNo(i)) <=> n <= i /\ i < n + p.rcv_wnd)
<1> SUFFICES ASSUME p.rcv_nxt = SeqNo(n), p.rcv_wnd \in 0 .. TcpWnd
             PROVE  InWindow(p, SeqNo(i)) <=> n <= i /\ i < n + p.rcv_wnd
  OBVIOUS
<1> DEFINE w == p.rcv_wnd
           m == w - 1
           e == n + m
<1>1. Stream \in Nat /\ TcpWnd \in Nat /\ Reach = Stream + TcpWnd + 2
  BY StreamInReach DEF Reach
<1>2. w \in 0 .. TcpWnd
  OBVIOUS
<1>3. InWindow(p, SeqNo(i)) <=> Geq(SeqNo(i), SeqNo(n)) /\ Geq(Plus(SeqNo(n), m), SeqNo(i))
  BY DEF InWindow, Between
<1>4. Reach \in Nat /\ Space \in Nat /\ 2 * Reach <= Space
  BY SpaceFacts
<1> HIDE DEF w, Reach, Space
<1>5. /\ n \in 0 .. Reach /\ m \in -1 .. Reach /\ n + m >= 0 /\ e \in 0 .. Reach
      /\ i \in 1 .. Reach /\ n \in 1 .. Reach
  BY <1>1, <1>2
<1>6. Plus(SeqNo(n), m) = SeqNo(e)
  BY <1>5, PlusSeqNo
<1>7. Geq(SeqNo(i), SeqNo(n)) <=> i >= n
  BY <1>5, Compare
<1>8. Geq(SeqNo(e), SeqNo(i)) <=> e >= i
  <2>1. e \in 0 .. Space /\ i \in 0 .. Space /\ e - i < Reach /\ i - e <= Reach
    BY <1>4, <1>5
  <2> HIDE DEF e
  <2> QED
    BY <2>1, GeqSeqNo
<1>9. e >= i <=> i < n + w
  BY <1>1, <1>2
<1>10. i >= n <=> n <= i
  BY <1>1
<1> QED
  BY <1>3, <1>6, <1>7, <1>8, <1>9, <1>10 DEF w

\* tcp_update_rcv_ann_wnd announces no more than the window, and no less than
\* was announced before.
LEMMA UpdateAnnWndIs ==
    ASSUME NEW p, NEW n \in 1 .. Stream + 2
    PROVE  /\ p.rcv_nxt = SeqNo(n) /\ p.rcv_wnd \in 0 .. TcpWnd
           /\ p.rcv_ann_right_edge \in 0 .. Space - 1 /\ Edge(p) <= n + p.rcv_wnd
           => \E w \in 0 .. TcpWnd : /\ UpdateAnnWnd(p) = [p EXCEPT !.rcv_ann_wnd = w]
                                     /\ w <= p.rcv_wnd /\ Edge(p) <= n + w
<1> SUFFICES ASSUME p.rcv_nxt = SeqNo(n), p.rcv_wnd \in 0 .. TcpWnd,
                    p.rcv_ann_right_edge \in 0 .. Space - 1, Edge(p) <= n + p.rcv_wnd
             PROVE  \E w \in 0 .. TcpWnd : /\ UpdateAnnWnd(p) = [p EXCEPT !.rcv_ann_wnd = w]
                                           /\ w <= p.rcv_wnd /\ Edge(p) <= n + w
  OBVIOUS
<1> DEFINE E == Edge(p)
           W == p.rcv_wnd
           r == n + W
           f == E + Step
           w == IF CanAdvertise(p) THEN W
                ELSE IF Gt(p.rcv_nxt, p.rcv_ann_right_edge) THEN 0
                ELSE Minus(p.rcv_ann_right_edge, p.rcv_nxt)
<1>1. UpdateAnnWnd(p) = [p EXCEPT !.rcv_ann_wnd = w]
  BY DEF UpdateAnnWnd
<1>2. E \in 1 .. Space /\ p.rcv_ann_right_edge = SeqNo(E) /\ E <= r
  BY SeqNoOfPlace DEF Edge
<1>3. RightEdge(p) = SeqNo(r) /\ r \in 1 .. Reach
  BY RightEdgeIs
<1>4. /\ Stream \in Nat /\ TcpWnd \in Nat /\ Reach = Stream + TcpWnd + 2 /\ W \in 0 .. TcpWnd
      /\ Reach \in Nat /\ Space \in Nat /\ 2 * Reach <= Space
  BY StreamInReach, SpaceFacts DEF Reach
<1>5. Step \in 0 .. TcpWnd
  BY ReceiveAssumption DEF Step
<1>6. CanAdvertise(p) <=> Geq(RightEdge(p), Plus(p.rcv_ann_right_edge, Step))
  BY DEF CanAdvertise
<1> HIDE DEF E, W, Reach, Space, w, r
<1>7. r = n + W
  BY DEF r
<1>8. /\ E \in 1 .. Reach /\ E \in 0 .. Reach /\ E \in Nat /\ Step \in -1 .. Reach /\ E + Step >= 0
      /\ f \in 0 .. Space /\ r \in 0 .. Space /\ r - f < Reach /\ f - r <= Reach
      /\ n \in 1 .. Reach
  BY <1>2, <1>3, <1>4, <1>5
<1>9. Plus(SeqNo(E), Step) = SeqNo(f)
  BY <1>8, PlusSeqNo
<1> HIDE DEF f
<1>10. CanAdvertise(p) <=> r >= f
  BY <1>2, <1>3, <1>6, <1>8, <1>9, GeqSeqNo
<1>11. Gt(p.rcv_nxt, p.rcv_ann_right_edge) <=> n > E
  BY <1>2, <1>8, Compare
<1>12. E >= n => Minus(p.rcv_ann_right_edge, p.rcv_nxt) = E - n
  <2>1. E \in 0 .. Space /\ n \in 0 .. Space /\ E - n < Space /\ n - E < Space
    BY <1>4, <1>8
  <2>2. Minus(SeqNo(E), SeqNo(n)) = IF E >= n THEN E - n ELSE E - n + Space
    BY <2>1, MinusSeqNo
  <2> QED
    BY <1>2, <2>2
<1>13. w \in 0 .. TcpWnd /\ w <= W /\ E <= n + w
  <2>1. CASE CanAdvertise(p)
    <3>1. w = W
      BY <2>1 DEF w, W
    <3> QED
      BY <3>1, <1>2, <1>4, <1>7, <1>8
  <2>2. CASE ~CanAdvertise(p) /\ n > E
    <3>1. w = 0
      BY <2>2, <1>11 DEF w
    <3> QED
      BY <2>2, <3>1, <1>4, <1>8
  <2>3. CASE ~CanAdvertise(p) /\ ~(n > E)
    <3>1. E >= n
      BY <2>3, <1>8
    <3>2. w = E - n
      BY <2>3, <3>1, <1>11, <1>12 DEF w
    <3> QED
      BY <3>1, <3>2, <1>2, <1>4, <1>7, <1>8
  <2> QED
    BY <2>1, <2>2, <2>3
<1> QED
  BY <1>1, <1>13 DEF E, W

\* What rcv_nxt has passed is dropped from a segment, and nothing else.
LEMMA TrimFrontIs ==
    ASSUME NEW p, NEW n \in 1 .. Stream + 1, NEW s
    PROVE  p.rcv_nxt = SeqNo(n) /\ Genuine(s) /\ Tcplen(s) > 0 =>
               LET t == TrimFront(p, s)
               IN  /\ Genuine(t) /\ Tcplen(t) > 0 /\ To(t) = To(s)
                   /\ At(t) = IF At(s) < n /\ n < To(s) THEN n ELSE At(s)
<1> SUFFICES ASSUME p.rcv_nxt = SeqNo(n), Genuine(s), Tcplen(s) > 0
             PROVE  LET t == TrimFront(p, s)
                    IN  /\ Genuine(t) /\ Tcplen(t) > 0 /\ To(t) = To(s)
                        /\ At(t) = IF At(s) < n /\ n < To(s) THEN n ELSE At(s)
  BY SMTT(30)
<1> DEFINE a == At(s)
           c == a + 1
           l == Tcplen(s) - 1
           e == a + l
           t == TrimFront(p, s)
<1>1. /\ s.seqno = SeqNo(a) /\ a \in 1 .. Stream + 1 /\ To(s) \in 1 .. Stream + 2 /\ Tcplen(s) \in Nat
      /\ To(s) = a + Tcplen(s) /\ DataTo(s) = a + Len(s.data) /\ Len(s.data) \in Nat
      /\ DataTo(s) \in 1 .. Stream + 1 /\ (s.fin => DataTo(s) = Stream + 1)
      /\ To(s) = IF s.fin THEN DataTo(s) + 1 ELSE DataTo(s)
  BY SegmentPlaces
<1>2. s \in Segments /\ Stretch(s.data, a) /\ s.fin \in BOOLEAN
  BY DEF Genuine, Segments
<1>3. Stream \in Nat /\ Reach \in Nat /\ Reach = Stream + TcpWnd + 2 /\ TcpWnd \in Nat
  BY StreamInReach DEF Reach
<1>4. Space \in Nat /\ 2 * Reach <= Space
  BY SpaceFacts
<1> HIDE DEF Reach, Space, a
<1>5. /\ l \in Nat /\ l \in -1 .. Reach /\ 1 \in -1 .. Reach /\ a \in 0 .. Reach /\ a + l >= 0 /\ a + 1 >= 0
      /\ c \in 1 .. Reach /\ e \in 1 .. Reach /\ n \in 1 .. Reach /\ e = To(s) - 1
  <2>1. Tcplen(s) \in Nat /\ Tcplen(s) > 0 /\ To(s) = a + Tcplen(s) /\ To(s) <= Stream + 2 /\ a \in 1 .. Stream + 1
    BY <1>1
  <2>2. \A x, y \in Nat : x > 0 /\ y = a + x /\ y <= Stream + 2 =>
            LET z == x - 1 IN z \in Nat /\ z <= Reach /\ a + z = y - 1 /\ a + z \in 1 .. Reach
    BY <1>3, <2>1
  <2>3. To(s) \in Nat
    BY <1>1
  <2>4. l \in Nat /\ l <= Reach /\ e = To(s) - 1 /\ e \in 1 .. Reach
    BY <2>1, <2>2, <2>3
  <2> HIDE DEF l
  <2>5. e = a + l
    OBVIOUS
  <2>6. a \in 0 .. Reach /\ c \in 1 .. Reach /\ n \in 1 .. Reach /\ 1 \in -1 .. Reach /\ a + 1 >= 0
    BY <1>3, <2>1, SMTT(30)
  <2> HIDE DEF e, c
  <2> QED
    BY <1>3, <2>4, <2>5, <2>6
<1>6. Plus(s.seqno, 1) = SeqNo(c) /\ Plus(s.seqno, l) = SeqNo(e)
  BY <1>1, <1>5, PlusSeqNo
<1> DEFINE cond == Between(p.rcv_nxt, Plus(s.seqno, 1), Plus(s.seqno, l))
           d == From(s.data, Minus(p.rcv_nxt, s.seqno) + 1)
<1>7. t = IF cond THEN [s EXCEPT !.seqno = p.rcv_nxt, !.data = d] ELSE s
  BY DEF TrimFront
<1>8. cond <=> a < n /\ n < To(s)
  <2>1. cond <=> Geq(SeqNo(n), SeqNo(c)) /\ Geq(SeqNo(e), SeqNo(n))
    BY <1>6 DEF Between
  <2> HIDE DEF cond, c, e
  <2>2. (Geq(SeqNo(n), SeqNo(c)) <=> n >= c) /\ (Geq(SeqNo(e), SeqNo(n)) <=> e >= n)
    BY <1>5, Compare
  <2>3. n >= c <=> a < n
    BY <1>1, <1>3 DEF c
  <2>4. e = To(s) - 1 /\ To(s) \in Nat /\ n \in Nat
    BY <1>1, <1>5, SMTT(30)
  <2>5. e >= n <=> n < To(s)
    BY <2>4
  <2> QED
    BY <2>1, <2>2, <2>3, <2>5
<1> HIDE DEF cond
<1>9. CASE ~cond
  <2>1. t = s
    BY <1>7, <1>9
  <2> QED
    BY <1>8, <1>9, <2>1 DEF a
<1>10. CASE cond
  <2> DEFINE m == n - a
  <2>1. m \in Nat /\ m <= Len(s.data) /\ a + m = n /\ a \in Nat /\ a < n /\ n < To(s)
    BY <1>1, <1>3, <1>8, <1>10, SMTT(30)
  <2>2. Minus(p.rcv_nxt, s.seqno) = m
    <3>1. n \in 0 .. Space /\ a \in 0 .. Space /\ n - a < Space /\ a - n < Space /\ n >= a
      BY <1>1, <1>3, <1>4, <2>1
    <3> QED
      BY <1>1, <3>1, MinusSeqNo
  <2>3. d = From(s.data, m + 1)
    BY <2>2
  <2> HIDE DEF m, d
  <2>4. Stretch(d, n) /\ Len(d) = Len(s.data) - m
    BY <1>2, <2>1, <2>3, StretchParts, ZenonT(30)
  <2>5. t = [seqno |-> SeqNo(n), data |-> d, fin |-> s.fin]
    BY <1>2, <1>7, <1>10, SegmentTrim, Zenon
  <2>6. n + Len(d) = DataTo(s)
    BY <1>1, <2>1, <2>4, SMTT(30)
  <2> HIDE DEF t
  <2>11. /\ Stretch(d, n) /\ n + Len(d) <= Stream + 1 /\ (s.fin => n + Len(d) = Stream + 1)
         /\ s.fin \in BOOLEAN /\ n \in 1 .. Stream + 1
    BY <1>1, <1>2, <2>4, <2>6
  <2>7. Genuine(t) /\ At(t) = n /\ DataTo(t) = n + Len(d)
    BY <2>5, <2>11, MakesGenuine
  <2>8. t.fin = s.fin
    BY <2>5, SMTT(30)
  <2>9. To(t) = To(s)
    BY <1>1, <2>6, <2>7, <2>8, SegmentPlaces, Zenon
  <2>10. Tcplen(t) > 0
    BY <2>1, <2>7, <2>9, Occupies
  <2> QED
    BY <1>8, <1>10, <2>7, <2>9, <2>10 DEF a, t
<1> QED
  BY <1>9, <1>10

-----------------------------------------------------------------------------
(* A segment in order.                                                     *)

\* The segment that is next in order takes the place of the queued segments it
\* covers, with their FIN, and ends where the first that it does not cover
\* begins.
LEMMA MergeIs ==
    ASSUME NEW s1, NEW q, NEW b \in Nat
    PROVE  LET k == IF s1.fin THEN Len(q) ELSE Covered(q, End(s1))
               rest == From(q, k + 1)
               s == CoverTail([s1 EXCEPT !.fin = @ \/ \E i \in 1 .. k : q[i].fin], rest)
           IN  Genuine(s1) /\ Tcplen(s1) > 0 /\ To(s1) <= b /\ Queue(q, At(s1) + 1, b) =>
                   /\ Genuine(s) /\ At(s) = At(s1) /\ At(s) < To(s) /\ To(s) <= b
                   /\ Queue(rest, To(s), b)
                   /\ s.fin => rest = <<>>
<1> DEFINE k == IF s1.fin THEN Len(q) ELSE Covered(q, End(s1))
           rest == From(q, k + 1)
           f == s1.fin \/ \E i \in 1 .. k : q[i].fin
           s2 == [s1 EXCEPT !.fin = f]
           s == CoverTail(s2, rest)
           a == At(s1)
           e == DataTo(s1)
           a1 == a + 1
<1> SUFFICES ASSUME Genuine(s1), Tcplen(s1) > 0, To(s1) <= b, Queue(q, a1, b)
             PROVE  /\ Genuine(s) /\ At(s) = At(s1) /\ At(s) < To(s) /\ To(s) <= b
                    /\ Queue(rest, To(s), b)
                    /\ s.fin => rest = <<>>
  BY DEF Segments, Genuine
<1>1. /\ a \in 1 .. Stream + 1 /\ a \in Nat /\ a1 \in Nat /\ e \in 1 .. Stream + 1 /\ e \in 1 .. Stream + 2
      /\ e = a + Len(s1.data) /\ Len(s1.data) \in Nat /\ End(s1) = SeqNo(To(s1))
      /\ Stream \in Nat /\ s1.fin \in BOOLEAN /\ To(s1) \in 1 .. Stream + 2
  <2>1. /\ a \in 1 .. Stream + 1 /\ e \in 1 .. Stream + 1 /\ To(s1) \in 1 .. Stream + 2
        /\ e = a + Len(s1.data) /\ Len(s1.data) \in Nat /\ End(s1) = SeqNo(To(s1))
    BY SegmentPlaces
  <2>2. s1.fin \in BOOLEAN
    BY DEF Genuine, Segments
  <2> HIDE DEF a, e
  <2> QED
    BY <2>1, <2>2, StreamInReach
<1>2. q \in Seq(Segments) /\ Len(q) \in Nat
  BY QueueIsSeq
<1>3. f \in BOOLEAN
  BY <1>1
<1>4. a < To(s1)
  BY Occupies
<1>5. ASSUME k = Len(q), f => e = Stream + 1 /\ Stream + 2 <= b, ~f => a < e /\ e <= b
      PROVE  /\ Genuine(s) /\ At(s) = At(s1) /\ At(s) < To(s) /\ To(s) <= b
             /\ Queue(rest, To(s), b)
             /\ s.fin => rest = <<>>
  <2>1. rest = <<>>
    <3> HIDE DEF k
    <3>1. k \in Nat /\ k <= Len(q) /\ Len(q) - k = 0
      BY <1>2, <1>5
    <3>2. rest \in Seq(Segments) /\ Len(rest) = Len(q) - k
      BY <1>2, <3>1, Suffix, Zenon
    <3> HIDE DEF rest
    <3> QED
      BY <3>1, <3>2
  <2> HIDE DEF k, rest, f
  <2>2. s = s2
    BY <2>1 DEF CoverTail
  <2>3. Genuine(s2) /\ s2.fin = f /\ At(s2) = a /\ DataTo(s2) = e
    BY <1>3, <1>5, WithFin
  <2> HIDE DEF s, s2, a, e
  <2>4. a < To(s2) /\ To(s2) <= b
    <3>1. CASE f
      <4>1. To(s2) = Stream + 2
        BY <2>3, <3>1, Occupies, Zenon
      <4> QED
        BY <1>1, <1>5, <3>1, <4>1
    <3>2. CASE ~f
      <4>1. To(s2) = e
        BY <2>3, <3>2, Occupies
      <4> QED
        BY <1>5, <3>2, <4>1
    <3> QED
      BY <3>1, <3>2
  <2>5. Queue(rest, To(s), b)
    BY <2>1, QueueEmpty
  <2> QED
    BY <2>1, <2>2, <2>3, <2>4, <2>5 DEF a
<1>6. CASE s1.fin
  <2>1. k = Len(q) /\ f
    BY <1>6
  <2>2. e = Stream + 1 /\ To(s1) = Stream + 2
    BY <1>6, Occupies
  <2> HIDE DEF k, f, e, s
  <2> QED
    BY <1>5, <2>1, <2>2
<1>7. CASE ~s1.fin
  <2>1. To(s1) = e /\ a < e /\ e <= b
    BY <1>4, <1>7, Occupies
  <2>2. k = Covered(q, SeqNo(e))
    BY <1>1, <1>7, <2>1
  <2>3. f <=> \E i \in 1 .. k : q[i].fin
    BY <1>7
  <2> HIDE DEF k, f, e, a, a1
  <2>4. /\ k \in 0 .. Len(q)
        /\ \A i \in 1 .. k : DataTo(q[i]) <= e
        /\ k < Len(q) => DataTo(q[k + 1]) > e
    BY <1>1, <2>2, CoveredIs, Zenon
  <2>5. k \in Nat /\ k <= Len(q)
    BY <1>2, <2>4
  <2>6. CASE k = Len(q)
    <3>1. f => e = Stream + 1 /\ Stream + 2 <= b
      <4> SUFFICES ASSUME f
                   PROVE  e = Stream + 1 /\ Stream + 2 <= b
        OBVIOUS
      <4>1. PICK i \in 1 .. k : q[i].fin
        BY <2>3
      <4>2. i \in 1 .. Len(q)
        BY <2>6
      <4>3. Genuine(q[i]) /\ To(q[i]) <= b
        BY <1>1, <4>2, QueueElement
      <4>4. To(q[i]) = Stream + 2 /\ DataTo(q[i]) = Stream + 1
        BY <4>1, <4>3, Occupies
      <4>5. DataTo(q[i]) <= e
        BY <2>4
      <4> QED
        BY <1>1, <4>3, <4>4, <4>5
    <3> HIDE DEF s
    <3> QED
      BY <1>5, <2>1, <2>6, <3>1, SMTT(30) DEF a
  <2>7. CASE k < Len(q)
    <3> DEFINE g == k + 1
               m == At(q[g])
    <3>1. g \in 1 .. Len(q)
      BY <1>2, <2>5, <2>7
    <3>2. Len(rest) = Len(q) - k /\ rest[1] = q[g] /\ rest # <<>>
      <4>1. Len(rest) = Len(q) - k /\ \A i \in 1 .. Len(q) - k : rest[i] = q[k + i]
        BY <1>2, <2>5, Suffix
      <4>2. 1 \in 1 .. Len(q) - k
        BY <1>2, <2>5, <2>7
      <4>3. rest[1] = q[g]
        BY <4>1, <4>2
      <4> HIDE DEF rest
      <4>4. rest # <<>>
        BY <4>1, <4>2
      <4> QED
        BY <4>1, <4>3, <4>4
    <3>3. DataTo(q[g]) > e
      BY <2>4, <2>7, SMTT(30)
    <3> HIDE DEF g
    <3>4. Genuine(q[g]) /\ a1 <= m /\ At(q[g]) < To(q[g]) /\ To(q[g]) <= b
      BY <1>1, <3>1, QueueElement, SMTT(30)
    <3>5. m \in 1 .. Stream + 1 /\ q[g].seqno = SeqNo(m) /\ To(q[g]) \in 1 .. Stream + 2
      BY <3>4, SegmentPlaces
    <3> HIDE DEF m
    <3>6. a < m /\ m \in Nat
      BY <1>1, <3>4, <3>5 DEF a1
    <3>7. f = FALSE
      <4>1. ASSUME NEW i \in 1 .. k
            PROVE  ~q[i].fin
        <5>1. i \in 1 .. Len(q) /\ i # Len(q)
          BY <1>2, <2>5, <2>7
        <5> QED
          BY <1>1, <5>1, QueueElement
      <4> QED
        BY <1>3, <2>3, <4>1, SMTT(30)
    <3>8. Genuine(s2) /\ s2.fin = FALSE /\ At(s2) = a /\ DataTo(s2) = e
      BY <3>7, WithFin, Zenon DEF a, e
    <3>9. s = IF Gt(End(s2), q[g].seqno) THEN CutAt(s2, q[g].seqno) ELSE s2
      BY <3>2 DEF CoverTail
    <3> HIDE DEF s, s2, rest
    <3>10. To(s2) = e /\ End(s2) = SeqNo(e)
      BY <3>8, Occupies, SegmentPlaces, SMTT(30)
    <3>11. Gt(End(s2), q[g].seqno) <=> e > m
      BY <1>1, <3>5, <3>10, StreamInReach, Compare, Zenon
    <3>12. Genuine(s) /\ ~s.fin /\ At(s) = a /\ a < To(s) /\ To(s) <= m /\ To(s) \in Nat
      <4>1. CASE e > m
        <5>1. s = CutAt(s2, SeqNo(m))
          BY <3>5, <3>9, <3>11, <4>1, SMTT(30)
        <5>2. At(s2) <= m /\ m <= DataTo(s2)
          BY <1>1, <3>6, <3>8, <4>1, SMTT(30)
        <5>3. Genuine(s) /\ ~s.fin /\ At(s) = At(s2) /\ To(s) = m
          BY <3>6, <3>8, <5>1, <5>2, Cut, SMTT(30)
        <5> QED
          BY <3>6, <3>8, <5>3
      <4>2. CASE ~(e > m)
        <5>1. s = s2
          BY <3>9, <3>11, <4>2, SMTT(30)
        <5>2. e <= m /\ e \in Nat
          BY <1>1, <3>5, <4>2
        <5> QED
          BY <2>1, <3>8, <3>10, <5>1, <5>2, SMTT(30)
      <4> QED
        BY <4>1, <4>2
    <3>13. Queue(rest, To(s), b)
      <4> DEFINE z == To(s)
      <4>1. z \in Nat /\ k < Len(q) => z <= At(q[k + 1])
        BY <3>12 DEF m, g
      <4>2. Queue(q, a1, b) /\ k <= Len(q) /\ (k < Len(q) => z <= At(q[k + 1]))
        BY <2>5, <3>12, <4>1
      <4>3. z \in Nat /\ a1 \in Nat
        BY <1>1, <3>12
      <4> HIDE DEF z
      <4>4. Queue(From(q, k + 1), z, b)
        BY <2>5, <4>2, <4>3, QueueRest
      <4> QED
        BY <4>4 DEF z, rest
    <3>14. To(s) <= b
      BY <3>4, <3>5, <3>12 DEF m
    <3> QED
      BY <3>12, <3>13, <3>14 DEF a
  <2> QED
    BY <1>2, <2>5, <2>6, <2>7
<1> QED
  BY <1>1, <1>6, <1>7

\* A segment put before the head of a list.
LEMMA Prepend ==
    ASSUME NEW T, NEW s \in T, NEW q \in Seq(T), NEW k \in 0 .. Len(q)
    PROVE  LET u == <<s>> \o SubSeq(q, 1, k)
           IN  /\ u \in Seq(T) /\ Len(u) = k + 1 /\ DOMAIN u = 1 .. k + 1
               /\ u[1] = s /\ \A i \in 1 .. k : u[i + 1] = q[i]
<1> DEFINE v == SubSeq(q, 1, k)
           u == <<s>> \o v
<1>1. Len(q) \in Nat /\ k \in Nat
  OBVIOUS
<1>2. v \in Seq(T) /\ Len(v) = k /\ \A i \in 1 .. k : v[i] = q[i]
  BY <1>1
<1> HIDE DEF v
<1>3. u \in Seq(T) /\ Len(u) = k + 1
  BY <1>1, <1>2
<1>4. u[1] = s
  BY <1>1, <1>2
<1>5. ASSUME NEW i \in 1 .. k
      PROVE  u[i + 1] = q[i]
  <2>1. u[i + 1] = v[i]
    BY <1>1, <1>2
  <2> QED
    BY <1>2, <2>1
<1>6. DOMAIN u = 1 .. k + 1
  <2> HIDE DEF u
  <2> QED
    BY <1>1, <1>3, SMTT(30)
<1> QED
  BY <1>3, <1>4, <1>5, <1>6 DEF v

\* The segment in order and the queued segments that follow it without a gap
\* are one stretch of the stream; what stays queued begins after another gap.
LEMMA ChainIs ==
    ASSUME NEW s, NEW rest, NEW b \in Nat
    PROVE  LET run == Adjacent(rest, End(s))
               taken == <<s>> \o SubSeq(rest, 1, run)
               data == Joined([i \in DOMAIN taken |-> taken[i].data])
               fin == \E i \in DOMAIN taken : taken[i].fin
               left == From(rest, run + 1)
           IN  /\ Genuine(s) /\ At(s) < To(s) /\ To(s) <= b /\ Queue(rest, To(s), b)
               /\ s.fin => rest = <<>>
               => \E t \in 1 .. Stream + 2 :
                      /\ At(s) < t /\ t <= b /\ End(Last(taken)) = SeqNo(t)
                      /\ Stretch(data, At(s)) /\ At(s) + Len(data) = IF fin THEN t - 1 ELSE t
                      /\ fin => t = Stream + 2 /\ left = <<>>
                      /\ ~fin => t <= Stream + 1
                      /\ Queue(left, t + 1, b)
<1> DEFINE run == Adjacent(rest, End(s))
           u == <<s>> \o SubSeq(rest, 1, run)
           data == Joined([i \in DOMAIN u |-> u[i].data])
           fin == \E i \in DOMAIN u : u[i].fin
           left == From(rest, run + 1)
           m == run + 1
           t == To(u[m])
           n == Len(rest)
           e == To(s)
<1> SUFFICES ASSUME Genuine(s), At(s) < e, e <= b, Queue(rest, e, b), s.fin => rest = <<>>
             PROVE  \E z \in 1 .. Stream + 2 :
                      /\ At(s) < z /\ z <= b /\ End(Last(u)) = SeqNo(z)
                      /\ Stretch(data, At(s)) /\ At(s) + Len(data) = IF fin THEN z - 1 ELSE z
                      /\ fin => z = Stream + 2 /\ left = <<>>
                      /\ ~fin => z <= Stream + 1
                      /\ Queue(left, z + 1, b)
  BY Zenon
<1>1. /\ rest \in Seq(Segments) /\ n \in Nat /\ s \in Segments
      /\ At(s) \in 1 .. Stream + 1 /\ e \in 1 .. Stream + 2 /\ End(s) = SeqNo(e) /\ Stream \in Nat
  BY QueueIsSeq, SegmentPlaces, StreamInReach, SMTT(30) DEF Genuine
<1>2. /\ run \in 0 .. n
      /\ run > 0 => At(rest[1]) = e
      /\ \A i \in 1 .. run : i > 1 => At(rest[i]) = To(rest[i - 1])
      /\ run < n => At(rest[run + 1]) # IF run = 0 THEN e ELSE To(rest[run])
  <2> HIDE DEF e
  <2>1. e \in Nat
    BY <1>1
  <2> QED
    BY <1>1, <2>1, AdjacentIs, SMTT(30)
<1> HIDE DEF run
<1>3. /\ u \in Seq(Segments) /\ Len(u) = m /\ DOMAIN u = 1 .. m
      /\ u[1] = s /\ \A i \in 1 .. run : u[i + 1] = rest[i]
  BY <1>1, <1>2, Prepend, SMTT(30)
<1>4. run \in Nat /\ m \in Nat \ {0} /\ m \in 1 .. m /\ 1 \in 1 .. m
  BY <1>1, <1>2
<1> HIDE DEF u
<1>5. ASSUME NEW i \in 1 .. m
      PROVE  (i = 1 /\ u[i] = s) \/ (\E j \in 1 .. run : i = j + 1 /\ u[i] = rest[j])
  <2>1. CASE i = 1
    BY <1>3, <2>1
  <2>2. CASE i # 1
    <3> DEFINE j == i - 1
    <3>1. j \in 1 .. run /\ i = j + 1
      BY <1>4, <2>2
    <3> QED
      BY <1>3, <3>1
  <2> QED
    BY <2>1, <2>2
<1>6. \A j \in 1 .. run : j \in 1 .. n
  BY <1>1, <1>2, SMTT(30)
<1>7. ASSUME NEW i \in 1 .. m
      PROVE  Genuine(u[i]) /\ At(u[i]) < To(u[i]) /\ To(u[i]) <= b /\ At(s) <= At(u[i])
  <2>1. CASE i = 1 /\ u[i] = s
    <3>1. At(s) <= At(s)
      BY <1>1
    <3> QED
      BY <2>1, <3>1
  <2>2. ASSUME NEW j \in 1 .. run, u[i] = rest[j]
        PROVE  Genuine(u[i]) /\ At(u[i]) < To(u[i]) /\ To(u[i]) <= b /\ At(s) <= At(u[i])
    <3> HIDE DEF e
    <3>1. e \in Nat /\ j \in 1 .. Len(rest)
      BY <1>1, <1>6
    <3>2. Genuine(rest[j]) /\ At(rest[j]) < To(rest[j]) /\ To(rest[j]) <= b /\ e <= At(rest[j])
      BY <3>1, QueueElement
    <3>3. At(rest[j]) \in 1 .. Stream + 1
      BY <3>2, SegmentPlaces
    <3>4. At(s) <= At(rest[j])
      BY <1>1, <3>2, <3>3
    <3> QED
      BY <2>2, <3>2, <3>4
  <2> QED
    BY <1>5, <2>1, <2>2, SMTT(30)
<1>8. ASSUME NEW i \in 1 .. m, u[i].fin
      PROVE  i = m /\ run = n
  <2>1. CASE i = 1 /\ u[i] = s
    <3>1. rest = <<>>
      BY <1>8, <2>1
    <3>2. n = 0
      BY <3>1
    <3>3. run = 0
      BY <1>2, <3>2
    <3> QED
      BY <2>1, <3>2, <3>3
  <2>2. ASSUME NEW j \in 1 .. run, i = j + 1, u[i] = rest[j]
        PROVE  i = m /\ run = n
    <3> HIDE DEF e
    <3>1. e \in Nat /\ j \in 1 .. Len(rest)
      BY <1>1, <1>6
    <3>2. j = n
      BY <1>8, <2>2, <3>1, QueueElement
    <3>3. run = n
      BY <1>1, <1>2, <3>2
    <3> QED
      BY <2>2, <3>2, <3>3, SMTT(30)
  <2> QED
    BY <1>5, <2>1, <2>2
<1>9. ASSUME NEW i \in 1 .. m, i < m
      PROVE  At(u[i + 1]) = At(u[i]) + Len(u[i].data)
  <2>1. i \in 1 .. run /\ i \in Nat /\ u[i + 1] = rest[i]
    BY <1>3, <1>4, <1>9
  <2>2. At(rest[i]) = To(u[i])
    <3>1. CASE i = 1
      BY <1>2, <1>3, <2>1, <3>1
    <3>2. CASE i # 1
      <4> DEFINE j == i - 1
      <4>1. j \in 1 .. run /\ i = j + 1 /\ i > 1
        BY <2>1, <3>2, <1>4
      <4>2. u[i] = rest[j]
        BY <1>3, <4>1
      <4>3. At(rest[i]) = To(rest[j])
        BY <1>2, <2>1, <4>1
      <4> QED
        BY <4>2, <4>3
    <3> QED
      BY <3>1, <3>2
  <2>3. ~u[i].fin
    BY <1>8, <1>9, <1>4
  <2>4. Genuine(u[i])
    BY <1>7, SMTT(30)
  <2>5. To(u[i]) = At(u[i]) + Len(u[i].data)
    BY <2>3, <2>4, SegmentPlaces, SMTT(30)
  <2> QED
    BY <2>1, <2>2, <2>5
<1>10. Stretch(data, At(s)) /\ At(s) + Len(data) = DataTo(u[m])
  <2> DEFINE qq == [i \in 1 .. m |-> u[i].data]
             bb == [i \in 1 .. m |-> At(u[i])]
  <2>1. data = Joined(qq)
    BY <1>3, SMTT(30)
  <2>2. ASSUME NEW i \in 1 .. m
        PROVE  u[i].data \in Seq(Nat) /\ Stretch(u[i].data, At(u[i])) /\ At(u[i]) \in Nat
    BY <1>7 DEF Genuine, Stretch
  <2>3. qq \in [1 .. m -> Seq(Nat)] /\ bb \in [1 .. m -> Nat]
    BY <2>2
  <2>4. \A i \in 1 .. m : Stretch(qq[i], bb[i])
    BY <2>2
  <2>5. \A i \in 1 .. m : i < m => bb[i + 1] = bb[i] + Len(qq[i])
    <3>1. \A i \in 1 .. m : i < m => i + 1 \in 1 .. m
      BY <1>4
    <3> QED
      BY <1>9, <3>1
  <2>6. bb[1] = At(s) /\ bb[m] = At(u[m]) /\ qq[m] = u[m].data
    BY <1>3, <1>4
  <2> HIDE DEF qq, bb, m, data
  <2>7. Stretch(Joined(qq), bb[1]) /\ bb[1] + Len(Joined(qq)) = bb[m] + Len(qq[m])
    BY <1>4, <2>3, <2>4, <2>5, JoinedStretch, Zenon
  <2> QED
    BY <2>1, <2>6, <2>7 DEF DataTo
<1>11. Genuine(u[m]) /\ At(u[m]) < t /\ t <= b /\ At(s) <= At(u[m])
  BY <1>4, <1>7, SMTT(30)
<1>12. /\ t \in 1 .. Stream + 2 /\ End(u[m]) = SeqNo(t) /\ At(u[m]) \in 1 .. Stream + 1
       /\ DataTo(u[m]) \in 1 .. Stream + 1
       /\ t = IF u[m].fin THEN DataTo(u[m]) + 1 ELSE DataTo(u[m])
       /\ u[m].fin => DataTo(u[m]) = Stream + 1
  BY <1>11, SegmentPlaces
<1>13. Last(u) = u[m]
  BY <1>3 DEF Last
<1>14. (fin <=> u[m].fin) /\ (fin => run = n)
  BY <1>3, <1>4, <1>8, SMTT(30)
<1>15. Len(left) = n - run /\ left \in Seq(Segments)
  <2>1. run \in Nat /\ run <= n
    BY <1>1, <1>2
  <2> QED
    BY <1>1, <2>1, Suffix
<1>16. run = n => left = <<>>
  <2> HIDE DEF left, n
  <2> QED
    BY <1>1, <1>15
<1>17. Queue(left, t + 1, b)
  <2>1. CASE run = n
    BY <1>16, <2>1, QueueEmpty
  <2>2. CASE run # n
    <3> DEFINE g == run + 1
               c == t + 1
    <3>1. run < n /\ g \in 1 .. n /\ run <= Len(rest)
      BY <1>1, <1>2, <2>2, SMTT(30)
    <3>2. e \in Nat /\ c \in Nat
      BY <1>1, <1>12
    <3>3. Genuine(rest[g]) /\ e <= At(rest[g])
      <4> HIDE DEF g, e
      <4> QED
        BY <3>1, <3>2, QueueElement
    <3>4. t <= At(rest[g]) /\ t # At(rest[g])
      <4>1. CASE run = 0
        <5>1. t = e
          BY <1>3, <4>1
        <5> QED
          BY <1>2, <3>1, <3>3, <4>1, <5>1
      <4>2. CASE run # 0
        <5>1. run \in 1 .. run /\ run \in 1 .. n /\ run < g
          BY <1>1, <1>2, <1>4, <4>2
        <5>2. u[m] = rest[run]
          BY <1>3, <5>1
        <5>3. To(rest[run]) <= At(rest[g])
          <6> HIDE DEF g
          <6> QED
            BY <3>1, <5>1, QueueOrder, SMTT(30)
        <5> QED
          BY <1>2, <3>1, <4>2, <5>2, <5>3, SMTT(30)
      <4> QED
        BY <4>1, <4>2
    <3>5. At(rest[g]) \in 1 .. Stream + 1
      BY <3>3, SegmentPlaces
    <3> HIDE DEF t
    <3>6. c <= At(rest[g])
      BY <1>12, <3>4, <3>5
    <3> HIDE DEF e, c
    <3>7. Queue(rest, e, b) /\ run <= Len(rest) /\ (run < Len(rest) => c <= At(rest[run + 1]))
      BY <3>1, <3>6
    <3>8. Queue(From(rest, run + 1), c, b)
      BY <1>4, <3>2, <3>7, QueueRest, SMTT(30)
    <3> QED
      BY <3>8 DEF c
  <2> QED
    BY <2>1, <2>2
<1> HIDE DEF t, data, fin, left
<1>18. At(s) < t
  BY <1>1, <1>11, <1>12
<1>19. At(s) + Len(data) = IF fin THEN t - 1 ELSE t
  BY <1>10, <1>12, <1>14, SMTT(30)
<1>20. (fin => t = Stream + 2) /\ (~fin => t <= Stream + 1)
  BY <1>1, <1>12, <1>14
<1> QED
  BY <1>10, <1>11, <1>12, <1>13, <1>14, <1>16, <1>17, <1>18, <1>19, <1>20, ZenonT(30)

\* The fields of the pcb that a step changes.
Advance(p, x, w, q, st) == [p EXCEPT !.rcv_nxt = x, !.rcv_wnd = w, !.ooseq = q, !.state = st]
Announce(p, w, d) == [[p EXCEPT !.rcv_ann_wnd = w] EXCEPT !.delayed = d]

\* rcv_nxt, rcv_wnd, ooseq and state change, and nothing else.
LEMMA PcbAdvance ==
    ASSUME NEW p \in Pcbs, NEW x \in 0 .. Space - 1, NEW w \in 0 .. TcpWnd,
           NEW q \in Seq(Segments), NEW st \in {"ESTABLISHED", "CLOSE_WAIT"}
    PROVE  LET r == Advance(p, x, w, q, st)
           IN  /\ r \in Pcbs /\ r.rcv_nxt = x /\ r.rcv_wnd = w /\ r.ooseq = q /\ r.state = st
               /\ r.rcv_ann_right_edge = p.rcv_ann_right_edge
BY Zenon DEF Pcbs, Advance

\* rcv_ann_wnd and the flag of the delayed acknowledgement change, and nothing
\* else.
LEMMA PcbAnnounce ==
    ASSUME NEW p \in Pcbs, NEW w \in 0 .. TcpWnd, NEW d \in BOOLEAN
    PROVE  LET r == Announce(p, w, d)
           IN  /\ r \in Pcbs /\ r.rcv_nxt = p.rcv_nxt /\ r.rcv_wnd = p.rcv_wnd
               /\ r.ooseq = p.ooseq /\ r.state = p.state
               /\ r.rcv_ann_right_edge = p.rcv_ann_right_edge /\ r.rcv_ann_wnd = w
BY ZenonT(30) DEF Pcbs, Announce

\* The types of the fields.
LEMMA PcbFields ==
    ASSUME NEW p \in Pcbs
    PROVE  /\ p.rcv_nxt \in 0 .. Space - 1 /\ p.rcv_wnd \in 0 .. TcpWnd /\ p.rcv_ann_wnd \in 0 .. TcpWnd
           /\ p.rcv_ann_right_edge \in 0 .. Space - 1 /\ p.ooseq \in Seq(Segments)
           /\ p.state \in {"ESTABLISHED", "CLOSE_WAIT"} /\ p.delayed \in BOOLEAN
BY DEF Pcbs

\* What tcp_receive does with the segment that is next in order: the bytes up
\* to position t go to the application, with the FIN if t is the end.
Taken(r, p, n, t) ==
    /\ r.fin \in BOOLEAN /\ r.now \in BOOLEAN
    /\ n < t /\ Receiver(r.pcb, t) /\ Announced(r.pcb, t)
    /\ t + r.pcb.rcv_wnd = n + p.rcv_wnd
    /\ r.pcb.rcv_ann_right_edge = p.rcv_ann_right_edge
    /\ r.pcb.state = IF r.fin THEN "CLOSE_WAIT" ELSE "ESTABLISHED"
    /\ Stretch(r.data, n) /\ n + Len(r.data) = IF r.fin THEN t - 1 ELSE t
    /\ r.fin => t = Stream + 2 /\ r.pcb.ooseq = <<>>
    /\ ~r.fin => t <= Stream + 1

\* In order, with all of the segment in the window.
LEMMA InOrderIs ==
    ASSUME NEW p, NEW n \in 1 .. Stream + 1, NEW s0
    PROVE  /\ Receiver(p, n) /\ p.state = "ESTABLISHED" /\ Edge(p) <= n + p.rcv_wnd
           /\ Genuine(s0) /\ Tcplen(s0) > 0 /\ At(s0) = n /\ To(s0) <= n + p.rcv_wnd
           => \E t \in 1 .. Stream + 2 : Taken(InOrder(p, s0), p, n, t)
<1> SUFFICES ASSUME Receiver(p, n), p.state = "ESTABLISHED", Edge(p) <= n + p.rcv_wnd,
                    Genuine(s0), Tcplen(s0) > 0, At(s0) = n, To(s0) <= n + p.rcv_wnd
             PROVE  \E t \in 1 .. Stream + 2 : Taken(InOrder(p, s0), p, n, t)
  OBVIOUS
<1> DEFINE covered == IF s0.fin THEN Len(p.ooseq) ELSE Covered(p.ooseq, End(s0))
           rest == From(p.ooseq, covered + 1)
           s == CoverTail([s0 EXCEPT !.fin = @ \/ \E i \in 1 .. covered : p.ooseq[i].fin], rest)
           run == Adjacent(rest, End(s))
           taken == <<s>> \o SubSeq(rest, 1, run)
           end == End(Last(taken))
           fin == \E i \in DOMAIN taken : taken[i].fin
           data == Joined([i \in DOMAIN taken |-> taken[i].data])
           left == From(rest, run + 1)
           wnd == p.rcv_wnd - Minus(end, p.rcv_nxt)
           st == IF fin THEN "CLOSE_WAIT" ELSE "ESTABLISHED"
           q0 == [p EXCEPT !.rcv_nxt = end, !.rcv_wnd = wnd, !.ooseq = left, !.state = st]
           q == UpdateAnnWnd(q0)
           pcb1 == [q EXCEPT !.delayed = ~p.delayed]
           r == InOrder(p, s0)
           W == p.rcv_wnd
           b == n + W
<1>1. p \in Pcbs /\ p.rcv_nxt = SeqNo(n) /\ Queue(p.ooseq, n + 1, b)
  BY DEF Receiver
<1>2. /\ W \in 0 .. TcpWnd /\ p.rcv_ann_right_edge \in 0 .. Space - 1 /\ p.delayed \in BOOLEAN
      /\ p.ooseq \in Seq(Segments)
  BY <1>1, PcbFields
<1>3. n \in 1 .. Stream + 2 /\ n \in Nat /\ b \in Nat /\ Stream \in Nat /\ TcpWnd \in Nat
  BY <1>2, StreamInReach
<1>4. TrimToWindow(p, s0) = s0
  BY <1>1, <1>2, <1>3, Uncut
<1>5. r = Result(pcb1, data, fin, p.delayed \/ fin)
  <2>1. p.state = "ESTABLISHED"
    OBVIOUS
  <2> QED
    BY <1>4, <2>1 DEF InOrder
<1> HIDE DEF r
<1>6. r.pcb = pcb1 /\ r.data = data /\ r.fin = fin /\ r.now = (p.delayed \/ fin)
  <2> HIDE DEF pcb1, data, fin
  <2> QED
    BY <1>5 DEF Result
<1> HIDE DEF b
<1>7. /\ Genuine(s) /\ At(s) = n /\ At(s) < To(s) /\ To(s) <= b
      /\ Queue(rest, To(s), b) /\ (s.fin => rest = <<>>)
  <2>1. Genuine(s0) /\ Tcplen(s0) > 0 /\ To(s0) <= b /\ Queue(p.ooseq, At(s0) + 1, b) /\ At(s0) = n
    BY <1>1, SMTT(30) DEF b
  <2> QED
    BY <1>3, <2>1, MergeIs
<1> HIDE DEF s, rest
<1>8. PICK t \in 1 .. Stream + 2 :
          /\ n < t /\ t <= b /\ end = SeqNo(t)
          /\ Stretch(data, n) /\ n + Len(data) = IF fin THEN t - 1 ELSE t
          /\ fin => t = Stream + 2 /\ left = <<>>
          /\ ~fin => t <= Stream + 1
          /\ Queue(left, t + 1, b)
  BY <1>3, <1>7, ChainIs, ZenonT(30)
<1> HIDE DEF run, taken, end, fin, data, left
<1>9. fin \in BOOLEAN
  BY DEF fin
<1>10. t \in Nat /\ Space \in Nat /\ Stream + TcpWnd + 2 <= Space /\ SeqNo(t) \in 0 .. Space - 1
  <2>1. Space \in Nat /\ 2 * Reach <= Space /\ Reach \in Nat
    BY SpaceFacts
  <2>2. t \in Nat /\ Stream + TcpWnd + 2 <= Space
    BY <1>3, <2>1 DEF Reach
  <2>3. t \in 0 .. Space
    BY <1>3, <2>1, <2>2, SMTT(30)
  <2> QED
    BY <2>1, <2>2, <2>3, SeqNoIs
<1>11. Minus(end, p.rcv_nxt) = t - n
  <2> HIDE DEF Space
  <2>1. t \in 0 .. Space /\ n \in 0 .. Space /\ t - n < Space /\ n - t < Space /\ t >= n
    BY <1>3, <1>8, <1>10
  <2> QED
    BY <1>1, <1>8, <2>1, MinusSeqNo
<1>12. wnd \in 0 .. TcpWnd /\ t + wnd = b
  <2>1. wnd = W - (t - n) /\ b = n + W
    BY <1>11 DEF b
  <2> HIDE DEF W, wnd
  <2> QED
    BY <1>2, <1>3, <1>8, <1>10, <2>1
<1>13. left \in Seq(Segments)
  BY <1>8, QueueIsSeq
<1> HIDE DEF wnd
<1>14. st \in {"ESTABLISHED", "CLOSE_WAIT"}
  OBVIOUS
<1> HIDE DEF st
<1>15. /\ q0 \in Pcbs /\ q0.rcv_nxt = SeqNo(t) /\ q0.rcv_wnd = wnd /\ q0.ooseq = left /\ q0.state = st
       /\ q0.rcv_ann_right_edge = p.rcv_ann_right_edge
  <2>1. end \in 0 .. Space - 1
    BY <1>8, <1>10, SMTT(30)
  <2>2. /\ q0 \in Pcbs /\ q0.rcv_nxt = end /\ q0.rcv_wnd = wnd /\ q0.ooseq = left /\ q0.state = st
        /\ q0.rcv_ann_right_edge = p.rcv_ann_right_edge
    <3>1. q0 = Advance(p, end, wnd, left, st)
      BY Zenon DEF Advance
    <3> HIDE DEF q0
    <3> QED
      BY <1>1, <1>12, <1>13, <1>14, <2>1, <3>1, PcbAdvance
  <2> QED
    BY <1>8, <2>2
<1> HIDE DEF q0
<1>16. Edge(q0) = Edge(p) /\ Edge(p) <= t + wnd
  BY <1>12, <1>15 DEF Edge, b
<1>17. PICK w \in 0 .. TcpWnd : q = [q0 EXCEPT !.rcv_ann_wnd = w] /\ w <= wnd /\ Edge(q0) <= t + w
  <2>1. /\ q0.rcv_nxt = SeqNo(t) /\ q0.rcv_wnd \in 0 .. TcpWnd
        /\ q0.rcv_ann_right_edge \in 0 .. Space - 1 /\ Edge(q0) <= t + q0.rcv_wnd
    BY <1>2, <1>12, <1>15, <1>16
  <2>2. \E w \in 0 .. TcpWnd : /\ UpdateAnnWnd(q0) = [q0 EXCEPT !.rcv_ann_wnd = w]
                               /\ w <= q0.rcv_wnd /\ Edge(q0) <= t + w
    <3> HIDE DEF Space
    <3> QED
      BY <2>1, UpdateAnnWndIs
  <2> QED
    BY <2>2, <1>15
<1>18. /\ pcb1 \in Pcbs /\ pcb1.rcv_nxt = SeqNo(t) /\ pcb1.rcv_wnd = wnd /\ pcb1.ooseq = left
       /\ pcb1.state = st /\ pcb1.rcv_ann_right_edge = p.rcv_ann_right_edge /\ pcb1.rcv_ann_wnd = w
  <2>1. (~p.delayed) \in BOOLEAN
    BY <1>2
  <2>2. pcb1 = Announce(q0, w, ~p.delayed)
    BY <1>17, Zenon DEF Announce
  <2> HIDE DEF pcb1
  <2>3. /\ pcb1 \in Pcbs /\ pcb1.rcv_nxt = q0.rcv_nxt /\ pcb1.rcv_wnd = q0.rcv_wnd
        /\ pcb1.ooseq = q0.ooseq /\ pcb1.state = q0.state
        /\ pcb1.rcv_ann_right_edge = q0.rcv_ann_right_edge /\ pcb1.rcv_ann_wnd = w
    BY <1>15, <2>1, <2>2, PcbAnnounce, ZenonT(30)
  <2> QED
    BY <1>15, <2>3
<1> HIDE DEF pcb1
<1>19. Receiver(pcb1, t)
  BY <1>8, <1>12, <1>18 DEF Receiver
<1>20. Announced(pcb1, t)
  BY <1>16, <1>17, <1>18, <1>15, SMTT(30) DEF Announced, Edge
<1>21. /\ n < t /\ Receiver(r.pcb, t) /\ Announced(r.pcb, t)
       /\ t + r.pcb.rcv_wnd = n + p.rcv_wnd
       /\ r.pcb.rcv_ann_right_edge = p.rcv_ann_right_edge
       /\ r.pcb.state = IF r.fin THEN "CLOSE_WAIT" ELSE "ESTABLISHED"
  BY <1>6, <1>8, <1>12, <1>18, <1>19, <1>20, SMTT(30) DEF b, st
<1>22. /\ Stretch(r.data, n) /\ n + Len(r.data) = IF r.fin THEN t - 1 ELSE t
       /\ r.fin => t = Stream + 2 /\ r.pcb.ooseq = <<>>
       /\ ~r.fin => t <= Stream + 1
  BY <1>6, <1>8, <1>18
<1>23. r.fin \in BOOLEAN /\ r.now \in BOOLEAN
  BY <1>2, <1>6, <1>9
<1> QED
  BY <1>21, <1>22, <1>23, Zenon DEF r, Taken
=============================================================================
