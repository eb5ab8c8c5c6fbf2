-------------------------- MODULE MctpBridgeProofs --------------------------
(***************************************************************************)
(* What MctpBridge promises, for every pair of packet sizes and every      *)
(* stream of packets on the two busses.                                    *)
(*                                                                         *)
(* A bus and the messages it is to forward are looked at apart from the    *)
(* rest: BusOK takes them as parameters, and holds again after a message   *)
(* joins them, after the bus has sent some packets of the one that is      *)
(* pending, and after a step that is about the other bus.                  *)
(*                                                                         *)
(* The last part is about the contexts the busses share: what a context    *)
(* holds came on the one bus that has packets of its key, and in order.    *)
(***************************************************************************)
EXTENDS MctpBridge, Integers, TLAPS

Among(rcv) == {rcv[j] : j \in 1..Len(rcv)}

Before(rcv, v, w) ==
  \E i, j \in 1..Len(rcv) : /\ rcv[i] = v.msg /\ rcv[j] = w.msg
                            /\ (i < j) \/ (i = j /\ v.k < w.k)

\* The first n packets of m are among w.
HasLeft(w, m, n) ==
  \A k \in 1..n : \E i \in 1..Len(w) : w[i] = [msg |-> m, k |-> k]

WirePackets == [msg : Messages, k : Nat]

InOrder(rcv, w) ==
  \A i \in 1..Len(w) : w[i].msg \in Among(rcv) /\ (i > 1 => Before(rcv, w[i-1], w[i]))

\* m is pending, and left packets of it are not dealt with.
PendingOK(d, rcv, w, m, left, spo) ==
  m # NoMessage =>
    /\ m \in Among(rcv)
    /\ left \in 1..PacketCount(d, m)
    /\ w # <<>> => Before(rcv, w[Len(w)], [msg |-> m, k |-> PacketCount(d, m) - left + 1])
    /\ m \notin spo => HasLeft(w, m, PacketCount(d, m) - left)

FatesOK(d, rcv, w, m, fin, ref, spo) ==
  \A x \in Among(rcv) : /\ x \in ref <=> (x \notin fin /\ m # x)
                        /\ x \in fin => m # x
                        /\ x \in fin \ spo => HasLeft(w, x, PacketCount(d, x))

\* Bus d: the messages rcv it was to send, the packets w it has sent, the message
\* that is pending, and the messages that were finished, refused or spoilt.
BusOK(d, rcv, w, m, left, fin, ref, spo) ==
  /\ InOrder(rcv, w)
  /\ PendingOK(d, rcv, w, m, left, spo)
  /\ FatesOK(d, rcv, w, m, fin, ref, spo)

-----------------------------------------------------------------------------
\* Integer division: the quotient is at least one when the divisor fits once.
LEMMA QuotientIsPositive ==
  ASSUME NEW a \in Nat, NEW n \in Nat \ {0}, a >= n
  PROVE  a \div n \in Nat \ {0}
<1>1. PICK q \in Int : q = a \div n
  OBVIOUS
<1>2. a = n * q + (a % n) /\ a % n \in 0..(n - 1)
  BY <1>1, SMT
<1>3. q >= 1
  <2>1. SUFFICES ASSUME q <= 0 PROVE FALSE
    BY <1>1
  <2>2. n * q <= 0
    BY <2>1
  <2> QED
    BY <1>2, <2>2
<1> QED
  BY <1>1, <1>3

\* Every message, the empty one included, takes at least one packet.
LEMMA PacketCountFacts ==
  ASSUME NEW d \in Busses, NEW m \in Messages
  PROVE  PacketCount(d, m) \in Nat \ {0}
<1>1. m.len \in Nat /\ PktPayload[d] \in Nat \ {0}
  BY BridgeAssumption, Zenon DEF Messages
<1>2. CASE m.len = 0
  BY <1>2 DEF PacketCount
<1>3. CASE m.len # 0
  <2>1. PICK a \in Nat, n \in Nat \ {0} : n = PktPayload[d] /\ a = m.len + n - 1 /\ a >= n
    BY <1>1, <1>3
  <2> QED
    BY <2>1, <1>3, QuotientIsPositive, Zenon DEF PacketCount
<1> QED
  BY <1>2, <1>3, Zenon

\* Each bus is the other one's other.
LEMMA OtherFacts ==
  ASSUME NEW b \in Busses
  PROVE  Other(b) \in Busses /\ Other(b) # b /\ Other(Other(b)) = b
BY DEF Busses, Other

\* What a bus sends follows what it has sent.
LEMMA ConcatFacts ==
  ASSUME NEW S, NEW s \in Seq(S), NEW t \in Seq(S)
  PROVE  /\ s \o t \in Seq(S)
         /\ Len(s \o t) = Len(s) + Len(t)
         /\ \A i \in 1..Len(s) : (s \o t)[i] = s[i]
         /\ \A i \in 1..Len(t) : (s \o t)[Len(s) + i] = t[i]
OBVIOUS

\* The packets mctp_send_tx_queue hands to the binding are numbered on.
LEMMA NextPacketsFacts ==
  ASSUME NEW d \in Busses, NEW m \in Messages, NEW left \in Nat,
         left <= PacketCount(d, m), NEW n \in 0..left
  PROVE  /\ NextPackets(d, m, left, n) \in Seq(WirePackets)
         /\ Len(NextPackets(d, m, left, n)) = n
         /\ \A i \in 1..n : NextPackets(d, m, left, n)[i]
                              = [msg |-> m, k |-> PacketCount(d, m) - left + i]
<1>1. PICK c \in Nat : c = PacketCount(d, m)
  BY PacketCountFacts, Zenon
<1>2. \A i \in 1..n : [msg |-> m, k |-> c - left + i] \in WirePackets
  BY <1>1 DEF WirePackets
<1>3. [i \in 1..n |-> [msg |-> m, k |-> c - left + i]] \in [1..n -> WirePackets]
  BY <1>2, Zenon
<1>4. n \in Nat
  OBVIOUS
<1> QED
  BY <1>1, <1>3, <1>4 DEF NextPackets

-----------------------------------------------------------------------------
\* One more message does not change the order of those before it.
LEMMA AppendFacts ==
  ASSUME NEW rcv \in Seq(Messages), NEW m \in Messages
  PROVE  /\ Append(rcv, m) \in Seq(Messages)
         /\ Among(Append(rcv, m)) = Among(rcv) \cup {m}
         /\ \A v, w : Before(rcv, v, w) => Before(Append(rcv, m), v, w)
         /\ \A v : v.msg \in Among(rcv) =>
              \A k : Before(Append(rcv, m), v, [msg |-> m, k |-> k])
<1> DEFINE r == Append(rcv, m)
<1>1. PICK n \in Nat : n = Len(rcv)
  OBVIOUS
<1>2. /\ r \in Seq(Messages) /\ Len(r) = n + 1 /\ r[n + 1] = m
      /\ \A i \in 1..n : r[i] = rcv[i]
  BY <1>1
<1> HIDE DEF r
<1>3. Among(r) = Among(rcv) \cup {m}
  <2>1. \A i \in 1..(n + 1) : i \in 1..n \/ i = n + 1
    OBVIOUS
  <2>2. \A i \in 1..n : i \in 1..(n + 1)
    OBVIOUS
  <2>3. n + 1 \in 1..(n + 1)
    OBVIOUS
  <2> QED
    BY <1>1, <1>2, <2>1, <2>2, <2>3, Zenon DEF Among
<1>4. \A v, w : Before(rcv, v, w) => Before(r, v, w)
  <2>1. \A i \in 1..n : i \in 1..(n + 1)
    OBVIOUS
  <2> QED
    BY <1>1, <1>2, <2>1 DEF Before
<1>5. ASSUME NEW v, v.msg \in Among(rcv), NEW k
      PROVE  Before(r, v, [msg |-> m, k |-> k])
  <2>1. PICK i \in 1..n : rcv[i] = v.msg
    BY <1>1, <1>5, Zenon DEF Among
  <2>2. i \in 1..(n + 1) /\ n + 1 \in 1..(n + 1) /\ i < n + 1
    OBVIOUS
  <2> QED
    BY <1>2, <2>1, <2>2, Zenon DEF Before
<1> QED
  BY <1>2, <1>3, <1>4, <1>5, Zenon DEF r

\* A step that is about messages of the other bus leaves this one as it is.
LEMMA FrameOK ==
  ASSUME NEW d \in Busses, NEW rcv, NEW w, NEW m, NEW left,
         NEW fin, NEW ref, NEW spo, NEW fin2, NEW ref2, NEW spo2,
         BusOK(d, rcv, w, m, left, fin, ref, spo),
         \A x \in Among(rcv) : /\ x \in fin2 <=> x \in fin
                               /\ x \in ref2 <=> x \in ref
                               /\ x \in spo2 <=> x \in spo
  PROVE  BusOK(d, rcv, w, m, left, fin2, ref2, spo2)
<1>1. PendingOK(d, rcv, w, m, left, spo2)
  BY Zenon DEF BusOK, PendingOK
<1>2. FatesOK(d, rcv, w, m, fin2, ref2, spo2)
  BY Zenon DEF BusOK, FatesOK
<1> QED
  BY <1>1, <1>2, Zenon DEF BusOK

\* mctp_message_tx_on_bus frees a new message, or does not get a copy of it.
LEMMA RefuseOK ==
  ASSUME NEW d \in Busses, NEW rcv \in Seq(Messages), NEW w, NEW p, NEW left,
         NEW fin, NEW ref, NEW spo, NEW m \in Messages,
         BusOK(d, rcv, w, p, left, fin, ref, spo),
         m \notin Among(rcv), m \notin fin
  PROVE  BusOK(d, Append(rcv, m), w, p, left, fin, ref \cup {m}, spo)
<1> DEFINE r == Append(rcv, m)
<1>1. Among(r) = Among(rcv) \cup {m} /\ \A v, x : Before(rcv, v, x) => Before(r, v, x)
  BY AppendFacts, Zenon
<1> HIDE DEF r
<1>2. InOrder(r, w)
  BY <1>1, Zenon DEF BusOK, InOrder
<1>3. PendingOK(d, r, w, p, left, spo)
  BY <1>1, Zenon DEF BusOK, PendingOK
<1>4. m # p
  BY BridgeAssumption, Zenon DEF BusOK, PendingOK
<1>5. FatesOK(d, r, w, p, fin, ref \cup {m}, spo)
  BY <1>1, <1>4 DEF BusOK, FatesOK
<1> QED
  BY <1>2, <1>3, <1>5, Zenon DEF BusOK, r

\* mctp_message_tx_on_bus takes a new message while nothing is pending.
LEMMA QueueOK ==
  ASSUME NEW d \in Busses, NEW rcv \in Seq(Messages), NEW w \in Seq(WirePackets),
         NEW left, NEW fin, NEW ref, NEW spo, NEW m \in Messages,
         BusOK(d, rcv, w, NoMessage, left, fin, ref, spo),
         m \notin Among(rcv), m \notin fin, m \notin ref
  PROVE  BusOK(d, Append(rcv, m), w, m, PacketCount(d, m), fin, ref, spo)
<1> DEFINE r == Append(rcv, m)
<1>1. /\ Among(r) = Among(rcv) \cup {m}
      /\ \A v, x : Before(rcv, v, x) => Before(r, v, x)
      /\ \A v : v.msg \in Among(rcv) => \A k : Before(r, v, [msg |-> m, k |-> k])
  BY AppendFacts, Zenon
<1> HIDE DEF r
<1>2. InOrder(r, w)
  BY <1>1, Zenon DEF BusOK, InOrder
<1>3. PICK c \in Nat \ {0} : c = PacketCount(d, m)
  BY PacketCountFacts, Zenon
<1>4. w # <<>> => w[Len(w)].msg \in Among(rcv)
  BY DEF BusOK, InOrder
<1>5. PendingOK(d, r, w, m, c, spo)
  <2>1. c \in 1..c /\ c - c = 0
    OBVIOUS
  <2>2. HasLeft(w, m, 0)
    BY DEF HasLeft
  <2> QED
    BY <1>1, <1>3, <1>4, <2>1, <2>2, Zenon DEF PendingOK
<1>6. FatesOK(d, r, w, m, fin, ref, spo)
  <2>1. NoMessage \notin Among(rcv)
    <3>1. \A i \in 1..Len(rcv) : rcv[i] \in Messages
      OBVIOUS
    <3> QED
      BY <3>1, BridgeAssumption, Zenon DEF Among
  <2> QED
    BY <1>1, <2>1, Zenon DEF BusOK, FatesOK
<1> QED
  BY <1>2, <1>3, <1>5, <1>6, Zenon DEF BusOK, r

\* The order on the wire after n packets of the pending message.
LEMMA SendInOrder ==
  ASSUME NEW d \in Busses, NEW rcv \in Seq(Messages), NEW w \in Seq(WirePackets),
         NEW m \in Messages, NEW left \in 1..PacketCount(d, m), NEW spo,
         InOrder(rcv, w), PendingOK(d, rcv, w, m, left, spo), NEW n \in 0..left
  PROVE  InOrder(rcv, w \o NextPackets(d, m, left, n))
<1> DEFINE t == NextPackets(d, m, left, n)
           w2 == w \o t
<1>0. PICK c \in Nat : c = PacketCount(d, m) /\ left \in Nat /\ left <= c /\ n \in Nat
  BY PacketCountFacts
<1>1. PICK a \in Nat : a = Len(w)
  OBVIOUS
<1>2. /\ t \in Seq(WirePackets) /\ Len(t) = n
      /\ \A i \in 1..n : t[i] = [msg |-> m, k |-> c - left + i]
  BY <1>0, NextPacketsFacts, Zenon
<1> HIDE DEF t
<1>3. /\ Len(w2) = a + n
      /\ \A i \in 1..a : w2[i] = w[i]
      /\ \A i \in 1..n : w2[a + i] = [msg |-> m, k |-> c - left + i]
  <2>0. PICK S : S = WirePackets /\ w \in Seq(S) /\ t \in Seq(S)
    BY <1>2, Zenon
  <2>1. /\ w2 \in Seq(WirePackets) /\ Len(w2) = Len(w) + Len(t)
        /\ \A i \in 1..Len(w) : w2[i] = w[i]
        /\ \A i \in 1..Len(t) : w2[Len(w) + i] = t[i]
    BY <2>0, ConcatFacts
  <2> HIDE DEF w2
  <2> QED
    BY <1>1, <1>2, <2>1, Zenon
<1> HIDE DEF w2
<1>4. m # NoMessage
  BY BridgeAssumption, Zenon
<1>5. PICK h \in 1..Len(rcv) : rcv[h] = m
  BY <1>4, Zenon DEF PendingOK, Among
<1>6. SUFFICES ASSUME NEW i \in 1..(a + n)
               PROVE  w2[i].msg \in Among(rcv) /\ (i > 1 => Before(rcv, w2[i-1], w2[i]))
  BY <1>3, Zenon DEF InOrder, w2, t
<1>7. CASE i \in 1..a
  <2>1. i > 1 => i - 1 \in 1..a
    BY <1>7
  <2> QED
    BY <1>1, <1>3, <1>7, <2>1, Zenon DEF InOrder
<1>8. CASE i = a + 1 /\ n > 0
  <2>1. w2[i] = [msg |-> m, k |-> c - left + 1]
    <3>1. 1 \in 1..n
      BY <1>0, <1>8
    <3>2. w2[a + 1] = [msg |-> m, k |-> c - left + 1]
      BY <1>3, <3>1, Zenon
    <3> QED
      BY <1>8, <3>2, Zenon
  <2>2. m \in Among(rcv)
    BY <1>4, Zenon DEF PendingOK
  <2>3. i > 1 => w # <<>> /\ w2[i-1] = w[Len(w)]
    BY <1>1, <1>3, <1>8
  <2> QED
    BY <1>0, <1>4, <2>1, <2>2, <2>3 DEF PendingOK
<1>9. CASE i > a + 1
  <2>1. PICK j \in 2..n : i = a + j
    <3>1. i - a \in 2..n /\ i = a + (i - a)
      BY <1>9
    <3> QED
      BY <3>1, Zenon
  <2>2. PICK g \in 1..n : g = j - 1 /\ i - 1 = a + g
    BY <2>1
  <2>3. w2[i] = [msg |-> m, k |-> c - left + j]
    BY <1>3, <2>1
  <2>4. w2[i-1] = [msg |-> m, k |-> c - left + g]
    BY <1>3, <2>2, Zenon
  <2>5. c - left + g < c - left + j
    BY <2>2
  <2>6. m \in Among(rcv)
    BY <1>4, Zenon DEF PendingOK
  <2>7. Before(rcv, w2[i-1], w2[i])
    BY <1>5, <2>3, <2>4, <2>5 DEF Before
  <2> QED
    BY <2>3, <2>6, <2>7
<1> QED
  BY <1>7, <1>8, <1>9

\* What of the pending message is on the wire after n more packets.
LEMMA SendLeaves ==
  ASSUME NEW d \in Busses, NEW w \in Seq(WirePackets),
         NEW m \in Messages, NEW left \in 1..PacketCount(d, m), NEW n \in 0..left
  PROVE  LET w2 == w \o NextPackets(d, m, left, n) IN
         /\ w2 \in Seq(WirePackets)
         /\ \A x, k : HasLeft(w, x, k) => HasLeft(w2, x, k)
         /\ HasLeft(w, m, PacketCount(d, m) - left)
              => HasLeft(w2, m, PacketCount(d, m) - left + n)
         /\ n = 0 => w2 = w
         /\ n > 0 => /\ w2 # <<>>
                     /\ w2[Len(w2)] = [msg |-> m, k |-> PacketCount(d, m) - left + n]
<1> DEFINE t == NextPackets(d, m, left, n)
           w2 == w \o t
<1>0. PICK c \in Nat : c = PacketCount(d, m) /\ left \in Nat /\ left <= c /\ n \in Nat
  BY PacketCountFacts
<1>1. PICK a \in Nat : a = Len(w)
  OBVIOUS
<1>2. /\ t \in Seq(WirePackets) /\ Len(t) = n
      /\ \A i \in 1..n : t[i] = [msg |-> m, k |-> c - left + i]
  BY <1>0, NextPacketsFacts, Zenon
<1>3. n = 0 => w2 = w
  <2> HIDE DEF t
  <2> QED
    BY <1>2
<1> HIDE DEF t
<1>4. /\ w2 \in Seq(WirePackets) /\ Len(w2) = a + n
      /\ \A i \in 1..a : w2[i] = w[i]
      /\ \A i \in 1..n : w2[a + i] = [msg |-> m, k |-> c - left + i]
  <2>0. PICK S : S = WirePackets /\ w \in Seq(S) /\ t \in Seq(S)
    BY <1>2, Zenon
  <2>1. /\ w2 \in Seq(WirePackets) /\ Len(w2) = Len(w) + Len(t)
        /\ \A i \in 1..Len(w) : w2[i] = w[i]
        /\ \A i \in 1..Len(t) : w2[Len(w) + i] = t[i]
    BY <2>0, ConcatFacts
  <2> HIDE DEF w2
  <2> QED
    BY <1>1, <1>2, <2>1, Zenon
<1> HIDE DEF w2
<1>5. \A x, k : HasLeft(w, x, k) => HasLeft(w2, x, k)
  <2>1. \A i \in 1..a : i \in 1..(a + n)
    OBVIOUS
  <2> QED
    BY <1>1, <1>4, <2>1, Zenon DEF HasLeft
<1>6. ASSUME HasLeft(w, m, c - left) PROVE HasLeft(w2, m, c - left + n)
  <2> SUFFICES ASSUME NEW k \in 1..(c - left + n)
               PROVE  \E i \in 1..(a + n) : w2[i] = [msg |-> m, k |-> k]
    BY <1>4, Zenon DEF HasLeft
  <2>1. CASE k <= c - left
    <3>1. k \in 1..(c - left)
      BY <2>1, <1>0
    <3>2. PICK i \in 1..a : w[i] = [msg |-> m, k |-> k]
      BY <1>1, <1>6, <3>1, Zenon DEF HasLeft
    <3> QED
      BY <1>4, <3>2
  <2>2. CASE k > c - left
    <3>1. PICK j \in 1..n : k = c - left + j
      <4>1. PICK e \in Nat : e = c - left
        BY <1>0
      <4>2. k \in 1..(e + n) /\ k > e
        BY <2>2, <4>1, Zenon
      <4>3. PICK j \in Nat : j = k - e
        BY <4>2
      <4>4. j \in 1..n /\ k = e + j
        BY <1>0, <4>2, <4>3
      <4> QED
        BY <4>1, <4>4, Zenon
    <3>2. a + j \in 1..(a + n)
      OBVIOUS
    <3> QED
      BY <1>4, <3>1, <3>2, Zenon
  <2> QED
    BY <2>1, <2>2, <1>0
<1>7. n > 0 => w2 # <<>> /\ w2[Len(w2)] = [msg |-> m, k |-> c - left + n]
  <2>1. n > 0 => n \in 1..n /\ Len(w2) > 0
    BY <1>0, <1>4
  <2> QED
    BY <1>4, <2>1
<1> QED
  BY <1>0, <1>3, <1>4, <1>5, <1>6, <1>7, Zenon DEF w2, t

\* mctp_send_tx_queue: after n packets of the pending message it ends, or the
\* binding is busy, or the next packet is dropped as well.
LEMMA SendOK ==
  ASSUME NEW d \in Busses, NEW rcv \in Seq(Messages), NEW w \in Seq(WirePackets),
         NEW m \in Messages, NEW left, NEW fin, NEW ref, NEW spo,
         BusOK(d, rcv, w, m, left, fin, ref, spo), NEW n \in 0..left
  PROVE  LET w2 == w \o NextPackets(d, m, left, n) IN
         /\ w2 \in Seq(WirePackets)
         /\ n = left => BusOK(d, rcv, w2, NoMessage, 0, fin \cup {m}, ref, spo)
         /\ n < left => BusOK(d, rcv, w2, m, left - n, fin, ref, spo)
         /\ n < left - 1 => BusOK(d, rcv, w2, m, left - n - 1, fin, ref, spo \cup {m})
         /\ n = left - 1 => BusOK(d, rcv, w2, NoMessage, 0, fin \cup {m}, ref, spo \cup {m})
<1> DEFINE w2 == w \o NextPackets(d, m, left, n)
<1>1. m # NoMessage
  BY BridgeAssumption, Zenon
<1>2. PICK c \in Nat \ {0} : c = PacketCount(d, m) /\ left \in 1..c /\ n \in Nat
  BY <1>1, PacketCountFacts DEF BusOK, PendingOK
<1>3. InOrder(rcv, w2)
  BY <1>2, SendInOrder, Zenon DEF BusOK
<1>4. /\ w2 \in Seq(WirePackets)
      /\ \A x, k : HasLeft(w, x, k) => HasLeft(w2, x, k)
      /\ HasLeft(w, m, c - left) => HasLeft(w2, m, c - left + n)
      /\ n = 0 => w2 = w
      /\ n > 0 => w2 # <<>> /\ w2[Len(w2)] = [msg |-> m, k |-> c - left + n]
  BY <1>2, SendLeaves
<1> HIDE DEF w2
<1>5. m \in Among(rcv) /\ (m \notin spo => HasLeft(w, m, c - left))
  BY <1>1, <1>2, Zenon DEF BusOK, PendingOK
<1>6. NoMessage \notin Among(rcv)
  <2>1. \A i \in 1..Len(rcv) : rcv[i] \in Messages
    OBVIOUS
  <2> QED
    BY <2>1, BridgeAssumption, Zenon DEF Among
<1>7. ASSUME NEW k \in Nat, k > c - left + n, w2 # <<>>
      PROVE  Before(rcv, w2[Len(w2)], [msg |-> m, k |-> k])
  <2>1. PICK h \in 1..Len(rcv) : rcv[h] = m
    BY <1>5, Zenon DEF Among
  <2>2. CASE n > 0
    BY <1>4, <1>7, <2>1, <2>2 DEF Before
  <2>3. CASE n = 0
    <3>1. w # <<>> /\ Before(rcv, w[Len(w)], [msg |-> m, k |-> c - left + 1])
      BY <1>1, <1>2, <1>4, <1>7, <2>3, Zenon DEF BusOK, PendingOK
    <3>2. PICK v : v = w[Len(w)] /\ v.k \in Nat
      <4>1. w[Len(w)] \in WirePackets
        BY <3>1
      <4> QED
        BY <4>1, Zenon DEF WirePackets
    <3>3. PICK i, j \in 1..Len(rcv) : /\ rcv[i] = v.msg /\ rcv[j] = m
                                      /\ (i < j) \/ (i = j /\ v.k < c - left + 1)
      BY <3>1, <3>2, Zenon DEF Before
    <3>4. (i < j) \/ (i = j /\ v.k < k)
      BY <1>2, <1>7, <2>3, <3>2, <3>3
    <3> QED
      BY <1>4, <2>3, <3>2, <3>3, <3>4, Zenon DEF Before
  <2> QED
    BY <1>2, <2>2, <2>3
<1>8. ASSUME NEW s, s = spo \/ s = spo \cup {m}, m \notin s => HasLeft(w2, m, c)
      PROVE  BusOK(d, rcv, w2, NoMessage, 0, fin \cup {m}, ref, s)
  <2>1. FatesOK(d, rcv, w2, NoMessage, fin \cup {m}, ref, s)
    BY <1>2, <1>4, <1>6, <1>8, Zenon DEF BusOK, FatesOK
  <2> QED
    BY <1>3, <2>1, Zenon DEF BusOK, PendingOK
<1>9. ASSUME NEW s, s = spo \/ s = spo \cup {m}, NEW l \in 1..c, l <= left - n,
             m \notin s => HasLeft(w2, m, c - l)
      PROVE  BusOK(d, rcv, w2, m, l, fin, ref, s)
  <2>1. FatesOK(d, rcv, w2, m, fin, ref, s)
    BY <1>4, <1>9, Zenon DEF BusOK, FatesOK
  <2>2. PICK k \in Nat : k = c - l + 1 /\ k > c - left + n
    BY <1>2, <1>9
  <2>3. PendingOK(d, rcv, w2, m, l, s)
    BY <1>2, <1>5, <1>7, <1>9, <2>2, Zenon DEF PendingOK
  <2> QED
    BY <1>3, <2>1, <2>3, Zenon DEF BusOK
<1>10. ASSUME n = left PROVE BusOK(d, rcv, w2, NoMessage, 0, fin \cup {m}, ref, spo)
  <2>1. c - left + n = c
    BY <1>2, <1>10
  <2> QED
    BY <1>4, <1>5, <1>8, <2>1, Zenon
<1>11. ASSUME n < left PROVE BusOK(d, rcv, w2, m, left - n, fin, ref, spo)
  <2>1. PICK l \in 1..c : l = left - n /\ l <= left - n /\ c - l = c - left + n
    BY <1>2, <1>11
  <2> QED
    BY <1>4, <1>5, <1>9, <2>1, Zenon
<1>12. ASSUME n < left - 1
       PROVE  BusOK(d, rcv, w2, m, left - n - 1, fin, ref, spo \cup {m})
  <2>1. PICK l \in 1..c : l = left - n - 1 /\ l <= left - n
    BY <1>2, <1>12
  <2> QED
    BY <1>9, <2>1, Zenon
<1>13. BusOK(d, rcv, w2, NoMessage, 0, fin \cup {m}, ref, spo \cup {m})
  BY <1>8, Zenon
<1> QED
  BY <1>4, <1>10, <1>11, <1>12, <1>13, Zenon DEF w2

-----------------------------------------------------------------------------
RxStep(p) ==
  \/ Rx(p.dest)!RxIgnored(p) \/ Rx(p.dest)!RxSingle(p)
  \/ Rx(p.dest)!RxRestart(p) \/ Rx(p.dest)!RxStart(p)
  \/ Rx(p.dest)!RxMiddle(p) \/ Rx(p.dest)!RxEnd(p) \/ Rx(p.dest)!RxStray(p)

CtxsOK == msg_ctxs \in [1..Ctxs -> Rx(0)!Ctx]

\* A context with one more packet.
LEMMA AddFacts ==
  ASSUME NEW ctx \in Rx(0)!Ctx, NEW p \in Packets, p.size >= 4
  PROVE  /\ Append(ctx.buf, p) \in Seq(Packets)
         /\ Append(ctx.buf, p) # <<>>
         /\ Append(ctx.buf, p)[Len(Append(ctx.buf, p))] = p
         /\ ctx.buf_size + (p.size - 4) \in Nat
         /\ Rx(p.dest)!mctp_msg_ctx_add_pkt(ctx, p) \in Rx(0)!Ctx
<1>1. ctx.buf \in Seq(Packets) /\ ctx.buf_size \in Nat /\ p.size \in Nat
  BY BridgeAssumption, Zenon DEF Rx!Ctx
<1>2. PICK b \in Seq(Packets) : b = ctx.buf
  BY <1>1, Zenon
<1>3. /\ Append(b, p) \in Seq(Packets) /\ Append(b, p) # <<>>
      /\ Append(b, p)[Len(Append(b, p))] = p
  OBVIOUS
<1>4. ctx.buf_size + (p.size - 4) \in Nat
  BY <1>1
<1>5. Rx(p.dest)!mctp_msg_ctx_add_pkt(ctx, p)
        = [ctx EXCEPT !.buf = Append(b, p), !.buf_size = ctx.buf_size + (p.size - 4)]
  BY <1>2, Zenon DEF Rx!mctp_msg_ctx_add_pkt, Rx!PayloadLen, Rx!HdrSize
<1>6. Rx(p.dest)!mctp_msg_ctx_add_pkt(ctx, p) \in Rx(0)!Ctx
  BY <1>3, <1>4, <1>5, Zenon DEF Rx!Ctx
<1> QED
  BY <1>2, <1>3, <1>4, <1>6, Zenon

\* mctp_bus_rx gives up a message only with its last packet.
LEMMA RxFacts ==
  ASSUME CtxsOK, NEW p \in Packets, RxStep(p)
  PROVE  /\ CtxsOK'
         /\ \/ rx' = <<>>
            \/ \E m \in Messages : /\ rx' = <<m>> /\ m.buf # <<>>
                                   /\ m.buf[Len(m.buf)] = p
<1> DEFINE C == Rx(0)!Ctx
<1>0. /\ p.src \in Nat /\ p.dest \in Nat /\ p.tag \in Nat /\ p.to \in BOOLEAN
      /\ p.size \in Nat /\ p.seq \in 0..3 /\ MaxMessageSize \in Nat
  BY BridgeAssumption, Zenon
<1>1. Rx(p.dest)!FreeCtx \in C
  BY DEF Rx!Ctx, Rx!FreeCtx
<1>2. ASSUME NEW i \in 1..Ctxs, NEW ctx \in C, Rx(p.dest)!SetCtx(i, ctx)
      PROVE  CtxsOK'
  BY <1>2, Zenon DEF CtxsOK, Rx!SetCtx
<1>3. Rx(p.dest)!Accepted(p) => p.size >= 4
  BY Zenon DEF Rx!Accepted, Rx!HdrSize
<1>4. ASSUME NEW ctx \in C, p.size >= 4
      PROVE  Rx(p.dest)!Started(ctx, p) \in C
  <2>1. PICK a \in C : a = Rx(p.dest)!mctp_msg_ctx_add_pkt(ctx, p)
    BY <1>4, AddFacts, Zenon
  <2>2. [a EXCEPT !.fragment_size = p.size, !.last_seq = p.seq] \in C
    BY <1>0, Zenon DEF Rx!Ctx
  <2> QED
    BY <1>1, <2>1, <2>2, Zenon DEF Rx!Started
<1>5. \A i \in Rx(p.dest)!mctp_msg_ctx_lookup(p) : i \in 1..Ctxs
  BY Zenon DEF Rx!mctp_msg_ctx_lookup, Rx!Slots
<1>6. CASE Rx(p.dest)!RxIgnored(p) \/ Rx(p.dest)!RxStray(p)
  BY <1>6, Zenon DEF CtxsOK, Rx!RxIgnored, Rx!RxStray
<1>7. CASE Rx(p.dest)!RxSingle(p)
  <2>1. p.size >= 4 /\ UNCHANGED msg_ctxs
    BY <1>3, <1>7, Zenon DEF Rx!RxSingle
  <2>2. PICK m : m = Rx(p.dest)!Message(p, <<p>>, Rx(p.dest)!PayloadLen(p))
    BY Zenon
  <2>3. m \in Messages /\ m.buf # <<>> /\ m.buf[Len(m.buf)] = p
    BY <1>0, <2>1, <2>2 DEF Messages, Rx!Message, Rx!PayloadLen, Rx!HdrSize
  <2> QED
    BY <1>7, <2>1, <2>2, <2>3, Zenon DEF CtxsOK, Rx!RxSingle
<1>8. CASE Rx(p.dest)!RxRestart(p)
  <2>1. PICK i \in 1..Ctxs :
          Rx(p.dest)!SetCtx(i, Rx(p.dest)!Started(Rx(p.dest)!mctp_msg_ctx_reset(msg_ctxs[i]), p))
    BY <1>5, <1>8, Zenon DEF Rx!RxRestart
  <2>2. Rx(p.dest)!mctp_msg_ctx_reset(msg_ctxs[i]) \in C
    <3>1. PICK ctx \in C : ctx = msg_ctxs[i]
      BY Zenon DEF CtxsOK
    <3>2. <<>> \in Seq(Packets)
      OBVIOUS
    <3>3. [ctx EXCEPT !.buf = <<>>, !.buf_size = 0, !.fragment_size = 0] \in C
      BY <3>2, Zenon DEF Rx!Ctx
    <3> QED
      BY <3>1, <3>3, Zenon DEF Rx!mctp_msg_ctx_reset
  <2>3. p.size >= 4 /\ rx' = <<>> /\ ~p.eom
    BY <1>3, <1>8, Zenon DEF Rx!RxRestart
  <2> QED
    BY <1>2, <1>4, <2>1, <2>2, <2>3, Zenon
<1>9. CASE Rx(p.dest)!RxStart(p)
  <2>1. p.size >= 4 /\ rx' = <<>> /\ ~p.eom
    BY <1>3, <1>9, Zenon DEF Rx!RxStart
  <2>2. Rx(p.dest)!mctp_msg_ctx_create(p) \in C
    <3>1. PICK f \in C : f = Rx(p.dest)!FreeCtx
      BY <1>1, Zenon
    <3>2. [f EXCEPT !.alloc = TRUE, !.src = p.src, !.dest = p.dest, !.tag = p.tag,
                    !.buf_alloc_size = MaxMessageSize] \in C
      BY <1>0, Zenon DEF Rx!Ctx
    <3> QED
      BY <3>1, <3>2, Zenon DEF Rx!mctp_msg_ctx_create
  <2>3. \A i \in Rx(p.dest)!SpareCtx : i \in 1..Ctxs
    BY Zenon DEF Rx!SpareCtx, Rx!Slots
  <2>4. CASE UNCHANGED msg_ctxs
    BY <2>1, <2>4, Zenon DEF CtxsOK
  <2>5. CASE \E i \in Rx(p.dest)!SpareCtx :
               Rx(p.dest)!SetCtx(i, Rx(p.dest)!Started(Rx(p.dest)!mctp_msg_ctx_create(p), p))
    BY <1>2, <1>4, <2>1, <2>2, <2>3, <2>5, Zenon
  <2> QED
    BY <1>9, <2>4, <2>5, Zenon DEF Rx!RxStart
<1>10. CASE Rx(p.dest)!RxMiddle(p)
  <2>1. p.size >= 4 /\ rx' = <<>> /\ ~p.eom
    BY <1>3, <1>10, Zenon DEF Rx!RxMiddle
  <2>2. PICK i \in 1..Ctxs :
          \/ Rx(p.dest)!SetCtx(i, [Rx(p.dest)!mctp_msg_ctx_add_pkt(msg_ctxs[i], p)
                                     EXCEPT !.last_seq = p.seq])
          \/ Rx(p.dest)!SetCtx(i, Rx(p.dest)!FreeCtx)
    BY <1>5, <1>10, Zenon DEF Rx!RxMiddle
  <2>3. PICK a \in C : a = Rx(p.dest)!mctp_msg_ctx_add_pkt(msg_ctxs[i], p)
    BY <2>1, AddFacts, Zenon DEF CtxsOK
  <2>4. [a EXCEPT !.last_seq = p.seq] \in C
    BY <1>0, Zenon DEF Rx!Ctx
  <2> QED
    BY <1>1, <1>2, <2>1, <2>2, <2>3, <2>4, Zenon
<1>11. CASE Rx(p.dest)!RxEnd(p)
  <2>1. p.size >= 4 /\ ~p.som
    BY <1>3, <1>11, Zenon DEF Rx!RxEnd
  <2> DEFINE done(i) == Rx(p.dest)!mctp_msg_ctx_add_pkt(msg_ctxs[i], p)
  <2>2. PICK i \in 1..Ctxs :
          /\ rx' \in {<<>>, <<Rx(p.dest)!Message(p, done(i).buf, done(i).buf_size)>>}
          /\ Rx(p.dest)!SetCtx(i, Rx(p.dest)!FreeCtx)
    BY <1>5, <1>11, Zenon DEF Rx!RxEnd
  <2>3. PICK ctx \in C : ctx = msg_ctxs[i]
    BY Zenon DEF CtxsOK
  <2>4. done(i) \in C /\ done(i).buf = Append(ctx.buf, p)
    BY <2>1, <2>3, AddFacts, Zenon DEF Rx!mctp_msg_ctx_add_pkt, Rx!Ctx
  <2> HIDE DEF done
  <2>5. PICK m : m = Rx(p.dest)!Message(p, done(i).buf, done(i).buf_size)
    BY Zenon
  <2>6. m \in Messages
    BY <1>0, <2>4, <2>5, Zenon DEF Messages, Rx!Message, Rx!Ctx
  <2>7. m.buf = Append(ctx.buf, p)
    BY <2>4, <2>5, Zenon DEF Rx!Message
  <2>8. m.buf # <<>> /\ m.buf[Len(m.buf)] = p
    BY <2>1, <2>7, AddFacts, Zenon
  <2> QED
    BY <1>1, <1>2, <2>1, <2>2, <2>5, <2>6, <2>8, Zenon
<1> QED
  BY <1>6, <1>7, <1>8, <1>9, <1>10, <1>11, Zenon DEF RxStep

-----------------------------------------------------------------------------
TxTypes ==
  /\ wire \in [Busses -> Seq(WirePackets)]
  /\ tx_msg \in [Busses -> Messages \cup {NoMessage}]
  /\ tx_left \in [Busses -> Nat]

BridgeTypes ==
  /\ CtxsOK /\ TxTypes
  /\ arrived \in [Busses -> Nat] /\ \A b \in Busses : arrived[b] <= Len(Inbound[b])
  /\ received \in [Busses -> Seq(Messages)]

\* m ends with one of the first n packets of bus b.
EndsAmong(b, n, m) ==
  m.buf # <<>> /\ \E i \in 1..n : m.buf[Len(m.buf)] = Inbound[b][i]

\* The messages a bus received end with different packets, and the others of the
\* history variables are among them.
HistoryOK ==
  /\ \A b \in Busses : \A m \in Among(received[b]) : EndsAmong(b, arrived[b], m)
  /\ \A m \in finished \cup refused \cup spoilt : \E b \in Busses : m \in Among(received[b])

BusInv(d) ==
  BusOK(d, received[Other(d)], wire[d], tx_msg[d], tx_left[d], finished, refused, spoilt)

BridgeInv == BridgeTypes /\ HistoryOK /\ \A d \in Busses : BusInv(d)

\* A step that is about message m and bus d.
OnlyOn(d, m) ==
  /\ \A o \in Busses \ {d} : /\ wire'[o] = wire[o] /\ tx_msg'[o] = tx_msg[o]
                             /\ tx_left'[o] = tx_left[o]
  /\ \A x : x # m => /\ x \in finished' <=> x \in finished
                     /\ x \in refused' <=> x \in refused
                     /\ x \in spoilt' <=> x \in spoilt

\* mctp_send_tx_queue with message m on bus d.
LEMMA SendStep ==
  ASSUME TxTypes, NEW d \in Busses, NEW m \in Messages, NEW left,
         NEW rcv \in Seq(Messages),
         BusOK(d, rcv, wire[d], m, left, finished, refused, spoilt),
         mctp_send_tx_queue(d, m, left)
  PROVE  /\ TxTypes' /\ OnlyOn(d, m)
         /\ BusOK(d, rcv, wire'[d], tx_msg'[d], tx_left'[d], finished', refused', spoilt')
<1>1. PICK n \in 0..left :
        /\ wire' = [wire EXCEPT ![d] = @ \o NextPackets(d, m, left, n)]
        /\ \/ n = left /\ tx_left' = [tx_left EXCEPT ![d] = 0] /\ UNCHANGED spoilt
           \/ n < left /\ tx_left' = [tx_left EXCEPT ![d] = left - n] /\ UNCHANGED spoilt
           \/ /\ n < left
              /\ tx_left' = [tx_left EXCEPT ![d] = left - n - 1]
              /\ spoilt' = spoilt \cup {m}
        /\ IF tx_left'[d] = 0
             THEN /\ tx_msg' = [tx_msg EXCEPT ![d] = NoMessage]
                  /\ finished' = finished \cup {m}
             ELSE /\ tx_msg' = [tx_msg EXCEPT ![d] = m]
                  /\ UNCHANGED finished
        /\ UNCHANGED refused
  BY Zenon DEF mctp_send_tx_queue
<1>2. PICK w \in Seq(WirePackets) : w = wire[d]
  BY Zenon DEF TxTypes
<1>3. left \in Nat /\ n \in Nat /\ n <= left
  <2>1. PICK c \in Nat : c = PacketCount(d, m)
    BY PacketCountFacts, Zenon
  <2>2. left \in 1..c
    BY <2>1, BridgeAssumption, Zenon DEF BusOK, PendingOK
  <2> QED
    BY <1>1, <2>2
<1>4. PICK w2 \in Seq(WirePackets) :
        /\ w2 = w \o NextPackets(d, m, left, n)
        /\ n = left => BusOK(d, rcv, w2, NoMessage, 0, finished \cup {m}, refused, spoilt)
        /\ n < left => BusOK(d, rcv, w2, m, left - n, finished, refused, spoilt)
        /\ n < left - 1 =>
             BusOK(d, rcv, w2, m, left - n - 1, finished, refused, spoilt \cup {m})
        /\ n = left - 1 =>
             BusOK(d, rcv, w2, NoMessage, 0, finished \cup {m}, refused, spoilt \cup {m})
  BY <1>1, <1>2, SendOK
<1>5. wire' = [wire EXCEPT ![d] = w2] /\ wire'[d] = w2
  BY <1>1, <1>2, <1>4, Zenon DEF TxTypes
<1>6. wire' \in [Busses -> Seq(WirePackets)]
  BY <1>5, Zenon DEF TxTypes
<1>7. tx_left' \in [Busses -> Nat]
  <2>1. PICK l \in Nat : tx_left' = [tx_left EXCEPT ![d] = l]
    <3>1. n < left => left - n \in Nat /\ left - n - 1 \in Nat
      BY <1>3
    <3> QED
      BY <1>1, <3>1, Zenon
  <2> QED
    BY <2>1, Zenon DEF TxTypes
<1>8. tx_msg' \in [Busses -> Messages \cup {NoMessage}]
  BY <1>1, Zenon DEF TxTypes
<1>9. OnlyOn(d, m)
  <2>1. \A o \in Busses \ {d} : /\ wire'[o] = wire[o] /\ tx_msg'[o] = tx_msg[o]
                                /\ tx_left'[o] = tx_left[o]
    BY <1>1, Zenon DEF TxTypes
  <2>2. \A x : x # m => /\ x \in finished' <=> x \in finished
                        /\ x \in refused' <=> x \in refused
                        /\ x \in spoilt' <=> x \in spoilt
    BY <1>1
  <2> QED
    BY <2>1, <2>2, Zenon DEF OnlyOn
<1>10. BusOK(d, rcv, w2, tx_msg'[d], tx_left'[d], finished', refused', spoilt')
  <2>1. CASE n = left /\ tx_left' = [tx_left EXCEPT ![d] = 0] /\ UNCHANGED spoilt
    <3>1. tx_left'[d] = 0
      BY <2>1, Zenon DEF TxTypes
    <3>2. tx_msg'[d] = NoMessage /\ finished' = finished \cup {m} /\ refused' = refused
      BY <1>1, <3>1, Zenon DEF TxTypes
    <3> QED
      BY <1>4, <2>1, <3>1, <3>2, Zenon
  <2>2. CASE n < left /\ tx_left' = [tx_left EXCEPT ![d] = left - n] /\ UNCHANGED spoilt
    <3>1. tx_left'[d] = left - n /\ left - n # 0
      BY <1>3, <2>2 DEF TxTypes
    <3>2. tx_msg'[d] = m /\ finished' = finished /\ refused' = refused
      BY <1>1, <3>1, Zenon DEF TxTypes
    <3> QED
      BY <1>4, <2>2, <3>1, <3>2, Zenon
  <2>3. CASE /\ n < left
             /\ tx_left' = [tx_left EXCEPT ![d] = left - n - 1]
             /\ spoilt' = spoilt \cup {m}
    <3>1. tx_left'[d] = left - n - 1
      BY <2>3, Zenon DEF TxTypes
    <3>2. CASE n = left - 1
      <4>1. tx_left'[d] = 0
        BY <1>3, <3>1, <3>2
      <4>2. tx_msg'[d] = NoMessage /\ finished' = finished \cup {m} /\ refused' = refused
        BY <1>1, <4>1, Zenon DEF TxTypes
      <4> QED
        BY <1>4, <2>3, <3>2, <4>1, <4>2, Zenon
    <3>3. CASE n < left - 1
      <4>1. tx_left'[d] # 0
        BY <1>3, <3>1, <3>3
      <4>2. tx_msg'[d] = m /\ finished' = finished /\ refused' = refused
        BY <1>1, <4>1, Zenon DEF TxTypes
      <4> QED
        BY <1>4, <2>3, <3>1, <3>3, <4>2, Zenon
    <3> QED
      BY <1>3, <2>3, <3>2, <3>3
  <2> QED
    BY <1>1, <2>1, <2>2, <2>3, Zenon
<1> QED
  BY <1>5, <1>6, <1>7, <1>8, <1>9, <1>10, Zenon DEF TxTypes

\* mctp_rx of a bridge with a message that was not received before.
LEMMA ForwardStep ==
  ASSUME BridgeInv, NEW b \in Busses, NEW m \in Messages, mctp_rx(b, m),
         m \notin Among(received[b]), m \notin finished, m \notin refused
  PROVE  LET d == Other(b) IN
         /\ TxTypes' /\ OnlyOn(d, m)
         /\ BusOK(d, Append(received[b], m), wire'[d], tx_msg'[d], tx_left'[d],
                  finished', refused', spoilt')
<1>0. PICK d \in Busses : d = Other(b) /\ Other(d) = b
  BY OtherFacts, Zenon
<1>1. PICK rcv \in Seq(Messages) : rcv = received[b]
  BY Zenon DEF BridgeInv, BridgeTypes
<1>2. BusOK(d, rcv, wire[d], tx_msg[d], tx_left[d], finished, refused, spoilt)
  BY <1>0, <1>1, Zenon DEF BridgeInv, BusInv
<1>3. Append(rcv, m) \in Seq(Messages)
  OBVIOUS
<1>4. wire[d] \in Seq(WirePackets)
  BY Zenon DEF BridgeInv, BridgeTypes, TxTypes
<1>5. CASE Refuse(m)
  <2>1. BusOK(d, Append(rcv, m), wire[d], tx_msg[d], tx_left[d], finished,
              refused \cup {m}, spoilt)
    BY <1>1, <1>2, RefuseOK, Zenon
  <2>2. OnlyOn(d, m)
    BY <1>5, Zenon DEF OnlyOn, Refuse
  <2>3. TxTypes'
    BY <1>5, Zenon DEF Refuse, TxTypes, BridgeInv, BridgeTypes
  <2> QED
    BY <1>0, <1>1, <1>5, <2>1, <2>2, <2>3, Zenon DEF Refuse
<1>6. ASSUME tx_msg[d] = NoMessage
      PROVE  BusOK(d, Append(rcv, m), wire[d], m, PacketCount(d, m), finished, refused, spoilt)
  BY <1>1, <1>2, <1>4, <1>6, QueueOK, Zenon
<1>7. CASE tx_msg[d] = NoMessage /\ mctp_send_tx_queue(d, m, PacketCount(d, m))
  BY <1>0, <1>1, <1>3, <1>6, <1>7, SendStep, Zenon DEF BridgeInv, BridgeTypes
<1>8. CASE /\ tx_msg[d] = NoMessage
           /\ tx_msg' = [tx_msg EXCEPT ![d] = m]
           /\ tx_left' = [tx_left EXCEPT ![d] = PacketCount(d, m)]
           /\ UNCHANGED <<wire, finished, refused, spoilt>>
  <2>1. TxTypes'
    BY <1>8, PacketCountFacts, Zenon DEF BridgeInv, BridgeTypes, TxTypes
  <2>2. OnlyOn(d, m) /\ tx_msg'[d] = m /\ tx_left'[d] = PacketCount(d, m)
    BY <1>8, Zenon DEF OnlyOn, BridgeInv, BridgeTypes, TxTypes
  <2> QED
    BY <1>0, <1>1, <1>6, <1>8, <2>1, <2>2, Zenon
<1> QED
  BY <1>0, <1>5, <1>7, <1>8, Zenon DEF mctp_rx, mctp_message_tx_on_bus

\* A message that ends with a packet that just arrived was received nowhere before.
LEMMA FreshMessage ==
  ASSUME BridgeInv, NEW b \in Busses, arrived[b] < Len(Inbound[b]),
         NEW m, m.buf[Len(m.buf)] = Inbound[b][arrived[b] + 1]
  PROVE  /\ \A c \in Busses : m \notin Among(received[c])
         /\ m \notin finished /\ m \notin refused /\ m \notin spoilt
<1>1. ASSUME NEW c \in Busses, m \in Among(received[c]) PROVE FALSE
  <2>1. PICK i \in 1..arrived[c] : m.buf[Len(m.buf)] = Inbound[c][i]
    BY <1>1, Zenon DEF BridgeInv, HistoryOK, EndsAmong
  <2>2. PICK n \in Nat, k \in Nat : n = Len(Inbound[b]) /\ k = Len(Inbound[c])
    BY InboundAssumption
  <2>3. PICK a \in Nat : a = arrived[b] /\ arrived[c] \in Nat /\ arrived[c] <= k
    BY <2>2, Zenon DEF BridgeInv, BridgeTypes
  <2>4. a + 1 \in 1..n /\ i \in 1..k
    BY <2>2, <2>3
  <2>5. PICK h \in 1..Len(Inbound[b]) : h = a + 1
    BY <2>2, <2>4, Zenon
  <2>6. i \in 1..Len(Inbound[c]) /\ Inbound[b][h] = Inbound[c][i]
    BY <2>1, <2>2, <2>3, <2>4, <2>5, Zenon
  <2>7. b = c /\ h = i
    BY <2>6, InboundAssumption
  <2> QED
    BY <2>3, <2>5, <2>7
<1> QED
  BY <1>1, Zenon DEF BridgeInv, HistoryOK

\* HistoryOK after a step, in terms of the variables' new values.
LEMMA HistoryPrimed ==
  HistoryOK' <=>
    /\ \A b \in Busses : \A x \in Among(received'[b]) : EndsAmong(b, arrived'[b], x)
    /\ \A x \in finished' \cup refused' \cup spoilt' :
         \E b \in Busses : x \in Among(received'[b])
BY Zenon DEF HistoryOK, EndsAmong, Among

\* The history after a step on bus d that is about message m, with or without m
\* as a new message of the bus b.
LEMMA HistoryStep ==
  ASSUME BridgeInv, NEW d, NEW m, OnlyOn(d, m),
         \A b \in Busses : /\ arrived'[b] \in Nat /\ arrived[b] <= arrived'[b]
                           /\ Among(received[b]) \subseteq Among(received'[b])
                           /\ \A x \in Among(received'[b]) :
                                x \in Among(received[b]) \/ EndsAmong(b, arrived'[b], x),
         \E b \in Busses : m \in Among(received'[b])
  PROVE  HistoryOK'
<1>1. ASSUME NEW b \in Busses, NEW x \in Among(received'[b])
      PROVE  EndsAmong(b, arrived'[b], x)
  <2>1. CASE x \in Among(received[b])
    <3>1. EndsAmong(b, arrived[b], x) /\ arrived[b] \in Nat
      BY <2>1, Zenon DEF BridgeInv, HistoryOK, BridgeTypes
    <3>2. \A i \in 1..arrived[b] : i \in 1..arrived'[b]
      BY <3>1
    <3> QED
      BY <3>1, <3>2, Zenon DEF EndsAmong
  <2> QED
    BY <1>1, <2>1, Zenon
<1>2. ASSUME NEW x \in finished' \cup refused' \cup spoilt'
      PROVE  \E b \in Busses : x \in Among(received'[b])
  <2>1. CASE x # m
    <3>1. x \in finished \cup refused \cup spoilt
      BY <1>2, <2>1, Zenon DEF OnlyOn
    <3> QED
      BY <3>1, Zenon DEF BridgeInv, HistoryOK
  <2> QED
    BY <2>1, Zenon
<1> QED
  BY <1>1, <1>2, HistoryPrimed, Zenon

\* The bus that a step on the other one, d, and about message m leaves alone.
LEMMA OtherBusOK ==
  ASSUME BridgeInv, NEW d \in Busses, NEW m, OnlyOn(d, m), NEW o \in Busses, o # d,
         received'[Other(o)] = received[Other(o)], m \notin Among(received[Other(o)])
  PROVE  BusInv(o)'
<1>1. BusOK(o, received[Other(o)], wire[o], tx_msg[o], tx_left[o], finished, refused, spoilt)
  BY Zenon DEF BridgeInv, BusInv
<1>2. \A x \in Among(received[Other(o)]) : /\ x \in finished' <=> x \in finished
                                           /\ x \in refused' <=> x \in refused
                                           /\ x \in spoilt' <=> x \in spoilt
  BY Zenon DEF OnlyOn
<1>3. BusOK(o, received[Other(o)], wire[o], tx_msg[o], tx_left[o], finished', refused', spoilt')
  BY <1>1, <1>2, FrameOK
<1>4. wire'[o] = wire[o] /\ tx_msg'[o] = tx_msg[o] /\ tx_left'[o] = tx_left[o]
  BY Zenon DEF OnlyOn
<1> QED
  BY <1>3, <1>4, Zenon DEF BusInv, Other

\* A packet arrives or is lost, and no message is complete.
LEMMA QuietStep ==
  ASSUME BridgeInv, NEW b \in Busses, arrived[b] < Len(Inbound[b]),
         arrived' = [arrived EXCEPT ![b] = @ + 1],
         UNCHANGED <<received, txVars>>, CtxsOK'
  PROVE  BridgeInv'
<1>1. arrived \in [Busses -> Nat] /\ \A c \in Busses : arrived[c] <= Len(Inbound[c])
  BY Zenon DEF BridgeInv, BridgeTypes
<1>2. \A c \in Busses : Len(Inbound[c]) \in Nat
  BY InboundAssumption
<1>3. /\ arrived' \in [Busses -> Nat]
      /\ \A c \in Busses : arrived[c] <= arrived'[c] /\ arrived'[c] <= Len(Inbound[c])
  BY <1>1, <1>2
<1>4. BridgeTypes'
  BY <1>3, Zenon DEF BridgeInv, BridgeTypes, TxTypes, txVars
<1>5. \A c \in Busses : BusInv(c)'
  BY Zenon DEF BridgeInv, BusInv, Other, txVars
<1>6. ASSUME NEW c \in Busses, NEW x \in Among(received[c])
      PROVE  EndsAmong(c, arrived'[c], x)
  <2>1. EndsAmong(c, arrived[c], x)
    BY <1>6, Zenon DEF BridgeInv, HistoryOK
  <2>2. \A i \in 1..arrived[c] : i \in 1..arrived'[c]
    BY <1>1, <1>3
  <2> QED
    BY <2>1, <2>2, Zenon DEF EndsAmong
<1>7. HistoryOK'
  <2>1. received' = received /\ finished' = finished /\ refused' = refused /\ spoilt' = spoilt
    BY Zenon DEF txVars
  <2> QED
    BY <1>6, <2>1, HistoryPrimed, Zenon DEF BridgeInv, HistoryOK
<1> QED
  BY <1>4, <1>5, <1>7, Zenon DEF BridgeInv

\* mctp_bus_rx keeps the invariant.
LEMMA BusRxStep ==
  ASSUME BridgeInv, NEW b \in Busses, mctp_bus_rx(b)
  PROVE  BridgeInv'
<1>0. PICK d \in Busses : d = Other(b) /\ Other(d) = b /\ d # b
  BY OtherFacts, Zenon
<1>1. /\ arrived \in [Busses -> Nat] /\ received \in [Busses -> Seq(Messages)]
      /\ CtxsOK /\ TxTypes /\ \A c \in Busses : arrived[c] <= Len(Inbound[c])
  BY Zenon DEF BridgeInv, BridgeTypes
<1>2. PICK n \in Nat : n = Len(Inbound[b]) /\ arrived[b] < n
  BY InboundAssumption DEF mctp_bus_rx
<1>3. PICK p \in Packets : p = Inbound[b][arrived[b] + 1]
  <2>1. arrived[b] + 1 \in 1..n
    BY <1>1, <1>2
  <2> QED
    BY <1>2, <2>1, InboundAssumption
<1>4. /\ RxStep(p)
      /\ arrived' = [arrived EXCEPT ![b] = @ + 1]
      /\ received' = [received EXCEPT ![b] = @ \o rx']
      /\ IF rx' = <<>> THEN UNCHANGED txVars ELSE mctp_rx(b, rx'[1])
  BY <1>3, Zenon DEF mctp_bus_rx, RxStep
<1>5. CtxsOK'
  BY <1>1, <1>4, RxFacts, Zenon
<1>6. /\ arrived' \in [Busses -> Nat] /\ \A c \in Busses : arrived'[c] <= Len(Inbound[c])
      /\ \A c \in Busses : arrived[c] <= arrived'[c]
      /\ arrived'[b] = arrived[b] + 1
  BY <1>1, <1>2, <1>4
<1>7. CASE rx' = <<>>
  <2>1. received' = received /\ UNCHANGED txVars
    <3>1. received[b] \o <<>> = received[b]
      BY <1>1
    <3>2. received' = [received EXCEPT ![b] = received[b]]
      BY <1>4, <1>7, <3>1, Zenon
    <3> QED
      BY <1>1, <1>4, <1>7, <3>2, Zenon
  <2> QED
    BY <1>2, <1>4, <1>5, <2>1, QuietStep, Zenon
<1>8. CASE rx' # <<>>
  <2>1. PICK m \in Messages : rx' = <<m>> /\ m.buf # <<>> /\ m.buf[Len(m.buf)] = p
    BY <1>1, <1>4, <1>8, RxFacts, Zenon
  <2>2. mctp_rx(b, m)
    BY <1>4, <1>8, <2>1, Zenon
  <2>3. /\ \A c \in Busses : m \notin Among(received[c])
        /\ m \notin finished /\ m \notin refused /\ m \notin spoilt
    BY <1>2, <1>3, <2>1, FreshMessage, Zenon
  <2>4. PICK rcv \in Seq(Messages) : rcv = received[b]
    BY <1>1, Zenon
  <2>5. rcv \o <<m>> = Append(rcv, m)
    OBVIOUS
  <2>6. /\ received' = [received EXCEPT ![b] = Append(rcv, m)]
        /\ received'[b] = Append(rcv, m) /\ received'[d] = received[d]
    BY <1>0, <1>1, <1>4, <2>1, <2>4, <2>5, Zenon
  <2>7. /\ TxTypes' /\ OnlyOn(d, m)
        /\ BusOK(d, Append(rcv, m), wire'[d], tx_msg'[d], tx_left'[d],
                 finished', refused', spoilt')
    BY <1>0, <2>2, <2>3, <2>4, ForwardStep, Zenon
  <2>8. BridgeTypes'
    <3>1. Append(rcv, m) \in Seq(Messages)
      OBVIOUS
    <3>2. received' \in [Busses -> Seq(Messages)]
      BY <1>1, <2>6, <3>1, Zenon
    <3> QED
      BY <1>5, <1>6, <2>7, <3>2, Zenon DEF BridgeTypes
  <2>9. BusInv(d)'
    BY <1>0, <2>6, <2>7, Zenon DEF BusInv, Other
  <2>10. BusInv(b)'
    <3>1. Other(b) = d
      BY <1>0, Zenon
    <3> QED
      BY <1>0, <2>3, <2>6, <2>7, <3>1, OtherBusOK, Zenon
  <2>11. \A c \in Busses : c = b \/ c = d
    BY <1>0, Zenon DEF Busses, Other
  <2>12. HistoryOK'
    <3>1. Among(received'[b]) = Among(received[b]) \cup {m}
      BY <2>4, <2>6, AppendFacts, Zenon
    <3>2. EndsAmong(b, arrived'[b], m)
      <4>1. PICK a \in Nat : a = arrived[b] + 1 /\ a \in 1..a
        BY <1>1
      <4> QED
        BY <1>3, <1>6, <2>1, <4>1, Zenon DEF EndsAmong
    <3>3. \A c \in Busses : /\ Among(received[c]) \subseteq Among(received'[c])
                            /\ \A x \in Among(received'[c]) :
                                 x \in Among(received[c]) \/ EndsAmong(c, arrived'[c], x)
      BY <2>6, <2>11, <3>1, <3>2, Zenon
    <3>4. m \in Among(received'[b])
      BY <3>1, Zenon
    <3>5. \A c \in Busses : arrived'[c] \in Nat /\ arrived[c] <= arrived'[c]
      BY <1>6, Zenon
    <3> QED
      BY <2>7, <3>3, <3>4, <3>5, HistoryStep, Zenon
  <2> QED
    BY <2>8, <2>9, <2>10, <2>11, <2>12, Zenon DEF BridgeInv
<1> QED
  BY <1>7, <1>8, Zenon

\* No message is received on both busses.
LEMMA ReceivedOnOneBus ==
  ASSUME BridgeInv, NEW b \in Busses, NEW c \in Busses, b # c, NEW m \in Among(received[b])
  PROVE  m \notin Among(received[c])
<1> SUFFICES ASSUME m \in Among(received[c]) PROVE FALSE
  BY Zenon
<1>1. PICK i \in 1..arrived[b] : m.buf[Len(m.buf)] = Inbound[b][i]
  BY Zenon DEF BridgeInv, HistoryOK, EndsAmong
<1>2. PICK j \in 1..arrived[c] : m.buf[Len(m.buf)] = Inbound[c][j]
  BY Zenon DEF BridgeInv, HistoryOK, EndsAmong
<1>3. /\ arrived[b] \in Nat /\ arrived[c] \in Nat
      /\ arrived[b] <= Len(Inbound[b]) /\ arrived[c] <= Len(Inbound[c])
      /\ Len(Inbound[b]) \in Nat /\ Len(Inbound[c]) \in Nat
  BY InboundAssumption DEF BridgeInv, BridgeTypes
<1>4. i \in 1..Len(Inbound[b]) /\ j \in 1..Len(Inbound[c])
  BY <1>3
<1> QED
  BY <1>1, <1>2, <1>4, InboundAssumption, Zenon

\* Steps that leave the busses and their history alone.
LEMMA StutterOK ==
  ASSUME BridgeInv, UNCHANGED <<txVars, arrived, msg_ctxs, received>>
  PROVE  BridgeInv'
<1>1. BridgeTypes'
  BY Zenon DEF BridgeInv, BridgeTypes, TxTypes, CtxsOK, txVars
<1>2. \A c \in Busses : BusInv(c)'
  BY Zenon DEF BridgeInv, BusInv, Other, txVars
<1>3. HistoryOK'
  <2>1. /\ arrived' = arrived /\ received' = received
        /\ finished' = finished /\ refused' = refused /\ spoilt' = spoilt
    BY Zenon DEF txVars
  <2> QED
    BY <2>1, HistoryPrimed, Zenon DEF BridgeInv, HistoryOK
<1> QED
  BY <1>1, <1>2, <1>3, Zenon DEF BridgeInv

\* mctp_binding_set_tx_enabled keeps the invariant: it may send what is pending.
LEMMA SetTxEnabledStep ==
  ASSUME BridgeInv, NEW b \in Busses, NEW enable \in BOOLEAN,
         mctp_binding_set_tx_enabled(b, enable)
  PROVE  BridgeInv'
<1>1. UNCHANGED <<arrived, msg_ctxs, received>>
  BY Zenon DEF mctp_binding_set_tx_enabled
<1>2. CASE UNCHANGED txVars
  BY <1>1, <1>2, StutterOK, Zenon
<1>3. CASE tx_msg[b] # NoMessage /\ mctp_send_tx_queue(b, tx_msg[b], tx_left[b])
  <2>0. PICK o \in Busses : o = Other(b) /\ Other(o) = b /\ o # b
    BY OtherFacts, Zenon
  <2>1. PICK rcv \in Seq(Messages), m \in Messages : rcv = received[o] /\ m = tx_msg[b]
    BY <1>3, Zenon DEF BridgeInv, BridgeTypes, TxTypes
  <2>2. BusOK(b, rcv, wire[b], m, tx_left[b], finished, refused, spoilt)
    BY <2>0, <2>1, Zenon DEF BridgeInv, BusInv
  <2>3. m \in Among(received[o])
    BY <1>3, <2>1, <2>2, Zenon DEF BusOK, PendingOK
  <2>4. /\ TxTypes' /\ OnlyOn(b, m)
        /\ BusOK(b, rcv, wire'[b], tx_msg'[b], tx_left'[b], finished', refused', spoilt')
    BY <1>3, <2>1, <2>2, SendStep, Zenon DEF BridgeInv, BridgeTypes
  <2>5. BusInv(b)'
    BY <1>1, <2>0, <2>1, <2>4, Zenon DEF BusInv, Other
  <2>6. BusInv(o)'
    <3>1. m \notin Among(received[b])
      BY <2>0, <2>3, ReceivedOnOneBus, Zenon
    <3> QED
      BY <1>1, <2>0, <2>4, <3>1, OtherBusOK, Zenon
  <2>7. BridgeTypes'
    BY <1>1, <2>4, Zenon DEF BridgeInv, BridgeTypes, CtxsOK
  <2>8. HistoryOK'
    <3>1. \A c \in Busses : arrived'[c] \in Nat /\ arrived[c] <= arrived'[c]
      BY <1>1 DEF BridgeInv, BridgeTypes
    <3>2. received' = received
      BY <1>1, Zenon
    <3> QED
      BY <2>3, <2>4, <3>1, <3>2, HistoryStep, Zenon
  <2>9. \A c \in Busses : c = b \/ c = o
    BY <2>0, Zenon DEF Busses, Other
  <2> QED
    BY <2>5, <2>6, <2>7, <2>8, <2>9, Zenon DEF BridgeInv
<1> QED
  BY <1>2, <1>3, Zenon DEF mctp_binding_set_tx_enabled

\* mctp_destroy keeps the invariant: what is pending is freed.
LEMMA DestroyStep ==
  ASSUME BridgeInv, mctp_destroy
  PROVE  BridgeInv'
<1> DEFINE P == {tx_msg[b] : b \in Busses} \ {NoMessage}
<1>1. /\ finished' = finished \cup P /\ spoilt' = spoilt \cup P
      /\ tx_msg' = [b \in Busses |-> NoMessage] /\ tx_left' = [b \in Busses |-> 0]
      /\ UNCHANGED <<arrived, received, wire, refused>>
      /\ msg_ctxs' = [i \in DOMAIN msg_ctxs |-> Rx(0)!FreeCtx]
  BY Zenon DEF mctp_destroy
<1>2. Rx(0)!FreeCtx \in Rx(0)!Ctx
  BY DEF Rx!Ctx, Rx!FreeCtx
<1>3. BridgeTypes'
  BY <1>1, <1>2, Zenon DEF BridgeInv, BridgeTypes, TxTypes, CtxsOK
<1>4. ASSUME NEW b \in Busses, tx_msg[b] # NoMessage
      PROVE  tx_msg[b] \in Among(received[Other(b)])
  BY <1>4, Zenon DEF BridgeInv, BusInv, BusOK, PendingOK
<1>5. HistoryOK'
  <2>1. \A m \in P : \E b \in Busses : m \in Among(received[b])
    BY <1>4, OtherFacts, Zenon
  <2>2. \A m \in finished' \cup refused' \cup spoilt' :
          \E b \in Busses : m \in Among(received[b])
    BY <1>1, <2>1, Zenon DEF BridgeInv, HistoryOK
  <2> HIDE DEF P
  <2> QED
    BY <1>1, <2>2, HistoryPrimed, Zenon DEF BridgeInv, HistoryOK
<1>6. ASSUME NEW d \in Busses PROVE BusInv(d)'
  <2>1. PICK rcv : rcv = received[Other(d)]
    BY Zenon
  <2>2. BusOK(d, rcv, wire[d], tx_msg[d], tx_left[d], finished, refused, spoilt)
    BY <2>1, Zenon DEF BridgeInv, BusInv
  <2>3. \A x \in Among(rcv) : x \in P <=> x = tx_msg[d] /\ x # NoMessage
    <3>1. ASSUME NEW x \in Among(rcv), NEW b \in Busses, b # d, x = tx_msg[b], x # NoMessage
          PROVE  FALSE
      <4>1. x \in Among(received[Other(b)])
        BY <1>4, <3>1, Zenon
      <4>2. Other(b) \in Busses /\ Other(d) \in Busses /\ Other(b) # Other(d)
        BY <3>1 DEF Busses, Other
      <4> QED
        BY <2>1, <3>1, <4>1, <4>2, ReceivedOnOneBus, Zenon
    <3> QED
      BY <3>1, Zenon
  <2>4. NoMessage \notin Among(rcv)
    <3>1. rcv \in Seq(Messages)
      BY <2>1, OtherFacts, Zenon DEF BridgeInv, BridgeTypes
    <3>2. \A i \in 1..Len(rcv) : rcv[i] \in Messages
      BY <3>1
    <3> QED
      BY <3>2, BridgeAssumption, Zenon DEF Among
  <2>5. FatesOK(d, rcv, wire[d], NoMessage, finished \cup P, refused, spoilt \cup P)
    <3> HIDE DEF P
    <3> QED
      BY <2>2, <2>3, <2>4, Zenon DEF BusOK, FatesOK
  <2>6. BusOK(d, rcv, wire[d], NoMessage, 0, finished \cup P, refused, spoilt \cup P)
    BY <2>2, <2>5, Zenon DEF BusOK, PendingOK
  <2>7. BusOK(d, rcv, wire[d], tx_msg'[d], tx_left'[d], finished', refused', spoilt')
    BY <1>1, <2>6, Zenon
  <2> QED
    BY <1>1, <2>1, <2>7, Zenon DEF BusInv, Other
<1> QED
  BY <1>3, <1>5, <1>6, Zenon DEF BridgeInv

-----------------------------------------------------------------------------
\* The invariant holds before the busses are bridged.
LEMMA InitOK == Init => BridgeInv
<1> SUFFICES ASSUME Init PROVE BridgeInv
  BY Zenon
<1>1. /\ \A b \in Busses : /\ tx_msg[b] = NoMessage /\ tx_left[b] = 0 /\ arrived[b] = 0
                           /\ received[b] = <<>> /\ wire[b] = <<>>
      /\ finished = {} /\ refused = {} /\ spoilt = {}
  BY Zenon DEF Init
<1>2. Among(<<>>) = {}
  BY DEF Among
<1>3. Rx(0)!FreeCtx \in Rx(0)!Ctx
  BY DEF Rx!Ctx, Rx!FreeCtx
<1>4. BridgeTypes
  <2>1. CtxsOK
    BY <1>3, Zenon DEF Init, CtxsOK
  <2>2. TxTypes /\ received \in [Busses -> Seq(Messages)]
    BY DEF Init, TxTypes
  <2>3. arrived \in [Busses -> Nat] /\ \A b \in Busses : arrived[b] <= Len(Inbound[b])
    BY InboundAssumption DEF Init
  <2> QED
    BY <2>1, <2>2, <2>3, Zenon DEF BridgeTypes
<1>5. HistoryOK
  BY <1>1, <1>2, Zenon DEF HistoryOK
<1>6. ASSUME NEW d \in Busses PROVE BusInv(d)
  <2>1. BusOK(d, <<>>, <<>>, NoMessage, 0, {}, {}, {})
    BY <1>2 DEF BusOK, InOrder, PendingOK, FatesOK
  <2> QED
    BY <1>1, <2>1, OtherFacts, Zenon DEF BusInv
<1> QED
  BY <1>4, <1>5, <1>6, Zenon DEF BridgeInv

\* Every call of the code keeps it.
LEMMA NextOK == BridgeInv /\ [Next]_vars => BridgeInv'
<1> SUFFICES ASSUME BridgeInv, [Next]_vars PROVE BridgeInv'
  BY Zenon
<1>1. CASE mctp_bridge_busses
  BY <1>1, StutterOK, Zenon DEF mctp_bridge_busses, rxVars
<1>2. CASE mctp_destroy
  BY <1>2, DestroyStep, Zenon
<1>3. ASSUME NEW b \in Busses, mctp_bus_rx(b) PROVE BridgeInv'
  BY <1>3, BusRxStep, Zenon
<1>4. ASSUME NEW b \in Busses, LosePacket(b) PROVE BridgeInv'
  <2>1. CtxsOK'
    BY <1>4, Zenon DEF LosePacket, BridgeInv, BridgeTypes, CtxsOK
  <2> QED
    BY <1>4, <2>1, QuietStep, Zenon DEF LosePacket
<1>5. ASSUME NEW b \in Busses, NEW enable \in BOOLEAN, mctp_binding_set_tx_enabled(b, enable)
      PROVE  BridgeInv'
  BY <1>5, SetTxEnabledStep, Zenon
<1>6. CASE UNCHANGED vars
  BY <1>6, StutterOK, Zenon DEF vars, rxVars
<1> QED
  BY <1>1, <1>2, <1>3, <1>4, <1>5, <1>6, Zenon DEF Next

\* The inductive invariant the theorems rest on.
LEMMA BridgeInvariant == Spec => []BridgeInv
BY InitOK, NextOK, PTL DEF Spec

\* mctp_rx and mctp_send_tx_queue of a bridge, for every stream of packets and every
\* pair of packet sizes: what leaves on a bus is what came on the other, in order.
THEOREM BridgeForwardsInOrder == Spec => []ForwardedInOrder
<1>1. BridgeInv => ForwardedInOrder
  <2> SUFFICES ASSUME BridgeInv, NEW b \in Busses, NEW i \in DOMAIN wire[b]
               PROVE  /\ wire[b][i].msg \in {received[Other(b)][j] : j \in DOMAIN received[Other(b)]}
                      /\ i > 1 => Earlier(b, wire[b][i-1], wire[b][i])
    BY Zenon DEF ForwardedInOrder
  <2>1. wire[b] \in Seq(WirePackets) /\ received[Other(b)] \in Seq(Messages)
    BY OtherFacts, Zenon DEF BridgeInv, BridgeTypes, TxTypes
  <2>2. i \in 1..Len(wire[b]) /\ DOMAIN received[Other(b)] = 1..Len(received[Other(b)])
    BY <2>1
  <2>3. InOrder(received[Other(b)], wire[b])
    BY Zenon DEF BridgeInv, BusInv, BusOK
  <2> QED
    BY <2>2, <2>3, Zenon DEF InOrder, Among, Before, Earlier
<1> QED
  BY <1>1, BridgeInvariant, PTL

\* Every message a bridge received is pending, freed or refused, and one that was
\* freed with no packet dropped has left whole.
THEOREM BridgeSettlesMessages == Spec => []EveryMessageHasItsFate
<1>1. BridgeInv => EveryMessageHasItsFate
  <2> SUFFICES ASSUME BridgeInv, NEW b \in Busses, NEW j \in DOMAIN received[b],
                      NEW m, m = received[b][j], NEW d, d = Other(b)
               PROVE  /\ (m \in refused) = (m \notin finished /\ tx_msg[d] # m)
                      /\ m \in finished => tx_msg[d] # m
                      /\ m \in finished \ spoilt =>
                           \A k \in 1..PacketCount(d, m) :
                             \E i \in DOMAIN wire[d] : wire[d][i] = [msg |-> m, k |-> k]
    BY DEF EveryMessageHasItsFate
  <2>1. d \in Busses /\ Other(d) = b
    BY OtherFacts, Zenon
  <2>2. wire[d] \in Seq(WirePackets) /\ received[b] \in Seq(Messages)
    BY <2>1, Zenon DEF BridgeInv, BridgeTypes, TxTypes
  <2>3. DOMAIN wire[d] = 1..Len(wire[d]) /\ m \in Among(received[b])
    BY <2>2 DEF Among
  <2>4. FatesOK(d, received[b], wire[d], tx_msg[d], finished, refused, spoilt)
    BY <2>1, Zenon DEF BridgeInv, BusInv, BusOK
  <2>5. m \in refused <=> (m \notin finished /\ tx_msg[d] # m)
    BY <2>3, <2>4, Zenon DEF FatesOK
  <2>6. (m \in refused) = (m \notin finished /\ tx_msg[d] # m)
    BY <2>5
  <2> QED
    BY <2>3, <2>4, <2>6 DEF FatesOK, HasLeft
<1> QED
  BY <1>1, BridgeInvariant, PTL

-----------------------------------------------------------------------------
\* What a context or a message is when p has come: it begins with p, or is what it
\* was before with p at its end.
Begun(new, p) == KeyOf(new) = KeyOf(p) /\ new.buf = <<p>>
Continued(old, new, p) ==
  /\ old.alloc /\ KeyOf(old) = KeyOf(p) /\ KeyOf(new) = KeyOf(p)
  /\ new.buf = Append(old.buf, p)

\* r has only packets of the bus b if it can have no others.
FromOneBus(r, b, n) == OnOneBus(b, r) => CameOn(b, n, r.buf)

CtxsFromOneBus ==
  \A s \in 1..Ctxs : msg_ctxs[s].alloc =>
    \A b \in Busses : FromOneBus(msg_ctxs[s], b, arrived[b])

\* The context that mctp_msg_ctx_lookup finds.
LEMMA LookupFacts ==
  ASSUME NEW p, NEW i \in Rx(p.dest)!mctp_msg_ctx_lookup(p)
  PROVE  i \in 1..Ctxs /\ msg_ctxs[i].alloc /\ KeyOf(msg_ctxs[i]) = KeyOf(p)
BY Zenon DEF Rx!mctp_msg_ctx_lookup, Rx!IsFirst, Rx!SameKey, Rx!Slots, KeyOf

\* What mctp_msg_ctx_add_pkt does to the fields that matter here.
LEMMA AddKeeps ==
  ASSUME NEW ctx \in Rx(0)!Ctx, NEW p, NEW new, NEW seq,
         \/ new = Rx(p.dest)!mctp_msg_ctx_add_pkt(ctx, p)
         \/ new = [Rx(p.dest)!mctp_msg_ctx_add_pkt(ctx, p) EXCEPT !.last_seq = seq]
  PROVE  KeyOf(new) = KeyOf(ctx) /\ new.buf = Append(ctx.buf, p)
<1>1. PICK b, n : b = Append(ctx.buf, p) /\ n = ctx.buf_size + Rx(p.dest)!PayloadLen(p)
  BY Zenon
<1>2. \/ new = [ctx EXCEPT !.buf = b, !.buf_size = n]
      \/ new = [[ctx EXCEPT !.buf = b, !.buf_size = n] EXCEPT !.last_seq = seq]
  BY <1>1, Zenon DEF Rx!mctp_msg_ctx_add_pkt
<1>3. new.src = ctx.src /\ new.dest = ctx.dest /\ new.tag = ctx.tag /\ new.buf = b
  BY <1>2, Zenon DEF Rx!Ctx
<1> QED
  BY <1>1, <1>3, Zenon DEF KeyOf

\* A start packet begins the context it is given, or leaves it free.
LEMMA StartedFacts ==
  ASSUME NEW ctx \in Rx(0)!Ctx, NEW p, ctx.buf = <<>>, KeyOf(ctx) = KeyOf(p),
         NEW new, new = Rx(p.dest)!Started(ctx, p), new.alloc
  PROVE  Begun(new, p)
<1>1. ~Rx(p.dest)!FreeCtx.alloc
  BY DEF Rx!FreeCtx
<1>2. PICK b, n, size, seq : /\ b = Append(ctx.buf, p)
                             /\ n = ctx.buf_size + Rx(p.dest)!PayloadLen(p)
                             /\ size = p.size /\ seq = p.seq
  BY Zenon
<1>3. new = [[ctx EXCEPT !.buf = b, !.buf_size = n]
               EXCEPT !.fragment_size = size, !.last_seq = seq]
  BY <1>1, <1>2, Zenon DEF Rx!Started, Rx!mctp_msg_ctx_add_pkt
<1>4. Append(<<>>, p) = <<p>>
  OBVIOUS
<1>5. new.src = ctx.src /\ new.dest = ctx.dest /\ new.tag = ctx.tag /\ new.buf = b
  BY <1>3, Zenon DEF Rx!Ctx
<1> QED
  BY <1>2, <1>4, <1>5, Zenon DEF Begun, KeyOf

\* Which packets mctp_bus_rx puts together.
LEMMA RxPieces ==
  ASSUME CtxsOK, NEW p \in Packets, RxStep(p)
  PROVE  /\ \A s \in 1..Ctxs : msg_ctxs'[s].alloc =>
              \/ msg_ctxs'[s] = msg_ctxs[s] \/ Begun(msg_ctxs'[s], p)
              \/ Continued(msg_ctxs[s], msg_ctxs'[s], p)
         /\ \/ rx' = <<>>
            \/ \E m : /\ rx' = <<m>>
                      /\ Begun(m, p) \/ \E s \in 1..Ctxs : Continued(msg_ctxs[s], m, p)
<1> DEFINE C == Rx(0)!Ctx
           Pieces(s) == msg_ctxs'[s].alloc =>
                          \/ msg_ctxs'[s] = msg_ctxs[s] \/ Begun(msg_ctxs'[s], p)
                          \/ Continued(msg_ctxs[s], msg_ctxs'[s], p)
<1>1. ASSUME UNCHANGED msg_ctxs PROVE \A s \in 1..Ctxs : Pieces(s)
  BY <1>1, Zenon
<1>2. ASSUME NEW i \in 1..Ctxs, NEW ctx, Rx(p.dest)!SetCtx(i, ctx),
             ctx.alloc => Begun(ctx, p) \/ Continued(msg_ctxs[i], ctx, p)
      PROVE  \A s \in 1..Ctxs : Pieces(s)
  <2>1. ASSUME NEW s \in 1..Ctxs, s # i PROVE msg_ctxs'[s] = msg_ctxs[s]
    BY <1>2, <2>1, Zenon DEF Rx!SetCtx, CtxsOK
  <2>2. msg_ctxs'[i] = ctx
    BY <1>2, Zenon DEF Rx!SetCtx, CtxsOK
  <2>3. Pieces(i)
    BY <1>2, <2>2, Zenon
  <2> QED
    BY <2>1, <2>3, Zenon
<1>3. ~Rx(p.dest)!FreeCtx.alloc
  BY DEF Rx!FreeCtx
<1>4. ASSUME NEW i \in 1..Ctxs PROVE msg_ctxs[i] \in C
  BY <1>4, Zenon DEF CtxsOK
<1> HIDE DEF Pieces
<1>5. CASE Rx(p.dest)!RxIgnored(p) \/ Rx(p.dest)!RxStray(p)
  BY <1>1, <1>5, Zenon DEF Rx!RxIgnored, Rx!RxStray, Pieces
<1>6. CASE Rx(p.dest)!RxSingle(p)
  <2>1. PICK m : m = Rx(p.dest)!Message(p, <<p>>, Rx(p.dest)!PayloadLen(p))
    BY Zenon
  <2>2. Begun(m, p)
    BY <2>1 DEF Rx!Message, Begun, KeyOf
  <2> QED
    BY <1>1, <1>6, <2>1, <2>2, Zenon DEF Rx!RxSingle, Pieces
<1>7. CASE Rx(p.dest)!RxRestart(p)
  <2>1. PICK i \in Rx(p.dest)!mctp_msg_ctx_lookup(p) :
          Rx(p.dest)!SetCtx(i, Rx(p.dest)!Started(Rx(p.dest)!mctp_msg_ctx_reset(msg_ctxs[i]), p))
    BY <1>7, Zenon DEF Rx!RxRestart
  <2>2. i \in 1..Ctxs /\ KeyOf(msg_ctxs[i]) = KeyOf(p)
    BY LookupFacts, Zenon
  <2>3. PICK ctx \in C : ctx = msg_ctxs[i]
    BY <1>4, <2>2, Zenon
  <2>4. PICK r : r = [ctx EXCEPT !.buf = <<>>, !.buf_size = 0, !.fragment_size = 0]
    BY Zenon
  <2>5. r \in C /\ r.buf = <<>> /\ KeyOf(r) = KeyOf(ctx)
    <3>1. <<>> \in Seq(Packets)
      OBVIOUS
    <3> QED
      BY <2>4, <3>1, Zenon DEF Rx!Ctx, KeyOf
  <2>6. PICK new : new = Rx(p.dest)!Started(r, p)
    BY Zenon
  <2>7. Rx(p.dest)!SetCtx(i, new)
    BY <2>1, <2>3, <2>4, <2>6, Zenon DEF Rx!mctp_msg_ctx_reset
  <2>8. new.alloc => Begun(new, p)
    BY <2>2, <2>3, <2>5, <2>6, StartedFacts, Zenon
  <2> QED
    BY <1>2, <1>7, <2>2, <2>7, <2>8, Zenon DEF Rx!RxRestart, Pieces
<1>8. CASE Rx(p.dest)!RxStart(p)
  <2>1. CASE UNCHANGED msg_ctxs
    BY <1>1, <1>8, <2>1, Zenon DEF Rx!RxStart, Pieces
  <2>2. ASSUME NEW i \in Rx(p.dest)!SpareCtx,
               Rx(p.dest)!SetCtx(i, Rx(p.dest)!Started(Rx(p.dest)!mctp_msg_ctx_create(p), p))
        PROVE  \A s \in 1..Ctxs : Pieces(s)
    <3>1. i \in 1..Ctxs
      BY <2>2, Zenon DEF Rx!SpareCtx, Rx!Slots
    <3>2. PICK r : r = Rx(p.dest)!mctp_msg_ctx_create(p)
      BY Zenon
    <3>3. r \in C /\ r.buf = <<>> /\ KeyOf(r) = KeyOf(p)
      <4>1. /\ p.src \in Nat /\ p.dest \in Nat /\ p.tag \in Nat /\ MaxMessageSize \in Nat
        BY BridgeAssumption, Zenon
      <4>2. PICK f \in C : f = Rx(p.dest)!FreeCtx
        <5>1. Rx(p.dest)!FreeCtx \in C
          BY DEF Rx!Ctx, Rx!FreeCtx
        <5> QED
          BY <5>1, Zenon
      <4>3. f.buf = <<>>
        BY <4>2 DEF Rx!FreeCtx
      <4> QED
        BY <3>2, <4>1, <4>2, <4>3, Zenon DEF Rx!mctp_msg_ctx_create, Rx!Ctx, KeyOf
    <3>4. PICK new : new = Rx(p.dest)!Started(r, p)
      BY Zenon
    <3>5. new.alloc => Begun(new, p)
      BY <3>3, <3>4, StartedFacts, Zenon
    <3> QED
      BY <1>2, <2>2, <3>1, <3>2, <3>4, <3>5, Zenon
  <2> QED
    BY <1>8, <2>1, <2>2, Zenon DEF Rx!RxStart, Pieces
<1>9. CASE Rx(p.dest)!RxMiddle(p)
  <2>1. PICK i \in Rx(p.dest)!mctp_msg_ctx_lookup(p) :
          \/ Rx(p.dest)!SetCtx(i, [Rx(p.dest)!mctp_msg_ctx_add_pkt(msg_ctxs[i], p)
                                     EXCEPT !.last_seq = p.seq])
          \/ Rx(p.dest)!SetCtx(i, Rx(p.dest)!FreeCtx)
    BY <1>9, Zenon DEF Rx!RxMiddle
  <2>2. i \in 1..Ctxs /\ msg_ctxs[i].alloc /\ KeyOf(msg_ctxs[i]) = KeyOf(p)
    BY LookupFacts, Zenon
  <2>3. PICK new : new = [Rx(p.dest)!mctp_msg_ctx_add_pkt(msg_ctxs[i], p)
                            EXCEPT !.last_seq = p.seq]
    BY Zenon
  <2>4. Continued(msg_ctxs[i], new, p)
    <3>1. PICK ctx \in C : ctx = msg_ctxs[i]
      BY <1>4, <2>2, Zenon
    <3>2. PICK seq : seq = p.seq
      BY Zenon
    <3>3. new = [Rx(p.dest)!mctp_msg_ctx_add_pkt(ctx, p) EXCEPT !.last_seq = seq]
      BY <2>3, <3>1, <3>2, Zenon
    <3>4. KeyOf(new) = KeyOf(ctx) /\ new.buf = Append(ctx.buf, p)
      BY <3>3, AddKeeps, Zenon
    <3> QED
      BY <2>2, <3>1, <3>4, Zenon DEF Continued
  <2>5. \A s \in 1..Ctxs : Pieces(s)
    BY <1>2, <1>3, <2>1, <2>2, <2>3, <2>4, Zenon
  <2> QED
    BY <1>9, <2>5, Zenon DEF Rx!RxMiddle, Pieces
<1>10. CASE Rx(p.dest)!RxEnd(p)
  <2> DEFINE done(i) == Rx(p.dest)!mctp_msg_ctx_add_pkt(msg_ctxs[i], p)
  <2>1. PICK i \in Rx(p.dest)!mctp_msg_ctx_lookup(p) :
          /\ rx' \in {<<>>, <<Rx(p.dest)!Message(p, done(i).buf, done(i).buf_size)>>}
          /\ Rx(p.dest)!SetCtx(i, Rx(p.dest)!FreeCtx)
    BY <1>10, Zenon DEF Rx!RxEnd
  <2>2. i \in 1..Ctxs /\ msg_ctxs[i].alloc /\ KeyOf(msg_ctxs[i]) = KeyOf(p)
    BY LookupFacts, Zenon
  <2>3. PICK new : new = done(i)
    BY Zenon
  <2>4. new.buf = Append(msg_ctxs[i].buf, p)
    <3>1. PICK ctx \in C : ctx = msg_ctxs[i]
      BY <1>4, <2>2, Zenon
    <3> QED
      BY <2>3, <3>1, AddKeeps, Zenon
  <2>5. PICK m : m = Rx(p.dest)!Message(p, new.buf, new.buf_size)
    BY Zenon
  <2>6. KeyOf(m) = KeyOf(p) /\ m.buf = new.buf
    BY <2>5 DEF Rx!Message, KeyOf
  <2>7. Continued(msg_ctxs[i], m, p)
    BY <2>2, <2>4, <2>6, Zenon DEF Continued
  <2>8. \A s \in 1..Ctxs : Pieces(s)
    BY <1>2, <1>3, <2>1, <2>2, Zenon
  <2> QED
    BY <2>1, <2>2, <2>3, <2>5, <2>7, <2>8, Zenon DEF Pieces
<1> QED
  BY <1>5, <1>6, <1>7, <1>8, <1>9, <1>10, Zenon DEF RxStep

\* What came by the n-th packet of a bus came by a later one.
LEMMA CameEarlier ==
  ASSUME NEW b, NEW n \in Nat, NEW k \in Nat, n <= k, NEW buf, CameOn(b, n, buf)
  PROVE  CameOn(b, k, buf)
<1>1. \A i \in 1..n : i \in 1..k
  OBVIOUS
<1>2. ASSUME NEW x \in DOMAIN buf
      PROVE  \E i \in 1..k : buf[x] = Inbound[b][i]
  BY <1>1, Zenon DEF CameOn
<1>3. ASSUME NEW x \in DOMAIN buf, NEW y \in DOMAIN buf, x < y
      PROVE  \E i, j \in 1..k : i < j /\ buf[x] = Inbound[b][i] /\ buf[y] = Inbound[b][j]
  <2>1. PICK i \in 1..n, j \in 1..n :
          i < j /\ buf[x] = Inbound[b][i] /\ buf[y] = Inbound[b][j]
    BY <1>3, Zenon DEF CameOn
  <2> QED
    BY <1>1, <2>1, Zenon
<1> QED
  BY <1>2, <1>3, Zenon DEF CameOn

\* A key of which one bus brings a packet is not only on the other.
LEMMA KeyIsOn ==
  ASSUME NEW b \in Busses, NEW c \in Busses, c # b, NEW i \in 1..Len(Inbound[b]), NEW r,
         KeyOf(r) = KeyOf(Inbound[b][i])
  PROVE  ~OnOneBus(c, r)
<1>1. Other(c) = b /\ DOMAIN Inbound[b] = 1..Len(Inbound[b])
  BY InboundAssumption DEF Busses, Other
<1> QED
  BY <1>1, Zenon DEF OnOneBus

\* The next packet of the bus b, alone or behind those that came before it.
LEMMA PieceFromOneBus ==
  ASSUME NEW b \in Busses, NEW n \in Nat, NEW h, h = n + 1, h <= Len(Inbound[b]),
         NEW p \in Packets, p = Inbound[b][h], NEW new,
         \/ Begun(new, p)
         \/ \E old : /\ Continued(old, new, p) /\ old.buf \in Seq(Packets)
                     /\ FromOneBus(old, b, n)
  PROVE  /\ FromOneBus(new, b, h)
         /\ \A c \in Busses : c # b => \A k : FromOneBus(new, c, k)
<1>1. h \in 1..h /\ h \in 1..Len(Inbound[b]) /\ h \in Nat /\ \A i \in 1..n : i \in 1..h /\ i < h
  BY InboundAssumption
<1>2. p = Inbound[b][h] /\ KeyOf(new) = KeyOf(p)
  BY Zenon DEF Begun, Continued
<1>3. ASSUME NEW c \in Busses, c # b, NEW k
      PROVE  FromOneBus(new, c, k)
  BY <1>1, <1>2, <1>3, KeyIsOn, Zenon DEF FromOneBus
<1>4. CASE Begun(new, p)
  <2>1. \A k \in DOMAIN <<p>> : <<p>>[k] = p /\ \A l \in DOMAIN <<p>> : ~(k < l)
    OBVIOUS
  <2>2. CameOn(b, h, new.buf)
    BY <1>1, <1>2, <1>4, <2>1, Zenon DEF CameOn, Begun
  <2> QED
    BY <1>3, <2>2, Zenon DEF FromOneBus
<1>5. ASSUME NEW old, Continued(old, new, p), old.buf \in Seq(Packets),
             FromOneBus(old, b, n), OnOneBus(b, new)
      PROVE  CameOn(b, h, new.buf)
  <2>1. CameOn(b, n, old.buf)
    BY <1>5, Zenon DEF FromOneBus, OnOneBus, Continued
  <2>2. PICK buf \in Seq(Packets) : buf = old.buf
    BY <1>5, Zenon
  <2>3. PICK a : a = Append(buf, p)
    BY Zenon
  <2>4. PICK m \in Nat : m = Len(buf)
    OBVIOUS
  <2>5. /\ DOMAIN a = 1..(m + 1) /\ a[m + 1] = p /\ DOMAIN buf = 1..m
        /\ \A k \in 1..m : a[k] = buf[k]
    BY <2>3, <2>4
  <2>6. /\ \A k \in 1..(m + 1) : k \in 1..m \/ k = m + 1
        /\ \A k, l \in 1..(m + 1) : k < l => k \in 1..m
    BY <2>4
  <2>7. ASSUME NEW k \in 1..(m + 1)
        PROVE  \E i \in 1..h : a[k] = Inbound[b][i]
    BY <1>1, <1>2, <2>1, <2>2, <2>5, <2>6, Zenon DEF CameOn
  <2>8. ASSUME NEW k \in 1..(m + 1), NEW l \in 1..(m + 1), k < l
        PROVE  \E i, j \in 1..h : i < j /\ a[k] = Inbound[b][i] /\ a[l] = Inbound[b][j]
    <3>1. k \in 1..m
      BY <2>6, <2>8, Zenon
    <3>2. CASE l \in 1..m
      <4>1. PICK i \in 1..n, j \in 1..n :
              i < j /\ buf[k] = Inbound[b][i] /\ buf[l] = Inbound[b][j]
        <5>1. CameOn(b, n, buf) /\ k \in DOMAIN buf /\ l \in DOMAIN buf
          BY <2>1, <2>2, <2>5, <3>1, <3>2, Zenon
        <5> QED
          BY <2>8, <5>1, Zenon DEF CameOn
      <4>2. i \in 1..h /\ j \in 1..h /\ a[k] = Inbound[b][i] /\ a[l] = Inbound[b][j]
        BY <1>1, <2>5, <3>1, <3>2, <4>1, Zenon
      <4> QED
        BY <4>1, <4>2, Zenon
    <3>3. CASE l = m + 1
      <4>1. PICK i \in 1..n : buf[k] = Inbound[b][i]
        BY <2>1, <2>2, <2>5, <3>1, Zenon DEF CameOn
      <4> QED
        BY <1>1, <1>2, <2>5, <3>1, <3>3, <4>1, Zenon
    <3> QED
      BY <2>6, <3>2, <3>3, Zenon
  <2>9. CameOn(b, h, a)
    <3>1. \A k \in DOMAIN a : \E i \in 1..h : a[k] = Inbound[b][i]
      BY <2>5, <2>7, Zenon
    <3>2. \A k, l \in DOMAIN a :
            k < l => \E i, j \in 1..h : i < j /\ a[k] = Inbound[b][i] /\ a[l] = Inbound[b][j]
      <4> SUFFICES ASSUME NEW k \in DOMAIN a, NEW l \in DOMAIN a, k < l
                   PROVE  \E i, j \in 1..h : /\ i < j /\ a[k] = Inbound[b][i]
                                             /\ a[l] = Inbound[b][j]
        BY Zenon
      <4>1. k \in 1..(m + 1) /\ l \in 1..(m + 1)
        BY <2>5, Zenon
      <4> QED
        BY <2>8, <4>1, Zenon
    <3> QED
      BY <3>1, <3>2, Zenon DEF CameOn
  <2>10. new.buf = a
    BY <1>5, <2>2, <2>3, Zenon DEF Continued
  <2> QED
    BY <2>9, <2>10, Zenon
<1> QED
  BY <1>3, <1>4, <1>5, Zenon DEF FromOneBus

OneBusInv == BridgeInv /\ CtxsFromOneBus /\ PutTogetherOnOneBus

\* A step that adds nothing to a context or to the messages received.
LEMMA NothingAdded ==
  ASSUME OneBusInv, received' = received,
         \A s \in 1..Ctxs : msg_ctxs'[s].alloc => msg_ctxs'[s] = msg_ctxs[s],
         \A b \in Busses : arrived[b] \in Nat /\ arrived'[b] \in Nat /\ arrived[b] <= arrived'[b]
  PROVE  CtxsFromOneBus' /\ PutTogetherOnOneBus'
<1>1. ASSUME NEW s \in 1..Ctxs, msg_ctxs'[s].alloc, NEW b \in Busses
      PROVE  FromOneBus(msg_ctxs'[s], b, arrived'[b])
  <2>1. msg_ctxs'[s] = msg_ctxs[s] /\ FromOneBus(msg_ctxs[s], b, arrived[b])
    BY <1>1, Zenon DEF OneBusInv, CtxsFromOneBus
  <2> QED
    BY <2>1, CameEarlier, Zenon DEF FromOneBus
<1>2. ASSUME NEW b \in Busses, NEW n \in DOMAIN received'[b]
      PROVE  FromOneBus(received'[b][n], b, arrived'[b])
  <2>1. PICK m : m = received[b][n] /\ m = received'[b][n] /\ n \in DOMAIN received[b]
    BY <1>2, Zenon
  <2>2. FromOneBus(m, b, arrived[b])
    BY <2>1, Zenon DEF OneBusInv, PutTogetherOnOneBus, FromOneBus
  <2>3. FromOneBus(m, b, arrived'[b])
    BY <2>2, CameEarlier, Zenon DEF FromOneBus
  <2> QED
    BY <2>1, <2>3, Zenon
<1>3. CtxsFromOneBus'
  BY <1>1, Zenon DEF CtxsFromOneBus, FromOneBus, OnOneBus, CameOn, KeyOf, Other
<1>4. PutTogetherOnOneBus'
  BY <1>2, Zenon DEF PutTogetherOnOneBus, FromOneBus, OnOneBus, CameOn, KeyOf, Other
<1> QED
  BY <1>3, <1>4, Zenon

\* mctp_bus_rx puts together what belongs together.
LEMMA BusRxFromOneBus ==
  ASSUME OneBusInv, NEW b \in Busses, mctp_bus_rx(b)
  PROVE  CtxsFromOneBus' /\ PutTogetherOnOneBus'
<1>1. /\ arrived \in [Busses -> Nat] /\ received \in [Busses -> Seq(Messages)]
      /\ CtxsOK /\ arrived[b] < Len(Inbound[b])
  BY Zenon DEF OneBusInv, BridgeInv, BridgeTypes, mctp_bus_rx
<1>2. PICK n \in Nat, h \in 1..Len(Inbound[b]) :
        n = arrived[b] /\ h = n + 1 /\ h <= Len(Inbound[b])
  BY <1>1, InboundAssumption
<1>3. PICK p \in Packets : p = Inbound[b][h]
  BY InboundAssumption
<1>4. /\ RxStep(p)
      /\ arrived' = [arrived EXCEPT ![b] = h]
      /\ received' = [received EXCEPT ![b] = @ \o rx']
  BY <1>2, <1>3, Zenon DEF mctp_bus_rx, RxStep
<1>5. /\ arrived'[b] = h /\ \A c \in Busses : c # b => arrived'[c] = arrived[c]
      /\ \A c \in Busses : /\ arrived[c] \in Nat /\ arrived'[c] \in Nat
                            /\ arrived[c] <= arrived'[c]
  BY <1>1, <1>2, <1>4
<1>6. ASSUME NEW new,
             Begun(new, p) \/ \E s \in 1..Ctxs : Continued(msg_ctxs[s], new, p),
             NEW c \in Busses
      PROVE  FromOneBus(new, c, arrived'[c])
  <2>1. ASSUME NEW s \in 1..Ctxs, Continued(msg_ctxs[s], new, p)
        PROVE  msg_ctxs[s].buf \in Seq(Packets) /\ FromOneBus(msg_ctxs[s], b, n)
    <3>1. PICK ctx \in Rx(0)!Ctx : ctx = msg_ctxs[s]
      BY <1>1, Zenon DEF CtxsOK
    <3>2. msg_ctxs[s].buf \in Seq(Packets)
      BY <3>1, Zenon DEF Rx!Ctx
    <3> QED
      BY <1>2, <2>1, <3>2, Zenon DEF OneBusInv, CtxsFromOneBus, Continued
  <2>2. /\ FromOneBus(new, b, h)
        /\ \A d \in Busses : d # b => \A k : FromOneBus(new, d, k)
    <3>1. \/ Begun(new, p)
          \/ \E old : /\ Continued(old, new, p) /\ old.buf \in Seq(Packets)
                      /\ FromOneBus(old, b, n)
      BY <1>6, <2>1, Zenon
    <3> QED
      BY <1>2, <1>3, <3>1, PieceFromOneBus, Zenon
  <2> QED
    BY <1>5, <2>2, Zenon
<1>7. CtxsFromOneBus'
  <2>1. ASSUME NEW s \in 1..Ctxs, msg_ctxs'[s].alloc, NEW c \in Busses
        PROVE  FromOneBus(msg_ctxs'[s], c, arrived'[c])
    <3>1. CASE msg_ctxs'[s] = msg_ctxs[s]
      <4>1. FromOneBus(msg_ctxs[s], c, arrived[c])
        BY <2>1, <3>1, Zenon DEF OneBusInv, CtxsFromOneBus
      <4> QED
        BY <1>5, <3>1, <4>1, CameEarlier, Zenon DEF FromOneBus
    <3>2. CASE Begun(msg_ctxs'[s], p) \/ Continued(msg_ctxs[s], msg_ctxs'[s], p)
      <4>1. PICK new : new = msg_ctxs'[s]
        BY Zenon
      <4> QED
        BY <1>6, <3>2, <4>1, Zenon
    <3> QED
      BY <1>1, <1>4, <2>1, <3>1, <3>2, RxPieces, Zenon
  <2> QED
    BY <2>1, Zenon DEF CtxsFromOneBus, FromOneBus, OnOneBus, CameOn, KeyOf, Other
<1>8. ASSUME NEW c \in Busses, NEW k \in DOMAIN received'[c]
      PROVE  FromOneBus(received'[c][k], c, arrived'[c])
  <2>1. ASSUME k \in DOMAIN received[c], received'[c][k] = received[c][k]
        PROVE  FromOneBus(received'[c][k], c, arrived'[c])
    <3>1. FromOneBus(received[c][k], c, arrived[c])
      BY <2>1, Zenon DEF OneBusInv, PutTogetherOnOneBus, FromOneBus
    <3> QED
      BY <1>5, <2>1, <3>1, CameEarlier, Zenon DEF FromOneBus
  <2>2. CASE c # b
    BY <1>1, <1>4, <1>8, <2>1, <2>2, Zenon
  <2>3. CASE c = b
    <3>1. PICK rcv \in Seq(Messages) : rcv = received[b]
      BY <1>1, Zenon
    <3>2. received'[b] = rcv \o rx'
      BY <1>1, <1>4, <3>1, Zenon
    <3>3. CASE rx' = <<>>
      <4>1. rcv \o <<>> = rcv
        OBVIOUS
      <4> QED
        BY <1>8, <2>1, <2>3, <3>1, <3>2, <3>3, <4>1, Zenon
    <3>4. ASSUME NEW m, rx' = <<m>>,
                 Begun(m, p) \/ \E s \in 1..Ctxs : Continued(msg_ctxs[s], m, p)
          PROVE  FromOneBus(received'[c][k], c, arrived'[c])
      <4>1. PICK l \in Nat : l = Len(rcv)
        OBVIOUS
      <4>2. PICK t : t = rcv \o <<m>>
        BY Zenon
      <4>3. /\ DOMAIN t = 1..(l + 1) /\ DOMAIN rcv = 1..l /\ t[l + 1] = m
            /\ \A i \in 1..l : t[i] = rcv[i]
        <5>1. m \in Messages
          BY <1>1, <1>4, <3>4, RxFacts
        <5>2. <<m>> \in Seq(Messages) /\ Len(<<m>>) = 1 /\ <<m>>[1] = m
          BY <5>1
        <5>3. PICK u \in Seq(Messages) : u = <<m>> /\ Len(u) = 1 /\ u[1] = m
          BY <5>2, Zenon
        <5>4. /\ rcv \o u \in Seq(Messages) /\ Len(rcv \o u) = Len(rcv) + Len(u)
              /\ \A i \in 1..Len(rcv) : (rcv \o u)[i] = rcv[i]
              /\ \A i \in 1..Len(u) : (rcv \o u)[Len(rcv) + i] = u[i]
          BY ConcatFacts
        <5>5. t \in Seq(Messages) /\ Len(t) = l + 1
          BY <4>1, <4>2, <5>3, <5>4, Zenon
        <5>6. t[l + 1] = m /\ \A i \in 1..l : t[i] = rcv[i]
          BY <4>1, <4>2, <5>3, <5>4
        <5> QED
          BY <4>1, <5>5, <5>6
      <4>4. k \in 1..l \/ k = l + 1
        BY <1>8, <2>3, <3>2, <3>4, <4>1, <4>2, <4>3
      <4>5. FromOneBus(m, c, arrived'[c])
        BY <1>6, <3>4, Zenon
      <4> QED
        BY <2>1, <2>3, <3>1, <3>2, <3>4, <4>2, <4>3, <4>4, <4>5, Zenon
    <3> QED
      BY <1>1, <1>4, <3>3, <3>4, RxPieces, Zenon
  <2> QED
    BY <2>2, <2>3, Zenon
<1>9. PutTogetherOnOneBus'
  BY <1>8, Zenon DEF PutTogetherOnOneBus, FromOneBus, OnOneBus, CameOn, KeyOf, Other
<1> QED
  BY <1>7, <1>9, Zenon

\* mctp_bus_rx of a bridge puts no message together from packets of both busses, or out
\* of order, for every pair of streams in which no key is on both, and every number of
\* contexts.
THEOREM BridgeKeepsBussesApart == Spec => []PutTogetherOnOneBus
<1>1. Init => OneBusInv
  <2> SUFFICES ASSUME Init PROVE CtxsFromOneBus /\ PutTogetherOnOneBus
    BY InitOK, Zenon DEF OneBusInv
  <2>1. \A s \in 1..Ctxs : ~msg_ctxs[s].alloc
    BY DEF Init, Rx!FreeCtx
  <2>2. \A b \in Busses : DOMAIN received[b] = {}
    BY DEF Init
  <2> QED
    BY <2>1, <2>2, Zenon DEF CtxsFromOneBus, PutTogetherOnOneBus
<1>2. OneBusInv /\ [Next]_vars => OneBusInv'
  <2> SUFFICES ASSUME OneBusInv, [Next]_vars PROVE CtxsFromOneBus' /\ PutTogetherOnOneBus'
    BY NextOK, Zenon DEF OneBusInv
  <2>1. /\ arrived \in [Busses -> Nat] /\ CtxsOK
        /\ \A b \in Busses : arrived[b] \in Nat /\ arrived[b] <= arrived[b]
    BY DEF OneBusInv, BridgeInv, BridgeTypes
  <2>2. ASSUME UNCHANGED <<arrived, msg_ctxs, received>>
        PROVE  CtxsFromOneBus' /\ PutTogetherOnOneBus'
    BY <2>1, <2>2, NothingAdded, Zenon
  <2>3. ASSUME NEW b \in Busses, mctp_bus_rx(b)
        PROVE  CtxsFromOneBus' /\ PutTogetherOnOneBus'
    BY <2>3, BusRxFromOneBus, Zenon
  <2>4. ASSUME NEW b \in Busses, LosePacket(b)
        PROVE  CtxsFromOneBus' /\ PutTogetherOnOneBus'
    <3>1. /\ arrived' = [arrived EXCEPT ![b] = @ + 1]
          /\ msg_ctxs' = msg_ctxs /\ received' = received
      BY <2>4, Zenon DEF LosePacket
    <3>2. \A c \in Busses : arrived'[c] \in Nat /\ arrived[c] <= arrived'[c]
      BY <2>1, <3>1
    <3> QED
      BY <2>1, <3>1, <3>2, NothingAdded, Zenon
  <2>5. CASE mctp_destroy
    <3>1. /\ arrived' = arrived /\ received' = received
          /\ msg_ctxs' = [i \in DOMAIN msg_ctxs |-> Rx(0)!FreeCtx]
      BY <2>5, Zenon DEF mctp_destroy
    <3>2. ~Rx(0)!FreeCtx.alloc
      BY DEF Rx!FreeCtx
    <3>3. \A s \in 1..Ctxs : ~msg_ctxs'[s].alloc
      BY <2>1, <3>1, <3>2, Zenon DEF CtxsOK
    <3> QED
      BY <2>1, <3>1, <3>3, NothingAdded, Zenon
  <2> QED
    BY <2>2, <2>3, <2>4, <2>5, Zenon DEF Next, vars, rxVars, mctp_bridge_busses,
                                         mctp_binding_set_tx_enabled
<1>3. OneBusInv => PutTogetherOnOneBus
  BY Zenon DEF OneBusInv
<1> QED
  BY <1>1, <1>2, <1>3, PTL DEF Spec
=============================================================================
