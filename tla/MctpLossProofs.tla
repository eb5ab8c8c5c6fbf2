--------------------------- MODULE MctpLossProofs ---------------------------
(***************************************************************************)
(* The proof that MctpTransfer contains its losses: when every message     *)
(* fits the receiver's max_message_size, a lost packet costs one message   *)
(* at most, however many packets are lost.                                 *)
(***************************************************************************)
EXTENDS MctpTransferProofs, FiniteSetTheorems

\* The histories of messages taken and of messages delivered.
HistoryTypes == sent \in Seq(Messages) /\ delivered \in Seq(Delivery)

\* A packet sends up at most one message.
LEMMA OutcomeDelivers ==
  ASSUME ReceiverInv, NEW p \in SentPackets, Outcome(p)
  PROVE  rx' = <<>> \/ \E d \in Delivery : rx' = <<d>>
<1>1. p.len \in Nat /\ AsReceived(p) \in Received
  BY Zenon DEF SentPackets, Received
<1>2. CASE TakenAlone(p)
  <2>1. <<AsReceived(p)>> \in Seq(Received)
    BY <1>1
  <2> QED
    BY <1>1, <1>2, <2>1, UpType, Zenon DEF TakenAlone
<1>3. ASSUME NEW i \in 1..Ctxs, Completes(p, i)
      PROVE  \E d \in Delivery : rx' = <<d>>
  <2>1. PICK c \in Context : c = msg_ctxs[i]
    BY Zenon DEF ReceiverInv
  <2>2. c.buf \in Seq(Received) /\ c.buf_size \in Nat
    BY Zenon DEF Context
  <2>3. Append(c.buf, AsReceived(p)) \in Seq(Received) /\ c.buf_size + p.len \in Nat
    BY <1>1, <2>2
  <2> QED
    BY <1>3, <2>1, <2>3, UpType, Zenon DEF Completes
<1> QED
  BY <1>2, <1>3, Zenon DEF Outcome, NotTaken, Opens, Extends, Drops

\* The histories grow by what is taken and what goes up.
LEMMA NextHistoryTypes ==
  LinkInv /\ ReceiverInv /\ HistoryTypes /\ [TransferNext]_transferVars => HistoryTypes'
<1> SUFFICES ASSUME LinkInv, ReceiverInv, HistoryTypes, [TransferNext]_transferVars
             PROVE  HistoryTypes'
  BY Zenon
<1>1. CASE ReceivePacket
  <2>1. PICK p : p = wire[taken + 1]
    BY Zenon
  <2>2. /\ p \in SentPackets /\ Outcome(p) /\ delivered' = delivered \o rx'
        /\ UNCHANGED sent
    BY <1>1, <2>1, ReceiveOutcome, Zenon
  <2>3. rx' \in Seq(Delivery)
    <3>1. <<>> \in Seq(Delivery) /\ \A d \in Delivery : <<d>> \in Seq(Delivery)
      OBVIOUS
    <3> QED
      BY <2>2, <3>1, OutcomeDelivers, Zenon
  <2> QED
    BY <2>2, <2>3 DEF HistoryTypes
<1>2. ASSUME NEW m \in Messages, SendMessage(m)
      PROVE  HistoryTypes'
  BY <1>2 DEF SendMessage, HistoryTypes
<1>3. CASE UNCHANGED <<sent, delivered>>
  BY <1>3, Zenon DEF HistoryTypes
<1> QED
  BY <1>1, <1>2, <1>3, Zenon DEF TransferNext, transferVars, SendPacket, FailPacket,
                          ToggleBinding, LosePacket

-----------------------------------------------------------------------------
\* Loss is contained.  A message that was taken is awaited while it can still be
\* delivered: none of its packets was dropped so far, some are still to come, and what
\* the receiver has of it is all that has left the link.
Ready(e) ==
  \/ e.pos = 0
  \/ \E i \in 1..Ctxs : /\ Holds(i, e.msg.tag)
                        /\ e.seq = (msg_ctxs[i].last_seq + 1) % 4
                        /\ msg_ctxs[i].buf_size = e.pos
                        /\ msg_ctxs[i].fragment_size = PktPayload + 4

Awaited(m) ==
  /\ m \notin spoilt
  /\ \E k \in (taken + 1)..(Len(wire) + 1) : At(k).msg = m
  /\ m = At(taken + 1).msg => Ready(At(taken + 1))

Pending == {m \in given : Awaited(m)}

\* No message is larger than the receiver takes.
MessagesFit == \A m \in Messages : m.len <= MaxMessageSize

\* On the stream, a message of which no packet failed is continued by its next packet
\* until its end, and begins at its beginning.
Follow(k) ==
  LET e == At(k + 1) IN
  /\ wire[k].msg \notin spoilt /\ ~wire[k].eom =>
       IsAt(e, wire[k].msg, wire[k].pos + PktPayload, (wire[k].seq + 1) % 4)
  /\ e.msg # NoMessage /\ e.msg \notin spoilt /\ e.msg # wire[k].msg => e.pos = 0

\* Every message that was taken was delivered, cost a lost packet, or is awaited.
LossInv ==
  /\ HistoryTypes /\ IsFiniteSet(given)
  /\ \A k \in 1..Len(wire) : Follow(k)
  /\ Len(sent) <= Len(delivered) + lost + Cardinality(Pending)

\* A set that has all but one of the elements of another is at most one smaller.
LEMMA AtMostOneLess ==
  ASSUME NEW S, NEW T, NEW x, IsFiniteSet(T), S \subseteq T \cup {x}
  PROVE  Cardinality(S) <= Cardinality(T) + 1
<1>1. /\ IsFiniteSet(T \cup {x})
      /\ \/ Cardinality(T \cup {x}) = Cardinality(T)
         \/ Cardinality(T \cup {x}) = Cardinality(T) + 1
  BY FS_AddElement, Zenon
<1>2. Cardinality(S) <= Cardinality(T \cup {x}) /\ IsFiniteSet(S)
  BY <1>1, FS_Subset, Zenon
<1>3. Cardinality(S) \in Nat /\ Cardinality(T) \in Nat
  BY <1>2, FS_CardinalityType, Zenon
<1> QED
  BY <1>1, <1>2, <1>3

\* The steps of the sender keep the stream in order.
LEMMA NextFollow ==
  ASSUME LinkInv, \A k \in 1..Len(wire) : Follow(k), [TransferNext]_transferVars
  PROVE  \A k \in 1..Len(wire') : Follow(k)'
<1>1. PICK n : n = Len(wire)
  BY Zenon
<1>2. n \in Nat /\ wire \in Seq(SentPackets)
  BY <1>1 DEF LinkInv, WireInv, WireType
<1>3. CASE TxSent
  <2> SUFFICES ASSUME NEW k \in 1..(n + 1)
               PROVE  Follow(k)'
    BY <1>1, <1>3, SentStream, Zenon
  <2>1. /\ \A j \in 1..n : wire'[j] = wire[j]
        /\ \A j \in 1..(n + 1) : At(j)' = At(j)
        /\ spoilt' = spoilt
    BY <1>1, <1>3, SentStream, Zenon DEF TxSent
  <2>2. CASE k \in 1..n
    <3>1. k + 1 \in 1..(n + 1)
      BY <1>2, <2>2
    <3>2. Follow(k) /\ wire'[k] = wire[k] /\ At(k + 1)' = At(k + 1)
      BY <1>1, <2>1, <2>2, <3>1, Zenon
    <3> QED
      BY <2>1, <3>2, Zenon DEF Follow, IsAt
  <2>3. CASE k = n + 1
    <3>1. k + 1 = n + 2
      BY <1>2, <2>3
    <3>2. /\ wire'[k].msg = tx_msg
          /\ IF wire'[k].eom
               THEN At(n + 2)'.msg = NoMessage
               ELSE IsAt(At(n + 2)', tx_msg, wire'[k].pos + PktPayload,
                                     (wire'[k].seq + 1) % 4)
      BY <1>1, <1>3, <2>3, SentStream, Zenon
    <3>3. PICK e : e = At(n + 2)'
      BY Zenon
    <3> QED
      BY <3>1, <3>2, <3>3, Zenon DEF Follow, IsAt
  <2> QED
    BY <1>2, <2>2, <2>3
<1>4. CASE TxError
  <2> SUFFICES ASSUME NEW k \in 1..n
               PROVE  Follow(k)'
    BY <1>1, <1>4, Zenon DEF TxError
  <2>1. /\ wire' = wire /\ spoilt' = spoilt \cup {tx_msg}
        /\ \A j \in 1..n : At(j)' = At(j)
        /\ At(n + 1).msg = tx_msg /\ At(n + 1)'.msg \in {NoMessage, tx_msg}
    BY <1>1, <1>4, FailedStream, Zenon DEF TxError, IsAt
  <2>2. Follow(k)
    BY <1>1, Zenon
  <2>3. CASE k < n
    <3>1. k + 1 \in 1..n
      BY <1>2, <2>3
    <3>2. At(k + 1)' = At(k + 1)
      BY <2>1, <3>1, Zenon
    <3> QED
      BY <2>1, <2>2, <3>2, Zenon DEF Follow, IsAt
  <2>4. CASE k = n
    BY <2>1, <2>2, <2>4, Zenon DEF Follow, IsAt
  <2> QED
    BY <1>2, <2>3, <2>4
<1>5. ASSUME NEW m \in Messages, mctp_message_tx(m), TxTaken(m)
      PROVE  \A k \in 1..Len(wire') : Follow(k)'
  <2>1. /\ wire' = wire /\ spoilt' = spoilt /\ \A j \in 1..n : At(j)' = At(j)
        /\ At(n + 1).msg = NoMessage /\ At(n + 1)'.msg = m /\ At(n + 1)'.pos = 0
    BY <1>1, <1>5, TakenStream, Zenon DEF IsAt
  <2>2. \A k \in 1..n : wire[k].msg # NoMessage
    <3>0. \A k \in 1..n : wire[k] \in SentPackets
      BY <1>1, <1>2
    <3>1. \A k \in 1..n : wire[k].msg \in Messages
      BY <3>0, Zenon DEF SentPackets
    <3> QED
      BY <3>1, TxAssumption, Zenon
  <2> SUFFICES ASSUME NEW k \in 1..n
               PROVE  Follow(k)'
    BY <1>1, <2>1, Zenon
  <2>3. Follow(k)
    BY <1>1, Zenon
  <2>4. CASE k < n
    <3>1. k + 1 \in 1..n
      BY <1>2, <2>4
    <3>2. At(k + 1)' = At(k + 1)
      BY <2>1, <3>1, Zenon
    <3> QED
      BY <2>1, <2>3, <3>2, Zenon DEF Follow, IsAt
  <2>5. CASE k = n
    BY <2>1, <2>2, <2>3, <2>5, SMTT(30) DEF Follow, IsAt
  <2> QED
    BY <1>2, <2>4, <2>5
<1>6. CASE UNCHANGED <<wire, tx_msg, tx_msgpos, tx_seq, spoilt>>
  BY <1>6 DEF Follow, At, IsAt
<1> QED
  BY <1>3, <1>4, <1>5, <1>6
     DEF TransferNext, transferVars, SendMessage, SendPacket, FailPacket, ToggleBinding,
         ReceivePacket, LosePacket, mctp_message_tx, TxFreed, TxBusy, BindingEnables,
         BindingDisables, vars, busVars, historyVars

\* Steps that leave the receiver and the link alone, send a packet, or only refuse a
\* message, leave every awaited message awaited.
LEMMA PendingKept ==
  ASSUME LinkInv, given \subseteq given', spoilt' = spoilt, UNCHANGED <<taken, msg_ctxs>>,
         TxSent \/ UNCHANGED <<wire, tx_msg, tx_msgpos, tx_seq>>
  PROVE  Pending \subseteq Pending'
<1>1. PICK n : n = Len(wire)
  BY Zenon
<1>2. n \in Nat /\ taken \in 0..n /\ Len(wire') \in {n, n + 1}
      /\ \A k \in 1..(n + 1) : At(k)' = At(k)
  <2>1. CASE TxSent
    BY <1>1, <2>1, SentStream, Zenon DEF LinkInv
  <2>2. CASE UNCHANGED <<wire, tx_msg, tx_msgpos, tx_seq>>
    <3>1. n \in Nat /\ taken \in 0..n
      BY <1>1 DEF LinkInv, WireInv, WireType
    <3> QED
      BY <1>1, <2>2, <3>1, Zenon DEF At
  <2> QED
    BY <2>1, <2>2, Zenon
<1> SUFFICES ASSUME NEW m \in given, Awaited(m)
             PROVE  Awaited(m)'
  BY Zenon DEF Pending
<1>3. PICK k \in (taken + 1)..(n + 1) : At(k).msg = m
  BY <1>1, Zenon DEF Awaited
<1>4. k \in (taken' + 1)..(Len(wire') + 1) /\ At(k)'.msg = m
  BY <1>2, <1>3
<1>5. PICK e : e = At(taken + 1)
  BY Zenon
<1>6. e = At(taken + 1)'
  BY <1>2, <1>5
<1>7. m = e.msg => Ready(e)
  BY <1>5, Zenon DEF Awaited
<1>8. Ready(e) => Ready(e)'
  BY Zenon DEF Ready, Holds
<1> QED
  BY <1>4, <1>6, <1>7, <1>8 DEF Awaited

\* A packet that fails costs its message.
LEMMA PendingFailed ==
  ASSUME LinkInv, TxError, UNCHANGED <<taken, msg_ctxs>>
  PROVE  Pending \subseteq Pending' \cup {tx_msg}
<1>1. PICK n : n = Len(wire)
  BY Zenon
<1>2. /\ n \in Nat /\ taken \in 0..n /\ \A k \in 1..n : At(k)' = At(k)
      /\ wire' = wire /\ given' = given /\ spoilt' = spoilt \cup {tx_msg}
      /\ At(n + 1).msg = tx_msg
  BY <1>1, FailedStream, Zenon DEF LinkInv, TxError, IsAt
<1> SUFFICES ASSUME NEW m \in given, Awaited(m), m # tx_msg
             PROVE  Awaited(m)'
  BY <1>2, Zenon DEF Pending
<1>3. PICK k \in (taken + 1)..(n + 1) : At(k).msg = m
  BY <1>1, Zenon DEF Awaited
<1>4. k \in (taken' + 1)..(Len(wire') + 1) /\ At(k)'.msg = m /\ taken + 1 \in 1..n
  BY <1>1, <1>2, <1>3
<1>5. PICK e : e = At(taken + 1)
  BY Zenon
<1>6. e = At(taken + 1)'
  BY <1>2, <1>4, <1>5, Zenon
<1>7. m = e.msg => Ready(e)
  BY <1>5, Zenon DEF Awaited
<1>8. Ready(e) => Ready(e)'
  BY Zenon DEF Ready, Holds
<1> QED
  BY <1>2, <1>4, <1>6, <1>7, <1>8, SMTT(30) DEF Awaited

\* A message that is taken is awaited.
LEMMA PendingTaken ==
  ASSUME LinkInv, NEW m \in Messages, mctp_message_tx(m), TxTaken(m),
         UNCHANGED <<taken, msg_ctxs>>
  PROVE  Pending \cup {m} \subseteq Pending' /\ m \notin Pending
<1>1. PICK n : n = Len(wire)
  BY Zenon
<1>2. /\ n \in Nat /\ \A k \in 1..n : At(k)' = At(k)
      /\ wire' = wire /\ given' = given \cup {m} /\ spoilt' = spoilt
      /\ At(n + 1).msg = NoMessage /\ At(n + 1)'.msg = m /\ At(n + 1)'.pos = 0
      /\ m \notin given
  BY <1>1, TakenStream, Zenon DEF IsAt
<1>3. taken \in 0..n /\ spoilt \subseteq given /\ given \subseteq Messages
  BY <1>1, Zenon DEF LinkInv, BusInv, TypeOK
<1>4. ASSUME NEW x \in given, Awaited(x)
      PROVE  Awaited(x)'
  <2>1. PICK k \in (taken + 1)..(n + 1) : At(k).msg = x
    BY <1>1, <1>4, Zenon DEF Awaited
  <2>2. x # NoMessage
    BY <1>3, TxAssumption, Zenon
  <2>3. k \in (taken + 1)..n
    BY <1>2, <1>3, <2>1, <2>2
  <2>4. k \in (taken' + 1)..(Len(wire') + 1) /\ At(k)'.msg = x /\ taken + 1 \in 1..n
    BY <1>1, <1>2, <1>3, <2>1, <2>3, SMTT(30)
  <2>5. PICK e : e = At(taken + 1)
    BY Zenon
  <2>6. e = At(taken + 1)'
    BY <1>2, <2>4, <2>5, Zenon
  <2>7. x = e.msg => Ready(e)
    BY <1>4, <2>5, Zenon DEF Awaited
  <2>8. Ready(e) => Ready(e)'
    BY Zenon DEF Ready, Holds
  <2> QED
    BY <1>2, <1>4, <2>4, <2>6, <2>7, <2>8, SMTT(30) DEF Awaited
<1>5. Awaited(m)'
  <2>1. n + 1 \in (taken' + 1)..(Len(wire') + 1)
    BY <1>1, <1>2, <1>3
  <2>2. PICK e : e = At(taken + 1)'
    BY Zenon
  <2>3. m = e.msg => e.pos = 0
    <3>1. CASE taken = n
      BY <1>2, <2>2, <3>1, Zenon
    <3>2. CASE taken # n
      <4>1. taken + 1 \in 1..n /\ taken' = taken
        BY <1>2, <1>3, <3>2
      <4>2. e.msg = wire[taken + 1].msg
        <5>1. e = At(taken + 1)
          BY <1>2, <2>2, <4>1
        <5>2. WireType
          BY Zenon DEF LinkInv, WireInv
        <5> QED
          BY <1>1, <1>2, <4>1, <5>1, <5>2, AtFacts, SMTT(30)
      <4>3. wire[taken + 1].msg \in given
        BY <1>1, <4>1, Zenon DEF LinkInv, WireInv, OnlyGiven
      <4> QED
        BY <1>2, <4>2, <4>3
    <3> QED
      BY <3>1, <3>2, Zenon
  <2>4. m = e.msg => Ready(e)'
    BY <2>3, Zenon DEF Ready
  <2>5. m \notin spoilt'
    BY <1>2, <1>3
  <2> QED
    BY <1>2, <2>1, <2>2, <2>4, <2>5, SMTT(30) DEF Awaited
<1> QED
  BY <1>2, <1>4, <1>5 DEF Pending

\* A packet that leaves the link costs at most its own message.
LEMMA AwaitedPast ==
  ASSUME LinkInv, \A k \in 1..Len(wire) : Follow(k), taken < Len(wire),
         taken' = taken + 1, UNCHANGED vars,
         NEW m \in given, Awaited(m), m # wire[taken + 1].msg
  PROVE  Awaited(m)'
<1>1. PICK n : n = Len(wire)
  BY Zenon
<1>2. /\ n \in Nat /\ taken \in 0..n /\ taken + 1 \in 1..n /\ WireType
      /\ given \subseteq Messages
  BY <1>1 DEF LinkInv, WireInv, WireType, BusInv, TypeOK
<1>3. wire' = wire /\ spoilt' = spoilt /\ \A j : At(j)' = At(j)
  BY Zenon DEF vars, busVars, historyVars, At
<1>4. PICK k \in (taken + 1)..(n + 1) : At(k).msg = m
  BY <1>1, Zenon DEF Awaited
<1>5. At(taken + 1).msg = wire[taken + 1].msg
  BY <1>1, <1>2, AtFacts
<1>6. k \in (taken' + 1)..(Len(wire') + 1) /\ At(k)'.msg = m
  <2>1. k # taken + 1
    BY <1>4, <1>5, Zenon
  <2> QED
    BY <1>1, <1>2, <1>3, <1>4, <2>1
<1>7. PICK e : e = At(taken + 2)
  BY Zenon
<1>8. At(taken + 1)' = e
  <2>1. taken' + 1 = taken + 2
    BY <1>2
  <2> QED
    BY <1>3, <1>7, <2>1
<1>9. m = e.msg => e.pos = 0
  <2>1. m # NoMessage /\ m \notin spoilt
    BY <1>2, TxAssumption DEF Awaited
  <2>2. Follow(taken + 1) /\ (taken + 1) + 1 = taken + 2
    BY <1>1, <1>2
  <2> QED
    BY <1>7, <2>1, <2>2 DEF Follow
<1>10. m = e.msg => Ready(e)'
  BY <1>9, Zenon DEF Ready
<1>11. m \notin spoilt'
  BY <1>3, Zenon DEF Awaited
<1> QED
  BY <1>6, <1>8, <1>10, <1>11 DEF Awaited

\* A message whose next packet is read stays awaited, goes up, or has lost its start.
LEMMA AwaitedRead ==
  ASSUME MessagesFit, LinkInv, ReceiverInv, \A k \in 1..Len(wire) : Follow(k),
         NEW p, p = wire[taken + 1], ReceivePacket,
         p.msg \in given, Awaited(p.msg), rx' = <<>>, lost' = lost
  PROVE  Awaited(p.msg)'
<1>1. PICK n : n = Len(wire)
  BY Zenon
<1>2. /\ n \in Nat /\ taken \in 0..n /\ taken + 1 \in 1..n /\ taken' = taken + 1
      /\ p \in SentPackets /\ Outcome(p) /\ UNCHANGED vars /\ lost \in Nat
  BY <1>1, ReceiveOutcome DEF LinkInv, WireInv, WireType
<1>3. wire' = wire /\ spoilt' = spoilt /\ \A j : At(j)' = At(j)
  BY <1>2, Zenon DEF vars, busVars, historyVars, At
<1>4. WellBuilt(p) /\ WireType
  BY <1>1, <1>2, Zenon DEF LinkInv, WireInv
<1>5. /\ p.msg \in Messages /\ p.len \in Nat /\ p.pos \in Nat /\ p.msg.len \in Nat
      /\ p.msg.len <= MaxMessageSize /\ PktPayload \in Nat /\ MaxMessageSize \in Nat
      /\ p.seq \in 0..3
  BY <1>2, TxAssumption, TransferAssumption DEF SentPackets, MessagesFit
<1>6. PICK a : a = At(taken + 1)
  BY Zenon
<1>7. a.msg = p.msg /\ a.pos = p.pos /\ a.seq = p.seq
  BY <1>1, <1>2, <1>4, <1>6, AtFacts, SMTT(30)
<1>8. p.msg \notin spoilt /\ Ready(a)
  BY <1>6, <1>7 DEF Awaited
<1>9. PICK e : e = At(taken + 2)
  BY Zenon
<1>10. At(taken + 1)' = e
  <2>1. taken' + 1 = taken + 2
    BY <1>2, SMTT(30)
  <2> QED
    BY <1>3, <1>9, <2>1
<1>11. ~p.eom => IsAt(e, p.msg, p.pos + PktPayload, (p.seq + 1) % 4)
  <2>1. Follow(taken + 1) /\ (taken + 1) + 1 = taken + 2
    BY <1>1, <1>2
  <2> QED
    BY <1>8, <1>9, <2>1 DEF Follow
\* It is enough that its context, if it goes on, is ready for the next packet.
<1>12. ASSUME ~p.eom, Ready(e)'
       PROVE  Awaited(p.msg)'
  <2>1. PICK k \in (taken' + 1)..(Len(wire') + 1) : k = taken + 2
    BY <1>1, <1>2, <1>3, SMTT(30)
  <2>2. At(k)'.msg = p.msg
    BY <1>3, <1>9, <1>11, <1>12, <2>1, SMTT(30) DEF IsAt
  <2>3. p.msg \notin spoilt'
    BY <1>3, <1>8
  <2> QED
    BY <1>10, <1>12, <2>1, <2>2, <2>3, SMTT(30) DEF Awaited
<1>13. CASE NotTaken(p)
  <2>1. ~p.som /\ \A i \in 1..Ctxs : ~Holds(i, p.msg.tag)
    BY <1>2, <1>13 DEF NotTaken
  <2> QED
    BY <1>4, <1>7, <1>8, <2>1, Zenon DEF Ready, WellBuilt
<1>14. CASE TakenAlone(p)
  BY <1>14 DEF TakenAlone
<1>15. ASSUME NEW i \in 1..Ctxs, Completes(p, i)
       PROVE  FALSE
  BY <1>15 DEF Completes
<1>16. ASSUME NEW i \in 1..Ctxs, Opens(p, i)
       PROVE  Awaited(p.msg)'
  <2>1. p.som /\ ~p.eom /\ p.pos = 0 /\ p.len = PktPayload /\ p.len <= MaxMessageSize
    BY <1>4, <1>5, <1>16, SMTT(30) DEF Opens, WellBuilt
  <2>2. PICK c \in Context : Opened(c, p) /\ SetTo(i, c)
    BY <1>16, <2>1, Zenon DEF Opens
  <2>3. msg_ctxs'[i] = c
    BY <2>2, Zenon DEF SetTo, ReceiverInv
  <2>4. /\ c.alloc /\ c.tag = p.msg.tag /\ c.last_seq = p.seq /\ c.buf_size = PktPayload
        /\ c.fragment_size = PktPayload + 4
    BY <2>1, <2>2, Zenon DEF Opened, BelongsTo
  <2>5. e.msg.tag = p.msg.tag /\ e.seq = (c.last_seq + 1) % 4 /\ c.buf_size = e.pos
    BY <1>5, <1>11, <2>1, <2>4, SMTT(30) DEF IsAt
  <2>6. Ready(e)'
    BY <2>3, <2>4, <2>5, SMTT(30) DEF Ready, Holds
  <2> QED
    BY <1>12, <2>1, <2>6, SMTT(30)
\* The context the message's next packet is due in.
<1>17. ASSUME NEW i \in 1..Ctxs, Holds(i, p.msg.tag), ~p.som
       PROVE  /\ Continuing(msg_ctxs[i], p)
              /\ msg_ctxs[i].buf_size = p.pos /\ msg_ctxs[i].fragment_size = PktPayload + 4
  <2>1. PICK j \in 1..Ctxs : /\ Holds(j, p.msg.tag)
                             /\ p.seq = (msg_ctxs[j].last_seq + 1) % 4
                             /\ msg_ctxs[j].buf_size = p.pos
                             /\ msg_ctxs[j].fragment_size = PktPayload + 4
    BY <1>4, <1>7, <1>8, <1>17, SMTT(30) DEF Ready, WellBuilt
  <2>2. i = j
    BY <1>17, <2>1 DEF ReceiverInv, Holds
  <2>3. msg_ctxs[i].buf_alloc_size = MaxMessageSize
    BY <1>17, Zenon DEF ReceiverInv, Holds
  <2>4. msg_ctxs[i].buf_size + p.len <= MaxMessageSize
    BY <1>4, <1>5, <2>1, <2>2, SMTT(30) DEF WellBuilt
  <2>5. IF p.eom THEN p.len + 4 <= PktPayload + 4 ELSE p.len + 4 = PktPayload + 4
    BY <1>4, <1>5, SMTT(30) DEF WellBuilt
  <2> QED
    BY <2>1, <2>2, <2>3, <2>4, <2>5, SMTT(30) DEF Continuing
<1>18. ASSUME NEW i \in 1..Ctxs, Extends(p, i)
       PROVE  Awaited(p.msg)'
  <2>1. /\ ~p.som /\ ~p.eom /\ Holds(i, p.msg.tag) /\ p.len = PktPayload
    BY <1>4, <1>18, Zenon DEF Extends, WellBuilt
  <2>2. PICK c \in Context : c = msg_ctxs[i]
    BY Zenon DEF ReceiverInv
  <2>3. PICK d : d = Extended(c, p)
    BY Zenon
  <2>4. msg_ctxs'[i] = d
    BY <1>18, <2>2, <2>3 DEF Extends, SetTo, ReceiverInv
  <2>5. /\ d.alloc = c.alloc /\ d.tag = c.tag /\ d.last_seq = p.seq
        /\ d.buf_size = c.buf_size + p.len /\ d.fragment_size = c.fragment_size
    BY <2>3, Zenon DEF Extended, Context
  <2>6. c.buf_size = p.pos /\ c.fragment_size = PktPayload + 4
    BY <1>17, <2>1, <2>2, Zenon
  <2>7. e.msg.tag = p.msg.tag /\ e.seq = (d.last_seq + 1) % 4 /\ d.buf_size = e.pos
    BY <1>5, <1>11, <2>1, <2>5, <2>6, SMTT(30) DEF IsAt
  <2>8. d.alloc /\ d.tag = p.msg.tag
    BY <2>1, <2>2, <2>5, Zenon DEF Holds
  <2>9. Ready(e)'
    BY <2>4, <2>5, <2>6, <2>7, <2>8, SMTT(30) DEF Ready, Holds
  <2> QED
    BY <1>12, <2>1, <2>9
<1>19. ASSUME NEW i \in 1..Ctxs, Drops(p, i)
       PROVE  FALSE
  BY <1>17, <1>19, Zenon DEF Drops
<1> QED
  BY <1>2, <1>13, <1>14, <1>15, <1>16, <1>18, <1>19, SMTT(30) DEF Outcome

\* Every step accounts for the messages that were taken.
LEMMA NextLossInv ==
  MessagesFit /\ LinkInv /\ ReceiverInv /\ LossInv /\ [TransferNext]_transferVars => LossInv'
<1> SUFFICES ASSUME MessagesFit, LinkInv, ReceiverInv, LossInv, [TransferNext]_transferVars
             PROVE  LossInv'
  BY Zenon
<1>1. HistoryTypes /\ HistoryTypes'
  BY NextHistoryTypes, Zenon DEF LossInv
<1>2. (\A k \in 1..Len(wire) : Follow(k)) /\ \A k \in 1..Len(wire') : Follow(k)'
  BY NextFollow, Zenon DEF LossInv
<1>3. IsFiniteSet(given) /\ IsFiniteSet(given')
  <2>1. given' = given \/ \E m \in Messages : given' = given \cup {m}
    BY Zenon DEF TransferNext, transferVars, SendMessage, SendPacket, FailPacket, ToggleBinding,
       ReceivePacket, LosePacket, mctp_message_tx, TxFreed, TxTaken, TxSent, TxError, TxBusy,
       BindingEnables, BindingDisables, vars, busVars, historyVars
  <2> QED
    BY <2>1, FS_AddElement, Zenon DEF LossInv
<1>4. PICK s, t, x, y, a, b :
        /\ s = Len(sent) /\ t = Len(sent') /\ x = Len(delivered) /\ y = Len(delivered')
        /\ a = Cardinality(Pending) /\ b = Cardinality(Pending')
  BY Zenon
<1>5. IsFiniteSet(Pending) /\ IsFiniteSet(Pending') /\ a \in Nat /\ b \in Nat
  <2>1. Pending \subseteq given /\ Pending' \subseteq given'
    BY Zenon DEF Pending
  <2> QED
    BY <1>3, <1>4, <2>1, FS_Subset, FS_CardinalityType, SMTT(30)
<1>6. s \in Nat /\ t \in Nat /\ x \in Nat /\ y \in Nat /\ lost \in Nat /\ s <= x + lost + a
  BY <1>1, <1>4 DEF HistoryTypes, LinkInv, LossInv
<1>7. Pending \subseteq Pending' => a <= b
  BY <1>4, <1>5, FS_Subset, Zenon
<1> SUFFICES t <= y + lost' + b
  BY <1>1, <1>2, <1>3, <1>4, Zenon DEF LossInv
<1>8. ASSUME Pending \subseteq Pending', UNCHANGED <<sent, delivered, lost>>
      PROVE  t <= y + lost' + b
  BY <1>4, <1>5, <1>6, <1>7, <1>8, SMTT(30)
<1>9. ASSUME NEW z, Pending \subseteq Pending' \cup {z}, UNCHANGED <<sent, delivered>>,
             lost' = lost + 1
      PROVE  t <= y + lost' + b
  <2>1. a <= b + 1
    BY <1>4, <1>5, <1>9, AtMostOneLess
  <2> QED
    BY <1>4, <1>5, <1>6, <1>9, <2>1, SMTT(30)
<1>10. CASE SendPacket
  <2>1. /\ UNCHANGED <<taken, msg_ctxs, sent, delivered, lost, given, spoilt>>
        /\ TxSent \/ UNCHANGED <<wire, tx_msg, tx_msgpos, tx_seq>>
    BY <1>10 DEF SendPacket, receiverVars, TxSent, TxBusy, vars, busVars, historyVars
  <2> QED
    BY <1>8, <2>1, PendingKept
<1>11. CASE FailPacket
  <2>1. TxError /\ UNCHANGED <<taken, msg_ctxs, sent, delivered>> /\ lost' = lost + 1
    BY <1>11, Zenon DEF FailPacket, receiverVars
  <2>2. PICK z : z = tx_msg
    BY Zenon
  <2> QED
    BY <1>9, <2>1, <2>2, PendingFailed
<1>12. CASE ToggleBinding \/ UNCHANGED transferVars
  <2>1. UNCHANGED <<taken, msg_ctxs, sent, delivered, lost, given, spoilt,
                    wire, tx_msg, tx_msgpos, tx_seq>>
    BY <1>12, Zenon DEF ToggleBinding, transferVars, receiverVars, BindingEnables, BindingDisables,
                 vars, busVars, historyVars
  <2> QED
    BY <1>8, <2>1, PendingKept
<1>13. ASSUME NEW m \in Messages, SendMessage(m)
       PROVE  t <= y + lost' + b
  <2>1. /\ mctp_message_tx(m) /\ UNCHANGED <<taken, msg_ctxs, delivered, lost>>
        /\ sent' = IF tx_msg' # tx_msg THEN Append(sent, m) ELSE sent
    BY <1>13, Zenon DEF SendMessage, receiverVars
  <2>2. CASE TxTaken(m)
    <3>1. /\ Pending \cup {m} \subseteq Pending' /\ m \notin Pending
          /\ sent' = Append(sent, m)
      BY <1>4, <2>1, <2>2, PendingTaken, TakenStream, SMTT(30)
    <3>2. Cardinality(Pending \cup {m}) = a + 1 /\ IsFiniteSet(Pending \cup {m})
      BY <1>4, <1>5, <3>1, FS_AddElement, SMTT(30)
    <3>3. a + 1 <= b
      BY <1>4, <1>5, <3>1, <3>2, FS_Subset, SMTT(30)
    <3>4. t = s + 1
      BY <1>1, <1>4, <3>1 DEF HistoryTypes
    <3> QED
      BY <1>4, <1>5, <1>6, <2>1, <3>3, <3>4, SMTT(30)
  <2>3. CASE ~TxTaken(m)
    <3>1. UNCHANGED <<wire, tx_msg, tx_msgpos, tx_seq, spoilt>> /\ given \subseteq given'
      BY <2>1, <2>3, Zenon DEF mctp_message_tx, TxFreed, busVars
    <3> QED
      BY <1>8, <2>1, <3>1, PendingKept
  <2> QED
    BY <2>2, <2>3, Zenon
<1>14. CASE LosePacket
  <2>1. /\ UNCHANGED <<vars, sent, delivered, given>> /\ lost' = lost + 1 /\ taken < Len(wire)
        /\ taken' = taken + 1
    BY <1>14, Zenon DEF LosePacket, vars, historyVars
  <2>2. PICK z : z = wire[taken + 1].msg
    BY Zenon
  <2>3. Pending \subseteq Pending' \cup {z}
    BY <1>2, <2>1, <2>2, AwaitedPast DEF Pending
  <2> QED
    BY <1>9, <2>1, <2>3, Zenon
<1>15. CASE ReceivePacket
  <2>1. PICK p : p = wire[taken + 1]
    BY Zenon
  <2>2. /\ p \in SentPackets /\ Outcome(p) /\ delivered' = delivered \o rx' /\ taken < Len(wire)
        /\ UNCHANGED <<vars, sent, given>> /\ taken' = taken + 1
    BY <1>15, <2>1, ReceiveOutcome, Zenon DEF ReceivePacket, vars, historyVars
  <2>3. PICK z : z = p.msg
    BY Zenon
  <2>4. Pending \subseteq Pending' \cup {z}
    BY <1>2, <2>1, <2>2, <2>3, AwaitedPast, SMTT(30) DEF Pending
  <2>5. a <= b + 1
    BY <1>4, <1>5, <2>4, AtMostOneLess
  <2>6. lost' = lost \/ lost' = lost + 1
    BY <1>15, Zenon DEF ReceivePacket
  <2>7. CASE rx' = <<>>
    <3>1. UNCHANGED delivered
      BY <1>1, <2>2, <2>7 DEF HistoryTypes
    <3>2. CASE lost' = lost
      <4>1. ASSUME NEW m \in given, Awaited(m)
            PROVE  m \in given' /\ Awaited(m)'
        <5>1. CASE m = p.msg
          BY <1>2, <1>15, <2>1, <2>2, <2>7, <3>2, <4>1, <5>1, AwaitedRead, SMTT(30)
        <5>2. CASE m # p.msg
          BY <1>2, <2>1, <2>2, <4>1, <5>2, AwaitedPast, SMTT(30)
        <5> QED
          BY <5>1, <5>2, Zenon
      <4>2. Pending \subseteq Pending'
        BY <4>1, Zenon DEF Pending
      <4> QED
        BY <1>8, <2>2, <3>1, <3>2, <4>2, SMTT(30)
    <3>3. CASE lost' = lost + 1
      BY <1>9, <2>2, <2>4, <3>1, <3>3, SMTT(30)
    <3> QED
      BY <2>6, <3>2, <3>3
  <2>8. CASE rx' # <<>>
    <3>1. PICK d \in Delivery : rx' = <<d>>
      BY <2>2, <2>8, OutcomeDelivers, Zenon
    <3>2. y = x + 1
      BY <1>1, <1>4, <2>2, <3>1, SMTT(30) DEF HistoryTypes
    <3> QED
      BY <1>4, <1>5, <1>6, <2>2, <2>5, <2>6, <3>2, SMTT(30)
  <2> QED
    BY <2>7, <2>8, Zenon
<1> QED
  BY <1>10, <1>11, <1>12, <1>13, <1>14, <1>15, SMTT(30) DEF TransferNext

\* When nothing is left to send or to read, no message is awaited.
LEMMA LossAtRest == LinkInv /\ LossInv => LossIsContained
<1> SUFFICES ASSUME LinkInv, LossInv, tx_msg = NoMessage, taken = Len(wire)
             PROVE  Len(sent) - Len(delivered) <= lost
  BY Zenon DEF LossIsContained
<1>1. given \subseteq Messages /\ WireType /\ Len(wire) \in Nat
  BY DEF LinkInv, WireInv, WireType, BusInv, TypeOK
<1>2. Pending = {}
  <2> SUFFICES ASSUME NEW m \in given, Awaited(m)
               PROVE  FALSE
    BY Zenon DEF Pending
  <2>1. PICK k \in (Len(wire) + 1)..(Len(wire) + 1) : At(k).msg = m
    BY Zenon DEF Awaited
  <2>2. At(k).msg = NoMessage
    BY <1>1, <2>1, AtFacts
  <2> QED
    BY <1>1, <2>1, <2>2, TxAssumption
<1>3. Cardinality(Pending) = 0
  BY <1>2, FS_EmptySet, Zenon
<1>4. Len(sent) \in Nat /\ Len(delivered) \in Nat /\ lost \in Nat
  BY DEF LossInv, HistoryTypes, LinkInv
<1>5. Len(sent) <= Len(delivered) + lost + Cardinality(Pending)
  BY Zenon DEF LossInv
<1> QED
  BY <1>3, <1>4, <1>5

\* LossIsContained: for messages that fit the receiver's max_message_size, a packet that
\* the link, the binding or the receiver's memory loses costs one message at most,
\* however many are lost.  (A message that is too large is dropped by the receiver
\* whether or not a packet is lost.)
THEOREM LossContained == MessagesFit => (TransferSpec => []LossIsContained)
<1> SUFFICES ASSUME MessagesFit
             PROVE  TransferSpec => []LossIsContained
  BY Zenon
<1>1. TransferInit => LossInv
  <2> SUFFICES ASSUME TransferInit
               PROVE  LossInv
    BY Zenon
  <2>1. sent = <<>> /\ delivered = <<>> /\ wire = <<>> /\ given = {} /\ lost = 0
    BY Zenon DEF TransferInit
  <2>2. Pending = {} /\ IsFiniteSet(given)
    BY <2>1, FS_EmptySet DEF Pending
  <2>3. Cardinality(Pending) = 0
    BY <2>2, FS_EmptySet, Zenon
  <2> QED
    BY <2>1, <2>2, <2>3 DEF LossInv, HistoryTypes
<1>2. LossInv /\ (LinkInv /\ ReceiverInv) /\ [TransferNext]_transferVars => LossInv'
  BY NextLossInv, Zenon
<1>3. (LinkInv /\ ReceiverInv) /\ LossInv => LossIsContained
  BY LossAtRest, Zenon
<1>4. TransferSpec => TransferInit /\ [][TransferNext]_transferVars
  BY Zenon DEF TransferSpec
<1> QED
  BY <1>1, <1>2, <1>3, <1>4, LinkInvariant, PTL

=============================================================================
