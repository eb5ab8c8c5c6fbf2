------------------------- MODULE MctpTransferProofs -------------------------
(***************************************************************************)
(* Proofs about MctpTx and MctpTransfer, for every set of messages of any  *)
(* lengths and tags, payload size, binding and number of contexts: the     *)
(* fate of the sender's messages; the packets on the wire, their order,    *)
(* sequence numbers and completeness; and what the receiver makes of each  *)
(* packet, on which MctpLossProofs and MctpChannelProofs rest.             *)
(***************************************************************************)
EXTENDS MctpTransfer, TLAPS

\* Control is in mctp_send_tx_queue only with a message pending on a registered bus.
SendingOnBus == sending => tx_msg # NoMessage /\ n_busses = 1 /\ alive

\* The position in a pending message lies within it.
Within == tx_msg # NoMessage => tx_msgpos = 0 \/ tx_msgpos < tx_msg.len

BusInv == TypeOK /\ SendingOnBus /\ Within

\* What mctp_tx_complete does to a pending message: it advances by the packet's
\* payload, and frees the message exactly if that was its end.
LEMMA CompleteFacts ==
  ASSUME BusInv, sending, mctp_tx_complete
  PROVE  /\ tx_msg \in Messages /\ tx_msg.len \in Nat /\ tx_msg # NoMessage
         /\ mctp_next_tx_pkt.len \in Nat
         /\ tx_seq' = (tx_seq + 1) % 4
         /\ tx_msgpos' = tx_msgpos + mctp_next_tx_pkt.len
         /\ \/ /\ tx_msgpos' >= tx_msg.len /\ tx_msg' = NoMessage
               /\ frees' = [frees EXCEPT ![tx_msg] = @ + 1]
            \/ /\ tx_msgpos' < tx_msg.len /\ tx_msg' = tx_msg
               /\ frees' = frees
<1>1. tx_msg \in Messages /\ tx_msg.len \in Nat /\ tx_msg # NoMessage
  BY TxAssumption, Zenon DEF BusInv, TypeOK, SendingOnBus
<1>2. tx_msgpos \in Nat /\ tx_msgpos <= tx_msg.len
  BY <1>1 DEF BusInv, TypeOK, Within
<1>3. mctp_next_tx_pkt.len = MinOf(tx_msg.len - tx_msgpos, PktPayload)
  BY Zenon DEF mctp_next_tx_pkt
<1>4. mctp_next_tx_pkt.len \in Nat
  BY <1>1, <1>2, <1>3, TxAssumption DEF MinOf
<1> HIDE DEF mctp_next_tx_pkt
<1> QED
  BY <1>1, <1>2, <1>4 DEF mctp_tx_complete, Free

\* Completion keeps the types, and what is left of the message lies within it.
LEMMA CompletePreserves ==
  ASSUME BusInv, sending, mctp_tx_complete,
         UNCHANGED <<n_busses, registered, alive, bus_state, given, abandoned>>,
         spoilt' \in {spoilt, spoilt \cup {tx_msg}},
         sending' \in BOOLEAN, sending' => tx_msg' # NoMessage
  PROVE  BusInv'
<1>1. /\ tx_msgpos' \in Nat /\ tx_seq' \in 0..3
      /\ tx_msg' \in {tx_msg, NoMessage} /\ spoilt' \subseteq Messages
      /\ frees' \in [Messages -> Nat]
  BY CompleteFacts DEF BusInv, TypeOK
<1>2. TypeOK'
  BY <1>1, Zenon DEF BusInv, TypeOK
<1>3. SendingOnBus'
  BY Zenon DEF BusInv, SendingOnBus
<1>4. Within'
  BY CompleteFacts, Zenon DEF Within
<1> QED
  BY <1>2, <1>3, <1>4, Zenon DEF BusInv

\* Every step keeps the types, and mctp_send_tx_queue within its message.
LEMMA NextBusInv == BusInv /\ [Next]_vars => BusInv'
<1> SUFFICES ASSUME BusInv, [Next]_vars
             PROVE  BusInv'
  BY Zenon
<1>1. CASE TxSent
  BY <1>1, CompletePreserves, Zenon DEF TxSent
<1>2. CASE TxBusy
  BY <1>2, Zenon DEF TxBusy, historyVars, BusInv, TypeOK, SendingOnBus, Within
<1>3. CASE TxError
  BY <1>3, CompletePreserves, Zenon DEF TxError
<1>4. ASSUME NEW m \in Messages, mctp_message_tx(m)
      PROVE  BusInv'
  <2>1. CASE TxFreed(m)
    BY <1>4, <2>1 DEF mctp_message_tx, TxFreed, Free, busVars, BusInv, TypeOK,
                      SendingOnBus, Within
  <2>2. CASE TxTaken(m)
    BY <1>4, <2>2, TxAssumption, Zenon DEF mctp_message_tx, TxTaken, BusInv, TypeOK,
                                    SendingOnBus, Within
  <2> QED
    BY <1>4, <2>1, <2>2, Zenon DEF mctp_message_tx
<1>5. CASE BindingEnables
  <2>1. /\ bus_state' \in {"tx_enabled", "tx_disabled"} /\ sending' \in BOOLEAN
        /\ n_busses = 1 /\ alive
    BY <1>5, Zenon DEF BindingEnables, mctp_binding_set_tx_enabled, BusInv, TypeOK
  <2>2. sending' => tx_msg # NoMessage
    BY <1>5, Zenon DEF BindingEnables, mctp_binding_set_tx_enabled
  <2> QED
    BY <1>5, <2>1, <2>2, Zenon DEF BindingEnables, historyVars, BusInv, TypeOK, SendingOnBus,
                            Within
<1>6. CASE BindingDisables
  BY <1>6, Zenon DEF BindingDisables, mctp_binding_set_tx_enabled, historyVars, BusInv,
              TypeOK, SendingOnBus, Within
<1>7. CASE mctp_register_bus
  <2>1. registered' \in 0..MaxRegister
    BY <1>7, TxAssumption DEF mctp_register_bus, BusInv, TypeOK
  <2>2. /\ n_busses' \in 0..1 /\ bus_state' \in {"constructed", "tx_enabled"}
        /\ tx_msg' = NoMessage /\ tx_msgpos' = 0 /\ tx_seq' = 0
    BY <1>7 DEF mctp_register_bus
  <2>3. UNCHANGED <<alive, given, spoilt, abandoned, frees>>
    BY <1>7, Zenon DEF mctp_register_bus, historyVars
  <2>4. ~sending' /\ sending' \in BOOLEAN
    BY <1>7, Zenon DEF mctp_register_bus
  <2> QED
    <3>1. TypeOK'
      BY <2>1, <2>2, <2>3, <2>4 DEF BusInv, TypeOK
    <3>2. SendingOnBus'
      BY <2>4, Zenon DEF SendingOnBus
    <3>3. Within'
      BY <2>2, Zenon DEF Within
    <3> QED
      BY <3>1, <3>2, <3>3, Zenon DEF BusInv
<1>8. CASE mctp_unregister_bus
  BY <1>8 DEF mctp_unregister_bus, busVars, BusInv, TypeOK, SendingOnBus, Within
<1>9. CASE mctp_destroy
  <2>1. /\ n_busses' = 0 /\ ~sending
        /\ UNCHANGED <<registered, bus_state, tx_msgpos, tx_seq, sending, given, spoilt,
                       abandoned>>
    BY <1>9, Zenon DEF mctp_destroy
  <2>3. alive' \in BOOLEAN
    BY <1>9, Zenon DEF mctp_destroy
  <2>2. tx_msg' \in {tx_msg, NoMessage} /\ frees' \in [Messages -> Nat]
    BY <1>9 DEF mctp_destroy, Free, BusInv, TypeOK
  <2> QED
    <3>1. TypeOK'
      BY <2>1, <2>2, <2>3 DEF BusInv, TypeOK
    <3>2. SendingOnBus'
      BY <2>1, Zenon DEF SendingOnBus
    <3>3. Within'
      BY <2>1, <2>2, Zenon DEF BusInv, Within
    <3> QED
      BY <3>1, <3>2, <3>3, Zenon DEF BusInv
<1>10. CASE UNCHANGED vars
  BY <1>10, Zenon DEF vars, busVars, historyVars, BusInv, TypeOK, SendingOnBus, Within
<1> QED
  BY <1>1, <1>2, <1>3, <1>4, <1>5, <1>6, <1>7, <1>8, <1>9, <1>10, Zenon
     DEF Next, mctp_send_tx_queue

\* The invariant holds in every state.
LEMMA BusInvariant == Spec => []BusInv
<1>1. Init => BusInv
  <2> SUFFICES ASSUME Init PROVE BusInv
    BY Zenon
  <2>1. frees \in [Messages -> Nat] /\ registered \in 0..MaxRegister
    BY TxAssumption DEF Init
  <2>2. alive \in BOOLEAN /\ sending \in BOOLEAN /\ SendingOnBus
    BY Zenon DEF Init, SendingOnBus
  <2>3. /\ n_busses = 0 /\ bus_state = "constructed" /\ tx_msg = NoMessage
        /\ tx_msgpos = 0 /\ tx_seq = 0 /\ given = {} /\ spoilt = {} /\ abandoned = {}
    BY Zenon DEF Init
  <2> QED
    BY <2>1, <2>2, <2>3 DEF BusInv, TypeOK, Within
<1> QED
  BY <1>1, NextBusInv, PTL DEF Spec

\* Every variable of the transmitting half keeps its type: in particular the
\* position in a message never passes its end, so that the payload length
\* mctp_next_tx_pkt subtracts it from does not wrap, and the sequence number stays
\* within its two bits.
THEOREM TxTypes == Spec => []TypeOK
BY BusInvariant, PTL DEF BusInv

-----------------------------------------------------------------------------
\* A step that completes a packet changes the fate of the message that ends, and of
\* no other.
LEMMA CompleteAccounted ==
  ASSUME BusInv, Accounted, sending, mctp_tx_complete,
         UNCHANGED <<n_busses, given, abandoned>>
  PROVE  Accounted'
<1> SUFFICES ASSUME NEW m \in Messages
             PROVE  One(n_busses = 1 /\ tx_msg' = m) + frees'[m] + One(m \in abandoned)
                      = One(m \in given)
  BY Zenon DEF Accounted
<1>1. frees \in [Messages -> Nat] /\ n_busses = 1 /\ NoMessage # m
  BY TxAssumption, Zenon DEF BusInv, TypeOK, SendingOnBus
<1>2. One(n_busses = 1 /\ tx_msg = m) + frees[m] + One(m \in abandoned) = One(m \in given)
  BY Zenon DEF Accounted
<1>3. CASE tx_msg' = tx_msg /\ frees' = frees
  BY <1>2, <1>3, Zenon
<1>4. CASE tx_msg' = NoMessage /\ frees' = [frees EXCEPT ![tx_msg] = @ + 1]
  <2>1. CASE m = tx_msg
    BY <1>1, <1>2, <1>4, <2>1 DEF One
  <2>2. CASE m # tx_msg
    BY <1>1, <1>2, <1>4, <2>2, Zenon DEF One
  <2> QED
    BY <2>1, <2>2, Zenon
<1> QED
  BY <1>3, <1>4, CompleteFacts, Zenon

\* Every step preserves the accounts.
LEMMA NextAccounted == BusInv /\ Accounted /\ [Next]_vars => Accounted'
<1> SUFFICES ASSUME BusInv, Accounted, [Next]_vars
             PROVE  Accounted'
  BY Zenon
<1>0. frees \in [Messages -> Nat] /\ n_busses \in 0..1 /\ NoMessage \notin Messages
  BY TxAssumption, Zenon DEF BusInv, TypeOK
<1>1. CASE TxSent \/ TxError
  BY <1>1, CompleteAccounted, Zenon DEF TxSent, TxError
<1>2. ASSUME NEW m \in Messages, mctp_message_tx(m)
      PROVE  Accounted'
  <2>1. frees[m] = 0 /\ m \notin given /\ m \notin abandoned /\ ~(n_busses = 1 /\ tx_msg = m)
    BY <1>0, <1>2 DEF Accounted, One, mctp_message_tx
  <2>2. CASE TxFreed(m)
    BY <1>0, <1>2, <2>1, <2>2 DEF Accounted, One, mctp_message_tx, TxFreed, Free, busVars
  <2>3. CASE TxTaken(m)
    BY <1>0, <1>2, <2>1, <2>3 DEF Accounted, One, mctp_message_tx, TxTaken
  <2> QED
    BY <1>2, <2>2, <2>3, Zenon DEF mctp_message_tx
<1>3. CASE mctp_register_bus
  BY <1>0, <1>3, Zenon DEF Accounted, One, mctp_register_bus, historyVars
<1>4. CASE mctp_unregister_bus
  BY <1>0, <1>4 DEF Accounted, One, mctp_unregister_bus, busVars
<1>5. CASE mctp_destroy
  <2> SUFFICES ASSUME NEW m \in Messages
               PROVE  One(n_busses' = 1 /\ tx_msg' = m) + frees'[m] + One(m \in abandoned)
                        = One(m \in given)
    BY <1>5, Zenon DEF Accounted, mctp_destroy
  <2>1. One(n_busses = 1 /\ tx_msg = m) + frees[m] + One(m \in abandoned) = One(m \in given)
    BY Zenon DEF Accounted
  <2>2. CASE n_busses = 1 /\ tx_msg = m
    BY <1>0, <1>5, <2>1, <2>2 DEF One, mctp_destroy, Free
  <2>3. CASE ~(n_busses = 1 /\ tx_msg = m)
    BY <1>0, <1>5, <2>1, <2>3, Zenon DEF One, mctp_destroy, Free
  <2> QED
    BY <2>2, <2>3, Zenon
<1>6. CASE UNCHANGED <<n_busses, tx_msg, frees, abandoned, given>>
  BY <1>6, Zenon DEF Accounted
<1> QED
  BY <1>1, <1>2, <1>3, <1>4, <1>5, <1>6, Zenon
     DEF Next, mctp_send_tx_queue, TxBusy, BindingEnables, BindingDisables, vars, busVars,
         historyVars

\* The stack frees every message it was given exactly once, on whichever path it
\* ends: refused, sent, failed half-way, or still pending at mctp_destroy.  Only
\* mctp_unregister_bus, which forgets what is pending, leaves a message unfreed.
THEOREM FreedExactlyOnce == Spec => []Accounted
<1>1. Init => Accounted
  <2> SUFFICES ASSUME Init, NEW m \in Messages
               PROVE  One(n_busses = 1 /\ tx_msg = m) + frees[m] + One(m \in abandoned)
                        = One(m \in given)
    BY Zenon DEF Accounted
  <2>1. n_busses = 0 /\ frees[m] = 0 /\ m \notin abandoned /\ m \notin given
    BY Zenon DEF Init
  <2> QED
    BY <2>1 DEF One
<1> QED
  BY <1>1, BusInvariant, NextAccounted, PTL DEF Spec

-----------------------------------------------------------------------------
WireType == wire \in Seq(SentPackets)

\* Only messages that were given to the stack are on the wire or pending.
OnlyGiven ==
  /\ \A i \in 1..Len(wire) : wire[i].msg \in given
  /\ tx_msg # NoMessage => tx_msg \in given

\* The packets of the pending message that have left are the last on the wire, lie
\* before its position, and the next sequence number is as far from theirs.
Continues ==
  tx_msg # NoMessage =>
    \A i \in 1..Len(wire) : wire[i].msg = tx_msg =>
      /\ Index(wire[i]) < tx_msgpos \div PktPayload
      /\ tx_seq = (wire[i].seq + (tx_msgpos \div PktPayload) - Index(wire[i])) % 4
      /\ \A k \in i..Len(wire) : wire[k].msg = tx_msg

\* The packets from s to n are the beginning of message m, each full and none its end.
Beginning(s, n, m) ==
  /\ wire[s].som /\ wire[s].pos = 0
  /\ \A k \in s..n : wire[k].msg = m /\ ~wire[k].eom /\ wire[k].len = PktPayload
  /\ \A k \in s..(n-1) : wire[k+1].pos = wire[k].pos + wire[k].len

\* The packets from s to i are a message, whole.
Whole(s, i) ==
  /\ wire[s].som /\ wire[s].pos = 0
  /\ \A k \in s..(i-1) : /\ wire[k].msg = wire[i].msg /\ ~wire[k].eom
                         /\ wire[k].len = PktPayload
                         /\ wire[k+1].pos = wire[k].pos + wire[k].len
  /\ wire[i].pos + wire[i].len = wire[i].msg.len

\* All of the pending message up to its position has left, if none of it was dropped.
BeginningHasLeft ==
  tx_msg # NoMessage /\ tx_msg \notin spoilt =>
    IF tx_msgpos = 0
      THEN \A i \in 1..Len(wire) : wire[i].msg # tx_msg
      ELSE /\ \E s \in 1..Len(wire) : Beginning(s, Len(wire), tx_msg)
           /\ wire[Len(wire)].pos + wire[Len(wire)].len = tx_msgpos
           /\ tx_seq = (wire[Len(wire)].seq + 1) % 4

\* The inductive invariant of the wire.
WireInv == WireType /\ OnlyGiven /\ Continues /\ BeginningHasLeft
           /\ WireOrder /\ EndMeansWhole

-----------------------------------------------------------------------------
\* One full packet further is one index further.
LEMMA NextIndex ==
  ASSUME NEW x \in Nat, NEW n \in Nat \ {0}
  PROVE  /\ x \div n \in Nat
         /\ (x + n) \div n = (x \div n) + 1
OBVIOUS

\* The sequence number after the next.
LEMMA NextSeq ==
  ASSUME NEW a \in Nat, NEW b \in Nat, NEW c \in Nat, a < b
  PROVE  (((c + b - a) % 4) + 1) % 4 = (c + (b + 1) - a) % 4
OBVIOUS

-----------------------------------------------------------------------------
\* A step that puts nothing on the wire, and leaves the pending message alone or
\* forgets it, preserves the invariant.
LEMMA QuietPreserves ==
  ASSUME WireInv, UNCHANGED wire, given \subseteq given', spoilt \subseteq spoilt',
         UNCHANGED <<tx_msg, tx_msgpos, tx_seq>> \/ tx_msg' = NoMessage
  PROVE  WireInv'
<1>1. WireType' /\ OnlyGiven'
  BY Zenon DEF WireInv, WireType, OnlyGiven
<1>2. Continues'
  BY Zenon DEF WireInv, Continues, Index
<1>3. BeginningHasLeft'
  BY Zenon DEF WireInv, BeginningHasLeft, Beginning
<1>4. WireOrder'
  BY DEF WireInv, WireOrder, Index
<1>5. EndMeansWhole'
  BY DEF WireInv, EndMeansWhole
<1> QED
  BY <1>1, <1>2, <1>3, <1>4, <1>5, Zenon DEF WireInv

\* So does a step that takes a message nobody has given before.
LEMMA TakenPreserves ==
  ASSUME WireInv, NEW m \in Messages, m \notin given, given' = given \cup {m},
         tx_msg' = m, tx_msgpos' = 0, UNCHANGED <<wire, spoilt>>
  PROVE  WireInv'
<1>1. WireType' /\ OnlyGiven'
  BY Zenon DEF WireInv, WireType, OnlyGiven
<1>2. \A i \in 1..Len(wire) : wire[i].msg # m
  BY Zenon DEF WireInv, OnlyGiven
<1>3. Continues'
  BY <1>2, Zenon DEF Continues
<1>4. BeginningHasLeft'
  BY <1>2, Zenon DEF BeginningHasLeft
<1>5. WireOrder'
  BY DEF WireInv, WireOrder, Index
<1>6. EndMeansWhole'
  BY DEF WireInv, EndMeansWhole
<1> QED
  BY <1>1, <1>3, <1>4, <1>5, <1>6, Zenon DEF WireInv

\* The packet that is built next, and where it leaves a message that it does not end.
LEMMA NextPacket ==
  ASSUME BusInv, sending, mctp_tx_complete, NEW p, p = mctp_next_tx_pkt
  PROVE  /\ p \in SentPackets /\ p.msg = tx_msg /\ p.pos = tx_msgpos /\ p.seq = tx_seq
         /\ p.som <=> tx_msgpos = 0
         /\ p.eom <=> tx_msg' = NoMessage
         /\ p.eom => p.pos + p.len = tx_msg.len
         /\ tx_msg' # NoMessage =>
              /\ tx_msg' = tx_msg /\ p.len = PktPayload
              /\ tx_msgpos' = tx_msgpos + PktPayload
<1> DEFINE payload == MinOf(tx_msg.len - tx_msgpos, PktPayload)
<1>1. /\ tx_msg \in Messages /\ tx_msg.len \in Nat /\ tx_msg # NoMessage
      /\ tx_msgpos \in Nat /\ tx_msgpos <= tx_msg.len /\ tx_seq \in 0..3
      /\ PktPayload \in Nat \ {0}
  BY TxAssumption DEF BusInv, TypeOK, SendingOnBus, Within
<1>2. payload \in Nat /\ tx_msgpos + payload <= tx_msg.len
      /\ (tx_msgpos + payload < tx_msg.len => payload = PktPayload)
  BY <1>1 DEF MinOf
<1> HIDE DEF payload
<1> DEFINE first == tx_msgpos = 0
           last == tx_msgpos + payload >= tx_msg.len
<1>3. p = [msg |-> tx_msg, pos |-> tx_msgpos, len |-> payload, seq |-> tx_seq,
           som |-> first, eom |-> last]
  BY Zenon DEF mctp_next_tx_pkt, payload
<1>4. p \in SentPackets
  BY <1>1, <1>2, <1>3 DEF SentPackets
<1> HIDE DEF first, last
<1>5. /\ p.msg = tx_msg /\ p.pos = tx_msgpos /\ p.seq = tx_seq /\ p.len = payload
      /\ p.som = first /\ p.eom = last
  BY <1>3
<1>6. /\ tx_msgpos' = tx_msgpos + payload
      /\ \/ tx_msgpos' >= tx_msg.len /\ tx_msg' = NoMessage
         \/ tx_msgpos' < tx_msg.len /\ tx_msg' = tx_msg
  BY <1>5, CompleteFacts, Zenon
<1>7. p.eom <=> tx_msgpos + payload >= tx_msg.len
  BY <1>5, Zenon DEF last
<1>8. p.som <=> tx_msgpos = 0
  BY <1>5, Zenon DEF first
<1>9. p.eom <=> tx_msg' = NoMessage
  BY <1>1, <1>2, <1>6, <1>7
<1>10. p.eom => p.pos + p.len = tx_msg.len
  BY <1>1, <1>2, <1>5, <1>7
<1>11. tx_msg' # NoMessage => tx_msg' = tx_msg /\ p.len = PktPayload
                              /\ tx_msgpos' = tx_msgpos + PktPayload
  BY <1>1, <1>2, <1>5, <1>6, Zenon
<1> QED
  BY <1>4, <1>5, <1>8, <1>9, <1>10, <1>11, Zenon

\* Where the pending message stays after a packet, the packets of it that have left
\* are as far behind its new position and sequence number as they were, and one more.
LEMMA ContinuesAfter ==
  ASSUME BusInv, WireInv, sending, mctp_tx_complete, tx_msg' # NoMessage,
         NEW i \in 1..Len(wire), wire[i].msg = tx_msg
  PROVE  /\ Index(wire[i]) < tx_msgpos' \div PktPayload
         /\ tx_seq' = (wire[i].seq + (tx_msgpos' \div PktPayload) - Index(wire[i])) % 4
<1>1. tx_msg # NoMessage /\ tx_seq' = (tx_seq + 1) % 4
  BY CompleteFacts, Zenon
<1>2. PICK p : p = mctp_next_tx_pkt
  BY Zenon
<1>3. tx_msgpos' = tx_msgpos + PktPayload
  BY <1>2, NextPacket, Zenon
<1>4. tx_msgpos \in Nat /\ PktPayload \in Nat \ {0}
  BY TxAssumption, Zenon DEF BusInv, TypeOK
<1>5. wire[i] \in SentPackets
  BY DEF WireInv, WireType
<1>6. wire[i].pos \in Nat /\ wire[i].seq \in Nat
  BY <1>5 DEF SentPackets
<1>7. PICK a : a = Index(wire[i])
  BY Zenon
<1>8. a \in Nat
  BY <1>4, <1>6, <1>7, NextIndex, Zenon DEF Index
<1>9. PICK b : b = tx_msgpos \div PktPayload
  BY Zenon
<1>10. b \in Nat /\ tx_msgpos' \div PktPayload = b + 1
  BY <1>3, <1>4, <1>9, NextIndex, Zenon
<1>11. a < b /\ tx_seq = (wire[i].seq + b - a) % 4
  BY <1>1, <1>7, <1>9, Zenon DEF WireInv, Continues
<1>12. PICK c : c = wire[i].seq
  BY Zenon
<1>13. (((c + b - a) % 4) + 1) % 4 = (c + (b + 1) - a) % 4
  BY <1>6, <1>8, <1>10, <1>11, <1>12, NextSeq, Zenon
<1> QED
  BY <1>1, <1>7, <1>8, <1>10, <1>11, <1>12, <1>13

\* A packet the binding fails to send, when more of its message follows.
LEMMA ErrorPreserves ==
  ASSUME BusInv, WireInv, sending, mctp_tx_complete, tx_msg' # NoMessage,
         UNCHANGED <<wire, given>>, spoilt' = spoilt \cup {tx_msg}
  PROVE  WireInv'
<1>1. tx_msg' = tx_msg /\ tx_msg # NoMessage
  BY CompleteFacts, Zenon
<1>2. WireType' /\ OnlyGiven'
  BY <1>1, Zenon DEF WireInv, WireType, OnlyGiven
<1>3. Continues'
  BY <1>1, ContinuesAfter, Zenon DEF WireInv, Continues, Index
<1>4. BeginningHasLeft'
  BY <1>1, Zenon DEF BeginningHasLeft
<1>5. WireOrder'
  BY DEF WireInv, WireOrder, Index
<1>6. EndMeansWhole'
  BY DEF WireInv, EndMeansWhole
<1> QED
  BY <1>2, <1>3, <1>4, <1>5, <1>6, Zenon DEF WireInv

\* A packet the binding sends.
LEMMA SentPreserves ==
  ASSUME BusInv, WireInv, sending, mctp_tx_complete,
         wire' = Append(wire, mctp_next_tx_pkt), UNCHANGED <<given, spoilt>>
  PROVE  WireInv'
<1>1. PICK p : p = mctp_next_tx_pkt
  BY Zenon
<1>2. PICK n : n = Len(wire)
  BY Zenon
<1>3. /\ p \in SentPackets /\ p.msg = tx_msg /\ p.pos = tx_msgpos /\ p.seq = tx_seq
      /\ p.som <=> tx_msgpos = 0
      /\ p.eom <=> tx_msg' = NoMessage
      /\ p.eom => p.pos + p.len = tx_msg.len
      /\ tx_msg' # NoMessage => /\ tx_msg' = tx_msg /\ p.len = PktPayload
                                /\ tx_msgpos' = tx_msgpos + PktPayload
  BY <1>1, NextPacket, Zenon
<1>4. /\ tx_msg # NoMessage /\ tx_seq' = (tx_seq + 1) % 4 /\ tx_seq \in 0..3
      /\ tx_msgpos \in Nat /\ PktPayload \in Nat \ {0}
  BY CompleteFacts, TxAssumption, Zenon DEF BusInv, TypeOK
<1>5. /\ n \in Nat /\ wire' \in Seq(SentPackets) /\ Len(wire') = n + 1
      /\ \A i \in 1..n : wire'[i] = wire[i] /\ wire[i] \in SentPackets
      /\ wire'[n + 1] = p
      /\ DOMAIN wire = 1..n /\ DOMAIN wire' = 1..(n + 1)
  BY <1>1, <1>2, <1>3 DEF WireInv, WireType
<1>6. WireType'
  BY <1>5, Zenon DEF WireType
<1>7. OnlyGiven'
  BY <1>2, <1>3, <1>4, <1>5 DEF WireInv, OnlyGiven
<1>8. ASSUME NEW i \in 1..n, wire[i].msg = tx_msg
      PROVE  /\ Index(wire[i]) < Index(p)
             /\ p.seq = (wire[i].seq + Index(p) - Index(wire[i])) % 4
             /\ \A k \in i..n : wire[k].msg = tx_msg
  BY <1>2, <1>3, <1>4, <1>8, Zenon DEF WireInv, Continues, Index
<1>9. WireOrder'
  <2> SUFFICES ASSUME NEW i \in 1..(n + 1), NEW j \in 1..(n + 1),
                      i < j, wire'[i].msg = wire'[j].msg
               PROVE  /\ Index(wire'[i]) < Index(wire'[j])
                      /\ wire'[j].seq = (wire'[i].seq + Index(wire'[j]) - Index(wire'[i])) % 4
                      /\ \A k \in i..j : wire'[k].msg = wire'[i].msg
    BY <1>5 DEF WireOrder, Index
  <2>1. CASE j <= n
    <3>1. i \in 1..n /\ j \in 1..n /\ i..j \subseteq 1..n
      BY <1>5, <2>1
    <3>2. /\ wire'[i] = wire[i] /\ wire'[j] = wire[j]
          /\ \A k \in i..j : wire'[k] = wire[k]
      BY <1>5, <3>1, Zenon
    <3>3. /\ Index(wire[i]) < Index(wire[j])
          /\ wire[j].seq = (wire[i].seq + Index(wire[j]) - Index(wire[i])) % 4
          /\ \A k \in i..j : wire[k].msg = wire[i].msg
      BY <1>5, <3>1, <3>2, Zenon DEF WireInv, WireOrder
    <3> QED
      BY <3>2, <3>3, Zenon
  <2>2. CASE j = n + 1
    BY <1>3, <1>5, <1>8, <2>2
  <2> QED
    BY <1>5, <2>1, <2>2
<1>10. Continues'
  <2> SUFFICES ASSUME tx_msg' # NoMessage, NEW i \in 1..(n + 1), wire'[i].msg = tx_msg'
               PROVE  /\ Index(wire'[i]) < tx_msgpos' \div PktPayload
                      /\ tx_seq' = (wire'[i].seq + (tx_msgpos' \div PktPayload)
                                      - Index(wire'[i])) % 4
                      /\ \A k \in i..(n + 1) : wire'[k].msg = tx_msg'
    BY <1>5, Zenon DEF Continues, Index
  <2>1. CASE i <= n
    <3>1. wire[i].msg = tx_msg /\ wire'[i] = wire[i] /\ i \in 1..n
      BY <1>3, <1>5, <2>1
    <3> QED
      BY <1>2, <1>3, <1>5, <1>8, <3>1, ContinuesAfter
  <2>2. CASE i = n + 1
    <3>1. PICK b : b = tx_msgpos \div PktPayload
      BY Zenon
    <3>2. b \in Nat /\ tx_msgpos' \div PktPayload = b + 1 /\ Index(p) = b
      BY <1>3, <1>4, <3>1, NextIndex, Zenon DEF Index
    <3>3. (tx_seq + (b + 1) - b) % 4 = (tx_seq + 1) % 4
      BY <1>4, <3>2
    <3> QED
      BY <1>3, <1>4, <1>5, <2>2, <3>2, <3>3
  <2> QED
    BY <1>5, <2>1, <2>2
<1>11. ASSUME tx_msg \notin spoilt, tx_msgpos # 0
       PROVE  \E s \in 1..n : /\ Beginning(s, n, tx_msg)
                              /\ wire[n].pos + wire[n].len = tx_msgpos
  BY <1>2, <1>4, <1>11, Zenon DEF WireInv, BeginningHasLeft
<1>12. BeginningHasLeft'
  <2> SUFFICES ASSUME tx_msg' # NoMessage, tx_msg \notin spoilt
               PROVE  /\ \E s \in 1..(n + 1) : Beginning(s, n + 1, tx_msg)'
                      /\ p.pos + p.len = tx_msgpos'
                      /\ tx_seq' = (p.seq + 1) % 4
    BY <1>3, <1>4, <1>5 DEF BeginningHasLeft
  <2>1. p.pos + p.len = tx_msgpos' /\ tx_seq' = (p.seq + 1) % 4
    BY <1>3, <1>4, Zenon
  <2>2. ~p.eom /\ p.len = PktPayload /\ p.msg = tx_msg'
    BY <1>3, Zenon
  <2>3. CASE tx_msgpos = 0
    <3>1. Beginning(n + 1, n + 1, tx_msg)'
      BY <1>3, <1>5, <2>2, <2>3 DEF Beginning
    <3> QED
      BY <1>5, <2>1, <3>1
  <2>4. CASE tx_msgpos # 0
    <3>1. PICK s \in 1..n : /\ Beginning(s, n, tx_msg)
                            /\ wire[n].pos + wire[n].len = tx_msgpos
      BY <1>11, <2>4, Zenon
    <3>2. wire'[s] = wire[s] /\ wire[s].som /\ wire[s].pos = 0
      BY <1>5, <3>1, Zenon DEF Beginning
    <3>3. ASSUME NEW k \in s..(n + 1)
          PROVE  wire'[k].msg = tx_msg' /\ ~wire'[k].eom /\ wire'[k].len = PktPayload
      <4>1. CASE k <= n
        BY <1>3, <1>5, <2>2, <3>1, <4>1 DEF Beginning
      <4>2. CASE k = n + 1
        BY <1>5, <2>2, <4>2, Zenon
      <4> QED
        BY <1>5, <4>1, <4>2
    <3>4. ASSUME NEW k \in s..n
          PROVE  wire'[k+1].pos = wire'[k].pos + wire'[k].len
      <4>1. CASE k < n
        BY <1>5, <3>1, <4>1 DEF Beginning
      <4>2. CASE k = n
        BY <1>3, <1>5, <3>1, <4>2
      <4> QED
        BY <1>5, <4>1, <4>2
    <3>5. Beginning(s, n + 1, tx_msg)'
      BY <1>5, <3>2, <3>3, <3>4 DEF Beginning
    <3> QED
      BY <1>5, <2>1, <3>5
  <2> QED
    BY <2>3, <2>4, Zenon
<1>13. EndMeansWhole'
  <2> SUFFICES ASSUME NEW i \in 1..(n + 1), wire'[i].eom, wire'[i].msg \notin spoilt
               PROVE  \E s \in 1..i : Whole(s, i)'
    BY <1>5, Zenon DEF EndMeansWhole, Whole
  <2>1. CASE i <= n
    <3>1. wire[i].eom /\ wire[i].msg \notin spoilt /\ i \in DOMAIN wire
      BY <1>5, <2>1
    <3>2. PICK s \in 1..i : Whole(s, i)
      BY <3>1, Zenon DEF WireInv, EndMeansWhole, Whole
    <3>3. \A k \in s..i : wire'[k] = wire[k]
      BY <1>5, <2>1
    <3>4. Whole(s, i)'
      BY <1>5, <2>1, <3>2, <3>3 DEF Whole
    <3> QED
      BY <3>4, Zenon
  <2>2. CASE i = n + 1 /\ tx_msgpos = 0
    <3>1. Whole(i, i)'
      BY <1>3, <1>5, <2>2 DEF Whole
    <3> QED
      BY <1>5, <2>2, <3>1, Zenon
  <2>3. CASE i = n + 1 /\ tx_msgpos # 0
    <3>1. tx_msg \notin spoilt
      BY <1>3, <1>5, <2>3, Zenon
    <3>2. PICK s \in 1..n : /\ Beginning(s, n, tx_msg)
                            /\ wire[n].pos + wire[n].len = tx_msgpos
      BY <1>11, <2>3, <3>1, Zenon
    <3>3. wire'[s].som /\ wire'[s].pos = 0
      BY <1>5, <3>2, Zenon DEF Beginning
    <3>4. wire'[i].pos + wire'[i].len = wire'[i].msg.len
      BY <1>3, <1>5, <2>3, Zenon
    <3>5. ASSUME NEW k \in s..n
          PROVE  /\ wire'[k].msg = wire'[i].msg /\ ~wire'[k].eom
                 /\ wire'[k].len = PktPayload
                 /\ wire'[k+1].pos = wire'[k].pos + wire'[k].len
      <4>1. CASE k < n
        BY <1>3, <1>5, <2>3, <3>2, <4>1 DEF Beginning
      <4>2. CASE k = n
        BY <1>3, <1>5, <2>3, <3>2, <4>2 DEF Beginning
      <4> QED
        BY <1>5, <4>1, <4>2
    <3>6. s..(i-1) = s..n
      BY <1>5, <2>3
    <3>7. Whole(s, i)'
      BY <3>3, <3>4, <3>5, <3>6, Zenon DEF Whole
    <3> QED
      BY <1>5, <2>3, <3>7
  <2> QED
    BY <1>5, <2>1, <2>2, <2>3
<1> QED
  BY <1>6, <1>7, <1>9, <1>10, <1>12, <1>13, Zenon DEF WireInv

-----------------------------------------------------------------------------
\* Every step preserves the invariant of the wire.
LEMMA NextWireInv == BusInv /\ WireInv /\ [Next]_vars => WireInv'
<1> SUFFICES ASSUME BusInv, WireInv, [Next]_vars
             PROVE  WireInv'
  BY Zenon
<1>1. CASE TxSent
  BY <1>1, SentPreserves, Zenon DEF TxSent
<1>2. CASE TxError /\ tx_msg' # NoMessage
  BY <1>2, ErrorPreserves, Zenon DEF TxError
<1>3. CASE TxError /\ tx_msg' = NoMessage
  BY <1>3, QuietPreserves, Zenon DEF TxError
<1>4. ASSUME NEW m \in Messages, mctp_message_tx(m)
      PROVE  WireInv'
  <2>1. CASE TxFreed(m)
    BY <1>4, <2>1, QuietPreserves, Zenon DEF mctp_message_tx, TxFreed, busVars
  <2>2. CASE TxTaken(m)
    BY <1>4, <2>2, TakenPreserves, Zenon DEF mctp_message_tx, TxTaken
  <2> QED
    BY <1>4, <2>1, <2>2, Zenon DEF mctp_message_tx
<1>5. CASE TxBusy \/ BindingEnables \/ BindingDisables \/ UNCHANGED vars
  BY <1>5, QuietPreserves, Zenon DEF TxBusy, BindingEnables, BindingDisables, vars, busVars,
                              historyVars
<1>6. CASE mctp_register_bus \/ mctp_unregister_bus \/ mctp_destroy
  BY <1>6, QuietPreserves, Zenon DEF mctp_register_bus, mctp_unregister_bus, mctp_destroy,
                              busVars, historyVars
<1> QED
  BY <1>1, <1>2, <1>3, <1>4, <1>5, <1>6, Zenon DEF Next, mctp_send_tx_queue

\* The invariant holds in every state.
LEMMA WireInvariant == Spec => []WireInv
<1>1. Init => WireInv
  BY DEF Init, WireInv, WireType, OnlyGiven, Continues, BeginningHasLeft, WireOrder,
         EndMeansWhole
<1> QED
  BY <1>1, BusInvariant, NextWireInv, PTL DEF Spec

\* On every bus, whatever its binding does, the packets of a message leave in order,
\* without those of another between them, and numbered so that a receiver that
\* compares sequence numbers modulo four sees how far apart they lie.
THEOREM PacketsInOrder == Spec => []WireOrder
BY WireInvariant, PTL DEF WireInv

\* The packet that ends a message leaves only after all of the message before it,
\* from the SOM packet on, unless the binding has reported a packet as failed.
THEOREM EndOnlyAfterAll == Spec => []EndMeansWhole
BY WireInvariant, PTL DEF WireInv

\* A pending message is continued where it was left, after any number of busy
\* results and of calls that disable and enable transmission.
THEOREM ContinuedWhereLeft == Spec => []PositionMatchesWire
<1>1. BusInv /\ WireInv => PositionMatchesWire
  <2> SUFFICES ASSUME BusInv, WireInv, tx_msg # NoMessage, tx_msg \notin spoilt
               PROVE  PositionMatchesWire
    BY Zenon DEF PositionMatchesWire
  <2>1. wire \in Seq(SentPackets) /\ DOMAIN wire = 1..Len(wire) /\ Len(wire) \in Nat
    BY DEF WireInv, WireType
  <2>2. CASE tx_msgpos = 0
    BY <2>1, <2>2, Zenon DEF WireInv, BeginningHasLeft, PositionMatchesWire
  <2>3. CASE tx_msgpos # 0
    <3>1. PICK s \in 1..Len(wire) : Beginning(s, Len(wire), tx_msg)
      BY <2>3, Zenon DEF WireInv, BeginningHasLeft
    <3>2. wire # <<>> /\ wire[Len(wire)].msg = tx_msg /\ ~wire[Len(wire)].eom
      BY <2>1, <3>1 DEF Beginning
    <3>3. /\ wire[Len(wire)].pos + wire[Len(wire)].len = tx_msgpos
          /\ tx_seq = (wire[Len(wire)].seq + 1) % 4
      BY <2>3, Zenon DEF WireInv, BeginningHasLeft
    <3> QED
      BY <2>3, <3>2, <3>3, Zenon DEF PositionMatchesWire
  <2> QED
    BY <2>2, <2>3, Zenon
<1> QED
  BY <1>1, BusInvariant, WireInvariant, PTL

-----------------------------------------------------------------------------
\* The k-th place of the stream of packets: a packet on the wire, or what the sender
\* sends next.
At(k) ==
  IF k <= Len(wire)
    THEN [msg |-> wire[k].msg, pos |-> wire[k].pos, seq |-> wire[k].seq]
    ELSE [msg |-> tx_msg, pos |-> tx_msgpos, seq |-> tx_seq]

\* A packet as mctp_next_tx_pkt builds it.
WellBuilt(p) ==
  /\ p.som <=> p.pos = 0
  /\ p.eom <=> p.pos + p.len = p.msg.len
  /\ p.pos + p.len <= p.msg.len /\ p.len <= PktPayload
  /\ ~p.eom => p.len = PktPayload

\* The sender and the link.
LinkInv ==
  /\ BusInv /\ WireInv
  /\ \A k \in 1..Len(wire) : WellBuilt(wire[k])
  /\ taken \in 0..Len(wire) /\ lost \in Nat
  /\ spoilt \subseteq given

Received == {AsReceived(w) : w \in SentPackets}

Tags == {m.tag : m \in Messages} \cup {0}

Context ==
  [alloc : BOOLEAN, src : Nat, dest : Nat, tag : Tags, last_seq : 0..3,
   buf : Seq(Received), buf_size : Nat, buf_alloc_size : Nat, fragment_size : Nat]

\* Context i collects a message with tag t.
Holds(i, t) == msg_ctxs[i].alloc /\ msg_ctxs[i].tag = t

\* The receiver has one peer and one buffer size, and a context per tag at most.
ReceiverInv ==
  /\ eid = ReceiverEid /\ max_message_size = MaxMessageSize
  /\ msg_ctxs \in [1..Ctxs -> Context]
  /\ \A i \in 1..Ctxs : msg_ctxs[i].alloc =>
       /\ msg_ctxs[i].src = SenderEid /\ msg_ctxs[i].dest = ReceiverEid
       /\ msg_ctxs[i].buf_alloc_size = MaxMessageSize
  /\ \A i, j \in 1..Ctxs :
       msg_ctxs[i].alloc /\ msg_ctxs[j].alloc /\ msg_ctxs[i].tag = msg_ctxs[j].tag
         => i = j

-----------------------------------------------------------------------------
\* The packet that is built next is well built.
LEMMA NextWellBuilt ==
  ASSUME BusInv, sending, mctp_tx_complete, NEW p, p = mctp_next_tx_pkt
  PROVE  WellBuilt(p)
<1>1. /\ p \in SentPackets /\ p.msg = tx_msg /\ p.pos = tx_msgpos
      /\ p.som <=> tx_msgpos = 0
      /\ p.eom <=> tx_msg' = NoMessage
      /\ p.eom => p.pos + p.len = tx_msg.len
      /\ tx_msg' # NoMessage => p.len = PktPayload
  BY NextPacket, Zenon
<1>2. /\ tx_msg \in Messages /\ tx_msg.len \in Nat /\ tx_msg # NoMessage
      /\ tx_msgpos \in Nat /\ tx_msgpos <= tx_msg.len /\ PktPayload \in Nat \ {0}
  BY TxAssumption DEF BusInv, TypeOK, SendingOnBus, Within
<1>3. p.len = MinOf(tx_msg.len - tx_msgpos, PktPayload)
  BY Zenon DEF mctp_next_tx_pkt
<1>4. p.len \in Nat /\ p.len <= PktPayload /\ p.pos + p.len <= tx_msg.len
  BY <1>1, <1>2, <1>3 DEF MinOf
<1>5. p.eom <=> p.pos + p.len = tx_msg.len
  <2>1. tx_msgpos' = tx_msgpos + p.len
    BY CompleteFacts, Zenon
  <2>2. p.pos + p.len = tx_msg.len => tx_msg' = NoMessage
    <3>1. \/ tx_msgpos' >= tx_msg.len /\ tx_msg' = NoMessage
          \/ tx_msgpos' < tx_msg.len
      BY CompleteFacts, Zenon
    <3> QED
      BY <1>1, <1>2, <1>4, <2>1, <3>1
  <2> QED
    BY <1>1, <2>2, Zenon
<1> QED
  BY <1>1, <1>4, <1>5, Zenon DEF WellBuilt

\* What is next on the stream, on the wire and beyond it.
LEMMA AtFacts ==
  ASSUME WireType, NEW k \in Nat
  PROVE  /\ k <= Len(wire) => /\ At(k).msg = wire[k].msg /\ At(k).pos = wire[k].pos
                              /\ At(k).seq = wire[k].seq
         /\ k = Len(wire) + 1 => /\ At(k).msg = tx_msg /\ At(k).pos = tx_msgpos
                                 /\ At(k).seq = tx_seq
BY DEF At, WireType

\* A step of the transfer is a step of the sender, or leaves it alone.
LEMMA SenderSteps == [TransferNext]_transferVars => [Next]_vars
BY Zenon DEF TransferNext, transferVars, SendMessage, SendPacket, FailPacket, ToggleBinding,
       ReceivePacket, LosePacket, Next, mctp_send_tx_queue

\* A step of the transfer keeps the sender and the link sound.
LEMMA NextLinkInv == LinkInv /\ [TransferNext]_transferVars => LinkInv'
<1> SUFFICES ASSUME LinkInv, [TransferNext]_transferVars
             PROVE  LinkInv'
  BY Zenon
<1>1. BusInv' /\ WireInv'
  BY SenderSteps, NextBusInv, NextWireInv, Zenon DEF LinkInv
<1>2. wire \in Seq(SentPackets) /\ Len(wire) \in Nat /\ taken \in 0..Len(wire)
      /\ lost \in Nat /\ spoilt \subseteq given
  BY DEF LinkInv, WireInv, WireType
<1>3. CASE TxSent /\ SendPacket
  <2>1. PICK p : p = mctp_next_tx_pkt
    BY Zenon
  <2>2. WellBuilt(p) /\ p \in SentPackets /\ wire' = Append(wire, p)
    BY <1>3, <2>1, NextWellBuilt, NextPacket, Zenon DEF LinkInv, TxSent
  <2>3. \A k \in 1..Len(wire') : WellBuilt(wire'[k])
    <3>1. Len(wire') = Len(wire) + 1 /\ wire'[Len(wire) + 1] = p
          /\ \A k \in 1..Len(wire) : wire'[k] = wire[k]
      BY <1>2, <2>2
    <3> QED
      BY <1>2, <2>2, <3>1 DEF LinkInv
  <2>4. taken' \in 0..Len(wire') /\ lost' \in Nat /\ spoilt' \subseteq given'
    BY <1>2, <1>3, <2>2 DEF SendPacket, TxSent
  <2> QED
    BY <1>1, <2>3, <2>4, Zenon DEF LinkInv, WellBuilt
<1>4. CASE UNCHANGED wire
  <2>1. taken' \in 0..Len(wire) /\ lost' \in Nat
    BY <1>2, <1>4 DEF TransferNext, transferVars, SendMessage, SendPacket, FailPacket,
       ToggleBinding, ReceivePacket, LosePacket
  <2>2. spoilt' \subseteq given'
    <3>1. CASE FailPacket
      BY <1>2, <3>1, Zenon DEF FailPacket, TxError, LinkInv, WireInv, OnlyGiven, BusInv,
                        SendingOnBus
    <3>2. CASE ~FailPacket
      BY <1>2, <3>2, Zenon DEF TransferNext, transferVars, SendMessage, SendPacket,
         ToggleBinding, ReceivePacket, LosePacket, mctp_message_tx, TxFreed, TxTaken, TxSent,
         TxBusy, BindingEnables, BindingDisables, vars, busVars, historyVars
    <3> QED
      BY <3>1, <3>2, Zenon
  <2> QED
    BY <1>1, <1>4, <2>1, <2>2, Zenon DEF LinkInv, WellBuilt
<1> QED
  BY <1>3, <1>4, Zenon DEF TransferNext, transferVars, SendMessage, SendPacket, FailPacket,
     ToggleBinding, ReceivePacket, LosePacket, mctp_message_tx, TxFreed, TxTaken, TxBusy,
     TxError, BindingEnables, BindingDisables, vars, historyVars, TxSent

-----------------------------------------------------------------------------
\* What mctp_bus_rx does to packet p of the stream, case by case, in terms of the
\* packet that was sent.

\* The message given to mctp_rx.
Up(p, buf, len) ==
  [src |-> SenderEid, dest |-> ReceiverEid, to |-> p.msg.to, tag |-> p.msg.tag,
   buf |-> buf, len |-> len]

\* Context c belongs to the message of packet p.
BelongsTo(c, p) ==
  /\ c \in Context /\ c.alloc /\ c.src = SenderEid /\ c.dest = ReceiverEid
  /\ c.tag = p.msg.tag /\ c.buf_alloc_size = MaxMessageSize

\* The context a start packet leaves, and what a later packet makes of it.
Opened(c, p) ==
  /\ BelongsTo(c, p)
  /\ c.buf = <<AsReceived(p)>> /\ c.buf_size = p.len
  /\ c.fragment_size = p.len + 4 /\ c.last_seq = p.seq

Extended(c, p) ==
  [c EXCEPT !.buf = Append(c.buf, AsReceived(p)), !.buf_size = c.buf_size + p.len,
            !.last_seq = p.seq]

\* The checks on a packet that continues a message.
Continuing(c, p) ==
  /\ p.seq = (c.last_seq + 1) % 4
  /\ IF p.eom THEN p.len + 4 <= c.fragment_size ELSE p.len + 4 = c.fragment_size
  /\ c.buf_size + p.len <= c.buf_alloc_size

SetTo(i, c) == msg_ctxs' = [msg_ctxs EXCEPT ![i] = c]

NotTaken(p) ==
  /\ rx' = <<>> /\ UNCHANGED msg_ctxs
  /\ IF p.som THEN lost' = lost + 1
              ELSE lost' = lost /\ \A i \in 1..Ctxs : ~Holds(i, p.msg.tag)

TakenAlone(p) ==
  /\ p.som /\ p.eom /\ UNCHANGED <<msg_ctxs, lost>>
  /\ rx' = <<Up(p, <<AsReceived(p)>>, p.len)>>

Opens(p, i) ==
  /\ p.som /\ ~p.eom /\ rx' = <<>> /\ lost' \in {lost, lost + 1}
  /\ \/ Holds(i, p.msg.tag)
     \/ ~msg_ctxs[i].alloc /\ \A j \in 1..Ctxs : ~Holds(j, p.msg.tag)
  /\ IF p.len <= MaxMessageSize THEN \E c \in Context : Opened(c, p) /\ SetTo(i, c)
                                 ELSE SetTo(i, Rx!FreeCtx)

Extends(p, i) ==
  /\ ~p.som /\ ~p.eom /\ rx' = <<>> /\ lost' = lost
  /\ Holds(i, p.msg.tag) /\ Continuing(msg_ctxs[i], p)
  /\ SetTo(i, Extended(msg_ctxs[i], p))

Completes(p, i) ==
  /\ ~p.som /\ p.eom /\ lost' = lost
  /\ Holds(i, p.msg.tag) /\ Continuing(msg_ctxs[i], p)
  /\ rx' = <<Up(p, Append(msg_ctxs[i].buf, AsReceived(p)), msg_ctxs[i].buf_size + p.len)>>
  /\ SetTo(i, Rx!FreeCtx)

Drops(p, i) ==
  /\ ~p.som /\ rx' = <<>> /\ lost' = lost
  /\ Holds(i, p.msg.tag) /\ ~Continuing(msg_ctxs[i], p)
  /\ SetTo(i, Rx!FreeCtx)

Outcome(p) ==
  \/ NotTaken(p)
  \/ TakenAlone(p)
  \/ \E i \in 1..Ctxs : Opens(p, i) \/ Extends(p, i) \/ Completes(p, i) \/ Drops(p, i)

-----------------------------------------------------------------------------
\* The header fields the receiver reads back.
LEMMA ReadBack ==
  ASSUME NEW p \in SentPackets, NEW r, r = AsReceived(p)
  PROVE  /\ r.src = 9 /\ r.dest = 8 /\ r.to = p.msg.to /\ r.tag = p.msg.tag
         /\ r.seq = p.seq /\ r.som = p.som /\ r.eom = p.eom /\ r.size = p.len + 4
         /\ r.msg = p.msg /\ r.pos = p.pos
         /\ Rx!PayloadLen(r) = p.len
<1>1. /\ r.src = 9 /\ r.dest = 8 /\ r.to = p.msg.to /\ r.tag = p.msg.tag
      /\ r.seq = p.seq /\ r.som = p.som /\ r.eom = p.eom /\ r.size = p.len + 4
      /\ r.msg = p.msg /\ r.pos = p.pos
  BY Zenon DEF AsReceived, SenderEid, ReceiverEid
<1>2. p.len \in Nat
  BY Zenon DEF SentPackets
<1> QED
  BY <1>1, <1>2 DEF Rx!PayloadLen, Rx!HdrSize

\* mctp_msg_ctx_lookup finds the context that collects the packet's tag, if any.
LEMMA LookupByTag ==
  ASSUME ReceiverInv, NEW p \in SentPackets, NEW r, r = AsReceived(p)
  PROVE  /\ \A i \in Rx!mctp_msg_ctx_lookup(r) : i \in 1..Ctxs /\ Holds(i, p.msg.tag)
         /\ Rx!mctp_msg_ctx_lookup(r) = {} => \A i \in 1..Ctxs : ~Holds(i, p.msg.tag)
<1> DEFINE matching == {j \in Rx!Slots : msg_ctxs[j].alloc /\ Rx!SameKey(msg_ctxs[j], r)}
<1>1. Rx!mctp_msg_ctx_lookup(r) = {i \in Rx!Slots : Rx!IsFirst(i, matching)}
  BY Zenon DEF Rx!mctp_msg_ctx_lookup
<1>2. matching = {j \in 1..Ctxs : Holds(j, p.msg.tag)}
  BY ReadBack DEF ReceiverInv, Holds, Rx!SameKey, Rx!Slots, SenderEid, ReceiverEid
<1> HIDE DEF matching
<1>3. \A i \in Rx!mctp_msg_ctx_lookup(r) : i \in matching
  BY <1>1, Zenon DEF Rx!IsFirst
<1>4. Rx!mctp_msg_ctx_lookup(r) = {} => matching = {}
  <2> SUFFICES ASSUME NEW i \in matching
               PROVE  i \in Rx!mctp_msg_ctx_lookup(r)
    BY Zenon
  <2>1. \A j \in matching : i = j
    BY <1>2, Zenon DEF ReceiverInv, Holds
  <2>2. i \in 1..Ctxs /\ i \in Nat
    BY <1>2, TransferAssumption
  <2> QED
    BY <1>1, <2>1, <2>2 DEF Rx!IsFirst, Rx!Slots
<1> QED
  BY <1>2, <1>3, <1>4, Zenon

\* The receiver accepts what the sender sends.
LEMMA AlwaysAccepted ==
  ASSUME ReceiverInv, NEW p \in SentPackets, NEW r, r = AsReceived(p)
  PROVE  Rx!Accepted(r)
<1>1. p.len \in Nat
  BY Zenon DEF SentPackets
<1> QED
  BY <1>1, ReadBack DEF ReceiverInv, Rx!Accepted, Rx!mctp_rx_dest_is_local, Rx!HdrSize,
                        Rx!MCTP_EID_BROADCAST, Rx!MCTP_EID_NULL, ReceiverEid

\* A start packet opens a context, or frees it when its buffer is too small.
LEMMA StartedIs ==
  ASSUME NEW p \in SentPackets, NEW r, r = AsReceived(p), NEW c, BelongsTo(c, p),
         c.buf = <<>>, c.buf_size = 0
  PROVE  IF p.len <= MaxMessageSize THEN Opened(Rx!Started(c, r), p)
                                    ELSE Rx!Started(c, r) = Rx!FreeCtx
<1>1. p.len \in Nat /\ p.seq \in 0..3 /\ c \in Context
  BY Zenon DEF SentPackets, BelongsTo
<1>2. Rx!PayloadLen(r) = p.len /\ r.size = p.len + 4 /\ r.seq = p.seq
  BY ReadBack, Zenon
<1>3. Rx!Fits(c, r) <=> p.len <= MaxMessageSize
  BY <1>1, <1>2 DEF Rx!Fits, BelongsTo
<1>4. CASE p.len <= MaxMessageSize
  <2>1. Append(c.buf, r) = <<r>> /\ c.buf_size + Rx!PayloadLen(r) = p.len
    BY <1>1, <1>2
  <2>2. PICK d : d = [c EXCEPT !.buf = <<r>>, !.buf_size = p.len,
                               !.fragment_size = p.len + 4, !.last_seq = p.seq]
    BY Zenon
  <2>3. Rx!Started(c, r) = d
    BY <1>1, <1>2, <1>3, <1>4, <2>1, <2>2, Zenon DEF Rx!Started, Rx!mctp_msg_ctx_add_pkt, Context
  <2>4. d \in Context
    <3>1. <<r>> \in Seq(Received) /\ p.len + 4 \in Nat
      BY <1>1 DEF Received
    <3> QED
      BY <1>1, <2>2, <3>1, Zenon DEF Context
  <2>5. /\ d.src = c.src /\ d.dest = c.dest /\ d.tag = c.tag /\ d.alloc = c.alloc
        /\ d.buf = <<r>> /\ d.buf_size = p.len /\ d.buf_alloc_size = c.buf_alloc_size
        /\ d.fragment_size = p.len + 4 /\ d.last_seq = p.seq
    BY <1>1, <2>2, Zenon DEF Context
  <2>6. Opened(d, p)
    BY <2>4, <2>5, Zenon DEF Opened, BelongsTo
  <2> QED
    BY <1>4, <2>3, <2>6, Zenon
<1>5. CASE ~(p.len <= MaxMessageSize)
  BY <1>3, <1>5, Zenon DEF Rx!Started
<1> QED
  BY <1>4, <1>5, Zenon

\* A context that is not in use.
LEMMA FreeContext == Rx!FreeCtx \in Context /\ ~Rx!FreeCtx.alloc
<1>1. 0 \in Tags
  BY Zenon DEF Tags
<1> QED
  BY <1>1 DEF Rx!FreeCtx, Context

\* A spare context as mctp_msg_ctx_create fills it.
LEMMA CreatedIs ==
  ASSUME ReceiverInv, NEW p \in SentPackets, NEW r, r = AsReceived(p),
         NEW c, c = Rx!mctp_msg_ctx_create(r)
  PROVE  BelongsTo(c, p) /\ c.buf = <<>> /\ c.buf_size = 0
<1>1. p.msg.tag \in Tags /\ r.src = 9 /\ r.dest = 8 /\ r.tag = p.msg.tag
  BY ReadBack, Zenon DEF SentPackets, Tags
<1>2. PICK f \in Context : f = Rx!FreeCtx
  BY FreeContext, Zenon
<1>3. f.buf = <<>> /\ f.buf_size = 0
  BY <1>2, Zenon DEF Rx!FreeCtx
<1>4. c = [f EXCEPT !.alloc = TRUE, !.src = 9, !.dest = 8, !.tag = p.msg.tag,
                    !.buf_alloc_size = MaxMessageSize]
  BY <1>1, <1>2, Zenon DEF Rx!mctp_msg_ctx_create, ReceiverInv
<1>5. c \in Context
  <2>1. MaxMessageSize \in Nat /\ 9 \in Nat /\ 8 \in Nat
    BY TransferAssumption, Zenon
  <2>2. [f EXCEPT !.alloc = TRUE, !.src = 9, !.dest = 8, !.tag = p.msg.tag,
                  !.buf_alloc_size = MaxMessageSize] \in Context
    BY <1>1, <2>1, Zenon DEF Context
  <2> QED
    BY <1>4, <2>2, Zenon
<1>6. /\ c.src = 9 /\ c.dest = 8 /\ c.tag = p.msg.tag /\ c.alloc
      /\ c.buf_alloc_size = MaxMessageSize /\ c.buf = f.buf /\ c.buf_size = f.buf_size
  BY <1>4, Zenon DEF Context
<1> QED
  BY <1>3, <1>5, <1>6, Zenon DEF BelongsTo, SenderEid, ReceiverEid

\* A context that restarts.
LEMMA ResetIs ==
  ASSUME NEW p, NEW c, BelongsTo(c, p), NEW d, d = Rx!mctp_msg_ctx_reset(c)
  PROVE  BelongsTo(d, p) /\ d.buf = <<>> /\ d.buf_size = 0
<1>1. d = [c EXCEPT !.buf = <<>>, !.buf_size = 0, !.fragment_size = 0] /\ c \in Context
  BY Zenon DEF Rx!mctp_msg_ctx_reset, BelongsTo
<1>2. d \in Context
  <2>0. <<>> \in Seq(Received)
    OBVIOUS
  <2>1. PICK e \in Seq(Received) : e = <<>>
    BY <2>0, Zenon
  <2>2. [c EXCEPT !.buf = e, !.buf_size = 0, !.fragment_size = 0] \in Context
    BY <1>1, <2>1, Zenon DEF Context
  <2> QED
    BY <1>1, <2>1, <2>2, Zenon
<1>3. /\ d.src = c.src /\ d.dest = c.dest /\ d.tag = c.tag /\ d.alloc = c.alloc
      /\ d.buf = <<>> /\ d.buf_size = 0 /\ d.buf_alloc_size = c.buf_alloc_size
  BY <1>1, Zenon DEF Context
<1> QED
  BY <1>2, <1>3, Zenon DEF BelongsTo

\* A context that holds a packet's tag belongs to its message.
LEMMA HoldsBelongs ==
  ASSUME ReceiverInv, NEW p, NEW i \in 1..Ctxs, Holds(i, p.msg.tag)
  PROVE  BelongsTo(msg_ctxs[i], p)
BY Zenon DEF ReceiverInv, Holds, BelongsTo

\* A packet that continues a message passes the checks of mctp_bus_rx if it is
\* continuing, and the context it extends stays one of the same message.
LEMMA ContinuingChecks ==
  ASSUME NEW p \in SentPackets, NEW r, r = AsReceived(p), NEW c \in Context
  PROVE  /\ ~p.eom => (Continuing(c, p) <=> /\ Rx!InSequence(c, r) /\ Rx!MiddleSize(c, r)
                                            /\ Rx!Fits(c, r))
         /\ p.eom => (Continuing(c, p) <=> /\ Rx!InSequence(c, r) /\ Rx!EndSize(c, r)
                                           /\ Rx!Fits(c, r))
<1>1. r.seq = p.seq /\ r.size = p.len + 4 /\ Rx!PayloadLen(r) = p.len
  BY ReadBack, Zenon
<1> QED
  BY <1>1, Zenon DEF Continuing, Rx!InSequence, Rx!MiddleSize, Rx!EndSize, Rx!Fits

\* What copying a packet into a context makes of it.
LEMMA ExtendedIs ==
  ASSUME NEW p \in SentPackets, NEW r, r = AsReceived(p), NEW c \in Context
  PROVE  /\ [Rx!mctp_msg_ctx_add_pkt(c, r) EXCEPT !.last_seq = r.seq] = Extended(c, p)
         /\ Rx!mctp_msg_ctx_add_pkt(c, r).buf = Append(c.buf, r)
         /\ Rx!mctp_msg_ctx_add_pkt(c, r).buf_size = c.buf_size + p.len
<1>1. r.seq = p.seq /\ Rx!PayloadLen(r) = p.len
  BY ReadBack, Zenon
<1>2. Rx!mctp_msg_ctx_add_pkt(c, r) =
        [c EXCEPT !.buf = Append(c.buf, r), !.buf_size = c.buf_size + p.len]
  BY <1>1, Zenon DEF Rx!mctp_msg_ctx_add_pkt
<1> QED
  BY <1>1, <1>2, Zenon DEF Extended, Context

\* The fields of a context that was extended.
LEMMA ExtendedFields ==
  ASSUME NEW p \in SentPackets, NEW c \in Context, NEW d, d = Extended(c, p)
  PROVE  /\ d \in Context /\ d.alloc = c.alloc /\ d.src = c.src /\ d.dest = c.dest
         /\ d.tag = c.tag /\ d.buf_alloc_size = c.buf_alloc_size
         /\ d.fragment_size = c.fragment_size /\ d.last_seq = p.seq
         /\ d.buf_size = c.buf_size + p.len /\ d.buf = Append(c.buf, AsReceived(p))
<1>1. p.len \in Nat /\ p.seq \in 0..3 /\ c.buf_size \in Nat /\ c.buf \in Seq(Received)
  BY Zenon DEF SentPackets, Context
<1>2. PICK r \in Received : r = AsReceived(p)
  BY Zenon DEF Received
<1>3. Append(c.buf, r) \in Seq(Received) /\ c.buf_size + p.len \in Nat
  BY <1>1
<1>4. d = [c EXCEPT !.buf = Append(c.buf, r), !.buf_size = c.buf_size + p.len,
                    !.last_seq = p.seq]
  BY <1>2, Zenon DEF Extended
<1>5. d \in Context
  BY <1>1, <1>3, <1>4, Zenon DEF Context
<1> QED
  BY <1>2, <1>4, <1>5, Zenon DEF Context

\* The slot mctp_msg_ctx_create takes is not in use.
LEMMA SpareSlot ==
  ASSUME NEW i \in Rx!SpareCtx
  PROVE  i \in 1..Ctxs /\ ~msg_ctxs[i].alloc
BY Zenon DEF Rx!SpareCtx, Rx!IsFirst, Rx!Slots

\* What receiving packet p comes to.
LEMMA ReceiveOutcome ==
  ASSUME LinkInv, ReceiverInv, ReceivePacket, NEW p, p = wire[taken + 1]
  PROVE  /\ p \in SentPackets /\ Outcome(p)
         /\ taken' = taken + 1 /\ taken + 1 \in 1..Len(wire)
         /\ delivered' = delivered \o rx' /\ lost' <= MaxLost
         /\ UNCHANGED <<vars, eid, max_message_size, sent>>
<1>1. /\ taken + 1 \in 1..Len(wire) /\ wire \in Seq(SentPackets) /\ lost \in Nat
  BY DEF LinkInv, WireInv, WireType, ReceivePacket
<1>2. p \in SentPackets
  BY <1>1
<1>3. PICK r : r = AsReceived(p)
  BY Zenon
<1>4. /\ Rx!mctp_bus_rx(r)
      /\ lost' = IF r.som /\ rx' = <<>> /\ msg_ctxs' = msg_ctxs THEN lost + 1 ELSE lost
      /\ taken' = taken + 1 /\ delivered' = delivered \o rx' /\ lost' <= MaxLost
      /\ UNCHANGED <<vars, sent>>
  BY <1>3, Zenon DEF ReceivePacket
<1>5. UNCHANGED <<eid, max_message_size>>
  BY <1>4, Zenon DEF Rx!mctp_bus_rx
<1> SUFFICES Outcome(p)
  BY <1>1, <1>2, <1>4, <1>5, Zenon
<1>6. /\ r.tag = p.msg.tag /\ r.to = p.msg.to /\ r.src = SenderEid /\ r.dest = ReceiverEid
      /\ (r.som <=> p.som) /\ (r.eom <=> p.eom) /\ Rx!PayloadLen(r) = p.len
  BY <1>2, <1>3, ReadBack, Zenon DEF SenderEid, ReceiverEid
<1>7. lost' \in {lost, lost + 1} /\ (~p.som => lost' = lost)
  BY <1>4, <1>6, Zenon
<1>8. \A buf, len : Rx!Message(r, buf, len) = Up(p, buf, len)
  BY <1>6, Zenon DEF Rx!Message, Up
<1>9. ~Rx!RxIgnored(r)
  BY <1>2, <1>3, AlwaysAccepted, Zenon DEF Rx!RxIgnored
<1>10. CASE Rx!RxSingle(r)
  <2>1. /\ p.som /\ p.eom /\ UNCHANGED msg_ctxs
        /\ rx' = <<>> \/ rx' = <<Up(p, <<r>>, p.len)>>
    BY <1>6, <1>8, <1>10, Zenon DEF Rx!RxSingle
  <2>2. CASE rx' = <<>>
    BY <1>4, <1>6, <2>1, <2>2, Zenon DEF Outcome, NotTaken
  <2>3. CASE rx' = <<Up(p, <<r>>, p.len)>>
    <3>1. rx' # <<>>
      BY <2>3, Zenon
    <3> QED
      BY <1>3, <1>4, <2>1, <2>3, <3>1, Zenon DEF Outcome, TakenAlone
  <2> QED
    BY <2>1, <2>2, <2>3, Zenon
<1>11. CASE Rx!RxRestart(r)
  <2>1. PICK i \in Rx!mctp_msg_ctx_lookup(r) :
          Rx!SetCtx(i, Rx!Started(Rx!mctp_msg_ctx_reset(msg_ctxs[i]), r))
    BY <1>11, Zenon DEF Rx!RxRestart
  <2>2. i \in 1..Ctxs /\ Holds(i, p.msg.tag) /\ p.som /\ ~p.eom /\ rx' = <<>>
    BY <1>2, <1>3, <1>6, <1>11, LookupByTag, Zenon DEF Rx!RxRestart
  <2>3. PICK c : c = Rx!mctp_msg_ctx_reset(msg_ctxs[i])
    BY Zenon
  <2>4. BelongsTo(c, p) /\ c.buf = <<>> /\ c.buf_size = 0
    <3>1. PICK b : b = msg_ctxs[i] /\ BelongsTo(b, p)
      BY <2>2, HoldsBelongs, Zenon
    <3>2. c = Rx!mctp_msg_ctx_reset(b)
      BY <2>3, <3>1, Zenon
    <3> QED
      BY <3>1, <3>2, ResetIs
  <2>5. PICK d : d = Rx!Started(c, r)
    BY Zenon
  <2>6. IF p.len <= MaxMessageSize THEN Opened(d, p) ELSE d = Rx!FreeCtx
    BY <1>2, <1>3, <2>4, <2>5, StartedIs, Zenon
  <2>7. SetTo(i, d)
    BY <2>1, <2>3, <2>5, Zenon DEF SetTo, Rx!SetCtx
  <2>8. Opens(p, i)
    BY <1>7, <2>2, <2>6, <2>7, Zenon DEF Opens, Opened, BelongsTo
  <2> QED
    BY <2>2, <2>8, Zenon DEF Outcome
<1>12. CASE Rx!RxStart(r)
  <2>1. p.som /\ ~p.eom /\ rx' = <<>> /\ \A j \in 1..Ctxs : ~Holds(j, p.msg.tag)
    BY <1>2, <1>3, <1>6, <1>12, LookupByTag, Zenon DEF Rx!RxStart
  <2>2. CASE UNCHANGED msg_ctxs
    BY <1>4, <1>6, <2>1, <2>2, Zenon DEF Outcome, NotTaken
  <2>3. CASE ~UNCHANGED msg_ctxs
    <3>1. PICK i \in Rx!SpareCtx : Rx!SetCtx(i, Rx!Started(Rx!mctp_msg_ctx_create(r), r))
      BY <1>12, <2>3, Zenon DEF Rx!RxStart
    <3>2. i \in 1..Ctxs /\ ~msg_ctxs[i].alloc
      BY SpareSlot, Zenon
    <3>3. PICK c : c = Rx!mctp_msg_ctx_create(r)
      BY Zenon
    <3>4. BelongsTo(c, p) /\ c.buf = <<>> /\ c.buf_size = 0
      BY <1>2, <1>3, <3>3, CreatedIs, Zenon
    <3>5. PICK d : d = Rx!Started(c, r)
      BY Zenon
    <3>6. IF p.len <= MaxMessageSize THEN Opened(d, p) ELSE d = Rx!FreeCtx
      BY <1>2, <1>3, <3>4, <3>5, StartedIs, Zenon
    <3>7. SetTo(i, d)
      BY <3>1, <3>3, <3>5, Zenon DEF SetTo, Rx!SetCtx
    <3>8. Opens(p, i)
      BY <1>7, <2>1, <3>2, <3>6, <3>7, Zenon DEF Opens, Opened, BelongsTo
    <3> QED
      BY <3>2, <3>8, Zenon DEF Outcome
  <2> QED
    BY <2>2, <2>3, Zenon
<1>13. CASE Rx!RxMiddle(r)
  <2>1. PICK i \in Rx!mctp_msg_ctx_lookup(r) :
          IF /\ Rx!InSequence(msg_ctxs[i], r) /\ Rx!MiddleSize(msg_ctxs[i], r)
             /\ Rx!Fits(msg_ctxs[i], r)
            THEN Rx!SetCtx(i, [Rx!mctp_msg_ctx_add_pkt(msg_ctxs[i], r)
                                 EXCEPT !.last_seq = r.seq])
            ELSE Rx!SetCtx(i, Rx!FreeCtx)
    BY <1>13, Zenon DEF Rx!RxMiddle
  <2>2. i \in 1..Ctxs /\ Holds(i, p.msg.tag) /\ ~p.som /\ ~p.eom /\ rx' = <<>>
    BY <1>2, <1>3, <1>6, <1>13, LookupByTag, Zenon DEF Rx!RxMiddle
  <2>3. PICK c \in Context : c = msg_ctxs[i]
    BY <2>2, Zenon DEF ReceiverInv
  <2>4. IF Continuing(c, p) THEN SetTo(i, Extended(c, p)) ELSE SetTo(i, Rx!FreeCtx)
    BY <1>2, <1>3, <2>1, <2>2, <2>3, ContinuingChecks, ExtendedIs DEF SetTo, Rx!SetCtx
  <2>5. Extends(p, i) \/ Drops(p, i)
    BY <1>7, <2>2, <2>3, <2>4 DEF Extends, Drops
  <2> QED
    BY <2>2, <2>5, Zenon DEF Outcome
<1>14. CASE Rx!RxEnd(r)
  <2>1. PICK i \in Rx!mctp_msg_ctx_lookup(r) :
          LET done == Rx!mctp_msg_ctx_add_pkt(msg_ctxs[i], r) IN
          /\ rx' = IF /\ Rx!InSequence(msg_ctxs[i], r) /\ Rx!EndSize(msg_ctxs[i], r)
                      /\ Rx!Fits(msg_ctxs[i], r)
                     THEN <<Rx!Message(r, done.buf, done.buf_size)>> ELSE <<>>
          /\ Rx!SetCtx(i, Rx!FreeCtx)
    BY <1>14, Zenon DEF Rx!RxEnd
  <2>2. i \in 1..Ctxs /\ Holds(i, p.msg.tag) /\ ~p.som /\ p.eom
    BY <1>2, <1>3, <1>6, <1>14, LookupByTag DEF Rx!RxEnd
  <2>3. PICK c \in Context : c = msg_ctxs[i]
    BY <2>2, Zenon DEF ReceiverInv
  <2>4. PICK done : done = Rx!mctp_msg_ctx_add_pkt(c, r)
    BY Zenon
  <2>5. done.buf = Append(c.buf, r) /\ done.buf_size = c.buf_size + p.len
    BY <1>2, <1>3, <2>4, ExtendedIs
  <2>6. /\ rx' = IF Continuing(c, p) THEN <<Rx!Message(r, done.buf, done.buf_size)>>
                                     ELSE <<>>
        /\ SetTo(i, Rx!FreeCtx)
    BY <1>2, <1>3, <2>1, <2>2, <2>3, <2>4, ContinuingChecks DEF SetTo, Rx!SetCtx
  <2>7. Completes(p, i) \/ Drops(p, i)
    BY <1>3, <1>7, <1>8, <2>2, <2>3, <2>5, <2>6 DEF Completes, Drops
  <2> QED
    BY <2>2, <2>7, Zenon DEF Outcome
<1>15. CASE Rx!RxStray(r)
  <2>1. ~p.som /\ rx' = <<>> /\ UNCHANGED msg_ctxs
        /\ \A j \in 1..Ctxs : ~Holds(j, p.msg.tag)
    BY <1>2, <1>3, <1>6, <1>15, LookupByTag, Zenon DEF Rx!RxStray
  <2> QED
    BY <1>7, <2>1, Zenon DEF Outcome, NotTaken
<1> QED
  BY <1>4, <1>9, <1>10, <1>11, <1>12, <1>13, <1>14, <1>15
     DEF Rx!mctp_bus_rx

\* Writing one context leaves the others alone.
LEMMA SetToFacts ==
  ASSUME ReceiverInv, NEW i \in 1..Ctxs, NEW c \in Context, SetTo(i, c)
  PROVE  /\ msg_ctxs' \in [1..Ctxs -> Context] /\ msg_ctxs'[i] = c
         /\ \A j \in 1..Ctxs : j # i => msg_ctxs'[j] = msg_ctxs[j]
BY Zenon DEF ReceiverInv, SetTo

\* Freeing a context, or writing one that belongs to a packet's message where no
\* other does, preserves the invariant of the receiver.
LEMMA SetToPreserves ==
  ASSUME ReceiverInv, NEW i \in 1..Ctxs, NEW c \in Context, SetTo(i, c),
         c.alloc => /\ c.src = SenderEid /\ c.dest = ReceiverEid
                    /\ c.buf_alloc_size = MaxMessageSize
                    /\ \A j \in 1..Ctxs : Holds(j, c.tag) => j = i,
         UNCHANGED <<eid, max_message_size>>
  PROVE  ReceiverInv'
<1>1. /\ msg_ctxs' \in [1..Ctxs -> Context] /\ msg_ctxs'[i] = c
      /\ \A j \in 1..Ctxs : j # i => msg_ctxs'[j] = msg_ctxs[j]
  BY SetToFacts, Zenon
<1>2. eid' = ReceiverEid /\ max_message_size' = MaxMessageSize
  BY Zenon DEF ReceiverInv
<1>3. \A j \in 1..Ctxs : msg_ctxs'[j].alloc =>
        /\ msg_ctxs'[j].src = SenderEid /\ msg_ctxs'[j].dest = ReceiverEid
        /\ msg_ctxs'[j].buf_alloc_size = MaxMessageSize
  BY <1>1, Zenon DEF ReceiverInv
<1>4. ASSUME NEW j \in 1..Ctxs, NEW k \in 1..Ctxs, msg_ctxs'[j].alloc, msg_ctxs'[k].alloc,
             msg_ctxs'[j].tag = msg_ctxs'[k].tag
      PROVE  j = k
  <2>1. CASE j = i /\ k # i
    BY <1>1, <1>4, <2>1, Zenon DEF Holds
  <2>2. CASE k = i /\ j # i
    BY <1>1, <1>4, <2>2, Zenon DEF Holds
  <2>3. CASE j # i /\ k # i
    BY <1>1, <1>4, <2>3, Zenon DEF ReceiverInv
  <2> QED
    BY <2>1, <2>2, <2>3, Zenon
<1> QED
  BY <1>1, <1>2, <1>3, <1>4, Zenon DEF ReceiverInv

\* A context that is freed preserves it too.
LEMMA FreePreserves ==
  ASSUME ReceiverInv, NEW i \in 1..Ctxs, SetTo(i, Rx!FreeCtx),
         UNCHANGED <<eid, max_message_size>>
  PROVE  ReceiverInv'
<1>1. PICK c \in Context : c = Rx!FreeCtx /\ ~c.alloc
  BY FreeContext, Zenon
<1>2. SetTo(i, c)
  BY <1>1, Zenon
<1> QED
  BY <1>1, <1>2, SetToPreserves, Zenon

\* No two contexts hold the same tag.
LEMMA OneHolder ==
  ASSUME ReceiverInv, NEW i \in 1..Ctxs, NEW j \in 1..Ctxs, NEW t, Holds(i, t), Holds(j, t)
  PROVE  i = j
BY Zenon DEF ReceiverInv, Holds

\* Whatever becomes of a packet, the invariant of the receiver is preserved.
LEMMA OutcomePreserves ==
  ASSUME ReceiverInv, NEW p \in SentPackets, Outcome(p), UNCHANGED <<eid, max_message_size>>
  PROVE  ReceiverInv'
<1>1. CASE UNCHANGED msg_ctxs
  BY <1>1, Zenon DEF ReceiverInv
<1>2. ASSUME NEW i \in 1..Ctxs, Opens(p, i)
      PROVE  ReceiverInv'
  <2>1. \A j \in 1..Ctxs : Holds(j, p.msg.tag) => j = i
    BY <1>2, OneHolder, Zenon DEF Opens
  <2>2. CASE p.len <= MaxMessageSize
    <3>1. PICK c \in Context : Opened(c, p) /\ SetTo(i, c)
      BY <1>2, <2>2, Zenon DEF Opens
    <3> QED
      BY <2>1, <3>1, SetToPreserves, Zenon DEF Opened, BelongsTo
  <2>3. CASE ~(p.len <= MaxMessageSize)
    BY <1>2, <2>3, FreePreserves, Zenon DEF Opens
  <2> QED
    BY <2>2, <2>3, Zenon
<1>3. ASSUME NEW i \in 1..Ctxs, Extends(p, i)
      PROVE  ReceiverInv'
  <2>1. PICK c \in Context : c = msg_ctxs[i]
    BY Zenon DEF ReceiverInv
  <2>2. PICK d : d = Extended(c, p)
    BY Zenon
  <2>3. Holds(i, p.msg.tag) /\ SetTo(i, d) /\ BelongsTo(c, p)
    BY <1>3, <2>1, <2>2, HoldsBelongs, Zenon DEF Extends
  <2>4. d \in Context /\ BelongsTo(d, p)
    BY <2>2, <2>3, ExtendedFields DEF BelongsTo
  <2>5. \A j \in 1..Ctxs : Holds(j, p.msg.tag) => j = i
    BY <2>3, OneHolder, Zenon
  <2> QED
    BY <2>3, <2>4, <2>5, SetToPreserves, Zenon DEF BelongsTo
<1>4. ASSUME NEW i \in 1..Ctxs, SetTo(i, Rx!FreeCtx)
      PROVE  ReceiverInv'
  BY <1>4, FreePreserves, Zenon
<1> QED
  BY <1>1, <1>2, <1>3, <1>4, Zenon DEF Outcome, NotTaken, TakenAlone, Completes, Drops

\* A step other than the receiver's leaves the contexts as they are.
LEMMA NextReceiverInv ==
  LinkInv /\ ReceiverInv /\ [TransferNext]_transferVars => ReceiverInv'
<1> SUFFICES ASSUME LinkInv, ReceiverInv, [TransferNext]_transferVars
             PROVE  ReceiverInv'
  BY Zenon
<1>1. CASE ReceivePacket
  <2>1. PICK p : p = wire[taken + 1]
    BY Zenon
  <2>2. p \in SentPackets /\ Outcome(p) /\ UNCHANGED <<eid, max_message_size>>
    BY <1>1, <2>1, ReceiveOutcome, Zenon
  <2> QED
    BY <2>2, OutcomePreserves, Zenon
<1>2. CASE UNCHANGED <<msg_ctxs, eid, max_message_size>>
  BY <1>2, Zenon DEF ReceiverInv
<1> QED
  BY <1>1, <1>2, Zenon DEF TransferNext, transferVars, receiverVars, SendMessage, SendPacket,
                    FailPacket, ToggleBinding, LosePacket

\* Both hold at the start, and so in every state.
LEMMA LinkInvariant == TransferSpec => [](LinkInv /\ ReceiverInv)
<1>1. TransferInit => LinkInv
  <2> SUFFICES ASSUME TransferInit PROVE LinkInv
    BY Zenon
  <2>1. frees \in [Messages -> Nat] /\ registered \in 0..MaxRegister
    BY TxAssumption, TransferAssumption DEF TransferInit
  <2>2. alive \in BOOLEAN /\ sending \in BOOLEAN /\ SendingOnBus
    BY Zenon DEF TransferInit, SendingOnBus
  <2>3. /\ n_busses = 1 /\ bus_state = "tx_enabled" /\ tx_msg = NoMessage
        /\ tx_msgpos = 0 /\ tx_seq = 0 /\ given = {} /\ spoilt = {} /\ abandoned = {}
        /\ wire = <<>> /\ taken = 0 /\ lost = 0
    BY Zenon DEF TransferInit
  <2>4. BusInv
    BY <2>1, <2>2, <2>3 DEF BusInv, TypeOK, Within
  <2>5. WireInv
    BY <2>3 DEF WireInv, WireType, OnlyGiven, Continues, BeginningHasLeft, WireOrder,
                EndMeansWhole
  <2> QED
    BY <2>3, <2>4, <2>5 DEF LinkInv
<1>2. TransferInit => ReceiverInv
  BY FreeContext, Zenon DEF TransferInit, Rx!Init, Rx!Slots, ReceiverInv
<1>3. LinkInv /\ ReceiverInv /\ [TransferNext]_transferVars => (LinkInv /\ ReceiverInv)'
  BY NextLinkInv, NextReceiverInv, Zenon
<1> QED
  BY <1>1, <1>2, <1>3, PTL DEF TransferSpec

-----------------------------------------------------------------------------
\* What a step of the sender does to the stream.

\* Place e of the stream is byte pos of message m, numbered seq.
IsAt(e, m, pos, seq) == e.msg = m /\ e.pos = pos /\ e.seq = seq

\* A packet that is sent stays where it was on the stream, and is followed by the
\* rest of its message or by nothing.
LEMMA SentStream ==
  ASSUME LinkInv, TxSent, NEW n, n = Len(wire)
  PROVE  /\ n \in Nat /\ Len(wire') = n + 1 /\ wire' \in Seq(SentPackets)
         /\ \A k \in 1..n : wire'[k] = wire[k]
         /\ \A k \in 1..(n + 1) : At(k)' = At(k)
         /\ WellBuilt(wire'[n + 1]) /\ wire'[n + 1].msg = tx_msg /\ tx_msg # NoMessage
         /\ IF wire'[n + 1].eom
              THEN At(n + 2)'.msg = NoMessage /\ tx_msg' = NoMessage
              ELSE /\ IsAt(At(n + 2)', tx_msg, wire'[n + 1].pos + PktPayload,
                                       (wire'[n + 1].seq + 1) % 4)
                   /\ tx_msg' = tx_msg
<1>1. PICK p : p = mctp_next_tx_pkt
  BY Zenon
<1>2. sending /\ mctp_tx_complete /\ BusInv /\ wire' = Append(wire, p)
  BY <1>1, Zenon DEF TxSent, LinkInv
<1>3. /\ p \in SentPackets /\ p.msg = tx_msg /\ p.pos = tx_msgpos /\ p.seq = tx_seq
      /\ p.eom <=> tx_msg' = NoMessage
      /\ tx_msg' # NoMessage => tx_msg' = tx_msg /\ tx_msgpos' = tx_msgpos + PktPayload
  BY <1>1, <1>2, NextPacket, Zenon
<1>4. tx_seq' = (tx_seq + 1) % 4 /\ tx_msg # NoMessage
  BY <1>2, CompleteFacts, Zenon
<1>5. WellBuilt(p)
  BY <1>1, <1>2, NextWellBuilt, Zenon
<1>6. /\ wire \in Seq(SentPackets) /\ n \in Nat /\ wire' \in Seq(SentPackets)
      /\ Len(wire') = n + 1 /\ wire'[n + 1] = p
      /\ \A k \in 1..n : wire'[k] = wire[k]
  BY <1>2, <1>3 DEF LinkInv, WireInv, WireType
<1>7. ASSUME NEW k \in 1..(n + 1)
      PROVE  At(k)' = At(k)
  <2>1. CASE k \in 1..n
    BY <1>6, <2>1 DEF At
  <2>2. CASE k = n + 1
    BY <1>3, <1>6, <2>2 DEF At
  <2> QED
    BY <1>6, <2>1, <2>2
<1>8. At(n + 2)'.msg = tx_msg' /\ At(n + 2)'.pos = tx_msgpos' /\ At(n + 2)'.seq = tx_seq'
  BY <1>6 DEF At
<1> QED
  BY <1>3, <1>4, <1>5, <1>6, <1>7, <1>8 DEF IsAt

\* A packet that fails is passed over.
LEMMA FailedStream ==
  ASSUME LinkInv, TxError, NEW n, n = Len(wire)
  PROVE  /\ n \in Nat /\ \A k \in 1..n : At(k)' = At(k)
         /\ IsAt(At(n + 1), tx_msg, tx_msgpos, tx_seq) /\ tx_msg # NoMessage
         /\ IF tx_msgpos + PktPayload >= tx_msg.len
              THEN At(n + 1)'.msg = NoMessage /\ tx_msg' = NoMessage
              ELSE /\ IsAt(At(n + 1)', tx_msg, tx_msgpos + PktPayload, (tx_seq + 1) % 4)
                   /\ tx_msg' = tx_msg
<1>1. PICK p : p = mctp_next_tx_pkt
  BY Zenon
<1>2. sending /\ mctp_tx_complete /\ BusInv /\ wire' = wire
  BY Zenon DEF TxError, LinkInv
<1>3. /\ p \in SentPackets /\ p.msg = tx_msg /\ p.pos = tx_msgpos
      /\ p.eom <=> tx_msg' = NoMessage
      /\ tx_msg' # NoMessage => tx_msg' = tx_msg /\ tx_msgpos' = tx_msgpos + PktPayload
  BY <1>1, <1>2, NextPacket, Zenon
<1>4. tx_seq' = (tx_seq + 1) % 4 /\ tx_msg # NoMessage /\ tx_msg.len \in Nat
  BY <1>2, CompleteFacts, Zenon
<1>5. WellBuilt(p)
  BY <1>1, <1>2, NextWellBuilt, Zenon
<1>6. p.eom <=> tx_msgpos + PktPayload >= tx_msg.len
  <2>1. p.len \in Nat /\ p.pos \in Nat /\ PktPayload \in Nat
    BY <1>3, TxAssumption, Zenon DEF SentPackets
  <2>2. p.len = MinOf(tx_msg.len - tx_msgpos, PktPayload)
    BY <1>1, Zenon DEF mctp_next_tx_pkt
  <2>3. p.pos + p.len = tx_msg.len <=> tx_msgpos + PktPayload >= tx_msg.len
    BY <1>3, <1>4, <1>5, <2>1, <2>2 DEF WellBuilt, MinOf
  <2> QED
    BY <1>3, <1>5, <2>3, Zenon DEF WellBuilt
<1>7. n \in Nat /\ wire \in Seq(SentPackets)
  BY DEF LinkInv, WireInv, WireType
<1>8. \A k \in 1..n : At(k)' = At(k)
  BY <1>2, <1>7 DEF At
<1>9. /\ At(n + 1).msg = tx_msg /\ At(n + 1).pos = tx_msgpos /\ At(n + 1).seq = tx_seq
      /\ At(n + 1)'.msg = tx_msg' /\ At(n + 1)'.pos = tx_msgpos' /\ At(n + 1)'.seq = tx_seq'
  BY <1>2, <1>7 DEF At
<1> QED
  BY <1>3, <1>4, <1>6, <1>7, <1>8, <1>9 DEF IsAt

\* A message that is taken follows what was sent before it.
LEMMA TakenStream ==
  ASSUME LinkInv, NEW m \in Messages, mctp_message_tx(m), TxTaken(m), NEW n, n = Len(wire)
  PROVE  /\ n \in Nat /\ \A k \in 1..n : At(k)' = At(k)
         /\ At(n + 1).msg = NoMessage /\ IsAt(At(n + 1)', m, 0, tx_seq)
         /\ m \notin given /\ m # NoMessage /\ tx_msg = NoMessage /\ tx_msg' = m
         /\ given' = given \cup {m} /\ UNCHANGED <<wire, spoilt>>
<1>1. n \in Nat /\ wire \in Seq(SentPackets)
  BY DEF LinkInv, WireInv, WireType
<1>2. /\ wire' = wire /\ tx_msg = NoMessage /\ tx_msg' = m /\ tx_msgpos' = 0
      /\ tx_seq' = tx_seq /\ m \notin given /\ given' = given \cup {m} /\ spoilt' = spoilt
  BY Zenon DEF TxTaken, mctp_message_tx
<1>3. m # NoMessage
  BY TxAssumption, Zenon
<1> QED
  BY <1>1, <1>2, <1>3 DEF At, IsAt

-----------------------------------------------------------------------------
\* The messages the receiver gives to mctp_rx.
Delivery ==
  [src : Nat, dest : Nat, to : {m.to : m \in Messages}, tag : Tags,
   buf : Seq(Received), len : Nat]

\* What goes up is a message of the type the receiver builds.
LEMMA UpType ==
  ASSUME NEW p \in SentPackets, NEW buf \in Seq(Received), NEW len \in Nat
  PROVE  Up(p, buf, len) \in Delivery
<1>1. p.msg \in Messages
  BY Zenon DEF SentPackets
<1>2. p.msg.tag \in Tags /\ p.msg.to \in {m.to : m \in Messages}
  BY <1>1, Zenon DEF Tags
<1> QED
  BY <1>2, Zenon DEF Up, Delivery, SenderEid, ReceiverEid

=============================================================================
