---------------------------- MODULE MctpTransfer ----------------------------
(***************************************************************************)
(* A message transfer from end to end: the transmitting half of one        *)
(* endpoint (MctpTx) and the reassembling half of its peer                 *)
(* (MctpReassembly), joined by a link that keeps packets in order and may  *)
(* lose some, as a pipe whose reader or writer fails now and then does.    *)
(*                                                                         *)
(* Packets are lost on the link, by the sender when the binding reports an *)
(* error, and by the receiver when it has no memory for a message start.   *)
(* MaxLost bounds all three together.                                      *)
(***************************************************************************)
EXTENDS MctpTx

CONSTANTS         \* besides those of MctpTx; the messages also have a tag and to
  Ctxs,           \* reassembly contexts of the receiver
  MaxMessageSize, \* its max_message_size
  MaxLost         \* bound on the number of lost packets

SenderEid == 9
ReceiverEid == 8

ASSUME TransferAssumption ==
  Ctxs \in Nat /\ MaxMessageSize \in Nat /\ MaxLost \in Nat /\ MaxRegister >= 1

VARIABLES         \* besides those of MctpTx, which are the sender's
  msg_ctxs, eid, max_message_size, rx,        \* the receiver, see MctpReassembly
  taken,        \* how many packets of wire have left the link
  lost,         \* how many packets have been lost
  sent,         \* history: the messages the sender took, in order
  delivered     \* history: what the receiver gave to mctp_rx, in order

receiverVars == <<msg_ctxs, eid, max_message_size, rx>>
transferVars == <<vars, receiverVars, taken, lost, sent, delivered>>

\* The sent packet as the receiver reads it back from its header.
AsReceived(w) ==
  [src |-> SenderEid, dest |-> ReceiverEid, to |-> w.msg.to, tag |-> w.msg.tag,
   seq |-> w.seq, som |-> w.som, eom |-> w.eom, size |-> w.len + 4,
   msg |-> w.msg, pos |-> w.pos]

SentPackets == [msg : Messages, pos : Nat, len : Nat, seq : 0..3,
                som : BOOLEAN, eom : BOOLEAN]

Rx == INSTANCE MctpReassembly
        WITH Packets <- {AsReceived(w) : w \in SentPackets},
             Eids <- {ReceiverEid}, MessageSizes <- {MaxMessageSize}

-----------------------------------------------------------------------------
TransferInit ==
  /\ n_busses = 1 /\ registered = 1 /\ alive = TRUE
  /\ bus_state = "tx_enabled"
  /\ tx_msg = NoMessage /\ tx_msgpos = 0 /\ tx_seq = 0 /\ sending = FALSE
  /\ wire = <<>> /\ given = {} /\ spoilt = {} /\ abandoned = {}
  /\ frees = [m \in Messages |-> 0]
  /\ Rx!Init
  /\ taken = 0 /\ lost = 0 /\ sent = <<>> /\ delivered = <<>>

\* The peer sends a message; it is accepted or refused at once.
SendMessage(m) ==
  /\ mctp_message_tx(m)
  /\ sent' = IF tx_msg' # tx_msg THEN Append(sent, m) ELSE sent
  /\ UNCHANGED <<receiverVars, taken, lost, delivered>>

\* The binding takes a packet, is busy, or fails and so loses it.
SendPacket ==
  /\ TxSent \/ TxBusy
  /\ UNCHANGED <<receiverVars, taken, lost, sent, delivered>>

FailPacket ==
  /\ lost < MaxLost
  /\ TxError
  /\ lost' = lost + 1
  /\ UNCHANGED <<receiverVars, taken, sent, delivered>>

ToggleBinding ==
  /\ BindingEnables \/ BindingDisables
  /\ UNCHANGED <<receiverVars, taken, lost, sent, delivered>>

\* The receiver reads the next packet.  A message start that neither reached a
\* context nor went up was lost for want of memory or of a context.
ReceivePacket ==
  /\ taken < Len(wire)
  /\ LET p == AsReceived(wire[taken + 1]) IN
     /\ Rx!mctp_bus_rx(p)
     /\ lost' = IF p.som /\ rx' = <<>> /\ msg_ctxs' = msg_ctxs
                  THEN lost + 1 ELSE lost
  /\ lost' <= MaxLost
  /\ taken' = taken + 1
  /\ delivered' = delivered \o rx'
  /\ UNCHANGED <<vars, sent>>

LosePacket ==
  /\ lost < MaxLost
  /\ taken < Len(wire)
  /\ taken' = taken + 1
  /\ lost' = lost + 1
  /\ rx' = <<>>
  /\ UNCHANGED <<vars, msg_ctxs, eid, max_message_size, sent, delivered>>

TransferNext ==
  \/ \E m \in Messages : SendMessage(m)
  \/ SendPacket \/ FailPacket \/ ToggleBinding \/ ReceivePacket \/ LosePacket

\* The send queue runs on, a busy binding toggles and is not busy for ever, and
\* the receiver polls its pipe for ever.
TransferFairness ==
  /\ WF_transferVars(SendPacket)
  /\ SF_transferVars(TxSent /\ SendPacket)
  /\ WF_transferVars(BindingEnables /\ ToggleBinding)
  /\ WF_transferVars(BindingDisables /\ ToggleBinding)
  /\ WF_transferVars(ReceivePacket)

TransferSpec == TransferInit /\ [][TransferNext]_transferVars /\ TransferFairness

-----------------------------------------------------------------------------
\* The delivered bytes are those of message m, all of them, in order.
IsWhole(d, m) ==
  LET n == Len(d.buf) IN
  /\ d.tag = m.tag /\ d.to = m.to /\ d.len = m.len
  /\ \A k \in 1..n : d.buf[k].msg = m /\ d.buf[k].pos = (k - 1) * PktPayload

\* The message a delivered buffer is, NoMessage when it is none that was sent.
AsMessage(d) ==
  IF \E m \in given : IsWhole(d, m) THEN CHOOSE m \in given : IsWhole(d, m)
                                    ELSE NoMessage

Channel == INSTANCE MessageChannel
             WITH delivered <- [i \in DOMAIN delivered |-> AsMessage(delivered[i])]

\* Two endpoints and a link that loses at most one packet (MaxLost <= 1) implement
\* the channel: what mctp_rx gets is always a whole message, in order and at most
\* once, whichever packet was lost.
ImplementsChannel == Channel!Init /\ [][Channel!Next]_(Channel!vars)

\* No lost packet costs more than the message it belongs to: of the messages that
\* were taken and have completely left the link, at most as many are missing as
\* packets were lost.  (For messages that fit the receiver's max_message_size:
\* larger ones are dropped by mctp_bus_rx without any loss.)
LossIsContained ==
  tx_msg = NoMessage /\ taken = Len(wire) => Len(sent) - Len(delivered) <= lost

\* Every message the sender took is delivered, unless a packet was lost.
EventuallyDelivered ==
  \A m \in Messages :
    (tx_msg = m) ~> (lost > 0 \/ \E i \in DOMAIN delivered : IsWhole(delivered[i], m))

=============================================================================
