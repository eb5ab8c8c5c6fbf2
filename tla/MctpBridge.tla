----------------------------- MODULE MctpBridge -----------------------------
(***************************************************************************)
(* Two busses joined by mctp_bridge_busses (src/core.c): a message that    *)
(* arrives whole on one is sent on the other, in packets of that bus's     *)
(* size.  Reassembly is that of an endpoint (MctpReassembly), over one     *)
(* table of contexts for both busses, and accepts every destination.       *)
(*                                                                         *)
(* A bridged bus has no pointer to its struct mctp, and mctp_msg_ctx_drop  *)
(* follows it: the first context that is freed ends the process (crashed). *)
(* mctp_send_tx_queue runs inside a step: how many packets the binding     *)
(* takes before it is busy or fails is chosen.                             *)
(***************************************************************************)
EXTENDS Naturals, Sequences

CONSTANTS
  Inbound,         \* bus -> the packets its peer sends, in order
  PktPayload,      \* bus -> MCTP_BODY_SIZE(binding->pkt_size)
  Ctxs,            \* see MctpReassembly
  MaxMessageSize,  \* max_message_size
  NoMessage        \* NULL in bus->tx_msg

Busses == {1, 2}
Other(b) == 3 - b

Packets == UNION {{Inbound[b][i] : i \in DOMAIN Inbound[b]} : b \in Busses}

\* A message as mctp_rx is given it.
Messages == [src : Nat, dest : Nat, to : BOOLEAN, tag : Nat, buf : Seq(Packets), len : Nat]

ASSUME BridgeAssumption ==
  /\ PktPayload \in [Busses -> Nat \ {0}]
  /\ Ctxs \in Nat /\ MaxMessageSize \in Nat
  /\ \A p \in Packets :
       /\ p.src \in Nat /\ p.dest \in Nat /\ p.tag \in Nat /\ p.seq \in 0..3
       /\ p.to \in BOOLEAN /\ p.som \in BOOLEAN /\ p.eom \in BOOLEAN
       /\ p.size \in Nat
  /\ NoMessage \notin Messages

\* Packets are told apart, wherever and whenever they arrive.
ASSUME InboundAssumption ==
  /\ Inbound \in [Busses -> Seq(Packets)]
  /\ \A b, c \in Busses : \A i \in 1..Len(Inbound[b]), j \in 1..Len(Inbound[c]) :
       Inbound[b][i] = Inbound[c][j] => b = c /\ i = j

VARIABLES
  n_busses,     \* 2 once the busses are bridged
  alive,        \* FALSE after mctp_destroy
  crashed,
  bus_state,    \* bus -> bus->state
  tx_msg,       \* bus -> the pending message
  tx_left,      \* bus -> how many of its packets are not dealt with
  arrived,      \* bus -> how many packets of Inbound have arrived or are lost
  msg_ctxs, rx, \* see MctpReassembly
  received,     \* history: bus -> the messages it gave to mctp_rx
  wire,         \* history: bus -> the packets its binding sent
  finished,     \* history: the messages whose copy was freed after its last packet
  refused,      \* history: the messages that were not taken for sending
  spoilt        \* history: the messages of which a packet was dropped

txVars == <<tx_msg, tx_left, wire, finished, refused, spoilt>>
rxVars == <<arrived, msg_ctxs, rx, received>>
vars == <<n_busses, alive, crashed, bus_state, txVars, rxVars>>

\* Reassembly with a bus EID that makes the destination e local.
Rx(e) == INSTANCE MctpReassembly
           WITH eid <- e, max_message_size <- MaxMessageSize,
                Eids <- {}, MessageSizes <- {MaxMessageSize}

-----------------------------------------------------------------------------
\* Packets of message m on bus b; an empty message has one.
PacketCount(b, m) ==
  IF m.len = 0 THEN 1 ELSE (m.len + PktPayload[b] - 1) \div PktPayload[b]

\* The next n packets of m, of which left are not dealt with.
NextPackets(b, m, left, n) ==
  [i \in 1..n |-> [msg |-> m, k |-> PacketCount(b, m) - left + i]]

\* The loop, with m pending on b: n packets are sent, and then the message ends,
\* the binding is busy, or it fails and the packet is dropped.
mctp_send_tx_queue(b, m, left) ==
  \E n \in 0..left :
    /\ wire' = [wire EXCEPT ![b] = @ \o NextPackets(b, m, left, n)]
    /\ \/ n = left /\ tx_left' = [tx_left EXCEPT ![b] = 0] /\ UNCHANGED spoilt
       \/ n < left /\ tx_left' = [tx_left EXCEPT ![b] = left - n] /\ UNCHANGED spoilt
       \/ /\ n < left
          /\ tx_left' = [tx_left EXCEPT ![b] = left - n - 1]
          /\ spoilt' = spoilt \cup {m}
    /\ IF tx_left'[b] = 0
         THEN /\ tx_msg' = [tx_msg EXCEPT ![b] = NoMessage]
              /\ finished' = finished \cup {m}
         ELSE /\ tx_msg' = [tx_msg EXCEPT ![b] = m]
              /\ UNCHANGED finished
    /\ UNCHANGED refused

Refuse(m) ==
  /\ refused' = refused \cup {m}
  /\ UNCHANGED <<tx_msg, tx_left, wire, finished, spoilt>>

\* (Faulty variant for mutation checks: a pending message is replaced.)
TxReplaces(b, m) ==
  \/ bus_state[b] = "constructed" /\ Refuse(m)
  \/ bus_state[b] = "tx_enabled" /\ mctp_send_tx_queue(b, m, PacketCount(b, m))
  \/ /\ bus_state[b] = "tx_disabled"
     /\ tx_msg' = [tx_msg EXCEPT ![b] = m]
     /\ tx_left' = [tx_left EXCEPT ![b] = PacketCount(b, m)]
     /\ UNCHANGED <<wire, finished, refused, spoilt>>

\* A bus that was never enabled (-ENXIO) or that has a message pending (-EBUSY)
\* frees the message.
mctp_message_tx_on_bus(b, m) ==
  \/ /\ bus_state[b] = "constructed" \/ tx_msg[b] # NoMessage
     /\ Refuse(m)
  \/ /\ bus_state[b] = "tx_enabled" /\ tx_msg[b] = NoMessage
     /\ mctp_send_tx_queue(b, m, PacketCount(b, m))
  \/ /\ bus_state[b] = "tx_disabled" /\ tx_msg[b] = NoMessage
     /\ tx_msg' = [tx_msg EXCEPT ![b] = m]
     /\ tx_left' = [tx_left EXCEPT ![b] = PacketCount(b, m)]
     /\ UNCHANGED <<wire, finished, refused, spoilt>>

\* (Faulty variant: the bus a message came from is not skipped.)
RxEchoes(b, m) ==
  \/ Refuse(m)
  \/ \E d \in Busses : mctp_message_tx_on_bus(d, m)

\* mctp_rx of a bridge: a copy of the message goes to the other bus, unless there
\* is no memory for it.
mctp_rx(b, m) ==
  \/ Refuse(m)
  \/ mctp_message_tx_on_bus(Other(b), m)

\* A context was in use and no longer is: mctp_msg_ctx_drop was called.
Drops(p) ==
  \E i \in Rx(p.dest)!Slots : msg_ctxs[i].alloc /\ ~msg_ctxs'[i].alloc

\* A start packet that does not fit the new context it is given has it dropped at once.
DropsNew(p) ==
  /\ Rx(p.dest)!Accepted(p) /\ p.som /\ ~p.eom
  /\ Rx(p.dest)!mctp_msg_ctx_lookup(p) = {} /\ Rx(p.dest)!SpareCtx # {}
  /\ ~Rx(p.dest)!Fits(Rx(p.dest)!mctp_msg_ctx_create(p), p)

\* DropsNew is a choice: there may be no memory for the new context.
mctp_bus_rx(b) ==
  /\ n_busses = 2 /\ alive /\ ~crashed
  /\ arrived[b] < Len(Inbound[b])
  /\ arrived' = [arrived EXCEPT ![b] = @ + 1]
  /\ LET p == Inbound[b][arrived[b] + 1] IN
     /\ \/ Rx(p.dest)!RxIgnored(p) \/ Rx(p.dest)!RxSingle(p)
        \/ Rx(p.dest)!RxRestart(p) \/ Rx(p.dest)!RxStart(p)
        \/ Rx(p.dest)!RxMiddle(p) \/ Rx(p.dest)!RxEnd(p) \/ Rx(p.dest)!RxStray(p)
     /\ crashed' \in {Drops(p), Drops(p) \/ DropsNew(p)}
  /\ received' = [received EXCEPT ![b] = @ \o rx']
  /\ IF rx' = <<>> THEN UNCHANGED txVars ELSE mctp_rx(b, rx'[1])
  /\ UNCHANGED <<n_busses, alive, bus_state>>

\* The link loses a packet.
LosePacket(b) ==
  /\ n_busses = 2 /\ alive /\ ~crashed
  /\ arrived[b] < Len(Inbound[b])
  /\ arrived' = [arrived EXCEPT ![b] = @ + 1]
  /\ rx' = <<>>
  /\ UNCHANGED <<n_busses, alive, crashed, bus_state, txVars, msg_ctxs, received>>

\* The binding of bus b enables or disables transmission.
mctp_binding_set_tx_enabled(b, enable) ==
  /\ n_busses = 2 /\ alive /\ ~crashed
  /\ \/ enable /\ bus_state[b] = "constructed" /\ UNCHANGED txVars
     \/ /\ enable /\ bus_state[b] = "tx_disabled"
        /\ IF tx_msg[b] = NoMessage THEN UNCHANGED txVars
             ELSE mctp_send_tx_queue(b, tx_msg[b], tx_left[b])
     \/ ~enable /\ bus_state[b] = "tx_enabled" /\ UNCHANGED txVars
  /\ bus_state' = [bus_state EXCEPT ![b] = IF enable THEN "tx_enabled" ELSE "tx_disabled"]
  /\ rx' = <<>>
  /\ UNCHANGED <<n_busses, alive, crashed, arrived, msg_ctxs, received>>

\* Each start may enable its bus, leave that for later, or fail.  The second is
\* not started when the first fails; either way both busses stay bridged.
mctp_bridge_busses ==
  /\ alive /\ n_busses = 0
  /\ n_busses' = 2
  /\ \E s \in [Busses -> {"constructed", "tx_enabled"}] : bus_state' = s
  /\ UNCHANGED <<alive, crashed, txVars, rxVars>>

\* mctp_cleanup frees what is pending on either bus, and the contexts.
mctp_destroy ==
  /\ alive /\ ~crashed
  /\ alive' = FALSE
  /\ n_busses' = 0
  /\ finished' = finished \cup ({tx_msg[b] : b \in Busses} \ {NoMessage})
  /\ spoilt' = spoilt \cup ({tx_msg[b] : b \in Busses} \ {NoMessage})
  /\ tx_msg' = [b \in Busses |-> NoMessage]
  /\ tx_left' = [b \in Busses |-> 0]
  /\ msg_ctxs' = [i \in DOMAIN msg_ctxs |-> Rx(0)!FreeCtx]
  /\ rx' = <<>>
  /\ UNCHANGED <<crashed, bus_state, arrived, received, wire, refused>>

Init ==
  /\ n_busses = 0 /\ alive = TRUE /\ crashed = FALSE
  /\ bus_state = [b \in Busses |-> "constructed"]
  /\ tx_msg = [b \in Busses |-> NoMessage]
  /\ tx_left = [b \in Busses |-> 0] /\ arrived = tx_left
  /\ msg_ctxs = [i \in 1..Ctxs |-> Rx(0)!FreeCtx]
  /\ rx = <<>>
  /\ received = [b \in Busses |-> <<>>] /\ wire = received
  /\ finished = {} /\ refused = {} /\ spoilt = {}

Next ==
  \/ mctp_bridge_busses \/ mctp_destroy
  \/ \E b \in Busses :
       \/ mctp_bus_rx(b) \/ LosePacket(b)
       \/ \E enable \in BOOLEAN : mctp_binding_set_tx_enabled(b, enable)

Spec == Init /\ [][Next]_vars

-----------------------------------------------------------------------------
\* Position of packet w of bus b among those the other bus received.
Earlier(b, v, w) ==
  LET r == received[Other(b)] IN
  \E i, j \in DOMAIN r : /\ r[i] = v.msg /\ r[j] = w.msg
                         /\ (i < j) \/ (i = j /\ v.k < w.k)

\* mctp_rx and mctp_send_tx_queue forward nothing else: what leaves on a bus was
\* received on the other one, and nothing is sent back.  It leaves in the order of its
\* arrival, no packet twice, and the packets of a message do not mix with those of the
\* next, whatever the two packet sizes.
ForwardedInOrder ==
  \A b \in Busses : \A i \in DOMAIN wire[b] :
    /\ wire[b][i].msg \in {received[Other(b)][j] : j \in DOMAIN received[Other(b)]}
    /\ i > 1 => Earlier(b, wire[b][i-1], wire[b][i])

\* Every message the bridge received has one fate: it is pending on the other bus,
\* it is done with and freed, or it was refused; and one that is done with, and of
\* which the binding dropped no packet, has left whole.
EveryMessageHasItsFate ==
  \A b \in Busses : \A j \in DOMAIN received[b] :
    LET m == received[b][j]
        d == Other(b)
    IN /\ (m \in refused) = (m \notin finished /\ tx_msg[d] # m)
       /\ m \in finished => tx_msg[d] # m
       /\ m \in finished \ spoilt =>
            \A k \in 1..PacketCount(d, m) :
              \E i \in DOMAIN wire[d] : wire[d][i] = [msg |-> m, k |-> k]

KeyOf(r) == <<r.src, r.dest, r.tag>>

\* The other bus brings no packet of the key of m.
OnOneBus(b, m) ==
  \A i \in DOMAIN Inbound[Other(b)] : KeyOf(Inbound[Other(b)][i]) # KeyOf(m)

\* The packets of buf are among the first n of b, and in their order.
CameOn(b, n, buf) ==
  /\ \A k \in DOMAIN buf : \E i \in 1..n : buf[k] = Inbound[b][i]
  /\ \A k, l \in DOMAIN buf :
       k < l => \E i, j \in 1..n : i < j /\ buf[k] = Inbound[b][i] /\ buf[l] = Inbound[b][j]

\* The two busses share one table of contexts whose keys do not name the bus
\* (mctp_msg_ctx_lookup).  Still mctp_bus_rx puts no message together from packets of
\* both, or from one packet twice, however the two streams mix, unless both bring
\* packets of the same source, destination and tag.
PutTogetherOnOneBus ==
  \A b \in Busses : \A n \in DOMAIN received[b] :
    LET m == received[b][n] IN OnOneBus(b, m) => CameOn(b, arrived[b], m.buf)

=============================================================================
