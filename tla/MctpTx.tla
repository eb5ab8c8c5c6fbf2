------------------------------- MODULE MctpTx -------------------------------
(***************************************************************************)
(* Transmission on one bus (src/core.c): the bus states, the one pending   *)
(* message, its packetisation and the send queue, with registration and    *)
(* destruction of the bus.                                                 *)
(*                                                                         *)
(* A message is a record with at least its length in bytes, len; it stands *)
(* for the buffer the caller gives to the stack, so that frees counts the  *)
(* calls of __mctp_msg_free on it.  mctp_send_tx_queue is a loop around    *)
(* the binding's tx function; sending is TRUE while control is in the      *)
(* loop, and one step is one iteration.  Between two iterations only calls *)
(* that a binding makes from inside its tx function can happen.            *)
(***************************************************************************)
EXTENDS Naturals, Sequences

CONSTANTS
  Messages,       \* the messages callers send, each at most once
  Mistagged,      \* those of them with a tag of more than three bits
  NoMessage,      \* NULL in bus->tx_msg
  PktPayload,     \* MCTP_BODY_SIZE(binding->pkt_size)
  BTU,            \* MCTP_BTU, the smallest payload size a binding may have
  TxResults,      \* the results binding->tx may return
  Toggles,        \* does the binding disable and enable transmission?
  MaxRegister     \* bound on the number of mctp_register_bus calls

ASSUME TxAssumption ==
  /\ \A m \in Messages : m.len \in Nat
  /\ Mistagged \subseteq Messages /\ NoMessage \notin Messages
  /\ PktPayload \in Nat \ {0} /\ BTU \in Nat /\ MaxRegister \in Nat
  /\ TxResults \subseteq {"ok", "EBUSY", "error"}
  /\ Toggles \in BOOLEAN

VARIABLES
  n_busses,       \* 1 while the bus is registered
  registered,     \* number of mctp_register_bus calls so far
  bus_state,      \* bus->state
  tx_msg,         \* the pending message
  tx_msgpos,      \* how many of its bytes are dealt with
  tx_seq,
  sending,        \* control is inside mctp_send_tx_queue
  wire,           \* history: the packets the binding has sent
  given,          \* history: the messages callers gave to the stack
  frees,          \* history: how often each message has been freed
  spoilt,         \* history: messages of which a packet was dropped
  abandoned,      \* history: messages that were pending on a bus taken away
  alive           \* FALSE after mctp_destroy

busVars == <<bus_state, tx_msg, tx_msgpos, tx_seq, sending>>
historyVars == <<wire, given, frees, spoilt, abandoned>>
vars == <<n_busses, registered, alive, busVars, historyVars>>

-----------------------------------------------------------------------------
MinOf(a, b) == IF a <= b THEN a ELSE b

Free(f, m) == [f EXCEPT ![m] = @ + 1]

\* (Faulty variant for mutation checks: EOM one byte early.)
NextPktEarlyEom ==
  LET payload == MinOf(tx_msg.len - tx_msgpos, PktPayload)
  IN [msg |-> tx_msg, pos |-> tx_msgpos, len |-> payload, seq |-> tx_seq,
      som |-> tx_msgpos = 0, eom |-> tx_msgpos + payload + 1 >= tx_msg.len]

\* The packet mctp_next_tx_pkt builds from the pending message.
mctp_next_tx_pkt ==
  LET payload == MinOf(tx_msg.len - tx_msgpos, PktPayload)
  IN [msg |-> tx_msg, pos |-> tx_msgpos, len |-> payload, seq |-> tx_seq,
      som |-> tx_msgpos = 0, eom |-> tx_msgpos + payload >= tx_msg.len]

\* (Faulty variants: the sequence number is not masked; the pointer to a freed
\* message stays.)
CompleteNoMask ==
  LET pos == tx_msgpos + mctp_next_tx_pkt.len
  IN /\ tx_seq' = tx_seq + 1
     /\ tx_msgpos' = pos
     /\ IF pos >= tx_msg.len
          THEN tx_msg' = NoMessage /\ frees' = Free(frees, tx_msg)
          ELSE UNCHANGED <<tx_msg, frees>>

CompleteKeepsPointer ==
  LET pos == tx_msgpos + mctp_next_tx_pkt.len
  IN /\ tx_seq' = (tx_seq + 1) % 4
     /\ tx_msgpos' = pos
     /\ frees' = IF pos >= tx_msg.len THEN Free(frees, tx_msg) ELSE frees
     /\ UNCHANGED tx_msg

\* The packet is dealt with; the message is freed after its last one.
mctp_tx_complete ==
  LET pos == tx_msgpos + mctp_next_tx_pkt.len
  IN /\ tx_seq' = (tx_seq + 1) % 4
     /\ tx_msgpos' = pos
     /\ IF pos >= tx_msg.len
          THEN tx_msg' = NoMessage /\ frees' = Free(frees, tx_msg)
          ELSE UNCHANGED <<tx_msg, frees>>

-----------------------------------------------------------------------------
\* One iteration of mctp_send_tx_queue, by what binding->tx returns.
TxSent ==
  /\ sending /\ "ok" \in TxResults
  /\ wire' = Append(wire, mctp_next_tx_pkt)
  /\ mctp_tx_complete
  /\ sending' = (tx_msg' # NoMessage)
  /\ UNCHANGED <<n_busses, registered, alive, bus_state, given, spoilt,
                 abandoned>>

\* (Faulty variant: a packet the binding was too busy for is dropped.)
TxBusyDrops ==
  /\ sending /\ "EBUSY" \in TxResults
  /\ mctp_tx_complete
  /\ sending' = FALSE
  /\ UNCHANGED <<n_busses, registered, alive, bus_state, wire, given, spoilt,
                 abandoned>>

TxBusy ==
  /\ sending /\ "EBUSY" \in TxResults
  /\ sending' = FALSE
  /\ UNCHANGED <<n_busses, registered, alive, bus_state, tx_msg, tx_msgpos,
                 tx_seq, historyVars>>

\* (Faulty variant: a packet that failed keeps its sequence number for the next.)
TxErrorKeepsSeq ==
  /\ sending /\ "error" \in TxResults
  /\ tx_msgpos' = tx_msgpos + mctp_next_tx_pkt.len
  /\ IF tx_msgpos' >= tx_msg.len
       THEN tx_msg' = NoMessage /\ frees' = Free(frees, tx_msg)
       ELSE UNCHANGED <<tx_msg, frees>>
  /\ spoilt' = spoilt \cup {tx_msg}
  /\ sending' = FALSE
  /\ UNCHANGED <<n_busses, registered, alive, bus_state, tx_seq, wire, given,
                 abandoned>>

TxError ==
  /\ sending /\ "error" \in TxResults
  /\ mctp_tx_complete
  /\ spoilt' = spoilt \cup {tx_msg}
  /\ sending' = FALSE
  /\ UNCHANGED <<n_busses, registered, alive, bus_state, wire, given, abandoned>>

mctp_send_tx_queue == TxSent \/ TxBusy \/ TxError

\* mctp_message_tx and mctp_message_tx_alloced.  A message with a wrong tag is freed
\* (-EINVAL).  Without a bus it is freed and the call succeeds; a bus that was never
\* enabled (-ENXIO) or has a message pending (-EBUSY) frees it too.  A call from
\* inside binding->tx finds the message being sent still pending.
TxFreed(m) ==
  /\ \/ m \in Mistagged
     \/ n_busses = 0
     \/ bus_state = "constructed"
     \/ tx_msg # NoMessage
  /\ frees' = Free(frees, m)
  /\ UNCHANGED <<busVars, wire, spoilt, abandoned>>

TxTaken(m) ==
  /\ m \notin Mistagged
  /\ n_busses = 1
  /\ bus_state # "constructed"
  /\ tx_msg = NoMessage
  /\ tx_msg' = m
  /\ tx_msgpos' = 0
  /\ sending' = (bus_state = "tx_enabled")
  /\ UNCHANGED <<bus_state, tx_seq, wire, frees, spoilt, abandoned>>

mctp_message_tx(m) ==
  /\ alive /\ m \notin given
  /\ given' = given \cup {m}
  /\ TxFreed(m) \/ TxTaken(m)
  /\ UNCHANGED <<n_busses, registered, alive>>

\* (Faulty variant: enabling again does not restart the send queue.)
EnableNoSend(enable) ==
  \/ /\ enable /\ bus_state \in {"constructed", "tx_disabled"} /\ PktPayload >= BTU
     /\ bus_state' = "tx_enabled"
     /\ UNCHANGED sending
  \/ /\ ~enable /\ bus_state = "tx_enabled"
     /\ bus_state' = "tx_disabled"
     /\ sending' = FALSE

\* Called by the binding: from its start function, when it can send again, and
\* (disabling) from inside its tx function.
mctp_binding_set_tx_enabled(enable) ==
  \/ /\ enable /\ bus_state = "constructed" /\ PktPayload >= BTU
     /\ bus_state' = "tx_enabled"
     /\ UNCHANGED sending
  \/ /\ ~enable /\ bus_state = "tx_enabled"
     /\ bus_state' = "tx_disabled"
     /\ sending' = FALSE
  \/ /\ enable /\ bus_state = "tx_disabled"
     /\ bus_state' = "tx_enabled"
     /\ sending' = (tx_msg # NoMessage)

BindingEnables ==
  /\ Toggles /\ alive /\ n_busses = 1 /\ ~sending
  /\ mctp_binding_set_tx_enabled(TRUE)
  /\ UNCHANGED <<n_busses, registered, alive, tx_msg, tx_msgpos, tx_seq, historyVars>>

BindingDisables ==
  /\ Toggles /\ alive /\ n_busses = 1
  /\ mctp_binding_set_tx_enabled(FALSE)
  /\ UNCHANGED <<n_busses, registered, alive, tx_msg, tx_msgpos, tx_seq, historyVars>>

\* mctp_register_bus clears the bus and calls binding->start, which may enable
\* transmission, leave that for later, or fail.
mctp_register_bus ==
  /\ alive /\ n_busses = 0 /\ registered < MaxRegister
  /\ registered' = registered + 1
  /\ tx_msg' = NoMessage /\ tx_msgpos' = 0 /\ tx_seq' = 0 /\ sending' = FALSE
  /\ \/ n_busses' = 1 /\ bus_state' = "constructed"
     \/ n_busses' = 1 /\ bus_state' = "tx_enabled" /\ PktPayload >= BTU
     \/ n_busses' = 0 /\ bus_state' = "constructed"
  /\ UNCHANGED <<alive, historyVars>>

\* Forgets the bus, with the message that may be pending on it.
mctp_unregister_bus ==
  /\ alive /\ n_busses = 1 /\ ~sending
  /\ n_busses' = 0
  /\ abandoned' = abandoned \cup ({tx_msg} \ {NoMessage})
  /\ UNCHANGED <<registered, alive, busVars, wire, given, frees, spoilt>>

\* mctp_cleanup frees the pending message of a registered bus only.
mctp_destroy ==
  /\ alive /\ ~sending
  /\ alive' = FALSE
  /\ IF n_busses = 1 /\ tx_msg # NoMessage
       THEN frees' = Free(frees, tx_msg) /\ tx_msg' = NoMessage
       ELSE UNCHANGED <<frees, tx_msg>>
  /\ n_busses' = 0
  /\ UNCHANGED <<registered, bus_state, tx_msgpos, tx_seq, sending, wire, given,
                 spoilt, abandoned>>

Init ==
  /\ n_busses = 0 /\ registered = 0 /\ alive = TRUE
  /\ bus_state = "constructed"
  /\ tx_msg = NoMessage /\ tx_msgpos = 0 /\ tx_seq = 0 /\ sending = FALSE
  /\ wire = <<>> /\ given = {} /\ spoilt = {} /\ abandoned = {}
  /\ frees = [m \in Messages |-> 0]

Next ==
  \/ mctp_send_tx_queue
  \/ \E m \in Messages : mctp_message_tx(m)
  \/ BindingEnables \/ BindingDisables
  \/ mctp_register_bus \/ mctp_unregister_bus \/ mctp_destroy

Spec == Init /\ [][Next]_vars

\* The code runs the send queue to its end once it has entered it.  The rest is
\* the binding's part of the contract: one that was busy disables and later
\* enables transmission again, and is not busy for ever.
Fairness ==
  /\ WF_vars(mctp_send_tx_queue)
  /\ SF_vars(TxSent)
  /\ WF_vars(BindingEnables)
  /\ WF_vars(BindingDisables)

LiveSpec == Spec /\ Fairness

-----------------------------------------------------------------------------
\* Every variable holds a value of its type.
TypeOK ==
  /\ n_busses \in 0..1 /\ registered \in 0..MaxRegister /\ alive \in BOOLEAN
  /\ bus_state \in {"constructed", "tx_enabled", "tx_disabled"}
  /\ tx_msg \in Messages \cup {NoMessage}
  /\ tx_msgpos \in Nat /\ tx_seq \in 0..3
  /\ sending \in BOOLEAN
  /\ given \subseteq Messages /\ spoilt \subseteq Messages
  /\ abandoned \subseteq Messages
  /\ frees \in [Messages -> Nat]

One(cond) == IF cond THEN 1 ELSE 0

\* Every message a caller gave to the stack has exactly one fate: it is pending on
\* the registered bus, or it was freed, once, or mctp_unregister_bus took its bus
\* away.  Error paths, completion, registration and mctp_destroy between them free
\* nothing twice and forget nothing else.
Accounted ==
  \A m \in Messages :
    One(n_busses = 1 /\ tx_msg = m) + frees[m] + One(m \in abandoned) = One(m \in given)

\* Number of packets of its message that precede packet p.
Index(p) == p.pos \div PktPayload

\* The packets of a message leave in order, none twice and none between those
\* of another message; their sequence numbers differ by as many steps as the
\* packets lie apart, also across packets the binding failed to send.
WireOrder ==
  \A i, j \in DOMAIN wire :
    i < j /\ wire[i].msg = wire[j].msg =>
      /\ Index(wire[i]) < Index(wire[j])
      /\ wire[j].seq = (wire[i].seq + Index(wire[j]) - Index(wire[i])) % 4
      /\ \A k \in i..j : wire[k].msg = wire[i].msg

\* When the last packet of a message has left and none was dropped, all of it
\* has left: an SOM packet first, then full packets each beginning where the
\* one before it ended.
EndMeansWhole ==
  \A i \in DOMAIN wire :
    wire[i].eom /\ wire[i].msg \notin spoilt =>
      \E s \in 1..i :
        /\ wire[s].som /\ wire[s].pos = 0
        /\ \A k \in s..(i-1) : /\ wire[k].msg = wire[i].msg /\ ~wire[k].eom
                               /\ wire[k].len = PktPayload
                               /\ wire[k+1].pos = wire[k].pos + wire[k].len
        /\ wire[i].pos + wire[i].len = wire[i].msg.len

\* A pending message of which no packet was dropped continues where the wire
\* ends: nothing of it is skipped or sent twice, however often the binding was
\* busy or transmission was disabled and enabled meanwhile.
PositionMatchesWire ==
  tx_msg # NoMessage /\ tx_msg \notin spoilt =>
    IF tx_msgpos = 0
      THEN \A i \in DOMAIN wire : wire[i].msg # tx_msg
      ELSE LET last == wire[Len(wire)] IN
           /\ wire # <<>>
           /\ last.msg = tx_msg /\ ~last.eom
           /\ last.pos + last.len = tx_msgpos
           /\ tx_seq = (last.seq + 1) % 4

\* "The mctp stack will take ownership of the buffer and release it when
\* message transmission is complete or fails" (libmctp.h): a message pending on
\* a bus does not stay there for ever.
PendingIsReleased ==
  (tx_msg # NoMessage /\ n_busses = 1) ~> (tx_msg = NoMessage \/ n_busses = 0)

=============================================================================
