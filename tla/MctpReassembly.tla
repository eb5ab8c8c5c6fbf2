--------------------------- MODULE MctpReassembly ---------------------------
(***************************************************************************)
(* Message reassembly in an endpoint: mctp_bus_rx and the table of         *)
(* reassembly contexts it works on (src/core.c).                           *)
(*                                                                         *)
(* A packet is a record with the header fields the code reads (src, dest,  *)
(* to, tag, seq, som, eom) and its size in bytes, header included.  The    *)
(* payload is the packet itself: a context's buffer is the sequence of the *)
(* packets copied into it.  A context without a buffer (buf == NULL) is    *)
(* FreeCtx: none of its other fields is read before a new message start    *)
(* writes it.                                                              *)
(***************************************************************************)
EXTENDS Naturals, Sequences

CONSTANTS
  Ctxs,          \* MCTP_REASSEMBLY_CTXS, the number of contexts
  Packets,       \* the packets a binding may hand to mctp_bus_rx
  Eids,          \* the endpoint IDs the bus may be given
  MessageSizes   \* the values max_message_size may be given

MCTP_EID_NULL == 0
MCTP_EID_BROADCAST == 255
HdrSize == 4     \* sizeof(struct mctp_hdr)

ASSUME CtxsAssumption == Ctxs \in Nat
ASSUME SizesAssumption == MessageSizes \subseteq Nat
ASSUME PacketsAssumption ==
  \A p \in Packets : /\ p.src \in Nat /\ p.dest \in Nat /\ p.tag \in Nat
                     /\ p.size \in Nat
                     /\ p.seq \in 0..3
                     /\ p.som \in BOOLEAN
                     /\ p.eom \in BOOLEAN

VARIABLES
  msg_ctxs,          \* the contexts
  eid,               \* bus->eid
  max_message_size,
  rx                 \* the message this step gave to mctp_rx, <<>> if none

vars == <<msg_ctxs, eid, max_message_size, rx>>

Slots == 1..Ctxs

FreeCtx ==
  [alloc |-> FALSE, src |-> 0, dest |-> 0, tag |-> 0, last_seq |-> 0,
   buf |-> <<>>, buf_size |-> 0, buf_alloc_size |-> 0, fragment_size |-> 0]

-----------------------------------------------------------------------------
\* (Faulty variant for mutation checks: the source is not compared.)
SameDestAndTag(r, p) == r.dest = p.dest /\ r.tag = p.tag

SameKey(r, p) == r.src = p.src /\ r.dest = p.dest /\ r.tag = p.tag

IsFirst(i, S) == i \in S /\ \A j \in S : i <= j

\* (Faulty variant: the search begins at the second slot.)
LookupFromSecond(p) ==
  LET matching == {j \in 2..Ctxs : msg_ctxs[j].alloc /\ SameKey(msg_ctxs[j], p)}
  IN {i \in Slots : IsFirst(i, matching)}

\* The context a packet belongs to: at most one slot, {} stands for NULL.
mctp_msg_ctx_lookup(p) ==
  LET matching == {j \in Slots : msg_ctxs[j].alloc /\ SameKey(msg_ctxs[j], p)}
  IN {i \in Slots : IsFirst(i, matching)}

\* (Faulty variant: the search leaves the last slot it saw, in use or not.)
SpareOrLast ==
  LET unused == {j \in Slots : ~msg_ctxs[j].alloc \/ j = Ctxs}
  IN {i \in Slots : IsFirst(i, unused)}

\* The slot mctp_msg_ctx_create takes, {} when the contexts are exhausted.
SpareCtx ==
  LET unused == {j \in Slots : ~msg_ctxs[j].alloc}
  IN {i \in Slots : IsFirst(i, unused)}

mctp_msg_ctx_create(p) ==
  [FreeCtx EXCEPT !.alloc = TRUE, !.src = p.src, !.dest = p.dest, !.tag = p.tag,
                  !.buf_alloc_size = max_message_size]

\* (Faulty variant: the reset forgets buf_size.)
ResetKeepsSize(ctx) == [ctx EXCEPT !.buf = <<>>, !.fragment_size = 0]

mctp_msg_ctx_reset(ctx) ==
  [ctx EXCEPT !.buf = <<>>, !.buf_size = 0, !.fragment_size = 0]

PayloadLen(p) == p.size - HdrSize

\* mctp_msg_ctx_add_pkt succeeds.
Fits(ctx, p) == ctx.buf_size + PayloadLen(p) <= ctx.buf_alloc_size

mctp_msg_ctx_add_pkt(ctx, p) ==
  [ctx EXCEPT !.buf = Append(ctx.buf, p), !.buf_size = ctx.buf_size + PayloadLen(p)]

Message(p, buf, len) ==
  [src |-> p.src, dest |-> p.dest, to |-> p.to, tag |-> p.tag,
   buf |-> buf, len |-> len]

mctp_rx_dest_is_local(dest) == dest \in {eid, MCTP_EID_NULL, MCTP_EID_BROADCAST}

\* (Faulty variant: no check for a packet shorter than its header.)
AcceptedShort(p) ==
  /\ p.src # MCTP_EID_BROADCAST
  /\ mctp_rx_dest_is_local(p.dest)

\* The checks of mctp_bus_rx before it looks at SOM and EOM.
Accepted(p) ==
  /\ p.size >= HdrSize
  /\ p.src # MCTP_EID_BROADCAST
  /\ mctp_rx_dest_is_local(p.dest)

\* (Faulty variants: sequence numbers are not checked, or do not wrap.)
AnySequence(ctx, p) == p.seq \in 0..3
SequenceNoWrap(ctx, p) == p.seq = ctx.last_seq + 1

\* The checks a packet that continues a message must pass.
InSequence(ctx, p) == p.seq = (ctx.last_seq + 1) % 4
MiddleSize(ctx, p) == p.size = ctx.fragment_size
\* (Faulty variant: the size of the last packet is not checked.)
EndAnySize(ctx, p) == p.size >= HdrSize

EndSize(ctx, p) == p.size <= ctx.fragment_size

SetCtx(i, ctx) == msg_ctxs' = [msg_ctxs EXCEPT ![i] = ctx]

-----------------------------------------------------------------------------
RxIgnored(p) ==
  /\ ~Accepted(p)
  /\ rx' = <<>>
  /\ UNCHANGED msg_ctxs

\* SOM and EOM: no context is used; the copy of the payload may fail.
RxSingle(p) ==
  /\ Accepted(p) /\ p.som /\ p.eom
  /\ rx' \in {<<>>, <<Message(p, <<p>>, PayloadLen(p))>>}
  /\ UNCHANGED msg_ctxs

\* What a start packet leaves in the context it was given.
Started(ctx, p) ==
  IF Fits(ctx, p)
    THEN [mctp_msg_ctx_add_pkt(ctx, p) EXCEPT !.fragment_size = p.size,
                                              !.last_seq = p.seq]
    ELSE FreeCtx

\* (Faulty variant: a start packet that finds an old context only ends that.)
RestartDrops(p) ==
  /\ Accepted(p) /\ p.som /\ ~p.eom
  /\ \E i \in mctp_msg_ctx_lookup(p) : SetCtx(i, FreeCtx)
  /\ rx' = <<>>

\* SOM of a message whose key already has a context: the context restarts.
RxRestart(p) ==
  /\ Accepted(p) /\ p.som /\ ~p.eom
  /\ \E i \in mctp_msg_ctx_lookup(p) :
       SetCtx(i, Started(mctp_msg_ctx_reset(msg_ctxs[i]), p))
  /\ rx' = <<>>

\* (Faulty variant: without a spare context the first one is freed for the next start.)
StartEvicts(p) ==
  /\ Accepted(p) /\ p.som /\ ~p.eom
  /\ mctp_msg_ctx_lookup(p) = {}
  /\ \/ \E i \in SpareCtx : SetCtx(i, Started(mctp_msg_ctx_create(p), p))
     \/ SpareCtx = {} /\ SetCtx(1, FreeCtx)
     \/ UNCHANGED msg_ctxs
  /\ rx' = <<>>

\* SOM of a new message: a spare context if there is one and its buffer can
\* be allocated, else the packet is dropped.
RxStart(p) ==
  /\ Accepted(p) /\ p.som /\ ~p.eom
  /\ mctp_msg_ctx_lookup(p) = {}
  /\ \/ \E i \in SpareCtx : SetCtx(i, Started(mctp_msg_ctx_create(p), p))
     \/ UNCHANGED msg_ctxs   \* no spare context, or no memory for its buffer
  /\ rx' = <<>>

\* Neither SOM nor EOM.
RxMiddle(p) ==
  /\ Accepted(p) /\ ~p.som /\ ~p.eom
  /\ \E i \in mctp_msg_ctx_lookup(p) :
       LET ctx == msg_ctxs[i] IN
       IF InSequence(ctx, p) /\ MiddleSize(ctx, p) /\ Fits(ctx, p)
         THEN SetCtx(i, [mctp_msg_ctx_add_pkt(ctx, p) EXCEPT !.last_seq = p.seq])
         ELSE SetCtx(i, FreeCtx)
  /\ rx' = <<>>

\* EOM: the message goes up if the packet fits it, and the context is freed
\* in either case.
RxEnd(p) ==
  /\ Accepted(p) /\ ~p.som /\ p.eom
  /\ \E i \in mctp_msg_ctx_lookup(p) :
       LET ctx == msg_ctxs[i]
           done == mctp_msg_ctx_add_pkt(ctx, p)
       IN /\ rx' = IF InSequence(ctx, p) /\ EndSize(ctx, p) /\ Fits(ctx, p)
                     THEN <<Message(p, done.buf, done.buf_size)>>
                     ELSE <<>>
          /\ SetCtx(i, FreeCtx)

\* A packet that continues a message of which there is no context.
RxStray(p) ==
  /\ Accepted(p) /\ ~p.som
  /\ mctp_msg_ctx_lookup(p) = {}
  /\ rx' = <<>>
  /\ UNCHANGED msg_ctxs

mctp_bus_rx(p) ==
  /\ \/ RxIgnored(p) \/ RxSingle(p) \/ RxRestart(p) \/ RxStart(p)
     \/ RxMiddle(p) \/ RxEnd(p) \/ RxStray(p)
  /\ UNCHANGED <<eid, max_message_size>>

\* Refuses reserved EIDs; contexts of messages to the old EID stay as they are.
mctp_bus_set_eid(e) ==
  /\ e >= 8 /\ e # MCTP_EID_BROADCAST
  /\ eid' = e
  /\ rx' = <<>>
  /\ UNCHANGED <<msg_ctxs, max_message_size>>

\* Only contexts created later get a buffer of the new size.
mctp_set_max_message_size(n) ==
  /\ max_message_size' = n
  /\ rx' = <<>>
  /\ UNCHANGED <<msg_ctxs, eid>>

Init ==
  /\ msg_ctxs = [i \in Slots |-> FreeCtx]
  /\ eid \in Eids
  /\ max_message_size \in MessageSizes
  /\ rx = <<>>

Next ==
  \/ \E p \in Packets : mctp_bus_rx(p)
  \/ \E e \in Eids : mctp_bus_set_eid(e)
  \/ \E n \in MessageSizes : mctp_set_max_message_size(n)

Spec == Init /\ [][Next]_vars

-----------------------------------------------------------------------------
Ctx == [alloc : BOOLEAN, src : Nat, dest : Nat, tag : Nat, last_seq : 0..3,
        buf : Seq(Packets), buf_size : Nat, buf_alloc_size : Nat,
        fragment_size : Nat]

\* Every variable holds a value of its type.
TypeOK ==
  /\ msg_ctxs \in [Slots -> Ctx]
  /\ eid \in Eids
  /\ max_message_size \in MessageSizes

\* Two contexts never collect fragments of the same (src, dest, tag), so the
\* first match that mctp_msg_ctx_lookup returns is the only one.
OneContextPerKey ==
  \A i, j \in Slots :
    msg_ctxs[i].alloc /\ msg_ctxs[j].alloc /\ SameKey(msg_ctxs[i], msg_ctxs[j])
      => i = j

\* A run of packets of one key that begins with SOM, has no other SOM, and in
\* which each sequence number follows the one before it modulo 4.
InOrder(buf) ==
  /\ buf # <<>>
  /\ buf[1].som
  /\ \A k \in 2..Len(buf) : /\ ~buf[k].som
                            /\ buf[k].seq = (buf[k-1].seq + 1) % 4
                            /\ SameKey(buf[k], buf[1])

\* A context in use holds the beginning of one message: an in-order run of
\* fragments of its own key, all of the size of the first and none an EOM;
\* buf_size counts exactly their payload bytes and never exceeds the buffer.
ContextWellFormed(ctx) ==
  /\ InOrder(ctx.buf)
  /\ SameKey(ctx, ctx.buf[1])
  /\ \A k \in 1..Len(ctx.buf) : /\ ctx.buf[k].size = ctx.fragment_size
                                /\ ~ctx.buf[k].eom
  /\ ctx.fragment_size >= HdrSize
  /\ ctx.last_seq = ctx.buf[Len(ctx.buf)].seq
  /\ ctx.buf_size = Len(ctx.buf) * (ctx.fragment_size - HdrSize)
  /\ ctx.buf_size <= ctx.buf_alloc_size
  /\ ctx.buf_alloc_size \in MessageSizes

ContextsWellFormed ==
  \A i \in Slots : msg_ctxs[i].alloc => ContextWellFormed(msg_ctxs[i])

\* An in-order run of packets of one key from SOM to the only EOM, every packet
\* but the last of the first one's size and the last no larger, with the length
\* that makes; the tag owner is that of the last packet.  A message of several
\* packets never exceeds a configured max_message_size.
WholeMessage(m) ==
  LET n == Len(m.buf)
  IN /\ InOrder(m.buf)
     /\ SameKey(m, m.buf[1])
     /\ m.to = m.buf[n].to
     /\ \A k \in 1..n : /\ m.buf[k].eom <=> k = n
                        /\ k < n => m.buf[k].size = m.buf[1].size
     /\ m.buf[n].size <= m.buf[1].size
     /\ m.len = (n - 1) * PayloadLen(m.buf[1]) + PayloadLen(m.buf[n])
     /\ n > 1 => \E max \in MessageSizes : m.len <= max

\* What mctp_bus_rx gives to mctp_rx is a whole message: never a fragment
\* short, never with a fragment of another size, key or place in the sequence.
DeliveredWellFormed == rx # <<>> => WholeMessage(rx[1])

\* A context is never taken from the message that holds it: it changes its
\* key only by being freed first, even when the contexts are exhausted, and a
\* buffer keeps the size it was allocated with when max_message_size changes.
ContextsAreNotStolen ==
  [][\A i \in Slots :
       msg_ctxs[i].alloc /\ msg_ctxs'[i].alloc
         => /\ SameKey(msg_ctxs'[i], msg_ctxs[i])
            /\ msg_ctxs'[i].buf_alloc_size = msg_ctxs[i].buf_alloc_size]_vars

\* What a packet may do: a context it changes is, before and after, free or in use
\* for its own key, and what is handed up is the packet alone, with every
\* context as it was, or what the context of its key held and then the packet.
OnOwnContext(p) ==
  /\ \A i \in Slots :
       msg_ctxs'[i] # msg_ctxs[i]
         => /\ msg_ctxs[i].alloc => SameKey(msg_ctxs[i], p)
            /\ msg_ctxs'[i].alloc => SameKey(msg_ctxs'[i], p)
  /\ rx' # <<>> =>
       \/ rx'[1].buf = <<p>> /\ UNCHANGED msg_ctxs
       \/ \E i \in Slots : /\ msg_ctxs[i].alloc /\ ~msg_ctxs'[i].alloc
                           /\ SameKey(msg_ctxs[i], p)
                           /\ rx'[1].buf = Append(msg_ctxs[i].buf, p)

\* A message in reassembly is disturbed only by packets of its own key, also when
\* the contexts are exhausted: whatever packet the step may be the arrival of, it
\* is OnOwnContext; and no message is disturbed by a change of the EID or of
\* max_message_size.
OnlyOwnContext ==
  [][/\ \A p \in Packets : OnOwnContext(p) \/ ~mctp_bus_rx(p)
     /\ UNCHANGED <<eid, max_message_size>> \/ UNCHANGED msg_ctxs]_vars

=============================================================================
