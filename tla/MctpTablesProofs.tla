-------------------------- MODULE MctpTablesProofs --------------------------
(***************************************************************************)
(* Proofs about the tables of core.c.  The first part is about             *)
(* MctpReassembly, for every number of contexts, every set of packets and  *)
(* every max_message_size.  The second is about MctpTags, for every size   *)
(* of the table, number of tags, timeout and set of endpoints, and an      *)
(* unbounded clock (every MaxTime).                                        *)
(***************************************************************************)
EXTENDS MctpReassembly, MctpTags, TLAPS, NaturalsInduction, WellFoundedInduction

USE DEF Slots

\* Every nonempty set of slots has a first one: the loops over msg_ctxs that
\* stop at the first match find a match if there is one.
LEMMA FirstExists ==
  ASSUME NEW S \in SUBSET Slots, S # {}
  PROVE  \E i \in Slots : IsFirst(i, S)
<1>1. S \subseteq Nat
  BY CtxsAssumption
<1>2. IsWellFoundedOn(OpToRel(<, Nat), Nat)
  BY NatLessThanWellFounded, Zenon
<1>3. PICK i \in S : \A j \in S : ~(<<j, i>> \in OpToRel(<, Nat))
  BY <1>1, <1>2, WFMin, Zenon
<1>4. ASSUME NEW j \in S
      PROVE  i <= j
  <2>1. i \in Nat /\ j \in Nat
    BY <1>1, Zenon
  <2>2. j < i => <<j, i>> \in OpToRel(<, Nat)
    BY <2>1, Zenon DEF OpToRel
  <2>3. ~(j < i)
    BY <1>3, <2>2, Zenon
  <2> QED
    BY <2>1, <2>3
<1> QED
  BY <1>4, Zenon DEF IsFirst

\* mctp_msg_ctx_lookup returns a context in use that has the packet's key, and
\* NULL only if there is none.
LEMMA LookupFound ==
  ASSUME NEW p, NEW i \in mctp_msg_ctx_lookup(p)
  PROVE  i \in Slots /\ msg_ctxs[i].alloc /\ SameKey(msg_ctxs[i], p)
BY Zenon DEF mctp_msg_ctx_lookup, IsFirst

\* A lookup that finds nothing: no context in use has the key of the packet.
LEMMA LookupNone ==
  ASSUME NEW p, mctp_msg_ctx_lookup(p) = {}
  PROVE  \A j \in Slots : ~(msg_ctxs[j].alloc /\ SameKey(msg_ctxs[j], p))
<1> DEFINE matching == {j \in Slots : msg_ctxs[j].alloc /\ SameKey(msg_ctxs[j], p)}
<1>1. ~\E i \in Slots : IsFirst(i, matching)
  BY Zenon DEF mctp_msg_ctx_lookup
<1>2. matching \in SUBSET Slots
  BY Zenon
<1>3. matching = {}
  <2> HIDE DEF matching
  <2> QED BY <1>1, <1>2, FirstExists
<1> QED
  BY <1>3, Zenon

\* The slot mctp_msg_ctx_create takes is not in use.
LEMMA SpareIsFree ==
  ASSUME NEW i \in SpareCtx
  PROVE  i \in Slots /\ ~msg_ctxs[i].alloc
BY Zenon DEF SpareCtx, IsFirst

-----------------------------------------------------------------------------
\* A context without a buffer has its type.
LEMMA FreeCtxType == FreeCtx \in Ctx /\ ~FreeCtx.alloc
BY DEF FreeCtx, Ctx

\* A message start puts an empty context into a well-formed state, or frees it.
LEMMA StartedWellFormed ==
  ASSUME NEW ctx \in Ctx, NEW p \in Packets,
         ctx.alloc, ctx.buf = <<>>, ctx.buf_size = 0,
         ctx.buf_alloc_size \in MessageSizes, SameKey(ctx, p),
         p.som, ~p.eom, p.size >= HdrSize
  PROVE  LET new == Started(ctx, p)
         IN  /\ new \in Ctx
             /\ new.alloc => ContextWellFormed(new) /\ SameKey(new, p)
<1>1. CASE Fits(ctx, p)
  <2> DEFINE new == [ctx EXCEPT !.buf = <<p>>, !.buf_size = p.size - 4,
                                !.fragment_size = p.size, !.last_seq = p.seq]
  <2>1. p.size \in Nat /\ p.size - 4 \in Nat /\ p.seq \in 0..3
    BY PacketsAssumption DEF HdrSize
  <2>2. Append(ctx.buf, p) = <<p>> /\ ctx.buf_size + PayloadLen(p) = p.size - 4
    BY <2>1 DEF PayloadLen, HdrSize
  <2>3. Started(ctx, p) = new
    BY <1>1, <2>2, Zenon DEF Started, mctp_msg_ctx_add_pkt, Ctx
  <2>4. new \in Ctx
    <3>1. <<p>> \in Seq(Packets)
      OBVIOUS
    <3> QED BY <2>1, <3>1 DEF Ctx
  <2>5. /\ new.buf = <<p>> /\ new.buf_size = p.size - 4 /\ new.last_seq = p.seq
        /\ new.fragment_size = p.size /\ new.buf_alloc_size = ctx.buf_alloc_size
        /\ new.src = ctx.src /\ new.dest = ctx.dest /\ new.tag = ctx.tag
    BY Zenon DEF Ctx
  <2>6. p.size - 4 <= ctx.buf_alloc_size
    BY <1>1, <2>1 DEF Fits, PayloadLen, HdrSize
  <2>7. ContextWellFormed(new) /\ SameKey(new, p)
    <3> HIDE DEF new
    <3> QED BY <2>1, <2>5, <2>6 DEF ContextWellFormed, InOrder, SameKey, HdrSize
  <2> QED
    BY <2>3, <2>4, <2>7, Zenon
<1>2. CASE ~Fits(ctx, p)
  BY <1>2, FreeCtxType, Zenon DEF Started
<1> QED
  BY <1>1, <1>2, Zenon

\* Appending the next packet of a message keeps its packets in order.
LEMMA AppendInOrder ==
  ASSUME NEW buf \in Seq(Packets), NEW p \in Packets, InOrder(buf),
         ~p.som, p.seq = (buf[Len(buf)].seq + 1) % 4, SameKey(p, buf[1])
  PROVE  /\ Append(buf, p) \in Seq(Packets)
         /\ Len(Append(buf, p)) = Len(buf) + 1
         /\ \A k \in 1..Len(buf) : Append(buf, p)[k] = buf[k]
         /\ Append(buf, p)[Len(buf) + 1] = p
         /\ Len(buf) \in Nat \ {0}
         /\ InOrder(Append(buf, p))
<1>1. /\ Append(buf, p) \in Seq(Packets)
      /\ Len(Append(buf, p)) = Len(buf) + 1
      /\ \A k \in 1..Len(buf) : Append(buf, p)[k] = buf[k]
      /\ Append(buf, p)[Len(buf) + 1] = p
  OBVIOUS
<1>2. Len(buf) \in Nat \ {0}
  BY DEF InOrder
<1>3. Append(buf, p) # <<>> /\ Append(buf, p)[1].som
  BY <1>1, <1>2 DEF InOrder
<1>4. ASSUME NEW k \in 2..(Len(buf) + 1)
      PROVE  LET b == Append(buf, p) IN
             ~b[k].som /\ b[k].seq = (b[k-1].seq + 1) % 4 /\ SameKey(b[k], b[1])
  <2>1. CASE k = Len(buf) + 1
    BY <2>1, <1>1, <1>2 DEF InOrder
  <2>2. CASE k \in 2..Len(buf)
    <3>1. k \in 1..Len(buf) /\ k-1 \in 1..Len(buf) /\ 1 \in 1..Len(buf)
      BY <2>2, <1>2
    <3> QED BY <2>2, <3>1, <1>1 DEF InOrder
  <2> QED
    BY <2>1, <2>2, <1>2
<1> QED
  BY <1>1, <1>2, <1>3, <1>4, Zenon DEF InOrder

\* A middle packet that passes the checks of mctp_bus_rx keeps its context
\* well-formed.
LEMMA MiddleWellFormed ==
  ASSUME NEW ctx \in Ctx, NEW p \in Packets,
         ctx.alloc, ContextWellFormed(ctx), SameKey(ctx, p),
         ~p.som, ~p.eom,
         InSequence(ctx, p), MiddleSize(ctx, p), Fits(ctx, p)
  PROVE  LET new == [mctp_msg_ctx_add_pkt(ctx, p) EXCEPT !.last_seq = p.seq]
         IN  new \in Ctx /\ ContextWellFormed(new) /\ SameKey(new, p)
<1> DEFINE b == Append(ctx.buf, p)
           n == Len(ctx.buf)
           size == ctx.buf_size + (p.size - 4)
           new == [ctx EXCEPT !.buf = b, !.buf_size = size, !.last_seq = p.seq]
<1>1. [mctp_msg_ctx_add_pkt(ctx, p) EXCEPT !.last_seq = p.seq] = new
  BY Zenon DEF mctp_msg_ctx_add_pkt, PayloadLen, HdrSize, Ctx
<1>2. /\ p.size \in Nat /\ p.seq \in 0..3 /\ ctx.fragment_size = p.size
      /\ p.size >= 4 /\ ctx.buf_size \in Nat /\ ctx.buf_alloc_size \in Nat
  BY PacketsAssumption, Zenon DEF MiddleSize, ContextWellFormed, Ctx, HdrSize
<1>3. /\ ctx.buf \in Seq(Packets) /\ InOrder(ctx.buf)
      /\ p.seq = (ctx.buf[n].seq + 1) % 4 /\ SameKey(p, ctx.buf[1])
  BY Zenon DEF ContextWellFormed, Ctx, InSequence, SameKey
<1>4. /\ b \in Seq(Packets) /\ Len(b) = n + 1 /\ n \in Nat \ {0}
      /\ \A k \in 1..n : b[k] = ctx.buf[k]
      /\ b[n + 1] = p /\ InOrder(b)
  BY <1>3, AppendInOrder
<1>5. size \in Nat /\ size <= ctx.buf_alloc_size /\ size = (n + 1) * (p.size - 4)
  <2>1. ctx.buf_size = n * (p.size - 4)
    BY <1>2, Zenon DEF ContextWellFormed, HdrSize
  <2>2. n * (p.size - 4) + (p.size - 4) = (n + 1) * (p.size - 4)
    BY <1>2, <1>4
  <2> QED
    BY <1>2, <2>1, <2>2 DEF Fits, PayloadLen, HdrSize
<1>6. /\ new.buf = b /\ new.buf_size = size /\ new.last_seq = p.seq
      /\ new.fragment_size = p.size /\ new.buf_alloc_size = ctx.buf_alloc_size
      /\ new.src = ctx.src /\ new.dest = ctx.dest /\ new.tag = ctx.tag
  BY <1>2, Zenon DEF Ctx
<1>7. new \in Ctx
  BY <1>2, <1>4, <1>5, Zenon DEF Ctx
<1>8. ContextWellFormed(new) /\ SameKey(new, p)
  <2> HIDE DEF b, n, size, new
  <2>1. SameKey(new, b[1]) /\ SameKey(new, p)
    BY <1>3, <1>4, <1>6 DEF SameKey, n
  <2>2. ASSUME NEW k \in 1..(n + 1)
        PROVE  b[k].size = p.size /\ ~b[k].eom
    <3>1. CASE k = n + 1
      BY <3>1, <1>4, Zenon
    <3>2. CASE k \in 1..n
      BY <3>2, <1>2, <1>4, Zenon DEF ContextWellFormed, n
    <3> QED
      BY <3>1, <3>2, <1>4
  <2>3. ctx.buf_alloc_size \in MessageSizes
    BY Zenon DEF ContextWellFormed
  <2> QED
    BY <1>2, <1>4, <1>5, <1>6, <2>1, <2>2, <2>3, Zenon DEF ContextWellFormed, HdrSize
<1> QED
  BY <1>1, <1>7, <1>8, Zenon

\* A packet with SOM and EOM is a whole message.
LEMMA SingleIsWhole ==
  ASSUME NEW p \in Packets, p.som, p.eom, p.size >= HdrSize
  PROVE  WholeMessage(Message(p, <<p>>, PayloadLen(p)))
<1> DEFINE m == Message(p, <<p>>, PayloadLen(p))
<1>1. /\ m.buf = <<p>> /\ m.len = PayloadLen(p) /\ m.to = p.to
      /\ m.src = p.src /\ m.dest = p.dest /\ m.tag = p.tag
  BY Zenon DEF Message
<1>2. p.size \in Nat /\ PayloadLen(p) \in Nat
  BY PacketsAssumption DEF PayloadLen, HdrSize
<1> HIDE DEF m
<1>3. WholeMessage(m)
  BY <1>1, <1>2 DEF WholeMessage, InOrder, SameKey
<1> QED
  BY <1>3, Zenon DEF m

\* A last packet that passes the checks of mctp_bus_rx completes a message.
LEMMA EndIsWhole ==
  ASSUME NEW ctx \in Ctx, NEW p \in Packets,
         ctx.alloc, ContextWellFormed(ctx), SameKey(ctx, p),
         ~p.som, p.eom, p.size >= HdrSize,
         InSequence(ctx, p), EndSize(ctx, p), Fits(ctx, p)
  PROVE  LET done == mctp_msg_ctx_add_pkt(ctx, p)
         IN  WholeMessage(Message(p, done.buf, done.buf_size))
<1> DEFINE b == Append(ctx.buf, p)
           n == Len(ctx.buf)
           size == ctx.buf_size + (p.size - 4)
           m == Message(p, b, size)
<1>1. LET done == mctp_msg_ctx_add_pkt(ctx, p)
      IN  done.buf = b /\ done.buf_size = size
  BY Zenon DEF mctp_msg_ctx_add_pkt, PayloadLen, HdrSize, Ctx
<1>2. /\ p.size \in Nat /\ p.size >= 4 /\ p.size <= ctx.fragment_size
      /\ ctx.fragment_size \in Nat /\ ctx.fragment_size >= 4
      /\ ctx.buf_size \in Nat /\ ctx.buf_alloc_size \in Nat
  BY PacketsAssumption, Zenon DEF EndSize, ContextWellFormed, Ctx, HdrSize
<1>3. /\ ctx.buf \in Seq(Packets) /\ InOrder(ctx.buf)
      /\ p.seq = (ctx.buf[n].seq + 1) % 4 /\ SameKey(p, ctx.buf[1])
  BY Zenon DEF ContextWellFormed, Ctx, InSequence, SameKey
<1>4. /\ Len(b) = n + 1 /\ n \in Nat \ {0} /\ b[n + 1] = p /\ InOrder(b)
      /\ \A k \in 1..n : b[k] = ctx.buf[k]
  BY <1>3, AppendInOrder, Zenon
<1>5. /\ m.buf = b /\ m.len = size /\ m.to = p.to
      /\ m.src = p.src /\ m.dest = p.dest /\ m.tag = p.tag
  BY Zenon DEF Message
<1>6. /\ \A k \in 1..n : b[k].size = ctx.fragment_size /\ ~b[k].eom
      /\ b[1] = ctx.buf[1] /\ b[1].size = ctx.fragment_size
  BY <1>4 DEF ContextWellFormed
<1>7. size = n * (ctx.fragment_size - 4) + (p.size - 4)
  BY Zenon DEF ContextWellFormed, HdrSize
<1>8. size <= ctx.buf_alloc_size /\ ctx.buf_alloc_size \in MessageSizes
  BY Zenon DEF Fits, PayloadLen, HdrSize, ContextWellFormed
<1> HIDE DEF b, n, size, m
<1>9. \A k \in 1..(n + 1) : /\ b[k].eom <=> k = n + 1
                            /\ k < n + 1 => b[k].size = b[1].size
  <2> SUFFICES ASSUME NEW k \in 1..(n + 1)
               PROVE  /\ b[k].eom <=> k = n + 1
                      /\ k < n + 1 => b[k].size = b[1].size
    BY Zenon
  <2>1. CASE k = n + 1
    BY <2>1, <1>4
  <2>2. CASE k \in 1..n
    BY <2>2, <1>4, <1>6, Zenon
  <2> QED
    BY <2>1, <2>2, <1>4
<1>10. SameKey(m, b[1])
  BY <1>3, <1>5, <1>6, Zenon DEF SameKey
<1>11. size = ((n + 1) - 1) * PayloadLen(b[1]) + PayloadLen(b[n + 1])
  BY <1>4, <1>6, <1>7 DEF PayloadLen, HdrSize
<1>12. WholeMessage(m)
  BY <1>2, <1>4, <1>5, <1>6, <1>8, <1>9, <1>10, <1>11 DEF WholeMessage
<1> QED
  BY <1>1, <1>12, Zenon DEF m

-----------------------------------------------------------------------------
\* The part of the invariant that is about the contexts.
ContextsInv == msg_ctxs \in [Slots -> Ctx] /\ OneContextPerKey /\ ContextsWellFormed

\* Writing one context preserves it if what is written is well-formed and no
\* other context has its key.
LEMMA SetCtxPreserves ==
  ASSUME ContextsInv, NEW i \in Slots, NEW c \in Ctx, SetCtx(i, c),
         c.alloc => /\ ContextWellFormed(c)
                    /\ \A j \in Slots \ {i} :
                         ~(msg_ctxs[j].alloc /\ SameKey(msg_ctxs[j], c))
  PROVE  ContextsInv'
<1>1. /\ msg_ctxs' \in [Slots -> Ctx]
      /\ msg_ctxs'[i] = c
      /\ \A j \in Slots \ {i} : msg_ctxs'[j] = msg_ctxs[j]
  BY Zenon DEF ContextsInv, SetCtx
<1>2. OneContextPerKey'
  <2> SUFFICES ASSUME NEW j \in Slots, NEW k \in Slots,
                      msg_ctxs'[j].alloc, msg_ctxs'[k].alloc,
                      SameKey(msg_ctxs'[j], msg_ctxs'[k])
               PROVE  j = k
    BY Zenon DEF OneContextPerKey
  <2>1. CASE j = i /\ k # i
    BY <2>1, <1>1 DEF SameKey
  <2>2. CASE k = i /\ j # i
    BY <2>2, <1>1 DEF SameKey
  <2>3. CASE j # i /\ k # i
    BY <2>3, <1>1, Zenon DEF ContextsInv, OneContextPerKey
  <2> QED
    BY <2>1, <2>2, <2>3, Zenon
<1>3. ContextsWellFormed'
  BY <1>1, Zenon DEF ContextsInv, ContextsWellFormed
<1> QED
  BY <1>1, <1>2, <1>3, Zenon DEF ContextsInv

\* A context that is looked up or created for a packet is the only one of the
\* packet's key once it is written.
LEMMA OnlyLookedUp ==
  ASSUME ContextsInv, NEW p, NEW i \in mctp_msg_ctx_lookup(p)
  PROVE  \A j \in Slots \ {i} : ~(msg_ctxs[j].alloc /\ SameKey(msg_ctxs[j], p))
BY LookupFound DEF ContextsInv, OneContextPerKey, SameKey

\* The inductive invariant of the reassembler.
IInv == TypeOK /\ OneContextPerKey /\ ContextsWellFormed /\ DeliveredWellFormed

\* The initial state has no context in use.
LEMMA InitIInv == Init => IInv
BY FreeCtxType, Zenon DEF Init, IInv, TypeOK, OneContextPerKey, ContextsWellFormed,
                   DeliveredWellFormed

\* Freeing a context preserves the invariant of the contexts.
LEMMA FreePreserves ==
  ASSUME ContextsInv, NEW i \in Slots, SetCtx(i, FreeCtx)
  PROVE  ContextsInv'
BY SetCtxPreserves, FreeCtxType, Zenon

\* mctp_bus_rx preserves the invariant, whatever the packet.
LEMMA BusRxPreserves ==
  ASSUME ContextsInv, max_message_size \in MessageSizes,
         NEW p \in Packets, mctp_bus_rx(p)
  PROVE  ContextsInv' /\ DeliveredWellFormed'
<1>u. CASE UNCHANGED msg_ctxs /\ rx' = <<>>
  BY <1>u, Zenon DEF ContextsInv, OneContextPerKey, ContextsWellFormed, DeliveredWellFormed
<1>s. ASSUME rx' = <<>>
      PROVE  DeliveredWellFormed'
  BY <1>s, Zenon DEF DeliveredWellFormed
<1>1. CASE RxIgnored(p)
  BY <1>1, <1>u, Zenon DEF RxIgnored
<1>2. CASE RxSingle(p)
  <2>1. CASE rx' = <<>>
    BY <2>1, <1>2, <1>u, Zenon DEF RxSingle
  <2>2. CASE rx' = <<Message(p, <<p>>, PayloadLen(p))>>
    <3>1. WholeMessage(rx'[1])
      BY <2>2, <1>2, SingleIsWhole, Zenon DEF RxSingle, Accepted
    <3>2. DeliveredWellFormed'
      BY <3>1, Zenon DEF DeliveredWellFormed
    <3> QED
      BY <3>2, <1>2, Zenon DEF RxSingle, ContextsInv, OneContextPerKey, ContextsWellFormed
  <2> QED
    BY <1>2, <2>1, <2>2, Zenon DEF RxSingle
<1>3. CASE RxRestart(p)
  <2>1. PICK i \in mctp_msg_ctx_lookup(p) :
          SetCtx(i, Started(mctp_msg_ctx_reset(msg_ctxs[i]), p))
    BY <1>3, Zenon DEF RxRestart
  <2> DEFINE ctx == mctp_msg_ctx_reset(msg_ctxs[i])
  <2>2. i \in Slots /\ msg_ctxs[i].alloc /\ SameKey(msg_ctxs[i], p)
    BY <2>1, LookupFound, Zenon
  <2>3. msg_ctxs[i] \in Ctx /\ msg_ctxs[i].buf_alloc_size \in MessageSizes
    BY <2>2, Zenon DEF ContextsInv, ContextsWellFormed, ContextWellFormed
  <2>4. /\ ctx \in Ctx /\ ctx.alloc /\ ctx.buf = <<>> /\ ctx.buf_size = 0
        /\ ctx.buf_alloc_size \in MessageSizes /\ SameKey(ctx, p)
    <3>1. <<>> \in Seq(Packets)
      OBVIOUS
    <3>2. ctx \in Ctx
      BY <2>3, <3>1, Zenon DEF mctp_msg_ctx_reset, Ctx
    <3>3. /\ ctx.alloc = msg_ctxs[i].alloc /\ ctx.buf = <<>> /\ ctx.buf_size = 0
          /\ ctx.buf_alloc_size = msg_ctxs[i].buf_alloc_size
          /\ ctx.src = msg_ctxs[i].src /\ ctx.dest = msg_ctxs[i].dest
          /\ ctx.tag = msg_ctxs[i].tag
      BY <2>3, Zenon DEF mctp_msg_ctx_reset, Ctx
    <3> QED
      BY <2>2, <2>3, <3>2, <3>3, Zenon DEF SameKey
  <2> HIDE DEF ctx
  <2>5. p.som /\ ~p.eom /\ p.size >= HdrSize /\ rx' = <<>>
    BY <1>3, Zenon DEF RxRestart, Accepted
  <2>6. /\ Started(ctx, p) \in Ctx
        /\ Started(ctx, p).alloc => /\ ContextWellFormed(Started(ctx, p))
                                    /\ SameKey(Started(ctx, p), p)
    BY <2>4, <2>5, StartedWellFormed, Zenon
  <2>7. ContextsInv'
    BY <2>1, <2>2, <2>6, OnlyLookedUp, SetCtxPreserves DEF ctx, SameKey
  <2> QED
    BY <2>5, <2>7, <1>s, Zenon
<1>4. CASE RxStart(p)
  <2>1. p.som /\ ~p.eom /\ p.size >= HdrSize /\ rx' = <<>>
    BY <1>4, Zenon DEF RxStart, Accepted
  <2>2. CASE UNCHANGED msg_ctxs
    BY <2>1, <2>2, <1>u, Zenon
  <2>3. ASSUME NEW i \in SpareCtx, SetCtx(i, Started(mctp_msg_ctx_create(p), p))
        PROVE  ContextsInv'
    <3> DEFINE ctx == mctp_msg_ctx_create(p)
    <3>1. i \in Slots
      BY SpareIsFree, Zenon
    <3>2. /\ ctx \in Ctx /\ ctx.alloc /\ ctx.buf = <<>> /\ ctx.buf_size = 0
          /\ ctx.buf_alloc_size \in MessageSizes /\ SameKey(ctx, p)
      <4>1. FreeCtx \in Ctx /\ FreeCtx.buf = <<>> /\ FreeCtx.buf_size = 0
        BY FreeCtxType, Zenon DEF FreeCtx
      <4>2. /\ p.src \in Nat /\ p.dest \in Nat /\ p.tag \in Nat
            /\ max_message_size \in Nat
        BY PacketsAssumption, SizesAssumption, Zenon
      <4> QED
        BY <4>1, <4>2, Zenon DEF mctp_msg_ctx_create, Ctx, SameKey
    <3> HIDE DEF ctx
    <3>3. /\ Started(ctx, p) \in Ctx
          /\ Started(ctx, p).alloc => /\ ContextWellFormed(Started(ctx, p))
                                      /\ SameKey(Started(ctx, p), p)
      BY <3>2, <2>1, StartedWellFormed, Zenon
    <3>4. \A j \in Slots : ~(msg_ctxs[j].alloc /\ SameKey(msg_ctxs[j], p))
      BY <1>4, LookupNone, Zenon DEF RxStart
    <3> QED
      BY <2>3, <3>1, <3>3, <3>4, SetCtxPreserves, Zenon DEF ctx, SameKey
  <2> QED
    BY <1>4, <2>1, <2>2, <2>3, <1>s, Zenon DEF RxStart
<1>5. CASE RxMiddle(p)
  <2>1. PICK i \in mctp_msg_ctx_lookup(p) :
          LET ctx == msg_ctxs[i] IN
          IF InSequence(ctx, p) /\ MiddleSize(ctx, p) /\ Fits(ctx, p)
            THEN SetCtx(i, [mctp_msg_ctx_add_pkt(ctx, p) EXCEPT !.last_seq = p.seq])
            ELSE SetCtx(i, FreeCtx)
    BY <1>5, Zenon DEF RxMiddle
  <2> DEFINE ctx == msg_ctxs[i]
             new == [mctp_msg_ctx_add_pkt(ctx, p) EXCEPT !.last_seq = p.seq]
  <2>2. i \in Slots /\ ctx.alloc /\ SameKey(ctx, p)
    BY <2>1, LookupFound, Zenon
  <2>3. ctx \in Ctx /\ ContextWellFormed(ctx)
    BY <2>2, Zenon DEF ContextsInv, ContextsWellFormed
  <2>4. CASE InSequence(ctx, p) /\ MiddleSize(ctx, p) /\ Fits(ctx, p)
    <3>1. SetCtx(i, new)
      BY <2>1, <2>4, Zenon
    <3>2. new \in Ctx /\ ContextWellFormed(new) /\ SameKey(new, p)
      BY <1>5, <2>2, <2>3, <2>4, MiddleWellFormed, Zenon DEF RxMiddle
    <3> HIDE DEF new
    <3>3. ContextsInv'
      BY <3>1, <3>2, <2>1, <2>2, OnlyLookedUp, SetCtxPreserves DEF SameKey
    <3> QED
      BY <3>3, <1>5, <1>s, Zenon DEF RxMiddle
  <2>5. CASE ~(InSequence(ctx, p) /\ MiddleSize(ctx, p) /\ Fits(ctx, p))
    BY <2>1, <2>2, <2>5, <1>5, <1>s, FreePreserves, Zenon DEF RxMiddle
  <2> QED
    BY <2>4, <2>5, Zenon
<1>6. CASE RxEnd(p)
  <2>1. PICK i \in mctp_msg_ctx_lookup(p) :
          LET ctx == msg_ctxs[i]
              done == mctp_msg_ctx_add_pkt(ctx, p)
          IN /\ rx' = IF InSequence(ctx, p) /\ EndSize(ctx, p) /\ Fits(ctx, p)
                        THEN <<Message(p, done.buf, done.buf_size)>>
                        ELSE <<>>
             /\ SetCtx(i, FreeCtx)
    BY <1>6, Zenon DEF RxEnd
  <2> DEFINE ctx == msg_ctxs[i]
             done == mctp_msg_ctx_add_pkt(ctx, p)
  <2>2. i \in Slots /\ ctx.alloc /\ SameKey(ctx, p)
    BY <2>1, LookupFound, Zenon
  <2>3. ctx \in Ctx /\ ContextWellFormed(ctx)
    BY <2>2, Zenon DEF ContextsInv, ContextsWellFormed
  <2>4. ContextsInv'
    BY <2>1, <2>2, FreePreserves, Zenon
  <2>5. CASE InSequence(ctx, p) /\ EndSize(ctx, p) /\ Fits(ctx, p)
    <3>1. WholeMessage(Message(p, done.buf, done.buf_size))
      BY <1>6, <2>2, <2>3, <2>5, EndIsWhole, Zenon DEF RxEnd, Accepted
    <3>2. rx'[1] = Message(p, done.buf, done.buf_size)
      BY <2>1, <2>5, Zenon
    <3> HIDE DEF done
    <3>3. DeliveredWellFormed'
      <4>1. WholeMessage(rx'[1])
        BY <3>1, <3>2, Zenon
      <4> QED
        BY <4>1, Zenon DEF DeliveredWellFormed
    <3> QED
      BY <3>3, <2>4, Zenon
  <2>6. CASE ~(InSequence(ctx, p) /\ EndSize(ctx, p) /\ Fits(ctx, p))
    BY <2>1, <2>4, <2>6, <1>s, Zenon
  <2> QED
    BY <2>5, <2>6, Zenon
<1>7. CASE RxStray(p)
  BY <1>7, <1>u, Zenon DEF RxStray
<1> QED
  BY <1>1, <1>2, <1>3, <1>4, <1>5, <1>6, <1>7, Zenon DEF mctp_bus_rx

\* Every step preserves the invariant.
LEMMA NextIInv == IInv /\ [Next]_vars => IInv'
<1> SUFFICES ASSUME IInv, [Next]_vars
             PROVE  IInv'
  BY Zenon
<1>0. ContextsInv
  BY Zenon DEF IInv, TypeOK, ContextsInv
<1>1. ASSUME NEW p \in Packets, mctp_bus_rx(p)
      PROVE  IInv'
  <2>1. ContextsInv' /\ DeliveredWellFormed'
    BY <1>0, <1>1, BusRxPreserves, Zenon DEF IInv, TypeOK
  <2> QED
    BY <1>1, <2>1, Zenon DEF IInv, TypeOK, ContextsInv, mctp_bus_rx
<1>2. ASSUME NEW e \in Eids, mctp_bus_set_eid(e)
      PROVE  IInv'
  BY <1>2, Zenon DEF IInv, TypeOK, OneContextPerKey, ContextsWellFormed,
              DeliveredWellFormed, mctp_bus_set_eid
<1>3. ASSUME NEW n \in MessageSizes, mctp_set_max_message_size(n)
      PROVE  IInv'
  BY <1>3, Zenon DEF IInv, TypeOK, OneContextPerKey, ContextsWellFormed,
              DeliveredWellFormed, mctp_set_max_message_size
<1>4. CASE UNCHANGED vars
  BY <1>4, Zenon DEF IInv, TypeOK, OneContextPerKey, ContextsWellFormed,
              DeliveredWellFormed, vars
<1> QED
  BY <1>1, <1>2, <1>3, <1>4, Zenon DEF Next

\* The invariant holds in every state, for every number of contexts, every set
\* of packets, in any order, and any changes of EID and max_message_size.
THEOREM ReassemblyInvariant == Spec => []IInv
BY InitIInv, NextIInv, PTL DEF Spec

\* Every variable of the reassembler always has its type.
THEOREM ReassemblyTypeOK == Spec => []TypeOK
<1>1. IInv => TypeOK
  BY Zenon DEF IInv
<1> QED
  BY <1>1, ReassemblyInvariant, PTL

\* No two contexts ever collect fragments of the same (src, dest, tag).
THEOREM ReassemblyOneContextPerKey == Spec => []OneContextPerKey
<1>1. IInv => OneContextPerKey
  BY Zenon DEF IInv
<1> QED
  BY <1>1, ReassemblyInvariant, PTL

\* Every context in use always holds the in-order beginning of one message, and
\* its buffer is never written past its allocated size.
THEOREM ReassemblyContextsWellFormed == Spec => []ContextsWellFormed
<1>1. IInv => ContextsWellFormed
  BY Zenon DEF IInv
<1> QED
  BY <1>1, ReassemblyInvariant, PTL

\* Whatever mctp_bus_rx hands to mctp_rx is a whole message.
THEOREM ReassemblyDeliversWhole == Spec => []DeliveredWellFormed
<1>1. IInv => DeliveredWellFormed
  BY Zenon DEF IInv
<1> QED
  BY <1>1, ReassemblyInvariant, PTL

-----------------------------------------------------------------------------
\* A context after a step still belongs to the message, and has the buffer, that it
\* had before, if it was in use and is.
Same(new, old) ==
  old.alloc /\ new.alloc =>
    SameKey(new, old) /\ new.buf_alloc_size = old.buf_alloc_size

\* What mctp_bus_rx does to the contexts: it writes at most one, and not for another
\* message.
WritesOne ==
  \E i \in Slots : /\ \A j \in Slots \ {i} : msg_ctxs'[j] = msg_ctxs[j]
                   /\ Same(msg_ctxs'[i], msg_ctxs[i])

\* A context that starts over, or goes on, keeps its key and its buffer.
LEMMA AddPktKeeps ==
  ASSUME NEW ctx \in Ctx, NEW p
  PROVE  /\ Same(Started(mctp_msg_ctx_reset(ctx), p), ctx)
         /\ Same([mctp_msg_ctx_add_pkt(ctx, p) EXCEPT !.last_seq = p.seq], ctx)
         /\ Same(FreeCtx, ctx)
BY Zenon DEF Same, Started, mctp_msg_ctx_reset, mctp_msg_ctx_add_pkt, SameKey, Ctx, FreeCtx

\* A step that frees, restarts, continues or takes a context writes no other.
LEMMA SetCtxWritesOne ==
  ASSUME msg_ctxs \in [Slots -> Ctx], NEW i \in Slots, NEW c, SetCtx(i, c),
         Same(c, msg_ctxs[i])
  PROVE  WritesOne
BY Zenon DEF SetCtx, WritesOne

\* Each path of mctp_bus_rx.
LEMMA BusRxWritesOne ==
  ASSUME msg_ctxs \in [Slots -> Ctx], NEW p \in Packets, mctp_bus_rx(p)
  PROVE  UNCHANGED msg_ctxs \/ WritesOne
<1>1. CASE RxRestart(p)
  <2>1. PICK i \in mctp_msg_ctx_lookup(p) :
          SetCtx(i, Started(mctp_msg_ctx_reset(msg_ctxs[i]), p))
    BY <1>1, Zenon DEF RxRestart
  <2>2. i \in Slots /\ msg_ctxs[i] \in Ctx
    BY <2>1, LookupFound, Zenon
  <2> QED
    BY <2>1, <2>2, AddPktKeeps, SetCtxWritesOne, Zenon
<1>2. CASE RxStart(p)
  <2>1. ASSUME NEW i \in SpareCtx, SetCtx(i, Started(mctp_msg_ctx_create(p), p))
        PROVE  WritesOne
    BY <2>1, SpareIsFree, SetCtxWritesOne, Zenon DEF Same
  <2> QED
    BY <1>2, <2>1, Zenon DEF RxStart
<1>3. CASE RxMiddle(p)
  <2>1. PICK i \in mctp_msg_ctx_lookup(p) :
          \/ SetCtx(i, [mctp_msg_ctx_add_pkt(msg_ctxs[i], p) EXCEPT !.last_seq = p.seq])
          \/ SetCtx(i, FreeCtx)
    BY <1>3, Zenon DEF RxMiddle
  <2>2. i \in Slots /\ msg_ctxs[i] \in Ctx
    BY <2>1, LookupFound, Zenon
  <2> QED
    BY <2>1, <2>2, AddPktKeeps, SetCtxWritesOne, Zenon
<1>4. CASE RxEnd(p)
  <2>1. PICK i \in mctp_msg_ctx_lookup(p) : SetCtx(i, FreeCtx)
    BY <1>4, Zenon DEF RxEnd
  <2>2. i \in Slots /\ msg_ctxs[i] \in Ctx
    BY <2>1, LookupFound, Zenon
  <2> QED
    BY <2>1, <2>2, AddPktKeeps, SetCtxWritesOne, Zenon
<1> QED
  BY <1>1, <1>2, <1>3, <1>4, Zenon DEF mctp_bus_rx, RxIgnored, RxSingle, RxStray

\* A context that is written for the packet p: it is free or in use for the key of p,
\* before and after.
OwnsBoth(old, new, p) ==
  (old.alloc => SameKey(old, p)) /\ (new.alloc => SameKey(new, p))

\* What a packet leaves in a context of its own key, or in one it takes, has its key.
LEMMA AddPktOwns ==
  ASSUME NEW ctx \in Ctx, NEW p \in Packets, ctx.alloc => SameKey(ctx, p)
  PROVE  /\ ctx.alloc => OwnsBoth(ctx, Started(mctp_msg_ctx_reset(ctx), p), p)
         /\ ctx.alloc =>
              OwnsBoth(ctx, [mctp_msg_ctx_add_pkt(ctx, p) EXCEPT !.last_seq = p.seq], p)
         /\ OwnsBoth(ctx, Started(mctp_msg_ctx_create(p), p), p)
         /\ OwnsBoth(ctx, FreeCtx, p)
<1>1. OwnsBoth(ctx, FreeCtx, p)
  BY FreeCtxType, Zenon DEF OwnsBoth
<1>2. mctp_msg_ctx_create(p).src = p.src /\ mctp_msg_ctx_create(p).dest = p.dest
      /\ mctp_msg_ctx_create(p).tag = p.tag
  BY DEF mctp_msg_ctx_create, FreeCtx
<1>3. OwnsBoth(ctx, Started(mctp_msg_ctx_create(p), p), p)
  BY <1>1, <1>2 DEF OwnsBoth, Started, mctp_msg_ctx_add_pkt, SameKey, mctp_msg_ctx_create, FreeCtx
<1>4. ctx.alloc => OwnsBoth(ctx, Started(mctp_msg_ctx_reset(ctx), p), p)
  BY <1>1, Zenon DEF OwnsBoth, Started, mctp_msg_ctx_reset, mctp_msg_ctx_add_pkt, SameKey, Ctx
<1>5. ctx.alloc =>
        OwnsBoth(ctx, [mctp_msg_ctx_add_pkt(ctx, p) EXCEPT !.last_seq = p.seq], p)
  BY Zenon DEF OwnsBoth, mctp_msg_ctx_add_pkt, SameKey, Ctx
<1> QED
  BY <1>1, <1>3, <1>4, <1>5, Zenon

\* Whatever packet arrives, the contexts it changes are free or of its key.
Owned(p) ==
  \A i \in Slots : msg_ctxs'[i] # msg_ctxs[i] => OwnsBoth(msg_ctxs[i], msg_ctxs'[i], p)

\* A step that writes one context, for the packet p.
LEMMA SetCtxOwned ==
  ASSUME msg_ctxs \in [Slots -> Ctx], NEW p, NEW i \in Slots, NEW c, SetCtx(i, c),
         OwnsBoth(msg_ctxs[i], c, p)
  PROVE  Owned(p)
BY Zenon DEF SetCtx, Owned

\* Each path of mctp_bus_rx writes a context the lookup found, or a spare one.
LEMMA BusRxOwned ==
  ASSUME msg_ctxs \in [Slots -> Ctx], NEW p \in Packets, mctp_bus_rx(p)
  PROVE  Owned(p)
<1>0. ASSUME NEW i \in mctp_msg_ctx_lookup(p)
      PROVE  i \in Slots /\ msg_ctxs[i] \in Ctx /\ msg_ctxs[i].alloc /\ SameKey(msg_ctxs[i], p)
  BY <1>0, LookupFound, Zenon
<1>1. CASE RxRestart(p)
  <2>1. PICK i \in mctp_msg_ctx_lookup(p) :
          SetCtx(i, Started(mctp_msg_ctx_reset(msg_ctxs[i]), p))
    BY <1>1, Zenon DEF RxRestart
  <2> QED
    BY <2>1, <1>0, AddPktOwns, SetCtxOwned, Zenon
<1>2. CASE RxStart(p)
  <2>1. ASSUME NEW i \in SpareCtx, SetCtx(i, Started(mctp_msg_ctx_create(p), p))
        PROVE  Owned(p)
    <3>1. i \in Slots /\ ~msg_ctxs[i].alloc /\ msg_ctxs[i] \in Ctx
      BY <2>1, SpareIsFree, Zenon
    <3> QED
      BY <2>1, <3>1, AddPktOwns, SetCtxOwned, Zenon
  <2> QED
    BY <1>2, <2>1, Zenon DEF RxStart, Owned
<1>3. CASE RxMiddle(p)
  <2>1. PICK i \in mctp_msg_ctx_lookup(p) :
          \/ SetCtx(i, [mctp_msg_ctx_add_pkt(msg_ctxs[i], p) EXCEPT !.last_seq = p.seq])
          \/ SetCtx(i, FreeCtx)
    BY <1>3, Zenon DEF RxMiddle
  <2> QED
    BY <2>1, <1>0, AddPktOwns, SetCtxOwned, Zenon
<1>4. CASE RxEnd(p)
  <2>1. PICK i \in mctp_msg_ctx_lookup(p) : SetCtx(i, FreeCtx)
    BY <1>4, Zenon DEF RxEnd
  <2> QED
    BY <2>1, <1>0, AddPktOwns, SetCtxOwned, Zenon
<1> QED
  BY <1>1, <1>2, <1>3, <1>4, Zenon DEF mctp_bus_rx, RxIgnored, RxSingle, RxStray, Owned

\* What mctp_bus_rx hands up is a single packet, or the context of its key and the packet.
LEMMA BusRxHandsUp ==
  ASSUME ContextsInv, NEW p \in Packets, mctp_bus_rx(p), rx' # <<>>
  PROVE  \/ rx'[1].buf = <<p>> /\ UNCHANGED msg_ctxs
         \/ \E i \in Slots : /\ msg_ctxs[i].alloc /\ ~msg_ctxs'[i].alloc
                             /\ SameKey(msg_ctxs[i], p)
                             /\ rx'[1].buf = Append(msg_ctxs[i].buf, p)
<1>1. RxSingle(p) \/ RxEnd(p)
  BY Zenon DEF mctp_bus_rx, RxIgnored, RxRestart, RxStart, RxMiddle, RxStray
<1>2. CASE RxSingle(p)
  BY <1>2 DEF RxSingle, Message
<1>3. CASE RxEnd(p)
  <2>1. PICK i \in mctp_msg_ctx_lookup(p) :
          LET done == mctp_msg_ctx_add_pkt(msg_ctxs[i], p)
          IN /\ rx' = <<Message(p, done.buf, done.buf_size)>>
             /\ SetCtx(i, FreeCtx)
    BY <1>3, Zenon DEF RxEnd
  <2>2. i \in Slots /\ msg_ctxs[i].alloc /\ SameKey(msg_ctxs[i], p)
    BY <2>1, LookupFound, Zenon
  <2>3. msg_ctxs[i] \in Ctx
    BY <2>2, Zenon DEF ContextsInv
  <2>4. rx'[1].buf = Append(msg_ctxs[i].buf, p)
    BY <2>1, <2>3, Zenon DEF Message, mctp_msg_ctx_add_pkt, Ctx
  <2>5. ~msg_ctxs'[i].alloc
    BY <2>1, <2>2, FreeCtxType, Zenon DEF SetCtx, ContextsInv
  <2> QED
    BY <2>2, <2>4, <2>5, Zenon
<1> QED
  BY <1>1, <1>2, <1>3, Zenon

\* No step takes a context from the message that holds it, or changes the size of its
\* buffer, though the contexts be exhausted and max_message_size change.
THEOREM ReassemblyNotStolen == Spec => ContextsAreNotStolen
<1> DEFINE Kept == \A i \in Slots :
                     msg_ctxs[i].alloc /\ msg_ctxs'[i].alloc =>
                       /\ SameKey(msg_ctxs'[i], msg_ctxs[i])
                       /\ msg_ctxs'[i].buf_alloc_size = msg_ctxs[i].buf_alloc_size
<1>1. IInv /\ [Next]_vars => [Kept]_vars
  <2> SUFFICES ASSUME IInv, Next
               PROVE  Kept
    BY Zenon
  <2>1. UNCHANGED msg_ctxs \/ WritesOne
    BY BusRxWritesOne, Zenon DEF Next, IInv, TypeOK, mctp_bus_set_eid, mctp_set_max_message_size
  <2> QED
    BY <2>1, Zenon DEF WritesOne, Same, SameKey
<1> QED
  BY <1>1, ReassemblyInvariant, PTL DEF Spec, ContextsAreNotStolen

\* A message in reassembly is disturbed only by packets of its own key: a packet of
\* another neither frees nor changes its context nor is part of what is handed up, and
\* calls that change the EID or max_message_size leave every context alone.
THEOREM ReassemblyOnlyOwn == Spec => OnlyOwnContext
<1> DEFINE Own == \A p \in Packets : OnOwnContext(p) \/ ~mctp_bus_rx(p)
           Apart == UNCHANGED <<eid, max_message_size>> \/ UNCHANGED msg_ctxs
<1>1. IInv /\ [Next]_vars => [Own /\ Apart]_vars
  <2> SUFFICES ASSUME IInv, Next
               PROVE  Own /\ Apart
    BY Zenon
  <2>0. ContextsInv
    BY Zenon DEF IInv, TypeOK, ContextsInv
  <2>1. Apart
    BY Zenon DEF Next, mctp_bus_rx, mctp_bus_set_eid, mctp_set_max_message_size
  <2>2. ASSUME NEW p \in Packets, mctp_bus_rx(p)
        PROVE  OnOwnContext(p)
    <3>1. Owned(p)
      BY <2>0, <2>2, BusRxOwned, Zenon DEF ContextsInv
    <3> QED
      BY <2>0, <2>2, <3>1, BusRxHandsUp, Zenon DEF OnOwnContext, Owned, OwnsBoth
  <2> QED
    BY <2>1, <2>2, Zenon
<1> QED
  BY <1>1, ReassemblyInvariant, PTL DEF Spec, OnlyOwnContext

-----------------------------------------------------------------------------
\* The request tags.
\* The expiry the code stores is the time of the request plus the timeout.
ExpiryFromRequest ==
  \A i \in TagSlots : req_tags[i].local # 0 => req_tags[i].expiry = req_tags[i].at + TagTimeout

\* The inductive invariant: TagTypes and WaitingTagsUnique, and that a slot's
\* expiry agrees with the history of its request.
TagsIInv == TagTypes /\ ExpiryFromRequest /\ WaitingTagsUnique

ReqTag == [local : Nat, remote : Nat, tag : Tags, expiry : Nat, at : Nat]

\* An unused slot has its type.
LEMMA SpareTagType == SpareTag \in ReqTag
BY TagsAssumption DEF SpareTag, ReqTag, Tags

\* The slots mctp_alloc_tag regards as in use are those of waiting requests.
LEMMA LiveIsWaiting ==
  ASSUME TagTypes, ExpiryFromRequest, NEW i \in TagSlots
  PROVE  Live(i) <=> Waiting(i)
<1>1. req_tags[i] \in ReqTag
  BY Zenon DEF TagTypes, ReqTag
<1>2. now \in Nat /\ TagTimeout \in Nat
  BY TagsAssumption, Zenon DEF TagTypes
<1> QED
  BY <1>1, <1>2 DEF Live, IsSpare, Waiting, ExpiryFromRequest, ReqTag

\* Clearing a slot, or leaving the table alone, preserves the invariant.
LEMMA DeallocPreserves ==
  ASSUME TagsIInv, NEW local, NEW remote, NEW tag, mctp_dealloc_tag(local, remote, tag),
         UNCHANGED <<tag_round_robin, now, bus_eid, last_tag>>
  PROVE  TagsIInv'
<1>1. CASE UNCHANGED req_tags
  BY <1>1, Zenon DEF TagsIInv, TagTypes, ExpiryFromRequest, WaitingTagsUnique, Waiting
<1>2. ASSUME NEW i \in TagSlots, req_tags' = [req_tags EXCEPT ![i] = SpareTag]
      PROVE  TagsIInv'
  <2>1. req_tags \in [TagSlots -> ReqTag]
    BY Zenon DEF TagsIInv, TagTypes, ReqTag
  <2>2. /\ req_tags' \in [TagSlots -> ReqTag]
        /\ req_tags'[i].local = 0
        /\ \A j \in TagSlots \ {i} : req_tags'[j] = req_tags[j]
    BY <1>2, <2>1, SpareTagType, Zenon DEF SpareTag
  <2>3. TagTypes'
    BY <2>2, Zenon DEF TagsIInv, TagTypes, ReqTag
  <2>4. ExpiryFromRequest'
    BY <2>2, Zenon DEF TagsIInv, ExpiryFromRequest
  <2>5. \A j \in TagSlots : Waiting(j)' => j # i /\ Waiting(j)
    BY <2>2, Zenon DEF Waiting
  <2>6. WaitingTagsUnique'
    BY <2>2, <2>5, Zenon DEF TagsIInv, WaitingTagsUnique
  <2> QED
    BY <2>3, <2>4, <2>6, Zenon DEF TagsIInv
<1> QED
  BY <1>1, <1>2, Zenon DEF mctp_dealloc_tag

\* A tag given to a new request differs from every one its pair waits on.
LEMMA AllocPreserves ==
  ASSUME TagsIInv, NEW i \in TagSlots, NEW tag \in Tags, NEW remote \in Remotes,
         mctp_alloc_tag(i, tag, remote), UNCHANGED <<now, bus_eid>>
  PROVE  TagsIInv'
<1> DEFINE new == [local |-> bus_eid, remote |-> remote, tag |-> tag,
                   expiry |-> now + TagTimeout, at |-> now]
<1>1. req_tags \in [TagSlots -> ReqTag] /\ now \in Nat /\ bus_eid \in Locals
  BY Zenon DEF TagsIInv, TagTypes, ReqTag
<1>2. new \in ReqTag
  BY <1>1, TagsAssumption DEF ReqTag
<1>3. /\ req_tags' \in [TagSlots -> ReqTag] /\ req_tags'[i] = new
      /\ \A j \in TagSlots \ {i} : req_tags'[j] = req_tags[j]
  <2>1. req_tags' = [req_tags EXCEPT ![i] = new]
    BY Zenon DEF mctp_alloc_tag, TakeTag
  <2> HIDE DEF new
  <2> QED
    BY <1>1, <1>2, <2>1, Zenon
<1>4. TagTypes'
  <2>1. (tag + 1) % NumTags \in Tags
    BY TagsAssumption DEF Tags
  <2>2. tag \in 0..NumTags
    BY TagsAssumption DEF Tags
  <2> QED
    BY <1>1, <1>3, <2>1, <2>2, Zenon DEF TagTypes, ReqTag, mctp_alloc_tag, TakeTag
<1>5. ExpiryFromRequest'
  BY <1>3 DEF TagsIInv, ExpiryFromRequest
<1>6. tag \notin Used(bus_eid, remote)
  BY Zenon DEF mctp_alloc_tag, TakeTag, FirstFree
<1>7. ASSUME NEW j \in TagSlots \ {i}, Waiting(j)', SamePair(req_tags'[j], new)
      PROVE  req_tags'[j].tag # tag
  <2>1. Waiting(j)
    BY <1>3, <1>7, Zenon DEF Waiting
  <2>2. Live(j) /\ req_tags[j].local = bus_eid /\ req_tags[j].remote = remote
    BY <1>3, <1>7, <2>1, LiveIsWaiting, Zenon DEF SamePair, TagsIInv
  <2> QED
    BY <1>3, <1>6, <2>2, Zenon DEF Used
<1>8. WaitingTagsUnique'
  <2> SUFFICES ASSUME NEW j \in TagSlots, NEW k \in TagSlots, Waiting(j)', Waiting(k)',
                      SamePair(req_tags'[j], req_tags'[k]),
                      req_tags'[j].tag = req_tags'[k].tag
               PROVE  j = k
    BY Zenon DEF WaitingTagsUnique
  <2>1. CASE j # i /\ k # i
    BY <2>1, <1>3, Zenon DEF TagsIInv, WaitingTagsUnique, Waiting
  <2>2. CASE j = i /\ k # i
    BY <2>2, <1>3, <1>7 DEF SamePair
  <2>3. CASE k = i /\ j # i
    BY <2>3, <1>3, <1>7 DEF SamePair
  <2> QED
    BY <2>1, <2>2, <2>3, Zenon
<1> QED
  BY <1>4, <1>5, <1>8, Zenon DEF TagsIInv

\* Every step preserves the invariant.
LEMMA NextTagsIInv == TagsIInv /\ [TagsNext]_tagsVars => TagsIInv'
<1> SUFFICES ASSUME TagsIInv, [TagsNext]_tagsVars
             PROVE  TagsIInv'
  BY Zenon
<1>1. ASSUME NEW remote \in Remotes, mctp_message_tx_request(remote)
      PROVE  TagsIInv'
  BY <1>1, AllocPreserves, Zenon DEF mctp_message_tx_request
<1>2. ASSUME NEW dest, NEW remote, NEW tag, RxResponse(dest, remote, tag)
      PROVE  TagsIInv'
  BY <1>2, DeallocPreserves, Zenon DEF RxResponse
<1>3. ASSUME NEW e \in Locals, SetEid(e)
      PROVE  TagsIInv'
  BY <1>3, Zenon DEF TagsIInv, TagTypes, ExpiryFromRequest, WaitingTagsUnique, Waiting,
              SetEid
<1>4. CASE Tick
  <2>1. TagTypes' /\ ExpiryFromRequest'
    BY <1>4 DEF TagsIInv, TagTypes, ExpiryFromRequest, Tick
  <2>2. ASSUME NEW i \in TagSlots, Waiting(i)'
        PROVE  Waiting(i)
    <3>1. req_tags[i].at \in Nat /\ now \in Nat /\ TagTimeout \in Nat
      BY TagsAssumption, Zenon DEF TagsIInv, TagTypes
    <3> QED
      BY <1>4, <2>2, <3>1 DEF Tick, Waiting
  <2>3. WaitingTagsUnique'
    BY <1>4, <2>2, Zenon DEF TagsIInv, WaitingTagsUnique, Tick
  <2> QED
    BY <2>1, <2>3, Zenon DEF TagsIInv
<1>5. CASE UNCHANGED tagsVars
  BY <1>5, Zenon DEF TagsIInv, TagTypes, ExpiryFromRequest, WaitingTagsUnique, Waiting, tagsVars
<1> QED
  BY <1>1, <1>2, <1>3, <1>4, <1>5, Zenon DEF TagsNext

\* The invariant holds in every state.
THEOREM TagsInvariant == TagsSpec => []TagsIInv
<1>1. TagsInit => TagsIInv
  <2> SUFFICES ASSUME TagsInit
               PROVE  TagsIInv
    BY Zenon
  <2>1. TagTypes
    BY SpareTagType, TagsAssumption DEF TagsInit, TagTypes, ReqTag, Tags
  <2>2. \A i \in TagSlots : req_tags[i].local = 0
    BY Zenon DEF TagsInit, SpareTag
  <2> QED
    BY <2>1, <2>2, Zenon DEF TagsIInv, ExpiryFromRequest, WaitingTagsUnique, Waiting
<1> QED
  BY <1>1, NextTagsIInv, PTL DEF TagsSpec

\* Every variable of the tag table always has its type.
THEOREM TagsTypeOK == TagsSpec => []TagTypes
<1>1. TagsIInv => TagTypes
  BY Zenon DEF TagsIInv
<1> QED
  BY <1>1, TagsInvariant, PTL

\* Two requests of one pair of endpoints that both still wait for their
\* response never have the same tag, whatever responses were lost, late or
\* duplicated.
THEOREM TagsWaitingUnique == TagsSpec => []WaitingTagsUnique
<1>1. TagsIInv => WaitingTagsUnique
  BY Zenon DEF TagsIInv
<1> QED
  BY <1>1, TagsInvariant, PTL

\* No step gives the slot of a request that still waits to another request.
THEOREM TagsWaitingKept == TagsSpec => WaitingTagsKept
<1>1. TagsIInv /\ [TagsNext]_tagsVars
        => [\A i \in TagSlots : Waiting(i) => req_tags'[i] \in {req_tags[i], SpareTag}]_tagsVars
  <2> SUFFICES ASSUME TagsIInv, TagsNext, NEW i \in TagSlots, Waiting(i)
               PROVE  req_tags'[i] \in {req_tags[i], SpareTag}
    BY Zenon DEF tagsVars
  <2>0. req_tags \in [TagSlots -> ReqTag]
    BY Zenon DEF TagsIInv, TagTypes, ReqTag
  <2>1. ASSUME NEW remote \in Remotes, mctp_message_tx_request(remote)
        PROVE  req_tags'[i] = req_tags[i]
    <3>1. PICK k \in TagSlots, tag \in Tags : mctp_alloc_tag(k, tag, remote)
      BY <2>1, Zenon DEF mctp_message_tx_request
    <3>2. k # i
      BY <3>1, LiveIsWaiting, Zenon DEF mctp_alloc_tag, TakeTag, TakenSlot, TagsIInv
    <3> QED
      BY <2>0, <3>1, <3>2, Zenon DEF mctp_alloc_tag, TakeTag
  <2>2. ASSUME NEW dest, NEW remote, NEW tag, RxResponse(dest, remote, tag)
        PROVE  req_tags'[i] \in {req_tags[i], SpareTag}
    BY <2>0, <2>2 DEF RxResponse, mctp_dealloc_tag
  <2> QED
    BY <2>1, <2>2 DEF TagsNext, SetEid, Tick
<1> QED
  BY <1>1, TagsInvariant, PTL DEF TagsSpec, WaitingTagsKept

-----------------------------------------------------------------------------
\* What the wrap of tag_round_robin does below twice the number of tags.
LEMMA Wraps ==
  ASSUME NEW x \in Nat
  PROVE  /\ x < NumTags => x % NumTags = x
         /\ NumTags <= x /\ x < 2 * NumTags => x % NumTags = x - NumTags
BY TagsAssumption

\* tag_round_robin is the tag after the one that was handed out last.
AfterLast == last_tag \in Tags => tag_round_robin = (last_tag + 1) % NumTags

\* Only mctp_alloc_tag moves either, and it moves both.
LEMMA NextAfterLast == AfterLast /\ [TagsNext]_tagsVars => AfterLast'
<1> SUFFICES ASSUME AfterLast, [TagsNext]_tagsVars
             PROVE  AfterLast'
  BY Zenon
<1>1. ASSUME NEW remote \in Remotes, mctp_message_tx_request(remote)
      PROVE  AfterLast'
  BY <1>1, Zenon DEF mctp_message_tx_request, mctp_alloc_tag, TakeTag, AfterLast, Tags
<1>2. CASE UNCHANGED <<tag_round_robin, last_tag>>
  BY <1>2, Zenon DEF AfterLast, Tags
<1> QED
  BY <1>1, <1>2, Zenon DEF TagsNext, tagsVars, RxResponse, SetEid, Tick

\* From the tag after the last on, the last tag comes after all the others.
LEMMA LastIsLast ==
  ASSUME tag_round_robin \in Tags, NEW tag \in Tags, NEW t \in Tags \ {tag},
         tag_round_robin = (tag + 1) % NumTags, NEW n \in Tags, tag = Rotated(n)
  PROVE  \E s \in Tags : s < n /\ Rotated(s) = t
<1>1. NumTags \in Nat \ {0} /\ tag \in 0..(NumTags - 1) /\ t \in 0..(NumTags - 1)
      /\ n \in 0..(NumTags - 1)
  BY TagsAssumption, Zenon DEF Tags
<1> DEFINE rr == IF tag = NumTags - 1 THEN 0 ELSE tag + 1
           s == IF t > tag THEN t - tag - 1 ELSE t + NumTags - tag - 1
<1>2. tag_round_robin = rr
  <2>1. tag + 1 \in Nat
    BY <1>1
  <2> QED
    BY <1>1, <2>1, Wraps
<1>3. s \in 0..(NumTags - 2) /\ s \in Tags
  BY <1>1 DEF Tags
<1>4. Rotated(s) = t
  <2>1. s + rr \in Nat /\ (s + rr = t \/ s + rr = t + NumTags)
    BY <1>1
  <2>2. (s + rr) % NumTags = t
    BY <1>1, <2>1, Wraps
  <2> QED
    BY <1>2, <2>2, Zenon DEF Rotated
<1>5. n = NumTags - 1
  <2>1. n + rr \in Nat /\ n + rr < 2 * NumTags
    BY <1>1
  <2>2. (n + rr) % NumTags = tag
    BY <1>2, Zenon DEF Rotated
  <2> QED
    BY <1>1, <2>1, <2>2, Wraps
<1> QED
  BY <1>1, <1>3, <1>4, <1>5

\* mctp_alloc_tag hands out the tag it handed out last only to a pair that waits on
\* every other tag, for any number of tags.
THEOREM TagsLastNotReused == TagsSpec => LastTagNotReused
<1> DEFINE Fresh(i) ==
      LET r == req_tags'[i] IN
      r # req_tags[i] /\ r.local # 0 /\ r.tag = last_tag =>
        \A t \in Tags \ {r.tag} :
          \E j \in TagSlots : /\ Waiting(j) /\ req_tags[j].tag = t
                              /\ SamePair(req_tags[j], r)
<1>1. TagsInit => AfterLast
  BY TagsAssumption DEF TagsInit, AfterLast, Tags
<1>2. TagsIInv /\ AfterLast /\ [TagsNext]_tagsVars => [\A i \in TagSlots : Fresh(i)]_tagsVars
  <2> SUFFICES ASSUME TagsIInv, AfterLast, TagsNext, NEW i \in TagSlots
               PROVE  Fresh(i)
    BY Zenon DEF tagsVars
  <2>0. req_tags \in [TagSlots -> ReqTag]
    BY Zenon DEF TagsIInv, TagTypes, ReqTag
  <2>1. ASSUME NEW remote \in Remotes, mctp_message_tx_request(remote)
        PROVE  Fresh(i)
    <3>1. PICK k \in TagSlots, tag \in Tags : mctp_alloc_tag(k, tag, remote)
      BY <2>1, Zenon DEF mctp_message_tx_request
    <3>2. CASE k # i
      BY <2>0, <3>1, <3>2, Zenon DEF mctp_alloc_tag, TakeTag
    <3>3. CASE k = i
      <4>1. req_tags'[i] = [local |-> bus_eid, remote |-> remote, tag |-> tag,
                            expiry |-> now + TagTimeout, at |-> now]
        BY <2>0, <3>1, <3>3, Zenon DEF mctp_alloc_tag, TakeTag
      <4>2. SUFFICES ASSUME tag = last_tag, NEW t \in Tags \ {tag}
                     PROVE  \E j \in TagSlots : /\ Waiting(j) /\ req_tags[j].tag = t
                                                /\ SamePair(req_tags[j], req_tags'[i])
        BY <4>1
      <4>3. PICK n \in Tags : /\ tag = Rotated(n)
                              /\ \A s \in Tags : s < n => Rotated(s) \in Used(bus_eid, remote)
        BY <3>1, Zenon DEF mctp_alloc_tag, TakeTag, FirstFree
      <4>4. tag_round_robin \in Tags /\ tag_round_robin = (tag + 1) % NumTags
        BY <4>2, Zenon DEF TagsIInv, TagTypes, AfterLast
      <4>5. t \in Used(bus_eid, remote)
        BY <4>3, <4>4, LastIsLast
      <4>6. PICK j \in TagSlots : /\ Live(j) /\ req_tags[j].tag = t
                                  /\ req_tags[j].local = bus_eid /\ req_tags[j].remote = remote
        BY <4>5, Zenon DEF Used
      <4>7. Waiting(j)
        BY <4>6, LiveIsWaiting, Zenon DEF TagsIInv
      <4> QED
        BY <4>1, <4>6, <4>7 DEF SamePair
    <3> QED
      BY <3>2, <3>3, Zenon
  <2>2. ASSUME NEW dest, NEW remote, NEW tag, RxResponse(dest, remote, tag)
        PROVE  Fresh(i)
    <3>1. req_tags'[i] = req_tags[i] \/ req_tags'[i] = SpareTag
      BY <2>0, <2>2 DEF RxResponse, mctp_dealloc_tag
    <3> QED
      BY <3>1 DEF SpareTag
  <2> QED
    BY <2>1, <2>2 DEF TagsNext, SetEid, Tick
<1> QED
  BY <1>1, <1>2, NextAfterLast, TagsInvariant, PTL DEF TagsSpec, LastTagNotReused

=============================================================================
