-------------------------- MODULE MctpChannelProofs --------------------------
(***************************************************************************)
(* The proof that MctpTransfer implements MessageChannel when the link     *)
(* loses at most one packet.                                               *)
(***************************************************************************)
EXTENDS MctpTransferProofs

\* Nothing of a message is at e, or its beginning.
Starts(e) == e.msg = NoMessage \/ e.pos = 0

\* What follows packet p on the stream: its continuation, or the one after it when a
\* packet failed in between.
Next1(p, e) ==
  IF p.eom THEN Starts(e)
           ELSE IsAt(e, p.msg, p.pos + PktPayload, (p.seq + 1) % 4)

Next2(p, e) ==
  ~p.eom => IF p.pos + 2 * PktPayload >= p.msg.len
              THEN Starts(e)
              ELSE IsAt(e, p.msg, p.pos + 2 * PktPayload, (p.seq + 2) % 4)

\* A context that is in use holds the beginning of one message.
LastOf(c) == c.buf[Len(c.buf)]

Collects(c) ==
  /\ Len(c.buf) >= 1
  /\ \A k \in 1..Len(c.buf) : /\ c.buf[k].msg = LastOf(c).msg
                              /\ c.buf[k].pos = (k - 1) * PktPayload
  /\ LastOf(c).msg \in given /\ LastOf(c).msg.tag = c.tag
  /\ c.last_seq = LastOf(c).seq
  /\ c.buf_size = Len(c.buf) * PktPayload

\* What comes next, e, continues the message of context c; or the context is left over
\* from a message that lost a packet, and no packet of another message can continue it.
Live(c, e) ==
  IsAt(e, LastOf(c).msg, LastOf(c).pos + PktPayload, (LastOf(c).seq + 1) % 4)

Gone(c, e) ==
  \/ IsAt(e, LastOf(c).msg, LastOf(c).pos + 2 * PktPayload, (LastOf(c).seq + 2) % 4)
  \/ Starts(e)
  \/ e.msg.tag # c.tag

AllCollect == \A i \in 1..Ctxs : msg_ctxs[i].alloc => Collects(msg_ctxs[i])

AllLive(e) == \A i \in 1..Ctxs : msg_ctxs[i].alloc => Live(msg_ctxs[i], e)

AllKnown(e) ==
  \A i \in 1..Ctxs : msg_ctxs[i].alloc => Live(msg_ctxs[i], e) \/ Gone(msg_ctxs[i], e)

\* No packet is missing from what is still on the link, or one after packet g.
Gapless == \A k \in (taken + 1)..Len(wire) : Next1(wire[k], At(k + 1))

GapAt(g) ==
  /\ \A k \in (taken + 1)..Len(wire) : k # g => Next1(wire[k], At(k + 1))
  /\ Next2(wire[g], At(g + 1))

\* Nothing is lost; a packet that failed is still missing ahead; or it is behind.
PhaseInv ==
  \/ lost = 0 /\ Gapless /\ AllLive(At(taken + 1))
  \/ /\ lost = 1 /\ AllLive(At(taken + 1))
     /\ \E g \in (taken + 1)..Len(wire) : GapAt(g)
  \/ lost = 1 /\ Gapless /\ AllKnown(At(taken + 1))

-----------------------------------------------------------------------------
\* What the last packet of a context tells.
LEMMA LastFacts ==
  ASSUME NEW c \in Context, Collects(c), NEW n, n = Len(c.buf), NEW q, q = LastOf(c)
  PROVE  /\ n \in Nat /\ n >= 1 /\ c.buf \in Seq(Received) /\ q = c.buf[n]
         /\ q.msg \in Messages /\ q.pos \in Nat /\ q.seq \in 0..3
         /\ q.pos + PktPayload = n * PktPayload /\ c.buf_size = n * PktPayload
         /\ q.msg.tag = c.tag /\ c.last_seq = q.seq
<1>1. c.buf \in Seq(Received) /\ n \in Nat
  BY DEF Context
<1>2. n >= 1 /\ q = c.buf[n] /\ q.pos = (n - 1) * PktPayload
      /\ q.msg.tag = c.tag /\ c.last_seq = q.seq /\ c.buf_size = n * PktPayload
  BY <1>1 DEF Collects, LastOf
<1>3. q \in Received
  BY <1>1, <1>2
<1>4. PICK w \in SentPackets : q = AsReceived(w)
  BY <1>3, Zenon DEF Received
<1>5. q.msg = w.msg /\ q.pos = w.pos /\ q.seq = w.seq
  BY <1>4, ReadBack, Zenon
<1>6. q.msg \in Messages /\ q.pos \in Nat /\ q.seq \in 0..3
  BY <1>5, Zenon DEF SentPackets
<1>7. PktPayload \in Nat
  BY TxAssumption, Zenon
<1>8. (n - 1) * PktPayload + PktPayload = n * PktPayload
  BY <1>1, <1>7
<1> QED
  BY <1>1, <1>2, <1>6, <1>8, Zenon

\* A start packet that is not the end opens a context that holds it alone.
LEMMA OpenedCollects ==
  ASSUME NEW p \in SentPackets, WellBuilt(p), p.msg \in given, p.som, ~p.eom,
         NEW c \in Context, Opened(c, p)
  PROVE  Collects(c) /\ IsAt(LastOf(c), p.msg, p.pos, p.seq)
<1>1. PICK r \in Received : r = AsReceived(p)
  BY Zenon DEF Received
<1>2. r.msg = p.msg /\ r.pos = p.pos /\ r.seq = p.seq
  BY <1>1, ReadBack, Zenon
<1>3. c.buf = <<r>> /\ c.buf_size = p.len /\ c.last_seq = p.seq /\ c.tag = p.msg.tag
  BY <1>1, Zenon DEF Opened, BelongsTo
<1>4. Len(c.buf) = 1 /\ c.buf[1] = r /\ LastOf(c) = r
  BY <1>3 DEF LastOf
<1>5. p.pos = 0 /\ p.len = PktPayload /\ PktPayload \in Nat
  BY TxAssumption, Zenon DEF WellBuilt
<1>6. (1 - 1) * PktPayload = 0 /\ 1 * PktPayload = PktPayload
  BY <1>5
<1> QED
  BY <1>2, <1>3, <1>4, <1>5, <1>6 DEF Collects, IsAt

\* A packet that continues the message of a context is appended to it.
LEMMA ExtendedCollects ==
  ASSUME NEW p \in SentPackets, NEW c \in Context, Collects(c), ~p.eom, WellBuilt(p),
         IsAt(p, LastOf(c).msg, LastOf(c).pos + PktPayload, (LastOf(c).seq + 1) % 4),
         NEW d, d = Extended(c, p)
  PROVE  Collects(d) /\ IsAt(LastOf(d), p.msg, p.pos, p.seq) /\ d.alloc = c.alloc
<1>1. PICK n : n = Len(c.buf)
  BY Zenon
<1>2. PICK q : q = LastOf(c)
  BY Zenon
<1>3. /\ n \in Nat /\ n >= 1 /\ c.buf \in Seq(Received) /\ q = c.buf[n]
      /\ q.pos + PktPayload = n * PktPayload /\ c.buf_size = n * PktPayload
      /\ q.msg.tag = c.tag
  BY <1>1, <1>2, LastFacts
<1>4. PICK r \in Received : r = AsReceived(p)
  BY Zenon DEF Received
<1>5. r.msg = p.msg /\ r.pos = p.pos /\ r.seq = p.seq
  BY <1>4, ReadBack, Zenon
<1>6. p.msg = q.msg /\ p.pos = n * PktPayload /\ p.len = PktPayload /\ PktPayload \in Nat
  BY <1>2, <1>3, TxAssumption, Zenon DEF IsAt, WellBuilt
<1>7. /\ d.buf = Append(c.buf, r) /\ d.buf_size = c.buf_size + p.len /\ d.last_seq = p.seq
      /\ d.tag = c.tag /\ d.alloc = c.alloc
  BY <1>4, Zenon DEF Extended, Context
<1>8. /\ Len(d.buf) = n + 1 /\ d.buf[n + 1] = r
      /\ \A k \in 1..n : d.buf[k] = c.buf[k]
  BY <1>1, <1>3, <1>7
<1>9. LastOf(d) = r
  BY <1>8, Zenon DEF LastOf
<1>10. \A k \in 1..n : c.buf[k].msg = p.msg /\ c.buf[k].pos = (k - 1) * PktPayload
  BY <1>1, <1>2, <1>6, Zenon DEF Collects
<1>11. ((n + 1) - 1) * PktPayload = n * PktPayload
       /\ (n + 1) * PktPayload = n * PktPayload + PktPayload
  BY <1>3, <1>6
<1>12. ASSUME NEW k \in 1..(n + 1)
       PROVE  d.buf[k].msg = p.msg /\ d.buf[k].pos = (k - 1) * PktPayload
  <2>1. CASE k \in 1..n
    BY <1>8, <1>10, <2>1, Zenon
  <2>2. CASE k = n + 1
    BY <1>5, <1>6, <1>8, <1>11, <2>2, Zenon
  <2> QED
    BY <1>3, <2>1, <2>2
<1>13. p.msg \in given
  BY <1>2, <1>6, Zenon DEF Collects
<1>14. /\ Len(d.buf) >= 1 /\ d.buf_size = Len(d.buf) * PktPayload
       /\ p.msg.tag = d.tag
  BY <1>3, <1>6, <1>7, <1>8, <1>11
<1> QED
  BY <1>5, <1>7, <1>8, <1>9, <1>12, <1>13, <1>14, Zenon DEF Collects, IsAt

\* A packet that passes the checks of a context continues its message.
LEMMA ContinuingIsLive ==
  ASSUME NEW p \in SentPackets, WellBuilt(p), ~p.som, NEW c \in Context, Collects(c),
         c.tag = p.msg.tag, Continuing(c, p), NEW e, IsAt(e, p.msg, p.pos, p.seq),
         Live(c, e) \/ Gone(c, e)
  PROVE  Live(c, e)
<1>1. PICK q : q = LastOf(c)
  BY Zenon
<1>2. q.seq \in 0..3 /\ c.last_seq = q.seq
  BY <1>1, LastFacts, Zenon
<1>3. e.seq = (q.seq + 1) % 4
  BY <1>2, Zenon DEF IsAt, Continuing
<1>4. (q.seq + 1) % 4 # (q.seq + 2) % 4
  BY <1>2
<1>5. ~Starts(e)
  <2>1. p.msg \in Messages
    BY Zenon DEF SentPackets
  <2> QED
    BY <2>1, TxAssumption, Zenon DEF Starts, IsAt, WellBuilt
<1> QED
  BY <1>1, <1>3, <1>4, <1>5, Zenon DEF Gone, IsAt

\* What a packet leaves in a context that is in use: the packet last of all; or what it
\* held before, which is of another tag unless the packet is a start.
LeftAfter(p, i) ==
  \/ ~p.eom /\ IsAt(LastOf(msg_ctxs'[i]), p.msg, p.pos, p.seq)
  \/ /\ msg_ctxs'[i] = msg_ctxs[i]
     /\ \/ msg_ctxs[i].tag # p.msg.tag
        \/ p.som /\ (p.eom \/ lost' = lost + 1)

LEMMA ReceiveContexts ==
  ASSUME ReceiverInv, AllCollect, NEW p \in SentPackets, WellBuilt(p), p.msg \in given,
         Outcome(p), NEW e, IsAt(e, p.msg, p.pos, p.seq), AllKnown(e),
         NEW j \in 1..Ctxs, msg_ctxs'[j].alloc
  PROVE  Collects(msg_ctxs'[j]) /\ LeftAfter(p, j)
<1>1. msg_ctxs[j].alloc => Collects(msg_ctxs[j])
  BY Zenon DEF AllCollect
<1>2. CASE NotTaken(p) \/ TakenAlone(p)
  <2>1. msg_ctxs'[j] = msg_ctxs[j]
    BY <1>2, Zenon DEF NotTaken, TakenAlone
  <2>2. msg_ctxs[j].tag # p.msg.tag \/ (p.som /\ (p.eom \/ lost' = lost + 1))
    BY <1>2, <2>1, Zenon DEF NotTaken, TakenAlone, Holds
  <2> QED
    BY <1>1, <2>1, <2>2, Zenon DEF LeftAfter
\* A context that another one is written beside has another tag.
<1>3. ASSUME NEW i \in 1..Ctxs, i # j, NEW c \in Context, SetTo(i, c),
             Holds(i, p.msg.tag) \/ \A k \in 1..Ctxs : ~Holds(k, p.msg.tag)
      PROVE  Collects(msg_ctxs'[j]) /\ LeftAfter(p, j)
  <2>1. msg_ctxs'[j] = msg_ctxs[j]
    BY <1>3, SetToFacts, Zenon
  <2>2. msg_ctxs[j].tag # p.msg.tag
    BY <1>3, <2>1, OneHolder, Zenon DEF Holds
  <2> QED
    BY <1>1, <2>1, <2>2, Zenon DEF LeftAfter
<1>4. ASSUME NEW i \in 1..Ctxs, SetTo(i, Rx!FreeCtx),
             Holds(i, p.msg.tag) \/ \A k \in 1..Ctxs : ~Holds(k, p.msg.tag)
      PROVE  Collects(msg_ctxs'[j]) /\ LeftAfter(p, j)
  <2>1. PICK c \in Context : c = Rx!FreeCtx /\ ~c.alloc
    BY FreeContext, Zenon
  <2>2. SetTo(i, c)
    BY <1>4, <2>1, Zenon
  <2>3. i # j
    BY <2>1, <2>2, SetToFacts, Zenon
  <2> QED
    BY <1>3, <1>4, <2>2, <2>3, Zenon
<1>5. ASSUME NEW i \in 1..Ctxs, Opens(p, i)
      PROVE  Collects(msg_ctxs'[j]) /\ LeftAfter(p, j)
  <2>1. Holds(i, p.msg.tag) \/ \A k \in 1..Ctxs : ~Holds(k, p.msg.tag)
    BY <1>5, Zenon DEF Opens
  <2>2. CASE p.len <= MaxMessageSize
    <3>1. PICK c \in Context : Opened(c, p) /\ SetTo(i, c)
      BY <1>5, <2>2, Zenon DEF Opens
    <3>2. CASE i = j
      <4>1. msg_ctxs'[j] = c /\ p.som /\ ~p.eom
        BY <1>5, <3>1, <3>2, SetToFacts, Zenon DEF Opens
      <4>2. Collects(c) /\ IsAt(LastOf(c), p.msg, p.pos, p.seq)
        BY <3>1, <4>1, OpenedCollects, Zenon
      <4> QED
        BY <4>1, <4>2, Zenon DEF LeftAfter
    <3> QED
      BY <1>3, <2>1, <3>1, <3>2, Zenon
  <2>3. CASE ~(p.len <= MaxMessageSize)
    BY <1>4, <1>5, <2>1, <2>3, Zenon DEF Opens
  <2> QED
    BY <2>2, <2>3, Zenon
<1>6. ASSUME NEW i \in 1..Ctxs, Extends(p, i)
      PROVE  Collects(msg_ctxs'[j]) /\ LeftAfter(p, j)
  <2>1. PICK c \in Context : c = msg_ctxs[i]
    BY Zenon DEF ReceiverInv
  <2>2. PICK d : d = Extended(c, p)
    BY Zenon
  <2>3. /\ ~p.som /\ ~p.eom /\ Holds(i, p.msg.tag) /\ Continuing(c, p) /\ SetTo(i, d)
        /\ c.tag = p.msg.tag /\ c.alloc
    BY <1>6, <2>1, <2>2, Zenon DEF Extends, Holds
  <2>4. d \in Context
    BY <2>2, ExtendedFields, Zenon
  <2>5. CASE i = j
    <3>1. Collects(c) /\ (Live(c, e) \/ Gone(c, e))
      BY <2>1, <2>3, Zenon DEF AllCollect, AllKnown
    <3>2. Live(c, e)
      BY <2>3, <3>1, ContinuingIsLive, Zenon
    <3>3. IsAt(p, LastOf(c).msg, LastOf(c).pos + PktPayload, (LastOf(c).seq + 1) % 4)
      BY <3>2, Zenon DEF Live, IsAt
    <3>4. Collects(d) /\ IsAt(LastOf(d), p.msg, p.pos, p.seq)
      BY <2>2, <2>3, <3>1, <3>3, ExtendedCollects, Zenon
    <3>5. msg_ctxs'[j] = d
      BY <2>3, <2>4, <2>5, SetToFacts, Zenon
    <3> QED
      BY <2>3, <3>4, <3>5, Zenon DEF LeftAfter
  <2> QED
    BY <1>3, <2>3, <2>4, <2>5, Zenon
<1>7. ASSUME NEW i \in 1..Ctxs, Completes(p, i) \/ Drops(p, i)
      PROVE  Collects(msg_ctxs'[j]) /\ LeftAfter(p, j)
  BY <1>4, <1>7, Zenon DEF Completes, Drops
<1> QED
  BY <1>2, <1>5, <1>6, <1>7, Zenon DEF Outcome

\* A context that waits for packet p has its tag, and p is not a start.
LEMMA LiveFacts ==
  ASSUME NEW p \in SentPackets, WellBuilt(p), NEW c \in Context, Collects(c),
         NEW e, IsAt(e, p.msg, p.pos, p.seq), Live(c, e)
  PROVE  ~p.som /\ c.tag = p.msg.tag
<1>1. PICK q : q = LastOf(c)
  BY Zenon
<1>2. q.pos \in Nat /\ q.msg.tag = c.tag
  BY <1>1, LastFacts, Zenon
<1>3. p.pos = q.pos + PktPayload /\ p.msg = q.msg /\ PktPayload \in Nat \ {0}
  BY <1>1, TxAssumption, Zenon DEF Live, IsAt
<1> QED
  BY <1>2, <1>3 DEF WellBuilt

\* How the receiver's contexts stand to what comes after packet p, f: when p was read
\* and follows directly or after a gap, and when p was lost.
LEMMA ReadInTurn ==
  ASSUME ReceiverInv, AllCollect, NEW p \in SentPackets, WellBuilt(p), p.msg \in given,
         Outcome(p), NEW e, IsAt(e, p.msg, p.pos, p.seq), NEW f, UNCHANGED given
  PROVE  /\ AllLive(e) \/ AllKnown(e) => AllCollect'
         /\ AllLive(e) /\ Next1(p, f) => AllLive(f)'
         /\ AllLive(e) /\ Next2(p, f) => AllKnown(f)'
         /\ AllKnown(e) /\ lost \in Nat /\ lost' = lost /\ Next1(p, f) => AllKnown(f)'
<1>1. msg_ctxs \in [1..Ctxs -> Context]
  BY Zenon DEF ReceiverInv
<1>2. AllLive(e) => AllKnown(e)
  BY Zenon DEF AllLive, AllKnown
<1>3. AllKnown(e) => \A j \in 1..Ctxs : msg_ctxs'[j].alloc =>
                       Collects(msg_ctxs'[j]) /\ LeftAfter(p, j)
  BY ReceiveContexts, Zenon
<1>4. AllKnown(e) => AllCollect'
  BY <1>3, Zenon DEF AllCollect, Collects
\* When every context is live, only the one the packet is last in is in use.
<1>5. ASSUME AllLive(e), NEW j \in 1..Ctxs, msg_ctxs'[j].alloc
      PROVE  ~p.eom /\ IsAt(LastOf(msg_ctxs'[j]), p.msg, p.pos, p.seq)
  <2>1. LeftAfter(p, j)
    BY <1>2, <1>3, <1>5, Zenon
  <2>2. CASE msg_ctxs'[j] = msg_ctxs[j]
    <3>1. PICK c \in Context : c = msg_ctxs[j]
      BY <1>1, Zenon
    <3>2. Collects(c) /\ Live(c, e)
      BY <1>5, <2>2, <3>1, Zenon DEF AllCollect, AllLive
    <3>3. ~p.som /\ c.tag = p.msg.tag
      BY <3>2, LiveFacts, Zenon
    <3> QED
      BY <2>1, <3>1, <3>3, Zenon DEF LeftAfter
  <2> QED
    BY <2>1, <2>2, Zenon DEF LeftAfter
<1>6. ASSUME AllLive(e), Next1(p, f)
      PROVE  AllLive(f)'
  <2> SUFFICES ASSUME NEW j \in 1..Ctxs, msg_ctxs'[j].alloc
               PROVE  Live(msg_ctxs'[j], f)
    BY Zenon DEF AllLive, Live, LastOf, IsAt
  <2>1. ~p.eom /\ IsAt(LastOf(msg_ctxs'[j]), p.msg, p.pos, p.seq)
    BY <1>5, <1>6, Zenon
  <2> QED
    BY <1>6, <2>1, Zenon DEF Live, Next1, IsAt
<1>7. ASSUME AllLive(e), Next2(p, f)
      PROVE  AllKnown(f)'
  <2> SUFFICES ASSUME NEW j \in 1..Ctxs, msg_ctxs'[j].alloc
               PROVE  Gone(msg_ctxs'[j], f)
    BY Zenon DEF AllKnown, Gone, LastOf, IsAt, Starts
  <2>1. ~p.eom /\ IsAt(LastOf(msg_ctxs'[j]), p.msg, p.pos, p.seq)
    BY <1>5, <1>7, Zenon
  <2> QED
    BY <1>7, <2>1, Zenon DEF Gone, Next2, IsAt
<1>8. ASSUME AllKnown(e), lost \in Nat, lost' = lost, Next1(p, f)
      PROVE  AllKnown(f)'
  <2> SUFFICES ASSUME NEW j \in 1..Ctxs, msg_ctxs'[j].alloc
               PROVE  Live(msg_ctxs'[j], f) \/ Gone(msg_ctxs'[j], f)
    BY Zenon DEF AllKnown, Live, Gone, LastOf, IsAt, Starts
  <2>1. LeftAfter(p, j)
    BY <1>3, <1>8, Zenon
  <2>2. CASE ~p.eom /\ IsAt(LastOf(msg_ctxs'[j]), p.msg, p.pos, p.seq)
    BY <1>8, <2>2, Zenon DEF Live, Next1, IsAt
  <2>3. CASE p.eom
    BY <1>8, <2>3, Zenon DEF Next1, Gone
  <2>4. CASE ~p.eom /\ msg_ctxs'[j] = msg_ctxs[j] /\ msg_ctxs[j].tag # p.msg.tag
    BY <1>8, <2>4, Zenon DEF Next1, Gone, IsAt
  <2>5. lost' # lost + 1
    BY <1>8
  <2> QED
    BY <2>1, <2>2, <2>3, <2>4, <2>5, Zenon DEF LeftAfter
<1> QED
  BY <1>2, <1>4, <1>6, <1>7, <1>8, Zenon

\* A packet that does not reach the receiver leaves a context that waited for it behind.
LEMMA LostInTurn ==
  ASSUME ReceiverInv, AllCollect, NEW p \in SentPackets,
         NEW e, IsAt(e, p.msg, p.pos, p.seq), AllLive(e), NEW f, Next1(p, f), UNCHANGED msg_ctxs
  PROVE  AllKnown(f)'
<1> SUFFICES ASSUME NEW j \in 1..Ctxs, msg_ctxs[j].alloc
             PROVE  Gone(msg_ctxs[j], f)
  BY Zenon DEF AllKnown, Gone, LastOf, IsAt, Starts
<1>1. PICK c \in Context : c = msg_ctxs[j]
  BY Zenon DEF ReceiverInv
<1>2. PICK q : q = LastOf(c)
  BY Zenon
<1>3. q.pos \in Nat /\ q.seq \in 0..3 /\ PktPayload \in Nat
  BY <1>1, <1>2, LastFacts, TxAssumption, Zenon DEF AllCollect
<1>4. p.msg = q.msg /\ p.pos = q.pos + PktPayload /\ p.seq = (q.seq + 1) % 4
  BY <1>1, <1>2, Zenon DEF AllLive, Live, IsAt
<1>5. p.pos + PktPayload = q.pos + 2 * PktPayload /\ (p.seq + 1) % 4 = (q.seq + 2) % 4
  BY <1>3, <1>4
<1> QED
  BY <1>1, <1>2, <1>4, <1>5, Zenon DEF Next1, Gone, IsAt

-----------------------------------------------------------------------------
\* What was taken from the stream so far, and what has been lost of it.
StreamInv == AllCollect /\ PhaseInv

\* A packet that is sent is followed directly by what the sender sends next.
LEMMA SentKeepsPhase ==
  ASSUME LinkInv, StreamInv, TxSent, UNCHANGED <<taken, lost, msg_ctxs>>
  PROVE  StreamInv'
<1>1. PICK n : n = Len(wire)
  BY Zenon
<1>2. /\ n \in Nat /\ taken \in 0..n /\ Len(wire') = n + 1 /\ given' = given
      /\ \A k \in 1..n : wire'[k] = wire[k]
      /\ \A k \in 1..(n + 1) : At(k)' = At(k)
  BY <1>1, SentStream, Zenon DEF LinkInv, TxSent
<1>3. PICK e : e = At(taken + 1)
  BY Zenon
<1>4. e = At(taken + 1)'
  BY <1>2, <1>3, SMTT(30)
<1>5. AllCollect' /\ (AllLive(e) => AllLive(e)') /\ (AllKnown(e) => AllKnown(e)')
  BY <1>2 DEF StreamInv, AllCollect, Collects, LastOf, AllLive, AllKnown, Live, Gone,
              Starts, IsAt
<1>6. ASSUME NEW k, k = n + 1
      PROVE  Next1(wire'[k], At(k + 1)')
  <2>1. k + 1 = n + 2
    BY <1>2, <1>6
  <2>2. PICK f : f = At(n + 2)'
    BY Zenon
  <2>3. /\ wire'[k].msg = tx_msg
        /\ IF wire'[k].eom THEN f.msg = NoMessage
             ELSE IsAt(f, tx_msg, wire'[k].pos + PktPayload, (wire'[k].seq + 1) % 4)
    BY <1>1, <1>6, <2>2, SentStream, Zenon
  <2> QED
    BY <2>1, <2>2, <2>3, Zenon DEF Next1, Starts
<1>7. ASSUME NEW k \in 1..n
      PROVE  wire'[k] = wire[k] /\ At(k + 1)' = At(k + 1)
  BY <1>2, <1>7
<1>8. Gapless => Gapless'
  <2> SUFFICES ASSUME Gapless, NEW k \in (taken + 1)..(n + 1)
               PROVE  Next1(wire'[k], At(k + 1)')
    BY <1>2, Zenon DEF Gapless, Next1, Starts, IsAt
  <2>1. CASE k = n + 1
    BY <1>6, <2>1, Zenon
  <2>2. CASE k # n + 1
    <3>1. k \in 1..n /\ k \in (taken + 1)..n
      BY <1>2, <2>2
    <3> QED
      BY <1>1, <1>7, <3>1, Zenon DEF Gapless
  <2> QED
    BY <2>1, <2>2, Zenon
<1>9. ASSUME NEW g \in (taken + 1)..n, GapAt(g)
      PROVE  g \in (taken' + 1)..Len(wire') /\ GapAt(g)'
  <2>1. g \in 1..n /\ g \in (taken' + 1)..Len(wire')
    BY <1>2
  <2>2. Next2(wire'[g], At(g + 1)')
    BY <1>7, <1>9, <2>1, Zenon DEF GapAt
  <2>3. ASSUME NEW k \in (taken + 1)..(n + 1), k # g
        PROVE  Next1(wire'[k], At(k + 1)')
    <3>1. CASE k = n + 1
      BY <1>6, <3>1, Zenon
    <3>2. CASE k # n + 1
      <4>1. k \in 1..n /\ k \in (taken + 1)..n
        BY <1>2, <3>2
      <4> QED
        BY <1>1, <1>7, <1>9, <2>3, <4>1, Zenon DEF GapAt
    <3> QED
      BY <3>1, <3>2, Zenon
  <2> QED
    BY <1>2, <2>1, <2>2, <2>3, Zenon DEF GapAt, Next1, Next2, Starts, IsAt
<1> QED
  BY <1>1, <1>3, <1>4, <1>5, <1>8, <1>9, Zenon DEF StreamInv, PhaseInv

\* A packet that fails, the first that is lost, leaves a gap ahead, or leaves the
\* receiver's context behind when it has read all the others.
LEMMA FailedKeepsPhase ==
  ASSUME LinkInv, ReceiverInv, StreamInv, TxError, lost = 0, lost' = 1,
         UNCHANGED <<taken, msg_ctxs>>
  PROVE  StreamInv'
<1>1. PICK n : n = Len(wire)
  BY Zenon
<1>2. /\ n \in Nat /\ taken \in 0..n /\ wire' = wire /\ given' = given
      /\ \A k \in 1..n : At(k)' = At(k) /\ wire \in Seq(SentPackets)
  BY <1>1, FailedStream, Zenon DEF LinkInv, TxError, WireInv, WireType
<1>3. PICK e, f : e = At(n + 1) /\ f = At(n + 1)'
  BY Zenon
<1>4. /\ IsAt(e, tx_msg, tx_msgpos, tx_seq)
      /\ IF tx_msgpos + PktPayload >= tx_msg.len THEN f.msg = NoMessage
           ELSE IsAt(f, tx_msg, tx_msgpos + PktPayload, (tx_seq + 1) % 4)
  BY <1>1, <1>3, FailedStream, Zenon
<1>5. /\ tx_msgpos \in Nat /\ tx_msg.len \in Nat /\ PktPayload \in Nat
  BY TxAssumption, Zenon DEF LinkInv, BusInv, TypeOK, SendingOnBus, TxError
<1>6. Gapless /\ AllLive(At(taken + 1)) /\ AllCollect
  BY DEF StreamInv, PhaseInv
<1>7. AllCollect'
  BY <1>2, <1>6, Zenon DEF AllCollect, Collects, LastOf
<1>8. CASE taken = n
  <2>1. Gapless'
    BY <1>1, <1>2, <1>8 DEF Gapless
  <2>2. ASSUME NEW j \in 1..Ctxs, msg_ctxs[j].alloc
        PROVE  Gone(msg_ctxs[j], f)
    <3>1. PICK c \in Context : c = msg_ctxs[j]
      BY Zenon DEF ReceiverInv
    <3>2. PICK q : q = LastOf(c)
      BY Zenon
    <3>3. q.pos \in Nat /\ q.seq \in 0..3
      BY <1>6, <2>2, <3>1, <3>2, LastFacts, Zenon DEF AllCollect
    <3>4. IsAt(e, q.msg, q.pos + PktPayload, (q.seq + 1) % 4)
      BY <1>3, <1>6, <1>8, <2>2, <3>1, <3>2, Zenon DEF AllLive, Live
    <3>5. tx_msg = q.msg /\ tx_msgpos + PktPayload = q.pos + 2 * PktPayload
          /\ (tx_seq + 1) % 4 = (q.seq + 2) % 4
      BY <1>4, <1>5, <3>3, <3>4 DEF IsAt
    <3> QED
      BY <1>4, <3>1, <3>2, <3>5, Zenon DEF Gone, Starts, IsAt
  <2>3. AllKnown(At(taken + 1))'
    BY <1>3, <1>8, <2>2, Zenon DEF AllKnown, Gone, LastOf, Starts, IsAt
  <2> QED
    BY <1>7, <2>1, <2>3, Zenon DEF StreamInv, PhaseInv
<1>9. CASE taken < n
  <2>1. At(taken + 1)' = At(taken + 1) /\ n \in 1..n /\ n \in (taken + 1)..n
    BY <1>2, <1>9
  <2>2. AllLive(At(taken + 1))'
    BY <1>6, <2>1, Zenon DEF AllLive, Live, LastOf, IsAt
  <2>3. PICK p \in SentPackets : p = wire[n]
    BY <1>1, <1>2, <2>1
  <2>4. Next1(p, e)
    BY <1>1, <1>3, <1>6, <2>1, <2>3, Zenon DEF Gapless
  <2>5. Next2(p, f)
    <3>1. CASE p.eom
      BY <3>1, Zenon DEF Next2
    <3>2. CASE ~p.eom
      <4>1. IsAt(e, p.msg, p.pos + PktPayload, (p.seq + 1) % 4)
        BY <2>4, <3>2, Zenon DEF Next1
      <4>2. p.pos \in Nat /\ p.seq \in 0..3
        BY Zenon DEF SentPackets
      <4>3. tx_msg = p.msg /\ tx_msgpos + PktPayload = p.pos + 2 * PktPayload
            /\ (tx_seq + 1) % 4 = (p.seq + 2) % 4
        BY <1>4, <1>5, <4>1, <4>2 DEF IsAt
      <4> QED
        BY <1>4, <4>3, Zenon DEF Next2, Starts
    <3> QED
      BY <3>1, <3>2, Zenon
  <2>6. ASSUME NEW k \in (taken + 1)..n, k # n
        PROVE  Next1(wire[k], At(k + 1)')
    <3>1. k + 1 \in 1..n
      BY <1>2, <2>6
    <3>2. At(k + 1)' = At(k + 1)
      BY <1>2, <3>1, Zenon
    <3> QED
      BY <1>1, <1>6, <2>6, <3>2, Zenon DEF Gapless
  <2>7. GapAt(n)'
    BY <1>1, <1>2, <1>3, <2>3, <2>5, <2>6, Zenon DEF GapAt, Next1, Next2, Starts, IsAt
  <2> QED
    BY <1>1, <1>2, <1>7, <2>1, <2>2, <2>7, Zenon DEF StreamInv, PhaseInv
<1> QED
  BY <1>2, <1>8, <1>9

\* A message that is taken starts where nothing followed.
LEMMA TakenKeepsPhase ==
  ASSUME LinkInv, ReceiverInv, StreamInv,
         NEW m \in Messages, mctp_message_tx(m), TxTaken(m), UNCHANGED <<taken, lost, msg_ctxs>>
  PROVE  StreamInv'
<1>1. PICK n : n = Len(wire)
  BY Zenon
<1>2. PICK e, f : e = At(n + 1) /\ f = At(n + 1)'
  BY Zenon
<1>3. /\ n \in Nat /\ taken \in 0..n /\ wire' = wire /\ given \subseteq given'
      /\ \A k \in 1..n : At(k)' = At(k) /\ wire \in Seq(SentPackets)
      /\ e.msg = NoMessage /\ f.pos = 0
  BY <1>1, <1>2, TakenStream, Zenon DEF LinkInv, WireInv, WireType, IsAt
<1>4. AllCollect
  BY Zenon DEF StreamInv
<1>5. AllCollect'
  BY <1>3, <1>4, Zenon DEF AllCollect, Collects, LastOf
<1>6. ASSUME NEW k \in 1..n
      PROVE  /\ Next1(wire[k], At(k + 1)) => Next1(wire[k], At(k + 1)')
             /\ Next2(wire[k], At(k + 1)) => Next2(wire[k], At(k + 1)')
  <2>1. CASE k # n
    <3>1. k + 1 \in 1..n
      BY <1>3, <2>1
    <3> QED
      BY <1>3, <3>1, Zenon
  <2>2. CASE k = n
    <3>1. PICK p \in SentPackets : p = wire[k]
      BY <1>1, <1>3
    <3>2. p.msg # NoMessage
      <4>1. p.msg \in Messages
        BY Zenon DEF SentPackets
      <4> QED
        BY <4>1, TxAssumption, Zenon
    <3>3. Starts(f) /\ (Next1(p, e) => p.eom) /\ (Next2(p, e) => Next2(p, f))
      BY <1>3, <3>2, Zenon DEF Starts, Next1, Next2, IsAt
    <3> QED
      BY <1>2, <2>2, <3>1, <3>3, Zenon DEF Next1
  <2> QED
    BY <2>1, <2>2, Zenon
<1>7. Gapless => Gapless'
  BY <1>1, <1>3, <1>6 DEF Gapless, Next1, Starts, IsAt
<1>8. \A g \in (taken + 1)..n : GapAt(g) => GapAt(g)'
  BY <1>1, <1>3, <1>6, SMTT(30) DEF GapAt, Next1, Next2, Starts, IsAt
<1>9. /\ AllLive(At(taken + 1)) => AllLive(At(taken + 1))'
      /\ AllKnown(At(taken + 1)) => AllKnown(At(taken + 1))'
  <2>1. CASE taken = n
    <3>1. ASSUME NEW j \in 1..Ctxs, msg_ctxs[j].alloc
          PROVE  ~Live(msg_ctxs[j], e) /\ Gone(msg_ctxs[j], f)
      <4>1. PICK c \in Context : c = msg_ctxs[j]
        BY Zenon DEF ReceiverInv
      <4>2. LastOf(c).msg \in Messages
        BY <1>4, <3>1, <4>1, LastFacts, Zenon DEF AllCollect
      <4> QED
        BY <1>3, <4>1, <4>2, TxAssumption, Zenon DEF Live, Gone, IsAt, Starts
    <3> QED
      BY <1>2, <2>1, <3>1 DEF AllLive, AllKnown, Live, Gone, LastOf, Starts, IsAt
  <2>2. CASE taken < n
    <3>1. At(taken + 1)' = At(taken + 1)
      BY <1>3, <2>2
    <3> QED
      BY <3>1 DEF AllLive, AllKnown, Live, Gone, LastOf, Starts, IsAt
  <2> QED
    BY <1>3, <2>1, <2>2
<1> QED
  BY <1>1, <1>3, <1>5, <1>7, <1>8, <1>9, Zenon DEF StreamInv, PhaseInv

\* What comes after the next packet, when that leaves the link.
LEMMA StepAlong ==
  ASSUME LinkInv, taken < Len(wire), taken' = taken + 1, UNCHANGED vars
  PROVE  \E p, e, f :
           /\ p \in SentPackets /\ p = wire[taken + 1] /\ WellBuilt(p) /\ p.msg \in given
           /\ e = At(taken + 1) /\ IsAt(e, p.msg, p.pos, p.seq) /\ f = At(taken + 1)'
           /\ Gapless => Next1(p, f) /\ Gapless'
           /\ GapAt(taken + 1) => Next2(p, f) /\ Gapless'
           /\ \A g \in (taken + 2)..Len(wire) : GapAt(g) => Next1(p, f) /\ GapAt(g)'
<1>1. PICK n : n = Len(wire)
  BY Zenon
<1>2. /\ n \in Nat /\ taken \in 0..n /\ taken + 1 \in 1..n /\ WireType
      /\ wire \in Seq(SentPackets)
  BY <1>1 DEF LinkInv, WireInv, WireType
<1>3. PICK p \in SentPackets : p = wire[taken + 1]
  BY <1>1, <1>2
<1>4. WellBuilt(p) /\ p.msg \in given
  BY <1>1, <1>2, <1>3, Zenon DEF LinkInv, WireInv, OnlyGiven
<1>5. PICK e, f : e = At(taken + 1) /\ f = At(taken + 2)
  BY Zenon
<1>6. IsAt(e, p.msg, p.pos, p.seq)
  BY <1>1, <1>2, <1>3, <1>5, AtFacts DEF IsAt
<1>7. wire' = wire /\ (\A k : At(k)' = At(k)) /\ taken' + 1 = taken + 2
  BY <1>2 DEF vars, busVars, historyVars, At
<1>8. f = At(taken + 1)'
  BY <1>5, <1>7, Zenon
<1>9. /\ taken + 1 \in (taken + 1)..n /\ (taken + 1) + 1 = taken + 2
      /\ \A k \in (taken + 2)..n : k \in (taken + 1)..n /\ k # taken + 1
  BY <1>2
<1>10. ASSUME \A k \in (taken + 2)..n : Next1(wire[k], At(k + 1))
       PROVE  Gapless'
  BY <1>1, <1>7, <1>10, Zenon DEF Gapless, Next1, Starts, IsAt
<1>11. Gapless => Next1(p, f) /\ Gapless'
  BY <1>1, <1>3, <1>5, <1>9, <1>10, Zenon DEF Gapless
<1>12. GapAt(taken + 1) => Next2(p, f) /\ Gapless'
  BY <1>1, <1>3, <1>5, <1>9, <1>10, Zenon DEF GapAt
<1>13. ASSUME NEW g \in (taken + 2)..n, GapAt(g)
       PROVE  Next1(p, f) /\ GapAt(g)'
  <2>1. Next1(p, f) /\ \A k \in (taken + 2)..n : k # g => Next1(wire[k], At(k + 1))
    BY <1>1, <1>3, <1>5, <1>9, <1>13, Zenon DEF GapAt
  <2>2. Next2(wire[g], At(g + 1))
    BY <1>13, Zenon DEF GapAt
  <2> QED
    BY <1>1, <1>7, <2>1, <2>2, Zenon DEF GapAt, Next1, Next2, Starts, IsAt
<1> QED
  BY <1>1, <1>3, <1>4, <1>5, <1>6, <1>8, <1>11, <1>12, <1>13

\* The first packet that is lost on the link leaves the receiver's context behind.
LEMMA LostKeepsPhase ==
  ASSUME LinkInv, ReceiverInv, StreamInv, taken < Len(wire), taken' = taken + 1,
         lost = 0, lost' = 1, UNCHANGED <<vars, msg_ctxs>>
  PROVE  StreamInv'
<1>1. Gapless /\ AllLive(At(taken + 1)) /\ AllCollect
  BY DEF StreamInv, PhaseInv
<1>2. PICK p, e, f :
        /\ p \in SentPackets /\ e = At(taken + 1) /\ IsAt(e, p.msg, p.pos, p.seq)
        /\ f = At(taken + 1)'
        /\ Next1(p, f) /\ Gapless'
  BY <1>1, StepAlong, Zenon
<1>3. AllKnown(f)'
  BY <1>1, <1>2, LostInTurn, Zenon
<1>4. AllCollect'
  BY <1>1, Zenon DEF AllCollect, Collects, LastOf, vars, historyVars
<1> QED
  BY <1>2, <1>3, <1>4, Zenon DEF StreamInv, PhaseInv

\* A packet that is read is the next of the message it belongs to, or none of the
\* message that is left in its context.
LEMMA ReadKeepsPhase ==
  ASSUME LinkInv, ReceiverInv, StreamInv, ReceivePacket, MaxLost <= 1
  PROVE  StreamInv'
<1>1. /\ taken < Len(wire) /\ taken' = taken + 1 /\ UNCHANGED <<vars, given>>
      /\ lost' \in {lost, lost + 1} /\ lost' <= 1 /\ lost \in Nat
  <2>1. /\ taken < Len(wire) /\ taken' = taken + 1 /\ UNCHANGED <<vars, given>>
        /\ lost' \in {lost, lost + 1} /\ lost' <= MaxLost
    BY Zenon DEF ReceivePacket, vars, historyVars
  <2>2. lost \in Nat /\ MaxLost \in Nat
    BY TransferAssumption, Zenon DEF LinkInv
  <2> QED
    BY <2>1, <2>2
<1>2. PICK p, e, f :
        /\ p \in SentPackets /\ p = wire[taken + 1] /\ WellBuilt(p) /\ p.msg \in given
        /\ e = At(taken + 1) /\ IsAt(e, p.msg, p.pos, p.seq) /\ f = At(taken + 1)'
        /\ Gapless => Next1(p, f) /\ Gapless'
        /\ GapAt(taken + 1) => Next2(p, f) /\ Gapless'
        /\ \A g \in (taken + 2)..Len(wire) : GapAt(g) => Next1(p, f) /\ GapAt(g)'
  BY <1>1, StepAlong, Zenon
<1>3. Outcome(p) /\ AllCollect
  BY <1>2, ReceiveOutcome, Zenon DEF StreamInv
<1>4. /\ AllLive(e) \/ AllKnown(e) => AllCollect'
      /\ AllLive(e) /\ Next1(p, f) => AllLive(f)'
      /\ AllLive(e) /\ Next2(p, f) => AllKnown(f)'
      /\ AllKnown(e) /\ lost \in Nat /\ lost' = lost /\ Next1(p, f) => AllKnown(f)'
  BY <1>1, <1>2, <1>3, ReadInTurn, Zenon
<1>5. AllLive(f)' => AllKnown(f)'
  BY Zenon DEF AllLive, AllKnown
<1>6. CASE lost = 0 /\ Gapless /\ AllLive(e)
  <2>1. lost' = 0 \/ lost' = 1
    BY <1>1, <1>6
  <2> QED
    BY <1>2, <1>4, <1>5, <1>6, <2>1, Zenon DEF StreamInv, PhaseInv
<1>7. lost = 1 => lost' = lost
  BY <1>1
<1>8. CASE lost = 1 /\ AllLive(e) /\ \E g \in (taken + 1)..Len(wire) : GapAt(g)
  <2>1. PICK g \in (taken + 1)..Len(wire) : GapAt(g)
    BY <1>8, Zenon
  <2>2. CASE g = taken + 1
    BY <1>2, <1>4, <1>7, <1>8, <2>1, <2>2, Zenon DEF StreamInv, PhaseInv
  <2>3. CASE g # taken + 1
    <3>1. g \in (taken + 2)..Len(wire) /\ g \in (taken' + 1)..Len(wire')
      <4>1. taken \in Nat /\ Len(wire) \in Nat /\ wire' = wire
        BY <1>1 DEF LinkInv, WireInv, WireType, vars, historyVars
      <4> QED
        BY <1>1, <2>1, <2>3, <4>1
    <3>2. Next1(p, f) /\ GapAt(g)'
      BY <1>2, <2>1, <3>1, Zenon
    <3> QED
      BY <1>2, <1>4, <1>7, <1>8, <3>1, <3>2, Zenon DEF StreamInv, PhaseInv
  <2> QED
    BY <2>2, <2>3, Zenon
<1>9. CASE lost = 1 /\ Gapless /\ AllKnown(e)
  BY <1>1, <1>2, <1>4, <1>7, <1>9, Zenon DEF StreamInv, PhaseInv
<1> QED
  BY <1>2, <1>6, <1>8, <1>9, Zenon DEF StreamInv, PhaseInv

\* Every step keeps to the phases, when one packet at most is lost.
LEMMA NextStreamInv ==
  ASSUME MaxLost <= 1, LinkInv, ReceiverInv, StreamInv, [TransferNext]_transferVars
  PROVE  StreamInv'
<1>1. ASSUME UNCHANGED <<wire, tx_msg, tx_msgpos, tx_seq, taken, lost, msg_ctxs>>,
             given \subseteq given'
      PROVE  StreamInv'
  <2>1. AllCollect'
    BY <1>1, Zenon DEF StreamInv, AllCollect, Collects, LastOf
  <2>2. \A k : At(k)' = At(k)
    BY <1>1, Zenon DEF At
  <2>3. (Gapless => Gapless') /\ \A g : GapAt(g) => GapAt(g)'
    BY <1>1, <2>2, Zenon DEF Gapless, GapAt, Next1, Next2, Starts, IsAt
  <2>4. PICK e : e = At(taken + 1) /\ e = At(taken + 1)'
    BY <1>1, <2>2, Zenon
  <2>5. (AllLive(e) => AllLive(e)') /\ (AllKnown(e) => AllKnown(e)')
    BY <1>1, Zenon DEF AllLive, AllKnown, Live, Gone, LastOf, Starts, IsAt
  <2> QED
    BY <1>1, <2>1, <2>3, <2>4, <2>5, Zenon DEF StreamInv, PhaseInv
<1>2. ASSUME lost < MaxLost, lost' = lost + 1
      PROVE  lost = 0 /\ lost' = 1
  <2>1. lost \in Nat /\ MaxLost \in Nat
    BY TransferAssumption, Zenon DEF LinkInv
  <2> QED
    BY <1>2, <2>1
<1>3. ASSUME NEW m \in Messages, SendMessage(m)
      PROVE  StreamInv'
  <2>1. mctp_message_tx(m) /\ UNCHANGED <<taken, msg_ctxs, lost>>
    BY <1>3, Zenon DEF SendMessage, receiverVars
  <2>2. CASE TxTaken(m)
    BY <2>1, <2>2, TakenKeepsPhase, Zenon
  <2>3. CASE ~TxTaken(m)
    <3>1. UNCHANGED <<wire, tx_msg, tx_msgpos, tx_seq>> /\ given \subseteq given'
      BY <2>1, <2>3, Zenon DEF mctp_message_tx, TxFreed, busVars
    <3> QED
      BY <1>1, <2>1, <3>1, Zenon
  <2> QED
    BY <2>2, <2>3, Zenon
<1>4. CASE SendPacket /\ TxSent
  BY <1>4, SentKeepsPhase, Zenon DEF SendPacket, receiverVars
<1>5. CASE SendPacket /\ TxBusy
  BY <1>1, <1>5, Zenon DEF SendPacket, receiverVars, TxBusy, historyVars
<1>6. CASE FailPacket
  BY <1>2, <1>6, FailedKeepsPhase, Zenon DEF FailPacket, receiverVars
<1>7. CASE ToggleBinding \/ UNCHANGED transferVars
  BY <1>1, <1>7, Zenon DEF ToggleBinding, transferVars, receiverVars, BindingEnables,
                    BindingDisables, vars, busVars, historyVars
<1>8. CASE ReceivePacket
  BY <1>8, ReadKeepsPhase, Zenon
<1>9. CASE LosePacket
  BY <1>2, <1>9, LostKeepsPhase, Zenon DEF LosePacket
<1> QED
  BY <1>3, <1>4, <1>5, <1>6, <1>7, <1>8, <1>9, Zenon DEF TransferNext, SendPacket

-----------------------------------------------------------------------------
\* The messages leave in the order they were taken, and none after its end has left.
OrderInv ==
  /\ sent \in Seq(Messages)
  /\ \A a, b \in 1..Len(sent) : sent[a] = sent[b] => a = b
  /\ \A a \in 1..Len(sent) : sent[a] \in given
  /\ tx_msg # NoMessage => Len(sent) >= 1 /\ sent[Len(sent)] = tx_msg
  /\ \A k \in 1..Len(wire) : \E a \in 1..Len(sent) : sent[a] = wire[k].msg
  /\ \A k \in 1..Len(wire) : wire[k].eom => wire[k].msg # tx_msg
  /\ \A i, k \in 1..Len(wire), a, b \in 1..Len(sent) :
       i < k /\ sent[a] = wire[i].msg /\ sent[b] = wire[k].msg =>
         a <= b /\ (wire[i].eom => a < b)

\* What went up is a message whose end has been read.
DeliveredInv ==
  /\ delivered \in Seq(Delivery)
  /\ \A i \in 1..Len(delivered) :
       /\ Len(delivered[i].buf) >= 1
       /\ IsWhole(delivered[i], delivered[i].buf[1].msg)
       /\ \E k \in 1..taken : wire[k].eom /\ wire[k].msg = delivered[i].buf[1].msg

\* A packet that leaves is one of the message that was taken last.
LEMMA SentKeepsOrder ==
  ASSUME LinkInv, OrderInv, TxSent, UNCHANGED sent
  PROVE  OrderInv'
<1>1. PICK n, s : n = Len(wire) /\ s = Len(sent)
  BY Zenon
<1>2. /\ n \in Nat /\ Len(wire') = n + 1 /\ given' = given
      /\ \A k \in 1..n : wire'[k] = wire[k]
      /\ wire'[n + 1].msg = tx_msg /\ tx_msg # NoMessage /\ tx_msg' \in {tx_msg, NoMessage}
      /\ wire'[n + 1].eom => tx_msg' = NoMessage
      /\ wire \in Seq(SentPackets)
  BY <1>1, SentStream, Zenon DEF TxSent, LinkInv, WireInv, WireType
<1>3. s \in Nat /\ s >= 1 /\ sent[s] = tx_msg
  BY <1>1, <1>2 DEF OrderInv
<1>4. \A k \in 1..n : wire[k].msg # NoMessage
  <2>1. \A k \in 1..n : wire[k] \in SentPackets
    BY <1>1, <1>2
  <2>2. \A k \in 1..n : wire[k].msg \in Messages
    BY <2>1, Zenon DEF SentPackets
  <2> QED
    BY <2>2, TxAssumption, Zenon
<1>5. \A k \in 1..(n + 1) : k # n + 1 => k \in 1..n
  BY <1>2
<1>6. \A k \in 1..(n + 1) : \E a \in 1..s : sent[a] = wire'[k].msg
  BY <1>1, <1>2, <1>3, <1>5 DEF OrderInv
<1>7. \A k \in 1..(n + 1) : wire'[k].eom => wire'[k].msg # tx_msg'
  BY <1>1, <1>2, <1>4, <1>5 DEF OrderInv
<1>8. ASSUME NEW i \in 1..(n + 1), NEW k \in 1..(n + 1), NEW a \in 1..s, NEW b \in 1..s,
             i < k, sent[a] = wire'[i].msg, sent[b] = wire'[k].msg
      PROVE  a <= b /\ (wire'[i].eom => a < b)
  <2>1. i \in 1..n /\ wire'[i] = wire[i]
    BY <1>2, <1>8
  <2>2. CASE k \in 1..n
    BY <1>1, <1>2, <1>8, <2>1, <2>2 DEF OrderInv
  <2>3. CASE k = n + 1
    <3>1. b = s
      BY <1>1, <1>2, <1>3, <1>8, <2>3 DEF OrderInv
    <3>2. wire[i].eom => a # s
      BY <1>1, <1>3, <1>8, <2>1 DEF OrderInv
    <3> QED
      BY <1>3, <2>1, <3>1, <3>2
  <2> QED
    BY <1>5, <2>2, <2>3, Zenon
<1>9. tx_msg' # NoMessage => s >= 1 /\ sent[s] = tx_msg'
  BY <1>2, <1>3, Zenon
<1>10. \A a, b \in 1..s : sent[a] = sent[b] => a = b
  BY <1>1, Zenon DEF OrderInv
<1>11. (\A a \in 1..s : sent[a] \in given') /\ sent \in Seq(Messages)
  BY <1>1, <1>2, Zenon DEF OrderInv
<1> QED
  BY <1>1, <1>2, <1>6, <1>7, <1>8, <1>9, <1>10, <1>11 DEF OrderInv

\* A message that is taken is a new one.
LEMMA TakenKeepsOrder ==
  ASSUME LinkInv, OrderInv, NEW m \in Messages, mctp_message_tx(m), TxTaken(m),
         sent' = Append(sent, m)
  PROVE  OrderInv'
<1>1. PICK n, s : n = Len(wire) /\ s = Len(sent)
  BY Zenon
<1>2. /\ m \notin given /\ m # NoMessage /\ tx_msg' = m /\ given' = given \cup {m}
      /\ wire' = wire
  BY <1>1, TakenStream, Zenon
<1>3. /\ s \in Nat /\ sent' \in Seq(Messages) /\ Len(sent') = s + 1 /\ sent'[s + 1] = m
      /\ \A a \in 1..s : sent'[a] = sent[a]
  BY <1>1 DEF OrderInv
<1>4. \A a \in 1..s : sent[a] \in given /\ sent[a] # m
  BY <1>1, <1>2, Zenon DEF OrderInv
<1>5. \A k \in 1..n : wire[k].msg \in given /\ wire[k].msg # m
  BY <1>1, <1>2, Zenon DEF LinkInv, WireInv, OnlyGiven
<1>6. \A a \in 1..(s + 1) : a # s + 1 => a \in 1..s
  BY <1>3
<1>7. \A a, b \in 1..(s + 1) : sent'[a] = sent'[b] => a = b
  BY <1>1, <1>3, <1>4, <1>6 DEF OrderInv
<1>8. \A a \in 1..(s + 1) : sent'[a] \in given'
  BY <1>2, <1>3, <1>4, <1>6, Zenon
<1>9. \A k \in 1..n : \E a \in 1..(s + 1) : sent'[a] = wire[k].msg
  <2> SUFFICES ASSUME NEW k \in 1..n
               PROVE  \E a \in 1..(s + 1) : sent'[a] = wire[k].msg
    BY Zenon
  <2>1. PICK a \in 1..s : sent[a] = wire[k].msg
    BY <1>1, Zenon DEF OrderInv
  <2>2. a \in 1..(s + 1)
    BY <1>3
  <2> QED
    BY <1>3, <2>1, <2>2, Zenon
<1>10. \A i, k \in 1..n, a, b \in 1..(s + 1) :
         i < k /\ sent'[a] = wire[i].msg /\ sent'[b] = wire[k].msg =>
           a <= b /\ (wire[i].eom => a < b)
  BY <1>1, <1>3, <1>5, <1>6, SMTT(30) DEF OrderInv
<1>11. s + 1 >= 1
  BY <1>3
<1> QED
  BY <1>1, <1>2, <1>3, <1>5, <1>7, <1>8, <1>9, <1>10, <1>11, SMTT(30) DEF OrderInv

\* Every step keeps the messages in order.
LEMMA NextOrderInv ==
  ASSUME LinkInv, OrderInv, [TransferNext]_transferVars
  PROVE  OrderInv'
<1>1. ASSUME UNCHANGED <<wire, sent>>, given \subseteq given', tx_msg' \in {tx_msg, NoMessage}
      PROVE  OrderInv'
  <2>1. wire \in Seq(SentPackets)
    BY Zenon DEF LinkInv, WireInv, WireType
  <2>2. \A k \in 1..Len(wire) : wire[k] \in SentPackets
    BY <2>1
  <2>3. \A k \in 1..Len(wire) : wire[k].msg \in Messages
    BY <2>2, Zenon DEF SentPackets
  <2>4. \A k \in 1..Len(wire) : wire[k].msg # NoMessage
    BY <2>3, TxAssumption, Zenon
  <2>5. tx_msg' # NoMessage => tx_msg' = tx_msg
    BY <1>1, Zenon
  <2>6. /\ \A a \in 1..Len(sent') : sent'[a] \in given'
        /\ tx_msg' # NoMessage => Len(sent') >= 1 /\ sent'[Len(sent')] = tx_msg'
        /\ \A k \in 1..Len(wire') : wire'[k].eom => wire'[k].msg # tx_msg'
    BY <1>1, <2>4, <2>5, Zenon DEF OrderInv
  <2>7. /\ sent' \in Seq(Messages)
        /\ \A a, b \in 1..Len(sent') : sent'[a] = sent'[b] => a = b
        /\ \A k \in 1..Len(wire') : \E a \in 1..Len(sent') : sent'[a] = wire'[k].msg
    BY <1>1, Zenon DEF OrderInv
  <2> DEFINE Ordered(w, s) ==
        \A i, k \in 1..Len(w), a, b \in 1..Len(s) :
          i < k /\ s[a] = w[i].msg /\ s[b] = w[k].msg => a <= b /\ (w[i].eom => a < b)
  <2>8. Ordered(wire, sent)
    BY Zenon DEF OrderInv
  <2> HIDE DEF Ordered
  <2>9. Ordered(wire', sent')
    BY <1>1, <2>8, Zenon
  <2> QED
    BY <2>6, <2>7, <2>9, Zenon DEF OrderInv, Ordered
<1>2. ASSUME NEW m \in Messages, SendMessage(m)
      PROVE  OrderInv'
  <2>1. mctp_message_tx(m) /\ sent' = IF tx_msg' # tx_msg THEN Append(sent, m) ELSE sent
    BY <1>2, Zenon DEF SendMessage
  <2>2. CASE TxTaken(m)
    <3>1. PICK n : n = Len(wire)
      BY Zenon
    <3>2. tx_msg' # tx_msg
      BY <2>1, <2>2, <3>1, TakenStream, Zenon
    <3> QED
      BY <2>1, <2>2, <3>2, TakenKeepsOrder, Zenon
  <2>3. CASE ~TxTaken(m)
    <3>1. UNCHANGED <<wire, tx_msg>> /\ given \subseteq given'
      BY <2>1, <2>3, Zenon DEF mctp_message_tx, TxFreed, busVars
    <3> QED
      BY <1>1, <2>1, <3>1, Zenon
  <2> QED
    BY <2>2, <2>3, Zenon
<1>3. CASE SendPacket /\ TxSent
  BY <1>3, SentKeepsOrder, Zenon DEF SendPacket
<1>4. CASE FailPacket
  <2>1. PICK n : n = Len(wire)
    BY Zenon
  <2>2. tx_msg' \in {tx_msg, NoMessage}
    BY <1>4, <2>1, FailedStream, Zenon DEF FailPacket
  <2> QED
    BY <1>1, <1>4, <2>2, Zenon DEF FailPacket, TxError
<1>5. CASE UNCHANGED <<wire, sent, given, tx_msg>>
  BY <1>1, <1>5, Zenon
<1> QED
  BY <1>2, <1>3, <1>4, <1>5, Zenon
     DEF TransferNext, transferVars, SendPacket, ToggleBinding, ReceivePacket, LosePacket,
         TxBusy, BindingEnables, BindingDisables, vars, busVars, historyVars

\* What goes up when packet p is read is the whole message it ends.
LEMMA DeliversWhole ==
  ASSUME ReceiverInv, AllCollect, NEW p \in SentPackets, WellBuilt(p), Outcome(p),
         NEW e, IsAt(e, p.msg, p.pos, p.seq), AllKnown(e), rx' # <<>>
  PROVE  \E d \in Delivery : /\ rx' = <<d>> /\ Len(d.buf) >= 1 /\ d.buf[1].msg = p.msg
                             /\ IsWhole(d, p.msg) /\ p.eom
<1>1. PICK r \in Received : r = AsReceived(p)
  BY Zenon DEF Received
<1>2. /\ r.msg = p.msg /\ r.pos = p.pos /\ p.len \in Nat /\ p.pos \in Nat
      /\ PktPayload \in Nat /\ p.msg.len \in Nat
  BY <1>1, ReadBack, TxAssumption, Zenon DEF SentPackets
<1>3. ASSUME NEW b \in Seq(Received), NEW len \in Nat, Len(b) >= 1, p.eom,
             len = p.msg.len,
             \A k \in 1..Len(b) : b[k].msg = p.msg /\ b[k].pos = (k - 1) * PktPayload,
             rx' = <<Up(p, b, len)>>
      PROVE  \E d \in Delivery : /\ rx' = <<d>> /\ Len(d.buf) >= 1 /\ d.buf[1].msg = p.msg
                                 /\ IsWhole(d, p.msg) /\ p.eom
  <2>1. PICK d \in Delivery : d = Up(p, b, len)
    BY UpType, Zenon
  <2>2. d.buf = b /\ d.len = len /\ d.tag = p.msg.tag /\ d.to = p.msg.to
    BY <2>1, Zenon DEF Up
  <2>3. b[1].msg = p.msg
    BY <1>3
  <2>4. IsWhole(d, p.msg)
    BY <1>3, <2>2, Zenon DEF IsWhole
  <2> QED
    BY <1>3, <2>1, <2>2, <2>3, <2>4, Zenon
<1>4. CASE TakenAlone(p)
  <2>0. <<r>> \in Seq(Received)
    OBVIOUS
  <2>1. PICK b \in Seq(Received) : b = <<r>>
    BY <2>0, Zenon
  <2>2. Len(b) = 1 /\ b[1] = r
    BY <2>1, Zenon
  <2>3. p.pos = 0 /\ p.len = p.msg.len /\ p.eom /\ rx' = <<Up(p, b, p.len)>>
    BY <1>1, <1>2, <1>4, <2>1 DEF TakenAlone, WellBuilt
  <2>4. (1 - 1) * PktPayload = 0
    BY <1>2
  <2>5. \A k \in 1..Len(b) : b[k].msg = p.msg /\ b[k].pos = (k - 1) * PktPayload
    BY <1>2, <2>2, <2>3, <2>4
  <2>6. Len(b) >= 1
    BY <2>2
  <2> QED
    BY <1>2, <1>3, <2>3, <2>5, <2>6
<1>5. ASSUME NEW i \in 1..Ctxs, Completes(p, i)
      PROVE  \E d \in Delivery : /\ rx' = <<d>> /\ Len(d.buf) >= 1 /\ d.buf[1].msg = p.msg
                                 /\ IsWhole(d, p.msg) /\ p.eom
  <2>1. PICK c \in Context : c = msg_ctxs[i]
    BY Zenon DEF ReceiverInv
  <2>2. /\ ~p.som /\ p.eom /\ c.alloc /\ c.tag = p.msg.tag /\ Continuing(c, p)
        /\ rx' = <<Up(p, Append(c.buf, r), c.buf_size + p.len)>>
    BY <1>1, <1>5, <2>1, Zenon DEF Completes, Holds
  <2>3. Collects(c) /\ (Live(c, e) \/ Gone(c, e))
    BY <2>1, <2>2, Zenon DEF AllCollect, AllKnown
  <2>4. Live(c, e)
    BY <2>2, <2>3, ContinuingIsLive, Zenon
  <2>5. PICK n, q : n = Len(c.buf) /\ q = LastOf(c)
    BY Zenon
  <2>6. /\ n \in Nat /\ n >= 1 /\ c.buf \in Seq(Received)
        /\ q.pos + PktPayload = n * PktPayload /\ c.buf_size = n * PktPayload
    BY <2>3, <2>5, LastFacts, Zenon
  <2>7. p.msg = q.msg /\ p.pos = n * PktPayload
    BY <2>4, <2>5, <2>6, Zenon DEF Live, IsAt
  <2>8. c.buf_size + p.len = p.msg.len /\ c.buf_size + p.len \in Nat
    BY <1>2, <2>2, <2>6, <2>7, Zenon DEF WellBuilt
  <2>9. PICK b \in Seq(Received) : b = Append(c.buf, r)
    <3>1. Append(c.buf, r) \in Seq(Received)
      BY <2>6
    <3> QED
      BY <3>1, Zenon
  <2>10. Len(b) = n + 1 /\ b[n + 1] = r /\ \A k \in 1..n : b[k] = c.buf[k]
    BY <2>5, <2>6, <2>9
  <2>11. ASSUME NEW k \in 1..(n + 1)
         PROVE  b[k].msg = p.msg /\ b[k].pos = (k - 1) * PktPayload
    <3>1. CASE k \in 1..n
      BY <2>3, <2>5, <2>7, <2>10, <3>1, Zenon DEF Collects
    <3>2. CASE k = n + 1
      <4>1. ((n + 1) - 1) * PktPayload = n * PktPayload
        BY <1>2, <2>6
      <4> QED
        BY <1>2, <2>7, <2>10, <3>2, <4>1, Zenon
    <3> QED
      BY <2>6, <3>1, <3>2
  <2>12. Len(b) >= 1
    BY <2>6, <2>10
  <2> QED
    BY <1>3, <2>2, <2>8, <2>9, <2>10, <2>11, <2>12, Zenon
<1> QED
  BY <1>4, <1>5, Zenon DEF Outcome, NotTaken, Opens, Extends, Drops

\* Whichever phase the transfer is in, the receiver's contexts are known.
LEMMA PhaseKnown == StreamInv => AllCollect /\ AllKnown(At(taken + 1))
BY Zenon DEF StreamInv, PhaseInv, AllLive, AllKnown

\* What reading a packet adds to what went up: nothing, or the message the packet ends.
LEMMA ReadDelivers ==
  ASSUME LinkInv, ReceiverInv, StreamInv, ReceivePacket, delivered \in Seq(Delivery)
  PROVE  /\ UNCHANGED <<sent, wire, given>>
         /\ taken' = taken + 1 /\ taken + 1 \in 1..Len(wire)
         /\ \/ delivered' = delivered
            \/ /\ wire[taken + 1].eom
               /\ \E d \in Delivery :
                    /\ delivered' = Append(delivered, d)
                    /\ Len(d.buf) >= 1 /\ d.buf[1].msg = wire[taken + 1].msg
                    /\ IsWhole(d, wire[taken + 1].msg)
<1>1. PICK p : p = wire[taken + 1]
  BY Zenon
<1>2. /\ p \in SentPackets /\ Outcome(p) /\ taken' = taken + 1 /\ taken + 1 \in 1..Len(wire)
      /\ delivered' = delivered \o rx' /\ UNCHANGED <<vars, sent>>
  BY <1>1, ReceiveOutcome, Zenon
<1>3. UNCHANGED <<wire, given>> /\ WellBuilt(p)
  BY <1>1, <1>2, Zenon DEF vars, historyVars, LinkInv
<1>4. PICK e : e = At(taken + 1)
  BY Zenon
<1>5. IsAt(e, p.msg, p.pos, p.seq)
  <2>1. taken + 1 \in Nat /\ taken + 1 <= Len(wire) /\ WireType
    BY <1>2 DEF LinkInv, WireInv
  <2> QED
    BY <1>1, <1>4, <2>1, AtFacts, Zenon DEF IsAt
<1>6. AllCollect /\ AllKnown(e)
  BY <1>4, PhaseKnown, Zenon
<1>7. CASE rx' = <<>>
  <2>1. delivered' = delivered
    BY <1>2, <1>7
  <2> QED
    BY <1>2, <1>3, <2>1, Zenon
<1>8. CASE rx' # <<>>
  <2>1. PICK d \in Delivery : /\ rx' = <<d>> /\ Len(d.buf) >= 1 /\ d.buf[1].msg = p.msg
                              /\ IsWhole(d, p.msg) /\ p.eom
    BY <1>2, <1>3, <1>5, <1>6, <1>8, DeliversWhole, Zenon
  <2>2. delivered' = Append(delivered, d)
    BY <1>2, <2>1
  <2> QED
    BY <1>1, <1>2, <1>3, <2>1, <2>2, Zenon
<1> QED
  BY <1>7, <1>8, Zenon

\* The deliveries after a step, one by one.
LEMMA DeliveredAfter ==
  ASSUME delivered' \in Seq(Delivery),
         \A i \in 1..Len(delivered') : \A x : x = delivered'[i] =>
           /\ Len(x.buf) >= 1 /\ IsWhole(x, x.buf[1].msg)
           /\ \E k \in 1..taken' : wire'[k].eom /\ wire'[k].msg = x.buf[1].msg
  PROVE  DeliveredInv'
<1>1. \A i \in 1..Len(delivered') :
        /\ Len(delivered'[i].buf) >= 1 /\ IsWhole(delivered'[i], delivered'[i].buf[1].msg)
        /\ \E k \in 1..taken' : wire'[k].eom /\ wire'[k].msg = delivered'[i].buf[1].msg
  BY Zenon
<1> QED
  BY <1>1, Zenon DEF DeliveredInv, IsWhole

\* What went up stays whole, and the end of it stays read.
LEMMA NextDeliveredInv ==
  ASSUME LinkInv, ReceiverInv, StreamInv, DeliveredInv, [TransferNext]_transferVars
  PROVE  DeliveredInv'
<1>1. taken \in Nat /\ taken <= Len(wire) /\ Len(wire) \in Nat
  BY DEF LinkInv, WireInv, WireType
<1>2. ASSUME UNCHANGED delivered, taken' \in {taken, taken + 1},
             \A k \in 1..taken : wire'[k] = wire[k]
      PROVE  DeliveredInv'
  <2>1. \A k \in 1..taken : k \in 1..taken'
    BY <1>1, <1>2
  <2>2. ASSUME NEW i \in 1..Len(delivered), NEW x, x = delivered[i]
        PROVE  /\ Len(x.buf) >= 1 /\ IsWhole(x, x.buf[1].msg)
               /\ \E k \in 1..taken' : wire'[k].eom /\ wire'[k].msg = x.buf[1].msg
    <3>1. /\ Len(x.buf) >= 1 /\ IsWhole(x, x.buf[1].msg)
          /\ \E k \in 1..taken : wire[k].eom /\ wire[k].msg = x.buf[1].msg
      BY <2>2, Zenon DEF DeliveredInv
    <3> QED
      BY <1>2, <2>1, <3>1, Zenon
  <2>3. \A i \in 1..Len(delivered') : \A x : x = delivered'[i] =>
          /\ Len(x.buf) >= 1 /\ IsWhole(x, x.buf[1].msg)
          /\ \E k \in 1..taken' : wire'[k].eom /\ wire'[k].msg = x.buf[1].msg
    BY <1>2, <2>2, Zenon
  <2> QED
    BY <1>2, <2>3, DeliveredAfter, Zenon DEF DeliveredInv
<1>3. CASE ReceivePacket
  <2>1. /\ UNCHANGED wire /\ taken' = taken + 1 /\ taken + 1 \in 1..Len(wire)
        /\ \/ delivered' = delivered
           \/ /\ wire[taken + 1].eom
              /\ \E d \in Delivery :
                   /\ delivered' = Append(delivered, d)
                   /\ Len(d.buf) >= 1 /\ d.buf[1].msg = wire[taken + 1].msg
                   /\ IsWhole(d, wire[taken + 1].msg)
    BY <1>3, ReadDelivers, Zenon DEF DeliveredInv
  <2>2. (\A k \in 1..taken : k \in 1..(taken + 1)) /\ taken + 1 \in 1..(taken + 1)
    BY <1>1
  <2>3. CASE delivered' = delivered
    BY <1>2, <2>1, <2>3, Zenon
  <2>4. CASE delivered' # delivered
    <3>1. PICK p : p = wire[taken + 1]
      BY Zenon
    <3>2. PICK d \in Delivery :
            /\ delivered' = Append(delivered, d)
            /\ Len(d.buf) >= 1 /\ d.buf[1].msg = p.msg /\ IsWhole(d, p.msg) /\ p.eom
      BY <2>1, <2>4, <3>1, Zenon
    <3>3. PICK n : n = Len(delivered)
      BY Zenon
    <3>4. /\ n \in Nat /\ delivered' \in Seq(Delivery) /\ Len(delivered') = n + 1
          /\ delivered'[n + 1] = d /\ \A i \in 1..n : delivered'[i] = delivered[i]
      BY <3>2, <3>3 DEF DeliveredInv
    <3>5. ASSUME NEW i \in 1..(n + 1), NEW x, x = delivered'[i]
          PROVE  /\ Len(x.buf) >= 1 /\ IsWhole(x, x.buf[1].msg)
                 /\ \E k \in 1..(taken + 1) : wire[k].eom /\ wire[k].msg = x.buf[1].msg
      <4>1. CASE i \in 1..n
        BY <2>2, <3>3, <3>4, <3>5, <4>1, SMTT(30) DEF DeliveredInv
      <4>2. CASE i = n + 1
        BY <2>2, <3>1, <3>2, <3>4, <3>5, <4>2
      <4> QED
        BY <3>4, <4>1, <4>2
    <3>6. ASSUME NEW i \in 1..Len(delivered'), NEW x, x = delivered'[i]
          PROVE  /\ Len(x.buf) >= 1 /\ IsWhole(x, x.buf[1].msg)
                 /\ \E k \in 1..taken' : wire'[k].eom /\ wire'[k].msg = x.buf[1].msg
      <4>1. i \in 1..(n + 1)
        BY <3>4, Zenon
      <4>2. /\ Len(x.buf) >= 1 /\ IsWhole(x, x.buf[1].msg)
            /\ \E k \in 1..(taken + 1) : wire[k].eom /\ wire[k].msg = x.buf[1].msg
        BY <3>5, <3>6, <4>1, Zenon
      <4> QED
        BY <2>1, <4>2, Zenon
    <3> QED
      BY <3>4, <3>6, DeliveredAfter, Zenon
  <2> QED
    BY <2>3, <2>4, Zenon
<1>4. CASE SendPacket /\ TxSent
  <2>1. PICK n : n = Len(wire)
    BY Zenon
  <2>2. \A k \in 1..n : wire'[k] = wire[k]
    BY <1>4, <2>1, SentStream, Zenon
  <2>3. \A k \in 1..taken : wire'[k] = wire[k]
    BY <1>1, <2>1, <2>2
  <2> QED
    BY <1>2, <1>4, <2>3, Zenon DEF SendPacket
<1>5. CASE UNCHANGED <<wire, delivered>> /\ taken' \in {taken, taken + 1}
  BY <1>2, <1>5, Zenon
<1> QED
  BY <1>3, <1>4, <1>5, Zenon
     DEF TransferNext, transferVars, SendMessage, SendPacket, FailPacket, ToggleBinding,
         LosePacket, mctp_message_tx, TxFreed, TxTaken, TxBusy, TxError, BindingEnables,
         BindingDisables, vars, historyVars

-----------------------------------------------------------------------------
\* A whole delivery is the message it is whole of, and no other.
LEMMA WholeIsMessage ==
  ASSUME NEW G, NEW d \in Delivery, Len(d.buf) >= 1, NEW x \in G, IsWhole(d, x)
  PROVE  (IF \E m \in G : IsWhole(d, m) THEN CHOOSE m \in G : IsWhole(d, m)
                                         ELSE NoMessage) = x
<1>1. 1 \in 1..Len(d.buf)
  <2>1. Len(d.buf) \in Nat
    BY DEF Delivery
  <2> QED
    BY <2>1
<1>2. \A m \in G : IsWhole(d, m) => m = x
  BY <1>1 DEF IsWhole
<1> QED
  BY <1>2, Zenon

\* The messages that went up.
Contents == [i \in 1..Len(delivered) |-> delivered[i].buf[1].msg]

\* The refinement mapping for what was delivered.
Mapped == [i \in DOMAIN delivered |-> AsMessage(delivered[i])]

\* It gives the messages that went up.
LEMMA ContentsMapped ==
  ASSUME LinkInv, DeliveredInv
  PROVE  /\ Mapped = Contents
         /\ \A i \in 1..Len(delivered) :
              \E k \in 1..taken : wire[k].eom /\ wire[k].msg = delivered[i].buf[1].msg
<1>1. DOMAIN delivered = 1..Len(delivered) /\ taken \in 0..Len(wire) /\ Len(wire) \in Nat
  BY DEF DeliveredInv, LinkInv, WireInv, WireType
<1>2. ASSUME NEW i \in 1..Len(delivered)
      PROVE  AsMessage(delivered[i]) = delivered[i].buf[1].msg
  <2>1. PICK d \in Delivery : d = delivered[i]
    BY DEF DeliveredInv
  <2>2. PICK x : x = d.buf[1].msg
    BY Zenon
  <2>3. /\ Len(d.buf) >= 1 /\ IsWhole(d, x)
        /\ \E k \in 1..taken : wire[k].msg = x
    BY <2>1, <2>2, Zenon DEF DeliveredInv
  <2>4. x \in given
    BY <1>1, <2>3 DEF LinkInv, WireInv, OnlyGiven
  <2> QED
    BY <2>1, <2>2, <2>3, <2>4, WholeIsMessage, Zenon DEF AsMessage
<1> QED
  BY <1>1, <1>2, Zenon DEF Contents, DeliveredInv, Mapped

\* The invariant of the transfer.
TransferInv == LinkInv /\ ReceiverInv /\ StreamInv /\ OrderInv /\ DeliveredInv

\* What a step does to the messages that were sent and that went up.
LEMMA ContentsStep ==
  ASSUME TransferInv, [TransferNext]_transferVars
  PROVE  \/ Contents' = Contents /\ sent' = sent
         \/ Contents' = Contents /\ \E m \in Messages : sent' = Append(sent, m)
         \/ /\ sent' = sent
            /\ \E k \in 1..Len(sent) :
                 /\ Contents' = Append(Contents, sent[k])
                 /\ \A i \in 1..Len(delivered), j \in 1..Len(sent) :
                      Contents[i] = sent[j] => j < k
<1>1. CASE UNCHANGED delivered
  <2>1. Contents' = Contents
    BY <1>1, Zenon DEF Contents
  <2>2. sent' = sent \/ \E m \in Messages : sent' = Append(sent, m)
    BY Zenon DEF TransferNext, transferVars, SendMessage, SendPacket, FailPacket, ToggleBinding,
           ReceivePacket, LosePacket
  <2> QED
    BY <2>1, <2>2, Zenon
<1>2. CASE ReceivePacket /\ delivered' # delivered
  <2>1. PICK p : p = wire[taken + 1]
    BY Zenon
  <2>2. delivered \in Seq(Delivery) /\ taken \in Nat /\ Len(wire) \in Nat
    BY DEF TransferInv, DeliveredInv, LinkInv, WireInv, WireType
  <2>3. /\ sent' = sent /\ taken + 1 \in 1..Len(wire) /\ p.eom
        /\ \E d \in Delivery : delivered' = Append(delivered, d) /\ d.buf[1].msg = p.msg
    BY <1>2, <2>1, <2>2, ReadDelivers, Zenon DEF TransferInv
  <2>4. PICK d \in Delivery : delivered' = Append(delivered, d) /\ d.buf[1].msg = p.msg
    BY <2>3, Zenon
  <2>5. PICK k \in 1..Len(sent) : sent[k] = p.msg
    BY <2>1, <2>3, Zenon DEF TransferInv, OrderInv
  <2>6. Contents' = Append(Contents, sent[k])
    <3>1. PICK n : n = Len(delivered)
      BY Zenon
    <3>2. /\ n \in Nat /\ Len(delivered') = n + 1 /\ delivered'[n + 1] = d
          /\ \A i \in 1..n : delivered'[i] = delivered[i]
      BY <2>2, <2>4, <3>1
    <3>3. PICK C : C = Contents
      BY Zenon
    <3>4. C = [i \in 1..n |-> delivered[i].buf[1].msg]
      BY <3>1, <3>3, Zenon DEF Contents
    <3>5. C \in Seq({delivered[i].buf[1].msg : i \in 1..n}) /\ Len(C) = n
      BY <3>2, <3>4
    <3>6. Contents' = [i \in 1..(n + 1) |-> delivered'[i].buf[1].msg]
      BY <3>2, Zenon DEF Contents
    <3>7. Append(C, p.msg) = [i \in 1..(n + 1) |-> IF i = n + 1 THEN p.msg ELSE C[i]]
      BY <3>2, <3>5
    <3>8. ASSUME NEW i \in 1..(n + 1)
          PROVE  delivered'[i].buf[1].msg = IF i = n + 1 THEN p.msg ELSE C[i]
      <4>1. CASE i = n + 1
        BY <2>4, <3>2, <4>1, Zenon
      <4>2. CASE i # n + 1
        <5>1. i \in 1..n
          BY <3>2, <4>2, SMTT(30)
        <5> QED
          BY <3>2, <3>4, <4>2, <5>1, Zenon
      <4> QED
        BY <4>1, <4>2, Zenon
    <3> QED
      BY <2>5, <3>3, <3>6, <3>7, <3>8
  <2>7. ASSUME NEW i \in 1..Len(delivered), NEW j \in 1..Len(sent), Contents[i] = sent[j]
        PROVE  j < k
    <3>1. Contents[i] = delivered[i].buf[1].msg
      BY Zenon DEF Contents
    <3>2. PICK l \in 1..taken : wire[l].eom /\ wire[l].msg = sent[j]
      BY <2>7, <3>1, ContentsMapped, Zenon DEF TransferInv
    <3>3. l \in 1..Len(wire) /\ l < taken + 1
      BY <2>2, <2>3, <3>2
    <3> QED
      BY <2>1, <2>3, <2>5, <3>2, <3>3, Zenon DEF TransferInv, OrderInv
  <2> QED
    BY <2>3, <2>6, <2>7, Zenon
<1>3. ~ReceivePacket => UNCHANGED delivered
  BY Zenon DEF TransferNext, transferVars, SendMessage, SendPacket, FailPacket, ToggleBinding,
         LosePacket
<1> QED
  BY <1>1, <1>2, <1>3, Zenon

\* Such a step is a step of the channel, or leaves it alone.
LEMMA ChannelStep ==
  ASSUME TransferInv, Mapped = Contents, Mapped' = Contents', [TransferNext]_transferVars
  PROVE  [Channel!Next]_(Channel!vars)
<1>1. DOMAIN Mapped = 1..Len(delivered) /\ DOMAIN sent = 1..Len(sent)
  BY DEF Contents, TransferInv, OrderInv
<1>2. CASE Mapped' = Mapped /\ sent' = sent
  BY <1>2, Zenon DEF Mapped, Channel!vars
<1>3. ASSUME Mapped' = Mapped, NEW m \in Messages, sent' = Append(sent, m)
      PROVE  Channel!Next
  BY <1>3, Zenon DEF Mapped, Channel!Next, Channel!Send
<1>4. ASSUME sent' = sent, NEW k \in 1..Len(sent), Mapped' = Append(Mapped, sent[k]),
             \A i \in 1..Len(delivered), j \in 1..Len(sent) : Mapped[i] = sent[j] => j < k
      PROVE  Channel!Next
  <2>1. Channel!Deliver(k)
    BY <1>1, <1>4, Zenon DEF Mapped, Channel!Deliver, Channel!Undelivered
  <2> QED
    BY <1>1, <2>1, Zenon DEF Channel!Next
<1> QED
  BY <1>2, <1>3, <1>4, ContentsStep, Zenon

\* The initial states of the transfer.
LEMMA TransferInitInv == TransferInit => StreamInv /\ OrderInv /\ DeliveredInv
<1> SUFFICES ASSUME TransferInit
             PROVE  StreamInv /\ OrderInv /\ DeliveredInv
  BY Zenon
<1>1. /\ sent = <<>> /\ delivered = <<>> /\ wire = <<>> /\ given = {} /\ lost = 0 /\ taken = 0
      /\ tx_msg = NoMessage
  BY Zenon DEF TransferInit
<1>2. \A i \in 1..Ctxs : ~msg_ctxs[i].alloc
  BY FreeContext, Zenon DEF TransferInit, Rx!Init, Rx!Slots
<1>3. StreamInv
  BY <1>1, <1>2 DEF StreamInv, AllCollect, PhaseInv, Gapless, AllLive
<1>4. OrderInv
  BY <1>1 DEF OrderInv
<1>5. DeliveredInv
  BY <1>1 DEF DeliveredInv
<1> QED
  BY <1>3, <1>4, <1>5, Zenon

\* ImplementsChannel: when the link, the binding and the receiver's memory lose one
\* packet at most, whichever it is, mctp_rx gets whole messages only, in the order they
\* were taken and each at most once.  For every set of messages, payload size, number of
\* contexts and max_message_size.  (Two losses can fail: with sequence numbers of two
\* bits, packets of two messages of one tag may continue each other.)
THEOREM TransferImplementsChannel == MaxLost <= 1 => (TransferSpec => ImplementsChannel)
<1> SUFFICES ASSUME MaxLost <= 1
             PROVE  TransferSpec => ImplementsChannel
  BY Zenon
<1>1. (StreamInv /\ OrderInv /\ DeliveredInv) /\ (LinkInv /\ ReceiverInv)
        /\ [TransferNext]_transferVars => (StreamInv /\ OrderInv /\ DeliveredInv)'
  BY NextStreamInv, NextOrderInv, NextDeliveredInv, Zenon
<1>2. (StreamInv /\ OrderInv /\ DeliveredInv) /\ (LinkInv /\ ReceiverInv)
        => TransferInv /\ Mapped = Contents
  BY ContentsMapped, Zenon DEF TransferInv
<1>3. TransferInv /\ Mapped = Contents /\ (Mapped = Contents)' /\ [TransferNext]_transferVars
        => [Channel!Next]_(Channel!vars)
  BY ChannelStep, Zenon
<1>4. TransferInit => Channel!Init
  <2> SUFFICES ASSUME TransferInit
               PROVE  Channel!Init
    BY Zenon
  <2>1. sent = <<>> /\ delivered = <<>>
    BY Zenon DEF TransferInit
  <2>2. DOMAIN delivered = {}
    BY <2>1
  <2>3. [i \in DOMAIN delivered |-> AsMessage(delivered[i])] = <<>>
    BY <2>2
  <2> QED
    BY <2>1, <2>3, Zenon DEF Channel!Init
<1>5. TransferSpec => TransferInit /\ [][TransferNext]_transferVars
  BY Zenon DEF TransferSpec
<1> QED
  BY <1>1, <1>2, <1>3, <1>4, <1>5, LinkInvariant, TransferInitInv, PTL DEF ImplementsChannel
=============================================================================
