----------------------------- MODULE MmbiStream -----------------------------
(***************************************************************************)
(* The MMBI binding over the driver: mctp_mmbi_tx writes whole packets,    *)
(* mctp_mmbi_poll of the other end reads, and between them is a ring of    *)
(* the driver, which is a byte queue (BoundedFifo, which MmbiDriver        *)
(* implements) and knows nothing of packets.  A write may be accepted in   *)
(* part, and is then repeated from the packet's first byte; a read takes   *)
(* what there is.  A byte is named by its packet and its place in it.      *)
(***************************************************************************)
EXTENDS Naturals, Sequences

CONSTANTS
  Sizes,        \* the sizes of the packets the sender sends, one after another
  RingSize,     \* RING_BUFFER_SIZE
  PktSize,      \* pkt_size of the binding
  HdrSize,      \* what mctp_mmbi_poll adds to it, 4
  MaxAttempts   \* retries in mctp_mmbi_tx, 3

ASSUME StreamAssumption ==
  /\ Sizes \in Seq(1 .. PktSize)
  /\ PktSize \in 1 .. RingSize
  /\ RingSize \in Nat /\ HdrSize \in 1 .. PktSize - 1 /\ MaxAttempts \in Nat \ {0}

VARIABLES
  queue,        \* the ring
  result,       \* of the sender's last WriteFile
  data,         \* what the receiver's last ReadFile returned
  retries,      \* left to the call of mctp_mmbi_tx
  outcome,      \* of each call of mctp_mmbi_tx that has returned
  handed,       \* the packets given to mctp_bus_rx
  stream        \* the bytes the driver has accepted (history)

vars == <<queue, result, data, retries, outcome, handed, stream>>

Fifo == INSTANCE BoundedFifo WITH Capacity <- RingSize, Writes <- {}, Lengths <- {}

Bytes(p) == [k \in 1 .. Sizes[p] |-> <<p, k>>]

-----------------------------------------------------------------------------
\* (Faulty variant for mutation checks: the number of bytes written is not looked at.)
AcceptPart(p) == result'.status = "SUCCESS"

\* (Faulty variant: the number is compared with what a read asks for.)
AcceptMore(p) == result'.status = "SUCCESS" /\ result'.bytes = Sizes[p] + HdrSize

\* res && bytesWritten == len: WriteFile fails on STATUS_DEVICE_BUSY.
Accepted(p) == result'.status = "SUCCESS" /\ result'.bytes = Sizes[p]

\* One pass of the loop in mctp_mmbi_tx; the first is the call, the last the return.
mctp_mmbi_tx ==
  LET p == Len(outcome) + 1 IN
  /\ p <= Len(Sizes)
  /\ Fifo!Write(Bytes(p))
  /\ stream' = stream \o SubSeq(Bytes(p), 1, result'.bytes)
  /\ \/ /\ Accepted(p)
        /\ outcome' = Append(outcome, "sent") /\ retries' = MaxAttempts
     \/ /\ ~Accepted(p) /\ retries = 1
        /\ outcome' = Append(outcome, "EIO") /\ retries' = MaxAttempts
     \/ /\ ~Accepted(p) /\ retries > 1
        /\ retries' = retries - 1 /\ UNCHANGED outcome
  /\ UNCHANGED handed

\* (Faulty variant: the header is taken to be part of pkt_size twice.)
ReadBody == PktSize - HdrSize

\* max_to_read
ReadLength == PktSize + HdrSize

\* A packet buffer holds pkt_size bytes: the binding's header and trailer are empty.
mctp_pktbuf_alloc(len) == len <= PktSize

\* PeekNamedPipe fails on the driver, so that every poll reads.  A read that finds the
\* ring empty changes nothing; what it reads is lost when there is no packet buffer for
\* it: it is too long, or there is no memory.
mctp_mmbi_poll ==
  /\ queue # <<>>
  /\ Fifo!Read(ReadLength)
  /\ \/ mctp_pktbuf_alloc(Len(data')) /\ handed' = Append(handed, data')
     \/ UNCHANGED handed
  /\ UNCHANGED <<retries, outcome, stream>>

Init ==
  /\ Fifo!Init
  /\ retries = MaxAttempts
  /\ outcome = <<>> /\ handed = <<>> /\ stream = <<>>

Next == mctp_mmbi_tx \/ mctp_mmbi_poll

Spec == Init /\ [][Next]_vars

-----------------------------------------------------------------------------
Holds(s, p) == \E i \in 0 .. Len(s) - Sizes[p] : SubSeq(s, i + 1, i + Sizes[p]) = Bytes(p)

\* mctp_mmbi_tx tells the truth: it returns 0 if and only if the packet is in the
\* byte stream in one piece, whatever parts of it earlier attempts have left there;
\* after -EIO there are at most such parts.
OutcomeIsTrue ==
  \A p \in DOMAIN outcome : (outcome[p] = "sent") <=> Holds(stream, p)

\* Two polls never hand mctp_bus_rx the same packet, or a packet before one sent
\* earlier, in whatever pieces the reads cut the stream and however often an attempt
\* was repeated; and none that was reported -EIO reaches it in one piece, so that its
\* sender may send it again.
HandedOnce ==
  \A i \in DOMAIN handed, p \in DOMAIN Sizes :
    Holds(handed[i], p) =>
      /\ p \in DOMAIN outcome /\ outcome[p] = "sent"
      /\ \A j \in DOMAIN handed, q \in DOMAIN Sizes : i < j /\ Holds(handed[j], q) => p < q

\* "Read exactly one packet at a time to prevent merging" (mmbi.c:196): a poll hands up
\* just one packet if and only if that packet was all the ring held.  (It asks for more
\* than a packet, and the driver knows no boundaries: packets that are sent without
\* waiting for the reader go up merged or cut, or are too long and lost.)
WholeIfAlone ==
  [][handed' # handed =>
       \A p \in DOMAIN Sizes :
         (handed' = Append(handed, Bytes(p))) <=> (queue = Bytes(p))]_vars
=============================================================================
