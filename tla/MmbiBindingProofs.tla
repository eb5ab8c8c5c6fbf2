-------------------------- MODULE MmbiBindingProofs --------------------------
(***************************************************************************)
(* Proofs about the MMBI binding.  The first part is about MmbiContext,    *)
(* the life of contexts, for any number of contexts, of attempts and of    *)
(* instances of the device.  The second is about MmbiStream, the binding   *)
(* over the driver, for packets and rings of any size and any number of    *)
(* attempts.  The third is about MmbiPipe, for messages of any number of   *)
(* packets, pipes of any size, any number of sends and of answers, and     *)
(* processes that may exit at any time.                                    *)
(***************************************************************************)
EXTENDS MmbiContext, MmbiStream, MmbiPipe, SequenceTheorems, TLAPS

Kinds == Structs \cup {"reassembly", "message", "tx_storage", "packet"}

ContextTypes ==
  /\ phase \in [Contexts -> {"none", "opening", "ready", "null", "destroyed"}]
  /\ api \in [Contexts -> Apis]
  /\ device_handle \in [Contexts -> BOOLEAN] /\ handles \in [Contexts -> Nat]
  /\ packets \in [Contexts -> Nat]
  /\ heap \in [Contexts -> SUBSET (Kinds \X Nat)]

\* What a context has besides a message in reassembly and a pending one.
Fixed(c) == heap[c] \ Blocks({"reassembly", "message"})

\* While an init function runs, a context has its structures and nothing else, and
\* mmbi->device_handle is set exactly if some attempt has opened the device.
Halfway(c) ==
  /\ phase[c] \in {"none", "null"} => heap[c] = {}
  /\ phase[c] = "none" => handles[c] = 0
  /\ phase[c] = "opening" => heap[c] = Blocks(Structs)
  /\ phase[c] \in {"none", "opening"} => packets[c] = 0
  /\ device_handle[c] <=> handles[c] > 0

\* A context that is ready has its structures, packet storage and the buffers of all
\* packets so far.
Usable(c) ==
  phase[c] = "ready" =>
    /\ device_handle[c]
    /\ Fixed(c) = Blocks(Structs \cup {"tx_storage"}) \cup PacketBuffers(1 .. packets[c])

\* What is left, of one context.
Left(c) ==
  /\ phase[c] = "null" /\ handles[c] > 0 => api[c] = "transport"
  /\ phase[c] = "destroyed" =>
       /\ heap[c] \ Blocks({"message"}) =
            Blocks({"tx_storage"}) \cup PacketBuffers(1 .. packets[c])
       /\ device_handle[c]

\* The inductive invariant.
ContextInv == ContextTypes /\ \A c \in Contexts : Halfway(c) /\ Usable(c) /\ Left(c)

-----------------------------------------------------------------------------
\* A context that a step does not touch keeps its part of the invariant.
LEMMA Untouched ==
  ASSUME NEW c \in Contexts, Halfway(c) /\ Usable(c) /\ Left(c),
         phase'[c] = phase[c], api'[c] = api[c], device_handle'[c] = device_handle[c],
         handles'[c] = handles[c], heap'[c] = heap[c], packets'[c] = packets[c]
  PROVE  Halfway(c)' /\ Usable(c)' /\ Left(c)'
BY Zenon DEF Halfway, Usable, Left, Fixed

\* An init function begins: its three structures exist, or it returns NULL and
\* none does.
LEMMA BeginPreserves ==
  ASSUME ContextInv, NEW c \in Contexts, Begin(c)
  PROVE  ContextInv'
<1>1. phase[c] = "none" /\ UNCHANGED <<api, device_handle, handles, packets>>
  BY Zenon DEF Begin
<1>2. \/ phase' = [phase EXCEPT ![c] = "null"] /\ heap' = heap
      \/ /\ phase' = [phase EXCEPT ![c] = "opening"]
         /\ heap' = [heap EXCEPT ![c] = Blocks(Structs)]
  BY Zenon DEF Begin
<1>3. Blocks(Structs) \in SUBSET (Kinds \X Nat)
  BY DEF Blocks, Kinds
<1>4. ContextTypes'
  BY <1>1, <1>2, <1>3, Zenon DEF ContextInv, ContextTypes
<1>5. \A d \in Contexts : d # c => phase'[d] = phase[d] /\ heap'[d] = heap[d]
  BY <1>2, Zenon DEF ContextInv, ContextTypes
<1>6. heap[c] = {} /\ handles[c] = 0 /\ ~device_handle[c] /\ packets[c] = 0
  BY <1>1 DEF ContextInv, Halfway
<1>7. \/ phase'[c] = "null" /\ heap'[c] = {}
      \/ phase'[c] = "opening" /\ heap'[c] = Blocks(Structs)
  BY <1>2, <1>6, Zenon DEF ContextInv, ContextTypes
<1>8. Halfway(c)' /\ Usable(c)' /\ Left(c)'
  BY <1>1, <1>6, <1>7 DEF Halfway, Usable, Left
<1>9. \A d \in Contexts : d # c => Halfway(d)' /\ Usable(d)' /\ Left(d)'
  BY <1>1, <1>5, Untouched, Zenon DEF ContextInv
<1> QED
  BY <1>4, <1>8, <1>9, Zenon DEF ContextInv

\* What an attempt to open the device changes.
LEMMA OpenFacts ==
  ASSUME ContextInv, NEW c \in Contexts, NEW rc \in {"ok", "ENOMEM", "error"},
         OpenFails(rc) \/ Opens(c, rc)
  PROVE  /\ device_handle' \in [Contexts -> BOOLEAN] /\ handles' \in [Contexts -> Nat]
         /\ \A d \in Contexts : d # c => /\ device_handle'[d] = device_handle[d]
                                         /\ handles'[d] = handles[d]
         /\ device_handle'[c] <=> handles'[c] > 0
         /\ rc = "ok" => device_handle'[c]
<1>1. /\ device_handle \in [Contexts -> BOOLEAN] /\ handles \in [Contexts -> Nat]
      /\ device_handle[c] <=> handles[c] > 0
  BY Zenon DEF ContextInv, ContextTypes, Halfway
<1>2. CASE OpenFails(rc)
  BY <1>1, <1>2, Zenon DEF OpenFails
<1>3. CASE Opens(c, rc)
  <2>1. handles' = [handles EXCEPT ![c] = @ + 1]
    BY <1>3, Zenon DEF Opens
  <2>2. handles' \in [Contexts -> Nat] /\ handles'[c] > 0
        /\ \A d \in Contexts : d # c => handles'[d] = handles[d]
    BY <1>1, <2>1
  <2>3. device_handle' = [device_handle EXCEPT ![c] = TRUE]
    BY <1>3, Zenon DEF Opens
  <2>4. device_handle' \in [Contexts -> BOOLEAN] /\ device_handle'[c]
        /\ \A d \in Contexts : d # c => device_handle'[d] = device_handle[d]
    BY <1>1, <2>3, Zenon
  <2> QED
    BY <2>2, <2>4, Zenon
<1> QED
  BY <1>2, <1>3, Zenon

\* An attempt to open the device that does not end the init function.
LEMMA AttemptPreserves ==
  ASSUME ContextInv, NEW c \in Contexts, NEW rc \in {"ok", "ENOMEM", "error"},
         OpenFails(rc) \/ Opens(c, rc), UNCHANGED <<api, phase, heap, packets>>,
         phase[c] = "opening"
  PROVE  ContextInv'
<1>1. /\ device_handle' \in [Contexts -> BOOLEAN] /\ handles' \in [Contexts -> Nat]
      /\ \A d \in Contexts : d # c => /\ device_handle'[d] = device_handle[d]
                                      /\ handles'[d] = handles[d]
      /\ device_handle'[c] <=> handles'[c] > 0
  BY OpenFacts, Zenon
<1>2. ContextTypes'
  BY <1>1, Zenon DEF ContextInv, ContextTypes
<1>3. Halfway(c)' /\ Usable(c)' /\ Left(c)'
  BY <1>1, Zenon DEF ContextInv, Halfway, Usable, Left
<1>4. \A d \in Contexts : d # c => Halfway(d)' /\ Usable(d)' /\ Left(d)'
  BY <1>1, Untouched, Zenon DEF ContextInv
<1> QED
  BY <1>2, <1>3, <1>4, Zenon DEF ContextInv

\* The attempt that does.
LEMMA FinishPreserves ==
  ASSUME ContextInv, NEW c \in Contexts, NEW rc \in {"ok", "ENOMEM", "error"},
         OpenFails(rc) \/ Opens(c, rc), UNCHANGED <<api, packets>>, phase[c] = "opening",
         Finish(c, rc)
  PROVE  ContextInv'
<1>1. /\ device_handle' \in [Contexts -> BOOLEAN] /\ handles' \in [Contexts -> Nat]
      /\ \A d \in Contexts : d # c => /\ device_handle'[d] = device_handle[d]
                                      /\ handles'[d] = handles[d]
      /\ device_handle'[c] <=> handles'[c] > 0
      /\ rc = "ok" => device_handle'[c]
  BY OpenFacts, Zenon
<1>2. heap[c] = Blocks(Structs) /\ packets[c] = 0 /\ api[c] \in {"mmbi", "transport"}
  BY Zenon DEF ContextInv, ContextTypes, Halfway, Apis
<1>3. CASE /\ phase' = [phase EXCEPT ![c] = "null"] /\ heap' = FreeContext(c)
           /\ Failed(c, rc)
  <2>1. PICK left : left = heap[c] \ Blocks(Structs \cup {"reassembly"})
    OBVIOUS
  <2>2. left = {}
    BY <1>2, <2>1 DEF Blocks
  <2>3. heap' = [heap EXCEPT ![c] = {}]
    BY <1>3, <2>1, <2>2, Zenon DEF FreeContext
  <2>4. /\ ContextTypes' /\ phase'[c] = "null" /\ heap'[c] = {}
        /\ \A d \in Contexts : d # c => phase'[d] = phase[d] /\ heap'[d] = heap[d]
    BY <1>1, <1>3, <2>3, Zenon DEF ContextInv, ContextTypes
  <2>5. Halfway(c)' /\ Usable(c)' /\ Left(c)'
    BY <1>1, <1>2, <1>3, <2>4, Zenon DEF Failed, Halfway, Usable, Left
  <2>6. \A d \in Contexts : d # c => Halfway(d)' /\ Usable(d)' /\ Left(d)'
    BY <1>1, <2>4, Untouched, Zenon DEF ContextInv
  <2> QED
    BY <2>4, <2>5, <2>6, Zenon DEF ContextInv
<1>4. CASE /\ phase' = [phase EXCEPT ![c] = "ready"] /\ rc = "ok"
           /\ heap' = Allocate(c, Blocks({"tx_storage"}))
  <2>1. PICK all : all = Blocks(Structs \cup {"tx_storage"}) \cup PacketBuffers(1..packets[c])
    OBVIOUS
  <2>2. /\ all = heap[c] \cup Blocks({"tx_storage"}) /\ all \in SUBSET (Kinds \X Nat)
        /\ all \ Blocks({"reassembly", "message"}) = all
    BY <1>2, <2>1 DEF Blocks, PacketBuffers, Kinds, Structs
  <2>3. heap' = [heap EXCEPT ![c] = all]
    BY <1>4, <2>2, Zenon DEF Allocate
  <2>4. /\ ContextTypes' /\ phase'[c] = "ready" /\ heap'[c] = all
        /\ \A d \in Contexts : d # c => phase'[d] = phase[d] /\ heap'[d] = heap[d]
    BY <1>1, <1>4, <2>2, <2>3, Zenon DEF ContextInv, ContextTypes
  <2>5. Fixed(c)' = all
    BY <2>2, <2>4, Zenon DEF Fixed
  <2>6. Halfway(c)' /\ Usable(c)' /\ Left(c)'
    BY <1>1, <1>4, <2>1, <2>4, <2>5, Zenon DEF Halfway, Usable, Left
  <2>7. \A d \in Contexts : d # c => Halfway(d)' /\ Usable(d)' /\ Left(d)'
    BY <1>1, <2>4, Untouched, Zenon DEF ContextInv
  <2> QED
    BY <2>4, <2>6, <2>7, Zenon DEF ContextInv
<1>5. CASE UNCHANGED <<phase, heap>>
  BY <1>5, AttemptPreserves, Zenon
<1> QED
  BY <1>3, <1>4, <1>5, Zenon DEF Finish

\* A send or a poll of a context that is ready: it keeps its structures and storage,
\* and the buffers of all packets.
LEMMA WorkPreserves ==
  ASSUME ContextInv, NEW c \in Contexts, phase[c] = "ready",
         UNCHANGED <<phase, api, device_handle, handles>>,
         NEW n \in Nat, packets' = [packets EXCEPT ![c] = n],
         NEW blocks \in SUBSET (Kinds \X Nat), heap' = [heap EXCEPT ![c] = blocks],
         blocks \ Blocks({"reassembly", "message"}) =
           Blocks(Structs \cup {"tx_storage"}) \cup PacketBuffers(1..n)
  PROVE  ContextInv'
<1>1. /\ ContextTypes' /\ heap'[c] = blocks /\ packets'[c] = n
      /\ \A d \in Contexts : d # c => heap'[d] = heap[d] /\ packets'[d] = packets[d]
  BY Zenon DEF ContextInv, ContextTypes
<1>2. Halfway(c)' /\ Usable(c)' /\ Left(c)'
  BY <1>1, Zenon DEF ContextInv, Halfway, Usable, Left, Fixed
<1>3. \A d \in Contexts : d # c => Halfway(d)' /\ Usable(d)' /\ Left(d)'
  BY <1>1, Untouched, Zenon DEF ContextInv
<1> QED
  BY <1>1, <1>2, <1>3, Zenon DEF ContextInv

\* A send leaves at most a pending message.
LEMMA SendKeeps ==
  ASSUME ContextInv, NEW c \in Contexts, Send(c)
  PROVE  ContextInv'
<1>1. PICK blocks : blocks = heap[c] \cup Blocks({"message"})
  OBVIOUS
<1>2. heap[c] \in SUBSET (Kinds \X Nat) /\ packets[c] \in Nat
  BY Zenon DEF ContextInv, ContextTypes
<1>3. /\ blocks \in SUBSET (Kinds \X Nat)
      /\ blocks \ Blocks({"reassembly", "message"}) = Fixed(c)
  BY <1>1, <1>2 DEF Blocks, Fixed, Kinds
<1>4. Fixed(c) = Blocks(Structs \cup {"tx_storage"}) \cup PacketBuffers(1..packets[c])
  BY Zenon DEF Send, ContextInv, Usable
<1>5. packets' = [packets EXCEPT ![c] = packets[c]]
  BY Zenon DEF Send, ContextInv, ContextTypes
<1>6. heap' = [heap EXCEPT ![c] = blocks]
  BY <1>1, Zenon DEF Send, Allocate
<1> QED
  BY <1>2, <1>3, <1>4, <1>5, <1>6, WorkPreserves, Zenon DEF Send

\* A poll leaves one more packet buffer.
LEMMA PollKeeps ==
  ASSUME ContextInv, NEW c \in Contexts, Poll(c)
  PROVE  ContextInv'
<1>1. PICK kept \in {heap[c], heap[c] \cup Blocks({"reassembly"}),
                    heap[c] \ Blocks({"reassembly"})} :
        heap' = [heap EXCEPT ![c] = kept \cup PacketBuffers({packets[c] + 1})]
  BY Zenon DEF Poll
<1>2. heap[c] \in SUBSET (Kinds \X Nat) /\ packets[c] \in Nat /\ packets[c] + 1 \in Nat
  BY DEF ContextInv, ContextTypes
<1>3. PICK blocks : blocks = kept \cup PacketBuffers({packets[c] + 1})
  OBVIOUS
<1>4. kept \ Blocks({"reassembly", "message"}) = Fixed(c) /\ kept \in SUBSET (Kinds \X Nat)
  BY <1>1, <1>2 DEF Blocks, Fixed, Kinds
<1>5. PacketBuffers({packets[c] + 1}) \ Blocks({"reassembly", "message"})
        = PacketBuffers({packets[c] + 1})
  BY DEF Blocks, PacketBuffers
<1>6. blocks \ Blocks({"reassembly", "message"}) = Fixed(c) \cup PacketBuffers({packets[c] + 1})
  BY <1>3, <1>4, <1>5, Zenon
<1>7. Fixed(c) = Blocks(Structs \cup {"tx_storage"}) \cup PacketBuffers(1..packets[c])
  BY Zenon DEF Poll, ContextInv, Usable
<1>8. PacketBuffers(1..(packets[c] + 1)) = PacketBuffers(1..packets[c]) \cup PacketBuffers({packets[c] + 1})
  <2>1. 1..(packets[c] + 1) = (1..packets[c]) \cup {packets[c] + 1}
    BY <1>2
  <2> QED
    BY <2>1, Zenon DEF PacketBuffers
<1>9. blocks \in SUBSET (Kinds \X Nat)
  BY <1>2, <1>3, <1>4 DEF PacketBuffers, Kinds
<1>10. blocks \ Blocks({"reassembly", "message"})
         = Blocks(Structs \cup {"tx_storage"}) \cup PacketBuffers(1..(packets[c] + 1))
  BY <1>6, <1>7, <1>8, Zenon
<1>11. packets' = [packets EXCEPT ![c] = packets[c] + 1] /\ heap' = [heap EXCEPT ![c] = blocks]
  BY <1>1, <1>3, Zenon DEF Poll
<1> QED
  BY <1>2, <1>9, <1>10, <1>11, WorkPreserves, Zenon DEF Poll

\* A destroyed context leaves its packet storage, its packet buffers and at most a
\* pending message.
LEMMA DestroyPreserves ==
  ASSUME ContextInv, NEW c \in Contexts, Destroy(c)
  PROVE  ContextInv'
<1>1. /\ phase[c] = "ready" /\ phase' = [phase EXCEPT ![c] = "destroyed"]
      /\ UNCHANGED <<api, device_handle, handles, packets>>
  BY Zenon DEF Destroy
<1>2. PICK left : left = heap[c] \ Blocks(Structs \cup {"reassembly"})
  OBVIOUS
<1>3. heap' = [heap EXCEPT ![c] = left]
  BY <1>2, Zenon DEF Destroy, FreeContext
<1>4. heap[c] \in SUBSET (Kinds \X Nat) /\ left \in SUBSET (Kinds \X Nat)
  BY <1>2, Zenon DEF ContextInv, ContextTypes
<1>5. /\ ContextTypes' /\ phase'[c] = "destroyed" /\ heap'[c] = left
      /\ \A d \in Contexts : d # c => phase'[d] = phase[d] /\ heap'[d] = heap[d]
  BY <1>1, <1>3, <1>4, Zenon DEF ContextInv, ContextTypes
<1>6. left \ Blocks({"message"}) =
        Blocks({"tx_storage"}) \cup PacketBuffers(1..packets[c])
  <2>1. Fixed(c) = Blocks(Structs \cup {"tx_storage"}) \cup PacketBuffers(1..packets[c])
    BY <1>1, Zenon DEF ContextInv, Usable
  <2>2. left \ Blocks({"message"}) = Fixed(c) \ Blocks(Structs)
    BY <1>2 DEF Fixed, Blocks
  <2>3. PacketBuffers(1..packets[c]) \ Blocks(Structs) = PacketBuffers(1..packets[c])
    BY DEF PacketBuffers, Blocks, Structs
  <2>4. Blocks(Structs \cup {"tx_storage"}) \ Blocks(Structs) = Blocks({"tx_storage"})
    BY DEF Blocks, Structs
  <2> QED
    BY <2>1, <2>2, <2>3, <2>4, Zenon
<1>7. Halfway(c)' /\ Usable(c)' /\ Left(c)'
  BY <1>1, <1>5, <1>6, Zenon DEF ContextInv, Halfway, Usable, Left
<1>8. \A d \in Contexts : d # c => Halfway(d)' /\ Usable(d)' /\ Left(d)'
  BY <1>1, <1>5, Untouched, Zenon DEF ContextInv
<1> QED
  BY <1>5, <1>7, <1>8, Zenon DEF ContextInv

-----------------------------------------------------------------------------
\* Every step preserves the invariant.
LEMMA NextContextInv == ContextInv /\ [ContextNext]_contextVars => ContextInv'
<1> SUFFICES ASSUME ContextInv, [ContextNext]_contextVars
             PROVE  ContextInv'
  BY Zenon
<1>1. ASSUME NEW c \in Contexts, mctp_mmbi_init_device(c)
      PROVE  ContextInv'
  BY <1>1, AttemptPreserves, FinishPreserves, Zenon DEF mctp_mmbi_init_device
<1>2. CASE Offer \/ UNCHANGED contextVars
  <2>1. UNCHANGED <<phase, api, device_handle, handles, heap, packets>>
    BY <1>2, Zenon DEF Offer, contextVars
  <2> QED
    BY <2>1, Untouched, Zenon DEF ContextInv, ContextTypes
<1> QED
  BY <1>1, <1>2, BeginPreserves, SendKeeps, PollKeeps, DestroyPreserves, Zenon DEF ContextNext

\* The invariant holds in every state.
LEMMA ContextInvariant == ContextSpec => []ContextInv
<1>1. ContextInit => ContextInv
  <2> SUFFICES ASSUME ContextInit PROVE ContextInv
    BY Zenon
  <2>1. ContextTypes
    BY DEF ContextInit, ContextTypes
  <2>2. ASSUME NEW c \in Contexts
        PROVE  /\ phase[c] = "none" /\ handles[c] = 0 /\ ~device_handle[c]
               /\ heap[c] = {} /\ packets[c] = 0
    BY Zenon DEF ContextInit
  <2> QED
    BY <2>1, <2>2 DEF ContextInv, Halfway, Usable, Left
<1> QED
  BY <1>1, NextContextInv, PTL DEF ContextSpec

\* Whatever fails and however often the device is tried, a context an init function
\* returns has its structures, its packet storage and an open device.
THEOREM ReadyContextsWork == ContextSpec => []ReadyIsUsable
<1>1. ContextInv => ReadyIsUsable
  BY Zenon DEF ContextInv, Halfway, Usable, Fixed, ReadyIsUsable
<1> QED
  BY <1>1, ContextInvariant, PTL

\* The blocks and handles that outlive a context, or a failed init function, are the
\* ones the property names: all of them, and no others.
THEOREM LeftBehind == ContextSpec => []OnlyTheseAreLeft
<1>1. ContextInv => OnlyTheseAreLeft
  BY Zenon DEF ContextInv, Halfway, Left, OnlyTheseAreLeft
<1> QED
  BY <1>1, ContextInvariant, PTL

-----------------------------------------------------------------------------
Byte == Nat \X Nat

\* Types; the ring never holds more than it can.
StreamTypes ==
  /\ queue \in Seq(Byte) /\ Len(queue) <= RingSize
  /\ stream \in Seq(Byte)
  /\ retries \in 1..MaxAttempts
  /\ outcome \in Seq({"sent", "EIO"}) /\ Len(outcome) <= Len(Sizes)
  /\ handed \in Seq(Seq(Byte))

\* A packet that was reported sent is in the stream, and the last byte of a packet
\* is there for no other reason: an attempt that is repeated has left a part that
\* stops before it.
SentIsThere == \A p \in 1..Len(outcome) : outcome[p] = "sent" => Holds(stream, p)
EndIsSent ==
  \A i \in 1..Len(stream), p \in 1..Len(Sizes) :
    stream[i] = <<p, Sizes[p]>> => p <= Len(outcome) /\ outcome[p] = "sent"

\* The last byte of packet p is in s.
HasEnd(s, p) == \E k \in 1..Len(s) : s[k] = <<p, Sizes[p]>>

\* The last bytes that are in the ring are of packets reported sent, in their order,
RingEnds ==
  /\ \A p \in 1..Len(Sizes) : HasEnd(queue, p) => p <= Len(outcome) /\ outcome[p] = "sent"
  /\ \A k, l \in 1..Len(queue), p, q \in 1..Len(Sizes) :
       k < l /\ queue[k] = <<p, Sizes[p]>> /\ queue[l] = <<q, Sizes[q]>> => p < q

\* and so are those that were handed up, all before those in the ring.
HandedEnds ==
  /\ \A i \in 1..Len(handed), p \in 1..Len(Sizes) :
       HasEnd(handed[i], p) => /\ p <= Len(outcome) /\ outcome[p] = "sent"
                             /\ \A q \in 1..Len(Sizes) : HasEnd(queue, q) => p < q
  /\ \A i, j \in 1..Len(handed), p, q \in 1..Len(Sizes) :
       i < j /\ HasEnd(handed[i], p) /\ HasEnd(handed[j], q) => p < q

StreamInv == StreamTypes /\ SentIsThere /\ EndIsSent /\ RingEnds /\ HandedEnds

-----------------------------------------------------------------------------
\* The bytes of a packet.
LEMMA BytesFacts ==
  ASSUME NEW p \in 1..Len(Sizes)
  PROVE  /\ Sizes[p] \in 1..PktSize /\ Sizes[p] \in Nat \ {0} /\ Sizes[p] <= RingSize
         /\ Bytes(p) \in Seq(Byte) /\ Len(Bytes(p)) = Sizes[p] /\ Bytes(p) # <<>>
         /\ \A k \in 1..Sizes[p] : Bytes(p)[k] = <<p, k>>
<1>1. Sizes[p] \in 1..PktSize /\ PktSize \in Nat /\ RingSize \in Nat /\ PktSize <= RingSize
  BY StreamAssumption
<1>2. PICK n : n = Sizes[p]
  BY Zenon
<1>3. n \in Nat \ {0} /\ p \in Nat
  BY <1>1, <1>2
<1>4. Bytes(p) = [k \in 1..n |-> <<p, k>>]
  BY <1>2, Zenon DEF Bytes
<1>5. Bytes(p) \in Seq(Byte) /\ Len(Bytes(p)) = n
  BY <1>3, <1>4 DEF Byte
<1>6. \A k \in 1..n : Bytes(p)[k] = <<p, k>>
  BY <1>4, Zenon
<1>7. Bytes(p) # <<>>
  BY <1>3, <1>5, Zenon
<1> QED
  BY <1>1, <1>2, <1>3, <1>5, <1>6, <1>7

\* What the front of a sequence has where.
LEMMA FrontFacts ==
  ASSUME NEW S, NEW s \in Seq(S), NEW n \in 0..Len(s)
  PROVE  /\ SubSeq(s, 1, n) \in Seq(S) /\ Len(SubSeq(s, 1, n)) = n
         /\ \A k \in 1..n : SubSeq(s, 1, n)[k] = s[k]
OBVIOUS

\* What a sequence behind another has where.
LEMMA ConcatFacts ==
  ASSUME NEW S, NEW s \in Seq(S), NEW t \in Seq(S)
  PROVE  /\ s \o t \in Seq(S) /\ Len(s \o t) = Len(s) + Len(t)
         /\ \A k \in 1..Len(s) : (s \o t)[k] = s[k]
         /\ \A k \in 1..Len(t) : (s \o t)[Len(s) + k] = t[k]
OBVIOUS

\* What a piece of a sequence has where.
LEMMA SubSeqFacts ==
  ASSUME NEW S, NEW s \in Seq(S), NEW a \in Nat, NEW n \in Nat, a + n <= Len(s)
  PROVE  /\ SubSeq(s, a + 1, a + n) \in Seq(S)
         /\ Len(SubSeq(s, a + 1, a + n)) = n
         /\ \A k \in 1..n : SubSeq(s, a + 1, a + n)[k] = s[a + k]
OBVIOUS

\* Two sequences of one length with the same elements are equal.
LEMMA SameSeq ==
  ASSUME NEW S, NEW s \in Seq(S), NEW t \in Seq(S), Len(s) = Len(t),
         \A k \in 1..Len(s) : s[k] = t[k]
  PROVE  s = t
OBVIOUS

-----------------------------------------------------------------------------
\* Holds, byte by byte.
LEMMA HoldsMeans ==
  ASSUME NEW s \in Seq(Byte), NEW p \in 1..Len(Sizes)
  PROVE  Holds(s, p) <=> \E i \in 0..Len(s) : /\ i + Sizes[p] <= Len(s)
                                              /\ \A k \in 1..Sizes[p] : s[i + k] = <<p, k>>
<1>1. PICK n : n = Sizes[p]
  BY Zenon
<1>2. /\ n \in Nat \ {0} /\ Bytes(p) \in Seq(Byte) /\ Len(Bytes(p)) = n
      /\ \A k \in 1..n : Bytes(p)[k] = <<p, k>>
  BY <1>1, BytesFacts, Zenon
<1>3. ASSUME NEW i \in Nat, i + n <= Len(s)
      PROVE  SubSeq(s, i + 1, i + n) = Bytes(p) <=> \A k \in 1..n : s[i + k] = <<p, k>>
  <2>1. PICK t : t = SubSeq(s, i + 1, i + n)
    BY Zenon
  <2>2. t \in Seq(Byte) /\ Len(t) = n /\ \A k \in 1..n : t[k] = s[i + k]
    BY <1>2, <1>3, <2>1, SubSeqFacts
  <2>3. t = Bytes(p) <=> \A k \in 1..n : t[k] = Bytes(p)[k]
    BY <1>2, <2>2, SameSeq, Zenon
  <2> QED
    BY <1>2, <2>1, <2>2, <2>3
<1>4. \A i : i \in 0..(Len(s) - n) <=> i \in 0..Len(s) /\ i + n <= Len(s)
  BY <1>2
<1>5. Holds(s, p) <=> \E i \in 0..(Len(s) - n) : SubSeq(s, i + 1, i + n) = Bytes(p)
  BY <1>1, Zenon DEF Holds
<1>6. \A i \in 0..(Len(s) - n) :
        SubSeq(s, i + 1, i + n) = Bytes(p) <=> \A k \in 1..n : s[i + k] = <<p, k>>
  <2>1. ASSUME NEW i \in 0..(Len(s) - n)
        PROVE  i \in Nat /\ i + n <= Len(s)
    BY <1>2
  <2> QED
    BY <1>3, <2>1, Zenon
<1>7. Holds(s, p) <=> \E i \in 0..(Len(s) - n) : \A k \in 1..n : s[i + k] = <<p, k>>
  BY <1>5, <1>6, Zenon
<1> QED
  BY <1>1, <1>4, <1>7, Zenon

\* What is in the stream stays there.
LEMMA HoldsStays ==
  ASSUME NEW s \in Seq(Byte), NEW t \in Seq(Byte), NEW p \in 1..Len(Sizes), Holds(s, p)
  PROVE  Holds(s \o t, p)
<1>1. PICK u : u = s \o t
  BY Zenon
<1>2. u \in Seq(Byte) /\ Len(u) = Len(s) + Len(t) /\ \A k \in 1..Len(s) : u[k] = s[k]
  BY <1>1, ConcatFacts
<1>3. PICK i \in 0..Len(s) : /\ i + Sizes[p] <= Len(s)
                             /\ \A k \in 1..Sizes[p] : s[i + k] = <<p, k>>
  BY HoldsMeans, Zenon
<1>4. Sizes[p] \in Nat
  BY BytesFacts, Zenon
<1>5. i \in 0..Len(u) /\ i + Sizes[p] <= Len(u)
  BY <1>2, <1>3, <1>4
<1>6. ASSUME NEW k \in 1..Sizes[p]
      PROVE  u[i + k] = <<p, k>>
  <2>1. PICK j : j = i + k
    BY Zenon
  <2>2. j \in 1..Len(s)
    BY <1>3, <1>4, <2>1
  <2>3. s[j] = <<p, k>>
    BY <1>3, <2>1, Zenon
  <2> QED
    BY <1>2, <2>1, <2>2, <2>3, Zenon
<1> QED
  BY <1>1, <1>2, <1>5, <1>6, HoldsMeans, Zenon

\* A packet that is written whole is in the stream.
LEMMA HoldsNew ==
  ASSUME NEW s \in Seq(Byte), NEW p \in 1..Len(Sizes)
  PROVE  Holds(s \o Bytes(p), p)
<1>1. PICK u : u = s \o Bytes(p)
  BY Zenon
<1>2. PICK n : n = Sizes[p]
  BY Zenon
<1>3. /\ n \in Nat /\ Bytes(p) \in Seq(Byte) /\ Len(Bytes(p)) = n
      /\ \A k \in 1..n : Bytes(p)[k] = <<p, k>>
  BY <1>2, BytesFacts, Zenon
<1>4. PICK i : i = Len(s)
  BY Zenon
<1>5. u \in Seq(Byte) /\ Len(u) = i + n /\ \A k \in 1..n : u[i + k] = Bytes(p)[k]
  <2>1. PICK t \in Seq(Byte) : t = Bytes(p)
    BY <1>3, Zenon
  <2>2. /\ s \o t \in Seq(Byte) /\ Len(s \o t) = Len(s) + Len(t)
        /\ \A k \in 1..Len(t) : (s \o t)[Len(s) + k] = t[k]
    BY ConcatFacts
  <2> QED
    BY <1>1, <1>3, <1>4, <2>1, <2>2, Zenon
<1>6. i \in 0..Len(u) /\ i + n <= Len(u) /\ \A k \in 1..n : u[i + k] = <<p, k>>
  BY <1>3, <1>4, <1>5
<1> QED
  BY <1>1, <1>2, <1>5, <1>6, HoldsMeans, Zenon

\* A packet in the stream has its last byte there.
LEMMA HoldsEnd ==
  ASSUME NEW s \in Seq(Byte), NEW p \in 1..Len(Sizes), Holds(s, p)
  PROVE  \E i \in 1..Len(s) : s[i] = <<p, Sizes[p]>>
<1>1. PICK i \in 0..Len(s) : /\ i + Sizes[p] <= Len(s)
                             /\ \A k \in 1..Sizes[p] : s[i + k] = <<p, k>>
  BY HoldsMeans, Zenon
<1>2. Sizes[p] \in Nat \ {0}
  BY BytesFacts, Zenon
<1>3. i + Sizes[p] \in 1..Len(s)
  BY <1>1, <1>2
<1>4. s[i + Sizes[p]] = <<p, Sizes[p]>>
  BY <1>1, <1>2
<1> QED
  BY <1>3, <1>4, Zenon

-----------------------------------------------------------------------------
\* What an attempt of mctp_mmbi_tx writes: the first n bytes of the packet, which is
\* accepted if these are all.
LEMMA AttemptFacts ==
  ASSUME StreamTypes, mctp_mmbi_tx, NEW p, p = Len(outcome) + 1
  PROVE  /\ p \in 1..Len(Sizes)
         /\ \E n \in 0..Sizes[p] :
              /\ queue' = queue \o SubSeq(Bytes(p), 1, n)
              /\ stream' = stream \o SubSeq(Bytes(p), 1, n)
              /\ Len(queue) + n <= RingSize
              /\ Accepted(p) <=> n = Sizes[p]
<1>1. p \in 1..Len(Sizes)
  BY DEF StreamTypes, mctp_mmbi_tx
<1>2. PICK m : m = Len(queue)
  BY Zenon
<1>3. PICK size : size = Sizes[p]
  BY Zenon
<1>4. /\ size \in Nat \ {0} /\ size <= RingSize /\ RingSize \in Nat /\ m \in Nat
      /\ m <= RingSize /\ Len(Bytes(p)) = size /\ Bytes(p) # <<>>
  BY <1>1, <1>2, <1>3, BytesFacts, StreamAssumption DEF StreamTypes
<1>5. PICK n : n = IF size <= RingSize - m THEN size ELSE RingSize - m
  BY Zenon
<1>6. n \in 0..size /\ m + n <= RingSize /\ (m = RingSize => n # size)
  BY <1>4, <1>5
<1>7. /\ queue' = queue \o SubSeq(Bytes(p), 1, n)
      /\ result'.bytes = n
      /\ result'.status = IF m = RingSize THEN "DEVICE_BUSY" ELSE "SUCCESS"
  BY <1>2, <1>4, <1>5, Zenon DEF mctp_mmbi_tx, Fifo!Write, Fifo!Least
<1>8. stream' = stream \o SubSeq(Bytes(p), 1, n)
  BY <1>7, Zenon DEF mctp_mmbi_tx
<1>9. Accepted(p) <=> n = size
  BY <1>3, <1>6, <1>7, Zenon DEF Accepted
<1> QED
  BY <1>1, <1>2, <1>3, <1>6, <1>7, <1>8, <1>9, Zenon

\* How an attempt ends: the packet is accepted and reported sent, or the call fails
\* with -EIO, or it goes on.
LEMMA EndFacts ==
  ASSUME StreamTypes, mctp_mmbi_tx, NEW p, p = Len(outcome) + 1
  PROVE  /\ outcome' \in Seq({"sent", "EIO"}) /\ retries' \in 1..MaxAttempts
         /\ \A q \in 1..Len(outcome) : outcome'[q] = outcome[q]
         /\ IF Accepted(p)
              THEN Len(outcome') = p /\ outcome'[p] = "sent" /\ retries' = MaxAttempts
              ELSE Len(outcome') = Len(outcome) \/ (Len(outcome') = p /\ outcome'[p] = "EIO")
<1> DEFINE T == {"sent", "EIO"}
<1>1. /\ outcome \in Seq(T) /\ retries \in 1..MaxAttempts /\ MaxAttempts \in Nat \ {0}
  BY StreamAssumption, Zenon DEF StreamTypes
<1>2. ASSUME NEW e \in T, outcome' = Append(outcome, e)
      PROVE  /\ outcome' \in Seq(T) /\ Len(outcome') = p /\ outcome'[p] = e
             /\ \A q \in 1..Len(outcome) : outcome'[q] = outcome[q]
  BY <1>1, <1>2
<1>3. CASE Accepted(p)
  <2>1. outcome' = Append(outcome, "sent") /\ retries' = MaxAttempts
    BY <1>3, Zenon DEF mctp_mmbi_tx
  <2> QED
    BY <1>1, <1>2, <1>3, <2>1
<1>4. CASE ~Accepted(p)
  <2>1. \/ outcome' = Append(outcome, "EIO") /\ retries' = MaxAttempts
        \/ UNCHANGED outcome /\ retries' = retries - 1 /\ retries > 1
    BY <1>4, Zenon DEF mctp_mmbi_tx
  <2> QED
    BY <1>1, <1>2, <1>4, <2>1
<1> QED
  BY <1>3, <1>4, Zenon

\* What a step has to keep that hands nothing up.
LEMMA HandedSame ==
  ASSUME handed' = handed,
         \A i \in 1..Len(handed), p \in 1..Len(Sizes) :
           HasEnd(handed[i], p) => /\ p <= Len(outcome') /\ outcome'[p] = "sent"
                                 /\ \A q \in 1..Len(Sizes) : HasEnd(queue', q) => p < q,
         \A i, j \in 1..Len(handed), p, q \in 1..Len(Sizes) :
           i < j /\ HasEnd(handed[i], p) /\ HasEnd(handed[j], q) => p < q
  PROVE  HandedEnds'
<1>1. PICK h : h = handed
  BY Zenon
<1>2. h = handed'
  BY <1>1, Zenon
<1>3. /\ \A i \in 1..Len(h), p \in 1..Len(Sizes) :
           HasEnd(h[i], p) => /\ p <= Len(outcome') /\ outcome'[p] = "sent"
                            /\ \A q \in 1..Len(Sizes) : HasEnd(queue', q) => p < q
      /\ \A i, j \in 1..Len(h), p, q \in 1..Len(Sizes) :
           i < j /\ HasEnd(h[i], p) /\ HasEnd(h[j], q) => p < q
  BY <1>1, Zenon
<1>4. /\ \A i \in 1..Len(handed'), p \in 1..Len(Sizes) :
           HasEnd(handed'[i], p) => /\ p <= Len(outcome') /\ outcome'[p] = "sent"
                                  /\ \A q \in 1..Len(Sizes) : HasEnd(queue', q) => p < q
      /\ \A i, j \in 1..Len(handed'), p, q \in 1..Len(Sizes) :
           i < j /\ HasEnd(handed'[i], p) /\ HasEnd(handed'[j], q) => p < q
  BY <1>2, <1>3, Zenon
<1> QED
  BY <1>4, Zenon DEF HandedEnds, HasEnd

\* mctp_mmbi_tx preserves the invariant.
LEMMA TxPreserves ==
  ASSUME StreamInv, mctp_mmbi_tx
  PROVE  StreamInv'
<1>1. PICK p : p = Len(outcome) + 1
  BY Zenon
<1>2. StreamTypes /\ Len(outcome) \in Nat
  BY DEF StreamInv, StreamTypes
<1>3. p \in 1..Len(Sizes) /\ p \in Nat /\ Sizes[p] \in Nat \ {0}
  BY <1>1, <1>2, AttemptFacts, BytesFacts
<1>4. PICK n \in 0..Sizes[p] :
        /\ queue' = queue \o SubSeq(Bytes(p), 1, n)
        /\ stream' = stream \o SubSeq(Bytes(p), 1, n)
        /\ Len(queue) + n <= RingSize
        /\ Accepted(p) <=> n = Sizes[p]
  BY <1>1, <1>2, AttemptFacts, Zenon
<1>5. PICK part : part = SubSeq(Bytes(p), 1, n)
  BY Zenon
<1>6. /\ part \in Seq(Byte) /\ Len(part) = n
      /\ \A k \in 1..n : part[k] = <<p, k>>
      /\ n = Sizes[p] => part = Bytes(p)
  <2>1. PICK b : b = Bytes(p)
    BY Zenon
  <2>2. b \in Seq(Byte) /\ Len(b) = Sizes[p] /\ \A k \in 1..Sizes[p] : b[k] = <<p, k>>
    BY <1>3, <2>1, BytesFacts, Zenon
  <2>3. part \in Seq(Byte) /\ Len(part) = n /\ \A k \in 1..n : part[k] = b[k]
    BY <1>3, <1>5, <2>1, <2>2, FrontFacts
  <2>4. n = Sizes[p] => part = b
    BY <2>2, <2>3, SameSeq, Zenon
  <2> QED
    BY <1>3, <2>1, <2>2, <2>3, <2>4
<1>7. /\ outcome' \in Seq({"sent", "EIO"}) /\ retries' \in 1..MaxAttempts
      /\ \A q \in 1..Len(outcome) : outcome'[q] = outcome[q]
      /\ IF n = Sizes[p]
           THEN Len(outcome') = p /\ outcome'[p] = "sent" /\ retries' = MaxAttempts
           ELSE Len(outcome') = Len(outcome) \/ (Len(outcome') = p /\ outcome'[p] = "EIO")
  BY <1>1, <1>2, <1>4, EndFacts, Zenon
<1>8. /\ queue' = queue \o part /\ stream' = stream \o part
      /\ queue \in Seq(Byte) /\ stream \in Seq(Byte)
  BY <1>2, <1>4, <1>5, Zenon DEF StreamTypes
<1>9. /\ stream' \in Seq(Byte) /\ Len(stream') = Len(stream) + n
      /\ \A k \in 1..Len(stream) : stream'[k] = stream[k]
      /\ \A k \in 1..n : stream'[Len(stream) + k] = part[k]
  <2>0. part \in Seq(Byte) /\ stream \in Seq(Byte)
    BY <1>6, <1>8, Zenon
  <2>1. /\ stream \o part \in Seq(Byte) /\ Len(stream \o part) = Len(stream) + Len(part)
        /\ \A k \in 1..Len(stream) : (stream \o part)[k] = stream[k]
        /\ \A k \in 1..Len(part) : (stream \o part)[Len(stream) + k] = part[k]
    BY <2>0, ConcatFacts
  <2> QED
    BY <1>6, <1>8, <2>1, Zenon
<1>10. /\ queue' \in Seq(Byte) /\ Len(queue') = Len(queue) + n
       /\ \A k \in 1..Len(queue) : queue'[k] = queue[k]
       /\ \A k \in 1..n : queue'[Len(queue) + k] = part[k]
  <2>0. part \in Seq(Byte) /\ queue \in Seq(Byte)
    BY <1>6, <1>8, Zenon
  <2>1. /\ queue \o part \in Seq(Byte) /\ Len(queue \o part) = Len(queue) + Len(part)
        /\ \A k \in 1..Len(queue) : (queue \o part)[k] = queue[k]
        /\ \A k \in 1..Len(part) : (queue \o part)[Len(queue) + k] = part[k]
    BY <2>0, ConcatFacts
  <2> QED
    BY <1>6, <1>8, <2>1, Zenon
<1>11. StreamTypes'
  <2>1. handed' = handed
    BY Zenon DEF mctp_mmbi_tx
  <2> QED
    BY <1>1, <1>2, <1>3, <1>4, <1>7, <1>9, <1>10, <2>1 DEF StreamTypes
<1>12. SentIsThere'
  <2> SUFFICES ASSUME NEW q \in 1..Len(outcome'), outcome'[q] = "sent"
               PROVE  Holds(stream', q)
    BY Zenon DEF SentIsThere
  <2>1. CASE q \in 1..Len(outcome)
    <3>1. outcome[q] = "sent"
      BY <1>7, <2>1, Zenon
    <3>2. Holds(stream, q) /\ q \in 1..Len(Sizes)
      BY <1>1, <1>2, <1>3, <2>1, <3>1 DEF StreamInv, SentIsThere
    <3> QED
      BY <1>6, <1>8, <3>2, HoldsStays, Zenon
  <2>2. CASE q = p
    <3>1. n = Sizes[p]
      BY <1>1, <1>2, <1>7, <2>2
    <3> QED
      BY <1>3, <1>6, <1>8, <2>2, <3>1, HoldsNew, Zenon
  <2> QED
    BY <1>1, <1>2, <1>7, <2>1, <2>2
<1>13. EndIsSent'
  <2> SUFFICES ASSUME NEW i \in 1..Len(stream'), NEW q \in 1..Len(Sizes),
                      stream'[i] = <<q, Sizes[q]>>
               PROVE  q <= Len(outcome') /\ outcome'[q] = "sent"
    BY Zenon DEF EndIsSent
  <2>1. CASE i \in 1..Len(stream)
    <3>1. q <= Len(outcome) /\ outcome[q] = "sent"
      BY <1>9, <2>1, Zenon DEF StreamInv, EndIsSent
    <3> QED
      BY <1>1, <1>2, <1>7, <3>1
  <2>2. CASE i \notin 1..Len(stream)
    <3>1. PICK k : k = i - Len(stream)
      BY Zenon
    <3>2. k \in 1..n /\ i = Len(stream) + k
      BY <1>8, <1>9, <2>2, <3>1
    <3>3. <<q, Sizes[q]>> = <<p, k>>
      BY <1>6, <1>9, <3>2, Zenon
    <3>4. q = p /\ n = Sizes[p]
      BY <1>3, <3>2, <3>3
    <3> QED
      BY <1>3, <1>7, <3>4
  <2> QED
    BY <2>1, <2>2, Zenon
<1>14. ASSUME NEW l \in 1..Len(queue'), NEW q \in 1..Len(Sizes),
              queue'[l] = <<q, Sizes[q]>>
       PROVE  \/ l \in 1..Len(queue) /\ queue[l] = <<q, Sizes[q]>>
              \/ l = Len(queue') /\ q = p /\ n = Sizes[p]
  <2>1. CASE l \in 1..Len(queue)
    BY <1>10, <1>14, <2>1, Zenon
  <2>2. CASE l \notin 1..Len(queue)
    <3>1. PICK k : k = l - Len(queue)
      BY Zenon
    <3>2. k \in 1..n /\ l = Len(queue) + k
      BY <1>8, <1>10, <2>2, <3>1
    <3>3. <<q, Sizes[q]>> = <<p, k>>
      BY <1>6, <1>10, <1>14, <3>2, Zenon
    <3> QED
      BY <1>3, <1>10, <3>2, <3>3
  <2> QED
    BY <2>1, <2>2, Zenon
<1>15. ASSUME NEW q \in 1..Len(Sizes), HasEnd(queue', q)
       PROVE  HasEnd(queue, q) \/ (q = p /\ n = Sizes[p])
  <2>1. PICK l \in 1..Len(queue') : queue'[l] = <<q, Sizes[q]>>
    BY <1>15, Zenon DEF HasEnd
  <2> QED
    BY <1>14, <2>1, Zenon DEF HasEnd
<1>16. ASSUME NEW q \in 1..Len(Sizes), q <= Len(outcome), outcome[q] = "sent"
       PROVE  q <= Len(outcome') /\ outcome'[q] = "sent" /\ q < p
  BY <1>1, <1>2, <1>7, <1>16
<1>17. RingEnds'
  <2>1. ASSUME NEW q \in 1..Len(Sizes), HasEnd(queue', q)
        PROVE  q <= Len(outcome') /\ outcome'[q] = "sent"
    <3>1. CASE HasEnd(queue, q)
      BY <1>16, <3>1, Zenon DEF StreamInv, RingEnds
    <3>2. CASE q = p /\ n = Sizes[p]
      BY <1>3, <1>7, <3>2
    <3> QED
      BY <1>15, <2>1, <3>1, <3>2, Zenon
  <2>2. ASSUME NEW k \in 1..Len(queue'), NEW l \in 1..Len(queue'),
               NEW q \in 1..Len(Sizes), NEW r \in 1..Len(Sizes),
               k < l, queue'[k] = <<q, Sizes[q]>>, queue'[l] = <<r, Sizes[r]>>
        PROVE  q < r
    <3>1. k # Len(queue')
      BY <1>10, <2>2
    <3>2. k \in 1..Len(queue) /\ queue[k] = <<q, Sizes[q]>>
      BY <1>14, <2>2, <3>1, Zenon
    <3>3. CASE l \in 1..Len(queue) /\ queue[l] = <<r, Sizes[r]>>
      BY <2>2, <3>2, <3>3, Zenon DEF StreamInv, RingEnds
    <3>4. CASE r = p
      BY <1>16, <3>2, <3>4, Zenon DEF StreamInv, RingEnds, HasEnd
    <3> QED
      BY <1>14, <2>2, <3>3, <3>4, Zenon
  <2> QED
    BY <2>1, <2>2, Zenon DEF RingEnds, HasEnd
<1>18. HandedEnds'
  <2>0. handed' = handed
    BY Zenon DEF mctp_mmbi_tx
  <2>1. ASSUME NEW i \in 1..Len(handed), NEW q \in 1..Len(Sizes), HasEnd(handed[i], q)
        PROVE  /\ q <= Len(outcome') /\ outcome'[q] = "sent"
               /\ \A r \in 1..Len(Sizes) : HasEnd(queue', r) => q < r
    <3>1. /\ q <= Len(outcome) /\ outcome[q] = "sent"
          /\ \A r \in 1..Len(Sizes) : HasEnd(queue, r) => q < r
      BY <2>1, Zenon DEF StreamInv, HandedEnds
    <3> QED
      BY <1>15, <1>16, <3>1, Zenon
  <2>2. \A i, j \in 1..Len(handed), q, r \in 1..Len(Sizes) :
          i < j /\ HasEnd(handed[i], q) /\ HasEnd(handed[j], r) => q < r
    BY Zenon DEF StreamInv, HandedEnds
  <2> QED
    BY <2>0, <2>1, <2>2, HandedSame, Zenon
<1> QED
  BY <1>11, <1>12, <1>13, <1>17, <1>18, Zenon DEF StreamInv

\* What a poll reads: the front of the ring, all of it if it reads no more than a
\* packet.
LEMMA ReadFacts ==
  ASSUME StreamTypes, mctp_mmbi_poll
  PROVE  /\ data' \in Seq(Byte) /\ queue' \in Seq(Byte) /\ Len(queue') <= Len(queue)
         /\ Len(data') <= PktSize => data' = queue
         /\ Len(queue) <= PktSize => data' = queue
         /\ \E n \in 0..Len(queue) :
              /\ Len(data') = n /\ \A k \in 1..n : data'[k] = queue[k]
              /\ Len(queue') = Len(queue) - n
              /\ \A k \in 1..Len(queue') : queue'[k] = queue[n + k]
<1>1. PICK m : m = Len(queue)
  BY Zenon
<1>2. /\ m \in Nat /\ queue \in Seq(Byte) /\ ReadLength \in Nat /\ PktSize < ReadLength
      /\ PktSize \in Nat
  BY <1>1, StreamAssumption DEF StreamTypes, ReadLength
<1>3. PICK n : n = IF ReadLength <= m THEN ReadLength ELSE m
  BY Zenon
<1>4. n \in 0..m /\ (n <= PktSize \/ m <= PktSize => n = m)
  BY <1>2, <1>3
<1>5. data' = SubSeq(queue, 1, n) /\ queue' = SubSeq(queue, n + 1, m)
  BY <1>1, <1>3, Zenon DEF mctp_mmbi_poll, Fifo!Read, Fifo!Least
<1>6. /\ data' \in Seq(Byte) /\ Len(data') = n /\ \A k \in 1..n : data'[k] = queue[k]
  BY <1>1, <1>2, <1>4, <1>5, FrontFacts, Zenon
<1>7. /\ queue' \in Seq(Byte) /\ Len(queue') = m - n
      /\ \A k \in 1..Len(queue') : queue'[k] = queue[n + k]
  <2>1. PICK r : r = m - n
    BY Zenon
  <2>2. r \in Nat /\ m = n + r /\ n \in Nat
    BY <1>2, <1>4, <2>1
  <2>3. queue' = SubSeq(queue, n + 1, n + r)
    BY <1>5, <2>2, Zenon
  <2>4. PICK u : u = SubSeq(queue, n + 1, n + r)
    BY Zenon
  <2>5. n + r <= Len(queue)
    BY <1>1, <1>2, <2>2
  <2>6. u \in Seq(Byte) /\ Len(u) = r /\ \A k \in 1..r : u[k] = queue[n + k]
    BY <1>2, <2>2, <2>4, <2>5, SubSeqFacts
  <2> QED
    BY <2>1, <2>3, <2>4, <2>6, Zenon
<1>8. n = m => data' = queue
  BY <1>1, <1>2, <1>6, SameSeq, Zenon
<1> QED
  BY <1>1, <1>2, <1>4, <1>6, <1>7, <1>8

\* mctp_mmbi_poll preserves the invariant.
LEMMA PollPreserves ==
  ASSUME StreamInv, mctp_mmbi_poll
  PROVE  StreamInv'
<1>1. /\ UNCHANGED <<retries, outcome, stream>>
      /\ handed' = Append(handed, data') \/ handed' = handed
  BY Zenon DEF mctp_mmbi_poll
<1>2. StreamTypes /\ handed \in Seq(Seq(Byte)) /\ RingSize \in Nat
  BY StreamAssumption, Zenon DEF StreamInv, StreamTypes
<1>3. data' \in Seq(Byte) /\ queue' \in Seq(Byte) /\ Len(queue') <= Len(queue)
  BY <1>2, ReadFacts, Zenon
<1>4. StreamTypes'
  <2>1. handed' \in Seq(Seq(Byte))
    <3>1. PICK S : S = Seq(Byte)
      BY Zenon
    <3>2. PICK d : d = data'
      BY Zenon
    <3>3. Append(handed, d) \in Seq(S)
      <4>1. handed \in Seq(S) /\ d \in S
        BY <1>2, <1>3, <3>1, <3>2, Zenon
      <4> QED
        BY <4>1
    <3> QED
      BY <1>1, <1>2, <3>1, <3>2, <3>3, Zenon
  <2>2. Len(queue') <= RingSize
    BY <1>2, <1>3 DEF StreamTypes
  <2> QED
    BY <1>1, <1>2, <1>3, <2>1, <2>2, Zenon DEF StreamTypes
<1>5. SentIsThere' /\ EndIsSent'
  BY <1>1, Zenon DEF StreamInv, SentIsThere, EndIsSent
<1>6. PICK n \in 0..Len(queue) :
        /\ Len(data') = n /\ \A k \in 1..n : data'[k] = queue[k]
        /\ Len(queue') = Len(queue) - n
        /\ \A k \in 1..Len(queue') : queue'[k] = queue[n + k]
  BY <1>2, ReadFacts, Zenon
<1>7. Len(queue) \in Nat /\ \A k \in 1..n : k \in 1..Len(queue)
  BY <1>2, <1>6 DEF StreamTypes
<1>8. ASSUME NEW k \in 1..Len(queue')
      PROVE  n + k \in 1..Len(queue) /\ queue'[k] = queue[n + k] /\ \A l \in 1..n : l < n + k
  BY <1>6, <1>7
<1>9. ASSUME NEW p \in 1..Len(Sizes)
      PROVE  /\ HasEnd(data', p) => HasEnd(queue, p)
             /\ HasEnd(queue', p) => HasEnd(queue, p)
  BY <1>6, <1>7, <1>8, Zenon DEF HasEnd
<1>10. ASSUME NEW p \in 1..Len(Sizes), NEW q \in 1..Len(Sizes), HasEnd(data', p), HasEnd(queue', q)
       PROVE  p < q
  <2>1. PICK k \in 1..n : queue[k] = <<p, Sizes[p]>>
    BY <1>6, <1>10, Zenon DEF HasEnd
  <2>2. PICK l \in 1..Len(queue') : queue[n + l] = <<q, Sizes[q]>>
    BY <1>8, <1>10, Zenon DEF HasEnd
  <2> QED
    BY <1>7, <1>8, <2>1, <2>2, Zenon DEF StreamInv, RingEnds
<1>11. RingEnds'
  <2>1. ASSUME NEW k \in 1..Len(queue'), NEW l \in 1..Len(queue'),
               NEW p \in 1..Len(Sizes), NEW q \in 1..Len(Sizes),
               k < l, queue'[k] = <<p, Sizes[p]>>, queue'[l] = <<q, Sizes[q]>>
        PROVE  p < q
    <3>1. n + k < n + l
      BY <1>6, <1>7, <2>1
    <3> QED
      BY <1>8, <2>1, <3>1, Zenon DEF StreamInv, RingEnds
  <2> QED
    BY <1>1, <1>9, <2>1, Zenon DEF StreamInv, RingEnds, HasEnd
<1>12. HandedEnds'
  <2>1. ASSUME NEW i \in 1..Len(handed), NEW p \in 1..Len(Sizes), HasEnd(handed[i], p)
        PROVE  /\ p <= Len(outcome) /\ outcome[p] = "sent"
               /\ \A q \in 1..Len(Sizes) : HasEnd(queue, q) \/ HasEnd(data', q) => p < q
    BY <1>9, <2>1, Zenon DEF StreamInv, HandedEnds
  <2>2. CASE handed' = handed
    <3>1. ASSUME NEW i \in 1..Len(handed), NEW p \in 1..Len(Sizes), HasEnd(handed[i], p)
          PROVE  /\ p <= Len(outcome) /\ outcome[p] = "sent"
                 /\ \A q \in 1..Len(Sizes) : HasEnd(queue', q) => p < q
      BY <1>9, <2>1, <3>1, Zenon
    <3>2. \A i, j \in 1..Len(handed), p, q \in 1..Len(Sizes) :
            i < j /\ HasEnd(handed[i], p) /\ HasEnd(handed[j], q) => p < q
      BY Zenon DEF StreamInv, HandedEnds
    <3> QED
      BY <1>1, <2>2, <3>1, <3>2, HandedSame, Zenon
  <2>3. CASE handed' = Append(handed, data')
    <3>1. PICK h : h = Len(handed)
      BY Zenon
    <3>2. /\ h \in Nat /\ Len(handed') = h + 1 /\ handed'[h + 1] = data'
          /\ \A i \in 1..h : handed'[i] = handed[i]
      BY <1>2, <1>3, <2>3, <3>1
    <3>3. \A i \in 1..(h + 1) : i \in 1..h \/ i = h + 1
      BY <3>2
    <3>4. \A i, j \in 1..(h + 1) : i < j => i \in 1..h
      BY <3>2
    <3>5. ASSUME NEW i \in 1..(h + 1), NEW p \in 1..Len(Sizes), HasEnd(handed'[i], p)
          PROVE  /\ p <= Len(outcome) /\ outcome[p] = "sent"
                 /\ \A q \in 1..Len(Sizes) : HasEnd(queue', q) => p < q
      <4>1. CASE i \in 1..h
        BY <1>9, <2>1, <3>1, <3>2, <3>5, <4>1, Zenon
      <4>2. CASE i = h + 1
        BY <1>9, <1>10, <3>2, <3>5, <4>2, Zenon DEF StreamInv, RingEnds
      <4> QED
        BY <3>3, <4>1, <4>2, Zenon
    <3>6. ASSUME NEW i \in 1..(h + 1), NEW j \in 1..(h + 1),
                 NEW p \in 1..Len(Sizes), NEW q \in 1..Len(Sizes),
                 i < j, HasEnd(handed'[i], p), HasEnd(handed'[j], q)
          PROVE  p < q
      <4>1. i \in 1..h /\ HasEnd(handed[i], p)
        BY <3>2, <3>4, <3>6, Zenon
      <4>2. CASE j \in 1..h
        BY <3>1, <3>2, <3>6, <4>1, <4>2, Zenon DEF StreamInv, HandedEnds
      <4>3. CASE j = h + 1
        BY <2>1, <3>1, <3>2, <3>6, <4>1, <4>3, Zenon
      <4> QED
        BY <3>3, <4>2, <4>3, Zenon
    <3> QED
      BY <1>1, <3>2, <3>5, <3>6, Zenon DEF HandedEnds, HasEnd
  <2> QED
    BY <1>1, <2>2, <2>3, Zenon
<1> QED
  BY <1>4, <1>5, <1>11, <1>12, Zenon DEF StreamInv

-----------------------------------------------------------------------------
\* The invariant holds initially and is preserved.
LEMMA StreamInvariant == Spec => []StreamInv
<1>1. Init => StreamInv
  BY StreamAssumption DEF Init, Fifo!Init, StreamInv, StreamTypes, SentIsThere, EndIsSent,
                          RingEnds, HandedEnds, HasEnd
<1>2. StreamInv /\ [Next]_vars => StreamInv'
  <2>1. ASSUME StreamInv, UNCHANGED vars
        PROVE  StreamInv'
    <3>1. StreamTypes' /\ SentIsThere' /\ EndIsSent'
      BY <2>1, Zenon DEF vars, StreamInv, StreamTypes, SentIsThere, EndIsSent
    <3>2. RingEnds'
      BY <2>1, Zenon DEF vars, StreamInv, RingEnds, HasEnd
    <3>3. HandedEnds'
      <4>1. handed' = handed /\ queue' = queue /\ outcome' = outcome
        BY <2>1, Zenon DEF vars
      <4>2. /\ \A i \in 1..Len(handed), p \in 1..Len(Sizes) :
                 HasEnd(handed[i], p) => /\ p <= Len(outcome') /\ outcome'[p] = "sent"
                                       /\ \A q \in 1..Len(Sizes) : HasEnd(queue', q) => p < q
            /\ \A i, j \in 1..Len(handed), p, q \in 1..Len(Sizes) :
                 i < j /\ HasEnd(handed[i], p) /\ HasEnd(handed[j], q) => p < q
        BY <2>1, <4>1, Zenon DEF StreamInv, HandedEnds
      <4> QED
        BY <4>1, <4>2, HandedSame, Zenon
    <3> QED
      BY <3>1, <3>2, <3>3, Zenon DEF StreamInv
  <2> QED
    BY <2>1, TxPreserves, PollPreserves, Zenon DEF Next
<1> QED
  BY <1>1, <1>2, PTL DEF Spec

\* mctp_mmbi_tx returns 0 if and only if the packet is in the byte stream in one
\* piece, for any sizes of packets and of the ring and any number of attempts.
THEOREM OutcomesAreTrue == Spec => []OutcomeIsTrue
<1>1. StreamInv => OutcomeIsTrue
  <2> SUFFICES ASSUME StreamInv, NEW p \in DOMAIN outcome
               PROVE  (outcome[p] = "sent") <=> Holds(stream, p)
    BY Zenon DEF OutcomeIsTrue
  <2>1. p \in 1..Len(outcome) /\ p \in 1..Len(Sizes) /\ stream \in Seq(Byte)
    BY StreamAssumption DEF StreamInv, StreamTypes
  <2>2. ASSUME Holds(stream, p)
        PROVE  outcome[p] = "sent"
    <3>1. \E i \in 1..Len(stream) : stream[i] = <<p, Sizes[p]>>
      BY <2>1, <2>2, HoldsEnd, Zenon
    <3> QED
      BY <2>1, <3>1, Zenon DEF StreamInv, EndIsSent
  <2> QED
    BY <2>1, <2>2, Zenon DEF StreamInv, SentIsThere
<1> QED
  BY <1>1, StreamInvariant, PTL

\* No packet is handed up twice, out of order, or after mctp_mmbi_tx returned -EIO for
\* it, for any sizes of packets and of the ring: what was written again begins anew,
\* and the ends of the packets stay in order.
THEOREM HandedUpOnce == Spec => []HandedOnce
<1>1. StreamInv => HandedOnce
  <2> SUFFICES ASSUME StreamInv
               PROVE  HandedOnce
    OBVIOUS
  <2>1. /\ DOMAIN handed = 1..Len(handed) /\ DOMAIN Sizes = 1..Len(Sizes)
        /\ DOMAIN outcome = 1..Len(outcome)
    BY StreamAssumption DEF StreamInv, StreamTypes
  <2>2. ASSUME NEW i \in 1..Len(handed), NEW p \in 1..Len(Sizes), Holds(handed[i], p)
        PROVE  HasEnd(handed[i], p)
    <3>1. handed \in Seq(Seq(Byte))
      BY Zenon DEF StreamInv, StreamTypes
    <3>2. PICK S : S = Seq(Byte)
      BY Zenon
    <3>3. handed \in Seq(S)
      BY <3>1, <3>2, Zenon
    <3>4. handed[i] \in S
      BY <3>3
    <3> QED
      BY <2>2, <3>2, <3>4, HoldsEnd, Zenon DEF HasEnd
  <2>3. ASSUME NEW p \in 1..Len(Sizes), p <= Len(outcome)
        PROVE  p \in 1..Len(outcome)
    BY <2>3 DEF StreamInv, StreamTypes
  <2> QED
    BY <2>1, <2>2, <2>3, Zenon DEF HandedOnce, StreamInv, HandedEnds
<1> QED
  BY <1>1, StreamInvariant, PTL

\* A poll hands up just one packet if and only if it was alone in the ring, for any
\* sizes of packets and of the ring.
THEOREM WholeWhenAlone == Spec => WholeIfAlone
<1> DEFINE Whole == handed' # handed =>
                      \A p \in DOMAIN Sizes :
                        (handed' = Append(handed, Bytes(p))) <=> (queue = Bytes(p))
<1>1. ASSUME StreamInv, Next, handed' # handed, NEW p \in DOMAIN Sizes
      PROVE  (handed' = Append(handed, Bytes(p))) <=> (queue = Bytes(p))
  <2>1. mctp_mmbi_poll /\ handed' = Append(handed, data') /\ Len(data') <= PktSize
    BY <1>1, Zenon DEF Next, mctp_mmbi_tx, mctp_mmbi_poll, mctp_pktbuf_alloc
  <2>2. StreamTypes /\ handed \in Seq(Seq(Byte)) /\ p \in 1..Len(Sizes)
    BY <1>1, StreamAssumption DEF StreamInv, StreamTypes
  <2>3. data' = queue
    BY <2>1, <2>2, ReadFacts, Zenon
  <2>4. PICK b : b = Bytes(p)
    BY Zenon
  <2>5. ASSUME Append(handed, queue) = Append(handed, b)
        PROVE  queue = b
    <3>1. PICK S : S = Seq(Byte)
      BY Zenon
    <3>2. handed \in Seq(S) /\ queue \in S /\ b \in S
      BY <2>2, <2>4, <3>1, BytesFacts, Zenon DEF StreamTypes
    <3>3. /\ Append(handed, queue)[Len(handed) + 1] = queue
          /\ Append(handed, b)[Len(handed) + 1] = b
      BY <3>2
    <3> QED
      BY <2>5, <3>3, Zenon
  <2> QED
    BY <2>1, <2>3, <2>4, <2>5, Zenon
<1>2. StreamInv /\ [Next]_vars => [Whole]_vars
  BY <1>1, Zenon
<1> QED
  BY <1>2, StreamInvariant, PTL DEF Spec, WholeIfAlone

-----------------------------------------------------------------------------
\* Two processes over pipes.

\* A thread writes exactly while it holds the lock, and has something to write then.
LockInv ==
  \A e \in Ends :
    /\ \A t \in Threads : (pc[e][t] = "write") <=> (lock[e] = t)
    /\ lock[e] # "free" => tx_left[e] > 0 /\ messages[e] > 0

\* What the bus still has of a message while nobody writes is left from a failure.
RestAfterFailure ==
  \A e \in Ends : tx_left[e] > 0 /\ lock[e] = "free" => failed[e]

\* The inductive invariant.
PipeInv == TypeOK /\ LockInv /\ RestAfterFailure /\ BusyOnlyAfterFailure /\ PollInOrder

-----------------------------------------------------------------------------
\* A packet at the end of the pipe is a packet at the end of what was written.
LEMMA AtTheEnd ==
  \A a, b, c \in Seq(Packet), p \in Packet :
    Append(a \o b \o c, p) = a \o b \o Append(c, p)
<1> SUFFICES ASSUME NEW a \in Seq(Packet), NEW b \in Seq(Packet), NEW c \in Seq(Packet),
                    NEW p \in Packet
             PROVE  Append(a \o b \o c, p) = a \o b \o Append(c, p)
  BY Zenon
<1>1. PICK d : d = a \o b /\ d \in Seq(Packet)
  BY ConcatProperties, Zenon
<1>2. <<p>> \in Seq(Packet) /\ d \o c \in Seq(Packet)
  BY <1>1, ConcatProperties
<1>3. Append(d \o c, p) = (d \o c) \o <<p>> /\ Append(c, p) = c \o <<p>>
  BY <1>2, AppendIsConcat, Zenon
<1>4. (d \o c) \o <<p>> = d \o (c \o <<p>>)
  BY <1>1, <1>2, ConcatAssociative
<1> QED
  BY <1>1, <1>3, <1>4, Zenon

\* Taking the first packet from the pipe leaves the order as it is.
LEMMA FromTheFront ==
  \A a, c \in Seq(Packet) : c # <<>> =>
    /\ <<Head(c)>> \in Seq(Packet) /\ Tail(c) \in Seq(Packet)
    /\ Len(Tail(c)) = Len(c) - 1 /\ Len(<<Head(c)>>) = 1
    /\ a \o <<>> \o c = a \o <<Head(c)>> \o Tail(c)
OBVIOUS

\* So does taking it from the buffer.
LEMMA FromTheBuffer ==
  \A a, b, c \in Seq(Packet) : /\ a \o b \in Seq(Packet)
                               /\ a \o b \o c = (a \o b) \o <<>> \o c
OBVIOUS

-----------------------------------------------------------------------------
\* The packet that waits in the buffer of end e for the lock.
InBuffer(e) == IF pc[e]["poller"] = "enter" THEN rx_buf[e] ELSE <<>>

\* Each end has one peer, the other end.
LEMMA Peers ==
  ASSUME NEW e \in Ends
  PROVE  /\ Peer(e) \in Ends /\ Peer(e) # e /\ Peer(Peer(e)) = e
         /\ \A f \in Ends : f # e => f = Peer(e)
BY Zenon DEF Ends, Peer

\* mctp_message_tx, called by a thread that has got the lock, whatever it returns.
LEMMA MessageTxPreserves ==
  ASSUME PipeInv, NEW e \in Ends, NEW t \in Threads, lock[e] = "free",
         pc[e][t] = (IF t = "sender" THEN "idle" ELSE "enter"),
         mctp_message_tx(e, t), UNCHANGED failed
  PROVE  /\ pc' \in [Ends -> [Threads -> {"idle", "write", "read", "enter"}]]
         /\ lock' \in [Ends -> Threads \cup {"free"}]
         /\ tx_left' \in [Ends -> 0..Packets] /\ messages' \in [Ends -> 0..MaxMessages]
         /\ returned' \in [Ends -> {"ok", "EBUSY", "ENOMEM"}]
         /\ LockInv' /\ RestAfterFailure' /\ BusyOnlyAfterFailure'
         /\ pc'[e][t] \in {"idle", "write"}
         /\ \A f \in Ends, u \in Threads : <<f, u>> # <<e, t>> => pc'[f][u] = pc[f][u]
<1> USE PipeAssumption
<1>1. /\ pc \in [Ends -> [Threads -> {"idle", "write", "read", "enter"}]]
      /\ lock \in [Ends -> Threads \cup {"free"}]
      /\ tx_left \in [Ends -> 0..Packets] /\ messages \in [Ends -> 0..MaxMessages]
      /\ returned \in [Ends -> {"ok", "EBUSY", "ENOMEM"}]
  BY Zenon DEF PipeInv, TypeOK
<1>2. "free" \notin Threads
  BY Zenon DEF Threads
<1>3. CASE MessageTaken(e, t)
  <2>1. /\ tx_left[e] = 0 /\ messages[e] < MaxMessages
        /\ tx_left' = [tx_left EXCEPT ![e] = Packets]
        /\ messages' = [messages EXCEPT ![e] = @ + 1]
        /\ pc' = [pc EXCEPT ![e][t] = "write"]
        /\ lock' = [lock EXCEPT ![e] = t]
        /\ returned' = returned
    BY <1>3, Zenon DEF MessageTaken
  <2>2. LockInv'
    BY <1>1, <1>2, <2>1 DEF PipeInv, LockInv
  <2>3. RestAfterFailure' /\ BusyOnlyAfterFailure'
    BY <1>1, <1>2, <2>1, Zenon DEF PipeInv, RestAfterFailure, BusyOnlyAfterFailure
  <2> QED
    BY <1>1, <2>1, <2>2, <2>3
<1>4. CASE MessageRefused(e, t)
  <2>1. /\ tx_left' = tx_left /\ messages' = messages
        /\ pc' = [pc EXCEPT ![e][t] = "idle"]
        /\ lock' = [lock EXCEPT ![e] = "free"]
        /\ \/ tx_left[e] > 0 /\ returned' = [returned EXCEPT ![e] = "EBUSY"]
           \/ returned' = [returned EXCEPT ![e] = "ENOMEM"]
    BY <1>4, Zenon DEF MessageRefused, Returns
  <2>2. LockInv'
    BY <1>1, <1>2, <2>1 DEF PipeInv, LockInv
  <2>3. RestAfterFailure' /\ BusyOnlyAfterFailure'
    BY <1>1, <2>1, Zenon DEF PipeInv, RestAfterFailure, BusyOnlyAfterFailure
  <2> QED
    BY <1>1, <2>1, <2>2, <2>3
<1> QED
  BY <1>3, <1>4, Zenon DEF mctp_message_tx

\* Nothing is written, read or handed over, and no poll begins or ends to wait.
LEMMA QuietInOrder ==
  ASSUME PollInOrder, UNCHANGED <<written, polled, pipe, rx_buf>>,
         \A f \in Ends : (pc'[f]["poller"] = "enter") <=> (pc[f]["poller"] = "enter")
  PROVE  PollInOrder'
BY Zenon DEF PollInOrder

\* A send enters the free critical section; its message is new, or refused.
LEMMA SendPreserves ==
  ASSUME PipeInv, NEW e \in Ends, mctp_mmbi_send(e)
  PROVE  PipeInv'
<1>1. /\ lock[e] = "free" /\ pc[e]["sender"] = "idle" /\ mctp_message_tx(e, "sender")
      /\ sends' = [sends EXCEPT ![e] = @ + 1]
      /\ UNCHANGED <<rx_buf, pipe, alive, written, polled, failed>>
  BY Zenon DEF mctp_mmbi_send
<1>2. "sender" \in Threads /\ "poller" \in Threads
  BY Zenon DEF Threads
<1>3. /\ pc' \in [Ends -> [Threads -> {"idle", "write", "read", "enter"}]]
      /\ lock' \in [Ends -> Threads \cup {"free"}]
      /\ tx_left' \in [Ends -> 0..Packets] /\ messages' \in [Ends -> 0..MaxMessages]
      /\ returned' \in [Ends -> {"ok", "EBUSY", "ENOMEM"}]
      /\ LockInv' /\ RestAfterFailure' /\ BusyOnlyAfterFailure'
      /\ \A f \in Ends : pc'[f]["poller"] = pc[f]["poller"]
  BY <1>1, <1>2, MessageTxPreserves
<1>4. TypeOK'
  <2>1. sends' \in [Ends -> Nat]
    BY <1>1 DEF PipeInv, TypeOK
  <2>2. TypeOK /\ UNCHANGED <<rx_buf, pipe, alive, written, polled, failed>>
    BY <1>1, Zenon DEF PipeInv
  <2> QED
    BY <1>3, <2>1, <2>2, Zenon DEF TypeOK
<1>5. PollInOrder'
  BY <1>1, <1>3, QuietInOrder, Zenon DEF PipeInv
<1> QED
  BY <1>3, <1>4, <1>5, Zenon DEF PipeInv

\* A packet that WriteFile appends comes after all that were written, and the
\* last one ends the call and frees the lock.
LEMMA WritePreserves ==
  ASSUME PipeInv, NEW e \in Ends, NEW t \in Threads, WriteFile(e, t)
  PROVE  PipeInv'
<1>1. PICK p : /\ p = [msg |-> messages[e], k |-> Packets - tx_left[e] + 1]
               /\ pipe' = [pipe EXCEPT ![Peer(e)] = Append(@, p)]
               /\ written' = [written EXCEPT ![e] = Append(@, p)]
  BY Zenon DEF WriteFile
<1>2. /\ pc[e][t] = "write" /\ Len(pipe[Peer(e)]) < Capacity[Peer(e)]
      /\ tx_left' = [tx_left EXCEPT ![e] = @ - 1]
      /\ UNCHANGED <<rx_buf, alive, sends, messages, polled, failed>>
  BY Zenon DEF WriteFile
<1>3. \/ /\ pc' = [pc EXCEPT ![e][t] = "idle"] /\ lock' = [lock EXCEPT ![e] = "free"]
         /\ tx_left[e] = 1 /\ returned' = [returned EXCEPT ![e] = "ok"]
      \/ tx_left[e] # 1 /\ UNCHANGED <<pc, lock, returned>>
  BY Zenon DEF WriteFile, Returns
<1>4. /\ pc \in [Ends -> [Threads -> {"idle", "write", "read", "enter"}]]
      /\ lock \in [Ends -> Threads \cup {"free"}] /\ "free" \notin Threads
      /\ tx_left \in [Ends -> 0..Packets] /\ messages \in [Ends -> 0..MaxMessages]
      /\ returned \in [Ends -> {"ok", "EBUSY", "ENOMEM"}]
      /\ pipe \in [Ends -> Seq(Packet)] /\ written \in [Ends -> Seq(Packet)]
      /\ Peer(e) \in Ends /\ Capacity \in [Ends -> Nat \ {0}]
  BY Peers, PipeAssumption, Zenon DEF PipeInv, TypeOK, Threads
<1>5. lock[e] = t /\ tx_left[e] > 0 /\ messages[e] > 0
  BY <1>2, <1>4 DEF PipeInv, LockInv
<1>6. p \in Packet
  <2>1. Packets \in Nat \ {0} /\ MaxMessages \in Nat
    BY PipeAssumption, Zenon
  <2>2. messages[e] \in 1..MaxMessages /\ Packets - tx_left[e] + 1 \in 1..Packets
    BY <1>4, <1>5, <2>1
  <2> QED
    BY <1>1, <2>2, Zenon DEF Packet
<1>7. /\ pipe' \in [Ends -> Seq(Packet)] /\ written' \in [Ends -> Seq(Packet)]
      /\ \A f \in Ends : f # Peer(e) => pipe'[f] = pipe[f]
      /\ pipe'[Peer(e)] = Append(pipe[Peer(e)], p)
      /\ written'[e] = Append(written[e], p)
      /\ \A f \in Ends : f # e => written'[f] = written[f]
  BY <1>1, <1>4, <1>6
<1>8. \A f \in Ends : Len(pipe'[f]) <= Capacity[f] /\ Len(rx_buf'[f]) <= 1
  <2>1. Len(pipe'[Peer(e)]) = Len(pipe[Peer(e)]) + 1
    BY <1>4, <1>6, <1>7
  <2>2. \A f \in Ends : Len(pipe[f]) <= Capacity[f] /\ Len(rx_buf[f]) <= 1
    BY Zenon DEF PipeInv, TypeOK
  <2>3. /\ Len(pipe[Peer(e)]) \in Nat /\ Capacity[Peer(e)] \in Nat
        /\ Len(pipe[Peer(e)]) < Capacity[Peer(e)] /\ rx_buf' = rx_buf
    BY <1>2, <1>4
  <2>4. Len(pipe'[Peer(e)]) <= Capacity[Peer(e)]
    BY <2>1, <2>3
  <2> QED
    BY <1>7, <2>2, <2>3, <2>4, Zenon
<1>9. /\ pc' \in [Ends -> [Threads -> {"idle", "write", "read", "enter"}]]
      /\ lock' \in [Ends -> Threads \cup {"free"}]
      /\ tx_left' \in [Ends -> 0..Packets]
      /\ returned' \in [Ends -> {"ok", "EBUSY", "ENOMEM"}]
  <2>1. tx_left' \in [Ends -> 0..Packets]
    <3>1. tx_left[e] - 1 \in 0..Packets
      BY <1>4, <1>5, PipeAssumption
    <3> QED
      BY <1>2, <1>4, <3>1, Zenon
  <2>2. CASE UNCHANGED <<pc, lock, returned>>
    BY <1>4, <2>1, <2>2, Zenon
  <2>3. CASE /\ pc' = [pc EXCEPT ![e][t] = "idle"] /\ lock' = [lock EXCEPT ![e] = "free"]
             /\ returned' = [returned EXCEPT ![e] = "ok"]
    BY <1>4, <2>1, <2>3, Zenon
  <2> QED
    BY <1>3, <2>2, <2>3, Zenon
<1>10. TypeOK'
  <2>1. TypeOK
    BY Zenon DEF PipeInv
  <2> QED
    BY <1>2, <1>7, <1>8, <1>9, <2>1, Zenon DEF TypeOK
<1>11. LockInv'
  BY <1>2, <1>3, <1>4, <1>5 DEF PipeInv, LockInv
<1>12. RestAfterFailure' /\ BusyOnlyAfterFailure'
  <2>1. RestAfterFailure /\ BusyOnlyAfterFailure
    BY Zenon DEF PipeInv
  <2>2. CASE tx_left[e] = 1
    BY <1>2, <1>3, <1>4, <2>1, <2>2 DEF RestAfterFailure, BusyOnlyAfterFailure
  <2>3. CASE tx_left[e] # 1
    BY <1>2, <1>3, <1>4, <1>5, <2>1, <2>3 DEF RestAfterFailure, BusyOnlyAfterFailure
  <2> QED
    BY <2>2, <2>3, Zenon
<1>13. PollInOrder'
  <2> SUFFICES ASSUME NEW f \in Ends
               PROVE  written'[Peer(f)] = polled[f] \o InBuffer(f)' \o pipe'[f]
    BY <1>2, Zenon DEF PollInOrder, InBuffer
  <2>1. "poller" \in Threads
    BY Zenon DEF Threads
  <2>2. InBuffer(f)' = InBuffer(f)
    <3>1. (pc'[f]["poller"] = "enter") <=> (pc[f]["poller"] = "enter")
      <4>1. CASE pc' = pc
        BY <4>1, Zenon
      <4>2. CASE pc' = [pc EXCEPT ![e][t] = "idle"]
        BY <1>2, <1>4, <2>1, <4>2, Zenon
      <4> QED
        BY <1>3, <4>1, <4>2, Zenon
    <3> QED
      BY <1>2, <3>1, Zenon DEF InBuffer
  <2>3. written[Peer(f)] = polled[f] \o InBuffer(f) \o pipe[f]
    BY Zenon DEF PipeInv, PollInOrder, InBuffer
  <2>4. CASE f = e
    <3>1. pipe'[f] = pipe[f] /\ written'[Peer(f)] = written[Peer(f)]
      BY <1>7, <2>4, Peers, Zenon
    <3> QED
      BY <2>2, <2>3, <3>1, Zenon
  <2>5. CASE f = Peer(e)
    <3>1. Peer(f) = e
      BY <2>5, Peers, Zenon
    <3>2. PICK a, b, c : a = polled[f] /\ b = InBuffer(f) /\ c = pipe[f]
      BY Zenon
    <3>3. a \in Seq(Packet) /\ b \in Seq(Packet) /\ c \in Seq(Packet)
      BY <3>2 DEF PipeInv, TypeOK, InBuffer
    <3>4. Append(a \o b \o c, p) = a \o b \o Append(c, p)
      BY <1>6, <3>3, AtTheEnd, Zenon
    <3>5. written'[Peer(f)] = Append(written[Peer(f)], p) /\ pipe'[f] = Append(pipe[f], p)
      BY <1>7, <2>5, <3>1, Zenon
    <3> QED
      BY <2>2, <2>3, <3>2, <3>4, <3>5, Zenon
  <2> QED
    BY <2>4, <2>5, Peers, Zenon
<1> QED
  BY <1>10, <1>11, <1>12, <1>13, Zenon DEF PipeInv

\* A failed packet is skipped; what is left of the message then keeps the bus
\* busy.
LEMMA WriteFailsPreserves ==
  ASSUME PipeInv, NEW e \in Ends, NEW t \in Threads, WriteFileFails(e, t)
  PROVE  PipeInv'
<1>1. /\ pc[e][t] = "write"
      /\ tx_left' = [tx_left EXCEPT ![e] = @ - 1]
      /\ pc' = [pc EXCEPT ![e][t] = "idle"] /\ lock' = [lock EXCEPT ![e] = "free"]
      /\ returned' = [returned EXCEPT ![e] = "ok"] /\ failed' = [failed EXCEPT ![e] = TRUE]
      /\ UNCHANGED <<rx_buf, pipe, alive, sends, messages, written, polled>>
  BY Zenon DEF WriteFileFails, Returns
<1>2. /\ pc \in [Ends -> [Threads -> {"idle", "write", "read", "enter"}]]
      /\ lock \in [Ends -> Threads \cup {"free"}] /\ "free" \notin Threads
      /\ tx_left \in [Ends -> 0..Packets] /\ failed \in [Ends -> BOOLEAN]
      /\ returned \in [Ends -> {"ok", "EBUSY", "ENOMEM"}]
  BY Zenon DEF PipeInv, TypeOK, Threads
<1>3. lock[e] = t /\ tx_left[e] > 0
  BY <1>1, <1>2 DEF PipeInv, LockInv
<1>4. TypeOK'
  <2>1. tx_left[e] - 1 \in 0..Packets
    BY <1>2, <1>3, PipeAssumption
  <2>2. tx_left' \in [Ends -> 0..Packets] /\ failed' \in [Ends -> BOOLEAN]
    BY <1>1, <1>2, <2>1, Zenon
  <2>3. /\ pc' \in [Ends -> [Threads -> {"idle", "write", "read", "enter"}]]
        /\ lock' \in [Ends -> Threads \cup {"free"}]
        /\ returned' \in [Ends -> {"ok", "EBUSY", "ENOMEM"}]
    BY <1>1, <1>2, Zenon
  <2> QED
    BY <1>1, <2>2, <2>3, Zenon DEF PipeInv, TypeOK
<1>5. LockInv'
  BY <1>1, <1>2, <1>3 DEF PipeInv, LockInv
<1>6. RestAfterFailure' /\ BusyOnlyAfterFailure'
  BY <1>1, <1>2, Zenon DEF PipeInv, RestAfterFailure, BusyOnlyAfterFailure
<1>7. "poller" \in Threads
  BY Zenon DEF Threads
<1>8. \A f \in Ends : (pc'[f]["poller"] = "enter") <=> (pc[f]["poller"] = "enter")
  BY <1>1, <1>2, <1>7, Zenon
<1>9. PollInOrder'
  BY <1>1, <1>8, QuietInOrder, Zenon DEF PipeInv
<1> QED
  BY <1>4, <1>5, <1>6, <1>9, Zenon DEF PipeInv

\* The poller moves on outside the critical section.
LEMMA PollerMoves ==
  ASSUME PipeInv, NEW e \in Ends, NEW s \in {"read", "enter"},
         pc[e]["poller"] \in {"idle", "read"}, pc' = [pc EXCEPT ![e]["poller"] = s],
         UNCHANGED <<lock, tx_left, messages, returned, failed>>
  PROVE  /\ pc' \in [Ends -> [Threads -> {"idle", "write", "read", "enter"}]]
         /\ pc'[e]["poller"] = s
         /\ \A f \in Ends : f # e => pc'[f]["poller"] = pc[f]["poller"]
         /\ LockInv' /\ RestAfterFailure' /\ BusyOnlyAfterFailure'
<1>1. /\ pc \in [Ends -> [Threads -> {"idle", "write", "read", "enter"}]]
      /\ "poller" \in Threads
  BY Zenon DEF PipeInv, TypeOK, Threads
<1>2. LockInv'
  BY <1>1 DEF PipeInv, LockInv
<1>3. RestAfterFailure' /\ BusyOnlyAfterFailure'
  BY Zenon DEF PipeInv, RestAfterFailure, BusyOnlyAfterFailure
<1> QED
  BY <1>1, <1>2, <1>3, Zenon

\* PeekNamedPipe moves the poller only.
LEMMA PeekPreserves ==
  ASSUME PipeInv, NEW e \in Ends, PeekNamedPipe(e)
  PROVE  PipeInv'
<1>1. /\ pc[e]["poller"] = "idle" /\ pc' = [pc EXCEPT ![e]["poller"] = "read"]
      /\ UNCHANGED <<lock, tx_left, rx_buf, pipe, alive, sends, messages, returned,
                     written, polled, failed>>
  BY Zenon DEF PeekNamedPipe
<1>2. /\ pc' \in [Ends -> [Threads -> {"idle", "write", "read", "enter"}]]
      /\ pc'[e]["poller"] = "read"
      /\ \A f \in Ends : f # e => pc'[f]["poller"] = pc[f]["poller"]
      /\ LockInv' /\ RestAfterFailure' /\ BusyOnlyAfterFailure'
  BY <1>1, PollerMoves, Zenon
<1>3. TypeOK'
  BY <1>1, <1>2, Zenon DEF PipeInv, TypeOK
<1>4. PollInOrder'
  BY <1>1, <1>2, QuietInOrder, Zenon DEF PipeInv
<1> QED
  BY <1>2, <1>3, <1>4, Zenon DEF PipeInv

\* ReadFile moves one packet from the pipe to the buffer of the poller.
LEMMA ReadPreserves ==
  ASSUME PipeInv, NEW e \in Ends, ReadFile(e)
  PROVE  PipeInv'
<1>1. /\ pc[e]["poller"] = "read" /\ pc' = [pc EXCEPT ![e]["poller"] = "enter"]
      /\ UNCHANGED <<lock, tx_left, alive, sends, messages, returned, written, polled,
                     failed>>
  BY Zenon DEF ReadFile
<1>2. PICK c : c = pipe[e]
  BY Zenon
<1>3. /\ c # <<>>
      /\ rx_buf' = [rx_buf EXCEPT ![e] = <<Head(c)>>]
      /\ pipe' = [pipe EXCEPT ![e] = Tail(c)]
  BY <1>2, Zenon DEF ReadFile
<1>4. /\ pc' \in [Ends -> [Threads -> {"idle", "write", "read", "enter"}]]
      /\ pc'[e]["poller"] = "enter"
      /\ \A f \in Ends : f # e => pc'[f]["poller"] = pc[f]["poller"]
      /\ LockInv' /\ RestAfterFailure' /\ BusyOnlyAfterFailure'
  BY <1>1, PollerMoves, Zenon
<1>5. /\ c \in Seq(Packet) /\ pipe \in [Ends -> Seq(Packet)]
      /\ rx_buf \in [Ends -> Seq(Packet)] /\ polled[e] \in Seq(Packet)
      /\ \A f \in Ends : Len(pipe[f]) <= Capacity[f] /\ Len(rx_buf[f]) <= 1
  BY <1>2, Zenon DEF PipeInv, TypeOK
<1>6. /\ <<Head(c)>> \in Seq(Packet) /\ Tail(c) \in Seq(Packet)
      /\ Len(Tail(c)) = Len(c) - 1 /\ Len(<<Head(c)>>) = 1
      /\ polled[e] \o <<>> \o c = polled[e] \o <<Head(c)>> \o Tail(c)
  BY <1>3, <1>5, FromTheFront, Zenon
<1>7. /\ pipe' \in [Ends -> Seq(Packet)] /\ rx_buf' \in [Ends -> Seq(Packet)]
      /\ pipe'[e] = Tail(c) /\ rx_buf'[e] = <<Head(c)>>
      /\ \A f \in Ends : f # e => pipe'[f] = pipe[f] /\ rx_buf'[f] = rx_buf[f]
  BY <1>3, <1>5, <1>6, Zenon
<1>8. TypeOK'
  <2>1. Len(c) \in Nat /\ Capacity[e] \in Nat /\ Len(c) <= Capacity[e]
    BY <1>2, <1>5, PipeAssumption
  <2>2. Len(pipe'[e]) <= Capacity[e] /\ Len(rx_buf'[e]) <= 1
    BY <1>6, <1>7, <2>1
  <2>3. \A f \in Ends : Len(pipe'[f]) <= Capacity[f] /\ Len(rx_buf'[f]) <= 1
    BY <1>5, <1>7, <2>2, Zenon
  <2> QED
    BY <1>1, <1>4, <1>7, <2>3, Zenon DEF PipeInv, TypeOK
<1>9. PollInOrder'
  <2> SUFFICES ASSUME NEW f \in Ends
               PROVE  written[Peer(f)] = polled[f] \o InBuffer(f)' \o pipe'[f]
    BY <1>1, Zenon DEF PollInOrder, InBuffer
  <2>1. written[Peer(f)] = polled[f] \o InBuffer(f) \o pipe[f]
    BY Zenon DEF PipeInv, PollInOrder, InBuffer
  <2>2. CASE f # e
    BY <1>4, <1>7, <2>1, <2>2, Zenon DEF InBuffer
  <2>3. CASE f = e
    <3>1. InBuffer(f) = <<>> /\ InBuffer(f)' = <<Head(c)>>
      BY <1>1, <1>4, <1>7, <2>3, Zenon DEF InBuffer
    <3> QED
      BY <1>2, <1>6, <1>7, <2>1, <2>3, <3>1, Zenon
  <2> QED
    BY <2>2, <2>3, Zenon
<1> QED
  BY <1>4, <1>8, <1>9, Zenon DEF PipeInv

\* The packet in the buffer is polled or dropped, and the callback may send in
\* turn.
LEMMA ReceivePreserves ==
  ASSUME PipeInv, NEW e \in Ends, PollReceives(e)
  PROVE  PipeInv'
<1>1. /\ pc[e]["poller"] = "enter" /\ lock[e] = "free"
      /\ polled' = [polled EXCEPT ![e] = @ \o rx_buf[e]]
      /\ UNCHANGED <<rx_buf, pipe, alive, sends, written, failed>>
  BY Zenon DEF PollReceives
<1>2. "poller" \in Threads /\ "free" \notin Threads /\ "poller" # "sender"
  BY Zenon DEF Threads
<1>3. /\ pc' \in [Ends -> [Threads -> {"idle", "write", "read", "enter"}]]
      /\ lock' \in [Ends -> Threads \cup {"free"}]
      /\ tx_left' \in [Ends -> 0..Packets] /\ messages' \in [Ends -> 0..MaxMessages]
      /\ returned' \in [Ends -> {"ok", "EBUSY", "ENOMEM"}]
      /\ LockInv' /\ RestAfterFailure' /\ BusyOnlyAfterFailure'
      /\ pc'[e]["poller"] \in {"idle", "write"}
      /\ \A f \in Ends : f # e => pc'[f]["poller"] = pc[f]["poller"]
  <2>1. CASE mctp_message_tx(e, "poller")
    BY <1>1, <1>2, <2>1, MessageTxPreserves
  <2>2. CASE Returns(e, "poller") /\ UNCHANGED <<tx_left, messages, returned>>
    <3>1. /\ pc' = [pc EXCEPT ![e]["poller"] = "idle"]
          /\ lock' = [lock EXCEPT ![e] = "free"]
          /\ UNCHANGED <<tx_left, messages, returned>>
      BY <2>2, Zenon DEF Returns
    <3>2. /\ pc \in [Ends -> [Threads -> {"idle", "write", "read", "enter"}]]
          /\ lock \in [Ends -> Threads \cup {"free"}]
      BY Zenon DEF PipeInv, TypeOK
    <3>3. lock' = lock
      BY <1>1, <3>1, <3>2, Zenon
    <3>4. LockInv'
      BY <1>1, <1>2, <3>1, <3>2, <3>3 DEF PipeInv, LockInv
    <3>5. RestAfterFailure' /\ BusyOnlyAfterFailure'
      BY <1>1, <3>1, <3>3, Zenon DEF PipeInv, RestAfterFailure, BusyOnlyAfterFailure
    <3> QED
      BY <1>2, <3>1, <3>2, <3>3, <3>4, <3>5 DEF PipeInv, TypeOK
  <2> QED
    BY <2>1, <2>2, Zenon DEF PollReceives, Dropped, HandedUp
<1>4. /\ polled \in [Ends -> Seq(Packet)] /\ rx_buf[e] \in Seq(Packet)
      /\ pipe[e] \in Seq(Packet)
  BY Zenon DEF PipeInv, TypeOK
<1>5. PICK a, b, c : a = polled[e] /\ b = rx_buf[e] /\ c = pipe[e]
  BY Zenon
<1>6. a \o b \in Seq(Packet) /\ a \o b \o c = (a \o b) \o <<>> \o c
  <2>1. a \in Seq(Packet) /\ b \in Seq(Packet) /\ c \in Seq(Packet)
    BY <1>4, <1>5, Zenon
  <2> QED
    BY <2>1, FromTheBuffer, Zenon
<1>7. /\ polled' \in [Ends -> Seq(Packet)] /\ polled'[e] = a \o b
      /\ \A f \in Ends : f # e => polled'[f] = polled[f]
  BY <1>1, <1>4, <1>5, <1>6, Zenon
<1>8. TypeOK'
  BY <1>1, <1>3, <1>7, Zenon DEF PipeInv, TypeOK
<1>9. PollInOrder'
  <2> SUFFICES ASSUME NEW f \in Ends
               PROVE  written[Peer(f)] = polled'[f] \o InBuffer(f)' \o pipe[f]
    BY <1>1, Zenon DEF PollInOrder, InBuffer
  <2>1. written[Peer(f)] = polled[f] \o InBuffer(f) \o pipe[f]
    BY Zenon DEF PipeInv, PollInOrder, InBuffer
  <2>2. CASE f # e
    BY <1>1, <1>3, <1>7, <2>1, <2>2, Zenon DEF InBuffer
  <2>3. CASE f = e
    <3>1. InBuffer(f) = b /\ InBuffer(f)' = <<>>
      BY <1>1, <1>3, <1>5, <2>3, Zenon DEF InBuffer
    <3> QED
      BY <1>5, <1>6, <1>7, <2>1, <2>3, <3>1, Zenon
  <2> QED
    BY <2>2, <2>3, Zenon
<1> QED
  BY <1>3, <1>8, <1>9, Zenon DEF PipeInv

-----------------------------------------------------------------------------
\* Every step preserves the invariant; a process may exit with its lock held.
LEMMA NextPipeInv == PipeInv /\ [PipeNext]_pipeVars => PipeInv'
<1> SUFFICES ASSUME PipeInv, [PipeNext]_pipeVars
             PROVE  PipeInv'
  BY Zenon
<1>1. ASSUME NEW e \in Ends, Exit(e)
      PROVE  PipeInv'
  BY <1>1, Zenon DEF Exit, PipeInv, TypeOK, LockInv, RestAfterFailure, BusyOnlyAfterFailure,
              PollInOrder
<1>2. CASE UNCHANGED pipeVars
  BY <1>2 DEF pipeVars, PipeInv, TypeOK, LockInv, RestAfterFailure, BusyOnlyAfterFailure,
              PollInOrder
<1> QED
  BY <1>1, <1>2, SendPreserves, WritePreserves, WriteFailsPreserves, PeekPreserves,
     ReadPreserves, ReceivePreserves, Zenon DEF PipeNext

\* The invariant holds in every state.
LEMMA PipeInvariant == PipeSpec => []PipeInv
<1>1. PipeInit => PipeInv
  <2> SUFFICES ASSUME PipeInit PROVE PipeInv
    BY Zenon
  <2>1. TypeOK
    BY PipeAssumption DEF PipeInit, TypeOK
  <2>2. LockInv /\ RestAfterFailure /\ BusyOnlyAfterFailure
    BY DEF PipeInit, LockInv, RestAfterFailure, BusyOnlyAfterFailure, Threads
  <2>3. PollInOrder
    BY Peers DEF PipeInit, PollInOrder
  <2> QED
    BY <2>1, <2>2, <2>3, Zenon DEF PipeInv
<1> QED
  BY <1>1, NextPipeInv, PTL DEF PipeSpec

\* The variables of both processes keep their types: no pipe overflows, and the
\* packet that is written next is one of the message.
THEOREM PipeTypes == PipeSpec => []TypeOK
BY PipeInvariant, PTL DEF PipeInv

\* mctp_mmbi_poll deals with the packets of the other end in the order written, each
\* once, although it reads outside the lock and processes inside it.
THEOREM PolledInOrder == PipeSpec => []PollInOrder
BY PipeInvariant, PTL DEF PipeInv

\* The lock makes -EBUSY mean that an earlier write failed, also for the messages
\* that a receive callback sends from inside the critical section.
THEOREM BusyMeansFailure == PipeSpec => []BusyOnlyAfterFailure
BY PipeInvariant, PTL DEF PipeInv

=============================================================================
