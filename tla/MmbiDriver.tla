----------------------------- MODULE MmbiDriver -----------------------------
(***************************************************************************)
(* The MMBI driver (windows_driver/MmbiDriver.c): two ring buffers shared  *)
(* by two devices, 0 for the host and 1 for the BMC.  Each request handler *)
(* works on one ring under the global spin lock, so a handler is one step; *)
(* the requests of the two devices come in any order.                      *)
(***************************************************************************)
EXTENDS Naturals, Sequences

CONSTANTS
  RING_BUFFER_SIZE,
  Byte,           \* the values of a byte
  Writes,         \* the data of write requests
  Lengths         \* the lengths of read requests

ASSUME DriverAssumption ==
  /\ RING_BUFFER_SIZE \in Nat \ {0}
  /\ Byte # {}
  /\ Writes \subseteq Seq(Byte)
  /\ Lengths \subseteq Nat

VARIABLES
  GlobalContext,   \* the two rings
  written,         \* device -> how its last write completed
  read             \* device -> what its last read returned

vars == <<GlobalContext, written, read>>

Devices == {0, 1}
Rings == {"HostToBmc", "BmcToHost"}
Cells == 0..(RING_BUFFER_SIZE - 1)

-----------------------------------------------------------------------------
Least(a, b) == IF a <= b THEN a ELSE b

\* RtlCopyMemory to Buffer[at], and from it.
CopyIn(Buffer, at, Data) ==
  [c \in Cells |-> IF c \in at..(at + Len(Data) - 1) THEN Data[c - at + 1] ELSE Buffer[c]]

CopyOut(Buffer, at, n) == [k \in 1..n |-> Buffer[at + k - 1]]

SpaceFree(Ring) == RING_BUFFER_SIZE - Ring.DataAvailable

\* The part of Data that RingBufferWrite takes.
ToWrite(Ring, Data) == Least(Len(Data), SpaceFree(Ring))

\* (Faulty variant for mutation checks: the write index does not wrap.)
WriteNoWrap(Ring, Data) ==
  LET toWrite == ToWrite(Ring, Data)
      firstChunk == RING_BUFFER_SIZE - Ring.WriteIdx
  IN [Ring EXCEPT
       !.Buffer = CopyIn(@, Ring.WriteIdx, SubSeq(Data, 1, Least(toWrite, firstChunk))),
       !.WriteIdx = Ring.WriteIdx + toWrite,
       !.DataAvailable = @ + toWrite]

\* The ring after RingBufferWrite.  (A write of nothing leaves it as it is.)
RingBufferWrite(Ring, Data) ==
  LET toWrite == ToWrite(Ring, Data)
      firstChunk == RING_BUFFER_SIZE - Ring.WriteIdx
      secondChunk == toWrite - firstChunk
  IN IF toWrite <= firstChunk
       THEN [Ring EXCEPT
              !.Buffer = CopyIn(@, Ring.WriteIdx, SubSeq(Data, 1, toWrite)),
              !.WriteIdx = (Ring.WriteIdx + toWrite) % RING_BUFFER_SIZE,
              !.DataAvailable = @ + toWrite]
       ELSE [Ring EXCEPT
              !.Buffer = CopyIn(CopyIn(@, Ring.WriteIdx, SubSeq(Data, 1, firstChunk)),
                                0, SubSeq(Data, firstChunk + 1, toWrite)),
              !.WriteIdx = secondChunk,
              !.DataAvailable = @ + toWrite]

\* What RingBufferRead takes and returns.
ToRead(Ring, Length) == Least(Length, Ring.DataAvailable)

ReadData(Ring, Length) ==
  LET toRead == ToRead(Ring, Length)
      firstChunk == RING_BUFFER_SIZE - Ring.ReadIdx
  IN IF toRead <= firstChunk
       THEN CopyOut(Ring.Buffer, Ring.ReadIdx, toRead)
       ELSE CopyOut(Ring.Buffer, Ring.ReadIdx, firstChunk)
              \o CopyOut(Ring.Buffer, 0, toRead - firstChunk)

\* (Faulty variant: the count is not reduced by a read that wraps.)
ReadWrapKeepsCount(Ring, Length) ==
  LET toRead == ToRead(Ring, Length)
      firstChunk == RING_BUFFER_SIZE - Ring.ReadIdx
  IN IF toRead <= firstChunk
       THEN [Ring EXCEPT !.ReadIdx = (@ + toRead) % RING_BUFFER_SIZE,
                         !.DataAvailable = @ - toRead]
       ELSE [Ring EXCEPT !.ReadIdx = toRead - firstChunk]

\* The ring after RingBufferRead.
RingBufferRead(Ring, Length) ==
  LET toRead == ToRead(Ring, Length)
      firstChunk == RING_BUFFER_SIZE - Ring.ReadIdx
  IN [Ring EXCEPT !.ReadIdx = IF toRead <= firstChunk
                                THEN (@ + toRead) % RING_BUFFER_SIZE
                                ELSE toRead - firstChunk,
                  !.DataAvailable = @ - toRead]

-----------------------------------------------------------------------------
\* The ring a device writes, and the one it reads.
WriteRing(dev) == IF dev = 0 THEN "HostToBmc" ELSE "BmcToHost"
ReadRing(dev) == IF dev = 0 THEN "BmcToHost" ELSE "HostToBmc"

Completion(bytes, Data) ==
  [bytes |-> bytes,
   status |-> IF bytes = 0 /\ Data # <<>> THEN "DEVICE_BUSY" ELSE "SUCCESS"]

\* A write request of a device.  A request whose buffer cannot be retrieved is
\* completed with that error and changes nothing.
MmbiEvtIoWrite(dev, Data) ==
  LET Ring == GlobalContext[WriteRing(dev)] IN
  /\ GlobalContext' = [GlobalContext EXCEPT ![WriteRing(dev)] = RingBufferWrite(Ring, Data)]
  /\ written' = [written EXCEPT ![dev] = Completion(ToWrite(Ring, Data), Data)]
  /\ UNCHANGED read

\* (Faulty variant: a device reads back the ring it writes.)
ReadOwnRing(dev, Length) ==
  LET Ring == GlobalContext[WriteRing(dev)] IN
  /\ GlobalContext' = [GlobalContext EXCEPT ![WriteRing(dev)] = RingBufferRead(Ring, Length)]
  /\ read' = [read EXCEPT ![dev] = ReadData(Ring, Length)]
  /\ UNCHANGED written

\* A read request; with nothing to read it succeeds with no bytes.
MmbiEvtIoRead(dev, Length) ==
  LET Ring == GlobalContext[ReadRing(dev)] IN
  /\ GlobalContext' = [GlobalContext EXCEPT ![ReadRing(dev)] = RingBufferRead(Ring, Length)]
  /\ read' = [read EXCEPT ![dev] = ReadData(Ring, Length)]
  /\ UNCHANGED written

RingType == [Buffer : [Cells -> Byte], WriteIdx : Cells, ReadIdx : Cells,
             DataAvailable : 0..RING_BUFFER_SIZE]

\* GlobalContext is zero-initialised data of the driver image.
Init ==
  /\ \E zero \in Byte :
       GlobalContext = [ring \in Rings |->
         [Buffer |-> [c \in Cells |-> zero], WriteIdx |-> 0, ReadIdx |-> 0,
          DataAvailable |-> 0]]
  /\ written = [dev \in Devices |-> Completion(0, <<>>)]
  /\ read = [dev \in Devices |-> <<>>]

Next ==
  \E dev \in Devices :
    \/ \E Data \in Writes : MmbiEvtIoWrite(dev, Data)
    \/ \E Length \in Lengths : MmbiEvtIoRead(dev, Length)

Spec == Init /\ [][Next]_vars

-----------------------------------------------------------------------------
\* Every variable holds a value of its type; the indices are always inside the
\* buffer and DataAvailable never exceeds its size.
TypeOK ==
  /\ GlobalContext \in [Rings -> RingType]
  /\ written \in [Devices -> [bytes : Nat, status : {"SUCCESS", "DEVICE_BUSY"}]]
  /\ read \in [Devices -> Seq(Byte)]

\* The write index lies DataAvailable cells behind the read index: the three
\* fields that RingBufferWrite and RingBufferRead update separately always
\* describe one region of the buffer.
IndicesAgree ==
  \A ring \in Rings :
    LET Ring == GlobalContext[ring] IN
    Ring.WriteIdx = (Ring.ReadIdx + Ring.DataAvailable) % RING_BUFFER_SIZE

\* The bytes between the read and the write index, from the oldest.
Contents(Ring) ==
  [k \in 1..Ring.DataAvailable |-> Ring.Buffer[(Ring.ReadIdx + k - 1) % RING_BUFFER_SIZE]]

HostFifo == INSTANCE BoundedFifo
              WITH Capacity <- RING_BUFFER_SIZE,
                   queue <- Contents(GlobalContext["HostToBmc"]),
                   result <- written[0], data <- read[1]

BmcFifo == INSTANCE BoundedFifo
             WITH Capacity <- RING_BUFFER_SIZE,
                  queue <- Contents(GlobalContext["BmcToHost"]),
                  result <- written[1], data <- read[0]

\* "Written by 0, Read by 1" and "Written by 1, Read by 0": each ring is a
\* bounded FIFO from one device to the other, whatever goes on in the opposite
\* direction, for writes and reads of any length and across the wrap of either
\* index; a write is refused as busy only when its ring is full.
RingsAreFifos == HostFifo!Spec /\ BmcFifo!Spec

=============================================================================
