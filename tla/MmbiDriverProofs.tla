-------------------------- MODULE MmbiDriverProofs --------------------------
(***************************************************************************)
(* Proofs about MmbiDriver, for every ring size, every set of byte values  *)
(* and reads and writes of every length: the indices stay consistent, and  *)
(* each ring implements BoundedFifo.                                       *)
(***************************************************************************)
EXTENDS MmbiDriver, SequenceTheorems, TLAPS

\* The cell that holds byte k of a region which begins at cell start.
Cell(start, k) == (start + k - 1) % RING_BUFFER_SIZE

\* Inside the buffer a cell number wraps at most once.
LEMMA CellValue ==
  ASSUME NEW start \in Cells, NEW k \in 1..RING_BUFFER_SIZE
  PROVE  Cell(start, k) = IF start + k - 1 < RING_BUFFER_SIZE
                            THEN start + k - 1 ELSE start + k - 1 - RING_BUFFER_SIZE
<1>1. RING_BUFFER_SIZE \in Nat \ {0}
  BY DriverAssumption, Zenon
<1>2. CASE start + k - 1 < RING_BUFFER_SIZE
  BY <1>1, <1>2 DEF Cell, Cells
<1>3. CASE start + k - 1 >= RING_BUFFER_SIZE
  BY <1>1, <1>3 DEF Cell, Cells
<1> QED
  BY <1>1, <1>2, <1>3 DEF Cells

\* Every byte of a region is inside the buffer.
LEMMA CellInside ==
  ASSUME NEW start \in Cells, NEW k \in 1..RING_BUFFER_SIZE
  PROVE  Cell(start, k) \in Cells
BY CellValue, DriverAssumption DEF Cells

\* Different bytes of a region are in different cells.
LEMMA CellsDiffer ==
  ASSUME NEW start \in Cells, NEW j \in 1..RING_BUFFER_SIZE,
         NEW k \in 1..RING_BUFFER_SIZE, j # k
  PROVE  Cell(start, j) # Cell(start, k)
BY CellValue, DriverAssumption DEF Cells

\* A region that begins where another of length n ends continues it.
LEMMA CellShift ==
  ASSUME NEW start \in Cells, NEW n \in 0..RING_BUFFER_SIZE,
         NEW k \in 1..RING_BUFFER_SIZE, n + k <= RING_BUFFER_SIZE
  PROVE  LET next == (start + n) % RING_BUFFER_SIZE
         IN  next \in Cells /\ Cell(next, k) = Cell(start, n + k)
<1> DEFINE next == (start + n) % RING_BUFFER_SIZE
<1>1. RING_BUFFER_SIZE \in Nat \ {0} /\ n + k \in 1..RING_BUFFER_SIZE
  BY DriverAssumption
<1>2. next = IF start + n < RING_BUFFER_SIZE THEN start + n
                                             ELSE start + n - RING_BUFFER_SIZE
  <2>1. CASE start + n < RING_BUFFER_SIZE
    BY <1>1, <2>1 DEF Cells
  <2>2. CASE start + n >= RING_BUFFER_SIZE
    BY <1>1, <2>2 DEF Cells
  <2> QED
    BY <1>1, <2>1, <2>2 DEF Cells
<1>3. next \in Cells
  BY <1>1, <1>2 DEF Cells
<1> HIDE DEF next
<1>4. Cell(next, k) = Cell(start, n + k)
  BY <1>1, <1>2, <1>3, CellValue DEF Cells
<1> QED
  BY <1>3, <1>4, Zenon DEF next

-----------------------------------------------------------------------------
\* A ring whose fields have their types and agree.
RingInv(Ring) ==
  /\ Ring \in RingType
  /\ Ring.WriteIdx = (Ring.ReadIdx + Ring.DataAvailable) % RING_BUFFER_SIZE

\* The contents of a ring are a sequence of bytes.
LEMMA ContentsSeq ==
  ASSUME NEW Ring, RingInv(Ring)
  PROVE  /\ Contents(Ring) \in Seq(Byte)
         /\ Len(Contents(Ring)) = Ring.DataAvailable
         /\ \A k \in 1..Ring.DataAvailable :
              Contents(Ring)[k] = Ring.Buffer[Cell(Ring.ReadIdx, k)]
<1>1. /\ Ring.ReadIdx \in Cells /\ Ring.DataAvailable \in 0..RING_BUFFER_SIZE
      /\ Ring.Buffer \in [Cells -> Byte] /\ RING_BUFFER_SIZE \in Nat \ {0}
  BY DriverAssumption, Zenon DEF RingInv, RingType
<1>2. ASSUME NEW k \in 1..Ring.DataAvailable
      PROVE  Ring.Buffer[Cell(Ring.ReadIdx, k)] \in Byte
  <2>1. k \in 1..RING_BUFFER_SIZE
    BY <1>1
  <2> QED
    BY <1>1, <2>1, CellInside, Zenon
<1>3. Contents(Ring) = [k \in 1..Ring.DataAvailable |-> Ring.Buffer[Cell(Ring.ReadIdx, k)]]
  BY Zenon DEF Contents, Cell
<1>4. Contents(Ring) \in [1..Ring.DataAvailable -> Byte]
  BY <1>2, <1>3, Zenon
<1> QED
  BY <1>1, <1>3, <1>4


\* RtlCopyMemory of n bytes of Data, from byte skip + 1 on, that fit the buffer.
LEMMA CopyInCells ==
  ASSUME NEW Buffer \in [Cells -> Byte], NEW at \in Cells, NEW Data \in Seq(Byte),
         NEW skip \in Nat, NEW n \in Nat, skip + n <= Len(Data),
         at + n <= RING_BUFFER_SIZE
  PROVE  LET new == CopyIn(Buffer, at, SubSeq(Data, skip + 1, skip + n))
         IN  /\ new \in [Cells -> Byte]
             /\ \A c \in Cells : new[c] = IF at <= c /\ c < at + n
                                            THEN Data[skip + (c - at) + 1] ELSE Buffer[c]
<1> DEFINE d == SubSeq(Data, skip + 1, skip + n)
<1>1. RING_BUFFER_SIZE \in Nat \ {0} /\ at \in Nat /\ Len(Data) \in Nat
  BY DriverAssumption DEF Cells
<1>2. Len(d) = n /\ \A k \in 1..n : d[k] = Data[skip + k]
  BY <1>1
<1>3. \A k \in 1..n : Data[skip + k] \in Byte
  BY <1>1
<1> HIDE DEF d
<1>4. ASSUME NEW c \in Cells
      PROVE  /\ CopyIn(Buffer, at, d)[c] = IF at <= c /\ c < at + n
                                             THEN Data[skip + (c - at) + 1] ELSE Buffer[c]
             /\ CopyIn(Buffer, at, d)[c] \in Byte
  <2>1. CopyIn(Buffer, at, d)[c] = IF c \in at..(at + n - 1) THEN d[c - at + 1]
                                                             ELSE Buffer[c]
    BY <1>2, Zenon DEF CopyIn
  <2>2. CASE at <= c /\ c < at + n
    <3>1. c - at + 1 \in 1..n /\ c \in at..(at + n - 1)
      BY <1>1, <2>2 DEF Cells
    <3>2. skip + (c - at + 1) = skip + (c - at) + 1
      BY <1>1 DEF Cells
    <3>3. d[c - at + 1] = Data[skip + (c - at) + 1] /\ d[c - at + 1] \in Byte
      BY <1>2, <1>3, <3>1, <3>2
    <3> QED
      BY <2>1, <2>2, <3>1, <3>3, Zenon
  <2>3. CASE ~(at <= c /\ c < at + n)
    <3>1. c \notin at..(at + n - 1)
      BY <1>1, <2>3 DEF Cells
    <3> QED
      BY <2>1, <2>3, <3>1, Zenon
  <2> QED
    BY <2>2, <2>3, Zenon
<1>5. CopyIn(Buffer, at, d) = [c \in Cells |-> CopyIn(Buffer, at, d)[c]]
  BY Zenon DEF CopyIn
<1>6. CopyIn(Buffer, at, d) \in [Cells -> Byte]
  BY <1>4, <1>5, Zenon
<1> QED
  BY <1>4, <1>6, Zenon DEF d

\* The same for bytes from the beginning of Data.
LEMMA CopyInFirst ==
  ASSUME NEW Buffer \in [Cells -> Byte], NEW at \in Cells, NEW Data \in Seq(Byte),
         NEW n \in Nat, n <= Len(Data), at + n <= RING_BUFFER_SIZE
  PROVE  LET new == CopyIn(Buffer, at, SubSeq(Data, 1, n))
         IN  /\ new \in [Cells -> Byte]
             /\ \A c \in Cells : new[c] = IF at <= c /\ c < at + n
                                            THEN Data[(c - at) + 1] ELSE Buffer[c]
<1>1. PICK skip \in Nat : skip = 0
  BY Zenon
<1>2. /\ skip + 1 = 1 /\ skip + n = n /\ skip + n <= Len(Data)
      /\ \A c \in Cells : skip + (c - at) + 1 = (c - at) + 1
  BY <1>1, DriverAssumption DEF Cells
<1>3. LET new == CopyIn(Buffer, at, SubSeq(Data, skip + 1, skip + n))
      IN  /\ new \in [Cells -> Byte]
          /\ \A c \in Cells : new[c] = IF at <= c /\ c < at + n
                                         THEN Data[skip + (c - at) + 1] ELSE Buffer[c]
  BY <1>2, CopyInCells
<1> QED
  BY <1>2, <1>3, Zenon

\* The buffer after a write of the first n bytes of Data at the write index.
Copied(Buffer, at, Data, n) ==
  LET firstChunk == RING_BUFFER_SIZE - at
  IN IF n <= firstChunk
       THEN CopyIn(Buffer, at, SubSeq(Data, 1, n))
       ELSE CopyIn(CopyIn(Buffer, at, SubSeq(Data, 1, firstChunk)),
                   0, SubSeq(Data, firstChunk + 1, n))

\* Wrapped or not, byte k of the data ends up in cell k of the region that
\* begins at the write index, and every other cell keeps its byte.
LEMMA CopiedCells ==
  ASSUME NEW Buffer \in [Cells -> Byte], NEW at \in Cells, NEW Data \in Seq(Byte),
         NEW n \in 0..RING_BUFFER_SIZE, n <= Len(Data)
  PROVE  LET new == Copied(Buffer, at, Data, n)
         IN  /\ new \in [Cells -> Byte]
             /\ \A k \in 1..n : new[Cell(at, k)] = Data[k]
             /\ \A c \in Cells : (\A k \in 1..n : c # Cell(at, k)) => new[c] = Buffer[c]
<1> DEFINE new == Copied(Buffer, at, Data, n)
           first == RING_BUFFER_SIZE - at
<1>1. /\ RING_BUFFER_SIZE \in Nat \ {0} /\ at \in Nat /\ at < RING_BUFFER_SIZE
      /\ Len(Data) \in Nat /\ n \in Nat /\ first \in Nat
  BY DriverAssumption DEF Cells
<1>2. /\ new \in [Cells -> Byte]
      /\ \A c \in Cells :
           new[c] = IF at <= c /\ c < at + n THEN Data[(c - at) + 1]
                    ELSE IF c < n - first THEN Data[first + c + 1] ELSE Buffer[c]
  <2>1. CASE n <= first
    <3> DEFINE b == CopyIn(Buffer, at, SubSeq(Data, 1, n))
    <3>1. new = b
      BY <1>1, <2>1, Zenon DEF Copied
    <3>2. /\ b \in [Cells -> Byte]
          /\ \A c \in Cells : b[c] = IF at <= c /\ c < at + n
                                       THEN Data[(c - at) + 1] ELSE Buffer[c]
      <4>1. at + n <= RING_BUFFER_SIZE
        BY <1>1, <2>1
      <4> QED
        BY <1>1, <4>1, CopyInFirst
    <3> HIDE DEF b
    <3>3. \A c \in Cells : ~(c < n - first)
      BY <1>1, <2>1 DEF Cells
    <3> QED
      BY <3>1, <3>2, <3>3, Zenon
  <2>2. CASE n > first
    <3> DEFINE b1 == CopyIn(Buffer, at, SubSeq(Data, 1, first))
               b2 == CopyIn(b1, 0, SubSeq(Data, first + 1, first + (n - first)))
    <3>1. new = b2
      <4>1. ~(n <= first) /\ first + (n - first) = n
        BY <1>1, <2>2
      <4> QED
        BY <4>1, Zenon DEF Copied
    <3>2. /\ b1 \in [Cells -> Byte]
          /\ \A c \in Cells : b1[c] = IF at <= c /\ c < at + first
                                        THEN Data[(c - at) + 1] ELSE Buffer[c]
      <4>1. PICK f \in Nat : f = first
        BY <1>1, Zenon
      <4>2. f <= Len(Data) /\ at + f <= RING_BUFFER_SIZE
        BY <1>1, <2>2, <4>1
      <4>3. LET c1 == CopyIn(Buffer, at, SubSeq(Data, 1, f))
            IN  /\ c1 \in [Cells -> Byte]
                /\ \A c \in Cells : c1[c] = IF at <= c /\ c < at + f
                                              THEN Data[(c - at) + 1] ELSE Buffer[c]
        BY <4>2, CopyInFirst, Zenon
      <4> HIDE DEF first
      <4> QED
        BY <4>1, <4>3, Zenon
    <3> HIDE DEF b1
    <3>3. /\ b2 \in [Cells -> Byte]
          /\ \A c \in Cells : b2[c] = IF 0 <= c /\ c < 0 + (n - first)
                                        THEN Data[first + (c - 0) + 1] ELSE b1[c]
      <4>1. /\ 0 \in Cells /\ n - first \in Nat /\ first + (n - first) <= Len(Data)
            /\ 0 + (n - first) <= RING_BUFFER_SIZE
        BY <1>1, <2>2 DEF Cells
      <4> HIDE DEF first
      <4> QED
        BY <1>1, <3>2, <4>1, CopyInCells
    <3> HIDE DEF b2
    <3>4. ASSUME NEW c \in Cells
          PROVE  new[c] = IF at <= c /\ c < at + n THEN Data[(c - at) + 1]
                          ELSE IF c < n - first THEN Data[first + c + 1] ELSE Buffer[c]
      <4>1. CASE at <= c
        <5>1. c < at + n /\ c < at + first /\ ~(c < 0 + (n - first))
          BY <1>1, <2>2, <4>1 DEF Cells
        <5> QED
          BY <3>1, <3>2, <3>3, <4>1, <5>1, Zenon
      <4>2. CASE c < at
        <5>1. /\ ~(at <= c) /\ 0 <= c /\ (c < 0 + (n - first) <=> c < n - first)
              /\ first + (c - 0) + 1 = first + c + 1
          BY <1>1, <2>2, <4>2 DEF Cells
        <5> HIDE DEF first
        <5> QED
          BY <3>1, <3>2, <3>3, <5>1, Zenon
      <4> QED
        BY <1>1, <4>1, <4>2 DEF Cells
    <3> QED
      BY <3>1, <3>3, <3>4, Zenon
  <2> QED
    BY <1>1, <2>1, <2>2
<1> HIDE DEF new
<1>3. ASSUME NEW k \in 1..n
      PROVE  new[Cell(at, k)] = Data[k]
  <2>0. k \in 1..RING_BUFFER_SIZE
    BY <1>1
  <2>1. CASE at + k - 1 < RING_BUFFER_SIZE
    <3>1. Cell(at, k) = at + k - 1 /\ at + k - 1 \in Cells
      BY <1>1, <2>0, <2>1, CellValue DEF Cells
    <3>2. at <= at + k - 1 /\ at + k - 1 < at + n /\ (at + k - 1) - at + 1 = k
      BY <1>1
    <3> QED
      BY <1>2, <3>1, <3>2, Zenon
  <2>2. CASE at + k - 1 >= RING_BUFFER_SIZE
    <3> DEFINE c == at + k - 1 - RING_BUFFER_SIZE
    <3>1. Cell(at, k) = c /\ c \in Cells
      BY <1>1, <2>0, <2>2, CellValue DEF Cells
    <3>2. ~(at <= c) /\ c < n - first /\ first + c + 1 = k
      BY <1>1, <2>2
    <3> QED
      BY <1>2, <3>1, <3>2, Zenon
  <2> QED
    BY <1>1, <2>1, <2>2
<1>4. ASSUME NEW c \in Cells, \A k \in 1..n : c # Cell(at, k)
      PROVE  new[c] = Buffer[c]
  <2>1. ~(at <= c /\ c < at + n)
    <3>1. SUFFICES ASSUME at <= c, c < at + n
                   PROVE  FALSE
      BY Zenon
    <3>2. c - at + 1 \in 1..n /\ c - at + 1 \in 1..RING_BUFFER_SIZE
      BY <1>1, <3>1 DEF Cells
    <3>3. Cell(at, c - at + 1) = c
      BY <1>1, <3>2, CellValue DEF Cells
    <3> QED
      BY <1>4, <3>2, <3>3, Zenon
  <2>2. ~(c < n - first)
    <3>1. SUFFICES ASSUME c < n - first
                   PROVE  FALSE
      BY Zenon
    <3>2. first + c + 1 \in 1..n /\ first + c + 1 \in 1..RING_BUFFER_SIZE
      BY <1>1, <3>1 DEF Cells
    <3>3. Cell(at, first + c + 1) = c
      BY <1>1, <3>2, CellValue DEF Cells
    <3> QED
      BY <1>4, <3>2, <3>3, Zenon
  <2> QED
    BY <1>2, <2>1, <2>2, Zenon
<1> QED
  BY <1>2, <1>3, <1>4, Zenon DEF new

-----------------------------------------------------------------------------
\* An index reduced modulo the size of the buffer, less than one lap ahead.
LEMMA Wrapped ==
  ASSUME NEW N \in Nat \ {0}, NEW r \in 0..(N - 1), NEW k \in 0..N
  PROVE  /\ (r + k) % N = (IF r + k < N THEN r + k ELSE r + k - N)
         /\ (r + k) % N \in 0..(N - 1)
<1>1. CASE r + k < N
  BY <1>1
<1>2. CASE r + k >= N
  BY <1>2
<1> QED
  BY <1>1, <1>2

\* Two steps forward from an index are one long step.
LEMMA WrappedTwice ==
  ASSUME NEW N \in Nat \ {0}, NEW r \in 0..(N - 1), NEW a \in 0..N, NEW n \in 0..N,
         a + n <= N
  PROVE  (((r + a) % N) + n) % N = (r + (a + n)) % N
<1> DEFINE w == (r + a) % N
           m == a + n
<1>1. w = (IF r + a < N THEN r + a ELSE r + a - N) /\ w \in 0..(N - 1)
  BY Wrapped, Zenon
<1>2. m \in 0..N /\ m = a + n
  OBVIOUS
<1> HIDE DEF w, m
<1>3. (r + m) % N = IF r + m < N THEN r + m ELSE r + m - N
  BY <1>2, Wrapped, Zenon
<1>4. (w + n) % N = IF w + n < N THEN w + n ELSE w + n - N
  BY <1>1, Wrapped, Zenon
<1>5. (w + n) % N = (r + m) % N
  BY <1>1, <1>2, <1>3, <1>4
<1> QED
  BY <1>5, Zenon DEF w, m

\* A write keeps a ring consistent and appends what it accepts.
LEMMA WriteAppends ==
  ASSUME NEW Ring, RingInv(Ring), NEW Data \in Seq(Byte)
  PROVE  LET n == ToWrite(Ring, Data)
             new == RingBufferWrite(Ring, Data)
         IN  /\ n \in Nat
             /\ RingInv(new)
             /\ Contents(new) = Contents(Ring) \o SubSeq(Data, 1, n)
<1> DEFINE n == ToWrite(Ring, Data)
           new == RingBufferWrite(Ring, Data)
           W == Ring.WriteIdx
           R == Ring.ReadIdx
           A == Ring.DataAvailable
           b == Copied(Ring.Buffer, W, Data, n)
<1>1. /\ RING_BUFFER_SIZE \in Nat \ {0} /\ W \in Cells /\ R \in Cells
      /\ A \in 0..RING_BUFFER_SIZE /\ Ring.Buffer \in [Cells -> Byte]
      /\ Len(Data) \in Nat /\ Ring \in RingType
      /\ W = (R + A) % RING_BUFFER_SIZE
  BY DriverAssumption DEF RingInv, RingType
<1>2. n \in 0..RING_BUFFER_SIZE /\ n <= Len(Data) /\ A + n <= RING_BUFFER_SIZE
  BY <1>1 DEF ToWrite, Least, SpaceFree
<1> HIDE DEF n
<1>3. (W + n) % RING_BUFFER_SIZE = IF n <= RING_BUFFER_SIZE - W
                                     THEN (W + n) % RING_BUFFER_SIZE
                                     ELSE n - (RING_BUFFER_SIZE - W)
  <2> HIDE DEF W
  <2>1. /\ (W + n) % RING_BUFFER_SIZE = IF W + n < RING_BUFFER_SIZE
                                          THEN W + n ELSE W + n - RING_BUFFER_SIZE
    BY <1>1, <1>2, Wrapped, Zenon DEF Cells
  <2> QED
    BY <1>1, <1>2, <2>1 DEF Cells
<1>4. new = [Ring EXCEPT !.Buffer = b, !.WriteIdx = (W + n) % RING_BUFFER_SIZE,
                         !.DataAvailable = A + n]
  <2>1. CASE n <= RING_BUFFER_SIZE - W
    BY <2>1, Zenon DEF n, RingBufferWrite, Copied
  <2>2. CASE ~(n <= RING_BUFFER_SIZE - W)
    <3>1. new = [Ring EXCEPT !.Buffer = b, !.WriteIdx = n - (RING_BUFFER_SIZE - W),
                             !.DataAvailable = A + n]
      BY <2>2, Zenon DEF n, RingBufferWrite, Copied
    <3> HIDE DEF new, b
    <3> QED
      BY <1>3, <2>2, <3>1, Zenon
  <2> QED
    BY <2>1, <2>2, Zenon
<1>5. /\ b \in [Cells -> Byte]
      /\ \A k \in 1..n : b[Cell(W, k)] = Data[k]
      /\ \A c \in Cells : (\A k \in 1..n : c # Cell(W, k)) => b[c] = Ring.Buffer[c]
  <2> HIDE DEF W
  <2>1. W \in Cells /\ Ring.Buffer \in [Cells -> Byte]
    BY <1>1, Zenon
  <2> QED
    BY <1>2, <2>1, CopiedCells
<1> HIDE DEF b, new
<1>6. /\ new.Buffer = b /\ new.WriteIdx = (W + n) % RING_BUFFER_SIZE
      /\ new.ReadIdx = R /\ new.DataAvailable = A + n
  BY <1>1, <1>4, Zenon DEF RingType
<1> HIDE DEF W, R, A
<1>7. (W + n) % RING_BUFFER_SIZE \in Cells /\ A + n \in 0..RING_BUFFER_SIZE
  BY <1>1, <1>2 DEF Cells
<1>8. (W + n) % RING_BUFFER_SIZE = (R + (A + n)) % RING_BUFFER_SIZE
  <2>1. R \in 0..(RING_BUFFER_SIZE - 1)
    BY <1>1, Zenon DEF Cells
  <2> QED
    BY <1>1, <1>2, <2>1, WrappedTwice, Zenon
<1>9. RingInv(new)
  <2>1. new \in RingType
    BY <1>1, <1>4, <1>5, <1>7, Zenon DEF RingType
  <2> QED
    BY <1>6, <1>8, <2>1, Zenon DEF RingInv
<1>10. Contents(new) = Contents(Ring) \o SubSeq(Data, 1, n)
  <2> DEFINE s == Contents(Ring)
             d == SubSeq(Data, 1, n)
             t == Contents(new)
  <2>1. /\ s \in Seq(Byte) /\ Len(s) = A
        /\ \A k \in 1..A : s[k] = Ring.Buffer[Cell(R, k)]
    BY ContentsSeq, Zenon DEF A, R
  <2>2. /\ t \in Seq(Byte) /\ Len(t) = A + n
        /\ \A k \in 1..(A + n) : t[k] = b[Cell(R, k)]
    BY <1>6, <1>9, ContentsSeq, Zenon
  <2>3. d \in Seq(Byte) /\ Len(d) = n /\ \A k \in 1..n : d[k] = Data[k]
    BY <1>1, <1>2
  <2> HIDE DEF s, d, t
  <2>4. /\ s \o d \in Seq(Byte) /\ Len(s \o d) = A + n
        /\ \A k \in 1..(A + n) : (s \o d)[k] = IF k <= A THEN s[k] ELSE d[k - A]
    BY <2>1, <2>3, ConcatProperties
  <2>5. ASSUME NEW k \in 1..(A + n)
        PROVE  t[k] = (s \o d)[k]
    <3>0. k \in 1..RING_BUFFER_SIZE
      BY <1>1, <1>2
    <3>1. CASE k <= A
      <4>1. ASSUME NEW j \in 1..n
            PROVE  Cell(R, k) # Cell(W, j)
        <5>1. /\ A + j <= RING_BUFFER_SIZE /\ j \in 1..RING_BUFFER_SIZE
              /\ A + j \in 1..RING_BUFFER_SIZE /\ A + j # k
          BY <1>1, <1>2, <3>1
        <5>2. Cell(W, j) = Cell(R, A + j)
          BY <1>1, <5>1, CellShift, Zenon
        <5> QED
          BY <1>1, <3>0, <5>1, <5>2, CellsDiffer, Zenon
      <4>2. b[Cell(R, k)] = Ring.Buffer[Cell(R, k)]
        BY <1>1, <1>5, <3>0, <4>1, CellInside, Zenon
      <4> QED
        BY <1>1, <1>2, <2>1, <2>2, <2>4, <3>1, <4>2
    <3>2. CASE k > A
      <4>1. k - A \in 1..n /\ k - A \in 1..RING_BUFFER_SIZE /\ A + (k - A) = k
        BY <1>1, <1>2, <3>2
      <4>2. Cell(W, k - A) = Cell(R, k)
        <5>1. PICK j \in 1..RING_BUFFER_SIZE : j = k - A
          BY <4>1, Zenon
        <5>2. A + j = k /\ A + j <= RING_BUFFER_SIZE
          BY <1>1, <3>0, <4>1, <5>1
        <5>3. Cell(W, j) = Cell(R, A + j)
          BY <1>1, <5>2, CellShift, Zenon
        <5> QED
          BY <5>1, <5>2, <5>3, Zenon
      <4>3. b[Cell(R, k)] = Data[k - A]
        BY <1>5, <4>1, <4>2, Zenon
      <4>4. t[k] = Data[k - A]
        BY <2>2, <4>3, Zenon
      <4>5. (s \o d)[k] = d[k - A]
        BY <1>1, <2>4, <3>2
      <4> QED
        BY <2>3, <4>1, <4>4, <4>5, Zenon
    <3>3. k <= A \/ k > A
      BY <1>1, <3>0
    <3> QED
      BY <3>1, <3>2, <3>3, Zenon
  <2>6. t = s \o d
    BY <2>2, <2>4, <2>5, SeqEqual, Zenon
  <2> QED
    BY <2>6, Zenon DEF s, d, t
<1>11. n \in Nat
  BY <1>2
<1> QED
  BY <1>9, <1>10, <1>11, Zenon DEF n, new

\* RtlCopyMemory from inside the buffer.
LEMMA CopyOutCells ==
  ASSUME NEW Buffer \in [Cells -> Byte], NEW at \in Nat, NEW n \in Nat,
         at + n <= RING_BUFFER_SIZE
  PROVE  /\ CopyOut(Buffer, at, n) \in Seq(Byte)
         /\ Len(CopyOut(Buffer, at, n)) = n
         /\ \A k \in 1..n : CopyOut(Buffer, at, n)[k] = Buffer[at + k - 1]
<1>1. ASSUME NEW k \in 1..n
      PROVE  Buffer[at + k - 1] \in Byte
  <2>1. at + k - 1 \in Cells
    BY DriverAssumption DEF Cells
  <2> QED
    BY <2>1, Zenon
<1>2. CopyOut(Buffer, at, n) = [k \in 1..n |-> Buffer[at + k - 1]]
  BY Zenon DEF CopyOut
<1> DEFINE d == CopyOut(Buffer, at, n)
<1>3. d \in [1..n -> Byte] /\ \A k \in 1..n : d[k] = Buffer[at + k - 1]
  BY <1>1, <1>2, Zenon
<1> HIDE DEF d
<1>4. d \in Seq(Byte) /\ Len(d) = n
  BY <1>3
<1> QED
  BY <1>3, <1>4, Zenon DEF d

\* d holds the n bytes of the ring from cell at on.
Region(Buffer, at, n, d) ==
  d \in Seq(Byte) /\ Len(d) = n /\ \A k \in 1..n : d[k] = Buffer[Cell(at, k)]

\* The two copies of a read that wraps return one region of the ring.
LEMMA TwoCopies ==
  ASSUME NEW Buffer \in [Cells -> Byte], NEW at \in Cells,
         NEW first \in Nat, at + first = RING_BUFFER_SIZE,
         NEW m \in Nat, first + m <= RING_BUFFER_SIZE
  PROVE  Region(Buffer, at, first + m, CopyOut(Buffer, at, first) \o CopyOut(Buffer, 0, m))
<1> DEFINE s == CopyOut(Buffer, at, first)
           t == CopyOut(Buffer, 0, m)
           d == s \o t
<1>1. RING_BUFFER_SIZE \in Nat \ {0} /\ at \in Nat /\ m <= RING_BUFFER_SIZE
  BY DriverAssumption DEF Cells
<1>2. s \in Seq(Byte) /\ Len(s) = first /\ \A k \in 1..first : s[k] = Buffer[at + k - 1]
  BY <1>1, CopyOutCells
<1>3. t \in Seq(Byte) /\ Len(t) = m /\ \A k \in 1..m : t[k] = Buffer[k - 1]
  <2>1. PICK zero \in Nat : zero = 0
    BY Zenon
  <2>2. zero + m <= RING_BUFFER_SIZE
    BY <1>1, <2>1
  <2>3. /\ CopyOut(Buffer, zero, m) \in Seq(Byte) /\ Len(CopyOut(Buffer, zero, m)) = m
        /\ \A k \in 1..m : CopyOut(Buffer, zero, m)[k] = Buffer[zero + k - 1]
    BY <2>2, CopyOutCells, Zenon
  <2>4. \A k \in 1..m : zero + k - 1 = k - 1
    BY <2>1
  <2> QED
    BY <2>1, <2>3, <2>4, Zenon
<1> HIDE DEF s, t
<1>4. /\ d \in Seq(Byte) /\ Len(d) = first + m
      /\ \A k \in 1..(first + m) : d[k] = IF k <= first THEN s[k] ELSE t[k - first]
  <2>1. /\ d \in Seq(Byte) /\ Len(d) = Len(s) + Len(t)
        /\ \A k \in 1..(Len(s) + Len(t)) :
             d[k] = IF k <= Len(s) THEN s[k] ELSE t[k - Len(s)]
    BY <1>2, <1>3, ConcatProperties
  <2> QED
    BY <1>2, <1>3, <2>1, Zenon
<1> HIDE DEF d
<1>5. ASSUME NEW k \in 1..(first + m)
      PROVE  d[k] = Buffer[Cell(at, k)]
  <2>1. Cell(at, k) = IF at + k - 1 < RING_BUFFER_SIZE
                        THEN at + k - 1 ELSE at + k - 1 - RING_BUFFER_SIZE
    <3>1. k \in 1..RING_BUFFER_SIZE
      BY <1>1
    <3> QED
      BY <3>1, CellValue, Zenon
  <2>2. CASE k <= first
    <3>1. k \in 1..first /\ Cell(at, k) = at + k - 1
      BY <1>1, <2>1, <2>2
    <3> QED
      BY <1>2, <1>4, <2>2, <3>1, Zenon
  <2>3. CASE k > first
    <3>1. k - first \in 1..m /\ Cell(at, k) = (k - first) - 1
      BY <1>1, <2>1, <2>3
    <3>2. d[k] = t[k - first]
      BY <1>4, <2>3
    <3> QED
      BY <1>3, <3>1, <3>2, Zenon
  <2> QED
    BY <2>2, <2>3
<1> QED
  BY <1>4, <1>5, Zenon DEF Region, d, s, t

\* What a read returns is a region of the ring.
LEMMA OutCells ==
  ASSUME NEW Buffer \in [Cells -> Byte], NEW at \in Cells, NEW n \in 0..RING_BUFFER_SIZE,
         NEW first, first = RING_BUFFER_SIZE - at,
         NEW d, d = IF n <= first THEN CopyOut(Buffer, at, n)
                      ELSE CopyOut(Buffer, at, first) \o CopyOut(Buffer, 0, n - first)
  PROVE  Region(Buffer, at, n, d)
<1>1. /\ RING_BUFFER_SIZE \in Nat \ {0} /\ at \in Nat /\ at < RING_BUFFER_SIZE
      /\ first \in Nat /\ at + first = RING_BUFFER_SIZE /\ n \in Nat
  BY DriverAssumption DEF Cells
<1>2. CASE n <= first
  <2>1. at + n <= RING_BUFFER_SIZE
    BY <1>1, <1>2
  <2>2. d \in Seq(Byte) /\ Len(d) = n /\ \A k \in 1..n : d[k] = Buffer[at + k - 1]
    BY <1>1, <1>2, <2>1, CopyOutCells
  <2>3. ASSUME NEW k \in 1..n
        PROVE  Cell(at, k) = at + k - 1
    <3>1. k \in 1..RING_BUFFER_SIZE /\ at + k - 1 < RING_BUFFER_SIZE
      BY <1>1, <2>1
    <3> QED
      BY <3>1, CellValue, Zenon
  <2> QED
    BY <2>2, <2>3, Zenon DEF Region
<1>3. CASE ~(n <= first)
  <2>1. PICK m \in Nat : m = n - first /\ first + m = n
    BY <1>1, <1>3
  <2>2. d = CopyOut(Buffer, at, first) \o CopyOut(Buffer, 0, m)
    BY <1>3, <2>1, Zenon
  <2>3. first + m <= RING_BUFFER_SIZE
    BY <1>1, <2>1
  <2>4. Region(Buffer, at, first + m, d)
    BY <1>1, <2>2, <2>3, TwoCopies, Zenon
  <2> QED
    BY <2>1, <2>4, Zenon
<1> QED
  BY <1>2, <1>3, Zenon

\* A read keeps a ring consistent, returns its oldest bytes and removes them.
LEMMA ReadTakes ==
  ASSUME NEW Ring, RingInv(Ring), NEW Length \in Nat
  PROVE  LET n == ToRead(Ring, Length)
             new == RingBufferRead(Ring, Length)
         IN  /\ n \in Nat
             /\ RingInv(new)
             /\ ReadData(Ring, Length) = SubSeq(Contents(Ring), 1, n)
             /\ Contents(new) = SubSeq(Contents(Ring), n + 1, Len(Contents(Ring)))
<1> DEFINE n == ToRead(Ring, Length)
           new == RingBufferRead(Ring, Length)
           R == Ring.ReadIdx
           A == Ring.DataAvailable
           s == Contents(Ring)
           d == ReadData(Ring, Length)
           first == RING_BUFFER_SIZE - R
<1>1. /\ RING_BUFFER_SIZE \in Nat \ {0} /\ R \in Cells
      /\ A \in 0..RING_BUFFER_SIZE /\ Ring.Buffer \in [Cells -> Byte]
      /\ Ring \in RingType
      /\ Ring.WriteIdx = (R + A) % RING_BUFFER_SIZE
  BY DriverAssumption, Zenon DEF RingInv, RingType
<1>2. n \in 0..A /\ n \in 0..RING_BUFFER_SIZE
  BY <1>1 DEF ToRead, Least
<1>3. /\ s \in Seq(Byte) /\ Len(s) = A
      /\ \A k \in 1..A : s[k] = Ring.Buffer[Cell(R, k)]
  BY ContentsSeq, Zenon
<1>4. d = IF n <= first THEN CopyOut(Ring.Buffer, R, n)
            ELSE CopyOut(Ring.Buffer, R, first) \o CopyOut(Ring.Buffer, 0, n - first)
  BY Zenon DEF ReadData
<1>5. new = [Ring EXCEPT !.ReadIdx = IF n <= first THEN (R + n) % RING_BUFFER_SIZE
                                       ELSE n - first,
                         !.DataAvailable = A - n]
  BY Zenon DEF RingBufferRead
<1> HIDE DEF n, new, R, A, s, d
<1>6. /\ (R + n) % RING_BUFFER_SIZE = IF n <= first THEN (R + n) % RING_BUFFER_SIZE
                                        ELSE n - first
      /\ (R + n) % RING_BUFFER_SIZE \in Cells
  <2>1. /\ (R + n) % RING_BUFFER_SIZE = IF R + n < RING_BUFFER_SIZE
                                          THEN R + n ELSE R + n - RING_BUFFER_SIZE
        /\ (R + n) % RING_BUFFER_SIZE \in Cells
    BY <1>1, <1>2, Wrapped, Zenon DEF Cells
  <2> QED
    BY <1>1, <1>2, <2>1 DEF Cells
<1>7. new = [Ring EXCEPT !.ReadIdx = (R + n) % RING_BUFFER_SIZE, !.DataAvailable = A - n]
  BY <1>5, <1>6, Zenon
<1>8. /\ new.Buffer = Ring.Buffer /\ new.WriteIdx = Ring.WriteIdx
      /\ new.ReadIdx = (R + n) % RING_BUFFER_SIZE /\ new.DataAvailable = A - n
  BY <1>1, <1>7, Zenon DEF RingType
<1>9. A - n \in 0..RING_BUFFER_SIZE /\ n + (A - n) = A
  BY <1>1, <1>2
<1>10. RingInv(new)
  <2>1. new \in RingType
    BY <1>1, <1>6, <1>7, <1>9, Zenon DEF RingType
  <2>2. (((R + n) % RING_BUFFER_SIZE) + (A - n)) % RING_BUFFER_SIZE = (R + A) % RING_BUFFER_SIZE
    <3>1. PICK rest \in 0..RING_BUFFER_SIZE : rest = A - n /\ n + rest = A
      BY <1>9, Zenon
    <3>2. n + rest <= RING_BUFFER_SIZE /\ R \in 0..(RING_BUFFER_SIZE - 1)
      BY <1>1, <3>1 DEF Cells
    <3>3. (((R + n) % RING_BUFFER_SIZE) + rest) % RING_BUFFER_SIZE
            = (R + (n + rest)) % RING_BUFFER_SIZE
      BY <1>1, <1>2, <3>2, WrappedTwice, Zenon
    <3> QED
      BY <3>1, <3>3, Zenon
  <2> QED
    BY <1>1, <1>8, <2>1, <2>2, Zenon DEF RingInv
<1>11. Contents(new) = SubSeq(s, n + 1, A)
  <2> DEFINE t == Contents(new)
             u == SubSeq(s, n + 1, A)
  <2>1. /\ t \in Seq(Byte) /\ Len(t) = A - n
        /\ \A k \in 1..(A - n) : t[k] = Ring.Buffer[Cell((R + n) % RING_BUFFER_SIZE, k)]
    BY <1>8, <1>10, ContentsSeq, Zenon
  <2>2. /\ u \in Seq(Byte) /\ Len(u) = A - n
        /\ \A k \in 1..(A - n) : u[k] = s[n + k]
    <3>1. u \in Seq(Byte) /\ Len(u) = A - n
      BY <1>1, <1>2, <1>3
    <3>2. ASSUME NEW k \in 1..(A - n)
          PROVE  u[k] = s[n + k]
      BY <1>1, <1>2, <1>3
    <3> QED
      BY <3>1, <3>2, Zenon
  <2> HIDE DEF t, u
  <2>3. ASSUME NEW k \in 1..(A - n)
        PROVE  t[k] = u[k]
    <3>1. /\ k \in 1..RING_BUFFER_SIZE /\ n + k <= RING_BUFFER_SIZE /\ n + k \in 1..A
      BY <1>1, <1>2
    <3>2. Cell((R + n) % RING_BUFFER_SIZE, k) = Cell(R, n + k)
      BY <1>1, <1>2, <3>1, CellShift, Zenon
    <3> QED
      BY <1>3, <2>1, <2>2, <3>1, <3>2, Zenon
  <2>4. t = u
    BY <2>1, <2>2, <2>3, SeqEqual, Zenon
  <2> QED
    BY <2>4, Zenon DEF t, u
<1>12. d = SubSeq(s, 1, n)
  <2> DEFINE u == SubSeq(s, 1, n)
  <2>1. u \in Seq(Byte) /\ Len(u) = n /\ \A k \in 1..n : u[k] = s[k]
    BY <1>1, <1>2, <1>3
  <2> HIDE DEF u
  <2>2. /\ d \in Seq(Byte) /\ Len(d) = n
        /\ \A k \in 1..n : d[k] = Ring.Buffer[Cell(R, k)]
    <3>1. PICK f : f = first
      BY Zenon
    <3>2. d = IF n <= f THEN CopyOut(Ring.Buffer, R, n)
                ELSE CopyOut(Ring.Buffer, R, f) \o CopyOut(Ring.Buffer, 0, n - f)
      BY <1>4, <3>1, Zenon
    <3>3. PICK buffer \in [Cells -> Byte] : buffer = Ring.Buffer
      BY <1>1, Zenon
    <3>4. R \in Cells /\ f = RING_BUFFER_SIZE - R
      BY <1>1, <3>1, Zenon
    <3>5. Region(buffer, R, n, d)
      BY <1>2, <3>2, <3>3, <3>4, OutCells, Zenon
    <3> QED
      BY <3>3, <3>5, Zenon DEF Region
  <2>3. ASSUME NEW k \in 1..n PROVE d[k] = u[k]
    BY <1>1, <1>2, <1>3, <2>1, <2>2
  <2>4. d = u
    BY <2>1, <2>2, <2>3, SeqEqual, Zenon
  <2> QED
    BY <2>4, Zenon DEF u
<1>13. n \in Nat
  BY <1>1, <1>2
<1> QED
  BY <1>3, <1>10, <1>11, <1>12, <1>13, Zenon DEF n, new, A, s, d

-----------------------------------------------------------------------------
\* The inductive invariant: types, and indices that describe one region.
IInv == TypeOK /\ IndicesAgree

\* IndicesAgree says of every ring what the lemmas on a single ring assume.
LEMMA RingsConsistent ==
  ASSUME TypeOK
  PROVE  IndicesAgree <=> \A ring \in Rings : RingInv(GlobalContext[ring])
BY Zenon DEF TypeOK, IndicesAgree, RingInv

\* What a request handler does to the ring it works on and to the other one.
LEMMA WriteStep ==
  ASSUME IInv, NEW dev \in Devices, NEW Data \in Writes, MmbiEvtIoWrite(dev, Data)
  PROVE  LET w == WriteRing(dev)
             n == ToWrite(GlobalContext[w], Data)
         IN  /\ IInv'
             /\ Contents(GlobalContext'[w]) = Contents(GlobalContext[w]) \o SubSeq(Data, 1, n)
             /\ \A ring \in Rings \ {w} : GlobalContext'[ring] = GlobalContext[ring]
<1> DEFINE w == WriteRing(dev)
           Ring == GlobalContext[w]
           n == ToWrite(Ring, Data)
           new == RingBufferWrite(Ring, Data)
<1>1. w \in Rings /\ Data \in Seq(Byte) /\ GlobalContext \in [Rings -> RingType]
  BY DriverAssumption, Zenon DEF IInv, TypeOK, WriteRing, Rings
<1>2. /\ GlobalContext' = [GlobalContext EXCEPT ![w] = new]
      /\ written' = [written EXCEPT ![dev] = Completion(n, Data)]
      /\ read' = read
  BY Zenon DEF MmbiEvtIoWrite
<1>3. \A ring \in Rings : RingInv(GlobalContext[ring])
  BY RingsConsistent, Zenon DEF IInv
<1> HIDE DEF w
<1>4. n \in Nat /\ RingInv(new) /\ Contents(new) = Contents(Ring) \o SubSeq(Data, 1, n)
  BY <1>1, <1>3, WriteAppends, Zenon
<1> HIDE DEF n, new
<1>5. GlobalContext'[w] = new /\ \A ring \in Rings \ {w} : GlobalContext'[ring] = GlobalContext[ring]
  BY <1>1, <1>2, Zenon
<1>6. \A ring \in Rings : RingInv(GlobalContext'[ring])
  BY <1>3, <1>4, <1>5, Zenon
<1>7. TypeOK'
  <2>1. new \in RingType
    BY <1>4, Zenon DEF RingInv
  <2>2. GlobalContext' \in [Rings -> RingType]
    BY <1>1, <1>2, <2>1, Zenon
  <2>3. Completion(n, Data) \in [bytes : Nat, status : {"SUCCESS", "DEVICE_BUSY"}]
    BY <1>4, Zenon DEF Completion
  <2> QED
    BY <1>2, <2>2, <2>3, Zenon DEF IInv, TypeOK
<1>8. IndicesAgree'
  BY <1>6, Zenon DEF IndicesAgree, RingInv
<1> QED
  BY <1>4, <1>5, <1>7, <1>8, Zenon DEF IInv, w, n, new

\* MmbiEvtIoRead returns the first bytes of one ring and leaves the other alone.
LEMMA ReadStep ==
  ASSUME IInv, NEW dev \in Devices, NEW Length \in Lengths, MmbiEvtIoRead(dev, Length)
  PROVE  LET r == ReadRing(dev)
             before == Contents(GlobalContext[r])
             n == ToRead(GlobalContext[r], Length)
         IN  /\ IInv'
             /\ read'[dev] = SubSeq(before, 1, n)
             /\ Contents(GlobalContext'[r]) = SubSeq(before, n + 1, Len(before))
             /\ \A ring \in Rings \ {r} : GlobalContext'[ring] = GlobalContext[ring]
<1> DEFINE r == ReadRing(dev)
           Ring == GlobalContext[r]
           n == ToRead(Ring, Length)
           d == ReadData(Ring, Length)
           new == RingBufferRead(Ring, Length)
<1>1. r \in Rings /\ Length \in Nat /\ GlobalContext \in [Rings -> RingType]
  BY DriverAssumption, Zenon DEF IInv, TypeOK, ReadRing, Rings
<1>2. /\ GlobalContext' = [GlobalContext EXCEPT ![r] = new]
      /\ read' = [read EXCEPT ![dev] = d]
      /\ written' = written
  BY Zenon DEF MmbiEvtIoRead
<1>3. \A ring \in Rings : RingInv(GlobalContext[ring])
  BY RingsConsistent, Zenon DEF IInv
<1> HIDE DEF r
<1>4. /\ RingInv(new)
      /\ d = SubSeq(Contents(Ring), 1, n)
      /\ Contents(new) = SubSeq(Contents(Ring), n + 1, Len(Contents(Ring)))
      /\ n \in Nat
  BY <1>1, <1>3, ReadTakes, Zenon
<1>5. d \in Seq(Byte)
  <2>1. /\ Contents(Ring) \in Seq(Byte) /\ Len(Contents(Ring)) = Ring.DataAvailable
        /\ Ring.DataAvailable \in Nat
    BY <1>1, <1>3, ContentsSeq, DriverAssumption DEF RingType
  <2>2. n <= Len(Contents(Ring))
    BY <1>1, <2>1 DEF ToRead, Least
  <2> HIDE DEF n, Ring
  <2> QED
    BY <1>4, <2>1, <2>2
<1> HIDE DEF n, new, d
<1>6. GlobalContext'[r] = new /\ \A ring \in Rings \ {r} : GlobalContext'[ring] = GlobalContext[ring]
  BY <1>1, <1>2, Zenon
<1>7. \A ring \in Rings : RingInv(GlobalContext'[ring])
  BY <1>3, <1>4, <1>6, Zenon
<1>8. TypeOK'
  <2>1. new \in RingType
    BY <1>4, Zenon DEF RingInv
  <2>2. GlobalContext' \in [Rings -> RingType]
    BY <1>1, <1>2, <2>1, Zenon
  <2> QED
    BY <1>2, <1>5, <2>2, Zenon DEF IInv, TypeOK
<1>9. IndicesAgree'
  BY <1>7, Zenon DEF IndicesAgree, RingInv
<1>10. read'[dev] = d
  BY <1>2, Zenon DEF IInv, TypeOK
<1> QED
  BY <1>4, <1>6, <1>8, <1>9, <1>10, Zenon DEF IInv, r, n, new, d

\* Both rings are empty at first, with their indices at the start.
LEMMA InitIInv == Init => IInv
<1> SUFFICES ASSUME Init PROVE IInv
  BY Zenon
<1>1. PICK zero \in Byte :
        GlobalContext = [ring \in Rings |->
          [Buffer |-> [c \in Cells |-> zero], WriteIdx |-> 0, ReadIdx |-> 0,
           DataAvailable |-> 0]]
  BY Zenon DEF Init
<1>2. RING_BUFFER_SIZE \in Nat \ {0} /\ 0 \in Cells /\ 0 \in 0..RING_BUFFER_SIZE
  BY DriverAssumption DEF Cells
<1>3. GlobalContext \in [Rings -> RingType]
  BY <1>1, <1>2, Zenon DEF RingType
<1>4. Completion(0, <<>>) \in [bytes : Nat, status : {"SUCCESS", "DEVICE_BUSY"}]
  BY Zenon DEF Completion
<1>5. <<>> \in Seq(Byte)
  OBVIOUS
<1>6. TypeOK
  BY <1>3, <1>4, <1>5, Zenon DEF Init, TypeOK
<1>7. IndicesAgree
  BY <1>1, <1>2 DEF IndicesAgree
<1> QED
  BY <1>6, <1>7, Zenon DEF IInv

\* Every request of either device keeps the indices of both rings in agreement.
LEMMA NextIInv == IInv /\ [Next]_vars => IInv'
<1> SUFFICES ASSUME IInv, [Next]_vars PROVE IInv'
  BY Zenon
<1>1. ASSUME NEW dev \in Devices, NEW Data \in Writes, MmbiEvtIoWrite(dev, Data)
      PROVE  IInv'
  BY <1>1, WriteStep, Zenon
<1>2. ASSUME NEW dev \in Devices, NEW Length \in Lengths, MmbiEvtIoRead(dev, Length)
      PROVE  IInv'
  BY <1>2, ReadStep, Zenon
<1>3. CASE UNCHANGED vars
  BY <1>3, Zenon DEF vars, IInv, TypeOK, IndicesAgree
<1> QED
  BY <1>1, <1>2, <1>3, Zenon DEF Next

\* In every execution, for every buffer size, the ring indices stay inside the
\* buffer and the read index, the write index and the count agree.
THEOREM DriverInvariant == Spec => []IInv
BY InitIInv, NextIInv, PTL DEF Spec

\* Every variable of the driver always holds a value of its type: RingBufferWrite
\* and RingBufferRead never leave an index outside the buffer.
THEOREM DriverTypeOK == Spec => []TypeOK
<1>1. IInv => TypeOK
  BY Zenon DEF IInv
<1> QED
  BY <1>1, DriverInvariant, PTL

\* The write index is always DataAvailable cells ahead of the read index.
THEOREM DriverIndicesAgree == Spec => []IndicesAgree
<1>1. IInv => IndicesAgree
  BY Zenon DEF IInv
<1> QED
  BY <1>1, DriverInvariant, PTL

-----------------------------------------------------------------------------
\* What a write completes with is what the abstract queue promises.
LEMMA CompletionAgrees ==
  ASSUME NEW Ring, RingInv(Ring), NEW Data \in Seq(Byte)
  PROVE  LET q == Contents(Ring)
             room == RING_BUFFER_SIZE - Len(q)
             n == IF Len(Data) <= room THEN Len(Data) ELSE room
         IN  /\ ToWrite(Ring, Data) = n
             /\ Completion(n, Data)
                  = [bytes |-> n, status |-> IF Len(q) = RING_BUFFER_SIZE /\ Data # <<>>
                                               THEN "DEVICE_BUSY" ELSE "SUCCESS"]
<1>1. /\ Len(Contents(Ring)) = Ring.DataAvailable /\ Ring.DataAvailable \in Nat
      /\ Ring.DataAvailable <= RING_BUFFER_SIZE /\ RING_BUFFER_SIZE \in Nat
      /\ Len(Data) \in Nat /\ (Data # <<>> => Len(Data) # 0)
  BY ContentsSeq, DriverAssumption, EmptySeq DEF RingInv, RingType
<1> QED
  BY <1>1 DEF ToWrite, Least, SpaceFree, Completion

\* The step that a handler is in one direction: a step of that direction's queue.
LEMMA HostStep ==
  ASSUME IInv, [Next]_vars
  PROVE  [HostFifo!Next]_HostFifo!vars
<1> DEFINE Ring == GlobalContext["HostToBmc"]
           q == Contents(Ring)
<1>1. /\ RingInv(Ring) /\ "HostToBmc" \in Rings
      /\ written \in [Devices -> [bytes : Nat, status : {"SUCCESS", "DEVICE_BUSY"}]]
      /\ read \in [Devices -> Seq(Byte)]
  BY RingsConsistent, Zenon DEF IInv, TypeOK, Rings
<1>2. ASSUME NEW Data \in Writes, MmbiEvtIoWrite(0, Data)
      PROVE  HostFifo!Write(Data)
  <2>1. 0 \in Devices /\ Data \in Seq(Byte) /\ WriteRing(0) = "HostToBmc"
    BY DriverAssumption, Zenon DEF Devices, WriteRing
  <2>2. q' = q \o SubSeq(Data, 1, ToWrite(Ring, Data))
    BY <1>2, <2>1, WriteStep, Zenon
  <2>3. /\ written'[0] = Completion(ToWrite(Ring, Data), Data)
        /\ read'[1] = read[1]
    BY <1>1, <1>2, <2>1, Zenon DEF MmbiEvtIoWrite
  <2> QED
    BY <1>1, <2>1, <2>2, <2>3, CompletionAgrees, Zenon DEF HostFifo!Write, HostFifo!Least
<1>3. ASSUME NEW Data \in Writes, MmbiEvtIoWrite(1, Data)
      PROVE  UNCHANGED HostFifo!vars
  <2>1. 1 \in Devices /\ "HostToBmc" \in Rings \ {WriteRing(1)}
    BY DEF Devices, WriteRing, Rings
  <2>2. GlobalContext'["HostToBmc"] = GlobalContext["HostToBmc"]
    BY <1>3, <2>1, WriteStep, Zenon
  <2>3. written'[0] = written[0] /\ read'[1] = read[1]
    BY <1>1, <1>3 DEF MmbiEvtIoWrite, Devices
  <2> QED
    BY <2>2, <2>3, Zenon DEF HostFifo!vars
<1>4. ASSUME NEW Length \in Lengths, MmbiEvtIoRead(1, Length)
      PROVE  HostFifo!Read(Length)
  <2>1. 1 \in Devices /\ Length \in Nat /\ ReadRing(1) = "HostToBmc"
    BY DriverAssumption DEF Devices, ReadRing
  <2> DEFINE n == ToRead(Ring, Length)
  <2>2. read'[1] = SubSeq(q, 1, n) /\ q' = SubSeq(q, n + 1, Len(q))
    BY <1>4, <2>1, ReadStep
  <2>3. written'[0] = written[0]
    BY <1>4, Zenon DEF MmbiEvtIoRead
  <2>4. n = IF Length <= Len(q) THEN Length ELSE Len(q)
    BY <1>1, ContentsSeq, Zenon DEF ToRead, Least
  <2> HIDE DEF n
  <2> QED
    BY <2>2, <2>3, <2>4, Zenon DEF HostFifo!Read, HostFifo!Least
<1>5. ASSUME NEW Length \in Lengths, MmbiEvtIoRead(0, Length)
      PROVE  UNCHANGED HostFifo!vars
  <2>1. 0 \in Devices /\ "HostToBmc" \in Rings \ {ReadRing(0)}
    BY Zenon DEF Devices, ReadRing, Rings
  <2>2. GlobalContext'["HostToBmc"] = GlobalContext["HostToBmc"]
    BY <1>5, <2>1, ReadStep, Zenon
  <2>3. written'[0] = written[0] /\ read'[1] = read[1]
    BY <1>1, <1>5 DEF MmbiEvtIoRead, Devices
  <2> QED
    BY <2>2, <2>3, Zenon DEF HostFifo!vars
<1>6. CASE UNCHANGED vars
  BY <1>6, Zenon DEF vars, HostFifo!vars
<1> QED
  BY <1>2, <1>3, <1>4, <1>5, <1>6, Zenon DEF Next, Devices, HostFifo!Next

\* The same for the other direction.
LEMMA BmcStep ==
  ASSUME IInv, [Next]_vars
  PROVE  [BmcFifo!Next]_BmcFifo!vars
<1> DEFINE Ring == GlobalContext["BmcToHost"]
           q == Contents(Ring)
<1>1. /\ RingInv(Ring) /\ "BmcToHost" \in Rings
      /\ written \in [Devices -> [bytes : Nat, status : {"SUCCESS", "DEVICE_BUSY"}]]
      /\ read \in [Devices -> Seq(Byte)]
  BY RingsConsistent, Zenon DEF IInv, TypeOK, Rings
<1>2. ASSUME NEW Data \in Writes, MmbiEvtIoWrite(1, Data)
      PROVE  BmcFifo!Write(Data)
  <2>1. 1 \in Devices /\ Data \in Seq(Byte) /\ WriteRing(1) = "BmcToHost"
    BY DriverAssumption DEF Devices, WriteRing
  <2>2. q' = q \o SubSeq(Data, 1, ToWrite(Ring, Data))
    BY <1>2, <2>1, WriteStep, Zenon
  <2>3. /\ written'[1] = Completion(ToWrite(Ring, Data), Data)
        /\ read'[0] = read[0]
    BY <1>1, <1>2, <2>1, Zenon DEF MmbiEvtIoWrite
  <2> QED
    BY <1>1, <2>1, <2>2, <2>3, CompletionAgrees, Zenon DEF BmcFifo!Write, BmcFifo!Least
<1>3. ASSUME NEW Data \in Writes, MmbiEvtIoWrite(0, Data)
      PROVE  UNCHANGED BmcFifo!vars
  <2>1. 0 \in Devices /\ "BmcToHost" \in Rings \ {WriteRing(0)}
    BY Zenon DEF Devices, WriteRing, Rings
  <2>2. GlobalContext'["BmcToHost"] = GlobalContext["BmcToHost"]
    BY <1>3, <2>1, WriteStep, Zenon
  <2>3. written'[1] = written[1] /\ read'[0] = read[0]
    BY <1>1, <1>3 DEF MmbiEvtIoWrite, Devices
  <2> QED
    BY <2>2, <2>3, Zenon DEF BmcFifo!vars
<1>4. ASSUME NEW Length \in Lengths, MmbiEvtIoRead(0, Length)
      PROVE  BmcFifo!Read(Length)
  <2>1. 0 \in Devices /\ Length \in Nat /\ ReadRing(0) = "BmcToHost"
    BY DriverAssumption, Zenon DEF Devices, ReadRing
  <2> DEFINE n == ToRead(Ring, Length)
  <2>2. read'[0] = SubSeq(q, 1, n) /\ q' = SubSeq(q, n + 1, Len(q))
    BY <1>4, <2>1, ReadStep, Zenon
  <2>3. written'[1] = written[1]
    BY <1>4, Zenon DEF MmbiEvtIoRead
  <2>4. n = IF Length <= Len(q) THEN Length ELSE Len(q)
    BY <1>1, ContentsSeq, Zenon DEF ToRead, Least
  <2> HIDE DEF n
  <2> QED
    BY <2>2, <2>3, <2>4, Zenon DEF BmcFifo!Read, BmcFifo!Least
<1>5. ASSUME NEW Length \in Lengths, MmbiEvtIoRead(1, Length)
      PROVE  UNCHANGED BmcFifo!vars
  <2>1. 1 \in Devices /\ "BmcToHost" \in Rings \ {ReadRing(1)}
    BY DEF Devices, ReadRing, Rings
  <2>2. GlobalContext'["BmcToHost"] = GlobalContext["BmcToHost"]
    BY <1>5, <2>1, ReadStep, Zenon
  <2>3. written'[1] = written[1] /\ read'[0] = read[0]
    BY <1>1, <1>5 DEF MmbiEvtIoRead, Devices
  <2> QED
    BY <2>2, <2>3, Zenon DEF BmcFifo!vars
<1>6. CASE UNCHANGED vars
  BY <1>6, Zenon DEF vars, BmcFifo!vars
<1> QED
  BY <1>2, <1>3, <1>4, <1>5, <1>6, Zenon DEF Next, Devices, BmcFifo!Next

\* Each ring implements a bounded FIFO queue, for every buffer size and every
\* length of the requests: nothing that MmbiEvtIoWrite accepted is lost,
\* duplicated or reordered before MmbiEvtIoRead returns it, and a write is refused
\* as busy only when the ring is full.
THEOREM DriverRingsAreFifos == Spec => RingsAreFifos
<1>1. Init => HostFifo!Init /\ BmcFifo!Init
  <2> SUFFICES ASSUME Init PROVE HostFifo!Init /\ BmcFifo!Init
    BY Zenon
  <2>1. ASSUME NEW ring \in Rings
        PROVE  Contents(GlobalContext[ring]) = <<>>
    <3>1. IInv
      BY InitIInv, Zenon
    <3>2. RingInv(GlobalContext[ring]) /\ GlobalContext[ring].DataAvailable = 0
      BY <3>1, RingsConsistent DEF IInv, Init
    <3> QED
      BY <3>2, ContentsSeq, EmptySeq, Zenon
  <2>2. /\ written[0] = [bytes |-> 0, status |-> "SUCCESS"] /\ read[0] = <<>>
        /\ written[1] = [bytes |-> 0, status |-> "SUCCESS"] /\ read[1] = <<>>
    BY Zenon DEF Init, Completion, Devices
  <2> QED
    BY <2>1, <2>2, Zenon DEF HostFifo!Init, BmcFifo!Init, Rings
<1>2. IInv /\ [Next]_vars => [HostFifo!Next]_HostFifo!vars /\ [BmcFifo!Next]_BmcFifo!vars
  BY HostStep, BmcStep, Zenon
<1> QED
  BY <1>1, <1>2, DriverInvariant, PTL DEF Spec, RingsAreFifos, HostFifo!Spec, BmcFifo!Spec

=============================================================================
