------------------------ MODULE ByteBufferImpl_proofs ------------------------
(***************************************************************************)
(* Lemmas about the operators of ByteBufferImpl, for every chunk capacity  *)
(* and every set of addresses: in which case each of them keeps a buffer   *)
(* in good order.                                                          *)
(***************************************************************************)
EXTENDS ByteBufferImpl, TLAPS

(* The buffer stores the stream of w bytes while s bytes of a skip are      *)
(* still to be walked over.                                                 *)
Good(b, w, s) ==
  /\ b \in ByteBuffers
  /\ DequeOwnsHeap(b)
  /\ CursorsInDeque(b)
  /\ b.readableBytes + s = Distance(b)
  /\ Stored(b, w)

-----------------------------------------------------------------------------
(* Offsets of chunks: the only products in the model. *)

LEMMA BeforeFirst == Before(1) = 0
BY CapacityAssumption DEF Before

LEMMA BeforeNext ==
  ASSUME NEW i \in Nat
  PROVE  Before(i) \in Int /\ Before(i + 1) = Before(i) + SingleCapacity
BY CapacityAssumption DEF Before

LEMMA BeforeNonNegative ==
  ASSUME NEW i \in Nat, i >= 1
  PROVE  Before(i) >= 0
<1>1. i - 1 \in Nat OBVIOUS
<1>2. ASSUME NEW m \in Nat, NEW n \in Nat PROVE m * n >= 0 OBVIOUS
<1> QED BY <1>1, <1>2, CapacityAssumption DEF Before

(* Offsets and cursors are integers. *)
LEMMA OffsetsAreIntegers == Offset \subseteq Int /\ 0 .. SingleCapacity \subseteq Int
BY CapacityAssumption DEF Offset

(* Good, with every field's type spelled out. *)
LEMMA GoodFields ==
  ASSUME NEW b, NEW w \in Nat, NEW s \in Nat, Good(b, w, s)
  PROVE  /\ b.buffers \in Seq(Addr)
         /\ b.live \in SUBSET Addr
         /\ b.mem \in [Addr -> [Offset -> Int]]
         /\ b.currentReadBuffer \in Addr
         /\ b.currentWriteBuffer \in Addr
         /\ b.localReaderIndex \in 0 .. SingleCapacity
         /\ b.localWriterIndex \in 0 .. SingleCapacity
         /\ b.readableBytes \in Nat
         /\ Len(b.buffers) \in Nat
         /\ Len(b.buffers) >= 1
         /\ Distance(b) \in Int
         /\ Origin(b, w) \in Nat
<1>1. b \in ByteBuffers /\ CursorsInDeque(b) /\ Stored(b, w) BY DEF Good
<1>2. /\ b.buffers \in Seq(Addr)
      /\ b.live \in SUBSET Addr
      /\ b.mem \in [Addr -> [Offset -> Int]]
      /\ b.currentWriteBuffer \in Addr
      /\ b.localReaderIndex \in 0 .. SingleCapacity
      /\ b.localWriterIndex \in 0 .. SingleCapacity
      /\ b.readableBytes \in Nat
  BY <1>1 DEF ByteBuffers
<1>3. Len(b.buffers) \in Nat /\ Len(b.buffers) >= 1
  BY <1>1, <1>2 DEF CursorsInDeque
<1>4. b.currentReadBuffer \in Addr
  BY <1>1, <1>2, <1>3 DEF CursorsInDeque
<1>5. Before(Len(b.buffers)) \in Int BY <1>3, BeforeNext
<1>6. Distance(b) \in Int /\ Origin(b, w) \in Int
  BY <1>2, <1>5, CapacityAssumption DEF Distance, Origin
<1>7. Origin(b, w) >= 0 BY <1>1 DEF Stored
<1> QED BY <1>2, <1>3, <1>4, <1>6, <1>7

LEMMA NewByteBufferGood == Good(NewByteBuffer, 0, 0)
<1> DEFINE b == NewByteBuffer
<1>1. FirstChunk \in Addr BY AddrAssumption DEF FirstChunk
<1>2. /\ b.buffers = <<FirstChunk>>
      /\ b.live = {FirstChunk}
      /\ b.mem = [a \in Addr |-> [p \in Offset |-> Uninitialised]]
      /\ b.currentReadBuffer = FirstChunk
      /\ b.currentWriteBuffer = FirstChunk
      /\ b.localReaderIndex = 0
      /\ b.localWriterIndex = 0
      /\ b.readableBytes = 0
  BY DEF NewByteBuffer
<1>3. b \in ByteBuffers
  <2>1. Uninitialised \in Int BY DEF Uninitialised
  <2>2. 0 \in 0 .. SingleCapacity BY CapacityAssumption
  <2> QED BY <1>1, <2>1, <2>2 DEF NewByteBuffer, ByteBuffers
<1>4. Len(b.buffers) = 1 /\ b.buffers[1] = FirstChunk BY <1>1, <1>2
<1>5. DequeOwnsHeap(b) BY <1>2, <1>4 DEF DequeOwnsHeap, Chunks
<1>6. CursorsInDeque(b) BY <1>2, <1>4 DEF CursorsInDeque
<1>7. b.readableBytes + 0 = Distance(b)
  BY <1>2, <1>4, BeforeFirst DEF Distance
<1>8. Stored(b, 0)
  BY <1>2, <1>4, BeforeFirst DEF Stored, Origin, Offset
<1> QED BY <1>3, <1>5, <1>6, <1>7, <1>8 DEF Good

-----------------------------------------------------------------------------
(* Operators of the write side. *)

LEMMA NewChunkIsFree ==
  ASSUME NEW b, Addr \ b.live # {}
  PROVE  NewChunk(b) \in Addr /\ NewChunk(b) \notin b.live
BY DEF NewChunk

(* AppendBuffer on a full last chunk, with memory left. *)
LEMMA AppendBufferGood ==
  ASSUME NEW b, NEW w \in Nat, NEW s \in Nat, Good(b, w, s),
         b.localWriterIndex = SingleCapacity, Addr \ b.live # {}
  PROVE  /\ Good(AppendBuffer(b), w, s)
         /\ AppendBuffer(b).localWriterIndex = 0
         /\ AppendBuffer(b).localReaderIndex = b.localReaderIndex
         /\ AppendBuffer(b).readableBytes = b.readableBytes
         /\ AppendBuffer(b).live = b.live \cup {NewChunk(b)}
<1> DEFINE c == AppendBuffer(b)
           new == NewChunk(b)
           L == Len(b.buffers)
<1>1. new \in Addr /\ new \notin b.live BY NewChunkIsFree
<1>2. b \in ByteBuffers BY DEF Good
<1>3. /\ c \in ByteBuffers
      /\ c.buffers = Append(b.buffers, new)
      /\ c.live = b.live \cup {new}
      /\ c.mem = b.mem
      /\ c.currentReadBuffer = b.currentReadBuffer
      /\ c.currentWriteBuffer = new
      /\ c.localReaderIndex = b.localReaderIndex
      /\ c.localWriterIndex = 0
      /\ c.readableBytes = b.readableBytes
  <2>1. 0 \in 0 .. SingleCapacity BY CapacityAssumption
  <2>0. b.buffers \in Seq(Addr) BY GoodFields
  <2>2. Append(b.buffers, new) \in Seq(Addr) BY <1>1, <2>0
  <2>3. b.live \cup {new} \in SUBSET Addr BY <1>1, GoodFields
  <2> HIDE DEF new
  <2> QED BY <1>1, <1>2, <2>1, <2>2, <2>3 DEF AppendBuffer, ByteBuffers, new
<1>4. /\ L \in Nat /\ L >= 1
      /\ b.localReaderIndex \in 0 .. SingleCapacity
  BY GoodFields
<1>5. /\ Len(c.buffers) = L + 1
      /\ c.buffers[L + 1] = new
      /\ \A i \in 1 .. L : c.buffers[i] = b.buffers[i]
  BY <1>1, <1>3, <1>4, GoodFields
<1> HIDE DEF c, new
<1>6. DequeOwnsHeap(c)
  <2>1. b.live = Chunks(b) BY DEF Good, DequeOwnsHeap
  <2>2. \A i \in 1 .. L : b.buffers[i] \in b.live BY <2>1 DEF Chunks
  <2>3. Chunks(c) = Chunks(b) \cup {new}
    <3>1. L + 1 \in 1 .. Len(c.buffers) BY <1>4, <1>5
    <3>2. \A i \in 1 .. L : i \in 1 .. Len(c.buffers) BY <1>4, <1>5
    <3>3. \A i \in 1 .. Len(c.buffers) : i = L + 1 \/ i \in 1 .. L
      BY <1>4, <1>5
    <3> HIDE DEF L
    <3>4. Chunks(b) = {b.buffers[i] : i \in 1 .. L} BY DEF Chunks, L
    <3> QED BY <1>5, <3>1, <3>2, <3>3, <3>4 DEF Chunks
  <2>4. ASSUME NEW i \in 1 .. L + 1, NEW j \in 1 .. L + 1,
               c.buffers[i] = c.buffers[j]
        PROVE  i = j
    <3>1. CASE i = L + 1 /\ j = L + 1 BY <3>1
    <3>2. CASE i = L + 1 /\ j # L + 1
      <4>1. j \in 1 .. L BY <3>2, <1>4
      <4> QED BY <4>1, <3>2, <2>2, <2>4, <1>1, <1>5
    <3>3. CASE i # L + 1 /\ j = L + 1
      <4>1. i \in 1 .. L BY <3>3, <1>4
      <4> QED BY <4>1, <3>3, <2>2, <2>4, <1>1, <1>5
    <3>4. CASE i # L + 1 /\ j # L + 1
      <4>1. i \in 1 .. L /\ j \in 1 .. L BY <3>4, <1>4
      <4> QED BY <4>1, <2>4, <1>5 DEF Good, DequeOwnsHeap
    <3> QED BY <3>1, <3>2, <3>3, <3>4
  <2> QED BY <1>3, <1>5, <2>1, <2>3, <2>4 DEF DequeOwnsHeap
<1>7. CursorsInDeque(c)
  BY <1>3, <1>4, <1>5 DEF CursorsInDeque, Good
<1>8. Before(L + 1) = Before(L) + SingleCapacity /\ Before(L) \in Int
  BY <1>4, BeforeNext
<1>9. Distance(c) = Distance(b)
  BY <1>3, <1>4, <1>5, <1>8, CapacityAssumption DEF Distance
<1>10. Origin(c, w) = Origin(b, w)
  BY <1>3, <1>5, <1>8, CapacityAssumption DEF Origin
<1>11. Stored(c, w)
  <2> SUFFICES ASSUME NEW i \in 1 .. L + 1, NEW p \in Offset,
                      i < L + 1 \/ p < 0
               PROVE  c.mem[c.buffers[i]][p] = Origin(c, w) + Before(i) + p
    BY <1>3, <1>5, <1>10 DEF Stored, Good
  <2>1. i \in 1 .. L BY <1>4 DEF Offset
  <2>2. i < L \/ p < b.localWriterIndex
    BY CapacityAssumption DEF Offset
  <2>3. Stored(b, w) BY DEF Good
  <2> QED BY <1>3, <1>5, <1>10, <2>1, <2>2, <2>3 DEF Stored
<1>12. b.readableBytes + s = Distance(b) BY DEF Good
<1> QED BY <1>3, <1>6, <1>7, <1>9, <1>11, <1>12 DEF Good, c, new

(* Copying the next n bytes of the stream into the last chunk. *)
LEMMA CopyInGood ==
  ASSUME NEW b, NEW w \in Nat, NEW s \in Nat, Good(b, w, s),
         NEW n \in Nat, b.localWriterIndex + n <= SingleCapacity
  PROVE  /\ Good(CopyIn(b, n, w), w + n, s)
         /\ CopyIn(b, n, w).localWriterIndex = b.localWriterIndex + n
         /\ CopyIn(b, n, w).localReaderIndex = b.localReaderIndex
         /\ CopyIn(b, n, w).readableBytes = b.readableBytes + n
         /\ CopyIn(b, n, w).live = b.live
<1> DEFINE c == CopyIn(b, n, w)
           L == Len(b.buffers)
           a == b.currentWriteBuffer
           x == b.localWriterIndex
           chunk == [p \in Offset |-> IF x <= p /\ p < x + n
                                      THEN w + (p - x) ELSE b.mem[a][p]]
<1>1. b \in ByteBuffers BY DEF Good
<1>2. /\ L \in Nat /\ L >= 1
      /\ x \in 0 .. SingleCapacity
      /\ a \in Addr
      /\ b.mem \in [Addr -> [Offset -> Int]]
      /\ b.readableBytes \in Nat
      /\ b.localReaderIndex \in 0 .. SingleCapacity
      /\ b.buffers \in Seq(Addr)
  BY GoodFields
<1>3. chunk \in [Offset -> Int]
  <2> SUFFICES ASSUME NEW p \in Offset
               PROVE  (IF x <= p /\ p < x + n
                       THEN w + (p - x) ELSE b.mem[a][p]) \in Int
    OBVIOUS
  <2>1. b.mem[a][p] \in Int BY <1>2
  <2>2. p \in Int /\ x \in Int BY <1>2, OffsetsAreIntegers
  <2>3. w + (p - x) \in Int BY <2>2
  <2> QED BY <2>1, <2>3
<1>4. [b.mem EXCEPT ![a] = chunk] \in [Addr -> [Offset -> Int]]
  BY <1>2, <1>3
<1>5. x + n \in 0 .. SingleCapacity /\ b.readableBytes + n \in Nat
  BY <1>2, CapacityAssumption
<1>6. /\ c \in ByteBuffers
      /\ c.buffers = b.buffers
      /\ c.live = b.live
      /\ c.mem = [b.mem EXCEPT ![a] = chunk]
      /\ c.currentReadBuffer = b.currentReadBuffer
      /\ c.currentWriteBuffer = a
      /\ c.localReaderIndex = b.localReaderIndex
      /\ c.localWriterIndex = x + n
      /\ c.readableBytes = b.readableBytes + n
  BY <1>1, <1>4, <1>5 DEF CopyIn, FillChunk, ByteBuffers
<1>7. DequeOwnsHeap(c) /\ CursorsInDeque(c)
  BY <1>6 DEF Good, DequeOwnsHeap, CursorsInDeque, Chunks
<1>8. Before(L) \in Int BY <1>2, BeforeNext
<1>9. Distance(c) = Distance(b) + n
  BY <1>2, <1>6, <1>8, CapacityAssumption DEF Distance
<1>10. Origin(c, w + n) = Origin(b, w) /\ Origin(b, w) \in Int
  BY <1>2, <1>6, <1>8, CapacityAssumption DEF Origin
<1>11. b.readableBytes + s = Distance(b) /\ Distance(b) \in Int
  BY GoodFields DEF Good
<1>12. c.readableBytes + s = Distance(c) BY <1>2, <1>6, <1>9, <1>11
<1>13. Stored(c, w + n)
  <2>0. Stored(b, w) /\ DequeOwnsHeap(b) /\ a = b.buffers[L]
    BY DEF Good, CursorsInDeque
  <2> SUFFICES ASSUME NEW i \in 1 .. L, NEW p \in Offset,
                      i < L \/ p < x + n
               PROVE  c.mem[b.buffers[i]][p] = Origin(b, w) + Before(i) + p
    BY <1>6, <1>10, <2>0 DEF Stored
  <2>1. b.buffers[i] \in Addr BY <1>2
  <2>2. CASE i < L
    <3>0. L \in 1 .. L /\ i # L BY <1>2, <2>2
    <3>1. b.buffers[i] # a BY <2>0, <3>0 DEF DequeOwnsHeap
    <3>2. c.mem[b.buffers[i]] = b.mem[b.buffers[i]]
      BY <1>2, <1>6, <2>1, <3>1
    <3> QED BY <2>0, <2>2, <3>2 DEF Stored
  <2>3. CASE i = L /\ p < x
    <3>1. c.mem[b.buffers[i]] = chunk BY <1>2, <1>6, <2>0, <2>3
    <3>2. p \in Int /\ x \in Int BY <1>2, OffsetsAreIntegers
    <3>3. ~ (x <= p) BY <2>3, <3>2
    <3>4. chunk[p] = b.mem[a][p] BY <3>3
    <3>5. c.mem[b.buffers[i]][p] = b.mem[b.buffers[i]][p]
      BY <2>0, <2>3, <3>1, <3>4
    <3> QED BY <2>0, <2>3, <3>5 DEF Stored
  <2>4. CASE i = L /\ p >= x
    <3>1. c.mem[b.buffers[i]] = chunk BY <1>2, <1>6, <2>0, <2>4
    <3>2. chunk[p] = w + (p - x)
      <4>1. p \in Int /\ x \in Int /\ L \in Int BY <1>2, OffsetsAreIntegers
      <4>2. x <= p /\ p < x + n
        <5> HIDE DEF x, L
        <5> QED BY <2>4, <4>1
      <4> QED BY <4>2
    <3> HIDE DEF chunk
    <3>3. w + (p - x) = Origin(b, w) + Before(L) + p
      <4> DEFINE B == Before(L)
      <4>1. Origin(b, w) = w - B - x BY DEF Origin
      <4>2. p \in Int /\ x \in Int /\ B \in Int
        BY <1>2, <1>8, OffsetsAreIntegers
      <4> SUFFICES w + (p - x) = (w - B - x) + B + p BY <4>1
      <4> HIDE DEF B, x
      <4> QED BY <4>2
    <3> QED BY <2>4, <3>1, <3>2, <3>3
  <2>5. i \in Int /\ i <= L /\ L \in Int /\ p \in Int /\ x \in Int
    BY <1>2, OffsetsAreIntegers
  <2> HIDE DEF L, x
  <2> QED BY <2>2, <2>3, <2>4, <2>5
<1> QED BY <1>6, <1>7, <1>12, <1>13 DEF Good

(* TryRefreshWriterBuffer, called before every write. *)
LEMMA RefreshWriterGood ==
  ASSUME NEW b, NEW w \in Nat, NEW s \in Nat, Good(b, w, s),
         Addr \ b.live # {}
  PROVE  /\ Good(TryRefreshWriterBuffer(b), w, s)
         /\ TryRefreshWriterBuffer(b).localWriterIndex < SingleCapacity
         /\ TryRefreshWriterBuffer(b).localReaderIndex = b.localReaderIndex
         /\ TryRefreshWriterBuffer(b).readableBytes = b.readableBytes
         /\ \/ TryRefreshWriterBuffer(b).live = b.live
            \/ TryRefreshWriterBuffer(b).live = b.live \cup {NewChunk(b)}
<1>1. b.localWriterIndex \in 0 .. SingleCapacity BY GoodFields
<1>2. CASE b.localWriterIndex >= SingleCapacity
  <2>1. b.localWriterIndex = SingleCapacity BY <1>1, <1>2, CapacityAssumption
  <2>2. TryRefreshWriterBuffer(b) = AppendBuffer(b)
    BY <1>2 DEF TryRefreshWriterBuffer
  <2> QED BY <2>1, <2>2, AppendBufferGood, CapacityAssumption
<1>3. CASE ~ (b.localWriterIndex >= SingleCapacity)
  <2>1. TryRefreshWriterBuffer(b) = b BY <1>3 DEF TryRefreshWriterBuffer
  <2> QED BY <1>1, <1>3, <2>1, CapacityAssumption
<1> QED BY <1>2, <1>3

(* CanWriteDirect and SkipWriteBytes, at the start of a chunk, are CopyIn. *)
LEMMA SkipWriteBytesIsCopyIn ==
  ASSUME NEW b, NEW w \in Nat, NEW s \in Nat, Good(b, w, s),
         NEW n \in Nat, b.localWriterIndex = 0, CanWriteDirect(b, n)
  PROVE  SkipWriteBytes(FillChunk(b, n, w), n) = CopyIn(b, n, w)
<1> DEFINE f == FillChunk(b, n, w)
           g == [f EXCEPT !.localWriterIndex = n, !.readableBytes = @ + n]
<1>1. n < SingleCapacity BY CapacityAssumption DEF CanWriteDirect
<1>2. b \in ByteBuffers BY DEF Good
<1>3. f.localWriterIndex = 0 BY <1>2 DEF FillChunk, ByteBuffers
<1>4. g.localWriterIndex = n BY <1>2 DEF FillChunk, ByteBuffers
<1>5. SkipWriteBytes(f, n) = g
  BY <1>1, <1>4, CapacityAssumption
     DEF SkipWriteBytes, TryRefreshWriterBuffer
<1>6. CopyIn(b, n, w)
        = [f EXCEPT !.localWriterIndex = @ + n, !.readableBytes = @ + n]
  BY DEF CopyIn
<1>7. g = [f EXCEPT !.localWriterIndex = @ + n, !.readableBytes = @ + n]
  <2>1. f.localWriterIndex + n = n BY <1>3
  <2> HIDE DEF f
  <2> QED BY <2>1
<1> QED BY <1>5, <1>6, <1>7

-----------------------------------------------------------------------------
(* Operators of the read side. *)

(* The front chunk is not the only one when more is ahead than it holds. *)
LEMMA MoreChunks ==
  ASSUME NEW b, NEW w \in Nat, NEW s \in Nat, Good(b, w, s),
         \/ b.readableBytes + s > SingleCapacity - b.localReaderIndex
         \/ /\ b.readableBytes + s = SingleCapacity - b.localReaderIndex
            /\ b.localWriterIndex < SingleCapacity
  PROVE  Len(b.buffers) > 1
<1>1. /\ Len(b.buffers) \in Nat /\ Len(b.buffers) >= 1
      /\ b.readableBytes \in Nat
      /\ b.localReaderIndex \in 0 .. SingleCapacity
      /\ b.localWriterIndex \in 0 .. SingleCapacity
  BY GoodFields
<1>2. b.readableBytes + s = Distance(b) BY DEF Good
<1>3. ASSUME Len(b.buffers) = 1 PROVE FALSE
  <2>1. Distance(b) = 0 + b.localWriterIndex - b.localReaderIndex
    BY <1>3, BeforeFirst DEF Distance
  <2> QED BY <1>1, <1>2, <2>1, CapacityAssumption
<1> DEFINE L == Len(b.buffers)
<1>4. L \in Nat /\ L >= 1 /\ L # 1 BY <1>1, <1>3
<1> SUFFICES L > 1 OBVIOUS
<1> HIDE DEF L
<1> QED BY <1>4

(* PopBuffer walks over the rest of the front chunk. *)
LEMMA PopBufferGood ==
  ASSUME NEW b, NEW w \in Nat, NEW s \in Nat, Good(b, w, s),
         s >= SingleCapacity - b.localReaderIndex, Len(b.buffers) > 1
  PROVE  /\ s - (SingleCapacity - b.localReaderIndex) \in Nat
         /\ Good(PopBuffer(b), w, s - (SingleCapacity - b.localReaderIndex))
         /\ PopBuffer(b).localReaderIndex = 0
         /\ PopBuffer(b).localWriterIndex = b.localWriterIndex
         /\ PopBuffer(b).readableBytes = b.readableBytes
<1> DEFINE c == PopBuffer(b)
           L == Len(b.buffers)
           t == s - (SingleCapacity - b.localReaderIndex)
<1>1. b \in ByteBuffers BY DEF Good
<1>2. /\ b.buffers \in Seq(Addr)
      /\ b.live \in SUBSET Addr
      /\ L \in Nat
      /\ b.readableBytes \in Nat
      /\ b.localReaderIndex \in 0 .. SingleCapacity
      /\ b.localWriterIndex \in 0 .. SingleCapacity
      /\ b.currentWriteBuffer \in Addr
      /\ Origin(b, w) \in Nat
      /\ Distance(b) \in Int
  BY GoodFields
<1>3. t \in Nat BY <1>2, CapacityAssumption
<1>4. /\ Tail(b.buffers) \in Seq(Addr)
      /\ Len(Tail(b.buffers)) = L - 1
      /\ \A i \in 1 .. L - 1 : Tail(b.buffers)[i] = b.buffers[i + 1]
      /\ b.buffers # <<>>
      /\ b.buffers[2] \in Addr
  BY <1>2
<1>5. /\ c \in ByteBuffers
      /\ c.buffers = Tail(b.buffers)
      /\ c.live = b.live \ {b.buffers[1]}
      /\ c.mem = b.mem
      /\ c.currentReadBuffer = b.buffers[2]
      /\ c.currentWriteBuffer = b.currentWriteBuffer
      /\ c.localReaderIndex = 0
      /\ c.localWriterIndex = b.localWriterIndex
      /\ c.readableBytes = b.readableBytes
  <2>1. 0 \in 0 .. SingleCapacity BY CapacityAssumption
  <2>2. b.live \ {b.buffers[1]} \in SUBSET Addr BY <1>2
  <2>3. c = [b EXCEPT !.localReaderIndex  = 0,
                      !.live              = @ \ {b.buffers[1]},
                      !.buffers           = Tail(@),
                      !.currentReadBuffer = b.buffers[2]]
    BY <1>4 DEF PopBuffer
  <2> QED BY <1>1, <1>4, <2>1, <2>2, <2>3 DEF ByteBuffers
<1>6. /\ Len(c.buffers) = L - 1
      /\ \A i \in 1 .. L - 1 : c.buffers[i] = b.buffers[i + 1]
  BY <1>4, <1>5
<1> HIDE DEF c
<1>7. b.live = Chunks(b)
      /\ \A i, j \in 1 .. L : b.buffers[i] = b.buffers[j] => i = j
  BY DEF Good, DequeOwnsHeap
<1>8. DequeOwnsHeap(c)
  <2>1. ASSUME NEW x \in Chunks(c) PROVE x \in b.live \ {b.buffers[1]}
    <3>1. PICK i \in 1 .. L - 1 : x = b.buffers[i + 1]
      BY <1>6, <2>1 DEF Chunks
    <3>2. i + 1 \in 1 .. L /\ 1 \in 1 .. L /\ i + 1 # 1 BY <1>2
    <3> QED BY <1>7, <3>1, <3>2 DEF Chunks
  <2>2. ASSUME NEW x \in b.live \ {b.buffers[1]} PROVE x \in Chunks(c)
    <3>1. PICK i \in 1 .. L : x = b.buffers[i]
      BY <1>7, <2>2 DEF Chunks
    <3>2. i - 1 \in 1 .. L - 1 /\ (i - 1) + 1 = i BY <1>2, <3>1, <2>2
    <3>3. c.buffers[i - 1] = x BY <1>6, <3>1, <3>2
    <3> QED BY <1>6, <3>2, <3>3 DEF Chunks
  <2>3. ASSUME NEW i \in 1 .. L - 1, NEW j \in 1 .. L - 1,
               c.buffers[i] = c.buffers[j]
        PROVE  i = j
    <3>1. i + 1 \in 1 .. L /\ j + 1 \in 1 .. L BY <1>2
    <3>2. b.buffers[i + 1] = b.buffers[j + 1] BY <1>6, <2>3
    <3>3. i + 1 = j + 1 BY <1>7, <3>1, <3>2
    <3> QED BY <3>3
  <2>4. c.live = Chunks(c) BY <1>5, <2>1, <2>2
  <2> QED BY <1>6, <2>3, <2>4 DEF DequeOwnsHeap
<1>9. CursorsInDeque(c)
  <2>1. b.currentWriteBuffer = b.buffers[L] BY DEF Good, CursorsInDeque
  <2>2. 1 \in 1 .. L - 1 /\ L - 1 \in 1 .. L - 1 /\ (L - 1) + 1 = L
    BY <1>2
  <2>3. c.buffers[1] = b.buffers[2] /\ c.buffers[L - 1] = b.buffers[L]
    BY <1>6, <2>2
  <2> QED BY <1>2, <1>5, <1>6, <2>1, <2>3 DEF CursorsInDeque
<1>10. Before(L) = Before(L - 1) + SingleCapacity /\ Before(L - 1) \in Int
  <2>1. L - 1 \in Nat /\ (L - 1) + 1 = L BY <1>2
  <2> QED BY <2>1, BeforeNext
<1>11. c.readableBytes + t = Distance(c)
  <2>1. b.readableBytes + s = Distance(b) BY DEF Good
  <2>2. Distance(b)
          = Before(L) + b.localWriterIndex - b.localReaderIndex
    BY DEF Distance
  <2>3. Distance(c) = Before(L - 1) + b.localWriterIndex - 0
    BY <1>5, <1>6 DEF Distance
  <2> DEFINE X == Before(L)
             Y == Before(L - 1)
  <2>4. /\ b.readableBytes + s = X + b.localWriterIndex - b.localReaderIndex
        /\ Distance(c) = Y + b.localWriterIndex - 0
        /\ X = Y + SingleCapacity /\ Y \in Int
    BY <1>10, <2>1, <2>2, <2>3
  <2> HIDE DEF X, Y
  <2>5. /\ b.readableBytes \in Int /\ b.localWriterIndex \in Int
        /\ b.localReaderIndex \in Int /\ SingleCapacity \in Int
    BY <1>2, CapacityAssumption
  <2> DEFINE R == b.readableBytes
             lw == b.localWriterIndex
             lr == b.localReaderIndex
  <2>6. Distance(c) = s - SingleCapacity + lr + R
    <3>1. /\ R + s = X + (lw - lr) /\ Distance(c) = Y + lw
          /\ R \in Int /\ lw \in Int /\ lr \in Int
      BY <2>4, <2>5
    <3>2. X = Y + SingleCapacity /\ X \in Int /\ Y \in Int
          /\ SingleCapacity \in Int
      BY <2>4, <2>5
    <3> HIDE DEF R, lw, lr
    <3>3. R + s + lr = X + lw BY <3>1, <3>2
    <3>4. X + lw = Distance(c) + SingleCapacity BY <3>1, <3>2
    <3>5. Distance(c) \in Int BY <3>1, <3>2
    <3> QED BY <3>1, <3>2, <3>3, <3>4, <3>5
  <2> QED BY <1>2, <1>5, <2>6, CapacityAssumption
<1>12. Origin(c, w) = Origin(b, w) + SingleCapacity
  <2> DEFINE X == Before(L)
             Y == Before(L - 1)
             lw == b.localWriterIndex
  <2>1. Origin(b, w) = w - X - lw /\ Origin(c, w) = w - Y - lw
    BY <1>5, <1>6 DEF Origin
  <2>2. X = Y + SingleCapacity /\ Y \in Int /\ lw \in Int
        /\ SingleCapacity \in Int
    BY <1>2, <1>10, CapacityAssumption
  <2> HIDE DEF X, Y, lw
  <2> QED BY <2>1, <2>2
<1>13. Stored(c, w)
  <2>0. Stored(b, w) BY DEF Good
  <2>1. Origin(c, w) >= 0 BY <1>2, <1>12, CapacityAssumption
  <2> SUFFICES ASSUME NEW i \in 1 .. L - 1, NEW p \in Offset,
                      i < L - 1 \/ p < b.localWriterIndex
               PROVE  b.mem[c.buffers[i]][p] = Origin(c, w) + Before(i) + p
    BY <1>5, <1>6, <2>1 DEF Stored
  <2>2. i + 1 \in 1 .. L /\ (i + 1 < L \/ p < b.localWriterIndex)
    BY <1>2
  <2>3. b.mem[b.buffers[i + 1]][p] = Origin(b, w) + Before(i + 1) + p
    BY <2>0, <2>2 DEF Stored
  <2>4. Before(i + 1) = Before(i) + SingleCapacity /\ Before(i) \in Int
    <3>1. i \in Nat BY <1>2
    <3> QED BY <3>1, BeforeNext
  <2>5. Origin(b, w) + Before(i + 1) + p = Origin(c, w) + Before(i) + p
    BY <1>2, <1>12, <2>4, CapacityAssumption DEF Offset
  <2> QED BY <1>6, <2>3, <2>5
<1> QED BY <1>3, <1>5, <1>8, <1>9, <1>11, <1>13 DEF Good, c

(* TryRefreshReaderBuffer while something is readable. *)
LEMMA RefreshReaderGood ==
  ASSUME NEW b, NEW w \in Nat, Good(b, w, 0),
         \/ b.readableBytes > 0
         \/ b.localWriterIndex < SingleCapacity
         \/ b.localReaderIndex < SingleCapacity
         \/ Len(b.buffers) > 1
  PROVE  /\ Good(TryRefreshReaderBuffer(b), w, 0)
         /\ TryRefreshReaderBuffer(b).localReaderIndex < SingleCapacity
         /\ TryRefreshReaderBuffer(b).localWriterIndex = b.localWriterIndex
         /\ TryRefreshReaderBuffer(b).readableBytes = b.readableBytes
<1>1. /\ b.localReaderIndex \in 0 .. SingleCapacity
      /\ b.readableBytes \in Nat
  BY GoodFields
<1>2. CASE b.localReaderIndex >= SingleCapacity
  <2>1. b.localReaderIndex = SingleCapacity
    BY <1>1, <1>2, CapacityAssumption
  <2>2. TryRefreshReaderBuffer(b) = PopBuffer(b)
    BY <1>2 DEF TryRefreshReaderBuffer
  <2>3. SingleCapacity - b.localReaderIndex = 0 /\ b.readableBytes + 0 = b.readableBytes
    BY <1>1, <2>1, CapacityAssumption
  <2>4. Len(b.buffers) > 1
    <3>1. CASE b.readableBytes > 0
      BY <2>3, <3>1, MoreChunks
    <3>2. CASE b.readableBytes = 0 /\ b.localWriterIndex < SingleCapacity
      BY <2>3, <3>2, MoreChunks
    <3> QED BY <1>1, <2>1, <3>1, <3>2, CapacityAssumption
  <2>5. 0 - (SingleCapacity - b.localReaderIndex) = 0 BY <2>3
  <2>6. 0 >= SingleCapacity - b.localReaderIndex BY <2>3
  <2>7. /\ Good(PopBuffer(b), w, 0 - (SingleCapacity - b.localReaderIndex))
        /\ PopBuffer(b).localReaderIndex = 0
        /\ PopBuffer(b).localWriterIndex = b.localWriterIndex
        /\ PopBuffer(b).readableBytes = b.readableBytes
    BY <2>4, <2>6, PopBufferGood
  <2> QED BY <2>2, <2>5, <2>7, CapacityAssumption
<1>3. CASE ~ (b.localReaderIndex >= SingleCapacity)
  <2>1. TryRefreshReaderBuffer(b) = b BY <1>3 DEF TryRefreshReaderBuffer
  <2> QED BY <1>1, <1>3, <2>1, CapacityAssumption
<1> QED BY <1>2, <1>3

(* The read cursor alone moves: readableBytes and pending skip follow it. *)
MoveReader(b, x, r) == [b EXCEPT !.localReaderIndex = x, !.readableBytes = r]

LEMMA MoveReaderGood ==
  ASSUME NEW b, NEW w \in Nat, NEW s \in Nat, Good(b, w, s),
         NEW t \in Nat, NEW x \in 0 .. SingleCapacity, NEW r \in Nat,
         r + t + x = b.readableBytes + s + b.localReaderIndex
  PROVE  /\ Good(MoveReader(b, x, r), w, t)
         /\ MoveReader(b, x, r).localReaderIndex = x
         /\ MoveReader(b, x, r).localWriterIndex = b.localWriterIndex
         /\ MoveReader(b, x, r).readableBytes = r
         /\ MoveReader(b, x, r).buffers = b.buffers
<1> DEFINE c == MoveReader(b, x, r)
<1>1. b \in ByteBuffers BY DEF Good
<1>2. /\ c \in ByteBuffers
      /\ c.buffers = b.buffers
      /\ c.live = b.live
      /\ c.mem = b.mem
      /\ c.currentReadBuffer = b.currentReadBuffer
      /\ c.currentWriteBuffer = b.currentWriteBuffer
      /\ c.localReaderIndex = x
      /\ c.localWriterIndex = b.localWriterIndex
      /\ c.readableBytes = r
  BY <1>1 DEF ByteBuffers, MoveReader
<1> HIDE DEF c
<1>3. DequeOwnsHeap(c) /\ CursorsInDeque(c) /\ Stored(c, w)
  <2>1. DequeOwnsHeap(c)
    BY <1>2 DEF Good, DequeOwnsHeap, Chunks
  <2>2. CursorsInDeque(c)
    BY <1>2 DEF Good, CursorsInDeque
  <2>3. Stored(b, w) /\ Origin(c, w) = Origin(b, w)
    BY <1>2 DEF Good, Origin
  <2>4. Stored(c, w)
    BY <1>2, <2>3 DEF Stored
  <2> QED BY <2>1, <2>2, <2>4
<1>4. r + t = Distance(c)
  <2> DEFINE X == Before(Len(b.buffers))
  <2>1. X \in Int
    <3>1. Len(b.buffers) \in Nat BY GoodFields
    <3> QED BY <3>1, BeforeNext
  <2>2. /\ Distance(b) = X + b.localWriterIndex - b.localReaderIndex
        /\ Distance(c) = X + b.localWriterIndex - x
    BY <1>2 DEF Distance
  <2>3. b.readableBytes + s = Distance(b) BY DEF Good
  <2>4. /\ b.localReaderIndex \in 0 .. SingleCapacity
        /\ b.localWriterIndex \in 0 .. SingleCapacity
        /\ b.readableBytes \in Nat
    BY GoodFields
  <2>5. /\ b.localReaderIndex \in Int /\ b.localWriterIndex \in Int
        /\ b.readableBytes \in Int /\ x \in Int
    BY <2>4, CapacityAssumption
  <2> HIDE DEF X
  <2> QED BY <2>1, <2>2, <2>3, <2>5
<1> QED BY <1>2, <1>3, <1>4 DEF Good, c

(* Reading n bytes of the front chunk. *)
LEMMA ConsumeGood ==
  ASSUME NEW b, NEW w \in Nat, Good(b, w, 0), NEW n \in Nat,
         n <= b.readableBytes, b.localReaderIndex + n <= SingleCapacity
  PROVE  /\ Good(Consume(b, n), w, 0)
         /\ Consume(b, n).localReaderIndex = b.localReaderIndex + n
         /\ Consume(b, n).localWriterIndex = b.localWriterIndex
         /\ Consume(b, n).readableBytes = b.readableBytes - n
         /\ Consume(b, n).buffers = b.buffers
<1> DEFINE x == b.localReaderIndex + n
           r == b.readableBytes - n
<1>1. /\ b.localReaderIndex \in 0 .. SingleCapacity
      /\ b.readableBytes \in Nat
  BY GoodFields
<1>2. x \in 0 .. SingleCapacity /\ r \in Nat BY <1>1, CapacityAssumption
<1>3. r + 0 + x = b.readableBytes + 0 + b.localReaderIndex
  BY <1>1, CapacityAssumption
<1>4. Consume(b, n) = MoveReader(b, x, r) BY DEF Consume, MoveReader
<1> HIDE DEF x, r
<1>5. /\ Good(Consume(b, n), w, 0)
      /\ Consume(b, n).localReaderIndex = x
      /\ Consume(b, n).localWriterIndex = b.localWriterIndex
      /\ Consume(b, n).readableBytes = r
      /\ Consume(b, n).buffers = b.buffers
  BY <1>2, <1>3, <1>4, MoveReaderGood
<1> QED BY <1>5 DEF x, r

(* The bytes of the front chunk ahead of the reader are the next bytes of  *)
(* the stream.                                                             *)
LEMMA DirectBytesAreNext ==
  ASSUME NEW b, NEW w \in Nat, Good(b, w, 0), NEW n \in Nat,
         n <= b.readableBytes, b.localReaderIndex + n <= SingleCapacity
  PROVE  DirectBytes(b, n) = [k \in 1 .. n |-> w - b.readableBytes + k - 1]
<1> DEFINE L == Len(b.buffers)
           x == b.localReaderIndex
<1>1. /\ x \in 0 .. SingleCapacity
      /\ b.localWriterIndex \in 0 .. SingleCapacity
      /\ b.readableBytes \in Nat
      /\ b.currentReadBuffer \in Addr
      /\ L \in Nat /\ L >= 1
      /\ Origin(b, w) \in Nat
  BY GoodFields
<1>2. b.currentReadBuffer = b.buffers[1] /\ Stored(b, w)
  BY DEF Good, CursorsInDeque
<1>3. b.readableBytes = Before(L) + b.localWriterIndex - x
  <2>1. b.readableBytes + 0 = Distance(b) BY DEF Good
  <2> QED BY <1>1, <2>1 DEF Distance
<1>4. Before(L) \in Int BY <1>1, BeforeNext
<1>5. Origin(b, w) = w - b.readableBytes - x
  <2>1. Origin(b, w) = w - Before(L) - b.localWriterIndex BY DEF Origin
  <2> DEFINE B == Before(L)
             y == b.localWriterIndex
             r == b.readableBytes
             o == Origin(b, w)
  <2>2. x \in Int /\ y \in Int /\ r \in Int BY <1>1, OffsetsAreIntegers
  <2>3. B \in Int /\ r = B + y - x /\ o = w - B - y BY <1>3, <1>4, <2>1
  <2> HIDE DEF x, B, y, r, o
  <2>4. o = w - r - x BY <2>2, <2>3
  <2> QED BY <2>4 DEF r, o
<1> SUFFICES ASSUME NEW k \in 1 .. n
             PROVE  b.mem[b.currentReadBuffer][x + k - 1]
                      = w - b.readableBytes + k - 1
  BY <1>1 DEF DirectBytes
<1>6. x + k - 1 \in Offset BY <1>1, CapacityAssumption DEF Offset
<1>7. 1 < L \/ x + k - 1 < b.localWriterIndex
  <2>1. CASE L = 1
    <3>1. b.readableBytes = 0 + b.localWriterIndex - x
      BY <1>3, <2>1, BeforeFirst
    <3>2. x \in Int /\ b.localWriterIndex \in Int BY <1>1, CapacityAssumption
    <3> QED BY <1>1, <3>1, <3>2
  <2> HIDE DEF L
  <2> QED BY <1>1, <2>1
<1>8. b.mem[b.buffers[1]][x + k - 1] = Origin(b, w) + Before(1) + (x + k - 1)
  <2>1. 1 \in 1 .. L BY <1>1
  <2> QED BY <1>2, <1>6, <1>7, <2>1 DEF Stored
<1>9. Origin(b, w) + 0 + (x + k - 1) = w - b.readableBytes + k - 1
  <2>1. x \in Int BY <1>1, CapacityAssumption
  <2> QED BY <1>1, <1>5, <2>1
<1> QED BY <1>2, <1>8, <1>9, BeforeFirst

-----------------------------------------------------------------------------
(* Types, whether the buffer is in good order or not. *)

LEMMA ByteBufferFields ==
  ASSUME NEW b \in ByteBuffers
  PROVE  /\ b.buffers \in Seq(Addr)
         /\ b.live \in SUBSET Addr
         /\ b.mem \in [Addr -> [Offset -> Int]]
         /\ b.currentReadBuffer \in Addr \cup {NoAddr}
         /\ b.currentWriteBuffer \in Addr
         /\ b.localReaderIndex \in 0 .. SingleCapacity
         /\ b.localWriterIndex \in 0 .. SingleCapacity
         /\ b.readableBytes \in Nat
BY DEF ByteBuffers

LEMMA AppendBufferType ==
  ASSUME NEW b \in ByteBuffers, Addr \ b.live # {}
  PROVE  /\ AppendBuffer(b) \in ByteBuffers
         /\ AppendBuffer(b).localWriterIndex = 0
         /\ AppendBuffer(b).localReaderIndex = b.localReaderIndex
         /\ AppendBuffer(b).readableBytes = b.readableBytes
<1> DEFINE new == NewChunk(b)
<1>1. new \in Addr BY NewChunkIsFree
<1>2. 0 \in 0 .. SingleCapacity BY CapacityAssumption
<1>3. b.buffers \in Seq(Addr) /\ b.live \in SUBSET Addr BY ByteBufferFields
<1> HIDE DEF new
<1>4. Append(b.buffers, new) \in Seq(Addr) BY <1>1, <1>3
<1>5. b.live \cup {new} \in SUBSET Addr BY <1>1, <1>3
<1> QED BY <1>1, <1>2, <1>4, <1>5 DEF AppendBuffer, ByteBuffers, new

LEMMA RefreshWriterType ==
  ASSUME NEW b \in ByteBuffers, Addr \ b.live # {}
  PROVE  /\ TryRefreshWriterBuffer(b) \in ByteBuffers
         /\ TryRefreshWriterBuffer(b).localReaderIndex = b.localReaderIndex
         /\ TryRefreshWriterBuffer(b).readableBytes = b.readableBytes
BY AppendBufferType DEF TryRefreshWriterBuffer

LEMMA CopyInType ==
  ASSUME NEW b \in ByteBuffers, NEW n \in Nat, NEW first \in Int,
         b.localWriterIndex + n <= SingleCapacity
  PROVE  /\ CopyIn(b, n, first) \in ByteBuffers
         /\ CopyIn(b, n, first).localWriterIndex = b.localWriterIndex + n
         /\ CopyIn(b, n, first).localReaderIndex = b.localReaderIndex
         /\ CopyIn(b, n, first).readableBytes = b.readableBytes + n
         /\ CopyIn(b, n, first).live = b.live
<1> DEFINE a == b.currentWriteBuffer
           x == b.localWriterIndex
           chunk == [p \in Offset |-> IF x <= p /\ p < x + n
                                      THEN first + (p - x) ELSE b.mem[a][p]]
           m == [b.mem EXCEPT ![a] = chunk]
<1>1. /\ a \in Addr /\ x \in 0 .. SingleCapacity
      /\ b.mem \in [Addr -> [Offset -> Int]] /\ b.readableBytes \in Nat
  BY ByteBufferFields
<1>2. chunk \in [Offset -> Int]
  <2> SUFFICES ASSUME NEW p \in Offset
               PROVE  (IF x <= p /\ p < x + n
                       THEN first + (p - x) ELSE b.mem[a][p]) \in Int
    OBVIOUS
  <2>1. p \in Int BY CapacityAssumption DEF Offset
  <2>2. b.mem[a][p] \in Int BY <1>1
  <2>3. x \in Int BY <1>1
  <2> HIDE DEF a, x
  <2> QED BY <2>1, <2>2, <2>3
<1>3. CopyIn(b, n, first)
        = [b EXCEPT !.mem = m, !.localWriterIndex = x + n,
                    !.readableBytes = b.readableBytes + n]
  BY DEF CopyIn, FillChunk, ByteBuffers
<1> HIDE DEF chunk
<1>4. m \in [Addr -> [Offset -> Int]] BY <1>1, <1>2
<1>5. x + n \in 0 .. SingleCapacity /\ b.readableBytes + n \in Nat
  BY <1>1, CapacityAssumption
<1> HIDE DEF m, x
<1> QED BY <1>3, <1>4, <1>5 DEF ByteBuffers, x

(* PopBuffer drops the front chunk, and the last one too. *)
LEMMA PopBufferType ==
  ASSUME NEW b \in ByteBuffers
  PROVE  /\ PopBuffer(b) \in ByteBuffers
         /\ PopBuffer(b).localReaderIndex = 0
         /\ PopBuffer(b).readableBytes = b.readableBytes
<1>1. b.buffers \in Seq(Addr) /\ b.live \in SUBSET Addr BY ByteBufferFields
<1>2. 0 \in 0 .. SingleCapacity BY CapacityAssumption
<1>3. CASE b.buffers = <<>>
  BY <1>2, <1>3 DEF PopBuffer, ByteBuffers
<1>4. CASE b.buffers # <<>>
  <2> DEFINE front == IF Len(b.buffers) > 1 THEN b.buffers[2] ELSE NoAddr
             rest == Tail(b.buffers)
             others == b.live \ {b.buffers[1]}
  <2>1. front \in Addr \cup {NoAddr} BY <1>1
  <2>2. rest \in Seq(Addr) BY <1>1, <1>4
  <2>3. others \in SUBSET Addr BY <1>1
  <2>4. PopBuffer(b) = [b EXCEPT !.localReaderIndex = 0, !.live = others,
                                 !.buffers = rest, !.currentReadBuffer = front]
    BY <1>4 DEF PopBuffer
  <2> HIDE DEF front, rest, others
  <2> QED BY <1>2, <2>1, <2>2, <2>3, <2>4 DEF ByteBuffers
<1> QED BY <1>3, <1>4

LEMMA MoveReaderType ==
  ASSUME NEW b \in ByteBuffers, NEW x \in 0 .. SingleCapacity, NEW r \in Nat
  PROVE  /\ MoveReader(b, x, r) \in ByteBuffers
         /\ MoveReader(b, x, r).localReaderIndex = x
         /\ MoveReader(b, x, r).readableBytes = r
BY DEF MoveReader, ByteBuffers

LEMMA DirectBytesType ==
  ASSUME NEW b \in ByteBuffers, NEW n \in Nat, b.localReaderIndex + n <= SingleCapacity
  PROVE  DirectBytes(b, n) \in Seq(Int) /\ Len(DirectBytes(b, n)) = n
<1> DEFINE x == b.localReaderIndex
           byte(k) == IF b.currentReadBuffer \in Addr
                      THEN b.mem[b.currentReadBuffer][x + k - 1]
                      ELSE Uninitialised
<1>1. x \in 0 .. SingleCapacity /\ b.mem \in [Addr -> [Offset -> Int]]
  BY ByteBufferFields
<1>2. ASSUME NEW k \in 1 .. n PROVE byte(k) \in Int
  <2>1. x + k - 1 \in Offset BY <1>1, CapacityAssumption DEF Offset
  <2>2. b.currentReadBuffer \in Addr => b.mem[b.currentReadBuffer] \in [Offset -> Int]
    BY <1>1
  <2>3. b.currentReadBuffer \in Addr => b.mem[b.currentReadBuffer][x + k - 1] \in Int
    BY <2>1, <2>2
  <2> QED BY <2>3 DEF Uninitialised
<1>3. DirectBytes(b, n) = [k \in 1 .. n |-> byte(k)] BY DEF DirectBytes
<1> HIDE DEF byte
<1> QED BY <1>2, <1>3
=============================================================================
