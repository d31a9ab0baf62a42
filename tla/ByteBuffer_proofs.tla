-------------------------- MODULE ByteBuffer_proofs --------------------------
(***************************************************************************)
(* Proofs about ByteBuffer, for every chunk capacity, every set of         *)
(* addresses and every bound, when the five functions under contract are   *)
(* called where they are exact.                                            *)
(*                                                                         *)
(* The argument: Good(b, w, s) says that buffer b stores the stream of w   *)
(* bytes while s bytes of a skip are still to be walked over.  One lemma   *)
(* per operator of ByteBufferImpl (ByteBufferImpl_proofs) says in which    *)
(* case it keeps a buffer good; the invariant is then preserved because    *)
(* every action is made of these operators.                                *)
(***************************************************************************)
EXTENDS ByteBuffer, ByteBufferImpl_proofs, TLAPS

(* The inductive invariant: the checked invariants, all together. *)
IInv ==
  /\ TypeOK
  /\ ChunkOwnership
  /\ ReadableAccounting
  /\ StreamIntact
  /\ CallResumesInStep

LEMMA ResetWriterIndexGood ==
  ASSUME NEW b, NEW w \in Nat, Good(b, w, 0), ResetWriterIndexExact(b)
  PROVE  /\ Good(ResetWriterIndex(b), w, 0)
         /\ ResetWriterIndex(b).readableBytes = 0
<1> DEFINE c == ResetWriterIndex(b)
<1>1. b \in ByteBuffers BY DEF Good
<1>2. 0 \in 0 .. SingleCapacity BY CapacityAssumption
<1>3. /\ c \in ByteBuffers
      /\ c.buffers = b.buffers
      /\ c.live = b.live
      /\ c.mem = b.mem
      /\ c.currentReadBuffer = b.currentReadBuffer
      /\ c.currentWriteBuffer = b.currentWriteBuffer
      /\ c.localReaderIndex = b.localReaderIndex
      /\ c.localWriterIndex = 0
      /\ c.readableBytes = 0
  BY <1>1, <1>2 DEF ResetWriterIndex, ByteBuffers
<1>4. DequeOwnsHeap(c) /\ CursorsInDeque(c)
  BY <1>3 DEF Good, DequeOwnsHeap, CursorsInDeque, Chunks
<1>5. b.localReaderIndex = 0 /\ Len(c.buffers) = 1
  BY <1>3 DEF ResetWriterIndexExact
<1>6. c.readableBytes + 0 = Distance(c)
  BY <1>3, <1>5, BeforeFirst DEF Distance
<1>7. Stored(c, w)
  BY <1>3, <1>5, BeforeFirst, CapacityAssumption DEF Stored, Origin, Offset
<1> QED BY <1>3, <1>4, <1>6, <1>7 DEF Good

-----------------------------------------------------------------------------
(* From the invariant to Good and back. *)

LEMMA IInvGood ==
  ASSUME IInv, call.op # "Released"
  PROVE  /\ Good(buf, written, PendingSkip)
         /\ PendingSkip \in Nat
         /\ written \in Nat
         /\ result \in Results
         /\ call.size \in Nat
         /\ call.op # "SkipReadBytes" => PendingSkip = 0
BY DEF IInv, TypeOK, ChunkOwnership, ReadableAccounting, StreamIntact, Good,
       PendingSkip

LEMMA IdleGood ==
  ASSUME IInv, Idle
  PROVE  /\ Good(buf, written, 0)
         /\ written \in Nat
         /\ result \in Results
         /\ buf.readableBytes \in Nat
<1>1. call.op = "idle" BY DEF Idle, NoCall
<1>2. PendingSkip = 0 BY <1>1 DEF PendingSkip
<1>3. Good(buf, written, 0) /\ written \in Nat /\ result \in Results
  BY <1>1, <1>2, IInvGood
<1> QED BY <1>3, GoodFields

(* A call has returned. *)
LEMMA ReturnKeepsIInv ==
  ASSUME written' \in Nat, Good(buf', written', 0), out' \in Seq(Int),
         NEW res \in Results, Return(res)
  PROVE  IInv'
<1>1. call' = [op |-> "idle", size |-> 0] /\ result' = res
  BY DEF Return, NoCall
<1>2. call' \in [op : Ops, size : Nat] /\ call'.op = "idle"
  BY <1>1 DEF Ops
<1>3. PendingSkip' = 0 BY <1>2 DEF PendingSkip
<1> QED BY <1>1, <1>2, <1>3
        DEF IInv, TypeOK, ChunkOwnership, ReadableAccounting, StreamIntact,
            CallResumesInStep, Good

(* A call goes on. *)
LEMMA CallKeepsIInv ==
  ASSUME written' \in Nat, out' \in Seq(Int), result' \in Results,
         NEW op \in {"WriteBytes", "ReadBytes", "SkipReadBytes"},
         NEW n \in Nat, call' = InCall(op, n),
         Good(buf', written', IF op = "SkipReadBytes" THEN n ELSE 0),
         CallResumesInStep'
  PROVE  IInv'
<1>1. call' \in [op : Ops, size : Nat] /\ call'.op = op /\ call'.size = n
  BY DEF Ops, InCall
<1>2. op # "Released" OBVIOUS
<1>3. PendingSkip' = IF op = "SkipReadBytes" THEN n ELSE 0
  BY <1>1 DEF PendingSkip
<1> QED BY <1>1, <1>2, <1>3
        DEF IInv, TypeOK, ChunkOwnership, ReadableAccounting, StreamIntact,
            Good

-----------------------------------------------------------------------------
(* The writing actions: the invariant, and a Put of the queue. *)

(* A written stream that grows with readableBytes is a Put. *)
LEMMA WroteIsPut ==
  ASSUME NEW n \in Nat, written \in Nat, Wrote(n),
         buf.readableBytes \in Nat, buf'.readableBytes = buf.readableBytes + n
  PROVE  Queue!Put /\ written' \in Nat /\ out' \in Seq(Int)
<1>1. written' = written + n /\ out' = <<>> BY DEF Wrote
<1>2. written' - buf'.readableBytes = written - buf.readableBytes BY <1>1
<1>3. out' \in Seq(Int) BY <1>1
<1> QED BY <1>1, <1>2, <1>3 DEF Queue!Put

LEMMA CanWriteRoom ==
  ASSUME NEW n, CanWrite(n)
  PROVE  /\ Addr \ buf.live # {}
         /\ \A x : Addr \ (buf.live \cup {x}) # {}
BY DEF CanWrite

LEMMA WholeWrite ==
  ASSUME IInv, Idle, NEW n \in Nat, CanWrite(n),
         TryRefreshWriterBuffer(buf).localWriterIndex + n <= SingleCapacity,
         buf' = CopyIn(TryRefreshWriterBuffer(buf), n, written),
         Wrote(n), Return("Success")
  PROVE  IInv' /\ Queue!Put
<1> DEFINE b == TryRefreshWriterBuffer(buf)
<1>1. Good(buf, written, 0) /\ written \in Nat /\ buf.readableBytes \in Nat
  BY IdleGood
<1>2. Good(b, written, 0) /\ b.readableBytes = buf.readableBytes
  BY <1>1, CanWriteRoom, RefreshWriterGood
<1> HIDE DEF b
<1>3. /\ Good(buf', written + n, 0)
      /\ buf'.readableBytes = buf.readableBytes + n
  BY <1>1, <1>2, CopyInGood DEF b
<1>4. Queue!Put /\ written' \in Nat /\ out' \in Seq(Int)
  BY <1>1, <1>3, WroteIsPut
<1>5. written' = written + n BY DEF Wrote
<1>6. "Success" \in Results BY DEF Results
<1> QED BY <1>3, <1>4, <1>5, <1>6, ReturnKeepsIInv

(* Filling the last chunk and appending another. *)
LEMMA FillAndAppend ==
  ASSUME NEW b, NEW w \in Nat, Good(b, w, 0), Addr \ b.live # {},
         NEW n \in Nat, b.localWriterIndex + n = SingleCapacity,
         NEW c, c = AppendBuffer(CopyIn(b, n, w))
  PROVE  /\ Good(c, w + n, 0)
         /\ c.localWriterIndex = 0
         /\ c.readableBytes = b.readableBytes + n
<1> DEFINE d == CopyIn(b, n, w)
<1>1. b.localWriterIndex + n <= SingleCapacity BY CapacityAssumption
<1>2. /\ Good(d, w + n, 0)
      /\ d.localWriterIndex = SingleCapacity
      /\ d.readableBytes = b.readableBytes + n
      /\ d.live = b.live
  BY <1>1, CopyInGood
<1>3. w + n \in Nat OBVIOUS
<1> HIDE DEF d
<1>4. c = AppendBuffer(d) BY DEF d
<1> QED BY <1>2, <1>3, <1>4, AppendBufferGood

LEMMA SplitWrite ==
  ASSUME IInv, Idle, NEW n \in Nat, CanWrite(n), WriteBytesSplit(n)
  PROVE  IInv' /\ Queue!Put
<1> DEFINE b == TryRefreshWriterBuffer(buf)
           m == SingleCapacity - b.localWriterIndex
<1>1. /\ Good(buf, written, 0) /\ written \in Nat
      /\ buf.readableBytes \in Nat /\ result \in Results
  BY IdleGood
<1>2. /\ Good(b, written, 0) /\ b.readableBytes = buf.readableBytes
      /\ b.live = buf.live \/ b.live = buf.live \cup {NewChunk(buf)}
  BY <1>1, CanWriteRoom, RefreshWriterGood
<1>3. Addr \ b.live # {} BY <1>2, CanWriteRoom
<1>4. /\ b.localWriterIndex + n > SingleCapacity
      /\ buf' = AppendBuffer(CopyIn(b, m, written))
      /\ call' = InCall("WriteBytes", n - m)
      /\ Wrote(m) /\ result' = result
  BY DEF WriteBytesSplit
<1> HIDE DEF b
<1>5. b.localWriterIndex \in 0 .. SingleCapacity BY <1>1, <1>2, GoodFields
<1>6. /\ m \in Nat /\ b.localWriterIndex + m = SingleCapacity
      /\ n - m \in Nat /\ n - m >= 1
  BY <1>4, <1>5, CapacityAssumption
<1> HIDE DEF m
<1>7. /\ Good(buf', written + m, 0)
      /\ buf'.localWriterIndex = 0
      /\ buf'.readableBytes = buf.readableBytes + m
  BY <1>1, <1>2, <1>3, <1>4, <1>6, FillAndAppend
<1>8. Queue!Put /\ written' \in Nat /\ out' \in Seq(Int)
  BY <1>1, <1>4, <1>6, <1>7, WroteIsPut
<1>9. written' = written + m BY <1>4 DEF Wrote
<1>10. CallResumesInStep'
  <2>1. call'.op = "WriteBytes" /\ call'.size = n - m BY <1>4 DEF InCall
  <2> QED BY <1>6, <1>7, <2>1 DEF CallResumesInStep
<1>11. "WriteBytes" # "SkipReadBytes" OBVIOUS
<1> QED BY <1>1, <1>4, <1>6, <1>7, <1>8, <1>9, <1>10, <1>11, CallKeepsIInv

LEMMA WriteBytesKeeps ==
  ASSUME IInv, Idle, NEW n \in Nat, CanWrite(n), WriteBytes(n)
  PROVE  IInv' /\ Queue!Put
<1>1. CASE WriteBytesWhole(n) BY <1>1, WholeWrite DEF WriteBytesWhole
<1>2. CASE WriteBytesSplit(n) BY <1>2, SplitWrite
<1> QED BY <1>1, <1>2 DEF WriteBytes

LEMMA WriteByteCallKeeps ==
  ASSUME IInv, WriteByteCall
  PROVE  IInv' /\ Queue!Put
<1>1. /\ Idle /\ CanWrite(1) /\ Wrote(1) /\ Return("Success")
      /\ buf' = CopyIn(TryRefreshWriterBuffer(buf), 1, written)
  BY DEF WriteByteCall, WriteByte
<1>2. Good(buf, written, 0) /\ written \in Nat BY <1>1, IdleGood
<1>3. /\ Good(TryRefreshWriterBuffer(buf), written, 0)
      /\ TryRefreshWriterBuffer(buf).localWriterIndex < SingleCapacity
  BY <1>1, <1>2, CanWriteRoom, RefreshWriterGood
<1>4. TryRefreshWriterBuffer(buf).localWriterIndex \in 0 .. SingleCapacity
  BY <1>2, <1>3, GoodFields
<1>5. TryRefreshWriterBuffer(buf).localWriterIndex + 1 <= SingleCapacity
  BY <1>3, <1>4, CapacityAssumption
<1> QED BY <1>1, <1>5, WholeWrite

LEMMA WriteBytesLoopKeeps ==
  ASSUME IInv, WriteBytesLoop
  PROVE  IInv' /\ Queue!Put
<1> DEFINE n == SingleCapacity
<1>1. /\ call.op = "WriteBytes" /\ call.size > n /\ CanWrite(n)
      /\ buf' = AppendBuffer(CopyIn(buf, n, written))
      /\ call' = InCall("WriteBytes", call.size - n)
      /\ Wrote(n) /\ result' = result
  BY DEF WriteBytesLoop
<1>2. /\ Good(buf, written, 0) /\ written \in Nat /\ result \in Results
      /\ call.size \in Nat /\ buf.localWriterIndex = 0
  <2>1. PendingSkip = 0 BY <1>1 DEF PendingSkip
  <2>2. call.op # "Released" BY <1>1
  <2> QED BY <1>1, <2>1, <2>2, IInvGood DEF IInv, CallResumesInStep
<1>3. /\ n \in Nat /\ buf.localWriterIndex + n = SingleCapacity
      /\ call.size - n \in Nat /\ call.size - n >= 1
      /\ buf.readableBytes \in Nat
  <2>0. Good(buf, written, 0) /\ written \in Nat BY <1>2
  <2>1. buf.readableBytes \in Nat BY <2>0, GoodFields
  <2> QED BY <1>1, <1>2, <2>1, CapacityAssumption
<1>4. Addr \ buf.live # {} BY <1>1, CanWriteRoom
<1>5. /\ Good(buf', written + n, 0)
      /\ buf'.localWriterIndex = 0
      /\ buf'.readableBytes = buf.readableBytes + n
  BY <1>1, <1>2, <1>3, <1>4, FillAndAppend
<1>6. Queue!Put /\ written' \in Nat /\ out' \in Seq(Int)
  BY <1>1, <1>2, <1>3, <1>5, WroteIsPut
<1>7. written' = written + n BY <1>1 DEF Wrote
<1>8. CallResumesInStep'
  <2>1. call'.op = "WriteBytes" /\ call'.size = call.size - n
    BY <1>1 DEF InCall
  <2> QED BY <1>3, <1>5, <2>1 DEF CallResumesInStep
<1>9. "WriteBytes" # "SkipReadBytes" OBVIOUS
<1> QED BY <1>1, <1>2, <1>3, <1>5, <1>6, <1>7, <1>8, <1>9, CallKeepsIInv

LEMMA WriteBytesRestKeeps ==
  ASSUME IInv, WriteBytesRest
  PROVE  IInv' /\ Queue!Put
<1> DEFINE n == call.size
<1>1. /\ call.op = "WriteBytes" /\ n <= SingleCapacity
      /\ buf' = CopyIn(buf, n, written)
      /\ Wrote(n) /\ Return("Success")
  BY DEF WriteBytesRest
<1>2. /\ Good(buf, written, 0) /\ written \in Nat
      /\ n \in Nat /\ buf.localWriterIndex = 0
  <2>1. PendingSkip = 0 BY <1>1 DEF PendingSkip
  <2>2. call.op # "Released" BY <1>1
  <2> QED BY <1>1, <2>1, <2>2, IInvGood DEF IInv, CallResumesInStep
<1>3. buf.readableBytes \in Nat /\ buf.localWriterIndex + n <= SingleCapacity
  <2>0. Good(buf, written, 0) /\ written \in Nat BY <1>2
  <2>1. buf.readableBytes \in Nat BY <2>0, GoodFields
  <2> QED BY <1>1, <1>2, <2>1, CapacityAssumption
<1>4. /\ Good(buf', written + n, 0)
      /\ buf'.readableBytes = buf.readableBytes + n
  BY <1>1, <1>2, <1>3, CopyInGood
<1>5. Queue!Put /\ written' \in Nat /\ out' \in Seq(Int)
  BY <1>1, <1>2, <1>3, <1>4, WroteIsPut
<1>6. written' = written + n BY <1>1 DEF Wrote
<1>7. "Success" \in Results BY DEF Results
<1> QED BY <1>1, <1>4, <1>5, <1>6, <1>7, ReturnKeepsIInv

LEMMA WriteBytesAndDeleteKeeps ==
  ASSUME Contract = ContractOps, IInv,
         NEW n \in Nat, WriteBytesAndDelete(n)
  PROVE  IInv' /\ Queue!Put
<1>1. ~ (buf.localWriterIndex = 0 /\ n = SingleCapacity)
  BY DEF WriteBytesAndDelete, Respects, ContractOps, WriteBytesAndDeleteExact
<1>2. Idle /\ CanWrite(n) /\ WriteBytes(n)
  BY <1>1 DEF WriteBytesAndDelete
<1> QED BY <1>2, WriteBytesKeeps

LEMMA DirectWriteKeeps ==
  ASSUME Contract = ContractOps, IInv, NEW n \in Nat, DirectWrite(n)
  PROVE  IInv' /\ Queue!Put
<1>1. /\ Idle /\ CanWrite(n) /\ CanWriteDirect(buf, n)
      /\ buf.localWriterIndex = 0
      /\ buf' = SkipWriteBytes(FillChunk(buf, n, written), n)
      /\ Wrote(n) /\ Return("Success")
  BY DEF DirectWrite, Respects, ContractOps, SkipWriteBytesExact
<1>2. Good(buf, written, 0) /\ written \in Nat /\ buf.readableBytes \in Nat
  BY <1>1, IdleGood
<1>3. buf' = CopyIn(buf, n, written)
  BY <1>1, <1>2, SkipWriteBytesIsCopyIn
<1>4. buf.localWriterIndex + n <= SingleCapacity
  BY <1>1, CapacityAssumption DEF CanWriteDirect
<1>5. /\ Good(buf', written + n, 0)
      /\ buf'.readableBytes = buf.readableBytes + n
  BY <1>2, <1>3, <1>4, CopyInGood
<1>6. Queue!Put /\ written' \in Nat /\ out' \in Seq(Int)
  BY <1>1, <1>2, <1>5, WroteIsPut
<1>7. written' = written + n BY <1>1 DEF Wrote
<1>8. "Success" \in Results BY DEF Results
<1> QED BY <1>1, <1>5, <1>6, <1>7, <1>8, ReturnKeepsIInv

-----------------------------------------------------------------------------
(* The reading actions: the invariant, and a Take or a Skip of the queue. *)

QueueRead == Queue!Take \/ Queue!Skip

(* Bytes copied to the client from a good buffer are a Take. *)
LEMMA TookIsTake ==
  ASSUME written \in Nat, buf.readableBytes \in Nat,
         NEW b, Good(b, written, 0), b.readableBytes = buf.readableBytes,
         NEW n \in Nat, n <= buf.readableBytes,
         b.localReaderIndex + n <= SingleCapacity,
         Took(b, n), buf'.readableBytes = buf.readableBytes - n
  PROVE  /\ QueueRead
         /\ written' = written /\ written' \in Nat
         /\ out' \in Seq(Int)
<1> DEFINE u == written - buf.readableBytes
<1>1. /\ written' = written
      /\ out' = [k \in 1 .. n |-> u + k - 1]
  BY DirectBytesAreNext DEF Took
<1>2. written' - buf'.readableBytes = u + n /\ u \in Int BY <1>1
<1>3. u + n <= written BY <1>1
<1> DEFINE v == written' - buf'.readableBytes
<1>4. v = u + n BY <1>2
<1>5. (written - buf.readableBytes)' = v OBVIOUS
<1> HIDE DEF u, v
<1>6. out' \in Seq(Int) BY <1>1, <1>2
<1>7. CASE n = 0
  <2>1. v = u /\ u <= v /\ v <= written BY <1>2, <1>3, <1>4, <1>7
  <2>2. out' = <<>> BY <1>1, <1>7
  <2> QED BY <1>1, <1>6, <2>1, <2>2 DEF Queue!Skip, QueueRead, u, v
<1>8. CASE n > 0
  <2>1. u < v /\ v <= written /\ v - u = n BY <1>2, <1>3, <1>4, <1>8
  <2>2. out' = [k \in 1 .. v - u |-> u + k - 1] BY <1>1, <2>1
  <2> QED BY <1>1, <1>6, <2>1, <2>2 DEF Queue!Take, QueueRead, u, v
<1> QED BY <1>7, <1>8

LEMMA WholeRead ==
  ASSUME IInv, Idle, NEW n \in Nat, n <= buf.readableBytes,
         \/ n > 0
         \/ buf.localReaderIndex < SingleCapacity
         \/ Len(buf.buffers) > 1,
         TryRefreshReaderBuffer(buf).localReaderIndex + n <= SingleCapacity,
         buf' = Consume(TryRefreshReaderBuffer(buf), n),
         Took(TryRefreshReaderBuffer(buf), n), Return("Success")
  PROVE  IInv' /\ QueueRead
<1> DEFINE b == TryRefreshReaderBuffer(buf)
<1>1. Good(buf, written, 0) /\ written \in Nat /\ buf.readableBytes \in Nat
  BY IdleGood
<1>2. Good(b, written, 0) /\ b.readableBytes = buf.readableBytes
  <2>1. \/ buf.readableBytes > 0
        \/ buf.localReaderIndex < SingleCapacity
        \/ Len(buf.buffers) > 1
    BY <1>1
  <2> QED BY <1>1, <2>1, RefreshReaderGood
<1>3. /\ b.localReaderIndex + n <= SingleCapacity
      /\ buf' = Consume(b, n) /\ Took(b, n)
  OBVIOUS
<1> HIDE DEF b
<1>4. /\ Good(buf', written, 0)
      /\ buf'.readableBytes = buf.readableBytes - n
  BY <1>1, <1>2, <1>3, ConsumeGood
<1>5. QueueRead /\ written' = written /\ written' \in Nat /\ out' \in Seq(Int)
  BY <1>1, <1>2, <1>3, <1>4, TookIsTake
<1>6. "Success" \in Results BY DEF Results
<1> QED BY <1>4, <1>5, <1>6, ReturnKeepsIInv

LEMMA ReadByteCallKeeps ==
  ASSUME IInv, ReadByteCall
  PROVE  IInv' /\ QueueRead
<1> DEFINE b == TryRefreshReaderBuffer(buf)
<1>1. /\ Idle /\ buf.readableBytes >= 1
      /\ buf' = Consume(b, 1)
      /\ Took(b, 1) /\ Return("Success")
  BY DEF ReadByteCall, ReadByteUnsafe
<1>2. Good(buf, written, 0) /\ written \in Nat /\ buf.readableBytes \in Nat
  BY <1>1, IdleGood
<1>3. buf.readableBytes > 0 BY <1>1, <1>2
<1>4. Good(b, written, 0) /\ b.localReaderIndex < SingleCapacity
  BY <1>2, <1>3, RefreshReaderGood
<1>5. b.localReaderIndex \in 0 .. SingleCapacity BY <1>2, <1>4, GoodFields
<1>6. b.localReaderIndex + 1 <= SingleCapacity
  BY <1>4, <1>5, CapacityAssumption
<1>7. 1 \in Nat /\ 1 <= buf.readableBytes /\ 1 > 0 BY <1>1, <1>2
<1> QED BY <1>1, <1>6, <1>7, WholeRead

LEMMA ReadBytesWholeKeeps ==
  ASSUME Contract = ContractOps, IInv, NEW n \in Nat, ReadBytesWhole(n)
  PROVE  IInv' /\ QueueRead
BY WholeRead DEF ReadBytesWhole, Respects, ContractOps, ReadBytesExact

(* Reading the rest of the front chunk and popping it. *)
LEMMA DrainAndPop ==
  ASSUME NEW b, NEW w \in Nat, Good(b, w, 0), NEW n \in Nat,
         n < b.readableBytes, b.localReaderIndex + n = SingleCapacity,
         NEW c, c = PopBuffer(Consume(b, n))
  PROVE  /\ Good(c, w, 0)
         /\ c.localReaderIndex = 0
         /\ c.readableBytes = b.readableBytes - n
<1> DEFINE d == Consume(b, n)
<1>1. b.readableBytes \in Nat BY GoodFields
<1>2. b.localReaderIndex + n <= SingleCapacity /\ n <= b.readableBytes
  BY <1>1, CapacityAssumption
<1>3. /\ Good(d, w, 0)
      /\ d.localReaderIndex = SingleCapacity
      /\ d.readableBytes = b.readableBytes - n
  BY <1>2, ConsumeGood
<1>4. d.readableBytes > 0 BY <1>1, <1>3
<1> HIDE DEF d
<1>5. c = TryRefreshReaderBuffer(d)
  BY <1>3, CapacityAssumption DEF TryRefreshReaderBuffer, d
<1>6. Good(c, w, 0) /\ c.readableBytes = b.readableBytes - n
  BY <1>3, <1>4, <1>5, RefreshReaderGood
<1>7. c.localReaderIndex = 0
  <2>1. d.readableBytes + 0 > SingleCapacity - d.localReaderIndex
    BY <1>1, <1>3, <1>4, CapacityAssumption
  <2>2. Len(d.buffers) > 1 BY <1>3, <2>1, MoreChunks
  <2>3. 0 >= SingleCapacity - d.localReaderIndex
    BY <1>3, CapacityAssumption
  <2>4. c = PopBuffer(d) BY DEF d
  <2> QED BY <1>3, <2>2, <2>3, <2>4, PopBufferGood
<1> QED BY <1>6, <1>7

(* Both steps of ReadBytes that cross a chunk. *)
LEMMA CrossingRead ==
  ASSUME written \in Nat, result \in Results, result' = result,
         NEW b, Good(b, written, 0), b.readableBytes = buf.readableBytes,
         NEW size \in Nat, size <= buf.readableBytes,
         b.localReaderIndex + size > SingleCapacity,
         NEW m, m = SingleCapacity - b.localReaderIndex,
         buf' = PopBuffer(Consume(b, m)),
         call' = InCall("ReadBytes", size - m),
         Took(b, m)
  PROVE  IInv' /\ QueueRead
<1>1. b.localReaderIndex \in 0 .. SingleCapacity /\ b.readableBytes \in Nat
  BY GoodFields
<1>2. /\ m \in Nat /\ b.localReaderIndex + m = SingleCapacity
      /\ b.localReaderIndex + m <= SingleCapacity
      /\ m < b.readableBytes /\ m <= buf.readableBytes
      /\ size - m \in Nat /\ size - m >= 1
      /\ size - m <= b.readableBytes - m
      /\ b.readableBytes - m \in Nat
  BY <1>1, CapacityAssumption
<1>3. /\ Good(buf', written, 0)
      /\ buf'.localReaderIndex = 0
      /\ buf'.readableBytes = b.readableBytes - m
  BY <1>2, DrainAndPop
<1>4. QueueRead /\ written' = written /\ written' \in Nat /\ out' \in Seq(Int)
  BY <1>1, <1>2, <1>3, TookIsTake
<1>5. CallResumesInStep'
  <2>1. call'.op = "ReadBytes" /\ call'.size = size - m BY DEF InCall
  <2>2. size - m \in 1 .. buf'.readableBytes BY <1>2, <1>3
  <2> QED BY <1>3, <2>1, <2>2 DEF CallResumesInStep
<1>6. "ReadBytes" # "SkipReadBytes" OBVIOUS
<1> QED BY <1>2, <1>3, <1>4, <1>5, <1>6, CallKeepsIInv

LEMMA ReadBytesSplitKeeps ==
  ASSUME Contract = ContractOps, IInv, NEW n \in Nat, ReadBytesSplit(n)
  PROVE  IInv' /\ QueueRead
<1> DEFINE b == TryRefreshReaderBuffer(buf)
           m == SingleCapacity - b.localReaderIndex
<1>1. /\ Idle /\ n <= buf.readableBytes
      /\ n > 0 \/ buf.localReaderIndex < SingleCapacity \/ Len(buf.buffers) > 1
      /\ b.localReaderIndex + n > SingleCapacity
      /\ buf' = PopBuffer(Consume(b, m))
      /\ call' = InCall("ReadBytes", n - m)
      /\ Took(b, m) /\ result' = result
  BY DEF ReadBytesSplit, Respects, ContractOps, ReadBytesExact
<1>2. /\ Good(buf, written, 0) /\ written \in Nat
      /\ buf.readableBytes \in Nat /\ result \in Results
  BY <1>1, IdleGood
<1>3. Good(b, written, 0) /\ b.readableBytes = buf.readableBytes
  <2>1. \/ buf.readableBytes > 0
        \/ buf.localReaderIndex < SingleCapacity
        \/ Len(buf.buffers) > 1
    BY <1>1, <1>2
  <2> QED BY <1>2, <2>1, RefreshReaderGood
<1> HIDE DEF b
<1> QED BY <1>1, <1>2, <1>3, CrossingRead

(* Inside ReadBytes. *)
LEMMA InReadBytes ==
  ASSUME IInv, call.op = "ReadBytes"
  PROVE  /\ Good(buf, written, 0) /\ written \in Nat /\ result \in Results
         /\ call.size \in Nat /\ buf.readableBytes \in Nat
         /\ buf.localReaderIndex = 0
         /\ call.size >= 1 /\ call.size <= buf.readableBytes
<1>1. PendingSkip = 0 BY DEF PendingSkip
<1>2. call.op # "Released" OBVIOUS
<1>3. /\ Good(buf, written, 0) /\ written \in Nat /\ result \in Results
      /\ call.size \in Nat
  BY <1>1, <1>2, IInvGood
<1>4. buf.readableBytes \in Nat BY <1>3, GoodFields
<1>5. buf.localReaderIndex = 0 /\ call.size \in 1 .. buf.readableBytes
  BY DEF IInv, CallResumesInStep
<1> QED BY <1>3, <1>4, <1>5

LEMMA ReadBytesLoopKeeps ==
  ASSUME IInv, ReadBytesLoop
  PROVE  IInv' /\ QueueRead
<1>1. /\ call.op = "ReadBytes" /\ call.size > SingleCapacity
      /\ buf' = PopBuffer(Consume(buf, SingleCapacity))
      /\ call' = InCall("ReadBytes", call.size - SingleCapacity)
      /\ Took(buf, SingleCapacity) /\ result' = result
  BY DEF ReadBytesLoop
<1>2. /\ Good(buf, written, 0) /\ written \in Nat /\ result \in Results
      /\ call.size \in Nat /\ buf.readableBytes \in Nat
      /\ buf.localReaderIndex = 0
      /\ call.size <= buf.readableBytes
  BY <1>1, InReadBytes
<1>3. /\ SingleCapacity = SingleCapacity - buf.localReaderIndex
      /\ buf.localReaderIndex + call.size > SingleCapacity
  BY <1>1, <1>2, CapacityAssumption
<1> QED BY <1>1, <1>2, <1>3, CrossingRead

LEMMA ReadBytesRestKeeps ==
  ASSUME IInv, ReadBytesRest
  PROVE  IInv' /\ QueueRead
<1> DEFINE n == call.size
<1>1. /\ call.op = "ReadBytes" /\ n <= SingleCapacity
      /\ buf' = Consume(buf, n)
      /\ Took(buf, n) /\ Return("Success")
  BY DEF ReadBytesRest
<1>2. /\ Good(buf, written, 0) /\ written \in Nat
      /\ n \in Nat /\ buf.readableBytes \in Nat
      /\ buf.localReaderIndex = 0
      /\ n <= buf.readableBytes
  BY <1>1, InReadBytes
<1>3. buf.localReaderIndex + n <= SingleCapacity
  BY <1>1, <1>2, CapacityAssumption
<1>4. /\ Good(buf', written, 0)
      /\ buf'.readableBytes = buf.readableBytes - n
  BY <1>1, <1>2, <1>3, ConsumeGood
<1>5. QueueRead /\ written' = written /\ written' \in Nat /\ out' \in Seq(Int)
  BY <1>1, <1>2, <1>3, <1>4, TookIsTake
<1>6. "Success" \in Results BY DEF Results
<1> QED BY <1>1, <1>4, <1>5, <1>6, ReturnKeepsIInv

(* readableBytes went down by n, or stayed, and nothing was copied. *)
LEMMA SkippedIsSkip ==
  ASSUME written \in Nat, buf.readableBytes \in Nat, NothingMoved,
         NEW n \in Nat, n <= buf.readableBytes,
         buf'.readableBytes = buf.readableBytes - n
  PROVE  /\ Queue!Skip
         /\ written' = written /\ written' \in Nat
         /\ out' \in Seq(Int)
<1> DEFINE u == written - buf.readableBytes
           v == written' - buf'.readableBytes
<1>1. written' = written /\ out' = <<>> BY DEF NothingMoved
<1>2. u <= v /\ v <= written BY <1>1
<1>3. out' \in Seq(Int) BY <1>1
<1>4. (written - buf.readableBytes)' = v OBVIOUS
<1> HIDE DEF u, v
<1> QED BY <1>1, <1>2, <1>3, <1>4 DEF Queue!Skip, u, v

(* The early returns of ReadBytes and SkipReadBytes. *)
LEMMA EarlyReturnKeeps ==
  ASSUME IInv, Idle, buf' = buf, NothingMoved, NEW res \in Results,
         Return(res)
  PROVE  IInv' /\ Queue!Skip
<1>1. Good(buf, written, 0) /\ written \in Nat /\ buf.readableBytes \in Nat
  BY IdleGood
<1>2. /\ 0 <= buf.readableBytes
      /\ buf'.readableBytes = buf.readableBytes - 0
  BY <1>1
<1>3. /\ Queue!Skip /\ written' = written /\ written' \in Nat
      /\ out' \in Seq(Int)
  BY <1>1, <1>2, SkippedIsSkip
<1> QED BY <1>1, <1>3, ReturnKeepsIInv

LEMMA SkipReadBytesKeeps ==
  ASSUME Contract = ContractOps, IInv, NEW n \in Nat, SkipReadBytes(n)
  PROVE  IInv' /\ Queue!Skip
<1> DEFINE x == buf.localReaderIndex
           r == buf.readableBytes - n
<1>1. /\ Idle /\ n <= buf.readableBytes
      /\ x = 0 \/ n > SingleCapacity - x
      /\ n < buf.readableBytes \/ buf.localWriterIndex < SingleCapacity
      /\ buf' = [buf EXCEPT !.readableBytes = r]
      /\ call' = InCall("SkipReadBytes", n)
      /\ NothingMoved /\ result' = result
  BY DEF SkipReadBytes, Respects, ContractOps, SkipReadBytesExact
<1>2. /\ Good(buf, written, 0) /\ written \in Nat
      /\ buf.readableBytes \in Nat /\ result \in Results
  BY <1>1, IdleGood
<1>3. x \in 0 .. SingleCapacity BY <1>2, GoodFields
<1>4. buf' = MoveReader(buf, x, r)
  <2>1. buf \in ByteBuffers BY <1>2 DEF Good
  <2> QED BY <1>1, <2>1 DEF MoveReader, ByteBuffers
<1>5. r \in Nat /\ r + n + x = buf.readableBytes + 0 + x
  BY <1>1, <1>2, <1>3, CapacityAssumption
<1> HIDE DEF x, r
<1>6. /\ Good(buf', written, n)
      /\ buf'.localReaderIndex = x
      /\ buf'.localWriterIndex = buf.localWriterIndex
      /\ buf'.readableBytes = r
  BY <1>2, <1>3, <1>4, <1>5, MoveReaderGood DEF x
<1>7. /\ Queue!Skip /\ written' = written /\ written' \in Nat
      /\ out' \in Seq(Int)
  BY <1>1, <1>2, <1>6, SkippedIsSkip DEF r
<1>8. CallResumesInStep'
  <2>1. call'.op = "SkipReadBytes" /\ call'.size = n BY <1>1 DEF InCall
  <2>2. r > 0 \/ buf.localWriterIndex < SingleCapacity
    BY <1>1, <1>2 DEF r
  <2> QED BY <1>1, <1>6, <2>1, <2>2 DEF CallResumesInStep
<1> QED BY <1>1, <1>2, <1>6, <1>7, <1>8, CallKeepsIInv

(* Inside SkipReadBytes. *)
LEMMA InSkipReadBytes ==
  ASSUME IInv, call.op = "SkipReadBytes"
  PROVE  /\ Good(buf, written, call.size)
         /\ written \in Nat /\ result \in Results
         /\ call.size \in Nat /\ buf.readableBytes \in Nat
         /\ buf.localReaderIndex \in 0 .. SingleCapacity
         /\ \/ buf.localReaderIndex = 0
            \/ call.size > SingleCapacity - buf.localReaderIndex
         /\ buf.readableBytes > 0 \/ buf.localWriterIndex < SingleCapacity
<1>1. PendingSkip = call.size BY DEF PendingSkip
<1>2. call.op # "Released" OBVIOUS
<1>3. /\ Good(buf, written, call.size) /\ written \in Nat
      /\ result \in Results /\ call.size \in Nat
  BY <1>1, <1>2, IInvGood
<1>4. buf.readableBytes \in Nat /\ buf.localReaderIndex \in 0 .. SingleCapacity
  BY <1>3, GoodFields
<1> QED BY <1>3, <1>4 DEF IInv, CallResumesInStep

LEMMA SkipReadBytesLoopKeeps ==
  ASSUME IInv, SkipReadBytesLoop
  PROVE  IInv' /\ Queue!Skip
<1> DEFINE n == call.size
           m == SingleCapacity - buf.localReaderIndex
<1>1. /\ call.op = "SkipReadBytes" /\ n > m
      /\ buf' = PopBuffer(buf)
      /\ call' = InCall("SkipReadBytes", n - m)
      /\ NothingMoved /\ result' = result
  BY DEF SkipReadBytesLoop
<1>2. /\ Good(buf, written, n)
      /\ written \in Nat /\ result \in Results
      /\ n \in Nat /\ buf.readableBytes \in Nat
      /\ buf.localReaderIndex \in 0 .. SingleCapacity
      /\ buf.readableBytes > 0 \/ buf.localWriterIndex < SingleCapacity
  BY <1>1, InSkipReadBytes
<1>3. n >= m /\ buf.readableBytes + n > m BY <1>1, <1>2, CapacityAssumption
<1>4. Len(buf.buffers) > 1 BY <1>2, <1>3, MoreChunks
<1>5. /\ n - m \in Nat
      /\ Good(buf', written, n - m)
      /\ buf'.localReaderIndex = 0
      /\ buf'.localWriterIndex = buf.localWriterIndex
      /\ buf'.readableBytes = buf.readableBytes
  BY <1>1, <1>2, <1>3, <1>4, PopBufferGood
<1> HIDE DEF n, m
<1>6. /\ 0 <= buf.readableBytes
      /\ buf'.readableBytes = buf.readableBytes - 0
  BY <1>2, <1>5
<1>7. /\ Queue!Skip /\ written' = written /\ written' \in Nat
      /\ out' \in Seq(Int)
  BY <1>1, <1>2, <1>6, SkippedIsSkip
<1>8. CallResumesInStep'
  <2>1. call'.op = "SkipReadBytes" BY <1>1 DEF InCall
  <2> QED BY <1>2, <1>5, <2>1 DEF CallResumesInStep
<1> QED BY <1>1, <1>2, <1>5, <1>7, <1>8, CallKeepsIInv

LEMMA SkipReadBytesRestKeeps ==
  ASSUME IInv, SkipReadBytesRest
  PROVE  IInv' /\ Queue!Skip
<1> DEFINE n == call.size
           r == buf.readableBytes
           c == [buf EXCEPT !.localReaderIndex = n]
<1>1. /\ call.op = "SkipReadBytes"
      /\ n <= SingleCapacity - buf.localReaderIndex
      /\ buf' = TryRefreshReaderBuffer(c)
      /\ NothingMoved /\ Return("Success")
  BY DEF SkipReadBytesRest, SkipInChunk
<1>2. /\ Good(buf, written, n)
      /\ written \in Nat
      /\ n \in Nat /\ r \in Nat
      /\ buf.localReaderIndex \in 0 .. SingleCapacity
      /\ \/ buf.localReaderIndex = 0
         \/ n > SingleCapacity - buf.localReaderIndex
      /\ r > 0 \/ buf.localWriterIndex < SingleCapacity
  BY <1>1, InSkipReadBytes
<1>3. buf.localReaderIndex = 0 /\ n \in 0 .. SingleCapacity
  BY <1>1, <1>2, CapacityAssumption
<1>4. c = MoveReader(buf, n, r)
  <2>1. buf \in ByteBuffers BY <1>2 DEF Good
  <2> QED BY <2>1 DEF MoveReader, ByteBuffers
<1>5. r + 0 + n = buf.readableBytes + n + buf.localReaderIndex
  BY <1>2, <1>3
<1> HIDE DEF c, n
<1>6. /\ Good(c, written, 0)
      /\ c.localWriterIndex = buf.localWriterIndex
      /\ c.readableBytes = r
  BY <1>2, <1>3, <1>4, <1>5, MoveReaderGood
<1>7. Good(buf', written, 0) /\ buf'.readableBytes = r
  BY <1>1, <1>2, <1>6, RefreshReaderGood
<1>8. 0 <= r /\ buf'.readableBytes = r - 0 BY <1>2, <1>7
<1>9. /\ Queue!Skip /\ written' = written /\ written' \in Nat
      /\ out' \in Seq(Int)
  BY <1>1, <1>2, <1>8, SkippedIsSkip
<1>10. "Success" \in Results BY DEF Results
<1> QED BY <1>1, <1>7, <1>9, <1>10, ReturnKeepsIInv

-----------------------------------------------------------------------------
(* The resets and Release. *)

LEMMA ResetReaderIndexCallKeeps ==
  ASSUME IInv, ResetReaderIndexCall
  PROVE  IInv' /\ Queue!Rewind
<1> DEFINE x == buf.localReaderIndex
           B == Before(Len(buf.buffers))
           r == B + buf.localWriterIndex
<1>1. /\ Idle /\ buf' = ResetReaderIndex(buf)
      /\ NothingMoved /\ Return("Success")
  BY DEF ResetReaderIndexCall
<1>2. Good(buf, written, 0) /\ written \in Nat /\ buf.readableBytes \in Nat
  BY <1>1, IdleGood
<1>3. /\ x \in 0 .. SingleCapacity
      /\ buf.localWriterIndex \in 0 .. SingleCapacity
      /\ Len(buf.buffers) \in Nat
      /\ Origin(buf, written) \in Nat
  BY <1>2, GoodFields
<1>4. buf' = MoveReader(buf, 0, r)
  BY <1>1 DEF ResetReaderIndex, MoveReader, Before
<1>5. B \in Int BY <1>3, BeforeNext
<1>6. buf.readableBytes + 0 = r - x
  <2>1. buf.readableBytes + 0 = Distance(buf) BY <1>2 DEF Good
  <2>2. Distance(buf) = B + buf.localWriterIndex - x BY DEF Distance
  <2>3. x \in Int /\ buf.localWriterIndex \in Int BY <1>3, CapacityAssumption
  <2> HIDE DEF B
  <2> QED BY <1>5, <2>1, <2>2, <2>3
<1>7. Origin(buf, written) = written - B - buf.localWriterIndex BY DEF Origin
<1> HIDE DEF B
<1>8. x \in Int /\ buf.localWriterIndex \in Int /\ x >= 0
  BY <1>3, CapacityAssumption
<1>9. /\ r \in Nat /\ r + 0 + 0 = buf.readableBytes + 0 + x
      /\ r >= buf.readableBytes /\ written - r >= 0
  <2> DEFINE R == buf.readableBytes
             lw == buf.localWriterIndex
             o == Origin(buf, written)
  <2>1. /\ R \in Nat /\ lw \in Int /\ x \in Int /\ x >= 0 /\ B \in Int
        /\ o \in Nat /\ R + 0 = r - x /\ r = B + lw /\ o = written - B - lw
    BY <1>2, <1>3, <1>5, <1>6, <1>7, <1>8
  <2> HIDE DEF R, lw, x, r, o
  <2>2. r = R + x /\ o = written - r BY <1>2, <2>1
  <2>3. /\ r \in Nat /\ r + 0 + 0 = R + 0 + x
        /\ r >= R /\ written - r >= 0
    BY <1>2, <2>1, <2>2
  <2> QED BY <2>3 DEF R
<1>10. 0 \in 0 .. SingleCapacity BY CapacityAssumption
<1> HIDE DEF r, x
<1>11. Good(buf', written, 0) /\ buf'.readableBytes = r
  BY <1>2, <1>4, <1>9, <1>10, MoveReaderGood DEF x
<1>12. written' = written /\ out' = <<>> BY <1>1 DEF NothingMoved
<1>13. out' \in Seq(Int) BY <1>12
<1>14. Queue!Rewind
  <2>1. (written - buf.readableBytes)' = written - r BY <1>11, <1>12
  <2>2. 0 <= written - r /\ written - r <= written - buf.readableBytes
    BY <1>2, <1>9
  <2> QED BY <1>12, <2>1, <2>2 DEF Queue!Rewind
<1>15. "Success" \in Results BY DEF Results
<1> QED BY <1>1, <1>2, <1>11, <1>12, <1>13, <1>14, <1>15, ReturnKeepsIInv

LEMMA ResetWriterIndexCallKeeps ==
  ASSUME Contract = ContractOps, IInv, ResetWriterIndexCall
  PROVE  IInv' /\ Queue!Skip
<1>1. /\ Idle /\ buf' = ResetWriterIndex(buf)
      /\ ResetWriterIndexExact(buf)
      /\ NothingMoved /\ Return("Success")
  BY DEF ResetWriterIndexCall, Respects, ContractOps
<1>2. Good(buf, written, 0) /\ written \in Nat /\ buf.readableBytes \in Nat
  BY <1>1, IdleGood
<1>3. Good(buf', written, 0) /\ buf'.readableBytes = 0
  BY <1>1, <1>2, ResetWriterIndexGood
<1>4. /\ buf.readableBytes <= buf.readableBytes
      /\ buf'.readableBytes = buf.readableBytes - buf.readableBytes
  BY <1>2, <1>3
<1>5. /\ Queue!Skip /\ written' = written /\ written' \in Nat
      /\ out' \in Seq(Int)
  BY <1>1, <1>2, <1>4, SkippedIsSkip
<1>6. "Success" \in Results BY DEF Results
<1> QED BY <1>1, <1>3, <1>5, <1>6, ReturnKeepsIInv

LEMMA ReleaseCallKeeps ==
  ASSUME IInv, ReleaseCall
  PROVE  IInv' /\ Queue!Skip
<1>1. /\ Idle /\ buf' = Release(buf)
      /\ call' = InCall("Released", 0)
      /\ NothingMoved /\ result' = result
  BY DEF ReleaseCall
<1>2. /\ Good(buf, written, 0) /\ written \in Nat
      /\ buf.readableBytes \in Nat /\ result \in Results
  BY <1>1, IdleGood
<1>3. /\ buf' \in ByteBuffers
      /\ buf'.buffers = <<>>
      /\ buf'.live = buf.live \ Chunks(buf)
      /\ buf'.readableBytes = buf.readableBytes
  <2>1. buf \in ByteBuffers /\ buf.live \in SUBSET Addr
    BY <1>2, GoodFields DEF Good
  <2>2. buf.live \ Chunks(buf) \in SUBSET Addr BY <2>1
  <2>3. <<>> \in Seq(Addr) OBVIOUS
  <2> QED BY <1>1, <2>1, <2>2, <2>3 DEF Release, ByteBuffers
<1>4. DequeOwnsHeap(buf')
  <2>1. buf.live = Chunks(buf) BY <1>2 DEF Good, DequeOwnsHeap
  <2>2. Len(buf'.buffers) = 0 BY <1>3
  <2>3. Chunks(buf') = {} BY <2>2 DEF Chunks
  <2> QED BY <1>3, <2>1, <2>2, <2>3 DEF DequeOwnsHeap
<1>5. /\ 0 <= buf.readableBytes
      /\ buf'.readableBytes = buf.readableBytes - 0
  BY <1>2, <1>3
<1>6. /\ Queue!Skip /\ written' = written /\ written' \in Nat
      /\ out' \in Seq(Int)
  BY <1>1, <1>2, <1>5, SkippedIsSkip
<1>7. call' \in [op : Ops, size : Nat] /\ call'.op = "Released"
  BY <1>1 DEF InCall, Ops
<1> QED BY <1>1, <1>2, <1>3, <1>4, <1>6, <1>7
        DEF IInv, TypeOK, ChunkOwnership, ReadableAccounting, StreamIntact,
            CallResumesInStep

-----------------------------------------------------------------------------
(* The theorems. *)

(* A step of the buffer, seen through the refinement mapping. *)
QueueStep == [Queue!Next]_(Queue!vars)

LEMMA InitIInv ==
  ASSUME Init
  PROVE  IInv /\ Queue!Init
<1>1. /\ buf = NewByteBuffer /\ call = NoCall /\ written = 0
      /\ out = <<>> /\ result = "Success"
  BY DEF Init
<1>2. call.op = "idle" /\ call \in [op : Ops, size : Nat]
  BY <1>1 DEF NoCall, Ops
<1>3. PendingSkip = 0 BY <1>2 DEF PendingSkip
<1>4. Good(buf, written, 0) BY <1>1, NewByteBufferGood
<1>5. out \in Seq(Int) /\ result \in Results /\ written \in Nat
  BY <1>1 DEF Results
<1>6. buf.readableBytes = 0 BY <1>1 DEF NewByteBuffer
<1>7. Queue!Init BY <1>1, <1>6 DEF Queue!Init
<1> QED BY <1>2, <1>3, <1>4, <1>5, <1>7
        DEF IInv, TypeOK, ChunkOwnership, ReadableAccounting, StreamIntact,
            CallResumesInStep, Good

LEMMA NextKeepsIInv ==
  ASSUME Contract = ContractOps, IInv, [Next]_vars
  PROVE  IInv' /\ QueueStep
<1>0. \A n \in 0 .. MaxSize : n \in Nat BY BoundAssumption
<1>1. CASE WriteByteCall
  BY <1>1, WriteByteCallKeeps DEF QueueStep, Queue!Next
<1>2. CASE \E n \in 0 .. MaxSize : WriteBytesCall(n)
  BY <1>0, <1>2, WriteBytesKeeps DEF WriteBytesCall, QueueStep, Queue!Next
<1>3. CASE WriteBytesLoop
  BY <1>3, WriteBytesLoopKeeps DEF QueueStep, Queue!Next
<1>4. CASE WriteBytesRest
  BY <1>4, WriteBytesRestKeeps DEF QueueStep, Queue!Next
<1>5. CASE \E n \in 0 .. MaxSize : WriteBytesAndDelete(n)
  BY <1>0, <1>5, WriteBytesAndDeleteKeeps DEF QueueStep, Queue!Next
<1>6. CASE \E n \in 0 .. MaxSize : DirectWrite(n)
  BY <1>0, <1>6, DirectWriteKeeps DEF QueueStep, Queue!Next
<1>7. CASE ReadByteCall
  BY <1>7, ReadByteCallKeeps DEF QueueStep, QueueRead, Queue!Next
<1>8. CASE \E n \in 0 .. MaxSize : ReadBytesIncomplete(n)
  <2>1. "IncompleteByteArrayErrorable" \in Results BY DEF Results
  <2> QED BY <1>8, <2>1, EarlyReturnKeeps
          DEF ReadBytesIncomplete, QueueStep, Queue!Next
<1>9. CASE \E n \in 0 .. MaxSize : ReadBytesWhole(n)
  BY <1>0, <1>9, ReadBytesWholeKeeps DEF QueueStep, QueueRead, Queue!Next
<1>10. CASE \E n \in 0 .. MaxSize : ReadBytesSplit(n)
  BY <1>0, <1>10, ReadBytesSplitKeeps DEF QueueStep, QueueRead, Queue!Next
<1>11. CASE ReadBytesLoop
  BY <1>11, ReadBytesLoopKeeps DEF QueueStep, QueueRead, Queue!Next
<1>12. CASE ReadBytesRest
  BY <1>12, ReadBytesRestKeeps DEF QueueStep, QueueRead, Queue!Next
<1>13. CASE \E n \in 0 .. MaxSize : SkipReadBytesInvalid(n)
  <2>1. "InvalidReadSkipRequest" \in Results BY DEF Results
  <2> QED BY <1>13, <2>1, EarlyReturnKeeps
          DEF SkipReadBytesInvalid, QueueStep, Queue!Next
<1>14. CASE \E n \in 0 .. MaxSize : SkipReadBytes(n)
  BY <1>0, <1>14, SkipReadBytesKeeps DEF QueueStep, Queue!Next
<1>15. CASE SkipReadBytesLoop
  BY <1>15, SkipReadBytesLoopKeeps DEF QueueStep, Queue!Next
<1>16. CASE SkipReadBytesRest
  BY <1>16, SkipReadBytesRestKeeps DEF QueueStep, Queue!Next
<1>17. CASE ResetReaderIndexCall
  BY <1>17, ResetReaderIndexCallKeeps DEF QueueStep, Queue!Next
<1>18. CASE ResetWriterIndexCall
  BY <1>18, ResetWriterIndexCallKeeps DEF QueueStep, Queue!Next
<1>19. CASE ReleaseCall
  BY <1>19, ReleaseCallKeeps DEF QueueStep, Queue!Next
<1>20. CASE UNCHANGED vars
  <2>1. /\ buf' = buf /\ call' = call /\ written' = written
        /\ out' = out /\ result' = result
    BY <1>20 DEF vars
  <2>2. IInv'
    BY <2>1 DEF IInv, TypeOK, ChunkOwnership, ReadableAccounting,
                StreamIntact, CallResumesInStep, PendingSkip
  <2>3. UNCHANGED Queue!vars BY <2>1 DEF Queue!vars
  <2> QED BY <2>2, <2>3 DEF QueueStep
<1> QED
  BY <1>1, <1>2, <1>3, <1>4, <1>5, <1>6, <1>7, <1>8, <1>9, <1>10, <1>11,
     <1>12, <1>13, <1>14, <1>15, <1>16, <1>17, <1>18, <1>19, <1>20 DEF Next

(* The indices and the counter of ByteBufferImpl stay in range, the heap    *)
(* and the deque in step, readableBytes exact, every byte where the reader  *)
(* will look for it, and every looping call resumes where its code assumes. *)
THEOREM InductiveInvariant ==
  ASSUME Contract = ContractOps
  PROVE  Spec => []IInv
<1>1. Init => IInv BY InitIInv
<1>2. IInv /\ [Next]_vars => IInv' BY NextKeepsIInv
<1> QED BY <1>1, <1>2, PTL DEF Spec

(* The type invariant: localReaderIndex and localWriterIndex never leave    *)
(* 0 .. singleCapacity and readableBytes never underflows.                  *)
THEOREM TypeCorrect ==
  ASSUME Contract = ContractOps
  PROVE  Spec => []TypeOK
<1>1. IInv => TypeOK BY DEF IInv
<1> QED BY <1>1, InductiveInvariant, PTL

(* AppendBuffer, PopBuffer and Release neither leak a chunk, nor delete one *)
(* twice, nor leave a cursor outside the deque.                             *)
THEOREM NoDanglingChunk ==
  ASSUME Contract = ContractOps
  PROVE  Spec => []ChunkOwnership
<1>1. IInv => ChunkOwnership BY DEF IInv
<1> QED BY <1>1, InductiveInvariant, PTL

(* readableBytes equals the distance between the cursors.                   *)
THEOREM ReadableBytesExact ==
  ASSUME Contract = ContractOps
  PROVE  Spec => []ReadableAccounting
<1>1. IInv => ReadableAccounting BY DEF IInv
<1> QED BY <1>1, InductiveInvariant, PTL

(* No byte written is lost, duplicated or reordered in the chunks.          *)
THEOREM BytesStored ==
  ASSUME Contract = ContractOps
  PROVE  Spec => []StreamIntact
<1>1. IInv => StreamIntact BY DEF IInv
<1> QED BY <1>1, InductiveInvariant, PTL

(* A call that loops over chunks resumes at the start of a chunk, with      *)
(* bytes left to move and no more than are readable: where WriteBytes,      *)
(* ReadBytes and SkipReadBytes overwrite an index, it is the right one.     *)
THEOREM CallsResume ==
  ASSUME Contract = ContractOps
  PROVE  Spec => []CallResumesInStep
<1>1. IInv => CallResumesInStep BY DEF IInv
<1> QED BY <1>1, InductiveInvariant, PTL

(* The chunked buffer implements the first-in first-out stream ByteQueue:   *)
(* every call of ByteBufferImpl, and every step inside a looping call, is a *)
(* step of the queue or changes nothing the queue can see.                  *)
THEOREM Refinement ==
  ASSUME Contract = ContractOps
  PROVE  Spec => ImplementsByteQueue
<1>1. Init => Queue!Init BY InitIInv
<1>2. IInv /\ [Next]_vars => [Queue!Next]_(Queue!vars)
  BY NextKeepsIInv DEF QueueStep
<1> QED BY <1>1, <1>2, InductiveInvariant, PTL
        DEF Spec, ImplementsByteQueue, Queue!Spec
=============================================================================
