---------------------------- MODULE ByteBufferImpl ----------------------------
(***************************************************************************)
(* The chunked byte buffer of ShipNet (class ByteBufferImpl,               *)
(* ShipNet/protocol/ByteBuffer.cpp): a deque of heap chunks of             *)
(* SingleCapacity bytes, a read cursor in the first chunk, a write cursor  *)
(* in the last one, and a separate count of the readable bytes.            *)
(*                                                                         *)
(* A buffer is a record whose fields have the names of the class members;  *)
(* each operator is one member function, or one straight-line part of a    *)
(* member function that loops, and returns the buffer it leaves behind.    *)
(* The heap is part of the record: "live" are the chunks allocated and not *)
(* yet deleted, "mem" what every address holds.  Deleting a chunk leaves   *)
(* its bytes where they are and the allocator may hand the address out     *)
(* again, so a read through a stale pointer returns old or foreign bytes.  *)
(* The code never looks at the bytes it moves, so a byte is represented by *)
(* its position in the stream the client writes: byte number i is i.       *)
(***************************************************************************)
EXTENDS Integers, Sequences

CONSTANTS
  SingleCapacity,  \* singleCapacity: bytes per chunk
  Addr,            \* addresses the allocator can return for a chunk
  NoAddr           \* what front() of an empty deque yields

ASSUME CapacityAssumption == SingleCapacity \in Nat \ {0}
ASSUME AddrAssumption == NoAddr \notin Addr /\ Addr # {}

Offset == 0 .. SingleCapacity - 1

(* A byte that was never written by the client. *)
Uninitialised == -1

ByteBuffers ==
  [buffers            : Seq(Addr),
   live               : SUBSET Addr,
   mem                : [Addr -> [Offset -> Int]],
   currentReadBuffer  : Addr \cup {NoAddr},
   currentWriteBuffer : Addr,
   localReaderIndex   : 0 .. SingleCapacity,
   localWriterIndex   : 0 .. SingleCapacity,
   readableBytes      : Nat]

FirstChunk == CHOOSE a \in Addr : TRUE

(* ByteBufferImpl(size_t cap) *)
NewByteBuffer ==
  [buffers            |-> <<FirstChunk>>,
   live               |-> {FirstChunk},
   mem                |-> [a \in Addr |-> [p \in Offset |-> Uninitialised]],
   currentReadBuffer  |-> FirstChunk,
   currentWriteBuffer |-> FirstChunk,
   localReaderIndex   |-> 0,
   localWriterIndex   |-> 0,
   readableBytes      |-> 0]

Chunks(b) == {b.buffers[i] : i \in 1 .. Len(b.buffers)}

-----------------------------------------------------------------------------
(* Moving a cursor to another chunk. *)

(* What operator new[] returns: some address not in use. *)
NewChunk(b) == CHOOSE a \in Addr \ b.live : TRUE

AppendBuffer(b) ==
  [b EXCEPT !.localWriterIndex   = 0,
            !.currentWriteBuffer = NewChunk(b),
            !.live               = @ \cup {NewChunk(b)},
            !.buffers            = Append(@, NewChunk(b))]

(* Mutant: the popped chunk is not deleted. *)
PopBufferLeaks(b) ==
  [b EXCEPT !.localReaderIndex  = 0,
            !.buffers           = Tail(@),
            !.currentReadBuffer = b.buffers[2]]

(* Mutant: the read pointer is not moved to the new front chunk. *)
PopBufferStale(b) ==
  [b EXCEPT !.localReaderIndex = 0,
            !.live             = @ \ {b.buffers[1]},
            !.buffers          = Tail(@)]

(* Popping the last chunk leaves the deque empty, and front() of an empty  *)
(* deque is not a chunk of this buffer.                                    *)
PopBuffer(b) ==
  IF b.buffers = <<>>
  THEN [b EXCEPT !.localReaderIndex = 0, !.currentReadBuffer = NoAddr]
  ELSE [b EXCEPT !.localReaderIndex  = 0,
                 !.live              = @ \ {b.buffers[1]},
                 !.buffers           = Tail(@),
                 !.currentReadBuffer = IF Len(b.buffers) > 1 THEN b.buffers[2]
                                                             ELSE NoAddr]

(* Mutant: > for >=. *)
RefreshWriterLate(b) ==
  IF b.localWriterIndex > SingleCapacity THEN AppendBuffer(b) ELSE b

TryRefreshWriterBuffer(b) ==
  IF b.localWriterIndex >= SingleCapacity THEN AppendBuffer(b) ELSE b

TryRefreshReaderBuffer(b) ==
  IF b.localReaderIndex >= SingleCapacity THEN PopBuffer(b) ELSE b

-----------------------------------------------------------------------------
(* Copies inside one chunk. *)

(* Mutant: localWriterIndex is not added to the address. *)
FillChunkAtStart(b, n, first) ==
  [b EXCEPT !.mem = [@ EXCEPT ![b.currentWriteBuffer] =
     [p \in Offset |-> IF p < n THEN first + p
                               ELSE b.mem[b.currentWriteBuffer][p]]]]

(* The n bytes first, first+1, ... copied to GetDirectWriteAddress(). *)
FillChunk(b, n, first) ==
  [b EXCEPT !.mem = [@ EXCEPT ![b.currentWriteBuffer] =
     [p \in Offset |->
        IF b.localWriterIndex <= p /\ p < b.localWriterIndex + n
        THEN first + (p - b.localWriterIndex)
        ELSE b.mem[b.currentWriteBuffer][p]]]]

CopyIn(b, n, first) ==
  [FillChunk(b, n, first) EXCEPT !.localWriterIndex = @ + n,
                                 !.readableBytes    = @ + n]

(* The n bytes at GetDirectReadAddress(). *)
DirectBytes(b, n) ==
  [k \in 1 .. n |->
     IF b.currentReadBuffer \in Addr
     THEN b.mem[b.currentReadBuffer][b.localReaderIndex + k - 1]
     ELSE Uninitialised]

Consume(b, n) ==
  [b EXCEPT !.localReaderIndex = @ + n, !.readableBytes = @ - n]

CanWriteDirect(b, n) == b.localWriterIndex + n < SingleCapacity

-----------------------------------------------------------------------------
(* Member functions without a loop. *)

(* Mutant: ++readableBytes is missing. *)
WriteByteUncounted(b, byte) ==
  [CopyIn(TryRefreshWriterBuffer(b), 1, byte) EXCEPT !.readableBytes = @ - 1]

WriteByte(b, byte) == CopyIn(TryRefreshWriterBuffer(b), 1, byte)

ReadByteUnsafe(b) == Consume(TryRefreshReaderBuffer(b), 1)

ResetReaderIndex(b) ==
  [b EXCEPT !.localReaderIndex = 0,
            !.readableBytes = (Len(b.buffers) - 1) * SingleCapacity
                                + b.localWriterIndex]

ResetWriterIndex(b) ==
  [b EXCEPT !.localWriterIndex = 0, !.readableBytes = 0]

(* SkipWriteBytes after CanWriteDirect(count): its loop is not entered. *)
SkipWriteBytes(b, count) ==
  TryRefreshWriterBuffer([b EXCEPT !.localWriterIndex = count,
                                   !.readableBytes    = @ + count])

(* What SkipReadBytes does once count no longer exceeds the current chunk. *)
SkipInChunk(b, count) ==
  TryRefreshReaderBuffer([b EXCEPT !.localReaderIndex = count])

(* WriteBytesAndDelete of a whole chunk: the array replaces the last chunk *)
(* of the deque; the replaced chunk is not deleted, and neither the write  *)
(* pointer nor the indices are updated.                                    *)
AdoptChunk(b, first) ==
  [b EXCEPT !.buffers = Append(SubSeq(@, 1, Len(@) - 1), NewChunk(b)),
            !.live    = @ \cup {NewChunk(b)},
            !.mem     = [@ EXCEPT ![NewChunk(b)] = [p \in Offset |-> first + p]]]

(* Release(), also the destructor. *)
Release(b) ==
  [b EXCEPT !.live = @ \ Chunks(b), !.buffers = <<>>]

-----------------------------------------------------------------------------
(* What a buffer in good order looks like. *)

(* The chunks of the deque are distinct and are exactly the chunks         *)
(* allocated and not deleted.                                              *)
DequeOwnsHeap(b) ==
  /\ b.live = Chunks(b)
  /\ \A i, j \in 1 .. Len(b.buffers) : b.buffers[i] = b.buffers[j] => i = j

CursorsInDeque(b) ==
  /\ Len(b.buffers) >= 1
  /\ b.currentReadBuffer = b.buffers[1]
  /\ b.currentWriteBuffer = b.buffers[Len(b.buffers)]

(* Bytes in the chunks before the i-th one of the deque. *)
Before(i) == (i - 1) * SingleCapacity

(* Bytes between the two cursors. *)
Distance(b) == Before(Len(b.buffers)) + b.localWriterIndex - b.localReaderIndex

(* Stream position of the first byte of the front chunk, w bytes written. *)
Origin(b, w) == w - Before(Len(b.buffers)) - b.localWriterIndex

Stored(b, w) ==
  /\ Origin(b, w) >= 0
  /\ \A i \in 1 .. Len(b.buffers), p \in Offset :
       i < Len(b.buffers) \/ p < b.localWriterIndex
         => b.mem[b.buffers[i]][p] = Origin(b, w) + Before(i) + p
===============================================================================
