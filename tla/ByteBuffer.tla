------------------------------ MODULE ByteBuffer ------------------------------
(***************************************************************************)
(* One ByteBufferImpl and the client that calls it.  A member function     *)
(* without a loop is one action; WriteBytes, ReadBytes and SkipReadBytes   *)
(* take one step per chunk they cross, with the rest of the call recorded  *)
(* in "call".  The buffer belongs to one thread: no other call starts      *)
(* before the current one has returned.                                    *)
(*                                                                         *)
(* Five member functions keep the stream intact only when they are called  *)
(* in certain states (the ...Exact operators below, read off the code).    *)
(* Contract names the functions whose clients respect that condition.      *)
(***************************************************************************)
EXTENDS ByteBufferImpl

CONSTANTS
  Contract,    \* the functions only called where they are exact
  MaxWritten,  \* bound: bytes the client writes in a behaviour
  MaxSize      \* bound: size of one call

ContractOps == {"ReadBytes", "SkipReadBytes", "SkipWriteBytes",
                "ResetWriterIndex", "WriteBytesAndDelete"}

ASSUME ContractAssumption == Contract \subseteq ContractOps
ASSUME BoundAssumption == MaxWritten \in Nat /\ MaxSize \in Nat

VARIABLES
  buf,      \* the ByteBufferImpl object
  call,     \* the looping call in progress and the bytes it has left
  written,  \* bytes the client has written so far
  out,      \* bytes the last step copied to the client
  result    \* Errorable returned by the last finished call

vars == <<buf, call, written, out, result>>

Results == {"Success", "IncompleteByteArrayErrorable", "InvalidReadSkipRequest"}

NoCall == [op |-> "idle", size |-> 0]
InCall(op, size) == [op |-> op, size |-> size]

Ops == {"idle", "WriteBytes", "ReadBytes", "SkipReadBytes", "Released"}

Init ==
  /\ buf = NewByteBuffer
  /\ call = NoCall
  /\ written = 0
  /\ out = <<>>
  /\ result = "Success"

-----------------------------------------------------------------------------
(* Where the functions under contract are exact. *)

(* size 0 at the end of the last chunk would pop that chunk. *)
ReadBytesExact(b, size) ==
  size > 0 \/ b.localReaderIndex < SingleCapacity \/ Len(b.buffers) > 1

(* localReaderIndex is overwritten with the rest of count, which is right  *)
(* only when counting started at the beginning of a chunk; and a skip that *)
(* drains a full last chunk pops it.                                       *)
SkipReadBytesExact(b, count) ==
  /\ b.localReaderIndex = 0 \/ count > SingleCapacity - b.localReaderIndex
  /\ count < b.readableBytes \/ b.localWriterIndex < SingleCapacity

SkipWriteBytesExact(b) == b.localWriterIndex = 0

ResetWriterIndexExact(b) == b.localReaderIndex = 0 /\ Len(b.buffers) = 1

WriteBytesAndDeleteExact(b, size) ==
  ~ (b.localWriterIndex = 0 /\ size = SingleCapacity)

Respects(op, exact) == op \in Contract => exact

-----------------------------------------------------------------------------
(* Guards and outcomes shared by the calls. *)

Idle == call = NoCall

(* Bounds of the model: the stream is finite, new[] finds memory (a step   *)
(* allocates at most two chunks).                                          *)
CanWrite(n) ==
  /\ written + n <= MaxWritten
  /\ \E a1, a2 \in Addr \ buf.live : a1 # a2

Return(res) == call' = NoCall /\ result' = res

Wrote(n) == written' = written + n /\ out' = <<>>

Took(b, n) == out' = DirectBytes(b, n) /\ UNCHANGED written

NothingMoved == out' = <<>> /\ UNCHANGED written

-----------------------------------------------------------------------------
(* Writing. *)

WriteByteCall ==
  /\ Idle /\ CanWrite(1)
  /\ buf' = WriteByte(buf, written)
  /\ Wrote(1) /\ Return("Success")

(* WriteBytes whose bytes all fit the current chunk. *)
WriteBytesWhole(size) ==
  LET b == TryRefreshWriterBuffer(buf) IN
  /\ b.localWriterIndex + size <= SingleCapacity
  /\ buf' = CopyIn(b, size, written)
  /\ Wrote(size) /\ Return("Success")

(* WriteBytes that fills the current chunk and appends the next one. *)
WriteBytesSplit(size) ==
  LET b == TryRefreshWriterBuffer(buf)
      copied == SingleCapacity - b.localWriterIndex
  IN
  /\ b.localWriterIndex + size > SingleCapacity
  /\ buf' = AppendBuffer(CopyIn(b, copied, written))
  /\ call' = InCall("WriteBytes", size - copied)
  /\ Wrote(copied) /\ UNCHANGED result

WriteBytes(size) == WriteBytesWhole(size) \/ WriteBytesSplit(size)

WriteBytesCall(size) == Idle /\ CanWrite(size) /\ WriteBytes(size)

WriteBytesLoop ==
  /\ call.op = "WriteBytes" /\ call.size > SingleCapacity
  /\ CanWrite(SingleCapacity)
  /\ buf' = AppendBuffer(CopyIn(buf, SingleCapacity, written))
  /\ call' = InCall("WriteBytes", call.size - SingleCapacity)
  /\ Wrote(SingleCapacity) /\ UNCHANGED result

WriteBytesRest ==
  /\ call.op = "WriteBytes" /\ call.size <= SingleCapacity
  /\ buf' = CopyIn(buf, call.size, written)
  /\ Wrote(call.size) /\ Return("Success")

WriteBytesAndDelete(size) ==
  /\ Idle /\ CanWrite(size)
  /\ Respects("WriteBytesAndDelete", WriteBytesAndDeleteExact(buf, size))
  /\ IF buf.localWriterIndex = 0 /\ size = SingleCapacity
     THEN /\ buf' = AdoptChunk(buf, written)
          /\ Wrote(size) /\ Return("Success")
     ELSE WriteBytes(size)

(* CanWriteDirect, a copy to GetDirectWriteAddress, SkipWriteBytes. *)
DirectWrite(size) ==
  /\ Idle /\ CanWrite(size)
  /\ CanWriteDirect(buf, size)
  /\ Respects("SkipWriteBytes", SkipWriteBytesExact(buf))
  /\ buf' = SkipWriteBytes(FillChunk(buf, size, written), size)
  /\ Wrote(size) /\ Return("Success")

-----------------------------------------------------------------------------
(* Reading. *)

(* Callers of ReadByteUnsafe check GetReadableBytes() first. *)
ReadByteCall ==
  /\ Idle /\ buf.readableBytes >= 1
  /\ buf' = ReadByteUnsafe(buf)
  /\ Took(TryRefreshReaderBuffer(buf), 1) /\ Return("Success")

ReadBytesIncomplete(size) ==
  /\ Idle /\ buf.readableBytes < size
  /\ UNCHANGED buf
  /\ NothingMoved /\ Return("IncompleteByteArrayErrorable")

ReadBytesWhole(size) ==
  LET b == TryRefreshReaderBuffer(buf) IN
  /\ Idle /\ size <= buf.readableBytes
  /\ Respects("ReadBytes", ReadBytesExact(buf, size))
  /\ b.localReaderIndex + size <= SingleCapacity
  /\ buf' = Consume(b, size)
  /\ Took(b, size) /\ Return("Success")

(* Mutant: >= for >. *)
ReadBytesSplitEarly(size) ==
  LET b == TryRefreshReaderBuffer(buf)
      copied == SingleCapacity - b.localReaderIndex
  IN
  /\ Idle /\ size <= buf.readableBytes
  /\ b.localReaderIndex + size >= SingleCapacity
  /\ buf' = PopBuffer(Consume(b, copied))
  /\ call' = InCall("ReadBytes", size - copied)
  /\ Took(b, copied) /\ UNCHANGED result

ReadBytesSplit(size) ==
  LET b == TryRefreshReaderBuffer(buf)
      copied == SingleCapacity - b.localReaderIndex
  IN
  /\ Idle /\ size <= buf.readableBytes
  /\ Respects("ReadBytes", ReadBytesExact(buf, size))
  /\ b.localReaderIndex + size > SingleCapacity
  /\ buf' = PopBuffer(Consume(b, copied))
  /\ call' = InCall("ReadBytes", size - copied)
  /\ Took(b, copied) /\ UNCHANGED result

ReadBytesLoop ==
  /\ call.op = "ReadBytes" /\ call.size > SingleCapacity
  /\ buf' = PopBuffer(Consume(buf, SingleCapacity))
  /\ call' = InCall("ReadBytes", call.size - SingleCapacity)
  /\ Took(buf, SingleCapacity) /\ UNCHANGED result

ReadBytesRest ==
  /\ call.op = "ReadBytes" /\ call.size <= SingleCapacity
  /\ buf' = Consume(buf, call.size)
  /\ Took(buf, call.size) /\ Return("Success")

SkipReadBytesInvalid(count) ==
  /\ Idle /\ count > buf.readableBytes
  /\ UNCHANGED buf
  /\ NothingMoved /\ Return("InvalidReadSkipRequest")

SkipReadBytes(count) ==
  /\ Idle /\ count <= buf.readableBytes
  /\ Respects("SkipReadBytes", SkipReadBytesExact(buf, count))
  /\ buf' = [buf EXCEPT !.readableBytes = @ - count]
  /\ call' = InCall("SkipReadBytes", count)
  /\ NothingMoved /\ UNCHANGED result

SkipReadBytesLoop ==
  LET skipped == SingleCapacity - buf.localReaderIndex IN
  /\ call.op = "SkipReadBytes" /\ call.size > skipped
  /\ buf' = PopBuffer(buf)
  /\ call' = InCall("SkipReadBytes", call.size - skipped)
  /\ NothingMoved /\ UNCHANGED result

SkipReadBytesRest ==
  /\ call.op = "SkipReadBytes"
  /\ call.size <= SingleCapacity - buf.localReaderIndex
  /\ buf' = SkipInChunk(buf, call.size)
  /\ NothingMoved /\ Return("Success")

-----------------------------------------------------------------------------
(* Resetting the cursors, releasing the chunks. *)

ResetReaderIndexCall ==
  /\ Idle
  /\ buf' = ResetReaderIndex(buf)
  /\ NothingMoved /\ Return("Success")

ResetWriterIndexCall ==
  /\ Idle
  /\ Respects("ResetWriterIndex", ResetWriterIndexExact(buf))
  /\ buf' = ResetWriterIndex(buf)
  /\ NothingMoved /\ Return("Success")

ReleaseCall ==
  /\ Idle
  /\ buf' = Release(buf)
  /\ call' = InCall("Released", 0)
  /\ NothingMoved /\ UNCHANGED result

Next ==
  \/ WriteByteCall
  \/ \E n \in 0 .. MaxSize : WriteBytesCall(n)
  \/ WriteBytesLoop
  \/ WriteBytesRest
  \/ \E n \in 0 .. MaxSize : WriteBytesAndDelete(n)
  \/ \E n \in 0 .. MaxSize : DirectWrite(n)
  \/ ReadByteCall
  \/ \E n \in 0 .. MaxSize : ReadBytesIncomplete(n)
  \/ \E n \in 0 .. MaxSize : ReadBytesWhole(n)
  \/ \E n \in 0 .. MaxSize : ReadBytesSplit(n)
  \/ ReadBytesLoop
  \/ ReadBytesRest
  \/ \E n \in 0 .. MaxSize : SkipReadBytesInvalid(n)
  \/ \E n \in 0 .. MaxSize : SkipReadBytes(n)
  \/ SkipReadBytesLoop
  \/ SkipReadBytesRest
  \/ ResetReaderIndexCall
  \/ ResetWriterIndexCall
  \/ ReleaseCall

Spec == Init /\ [][Next]_vars

-----------------------------------------------------------------------------
(* Properties. *)

(* Type invariant: the indices never leave 0 .. singleCapacity and          *)
(* readableBytes never goes below zero, whatever calls follow each other.   *)
TypeOK ==
  /\ buf \in ByteBuffers
  /\ call \in [op : Ops, size : Nat]
  /\ written \in Nat
  /\ out \in Seq(Int)
  /\ result \in Results

(* AppendBuffer and PopBuffer keep the heap and the deque in step, between  *)
(* and inside calls: no chunk leaks, none is deleted twice, the read        *)
(* pointer is the front chunk and the write pointer the back chunk (no      *)
(* dangling pointer); after Release nothing is left allocated.              *)
ChunkOwnership ==
  /\ DequeOwnsHeap(buf)
  /\ call.op # "Released" => CursorsInDeque(buf)

(* What SkipReadBytes has taken off readableBytes and not yet walked over. *)
PendingSkip == IF call.op = "SkipReadBytes" THEN call.size ELSE 0

(* readableBytes, kept by its own increments and decrements, always equals  *)
(* the distance between the two cursors across the chunks of the deque.     *)
ReadableAccounting ==
  call.op # "Released" => buf.readableBytes + PendingSkip = Distance(buf)

(* Every byte before the write cursor is stored where the reader will look  *)
(* for it: the chunks of the deque hold consecutive bytes of the stream,    *)
(* ending with the byte written last, in every state of every call.         *)
StreamIntact == call.op # "Released" => Stored(buf, written)

(* A call that loops over chunks resumes where its code assumes it does:    *)
(* WriteBytes and ReadBytes at the start of a chunk with bytes left to      *)
(* move, ReadBytes never past what is readable, and the last step of        *)
(* SkipReadBytes, which overwrites localReaderIndex, at the start of a      *)
(* chunk that is not drained while it is the only one.                      *)
CallResumesInStep ==
  /\ call.op = "WriteBytes" => buf.localWriterIndex = 0 /\ call.size >= 1
  /\ call.op = "ReadBytes" =>
       /\ buf.localReaderIndex = 0
       /\ call.size \in 1 .. buf.readableBytes
  /\ call.op = "SkipReadBytes" =>
       /\ \/ buf.localReaderIndex = 0
          \/ call.size > SingleCapacity - buf.localReaderIndex
       /\ buf.readableBytes > 0 \/ buf.localWriterIndex < SingleCapacity

(* The chunked buffer implements a first-in first-out byte stream: whatever *)
(* is read or skipped, byte by byte or across chunks, is the next part of   *)
(* what was written, and readableBytes counts exactly what is left.         *)
Queue == INSTANCE ByteQueue WITH consumed <- written - buf.readableBytes

ImplementsByteQueue == Queue!Spec
=============================================================================
