----------------------------- MODULE SocketWriter -----------------------------
(***************************************************************************)
(* The way out of a connection: Connection::Write sends a packet through   *)
(* the byte pipes into writerBuffer, Connection::Flush has                 *)
(* UnixReadWriteCloser::Write send writerBuffer to the socket, with the    *)
(* kernel's send buffer and the peer.  The pipeline may be edited between  *)
(* two calls.                                                              *)
(*                                                                         *)
(* connectionWriteBuffer and the writer buffers of the pipes only ever     *)
(* hold whole frames; they are sequences of packets.  writerBuffer is the  *)
(* ByteBufferImpl with its chunks, since what reaches the socket depends   *)
(* on them; a byte is its position in the stream handed to writerBuffer.   *)
(***************************************************************************)
EXTENDS ByteBufferImpl, SequencesExt

CONSTANTS
  Pipes,       \* FramedByteBytePipe objects, each its own ordinal
  Sizes,       \* bytes a packet may have
  Room,        \* bytes the kernel's send buffer takes
  MaxPackets,  \* bound: calls of Connection::Write
  MaxEdits     \* bound: edits of the pipeline

ASSUME SizesAssumption == Sizes \subseteq Nat \ {0}
ASSUME RoomAssumption == Room \in Nat \ {0}
ASSUME WriterBounds == MaxPackets \in Nat /\ MaxEdits \in Nat

VARIABLES
  pipeline,      \* Connection::pipeline
  packetBuffer,  \* connectionWriteBuffer
  pipeBuffer,    \* writerBuffer of every pipe
  buf,           \* writerBuffer of the connection
  left,          \* bytes WriteBytes has still to copy to it
  closed,        \* closed of the UnixReadWriteCloser
  pc,            \* the call in progress
  at,            \* the pipe whose Write is next, 0 after the last
  wire,          \* kernel: bytes taken by the socket
  room,          \* kernel: free bytes of the send buffer
  reset,         \* peer: the connection was reset
  calls,         \* calls of Write so far
  edits,         \* edits of the pipeline so far
  accepted,      \* ghost: packets the packet pipe has written
  handed,        \* ghost: packets moved to writerBuffer
  dropped,       \* ghost: packets in the buffer of a pipe when it was removed
  exact          \* ghost: bytes sent up to the first call that spoils buf

pipeVars == <<pipeline, packetBuffer, pipeBuffer, at, calls, edits, accepted,
              handed, dropped>>
socketVars == <<buf, left, closed, wire, room, reset, exact>>
vars == <<pipeVars, socketVars, pc>>

(* No call has spoiled buf so far. *)
Unspoiled == -1

Init ==
  /\ pipeline = <<>> /\ packetBuffer = <<>>
  /\ pipeBuffer = [p \in Pipes |-> <<>>]
  /\ buf = NewByteBuffer /\ left = 0
  /\ closed = FALSE /\ pc = "idle" /\ at = 0
  /\ wire = <<>> /\ room = Room /\ reset = FALSE
  /\ calls = 0 /\ edits = 0
  /\ accepted = <<>> /\ handed = <<>> /\ dropped = {}
  /\ exact = Unspoiled

(* Bytes of all the packets. *)
Bytes(packets) ==
  LET sum[n \in 0 .. Len(packets)] ==
        IF n = 0 THEN 0 ELSE sum[n - 1] + packets[n].size
  IN  sum[Len(packets)]

Stream == Bytes(handed)

(* A list without the members of a set. *)
Without(list, set) ==
  LET rest[n \in 0 .. Len(list)] ==
        IF n = 0 THEN <<>>
        ELSE IF list[n] \in set THEN rest[n - 1] ELSE Append(rest[n - 1], list[n])
  IN  rest[Len(list)]

-----------------------------------------------------------------------------
(* Connection::Write. *)

(* rbegin(): the pipe next to the packet pipe is the last one. *)
FirstPipe == Len(pipeline)

(* The two resets and bytePacketPipe->Write, which writes the packet, or   *)
(* decides against it, or fails.                                           *)
WritePacket(size) ==
  LET packet == [id |-> calls + 1, size |-> size] IN
  /\ pc = "idle" /\ calls < MaxPackets
  /\ calls' = calls + 1
  /\ packetBuffer' = <<packet>>
  /\ accepted' = Append(accepted, packet)
  /\ at' = FirstPipe /\ pc' = "write"
  /\ UNCHANGED <<pipeline, pipeBuffer, edits, handed, dropped, socketVars>>

WritePacketSkipped ==
  /\ pc = "idle" /\ calls < MaxPackets
  /\ calls' = calls + 1 /\ packetBuffer' = <<>>
  /\ UNCHANGED <<pipeline, pipeBuffer, at, edits, accepted, handed, dropped,
                 socketVars, pc>>

Close == closed' = TRUE /\ UNCHANGED <<buf, left, wire, room, reset, exact>>

WritePacketFails ==
  /\ pc = "idle" /\ calls < MaxPackets
  /\ calls' = calls + 1 /\ packetBuffer' = <<>>
  /\ Close
  /\ UNCHANGED <<pipeline, pipeBuffer, at, edits, accepted, handed, dropped, pc>>

(* The buffer the next pipe, or WriteDirect, reads from: the one the pipe   *)
(* before it has written to.                                                *)
Input == IF at = Len(pipeline) THEN packetBuffer ELSE pipeBuffer[pipeline[at + 1]]

InputBecomes(rest, output) ==
  IF at = Len(pipeline)
  THEN packetBuffer' = rest /\ pipeBuffer' = output
  ELSE /\ pipeBuffer' = [output EXCEPT ![pipeline[at + 1]] = rest]
       /\ UNCHANGED packetBuffer

(* Mutant: the frames of a pipe that returned 0 before are overwritten. *)
EncodeAfresh ==
  /\ pc = "write" /\ at > 0 /\ Input # <<>>
  /\ InputBecomes(Tail(Input), [pipeBuffer EXCEPT ![pipeline[at]] = <<Head(Input)>>])

(* FramedByteBytePipe::Write takes one frame, whatever its input holds, and *)
(* EncodeFrame appends it to the writer buffer of the pipe.                 *)
Encode ==
  /\ pc = "write" /\ at > 0 /\ Input # <<>>
  /\ InputBecomes(Tail(Input),
       [pipeBuffer EXCEPT ![pipeline[at]] = Append(@, Head(Input))])

PipeWrites ==
  /\ Encode
  /\ at' = at - 1
  /\ UNCHANGED <<pipeline, calls, edits, accepted, handed, dropped, socketVars, pc>>

(* EncodeFrame returns 0: the pipe keeps the frame for a later Write. *)
PipeHolds ==
  /\ Encode
  /\ pc' = "idle" /\ at' = 0
  /\ UNCHANGED <<pipeline, calls, edits, accepted, handed, dropped, socketVars>>

(* EncodeFrame fails, or there is no frame to read. *)
PipeFails ==
  /\ pc = "write" /\ at > 0
  /\ Close
  /\ pc' = "idle" /\ at' = 0
  /\ UNCHANGED <<pipeline, packetBuffer, pipeBuffer, calls, edits, accepted,
                 handed, dropped>>

(* Bound: new[] finds memory. *)
MemoryLeft == Addr \ buf.live # {}

(* All of the last buffer goes to writerBuffer->WriteBytes, by way of       *)
(* byteBufferWriteBuffer.                                                   *)
WriteDirect ==
  /\ pc = "write" /\ at = 0
  /\ InputBecomes(<<>>, pipeBuffer)
  /\ handed' = handed \o Input
  /\ left' = Bytes(Input)
  /\ MemoryLeft
  /\ buf' = TryRefreshWriterBuffer(buf)
  /\ pc' = "copy"
  /\ UNCHANGED <<pipeline, at, calls, edits, accepted, dropped, closed, wire,
                 room, reset, exact>>

(* WriteBytes fills the chunk and appends another, *)
CopyChunk ==
  LET copied == SingleCapacity - buf.localWriterIndex IN
  /\ pc = "copy" /\ left > copied /\ MemoryLeft
  /\ buf' = AppendBuffer(CopyIn(buf, copied, Stream - left))
  /\ left' = left - copied
  /\ UNCHANGED <<pipeVars, closed, wire, room, reset, exact, pc>>

(* Mutant: the end of the chunk is not looked at. *)
CopyRestWhole ==
  /\ pc = "copy"
  /\ buf' = CopyIn(buf, left, Stream - left)
  /\ left' = 0 /\ pc' = "idle"
  /\ UNCHANGED <<pipeVars, closed, wire, room, reset, exact>>

(* until the rest fits. *)
CopyRest ==
  /\ pc = "copy" /\ left <= SingleCapacity - buf.localWriterIndex
  /\ buf' = CopyIn(buf, left, Stream - left)
  /\ left' = 0 /\ pc' = "idle"
  /\ UNCHANGED <<pipeVars, closed, wire, room, reset, exact>>

-----------------------------------------------------------------------------
(* Edits of the pipeline. *)

Edit(newPipeline) ==
  /\ pc = "idle" /\ edits < MaxEdits
  /\ edits' = edits + 1
  /\ pipeline' = newPipeline
  /\ UNCHANGED <<packetBuffer, pipeBuffer, at, calls, accepted, handed, socketVars>>

Unused == Pipes \ Range(pipeline)

AppendByteBytePipe(p) ==
  /\ p \in Unused
  /\ Edit(Append(pipeline, p))
  /\ UNCHANGED <<pc, dropped>>

PrependByteBytePipe(p) ==
  /\ p \in Unused
  /\ Edit(<<p>> \o pipeline)
  /\ UNCHANGED <<pc, dropped>>

(* The search by ordinal never leaves the first pipe. *)
Found(ordinal) == pipeline # <<>> /\ Head(pipeline) = ordinal

AppendByteBytePipeAfter(p, ordinal) ==
  /\ p \in Unused /\ Found(ordinal)
  /\ Edit(<<ordinal, p>> \o Tail(pipeline))
  /\ UNCHANGED <<pc, dropped>>

PrependByteBytePipeBefore(p, ordinal) ==
  /\ p \in Unused /\ Found(ordinal)
  /\ Edit(<<p>> \o pipeline)
  /\ UNCHANGED <<pc, dropped>>

(* Without a pipe the call returns, otherwise it never does. *)
SearchFails(ordinal) ==
  /\ ~ Found(ordinal)
  /\ Edit(pipeline)
  /\ pc' = IF pipeline = <<>> THEN "idle" ELSE "searching"
  /\ UNCHANGED dropped

(* RemoveByteBytePipe, and RemovePacketHandler, which has the same body. *)
RemoveByteBytePipe(ordinal) ==
  /\ Edit(Without(pipeline, {ordinal}))
  /\ dropped' = IF ordinal \in Range(pipeline)
                THEN dropped \cup Range(pipeBuffer[ordinal]) ELSE dropped
  /\ UNCHANGED pc

-----------------------------------------------------------------------------
(* UnixReadWriteCloser::Write(writerBuffer), one step per write(). *)

Flush ==
  /\ pc = "idle" /\ ~ closed
  /\ pc' = "chunks"
  /\ UNCHANGED <<pipeVars, socketVars>>

RestOfChunk == SingleCapacity - buf.localReaderIndex

(* The first loop sends whole chunks, the second one what is left. *)
Sending ==
  \/ pc = "chunks" /\ buf.readableBytes >= RestOfChunk
  \/ pc = "rest" /\ buf.readableBytes # 0

Requested == IF pc = "chunks" THEN RestOfChunk ELSE buf.readableBytes

(* Mutant: SkipReadBytes does not move to the next chunk. *)
SkipSentInPlace(b, n) ==
  [b EXCEPT !.readableBytes = @ - n, !.localReaderIndex = n]

(* Mutant: what was asked for is skipped, not what was written. *)
SkipRequested(b, n) ==
  SkipInChunk([b EXCEPT !.readableBytes = @ - Requested], Requested)

(* SkipReadBytes(bytesWritten), whose loop is not entered. *)
SkipSent(b, n) == SkipInChunk([b EXCEPT !.readableBytes = @ - n], n)

(* A write() of n bytes spoils buf if it begins in the middle of a chunk,   *)
(* for SkipReadBytes sets localReaderIndex to n, or if it empties a full    *)
(* last chunk, which SkipReadBytes pops.                                    *)
Spoils(n) ==
  \/ Len(wire) % SingleCapacity # 0
  \/ Len(wire) + n = Stream /\ Stream % SingleCapacity = 0

SocketTakes ==
  LET n == Min({Requested, room}) IN
  /\ Sending /\ ~ reset /\ room > 0
  /\ wire' = wire \o DirectBytes(buf, n)
  /\ room' = room - n
  /\ buf' = SkipSent(buf, n)
  /\ exact' = IF exact = Unspoiled /\ Spoils(n) THEN Len(wire) + n ELSE exact
  /\ UNCHANGED <<pipeVars, left, closed, reset, pc>>

NextLoop ==
  /\ pc = "chunks" /\ ~ Sending
  /\ pc' = "rest"
  /\ UNCHANGED <<pipeVars, socketVars>>

FlushReturns ==
  /\ pc = "rest" /\ ~ Sending
  /\ pc' = "idle"
  /\ UNCHANGED <<pipeVars, socketVars>>


(* EAGAIN: ErrnoErrorable, which Flush ignores; the rest stays in buf. *)
SocketFull ==
  /\ Sending /\ ~ reset /\ room = 0
  /\ pc' = "idle"
  /\ UNCHANGED <<pipeVars, socketVars>>

(* EFAULT: after the last chunk was popped there may be nothing mapped     *)
(* behind the read pointer.                                                *)
SocketFault ==
  /\ Sending /\ ~ reset /\ buf.currentReadBuffer = NoAddr
  /\ pc' = "idle"
  /\ UNCHANGED <<pipeVars, socketVars>>

(* ECONNRESET. *)
SocketReset ==
  /\ Sending /\ reset
  /\ Close
  /\ pc' = "idle"
  /\ UNCHANGED pipeVars

-----------------------------------------------------------------------------
(* The peer and the rest of the connection. *)

(* The peer acknowledges what was sent. *)
PeerReads ==
  /\ room < Room
  /\ room' = Room
  /\ UNCHANGED <<pipeVars, buf, left, closed, wire, reset, exact, pc>>

PeerResets ==
  /\ ~ reset /\ ~ closed
  /\ reset' = TRUE
  /\ UNCHANGED <<pipeVars, buf, left, closed, wire, room, exact, pc>>

(* A handler or a task closes the connection between two calls. *)
CloseCall ==
  /\ pc = "idle" /\ ~ closed
  /\ Close
  /\ UNCHANGED <<pipeVars, pc>>

Thread ==
  \/ PipeWrites \/ PipeHolds \/ PipeFails
  \/ WriteDirect \/ CopyChunk \/ CopyRest
  \/ SocketTakes \/ NextLoop \/ FlushReturns
  \/ SocketFull \/ SocketFault \/ SocketReset

Application ==
  \/ \E size \in Sizes : WritePacket(size)
  \/ WritePacketSkipped \/ WritePacketFails
  \/ \E p \in Pipes : AppendByteBytePipe(p) \/ PrependByteBytePipe(p)
  \/ \E p, ordinal \in Pipes :
       AppendByteBytePipeAfter(p, ordinal) \/ PrependByteBytePipeBefore(p, ordinal)
  \/ \E ordinal \in Pipes : SearchFails(ordinal) \/ RemoveByteBytePipe(ordinal)
  \/ Flush
  \/ CloseCall

Next == Application \/ Thread \/ PeerReads \/ PeerResets

(* The thread that has called Write or Flush goes on with the call. *)
Spec == Init /\ [][Next]_vars /\ WF_vars(Thread)

-----------------------------------------------------------------------------
(* Properties. *)

TypeOK ==
  /\ Range(pipeline) \subseteq Pipes /\ IsInjective(pipeline)
  /\ buf \in ByteBuffers
  /\ closed \in BOOLEAN /\ reset \in BOOLEAN
  /\ pc \in {"idle", "write", "copy", "chunks", "rest", "searching"}
  /\ at \in 0 .. Len(pipeline)
  /\ left \in Nat
  /\ room \in 0 .. Room

(* Frames inside the pipes, the outermost pipe first. *)
InPipes == FlattenSeq([i \in 1 .. Len(pipeline) |-> pipeBuffer[pipeline[i]]])

(* Packets leave the pipes in the order Connection::Write got them, and     *)
(* none is lost or doubled, although a pipe may keep frames back, a Write   *)
(* moves one frame per pipe and pipes come and go: what was handed to       *)
(* writerBuffer and what the pipes still hold is what was written.  Frames  *)
(* inside a pipe when it was removed are left out on both sides: they are   *)
(* lost, or come late if the pipe is added again (Connection.cpp:62).       *)
PacketsConserved ==
  pc = "idle" /\ ~ closed =>
    Without(handed \o InPipes, dropped) = Without(accepted, dropped)

(* What the socket has taken is the beginning of the stream, byte for byte, *)
(* over short writes, EAGAIN and any number of flushes, up to and including *)
(* the first write() that spoils the cursor of writerBuffer.                *)
SentInOrder ==
  \A i \in 1 .. Len(wire) : exact = Unspoiled \/ i <= exact => wire[i] = i - 1

(* The socket never gets more or fewer bytes than were handed over, spoiled *)
(* or not: what is not sent is still counted as readable.                   *)
EveryByteCounted == Len(wire) + buf.readableBytes + left = Stream


(* The socket gets the stream, whatever the flushes. *)
StreamReachesSocket == \A i \in 1 .. Len(wire) : wire[i] = i - 1
=============================================================================
