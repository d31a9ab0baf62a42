----------------------------- MODULE FramedPipes -----------------------------
(***************************************************************************)
(* Connection::HandleNewBytes (ShipNet/network/Connection.cpp) with a      *)
(* pipeline of FramedByteBytePipes in front of a FramedBytePacketPipe: how *)
(* a stream that TCP cuts wherever it likes becomes packets.               *)
(*                                                                         *)
(* A peer sends packets; each is framed once for the packet pipe and once  *)
(* more for every pipe of the pipeline.  HandleNewBytes gets the bytes of  *)
(* one read and calls Read of every pipe once, in order; a call of Read is *)
(* one step.  The ByteBuffers between the pipes are byte queues, which is  *)
(* what ByteBuffer is shown to implement.                                  *)
(***************************************************************************)
EXTENDS VarInt

CONSTANTS
  Packets,      \* the packets a peer may send, as sequences of bytes
  MaxPackets,   \* bound: packets sent in a behaviour
  MaxPipes,     \* bound: byte pipes in the pipeline
  MaxReadSize   \* maxReadSize of every pipe

ASSUME PacketsAssumption == Packets \subseteq Seq(Byte)
ASSUME FramedPipesAssumption ==
  MaxPackets \in Nat /\ MaxPipes \in Nat /\ MaxReadSize \in Nat

(* maxReadSize is a uint32_t: ReadVarInt can return it, and 5 groups of 7   *)
(* bits are enough for it.                                                  *)
ASSUME PrefixAssumption ==
  MaxReadSize < Modulus /\ Len(WriteVarInt[MaxReadSize]) <= MaxGroups

VARIABLES
  pipes,                \* byte pipes of this connection's pipeline
  network,              \* bytes sent and not yet read from the socket
  sent,                 \* packets sent by the peer
  frames,               \* where their outermost frames are in the stream
  conforming,           \* no frame is longer than MaxReadSize
  at,                   \* the pipe to read next, 0 outside HandleNewBytes
  buffers,              \* buffers[i]: what pipe i reads from
  nextReadFrameLength,  \* of pipe i; the last one is the packet pipe
  handled,              \* packets given to mainPacketHandler
  status,               \* "open", or why the connection was closed
  cuts                  \* how the network has cut the stream so far

peerVars == <<network, sent, frames, conforming>>
pipeVars == <<at, buffers, nextReadFrameLength>>
vars == <<pipes, peerVars, pipeVars, handled, status, cuts>>

PacketPipe == pipes + 1

Take(s, n) == SubSeq(s, 1, n)
Drop(s, n) == SubSeq(s, n + 1, Len(s))

Init ==
  /\ pipes \in 0 .. MaxPipes
  /\ network = <<>>
  /\ sent = <<>>
  /\ frames = <<>>
  /\ conforming = TRUE
  /\ at = 0
  /\ buffers = [i \in 1 .. MaxPipes + 1 |-> <<>>]
  /\ nextReadFrameLength = [i \in 1 .. MaxPipes + 1 |-> 0]
  /\ handled = <<>>
  /\ status = "open"
  /\ cuts = {}

-----------------------------------------------------------------------------
(* The peer. *)

(* The bytes that pipe i will see for packet p: p in PacketPipe + 1 - i    *)
(* frames, one inside the other.                                           *)
Framed(p, i) ==
  LET frame[k \in 1 .. PacketPipe + 1] ==
        IF k = PacketPipe + 1 THEN p
                              ELSE WriteVarInt[Len(frame[k + 1])] \o frame[k + 1]
  IN frame[i]

(* Bytes sent so far. *)
Total == IF frames = <<>> THEN 0 ELSE frames[Len(frames)].end

Put(prefix, body) ==
  /\ network' = network \o prefix \o body
  /\ frames' = Append(frames, [start |-> Total,
                              body  |-> Total + Len(prefix),
                              end   |-> Total + Len(prefix) + Len(body)])

PeerSend(p) ==
  LET body == Framed(p, 2) IN
  /\ conforming /\ Len(sent) < MaxPackets /\ Len(body) <= MaxReadSize
  /\ sent' = Append(sent, p)
  /\ Put(WriteVarInt[Len(body)], body)
  /\ UNCHANGED <<pipes, conforming, pipeVars, handled, status, cuts>>

(* The peer announces a frame that is too long, and sends no more. *)
PeerAnnounce ==
  /\ conforming
  /\ conforming' = FALSE
  /\ Put(WriteVarInt[MaxReadSize + 1], <<>>)
  /\ UNCHANGED <<pipes, sent, pipeVars, handled, status, cuts>>

-----------------------------------------------------------------------------
(* The network. *)

(* What a read of the bytes of the stream from one position up to another  *)
(* does to the frames: it may end inside a length prefix, or short of the  *)
(* end of a frame by no more than the size of its prefix, or go on after   *)
(* the end of a frame.                                                     *)
Cuts(from, to) ==
  {kind \in {"split", "tail", "coalesce"} :
     \E k \in 1 .. Len(frames) :
       LET f == frames[k] IN
       CASE kind = "split"    -> f.start < to /\ to < f.body
         [] kind = "tail"     -> /\ f.body <= to /\ to < f.end
                                 /\ to - f.start >= f.end - f.body
         [] kind = "coalesce" -> from < f.end /\ f.end < to}

(* Connection::HandleNewBytes(page, n) starts.  After Close() the loop     *)
(* goes on to call it, with 0 bytes.                                       *)
HandleNewBytes(n) ==
  LET arrived == Total - Len(network) IN
  /\ at = 0
  /\ IF status = "open" THEN n \in 1 .. Len(network) ELSE n = 0
  /\ network' = Drop(network, n)
  /\ buffers' = [buffers EXCEPT ![1] = @ \o Take(network, n)]
  /\ at' = 1
  /\ cuts' = cuts \cup Cuts(arrived, arrived + n)
  /\ UNCHANGED <<pipes, sent, frames, conforming, nextReadFrameLength, handled, status>>

-----------------------------------------------------------------------------
(* The pipes. *)

(* Mutant: maxReadSize is not looked at. *)
FrameStartUnchecked(i) ==
  LET prefix == ReadVarInt(buffers[i]) IN
  IF nextReadFrameLength[i] # 0
  THEN [result |-> "Success", length |-> nextReadFrameLength[i],
        rest |-> buffers[i]]
  ELSE [result |-> prefix.result, length |-> prefix.value,
        rest |-> Drop(buffers[i], prefix.size)]

(* The length of the frame pipe i is in, from its field or from the length *)
(* prefix in its buffer, and the bytes left after the prefix.              *)
FrameStart(i) ==
  LET prefix == ReadVarInt(buffers[i]) IN
  IF nextReadFrameLength[i] # 0
  THEN [result |-> "Success", length |-> nextReadFrameLength[i],
        rest |-> buffers[i]]
  ELSE [result |-> IF prefix.result = "Success" /\ prefix.value > MaxReadSize
                   THEN "TooLong" ELSE prefix.result,
        length |-> prefix.value, rest |-> Drop(buffers[i], prefix.size)]

(* FramedByteBytePipe::Read returns an error.  HandleNewBytes ignores it.  *)
ByteReadFails ==
  LET f == FrameStart(at) IN
  /\ at \in 1 .. pipes /\ f.result # "Success"
  /\ buffers' = [buffers EXCEPT ![at] = f.rest]
  /\ at' = at + 1
  /\ UNCHANGED <<pipes, peerVars, nextReadFrameLength, handled, status, cuts>>

(* It waits for the rest of the frame. *)
ByteReadWaits ==
  LET f == FrameStart(at) IN
  /\ at \in 1 .. pipes /\ f.result = "Success"
  /\ Len(f.rest) < f.length
  /\ buffers' = [buffers EXCEPT ![at] = f.rest]
  /\ nextReadFrameLength' = [nextReadFrameLength EXCEPT ![at] = f.length]
  /\ at' = at + 1
  /\ UNCHANGED <<pipes, peerVars, handled, status, cuts>>

(* Mutant: readableBytes was asked for before the prefix was read. *)
ByteReadDecodesStale ==
  LET f == FrameStart(at) IN
  /\ at \in 1 .. pipes /\ f.result = "Success"
  /\ Len(buffers[at]) >= f.length
  /\ buffers' = [buffers EXCEPT ![at] = Drop(f.rest, f.length),
                                ![at + 1] = @ \o Take(f.rest,
                                  IF Len(f.rest) < f.length THEN Len(f.rest)
                                                            ELSE f.length)]
  /\ nextReadFrameLength' = [nextReadFrameLength EXCEPT ![at] = 0]
  /\ at' = at + 1
  /\ UNCHANGED <<pipes, peerVars, handled, status, cuts>>

(* It calls DecodeFrame, which moves the frame to the pipe's readerBuffer. *)
ByteReadDecodes ==
  LET f == FrameStart(at) IN
  /\ at \in 1 .. pipes /\ f.result = "Success"
  /\ Len(f.rest) >= f.length
  /\ buffers' = [buffers EXCEPT ![at] = Drop(f.rest, f.length),
                                ![at + 1] = @ \o Take(f.rest, f.length)]
  /\ nextReadFrameLength' = [nextReadFrameLength EXCEPT ![at] = 0]
  /\ at' = at + 1
  /\ UNCHANGED <<pipes, peerVars, handled, status, cuts>>

Close(why) == status' = IF status = "open" THEN why ELSE status

(* FramedBytePacketPipe::Read returns InvalidFrameErrorable. *)
PacketReadInvalid ==
  LET f == FrameStart(at) IN
  /\ at = PacketPipe
  /\ f.result \in {"TooLong", "InvalidVarIntErrorable"}
  /\ buffers' = [buffers EXCEPT ![at] = f.rest]
  /\ at' = 0
  /\ Close("invalid")
  /\ UNCHANGED <<pipes, peerVars, nextReadFrameLength, handled, cuts>>

(* Mutant: > for >=. *)
CallsReadPacketLate(f) ==
  LET readableBytes == Len(buffers[at]) IN
  f.result = "Success" /\ f.length # 0 /\ readableBytes > f.length

(* Whether Read goes on to ReadPacket: readableBytes was asked for before  *)
(* the prefix was read.                                                    *)
CallsReadPacket(f) ==
  LET readableBytes == Len(buffers[at]) IN
  f.result = "Success" /\ f.length # 0 /\ readableBytes >= f.length

(* Mutant: the length that was read is not kept. *)
PacketReadForgets ==
  LET f == FrameStart(at) IN
  /\ at = PacketPipe
  /\ f.result \in {"Success", "IncompleteVarIntErrorable"} /\ ~ CallsReadPacket(f)
  /\ buffers' = [buffers EXCEPT ![at] = f.rest]
  /\ at' = 0
  /\ UNCHANGED <<pipes, peerVars, nextReadFrameLength, handled, status, cuts>>

(* It returns IncompleteFrameErrorable. *)
PacketReadWaits ==
  LET f == FrameStart(at) IN
  /\ at = PacketPipe
  /\ f.result \in {"Success", "IncompleteVarIntErrorable"} /\ ~ CallsReadPacket(f)
  /\ buffers' = [buffers EXCEPT ![at] = f.rest]
  /\ nextReadFrameLength' = [nextReadFrameLength EXCEPT ![at] =
                               IF f.result = "Success" THEN f.length ELSE 0]
  /\ at' = 0
  /\ UNCHANGED <<pipes, peerVars, handled, status, cuts>>

(* ReadPacket does not find frame_size bytes and returns an error. *)
ReadPacketFails ==
  LET f == FrameStart(at) IN
  /\ at = PacketPipe /\ CallsReadPacket(f)
  /\ Len(f.rest) < f.length
  /\ buffers' = [buffers EXCEPT ![at] = f.rest]
  /\ nextReadFrameLength' = [nextReadFrameLength EXCEPT ![at] = 0]
  /\ at' = 0
  /\ Close("short")
  /\ UNCHANGED <<pipes, peerVars, handled, cuts>>

(* Mutant: nextReadFrameLength is not reset. *)
ReadPacketKeepsLength(success) ==
  LET f == FrameStart(at) IN
  /\ at = PacketPipe /\ CallsReadPacket(f)
  /\ Len(f.rest) >= f.length
  /\ buffers' = [buffers EXCEPT ![at] = Drop(f.rest, f.length)]
  /\ nextReadFrameLength' = [nextReadFrameLength EXCEPT ![at] = f.length]
  /\ handled' = Append(handled, Take(f.rest, f.length))
  /\ at' = 0
  /\ IF success THEN UNCHANGED status ELSE Close("handler")
  /\ UNCHANGED <<pipes, peerVars, cuts>>

(* ReadPacket returns a packet, mainPacketHandler handles it or fails. *)
ReadPacketSucceeds(success) ==
  LET f == FrameStart(at) IN
  /\ at = PacketPipe /\ CallsReadPacket(f)
  /\ Len(f.rest) >= f.length
  /\ buffers' = [buffers EXCEPT ![at] = Drop(f.rest, f.length)]
  /\ nextReadFrameLength' = [nextReadFrameLength EXCEPT ![at] = 0]
  /\ handled' = Append(handled, Take(f.rest, f.length))
  /\ at' = 0
  /\ IF success THEN UNCHANGED status ELSE Close("handler")
  /\ UNCHANGED <<pipes, peerVars, cuts>>

-----------------------------------------------------------------------------
Read ==
  \/ ByteReadFails
  \/ ByteReadWaits
  \/ ByteReadDecodes
  \/ PacketReadInvalid
  \/ PacketReadWaits
  \/ ReadPacketFails
  \/ \E success \in BOOLEAN : ReadPacketSucceeds(success)

Loop == (\E n \in 0 .. Len(network) : HandleNewBytes(n)) \/ Read

Next == (\E p \in Packets : PeerSend(p)) \/ PeerAnnounce \/ Loop

Spec == Init /\ [][Next]_vars

(* The loop hands over what has arrived (EpollEventLoop, DataServed). *)
FairSpec == Spec /\ WF_vars(Loop)

-----------------------------------------------------------------------------
(* Properties. *)

TypeOK ==
  /\ pipes \in 0 .. MaxPipes
  /\ network \in Seq(Byte)
  /\ sent \in Seq(Packets)
  /\ frames \in Seq([start : Nat, body : Nat, end : Nat])
  /\ conforming \in BOOLEAN
  /\ at \in 0 .. PacketPipe
  /\ buffers \in [1 .. MaxPipes + 1 -> Seq(Byte)]
  /\ nextReadFrameLength \in [1 .. MaxPipes + 1 -> 0 .. MaxReadSize]
  /\ handled \in Seq(Seq(Byte))
  /\ status \in {"open", "invalid", "short", "handler"}
  /\ cuts \subseteq {"split", "tail", "coalesce"}

(* Cuts at which the pipe that reads from the network loses its place: a   *)
(* split prefix, and for the packet pipe also a short tail.                *)
HarmfulCuts == IF pipes = 0 THEN {"split", "tail"} ELSE {"split"}

Undisturbed == conforming /\ cuts \cap HarmfulCuts = {}

(* The packets that are not empty: a frame of length 0 is passed over. *)
NonEmpty(packets) ==
  LET kept[n \in 0 .. Len(packets)] ==
        IF n = 0 THEN <<>>
        ELSE IF packets[n] = <<>> THEN kept[n - 1] ELSE Append(kept[n - 1], packets[n])
  IN  kept[Len(packets)]

(* The packets of the stream the main handler has to get. *)
Expected == NonEmpty(sent)

(* However the network cuts the stream, except inside a length prefix or   *)
(* just before the end of a frame, through any number of pipes and across  *)
(* any number of HandleNewBytes calls, the main handler gets the packets   *)
(* the peer sent: all its bytes, in order, none twice, none left out.      *)
PacketsInOrder ==
  Undisturbed =>
    Len(handled) <= Len(Expected) /\ handled = Take(Expected, Len(handled))

(* A conforming peer is disconnected only by a handler. *)
ConformingPeerStaysConnected ==
  conforming => status \in {"open", "handler"}

(* The same, as long as no cut is harmful: no pipe takes the middle of a   *)
(* frame for a length prefix, or an incomplete frame for a complete one.   *)
NoFalseError == Undisturbed => status \in {"open", "handler"}

(* A pipe behind another pipe never has to wait and never has a backlog:   *)
(* what it finds in its buffer is one whole frame, which it consumes in    *)
(* the same call of HandleNewBytes.                                        *)
InnerPipesSeeWholeFrames ==
  Undisturbed =>
    \A i \in 2 .. PacketPipe :
      /\ nextReadFrameLength[i] = 0
      /\ \/ buffers[i] = <<>>
         \/ at = i /\ \E k \in 1 .. Len(sent) : buffers[i] = Framed(sent[k], i)

(* Every packet that was sent is handled: a handler that is behind catches *)
(* up, unless the connection is closed or the network has put the end of   *)
(* one frame and the start of the next in one read.                        *)
EveryPacketHandled ==
  []<>(\/ status # "open"
       \/ "coalesce" \in cuts
       \/ Len(handled) = Len(Expected)
       \/ ~ Undisturbed)
=============================================================================
