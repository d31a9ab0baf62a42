--------------------------- MODULE PacketDispatch ---------------------------
(***************************************************************************)
(* From a packet id to a callback: the registries, the callback tables of  *)
(* ShipNet/protocol/handler, and the part of Connection that keeps the     *)
(* packet handlers and offers them a packet                                *)
(* (ShipNet/network/Connection.cpp).                                       *)
(*                                                                         *)
(* One thread runs all of it.  A packet is offered to the main handler and *)
(* then along the list of handlers until one claims it; a callback may     *)
(* change the handlers of the connection before it returns, that is, in    *)
(* the middle of the loop over them.                                       *)
(***************************************************************************)
EXTENDS VersionedRegistry, FiniteSets

CONSTANTS
  Handlers,      \* PacketHandler objects
  ClassOf,       \* HANDLER_ORDINAL of their classes
  Callbacks,     \* functions given to SetPacketCallback
  Unsafe,        \* ... those given to SetUnsafePacketCallback
  ProtocolIDs,   \* protocol ids a peer may announce
  Sizes,         \* sizes of a packet, and what reading one may consume
  Budgets        \* bounds: how often each kind of call happens

Classes == {ClassOf[h] : h \in Handlers}

ASSUME DispatchAssumption ==
  /\ ClassOf \in [Handlers -> Nat] /\ Sizes \subseteq Nat
  /\ None \notin Callbacks /\ Unsafe \subseteq Callbacks

VARIABLES
  callbacks,          \* the static table of PacketHandler
  mainPacketHandler,
  packetHandlers,     \* the std::list of the connection
  deleted,            \* handlers that were deleted
  closed,             \* Close() was called
  turn,               \* the packet that is, or was last, offered
  halted,             \* outside "callbacks" or "registry", or "looping"
  left,               \* calls left of the budget
  callbackGiven,      \* ghost: callback that was last set
  spread              \* ghost: not ordinal 0 first, or outside the first block

connection == <<mainPacketHandler, packetHandlers, deleted>>
table == <<callbacks, callbackGiven, spread>>
vars == <<registryVars, table, connection, closed, turn, halted, left>>

Spend(kind) == left[kind] > 0 /\ left' = [left EXCEPT ![kind] = @ - 1]

-----------------------------------------------------------------------------
(* PacketHandler *)

(* Mutant: the table is resized to what the handler needs, no more. *)
CallbackTableTight(class) ==
  IF Len(callbacks) >= class THEN Resized(callbacks, class + 1, <<>>) ELSE callbacks

(* The table after the test in SetPointerCallback, which asks whether the  *)
(* table is large enough and then resizes it; otherwise it is left alone.  *)
CallbackTable(class) ==
  IF Len(callbacks) >= class THEN Resized(callbacks, class + Slack, <<>>) ELSE callbacks

SetPointerCallback(class, ordinal, callback) ==
  /\ class < Len(CallbackTable(class))
  /\ callbacks' = [CallbackTable(class) EXCEPT
       ![class + 1] = ResizeVectorAndSet(@, ordinal, callback, None)]
  /\ callbackGiven' = [callbackGiven EXCEPT ![class][ordinal] = callback]
  /\ spread' = (spread \/ class >= Slack)
  /\ UNCHANGED halted

(* callbacks[handler_ordinal] behind the end of the vector. *)
SetPointerCallbackOutside(class) ==
  /\ class >= Len(CallbackTable(class))
  /\ halted' = "callbacks"
  /\ spread' = (spread \/ class >= Slack \/ callbacks = <<>>)
  /\ UNCHANGED <<callbacks, callbackGiven>>

(* The callback Handle finds for a packet. *)
CallbackFor(h, ordinal) ==
  IF ClassOf[h] >= Len(callbacks) THEN None
  ELSE LET localCallbacks == callbacks[ClassOf[h] + 1]
       IN  IF ordinal >= Len(localCallbacks) THEN None ELSE localCallbacks[ordinal + 1]

-----------------------------------------------------------------------------
(* Connection: the handlers *)

(* A handler belongs to one place of one connection. *)
Fresh(h) == /\ h # mainPacketHandler /\ h \notin deleted
            /\ \A i \in 1 .. Len(packetHandlers) : packetHandlers[i] # h

ReplaceMainPacketHandler(h) ==
  /\ mainPacketHandler' = h
  /\ deleted' = deleted \cup {mainPacketHandler}
  /\ UNCHANGED <<packetHandlers, turn, halted>>

(* The handler at position n; the loop over the list keeps its element. *)
Insert(h, n) ==
  /\ packetHandlers' = SubSeq(packetHandlers, 1, n - 1) \o <<h>>
                       \o SubSeq(packetHandlers, n, Len(packetHandlers))
  /\ turn' = [turn EXCEPT !.at = IF n <= @ THEN @ + 1 ELSE @]
  /\ UNCHANGED <<mainPacketHandler, deleted, halted>>

AppendPacketHandler(h) == Insert(h, Len(packetHandlers) + 1)

(* Mutant: the loop keeps its position, as over a vector. *)
PrependPacketHandlerShifts(h) ==
  /\ packetHandlers' = <<h>> \o packetHandlers
  /\ UNCHANGED <<mainPacketHandler, deleted, halted, turn>>

PrependPacketHandler(h) == Insert(h, 1)

(* AppendPacketHandler and PrependPacketHandler with an ordinal.  Only the *)
(* first handler is ever compared: the iterator is not advanced.           *)
InsertByOrdinal(h, ordinal, n) ==
  \/ /\ packetHandlers = <<>>
     /\ UNCHANGED <<connection, turn, halted>>
  \/ /\ packetHandlers # <<>> /\ ClassOf[packetHandlers[1]] = ordinal
     /\ Insert(h, n)
  \/ /\ packetHandlers # <<>> /\ ClassOf[packetHandlers[1]] # ordinal
     /\ halted' = "looping"
     /\ UNCHANGED <<connection, turn>>

AppendPacketHandlerAfter(h, afterOrdinal) == InsertByOrdinal(h, afterOrdinal, 2)
PrependPacketHandlerBefore(h, beforeOrdinal) == InsertByOrdinal(h, beforeOrdinal, 1)

-----------------------------------------------------------------------------
(* Connection::HandleNewBytes, from ReadPacket on *)

Current == IF turn.at = 0 THEN mainPacketHandler ELSE packetHandlers[turn.at]

(* ReadPacket looks the id up and hands over a PacketHolder. *)
PacketArrives(protocol, id, size) ==
  LET version == FromProtocolID(protocol)
      r == versionRegistry[VersionToOrdinal(version)]
      ordinal == GetValue(version, id)
      resolves == version # Blank /\ r # Garbage
      newest == IF version = Unknown THEN MaximumVersion ELSE version
  IN  \/ /\ resolves /\ ordinal.ok
         /\ turn' = [stage |-> "asking", at |-> 0, id |-> id, ordinal |-> ordinal.value,
                     wanted |-> ordinalGiven[assigned[newest]][id],
                     size |-> size, read |-> 0,
                     handler |-> None, callback |-> None, asked |-> <<>>,
                     present |-> {packetHandlers[i] : i \in 1 .. Len(packetHandlers)}]
         /\ UNCHANGED <<closed, halted>>
      \/ /\ resolves /\ ~ordinal.ok
         /\ closed' = TRUE
         /\ UNCHANGED <<turn, halted>>
      \/ /\ ~resolves
         /\ halted' = "registry"
         /\ UNCHANGED <<turn, closed>>

(* Mutant: the search goes on behind the last handler. *)
NextStagePast(answer, at) ==
  IF answer = "true" \/ (answer = "error" /\ at = 0) THEN "done" ELSE "asking"

(* What follows an answer: an error of the main handler and a claim end    *)
(* the search; the value of an error is false, so that behind the main     *)
(* handler an error does not.                                              *)
NextStage(answer, at) ==
  IF \/ answer = "true"
     \/ answer = "error" /\ at = 0
     \/ at = Len(packetHandlers)
  THEN "done" ELSE "asking"

Answer(h, answer, record) ==
  LET stage == NextStage(answer, record.at)
  IN  /\ turn' = [record EXCEPT
           !.asked = Append(@, [handler |-> h, answer |-> answer]),
           !.stage = stage,
           !.at = IF stage = "asking" THEN @ + 1 ELSE 0]
      /\ closed' = (closed \/ answer = "error")

AskNoCallback ==
  /\ CallbackFor(Current, turn.ordinal) = None
  /\ Answer(Current, "false", turn)

(* Mutant: only a callback that reads too much is refused. *)
SizeFitsAtMost(size) == size <= turn.size

(* What was read from the buffer against holder.GetExpectedSize(). *)
SizeFits(size) == size = turn.size

(* The function made by SetPacketCallback reads the packet from what is    *)
(* left of the buffer: CanNotReadPacketErrorable when Instantiate fails,   *)
(* InvalidPacketSizeErrorable when it took more or less than expected.     *)
AskMisread(size, fails) ==
  LET callback == CallbackFor(Current, turn.ordinal)
  IN  /\ callback # None
      /\ fails => callback \notin Unsafe
      /\ fails \/ ~SizeFits(size)
      /\ Answer(Current, "error", [turn EXCEPT !.read = @ + size])

AskRuns(size) ==
  LET callback == CallbackFor(Current, turn.ordinal)
  IN  /\ callback # None /\ SizeFits(size)
      /\ turn' = [turn EXCEPT !.stage = "callback", !.handler = Current,
                              !.callback = callback, !.read = @ + size]
      /\ UNCHANGED closed

CallbackReturns(answer) == Answer(turn.handler, answer, turn)

-----------------------------------------------------------------------------
Init ==
  /\ RegistryInit
  /\ callbacks = <<>> /\ spread = FALSE
  /\ callbackGiven = [c \in Classes |-> [o \in Ordinals |-> None]]
  /\ mainPacketHandler \in Handlers /\ packetHandlers = <<>> /\ deleted = {}
  /\ closed = FALSE /\ halted = "no"
  /\ turn = [stage |-> "done", at |-> 0, id |-> None, ordinal |-> 0, wanted |-> None,
             size |-> 0, read |-> 0, handler |-> None, callback |-> None,
             asked |-> <<>>, present |-> {}]
  /\ left \in Budgets

RegistryStep ==
  /\ turn.stage = "done"
  /\ \/ /\ Spend("register")
        /\ \/ \E r \in Registries, o \in Ordinals : Register(r, o)
           \/ \E r \in Registries, o \in Ordinals, id \in Ids : RegisterAt(r, o, id)
     \/ /\ Spend("construct")
        /\ \E o \in Ordinals, c \in Constructors : RegisterConstructor(o, c)
     \/ /\ Spend("assign")
        /\ \/ \E r \in Registries, v \in Versions : RegisterVersion(v, r)
           \/ \E r \in Registries : FillVersionRegistry(r)
  /\ UNCHANGED <<table, connection, closed, turn, halted>>

CallbackStep ==
  /\ turn.stage = "done" /\ Spend("callback")
  /\ \/ \E c \in Classes, o \in Ordinals, f \in Callbacks : SetPointerCallback(c, o, f)
     \/ \E c \in Classes : SetPointerCallbackOutside(c)
  /\ UNCHANGED <<registryVars, connection, closed, turn>>

(* By a callback, or by a task between two packets. *)
HandlerStep ==
  /\ turn.stage # "asking" /\ Spend("handler")
  /\ \E h \in Handlers :
       /\ Fresh(h)
       /\ \/ ReplaceMainPacketHandler(h)
          \/ AppendPacketHandler(h)
          \/ PrependPacketHandler(h)
          \/ \E c \in Classes : AppendPacketHandlerAfter(h, c)
          \/ \E c \in Classes : PrependPacketHandlerBefore(h, c)
  /\ UNCHANGED <<registryVars, table, closed>>

PacketStep ==
  /\ turn.stage = "done" /\ Spend("packet")
  /\ \E p \in ProtocolIDs, id \in Ids, size \in Sizes : PacketArrives(p, id, size)
  /\ UNCHANGED <<registryVars, table, connection>>

AskStep ==
  /\ turn.stage = "asking"
  /\ \/ AskNoCallback
     \/ \E size \in Sizes, fails \in BOOLEAN : AskMisread(size, fails)
     \/ \E size \in Sizes : AskRuns(size)
  /\ UNCHANGED <<registryVars, table, connection, halted, left>>

ReturnStep ==
  /\ turn.stage = "callback"
  /\ \E answer \in {"true", "false", "error"} : CallbackReturns(answer)
  /\ UNCHANGED <<registryVars, table, connection, halted, left>>

Next ==
  /\ halted = "no"
  /\ \/ RegistryStep \/ CallbackStep \/ HandlerStep
     \/ PacketStep \/ AskStep \/ ReturnStep

Spec == Init /\ [][Next]_vars

-----------------------------------------------------------------------------
(* The tables hold ordinals, ids and callbacks, and the loop over the      *)
(* handlers stays inside the list (Connection.cpp:126).                    *)
TypeOK ==
  /\ RegistryTypeOK
  /\ callbacks \in Seq(Seq(Callbacks \cup {None}))
  /\ mainPacketHandler \in Handlers \ deleted
  /\ packetHandlers \in Seq(Handlers \ deleted)
  /\ turn.stage \in {"asking", "callback", "done"}
  /\ turn.at \in 0 .. Len(packetHandlers)
  /\ halted \in {"no", "callbacks", "registry", "looping"}

(* As long as the first callback is set for the handler with ordinal 0 and *)
(* all handlers have ordinals in the first block, every callback that was  *)
(* set is found, whatever the order of the calls: the inverted test at     *)
(* PacketHandler.cpp:38 resizes the table on every call without cutting    *)
(* off a callback, and never indexes behind the end.                       *)
CallbacksKept ==
  /\ ~spread => \A h \in Handlers, o \in Ordinals :
       callbackGiven[ClassOf[h]][o] # None =>
         CallbackFor(h, o) = callbackGiven[ClassOf[h]][o]
  /\ halted = "callbacks" => spread

(* A packet is offered to the main handler first, then to the others, to   *)
(* none twice, to nobody after it was claimed or after an error of the     *)
(* main handler, and, if nobody claims it, to every handler that was in    *)
(* the list when it arrived: handlers that callbacks insert during the     *)
(* loop do not make it skip or repeat one (Connection.cpp:116-137).        *)
HandlersAskedInTurn ==
  LET asked == turn.asked
      ended(i) == asked[i].answer = "true" \/ (i = 1 /\ asked[i].answer = "error")
  IN  /\ \A i \in 1 .. Len(asked) : ended(i) => i = Len(asked) /\ turn.stage = "done"
      /\ \A i, j \in 1 .. Len(asked) : asked[i].handler = asked[j].handler => i = j
      /\ turn.stage = "done" /\ (\A i \in 1 .. Len(asked) : ~ended(i)) =>
           turn.present \subseteq {asked[i].handler : i \in 1 .. Len(asked)}

(* The handlers offered the packet so far whose class has a callback for   *)
(* it, the one whose callback runs included.                               *)
Readers ==
  {h \in Handlers :
     /\ callbackGiven[ClassOf[h]][turn.ordinal] # None
     /\ \/ \E i \in 1 .. Len(turn.asked) : turn.asked[i].handler = h
        \/ turn.stage = "callback" /\ turn.handler = h}

(* While a packet is offered and no error was reported, every handler      *)
(* whose class has a callback for it has taken its size from the stream    *)
(* anew (PacketHandler.hpp:10,19).  So only the first of them reads the    *)
(* packet; a second one, asked because the first did not claim it          *)
(* (Connection.cpp:124-137), reads the bytes that follow it, and a packet  *)
(* without a reader stays in the buffer, whatever order the callbacks were *)
(* set in and whatever handlers they insert.                               *)
EachReaderReadsOn ==
  /\ turn.stage # "done" /\ ~spread
  /\ \A i \in 1 .. Len(turn.asked) : turn.asked[i].answer # "error"
  => turn.read = turn.size * Cardinality(Readers)

(* A callback that runs is the one last set for the class of its handler   *)
(* and for the ordinal that was registered for the packet's id in the      *)
(* registry of the peer's version: no resize of any of the three tables on *)
(* the way moves an entry.  An id that was never registered is dispatched  *)
(* only as ordinal 0, what the padding of OrdinalVector.hpp:12 holds.      *)
DeliveredByRegistration ==
  turn.stage = "callback" =>
    /\ turn.callback = callbackGiven[ClassOf[turn.handler]][turn.ordinal]
    /\ turn.ordinal = IF turn.wanted = None THEN 0 ELSE turn.wanted
=============================================================================
