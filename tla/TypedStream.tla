----------------------------- MODULE TypedStream -----------------------------
(***************************************************************************)
(* The typed Write and Read functions of ByteBuffer                        *)
(* (ShipNet/protocol/ByteBuffer.cpp) and ByteCounter, their size-counting  *)
(* twin (ShipNet/protocol/ByteCounter.cpp).                                *)
(*                                                                         *)
(* A sender writes fields to a buffer and, as Serializable::Size does, to  *)
(* a ByteCounter; the bytes arrive in pieces; the receiver knows the types *)
(* to expect and repeats a Read that failed when more bytes are there, as  *)
(* the frame pipes do.  Numbers keep their structure (big-endian bytes,    *)
(* groups with a flag) and get fewer bits: a byte has 2 * Base values.     *)
(***************************************************************************)
EXTENDS VarInt, FiniteSetsExt

CONSTANTS
  LongGroups, LongModulus, \* of a VarLong: 10 and 2 ^ 64
  Fields,                  \* fields a sender may write: type and value
  MaxFields,               \* bound: fields written in a behaviour
  MaxLength                \* max_size of ReadString and ReadByteArray

ByteValues == 2 * Base

(* BYTE_SIZE, SHORT_SIZE, ...  A double is written as the 64 bits, a float *)
(* as the 32 bits it consists of.                                          *)
Size == [Boolean |-> 1, Byte |-> 1, Short |-> 2, Medium |-> 3, Int |-> 4,
         Float |-> 4, Long |-> 8, Double |-> 8]

FixedTypes == DOMAIN Size

(* input >> n, in places of base values. *)
Shifted(input, base, n) ==
  LET shifted[k \in 0 .. n] == IF k = 0 THEN input ELSE shifted[k - 1] \div base
  IN  shifted[n]

(* The numbers of that many bytes. *)
Unsigned(size) == {n \in Nat : Shifted(n, ByteValues, size) = 0}

(* A VarInt has groups for 32 bits and a VarLong for 64; max_size is 65536. *)
ASSUME WidthAssumption ==
  /\ LongGroups \in Nat \ {0} /\ LongModulus \in Nat \ {0}
  /\ Shifted(Modulus - 1, Base, MaxGroups) = 0
  /\ Shifted(LongModulus - 1, Base, LongGroups) = 0
  /\ MaxLength \in 0 .. Modulus - 1

ASSUME FieldsAssumption ==
  \A f \in Fields :
    /\ f.type \in FixedTypes \cup {"VarInt", "VarLong", "UUID", "UUIDIntArray",
                                   "String", "ByteArray"}
    /\ f.type \in FixedTypes => f.value \in Unsigned(Size[f.type])
    /\ f.type = "Boolean" => f.value \in {0, 1}
    /\ f.type = "VarInt" => f.value \in 0 .. Modulus - 1
    /\ f.type = "VarLong" => f.value \in 0 .. LongModulus - 1
    /\ f.type \in {"UUID", "UUIDIntArray"} =>
         f.value \in Unsigned(Size["Long"]) \X Unsigned(Size["Long"])
    /\ f.type \in {"String", "ByteArray"} =>
         f.value \in Seq(Byte) /\ Len(f.value) <= MaxLength

-----------------------------------------------------------------------------
(* Writing: the bytes each function appends. *)

(* WriteBoolean, WriteShort, WriteMedium, WriteInt: size bytes, big-endian. *)
WriteFixed(input, size) ==
  [i \in 1 .. size |-> Shifted(input, ByteValues, size - i) % ByteValues]

WriteInt(input) == WriteFixed(input, Size["Int"])
WriteLong(input) == WriteFixed(input, Size["Long"])

WriteVarLong(input) == WriteVarInt[input]

WriteUUID(input) == WriteLong(input[1]) \o WriteLong(input[2])

WriteUUIDIntArray(input) ==
  LET left(long) == Shifted(long, ByteValues, Size["Int"]) IN
  WriteInt(left(input[1])) \o WriteInt(input[1])
    \o WriteInt(left(input[2])) \o WriteInt(input[2])

(* WriteString and WriteByteArray. *)
WriteArray(input) == WriteVarInt[Len(input)] \o input

Written(f) ==
  CASE f.type \in FixedTypes            -> WriteFixed(f.value, Size[f.type])
    [] f.type = "VarInt"                -> WriteVarInt[f.value]
    [] f.type = "VarLong"               -> WriteVarLong(f.value)
    [] f.type = "UUID"                  -> WriteUUID(f.value)
    [] f.type = "UUIDIntArray"          -> WriteUUIDIntArray(f.value)
    [] f.type \in {"String", "ByteArray"} -> WriteArray(f.value)

-----------------------------------------------------------------------------
(* Counting: what ByteCounter adds to writerIndex. *)

(* Mutant: the masks are one bit too high. *)
GroupsNeededLate(input, groups) ==
  Min({n \in 1 .. groups : n = groups \/ Shifted(input, Base, n) <= 1})

(* The first n such that no bit is set above n groups, at most groups. *)
GroupsNeeded(input, groups) ==
  Min({n \in 1 .. groups : n = groups \/ Shifted(input, Base, n) = 0})

VarIntBytes(input) == GroupsNeeded(input, MaxGroups)
VarLongBytes(input) == GroupsNeeded(input, LongGroups)

UUID_SIZE == 2 * Size["Long"]

(* StringBytes and ArrayBytes. *)
ArrayBytes(length) == VarIntBytes(length) + length

Counted(f) ==
  CASE f.type \in FixedTypes            -> Size[f.type]
    [] f.type = "VarInt"                -> VarIntBytes(f.value)
    [] f.type = "VarLong"               -> VarLongBytes(f.value)
    [] f.type \in {"UUID", "UUIDIntArray"} -> UUID_SIZE
    [] f.type \in {"String", "ByteArray"} -> ArrayBytes(Len(f.value))

-----------------------------------------------------------------------------
(* Reading: what a function returns and how many of the readable bytes s   *)
(* it has consumed by then.                                                *)

Success(value, size) == [ok |-> TRUE, value |-> value, size |-> size]
Failure(size) == [ok |-> FALSE, value |-> 0, size |-> size]

Rest(s, n) == SubSeq(s, n + 1, Len(s))

(* The number in the first n bytes of s. *)
BigEndian(s, n) ==
  LET number[i \in 0 .. n] == IF i = 0 THEN 0 ELSE number[i - 1] * ByteValues + s[i]
  IN number[n]

(* Mutant: the bytes that are there are taken before the test. *)
ReadFixedEager(s, size) ==
  IF Len(s) < size THEN Failure(Len(s)) ELSE Success(BigEndian(s, size), size)

ReadFixed(s, size) ==
  IF Len(s) < size THEN Failure(0) ELSE Success(BigEndian(s, size), size)

ReadLong(s) == ReadFixed(s, Size["Long"])

FromVarInt(r) ==
  IF r.result = "Success" THEN Success(r.value, r.size) ELSE Failure(r.size)

ReadVarLong(s) == ReadGroups(s, LongGroups, LongModulus)

(* Mutant: the second long is read where the first one is. *)
ReadUUIDTwice(s) ==
  LET r == ReadLong(s) IN
  IF r.ok THEN Success(<<r.value, r.value>>, 2 * r.size) ELSE Failure(0)

ReadUUID(s) ==
  LET most == ReadLong(s)
      least == ReadLong(Rest(s, most.size))
  IN
  CASE ~ most.ok  -> Failure(0)
    [] ~ least.ok -> Failure(most.size)
    [] OTHER      -> Success(<<most.value, least.value>>, most.size + least.size)

(* Bitwise or. *)
Or[x \in Nat, y \in Nat] ==
  IF x = 0 \/ y = 0
  THEN x + y
  ELSE 2 * Or[x \div 2, y \div 2] + (IF x % 2 = 0 /\ y % 2 = 0 THEN 0 ELSE 1)

(* Four ReadInt; the first one lacks its shift by 32 bits. *)
ReadUUIDIntArray(s) ==
  LET size == Size["Int"]
      ints == Len(s) \div size
      number(i, n) == BigEndian(Rest(s, i * size), n * size)
  IN
  IF ints < 4
  THEN Failure(ints * size)
  ELSE Success(<<Or[number(0, 1), number(1, 1)], number(2, 2)>>, 4 * size)

(* Mutant: the bytes are taken without asking whether they have arrived. *)
ReadArrayUnchecked(s) ==
  LET length == FromVarInt(ReadVarInt(s)) IN
  IF ~ length.ok \/ length.value > MaxLength
  THEN Failure(length.size)
  ELSE Success(Rest(s, length.size), length.size + length.value)

(* Length, test against max_size, ReadBytes(length): the bytes returned. *)
ReadArray(s) ==
  LET length == FromVarInt(ReadVarInt(s))
      rest == Rest(s, length.size)
  IN
  IF ~ length.ok \/ length.value > MaxLength \/ Len(rest) < length.value
  THEN Failure(length.size)
  ELSE Success(SubSeq(rest, 1, length.value), length.size + length.value)

(* The std::string is made from the bytes without their length and ends at *)
(* the first NUL, wherever that is.                                        *)
Unspecified == -1

ReadString(s) ==
  LET bytes == ReadArray(s) IN
  IF bytes.ok THEN Success(Unspecified, bytes.size) ELSE bytes

(* The new ByteBuffer has the bytes, and readableBytes = 0. *)
ReadByteArray(s) ==
  LET bytes == ReadArray(s) IN
  IF bytes.ok THEN Success(<<>>, bytes.size) ELSE bytes

ReadAs(type, s) ==
  CASE type = "Boolean"      -> LET r == ReadFixed(s, 1) IN
                                [r EXCEPT !.value = IF @ = 0 THEN 0 ELSE 1]
    [] type \in FixedTypes \ {"Boolean"} -> ReadFixed(s, Size[type])
    [] type = "VarInt"       -> FromVarInt(ReadVarInt(s))
    [] type = "VarLong"      -> FromVarInt(ReadVarLong(s))
    [] type = "UUID"         -> ReadUUID(s)
    [] type = "UUIDIntArray" -> ReadUUIDIntArray(s)
    [] type = "String"       -> ReadString(s)
    [] type = "ByteArray"    -> ReadByteArray(s)

-----------------------------------------------------------------------------
(* Sender, network and receiver. *)

VARIABLES
  fields,       \* fields written
  writerIndex,  \* of the ByteCounter they were counted with
  wire,         \* bytes written and not yet arrived
  buffer,       \* readable bytes of the receiver's buffer
  readerIndex,  \* bytes the Read functions have consumed
  got,          \* values read, one for each of the first fields
  disturbed     \* a Read that works in several parts has failed

typedVars == <<fields, writerIndex, wire, buffer, readerIndex, got, disturbed>>

TypedInit ==
  /\ fields = <<>>
  /\ writerIndex = 0
  /\ wire = <<>>
  /\ buffer = <<>>
  /\ readerIndex = 0
  /\ got = <<>>
  /\ disturbed = FALSE

WriteField(f) ==
  /\ Len(fields) < MaxFields
  /\ fields' = Append(fields, f)
  /\ writerIndex' = writerIndex + Counted(f)
  /\ wire' = wire \o Written(f)
  /\ UNCHANGED <<buffer, readerIndex, got, disturbed>>

Arrive(n) ==
  /\ n \in 1 .. Len(wire)
  /\ buffer' = buffer \o SubSeq(wire, 1, n)
  /\ wire' = Rest(wire, n)
  /\ UNCHANGED <<fields, writerIndex, readerIndex, got, disturbed>>

(* The type the receiver expects next. *)
NextType == fields[Len(got) + 1].type

ReadField ==
  LET r == ReadAs(NextType, buffer) IN
  /\ Len(got) < Len(fields) /\ r.ok
  /\ got' = Append(got, r.value)
  /\ buffer' = Rest(buffer, r.size)
  /\ readerIndex' = readerIndex + r.size
  /\ UNCHANGED <<fields, writerIndex, wire, disturbed>>

ReadFieldFails ==
  LET r == ReadAs(NextType, buffer) IN
  /\ Len(got) < Len(fields) /\ ~ r.ok
  /\ buffer' = Rest(buffer, r.size)
  /\ readerIndex' = readerIndex + r.size
  /\ disturbed' = (disturbed \/ NextType \notin FixedTypes)
  /\ UNCHANGED <<fields, writerIndex, wire, got>>

TypedNext ==
  \/ \E f \in Fields : WriteField(f)
  \/ \E n \in 1 .. Len(wire) : Arrive(n)
  \/ ReadField
  \/ ReadFieldFails

TypedSpec == TypedInit /\ [][TypedNext]_typedVars

-----------------------------------------------------------------------------
(* Properties. *)

BytesOf(fs) ==
  LET bytes[i \in 0 .. Len(fs)] ==
        IF i = 0 THEN <<>> ELSE bytes[i - 1] \o Written(fs[i])
  IN  bytes[Len(fs)]

(* The stream consists of bytes, and a Read consumes only bytes that are   *)
(* there, whether it succeeds or fails: what was read, what is readable    *)
(* and what is on its way are together what was written.                   *)
TypedTypeOK ==
  /\ fields \in Seq(Fields)
  /\ writerIndex \in Nat /\ readerIndex \in Nat
  /\ wire \in Seq(Byte) /\ buffer \in Seq(Byte)
  /\ readerIndex + Len(buffer) + Len(wire) = Len(BytesOf(fields))
  /\ Len(got) <= Len(fields)
  /\ disturbed \in BOOLEAN

(* Whatever pieces the bytes arrive in, what the receiver has not read yet  *)
(* is exactly the bytes of the fields it has not read yet: a successful     *)
(* Read takes the bytes of its field and no more, a failed Read of a type   *)
(* of fixed size takes none and can be repeated.  A failed Read that works  *)
(* in several parts (a VarInt, a UUID, an array) ends the guarantee.        *)
ReaderInStep == ~ disturbed => buffer \o wire = BytesOf(Rest(fields, Len(got)))

(* The types whose value is not what was written: ReadUUIDIntArray drops a  *)
(* shift, ReadString ends at the first NUL, the ByteBuffer of ReadByteArray *)
(* is not readable.                                                         *)
Damaged == {"UUIDIntArray", "String", "ByteArray"}

(* Every value of the other types is read as it was written, at both ends   *)
(* of its range and across every way to cut the stream.                     *)
ValuesRoundTrip ==
  ~ disturbed =>
    \A i \in 1 .. Len(got) :
      fields[i].type \notin Damaged => got[i] = fields[i].value

(* ByteCounter, which computes each size by a rule of its own (a ladder of  *)
(* masks for VarInt and VarLong), agrees with the bytes really written, for *)
(* the whole of what a Serializable writes.                                 *)
CounterAgrees == writerIndex = Len(BytesOf(fields))
=============================================================================
