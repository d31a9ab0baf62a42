---------------------------- MODULE MCTypedStream ----------------------------
(* Model values for checking TypedStream: both ends of the range of every  *)
(* type, and the numbers where a VarInt gets another group.                *)
EXTENDS TypedStream

FieldsOf(type, values) == {[type |-> type, value |-> v] : v \in values}

SomeFields == UNION {
  FieldsOf("Boolean", {0, 1}),
  FieldsOf("Short", {1, 63}),
  FieldsOf("Medium", {8}),
  FieldsOf("Int", {4095}),
  FieldsOf("Double", {16777215}),
  FieldsOf("VarInt", {3, 4, 16, 31}),
  FieldsOf("VarLong", {63, 64, 256, 511}),
  FieldsOf("UUID", {<<1, 16777215>>}),
  FieldsOf("UUIDIntArray", {<<4097, 2>>}),
  FieldsOf("String", {<<>>, <<7, 1>>}),
  FieldsOf("ByteArray", {<<4, 0, 7, 5, 6>>})}
=============================================================================
