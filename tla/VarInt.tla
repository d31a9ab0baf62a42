-------------------------------- MODULE VarInt --------------------------------
(***************************************************************************)
(* The variable-length integers of ByteBuffer (ReadVarInt and WriteVarInt, *)
(* ShipNet/protocol/ByteBuffer.cpp).  A byte carries a group of the number *)
(* and a flag that says whether another group follows.  The code has       *)
(* groups of 7 bits (Base = 128), at most 5 of them, and 32-bit results;   *)
(* small values of the three constants show the same cases.                *)
(***************************************************************************)
EXTENDS Integers, Sequences

CONSTANTS
  Base,       \* values of a group; a byte of Base or more has the flag
  MaxGroups,  \* groups ReadVarInt accepts
  Modulus     \* 2 ^ width of the result

ASSUME VarIntAssumption ==
  Base \in Nat \ {0, 1} /\ MaxGroups \in Nat \ {0} /\ Modulus \in Nat \ {0}

Byte == 0 .. 2 * Base - 1

WriteVarInt[input \in Nat] ==
  IF input < Base
  THEN <<input>>
  ELSE <<Base + (input % Base)>> \o WriteVarInt[input \div Base]

(* The number in the first n groups of s, the lowest group first. *)
Decoded(s, n) ==
  LET from[i \in 1 .. n + 1] ==
        IF i = n + 1 THEN 0 ELSE (s[i] % Base) + Base * from[i + 1]
  IN  from[1]

(* Reading a number of that many groups and that modulus from a buffer     *)
(* whose readable bytes are s: what it returns and how many bytes it has   *)
(* consumed, which it does in every case.                                  *)
ReadGroups(s, groups, modulus) ==
  LET looked == IF Len(s) < groups THEN Len(s) ELSE groups
      ends == {n \in 1 .. looked : s[n] < Base}
      last == CHOOSE n \in ends : \A m \in ends : n <= m
  IN
  IF ends # {}
  THEN [result |-> "Success", value |-> Decoded(s, last) % modulus, size |-> last]
  ELSE [result |-> IF Len(s) < groups THEN "IncompleteVarIntErrorable"
                                      ELSE "InvalidVarIntErrorable",
        value |-> 0, size |-> looked]

ReadVarInt(s) == ReadGroups(s, MaxGroups, Modulus)
=============================================================================
