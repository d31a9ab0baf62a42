---------------------------- MODULE OrdinalVector ----------------------------
(***************************************************************************)
(* Tables indexed by ordinals (ShipNet/utils/ordinal/OrdinalVector.hpp).   *)
(* A std::vector is a sequence; its element number n is at index n + 1.    *)
(***************************************************************************)
EXTENDS Integers, Sequences

CONSTANT Slack   \* room added behind an ordinal that is too large: 8

ASSUME SlackAssumption == Slack \in Nat \ {0}

(* std::vector::resize: cuts the vector or fills it up with T(). *)
Resized(vector, size, blank) ==
  [i \in 1 .. size |-> IF i <= Len(vector) THEN vector[i] ELSE blank]

(* Mutant: a vector that is exactly full is taken to have room. *)
ResizeVectorLate(vector, at, value, blank) ==
  LET room == IF at > Len(vector) THEN Resized(vector, at + Slack, blank)
                                  ELSE vector
  IN  [room EXCEPT ![at + 1] = value]

ResizeVectorAndSet(vector, at, value, blank) ==
  LET room == IF at >= Len(vector) THEN Resized(vector, at + Slack, blank)
                                   ELSE vector
  IN  [room EXCEPT ![at + 1] = value]
=============================================================================
