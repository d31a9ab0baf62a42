------------------------------ MODULE ByteQueue ------------------------------
(***************************************************************************)
(* What a byte buffer promises its clients: a first-in first-out stream.   *)
(* Byte number i of the stream is i; "written" bytes went in, the bytes    *)
(* before "consumed" have been passed by the reader, and "out" are the     *)
(* bytes handed to the reader by the last step.                            *)
(***************************************************************************)
EXTENDS Integers, Sequences

VARIABLES written, consumed, out

vars == <<written, consumed, out>>

Init ==
  /\ written = 0
  /\ consumed = 0
  /\ out = <<>>

Put ==
  /\ written' >= written
  /\ out' = <<>>
  /\ UNCHANGED consumed

(* The reader receives the next bytes of the stream, in order. *)
Take ==
  /\ consumed < consumed'
  /\ consumed' <= written
  /\ out' = [k \in 1 .. consumed' - consumed |-> consumed + k - 1]
  /\ UNCHANGED written

(* Skipping, or dropping everything that was written. *)
Skip ==
  /\ consumed <= consumed'
  /\ consumed' <= written
  /\ out' = <<>>
  /\ UNCHANGED written

(* Going back to bytes that are still stored. *)
Rewind ==
  /\ 0 <= consumed'
  /\ consumed' <= consumed
  /\ out' = <<>>
  /\ UNCHANGED written

Next == Put \/ Take \/ Skip \/ Rewind

Spec == Init /\ [][Next]_vars
=============================================================================
