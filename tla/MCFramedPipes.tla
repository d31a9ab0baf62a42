---------------------------- MODULE MCFramedPipes ----------------------------
(* Model values for checking FramedPipes. *)
EXTENDS FramedPipes

(* An empty frame, and two bodies that look like prefixes; the prefix of   *)
(* the longer one takes two bytes, that of its outer frame three.          *)
SomePackets == {<<>>, <<1>>, <<3, 3, 1>>}
=============================================================================
