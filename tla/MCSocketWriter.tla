---------------------------- MODULE MCSocketWriter ----------------------------
(* Model values for checking SocketWriter. *)
EXTENDS SocketWriter
=============================================================================
