------------------------------- MODULE MCServer -------------------------------
(* Model values for checking Server. *)
EXTENDS Server

Calls(e, d, q, o, t, b, n, z, c, v, a) ==
  [execute |-> e, delay |-> d, repeat |-> q, remote |-> o, tick |-> t, bind |-> b,
   connect |-> n, other |-> z, client |-> c, event |-> v, abort |-> a]

(* Tasks alone; tasks that execute themselves again; delays across the end  *)
(* of the clock; the two sources of connections; a task and the sockets of  *)
(* a connector and of a client.                                             *)
CallBudgets ==
  {Calls(2, 1, 0, 1, 1, 0, 0, 0, 0, 0, 0),
   Calls(1, 1, 1, 0, 1, 0, 0, 0, 0, 0, 0),
   Calls(0, 2, 0, 0, 5, 0, 0, 0, 0, 0, 0),
   Calls(0, 0, 0, 0, 0, 2, 1, 1, 3, 1, 1),
   Calls(1, 1, 0, 0, 1, 0, 1, 0, 0, 2, 0),
   Calls(1, 0, 0, 0, 0, 1, 0, 0, 1, 1, 0)}
=============================================================================
