-------------------------- MODULE MCPacketDispatch --------------------------
(* Model values for checking PacketDispatch. *)
EXTENDS PacketDispatch, TLC

CONSTANTS r1, r2, main, next, far, f1, f2

SomeLists == {<<>>, <<1, 0>>}

(* Versions 0, 1, 2 and 3 in the ranges 0..1 and 2..3; 48 is no version. *)
SomeProtocolIDs == 0 :> 47 @@ 1 :> 49 @@ 2 :> 50 @@ 3 :> 52
SomeVersionMap == <<0, 2>>

(* Two handlers of the first block and one of the block behind it. *)
SomeClasses == main :> 0 @@ next :> 1 @@ far :> 2

Budget(register, construct, assign, callback, handler, packet) ==
  [register |-> register, construct |-> construct, assign |-> assign,
   callback |-> callback, handler |-> handler, packet |-> packet]

(* Registries, constructors, callback tables, handler lists, and a little  *)
(* of all.                                                                 *)
SomeBudgets == {Budget(2, 0, 1, 0, 0, 1), Budget(0, 0, 3, 0, 0, 0), Budget(1, 2, 1, 0, 0, 0),
                Budget(0, 0, 0, 3, 0, 0), Budget(0, 0, 1, 2, 2, 1), Budget(1, 0, 1, 1, 0, 1)}

SameRegistries == Permutations(Registries)
=============================================================================
