--------------------------- MODULE MCEpollEventLoop ---------------------------
(* Model values for checking EpollEventLoop. *)
EXTENDS EpollEventLoop, TLC

(* Connections whose sockets block are not exchanged with others. *)
Connections ==
  Permutations(Conns \ Blocking) \cup Permutations(Blocking) \cup Permutations(Fds)
=============================================================================
