----------------------------- MODULE MCByteBuffer -----------------------------
(* Model values for checking ByteBuffer. *)
EXTENDS ByteBuffer

(* The five functions are all called where they are exact. *)
AllOps == ContractOps
=============================================================================
