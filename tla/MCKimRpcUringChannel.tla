------------------------- MODULE MCKimRpcUringChannel -------------------------
(* TLC instance of the io_uring client and of its users. *)
EXTENDS KimRpcUringChannelProps
=============================================================================
