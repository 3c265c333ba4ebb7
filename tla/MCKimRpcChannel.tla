--------------------------- MODULE MCKimRpcChannel ---------------------------
(* TLC instances of the client channel. *)
EXTENDS KimRpcChannelProps, TLC

(* Calls and hosts are interchangeable. *)
Symmetry == Permutations(Calls) \cup Permutations(Hosts)
=============================================================================
