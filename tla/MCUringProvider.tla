--------------------------- MODULE MCUringProvider ---------------------------
(* TLC instances of the io_uring provider. *)
EXTENDS UringProviderInv, TLC

(* Contexts, descriptors and workers are interchangeable. *)
Symmetry == Permutations(Contexts) \cup Permutations(Fds) \cup Permutations(Workers)
=============================================================================
