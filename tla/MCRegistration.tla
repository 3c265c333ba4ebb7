--------------------------- MODULE MCRegistration ---------------------------
(* TLC instances of registration. *)
EXTENDS RegistrationProps, TLC

(* Providers and methods are interchangeable. *)
Symmetry == Permutations(Providers) \cup Permutations(Methods)
=============================================================================
