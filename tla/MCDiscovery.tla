----------------------------- MODULE MCDiscovery -----------------------------
(* TLC instances of registration and discovery. *)
EXTENDS DiscoveryProps, EtcdGateway, TLC

(* Providers and methods are interchangeable. *)
Symmetry == Permutations(Providers) \cup Permutations(Methods)

(* Erased is the selection of the other addresses. *)
ASSUME ErasedSelects ==
    \A vec \in UNION {[1 .. n -> Providers] : n \in 0 .. 4}, addr \in Providers :
        Erased(vec, addr) = SelectSeq(vec, LAMBDA a : a # addr)
=============================================================================
