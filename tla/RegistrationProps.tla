-------------------------- MODULE RegistrationProps --------------------------
(***************************************************************************)
(* What registered providers may rely on.                                  *)
(***************************************************************************)
EXTENDS Registration

(* Every variable has a value of its kind; a key in etcd is attached to a  *)
(* lease that lives.                                                       *)
RegTypeOK ==
    /\ kv \in [Keys -> {0} \cup {l \in Leases : alive[l]}]
    /\ log \in Seq([type : {"Put", "Delete"}, keys : SUBSET Keys])
    /\ nLease \in 0 .. MaxLeases /\ alive \in [Leases -> BOOLEAN]
    /\ left \in [Leases -> Int]
    /\ kept \in [Leases -> {"new", "renewed", "failed", "failing"}]
    /\ prov \in [Providers -> {"off", "starting", "serving"}]
    /\ lease \in [Providers -> 0 .. MaxLeases] /\ todo \in [Providers -> SUBSET Methods]

(* A provider that serves and whose lease lives is listed, under that      *)
(* lease, for each of its methods, also when it restarted before the lease *)
(* of its earlier life ran out.                                            *)
ServingListed ==
    /\ RegTypeOK
    /\ \A p \in Providers :
         prov[p] = "serving" /\ alive[lease[p]] =>
            \A m \in Methods : kv[<<m, p>>] = lease[p]

(* A lease that was renewed does not run out as long as no keepalive      *)
(* request fails, however long each request and its answer take within     *)
(* httpPost's timeout: an interval and two requests fit into the lease     *)
(* ("keepalive every ttl/3").                                              *)
RenewedLeaseLives ==
    \A p \in Providers :
        prov[p] = "serving" /\ kept[lease[p]] = "renewed" => left[lease[p]] > 0

(* "Jitter: try again next period" would make up for one failed keepalive; *)
(* it does only when the failure and the answers around it are quick, and  *)
(* not when the request ran into its timeout (registration_timeout.cfg).   *)
OneFailureTolerated ==
    \A p \in Providers :
        prov[p] = "serving" /\ kept[lease[p]] \in {"renewed", "failed"} => left[lease[p]] > 0

-----------------------------------------------------------------------------
(***************************************************************************)
(* RegInv, the inductive invariant behind ServingListed; with TimeInv it   *)
(* also gives RenewedLeaseLives.                                           *)
(***************************************************************************)

(* A lease is granted to one process, and only that one puts keys under it. *)
LeaseInv ==
    /\ \A l \in Leases : l > nLease => ~alive[l] /\ kept[l] = "new"
    /\ \A p \in Providers :
         /\ lease[p] <= nLease /\ (prov[p] # "off" <=> lease[p] # 0)
         /\ \A q \in Providers \ {p} :
              lease[p] # 0 => /\ lease[p] # lease[q]
                              /\ \A m \in Methods : kv[<<m, q>>] # lease[p]

(* A process that registers has put the methods it has left behind. *)
StartInv ==
    \A p \in Providers :
        prov[p] = "starting" /\ alive[lease[p]] =>
            \A m \in Methods \ todo[p] : kv[<<m, p>>] = lease[p]

RegInv == ServingListed /\ LeaseInv /\ StartInv

(* Until its first keepalive a lease is new; a renewed one has lost at     *)
(* most the time its answer took.                                          *)
TimeInv ==
    /\ \A p \in Providers : prov[p] = "starting" => kept[lease[p]] = "new"
    /\ \A l \in Leases : kept[l] = "renewed" => left[l] >= TtlSec - HttpTimeout

(* The answer of one request, an interval, and the next request take less  *)
(* than the lease: 3 + 3 + 3 < 10 in the code.                             *)
TimelyEtcd == Interval + 2 * HttpTimeout < TtlSec

-----------------------------------------------------------------------------
(* "While the process lives, its keys live": a provider that serves and    *)
(* lost its registration gets it back (keepAliveLoop on TTL=0).            *)
Reregisters ==
    \A p \in Providers, m \in Methods :
        (prov[p] = "serving" /\ p \notin Listed(m))
            ~> (prov[p] # "serving" \/ p \in Listed(m))
=============================================================================
