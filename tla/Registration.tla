---------------------------- MODULE Registration ----------------------------
(***************************************************************************)
(* Registration of providers in etcd: they put one key per method under a  *)
(* lease and keep the lease alive (registerServiceToEtcd in                *)
(* src/src/uringrpcprovider.cc, Run in src/src/provider.cc, and            *)
(* src/src/etcdclient.cc).                                                 *)
(*                                                                         *)
(* The key "/service/method/ip:port" is the pair <<method, provider>>.     *)
(* etcd is external: its history is log, whose index is the revision.  A   *)
(* put is one revision, and so is the expiry of a lease, which deletes all *)
(* keys attached to it.  Any request may fail.                             *)
(*                                                                         *)
(* Time passes only where the code waits: an interval of keepAliveLoop and *)
(* the whole seconds a request takes, which httpPost bounds whether the    *)
(* request is answered or fails.                                          *)
(***************************************************************************)
EXTENDS Integers, Sequences, FiniteSets

CONSTANTS
    Methods,     \* method paths
    Providers,   \* provider addresses, "ip:port"
    TtlSec,      \* kLeaseTtl
    HttpTimeout, \* seconds after which httpPost gives up (timeoutMs)
    MaxLeases    \* bound: leases granted in one behaviour

ASSUME RegistrationAssumption ==
    /\ IsFiniteSet(Methods) /\ IsFiniteSet(Providers)
    /\ TtlSec \in Nat \ {0} /\ HttpTimeout \in Nat /\ MaxLeases \in Nat

Leases == 1 .. MaxLeases
Keys == Methods \X Providers
Seconds == 0 .. HttpTimeout

VARIABLES
    kv,            \* kv[key] = the lease it is attached to, 0 if there is none
    log,           \* the events of each revision: [type, keys]
    nLease, alive, \* leases granted, and whether each one lives
    left,          \* left[l] = seconds until lease l expires
    prov,          \* where Run is
    lease,         \* the lease the process works with
    todo,          \* methods still to be put
    kept           \* kept[l] = how the keepalive rounds of lease l went

etcdVars == <<kv, log, nLease, alive, left>>
provVars == <<prov, lease, todo, kept>>
regVars  == <<etcdVars, provVars>>

RegInit ==
    /\ kv = [k \in Keys |-> 0] /\ log = << >>
    /\ nLease = 0 /\ alive = [l \in Leases |-> FALSE] /\ left = [l \in Leases |-> 0]
    /\ prov = [p \in Providers |-> "off"] /\ lease = [p \in Providers |-> 0]
    /\ todo = [p \in Providers |-> {}] /\ kept = [l \in Leases |-> "new"]

-----------------------------------------------------------------------------
(* The provider: registerServiceToEtcd, keepAliveLoop. *)

(* Start and LeaseGrant succeed (a process whose requests fail just exits). *)
(* The two-second lease of Start's probe holds no key and is left out.      *)
LeaseGrant(p) ==
    /\ prov[p] = "off" /\ nLease < MaxLeases
    /\ nLease' = nLease + 1
    /\ alive' = [alive EXCEPT ![nLease + 1] = TRUE]
    /\ \E d \in Seconds : left' = [left EXCEPT ![nLease + 1] = TtlSec - d]
    /\ prov' = [prov EXCEPT ![p] = "starting"]
    /\ lease' = [lease EXCEPT ![p] = nLease + 1]
    /\ todo' = [todo EXCEPT ![p] = Methods]
    /\ UNCHANGED <<kv, log, kept>>

(* Mutant: the key is not bound to the lease. *)
Put_NoLease(p, m) ==
    /\ prov[p] = "starting" /\ m \in todo[p] /\ alive[lease[p]]
    /\ kv' = [kv EXCEPT ![<<m, p>>] = MaxLeases + 1]
    /\ log' = Append(log, [type |-> "Put", keys |-> {<<m, p>>}])
    /\ todo' = [todo EXCEPT ![p] = @ \ {m}]
    /\ UNCHANGED <<nLease, alive, left, prov, lease, kept>>

(* Put of one instance key; an expired lease is an error of etcd. *)
Put(p, m) ==
    /\ prov[p] = "starting" /\ m \in todo[p] /\ alive[lease[p]]
    /\ kv' = [kv EXCEPT ![<<m, p>>] = lease[p]]
    /\ log' = Append(log, [type |-> "Put", keys |-> {<<m, p>>}])
    /\ todo' = [todo EXCEPT ![p] = @ \ {m}]
    /\ \E d \in Seconds : left' = [left EXCEPT ![lease[p]] = @ - d]
    /\ UNCHANGED <<nLease, alive, prov, lease, kept>>

(* Mutant: a Put that failed is passed over. *)
StartKeepAlive_Early(p) ==
    /\ prov[p] = "starting"
    /\ prov' = [prov EXCEPT ![p] = "serving"]
    /\ UNCHANGED <<etcdVars, lease, todo, kept>>

(* All keys are there: StartKeepAlive, then the event loop. *)
StartKeepAlive(p) ==
    /\ prov[p] = "starting" /\ todo[p] = {}
    /\ prov' = [prov EXCEPT ![p] = "serving"]
    /\ UNCHANGED <<etcdVars, lease, todo, kept>>

(* Nobody will renew lease l any more, so that it may run out at any time. *)
Forsaken(l) ==
    /\ left' = [left EXCEPT ![l] = 0]
    /\ kept' = [kept EXCEPT ![l] = "new"]

(* A crash, or exit(EXIT_FAILURE) because a Put failed. *)
ProviderEnds(p) ==
    /\ prov[p] # "off"
    /\ prov' = [prov EXCEPT ![p] = "off"]
    /\ lease' = [lease EXCEPT ![p] = 0]
    /\ Forsaken(lease[p])
    /\ UNCHANGED <<kv, log, nLease, alive, todo>>

(* Mutant: half the TTL instead of a third. *)
Interval_Half == IF TtlSec \div 2 < 1 THEN 1 ELSE TtlSec \div 2

Interval == IF TtlSec \div 3 < 1 THEN 1 ELSE TtlSec \div 3

(* What etcd lists for a method. *)
Listed(m) == {p \in Providers : kv[<<m, p>>] # 0}

(* What is known of a lease after one more request that got no answer. *)
AfterFailure(k) ==
    [new |-> "new", renewed |-> "failed", failed |-> "failing", failing |-> "failing"][k]

(* One round: the interval, then a request that renews the lease. *)
KeepAliveRenews(p) ==
    LET l == lease[p] IN
    /\ prov[p] = "serving" /\ alive[l] /\ left[l] > Interval
    /\ \E d \in Seconds : left' = [left EXCEPT ![l] = TtlSec - d]
    /\ kept' = [kept EXCEPT ![l] = "renewed"]
    /\ UNCHANGED <<kv, log, nLease, alive, prov, lease, todo>>

(* One round without an answer: the next period tries again.  The request *)
(* or only its answer was lost.                                           *)
KeepAliveFails(p) ==
    LET l == lease[p] IN
    /\ prov[p] = "serving" /\ alive[l] /\ left[l] > Interval
    /\ \E d \in Seconds, there \in {left[l] - Interval, TtlSec} :
         left' = [left EXCEPT ![l] = there - d]
    /\ kept' = [kept EXCEPT ![l] = AfterFailure(@)]
    /\ UNCHANGED <<kv, log, nLease, alive, prov, lease, todo>>

(* One round in which the time is up before the request is there. *)
KeepAliveLate(p) ==
    LET l == lease[p] IN
    /\ prov[p] = "serving" /\ alive[l] /\ left[l] > 0
    /\ \E d \in Seconds :
         /\ left[l] <= Interval + d
         /\ left' = [left EXCEPT ![l] = @ - Interval - d]
    /\ UNCHANGED <<kv, log, nLease, alive, prov, lease, todo, kept>>

(* One round on a lease that is gone: TTL=0 is logged, nothing else. *)
KeepAliveExpired(p) ==
    /\ prov[p] = "serving" /\ (~alive[lease[p]] \/ left[lease[p]] <= 0)
    /\ UNCHANGED regVars

(* etcd: the time of a lease is up. *)
Expire(l) ==
    LET keys == {k \in Keys : kv[k] = l} IN
    /\ alive[l] /\ left[l] <= 0
    /\ alive' = [alive EXCEPT ![l] = FALSE]
    /\ kv' = [k \in Keys |-> IF k \in keys THEN 0 ELSE kv[k]]
    /\ log' = IF keys = {} THEN log ELSE Append(log, [type |-> "Delete", keys |-> keys])
    /\ Forsaken(l)
    /\ UNCHANGED <<nLease, prov, lease, todo>>

-----------------------------------------------------------------------------
KeepAlive(p) ==
    KeepAliveRenews(p) \/ KeepAliveFails(p) \/ KeepAliveLate(p) \/ KeepAliveExpired(p)

Provider(p) ==
    \/ LeaseGrant(p) \/ StartKeepAlive(p) \/ ProviderEnds(p)
    \/ \E m \in Methods : Put(p, m)
    \/ KeepAlive(p)

RegNext == (\E p \in Providers : Provider(p)) \/ \E l \in Leases : Expire(l)

RegSpec == RegInit /\ [][RegNext]_regVars

(***************************************************************************)
(* Fairness: etcd expires leases, and the threads of a provider that has   *)
(* begun to register go on unless it exits.  No request need succeed.      *)
(***************************************************************************)
RegFairness ==
    /\ \A l \in Leases : WF_regVars(Expire(l))
    /\ \A p \in Providers :
         /\ WF_regVars(StartKeepAlive(p) \/ \E m \in Methods : Put(p, m))
         /\ WF_regVars(KeepAlive(p))

RegFairSpec == RegSpec /\ RegFairness
=============================================================================
