-------------------------- MODULE RegistrationProofs --------------------------
(***************************************************************************)
(* RegInv is inductive: a provider that serves is listed, for any number   *)
(* of methods, providers and leases.  And with the proportions of the code *)
(* between interval, timeout and TTL, a lease that was renewed lives while *)
(* keepalives are answered.                                                *)
(***************************************************************************)
EXTENDS RegistrationProps, TLAPS

(* Appending an element of S to a sequence over S. *)
LEMMA AppendType == ASSUME NEW S, NEW s \in Seq(S), NEW x \in S PROVE Append(s, x) \in Seq(S)
  OBVIOUS

(* The interval of keepAliveLoop is at least one second. *)
LEMMA IntervalType == Interval \in Nat /\ Interval >= 1
  BY RegistrationAssumption DEF Interval

(* The outcomes that kept tells apart. *)
Outcomes == {"new", "renewed", "failed", "failing"}

LEMMA FailureType == ASSUME NEW k \in Outcomes PROVE AfterFailure(k) \in Outcomes \ {"renewed"}
  BY DEF AfterFailure, Outcomes

(* The variables keep their types, and keys hang on leases that live. *)
LEMMA RegTypeStep ==
    ASSUME RegInv, [RegNext]_regVars PROVE RegTypeOK'
<1> USE RegistrationAssumption DEF RegInv, ServingListed, regVars, etcdVars, provVars
<1>1. ASSUME NEW p \in Providers, LeaseGrant(p) PROVE RegTypeOK'
  BY <1>1 DEF LeaseGrant, RegTypeOK, Keys, Leases, Seconds
<1>2. ASSUME NEW p \in Providers, NEW m \in Methods, Put(p, m) PROVE RegTypeOK'
  <2>1. lease[p] \in Leases /\ <<m, p>> \in Keys
    BY <1>2 DEF Put, RegTypeOK, LeaseInv, Leases, Keys
  <2>2. kv' \in [Keys -> {0} \cup {l \in Leases : alive'[l]}]
    BY <1>2, <2>1 DEF Put, RegTypeOK
  <2>3. log' \in Seq([type : {"Put", "Delete"}, keys : SUBSET Keys])
    BY <1>2, <2>1 DEF Put, RegTypeOK
  <2>4. left' \in [Leases -> Int]
    BY <1>2, <2>1 DEF Put, RegTypeOK, Seconds
  <2> QED BY <1>2, <2>2, <2>3, <2>4 DEF Put, RegTypeOK
<1>3. ASSUME NEW p \in Providers, StartKeepAlive(p) PROVE RegTypeOK'
  BY <1>3 DEF StartKeepAlive, RegTypeOK, Keys, Leases
<1>4. ASSUME NEW p \in Providers, ProviderEnds(p) PROVE RegTypeOK'
  <2> lease[p] \in Leases
    BY <1>4 DEF ProviderEnds, RegTypeOK, LeaseInv, Leases
  <2> QED BY <1>4 DEF ProviderEnds, Forsaken, RegTypeOK
<1>5. ASSUME NEW p \in Providers, KeepAliveRenews(p) PROVE RegTypeOK'
  <2> lease[p] \in Leases
    BY <1>5 DEF KeepAliveRenews, RegTypeOK, LeaseInv, Leases
  <2> PICK d \in Seconds : left' = [left EXCEPT ![lease[p]] = TtlSec - d]
    BY <1>5 DEF KeepAliveRenews
  <2>1. left' \in [Leases -> Int]
    BY DEF RegTypeOK, Seconds
  <2> QED BY <1>5, <2>1 DEF KeepAliveRenews, RegTypeOK
<1>6. ASSUME NEW p \in Providers, KeepAliveFails(p) PROVE RegTypeOK'
  <2> lease[p] \in Leases
    BY <1>6 DEF KeepAliveFails, RegTypeOK, LeaseInv, Leases
  <2> PICK d \in Seconds, there \in {left[lease[p]] - Interval, TtlSec} :
         left' = [left EXCEPT ![lease[p]] = there - d]
    BY <1>6 DEF KeepAliveFails
  <2>1. left' \in [Leases -> Int]
    BY IntervalType DEF RegTypeOK, Seconds
  <2>2. kept' \in [Leases -> Outcomes]
    BY <1>6, FailureType DEF KeepAliveFails, RegTypeOK, Outcomes
  <2> QED BY <1>6, <2>1, <2>2 DEF KeepAliveFails, RegTypeOK, Outcomes
<1>10. ASSUME NEW p \in Providers, KeepAliveLate(p) PROVE RegTypeOK'
  <2> lease[p] \in Leases
    BY <1>10 DEF KeepAliveLate, RegTypeOK, LeaseInv, Leases
  <2> PICK d \in Seconds : left' = [left EXCEPT ![lease[p]] = @ - Interval - d]
    BY <1>10 DEF KeepAliveLate
  <2>1. left' \in [Leases -> Int]
    BY IntervalType DEF RegTypeOK, Seconds
  <2> QED BY <1>10, <2>1 DEF KeepAliveLate, RegTypeOK
<1>7. ASSUME NEW p \in Providers, KeepAliveExpired(p) PROVE RegTypeOK'
  BY <1>7 DEF KeepAliveExpired, RegTypeOK, Keys, Leases
<1>8. ASSUME NEW l \in Leases, Expire(l) PROVE RegTypeOK'
  <2> DEFINE keys == {k \in Keys : kv[k] = l}
  <2>1. kv' \in [Keys -> {0} \cup {j \in Leases : alive'[j]}]
    BY <1>8 DEF Expire, RegTypeOK
  <2>2. log' \in Seq([type : {"Put", "Delete"}, keys : SUBSET Keys])
    <3> DEFINE E == [type : {"Put", "Delete"}, keys : SUBSET Keys]
               e == [type |-> "Delete", keys |-> keys]
    <3>1. e \in E /\ log \in Seq(E) /\ (log' = log \/ log' = Append(log, e))
      BY <1>8 DEF Expire, RegTypeOK
    <3> HIDE DEF E, e
    <3>2. log' \in Seq(E)
      BY <3>1, AppendType
    <3> QED BY <3>2 DEF E
  <2> QED BY <1>8, <2>1, <2>2 DEF Expire, Forsaken, RegTypeOK
<1>9. CASE UNCHANGED regVars
  BY <1>9 DEF RegTypeOK, Keys, Leases
<1> QED
  BY <1>1, <1>2, <1>3, <1>4, <1>5, <1>6, <1>7, <1>8, <1>9, <1>10 DEF RegNext,
     Provider, KeepAlive

(* The part of ServingListed that is not typing. *)
AllListed ==
    \A p \in Providers :
        prov[p] = "serving" /\ alive[lease[p]] =>
            \A m \in Methods : kv[<<m, p>>] = lease[p]

(* Serving providers stay listed. *)
LEMMA ListedStep ==
    ASSUME RegInv, [RegNext]_regVars PROVE AllListed'
<1> USE RegistrationAssumption DEF RegInv, ServingListed, regVars, etcdVars, provVars
<1>1. ASSUME NEW p \in Providers, LeaseGrant(p) PROVE AllListed'
  BY <1>1 DEF LeaseGrant, AllListed, RegTypeOK, Keys, Leases, LeaseInv,
     StartInv
<1>2. ASSUME NEW p \in Providers, NEW m \in Methods, Put(p, m) PROVE AllListed'
  BY <1>2 DEF Put, AllListed, RegTypeOK, Keys, Leases, LeaseInv, StartInv
<1>3. ASSUME NEW p \in Providers, StartKeepAlive(p) PROVE AllListed'
  BY <1>3 DEF StartKeepAlive, AllListed, RegTypeOK, Keys, Leases, LeaseInv,
     StartInv
<1>4. ASSUME NEW p \in Providers, ProviderEnds(p) PROVE AllListed'
  BY <1>4 DEF ProviderEnds, Forsaken, AllListed, RegTypeOK, Keys, Leases, LeaseInv,
     StartInv
<1>5. ASSUME NEW p \in Providers, KeepAliveRenews(p) PROVE AllListed'
  BY <1>5 DEF KeepAliveRenews, AllListed, RegTypeOK, Keys, Leases, LeaseInv,
     StartInv
<1>6. ASSUME NEW p \in Providers, KeepAliveFails(p) PROVE AllListed'
  BY <1>6 DEF KeepAliveFails, AllListed, RegTypeOK, Keys, Leases, LeaseInv,
     StartInv
<1>10. ASSUME NEW p \in Providers, KeepAliveLate(p) PROVE AllListed'
  BY <1>10 DEF KeepAliveLate, AllListed, RegTypeOK, Keys, Leases, LeaseInv,
     StartInv
<1>7. ASSUME NEW p \in Providers, KeepAliveExpired(p) PROVE AllListed'
  BY <1>7 DEF KeepAliveExpired, AllListed, RegTypeOK, Keys, Leases, LeaseInv,
     StartInv
<1>8. ASSUME NEW l \in Leases, Expire(l) PROVE AllListed'
  BY <1>8 DEF Expire, Forsaken, AllListed, RegTypeOK, Keys, Leases, LeaseInv, StartInv
<1>9. CASE UNCHANGED regVars
  BY <1>9 DEF AllListed, RegTypeOK, Keys, Leases
<1> QED
  BY <1>1, <1>2, <1>3, <1>4, <1>5, <1>6, <1>7, <1>8, <1>9, <1>10 DEF RegNext,
     Provider, KeepAlive

(* A lease has one owner. *)
LEMMA LeaseStep ==
    ASSUME RegInv, [RegNext]_regVars PROVE LeaseInv'
<1> USE RegistrationAssumption DEF RegInv, ServingListed, regVars, etcdVars, provVars
<1>1. ASSUME NEW p \in Providers, LeaseGrant(p) PROVE LeaseInv'
  BY <1>1 DEF LeaseGrant, LeaseInv, RegTypeOK, Keys, Leases
<1>2. ASSUME NEW p \in Providers, NEW m \in Methods, Put(p, m) PROVE LeaseInv'
  BY <1>2 DEF Put, LeaseInv, RegTypeOK, Keys, Leases
<1>3. ASSUME NEW p \in Providers, StartKeepAlive(p) PROVE LeaseInv'
  BY <1>3 DEF StartKeepAlive, LeaseInv, RegTypeOK, Keys, Leases
<1>4. ASSUME NEW p \in Providers, ProviderEnds(p) PROVE LeaseInv'
  BY <1>4 DEF ProviderEnds, Forsaken, LeaseInv, RegTypeOK, Keys, Leases
<1>5. ASSUME NEW p \in Providers, KeepAliveRenews(p) PROVE LeaseInv'
  BY <1>5 DEF KeepAliveRenews, LeaseInv, RegTypeOK, Keys, Leases
<1>6. ASSUME NEW p \in Providers, KeepAliveFails(p) PROVE LeaseInv'
  BY <1>6 DEF KeepAliveFails, LeaseInv, RegTypeOK, Keys, Leases
<1>10. ASSUME NEW p \in Providers, KeepAliveLate(p) PROVE LeaseInv'
  BY <1>10 DEF KeepAliveLate, LeaseInv, RegTypeOK, Keys, Leases
<1>7. ASSUME NEW p \in Providers, KeepAliveExpired(p) PROVE LeaseInv'
  BY <1>7 DEF KeepAliveExpired, LeaseInv, RegTypeOK, Keys, Leases
<1>8. ASSUME NEW l \in Leases, Expire(l) PROVE LeaseInv'
  BY <1>8 DEF Expire, Forsaken, LeaseInv, RegTypeOK, Keys, Leases
<1>9. CASE UNCHANGED regVars
  BY <1>9 DEF LeaseInv, RegTypeOK, Keys, Leases
<1> QED
  BY <1>1, <1>2, <1>3, <1>4, <1>5, <1>6, <1>7, <1>8, <1>9, <1>10 DEF RegNext,
     Provider, KeepAlive

(* A provider that starts has put what it no longer has to put. *)
LEMMA StartStep ==
    ASSUME RegInv, [RegNext]_regVars PROVE StartInv'
<1> USE RegistrationAssumption DEF RegInv, ServingListed, regVars, etcdVars, provVars
<1>1. ASSUME NEW p \in Providers, LeaseGrant(p) PROVE StartInv'
  BY <1>1 DEF LeaseGrant, StartInv, RegTypeOK, Keys, Leases, LeaseInv
<1>2. ASSUME NEW p \in Providers, NEW m \in Methods, Put(p, m) PROVE StartInv'
  BY SMTT(30), <1>2 DEF Put, StartInv, RegTypeOK, Keys, Leases, LeaseInv
<1>3. ASSUME NEW p \in Providers, StartKeepAlive(p) PROVE StartInv'
  BY <1>3 DEF StartKeepAlive, StartInv, RegTypeOK, Keys, Leases, LeaseInv
<1>4. ASSUME NEW p \in Providers, ProviderEnds(p) PROVE StartInv'
  BY <1>4 DEF ProviderEnds, Forsaken, StartInv, RegTypeOK, Keys, Leases, LeaseInv
<1>5. ASSUME NEW p \in Providers, KeepAliveRenews(p) PROVE StartInv'
  BY <1>5 DEF KeepAliveRenews, StartInv, RegTypeOK, Keys, Leases, LeaseInv
<1>6. ASSUME NEW p \in Providers, KeepAliveFails(p) PROVE StartInv'
  BY <1>6 DEF KeepAliveFails, StartInv, RegTypeOK, Keys, Leases, LeaseInv
<1>10. ASSUME NEW p \in Providers, KeepAliveLate(p) PROVE StartInv'
  BY <1>10 DEF KeepAliveLate, StartInv, RegTypeOK, Keys, Leases, LeaseInv
<1>7. ASSUME NEW p \in Providers, KeepAliveExpired(p) PROVE StartInv'
  BY <1>7 DEF KeepAliveExpired, StartInv, RegTypeOK, Keys, Leases, LeaseInv
<1>8. ASSUME NEW l \in Leases, Expire(l) PROVE StartInv'
  BY <1>8 DEF Expire, Forsaken, StartInv, RegTypeOK, Keys, Leases, LeaseInv
<1>9. CASE UNCHANGED regVars
  BY <1>9 DEF StartInv, RegTypeOK, Keys, Leases
<1> QED
  BY <1>1, <1>2, <1>3, <1>4, <1>5, <1>6, <1>7, <1>8, <1>9, <1>10 DEF RegNext,
     Provider, KeepAlive

(* etcd empty and no provider running satisfies the invariant. *)
LEMMA RegInitOK == RegInit => RegInv
  BY RegistrationAssumption DEF RegInit, RegInv, ServingListed, RegTypeOK, LeaseInv, StartInv, Leases, Keys

(* Every step of providers and etcd keeps the invariant. *)
LEMMA RegStep == RegInv /\ [RegNext]_regVars => RegInv'
  BY RegTypeStep, ListedStep, LeaseStep, StartStep DEF RegInv, ServingListed, AllListed

(* A provider that serves and whose lease lives is listed under it for     *)
(* each of its methods, whatever its earlier lives left behind.            *)
THEOREM ServingIsListed == RegSpec => []ServingListed
<1>1. RegInv => ServingListed
  BY DEF RegInv
<1> QED BY <1>1, RegInitOK, RegStep, PTL DEF RegSpec

-----------------------------------------------------------------------------
(* The time a lease has left. *)

(* Only an answered keepalive makes a lease a renewed one, and no other    *)
(* step takes time from it.                                                *)
LEMMA TimeStep ==
    ASSUME RegInv, TimeInv, TimelyEtcd, [RegNext]_regVars PROVE TimeInv'
<1> USE RegistrationAssumption DEF RegInv, ServingListed, regVars, etcdVars, provVars
<1>1. ASSUME NEW p \in Providers, LeaseGrant(p) PROVE TimeInv'
  BY <1>1 DEF LeaseGrant, TimeInv, RegTypeOK, LeaseInv, Leases
<1>2. ASSUME NEW p \in Providers, NEW m \in Methods, Put(p, m) PROVE TimeInv'
  BY <1>2 DEF Put, TimeInv, RegTypeOK, LeaseInv, Leases
<1>3. ASSUME NEW p \in Providers, StartKeepAlive(p) PROVE TimeInv'
  BY <1>3 DEF StartKeepAlive, TimeInv, RegTypeOK
<1>4. ASSUME NEW p \in Providers, ProviderEnds(p) PROVE TimeInv'
  BY <1>4 DEF ProviderEnds, Forsaken, TimeInv, RegTypeOK, LeaseInv, Leases
<1>5. ASSUME NEW p \in Providers, KeepAliveRenews(p) PROVE TimeInv'
  <2>1. lease[p] \in Leases /\ prov[p] = "serving" /\ UNCHANGED <<prov, lease>>
    BY <1>5 DEF KeepAliveRenews, RegTypeOK, LeaseInv, Leases
  <2>2. PICK d \in Seconds : left' = [left EXCEPT ![lease[p]] = TtlSec - d]
    BY <1>5 DEF KeepAliveRenews
  <2>3. ASSUME NEW l \in Leases, kept'[l] = "renewed" PROVE left'[l] >= TtlSec - HttpTimeout
    BY <1>5, <2>1, <2>2, <2>3 DEF KeepAliveRenews, TimeInv, RegTypeOK, Seconds
  <2>4. ASSUME NEW q \in Providers, prov'[q] = "starting" PROVE kept'[lease'[q]] = "new"
    <3>1. lease[q] \in Leases /\ lease[q] # lease[p] /\ kept[lease[q]] = "new"
      BY <2>1, <2>4 DEF TimeInv, RegTypeOK, LeaseInv, Leases
    <3>2. kept' = [kept EXCEPT ![lease[p]] = "renewed"]
      BY <1>5 DEF KeepAliveRenews
    <3> QED BY <2>1, <3>1, <3>2 DEF RegTypeOK
  <2> QED BY <2>3, <2>4 DEF TimeInv
<1>6. ASSUME NEW p \in Providers, KeepAliveFails(p) PROVE TimeInv'
  <2>1. lease[p] \in Leases /\ prov[p] = "serving" /\ UNCHANGED <<prov, lease>>
    BY <1>6 DEF KeepAliveFails, RegTypeOK, LeaseInv, Leases
  <2>2. \A l \in Leases \ {lease[p]} : left'[l] = left[l] /\ kept'[l] = kept[l]
    BY <1>6 DEF KeepAliveFails, RegTypeOK
  <2>3. kept'[lease[p]] # "renewed"
    BY <1>6, <2>1, FailureType DEF KeepAliveFails, RegTypeOK, Outcomes
  <2>4. ASSUME NEW q \in Providers, prov'[q] = "starting" PROVE kept'[lease'[q]] = "new"
    <3>1. lease[q] \in Leases /\ lease[q] # lease[p] /\ kept[lease[q]] = "new"
      BY <2>1, <2>4 DEF TimeInv, RegTypeOK, LeaseInv, Leases
    <3> QED BY <2>1, <2>2, <3>1
  <2> QED BY <2>2, <2>3, <2>4 DEF TimeInv
<1>7. ASSUME NEW p \in Providers, KeepAliveLate(p) PROVE TimeInv'
  <2>1. lease[p] \in Leases /\ UNCHANGED <<prov, lease, kept>>
    BY <1>7 DEF KeepAliveLate, RegTypeOK, LeaseInv, Leases
  <2>2. PICK d \in Seconds : /\ left[lease[p]] <= Interval + d
                             /\ left' = [left EXCEPT ![lease[p]] = @ - Interval - d]
    BY <1>7 DEF KeepAliveLate
  <2>3. kept[lease[p]] # "renewed"
    BY <2>1, <2>2, IntervalType DEF TimeInv, TimelyEtcd, RegTypeOK, Seconds
  <2> QED BY <2>1, <2>2, <2>3 DEF TimeInv, RegTypeOK
<1>8. ASSUME NEW p \in Providers, KeepAliveExpired(p) PROVE TimeInv'
  BY <1>8 DEF KeepAliveExpired, TimeInv
<1>9. ASSUME NEW l \in Leases, Expire(l) PROVE TimeInv'
  BY <1>9 DEF Expire, Forsaken, TimeInv, RegTypeOK, LeaseInv, Leases
<1>10. CASE UNCHANGED regVars
  BY <1>10 DEF TimeInv
<1> QED
  BY <1>1, <1>2, <1>3, <1>4, <1>5, <1>6, <1>7, <1>8, <1>9, <1>10 DEF RegNext,
     Provider, KeepAlive

(* When an interval and two requests up to httpPost's timeout fit into the *)
(* TTL, as 3 + 2 * 3 seconds do into 10, a provider loses a lease that was *)
(* renewed only after a keepalive request failed.                          *)
THEOREM RenewedLives ==
    ASSUME TimelyEtcd PROVE RegSpec => []RenewedLeaseLives
<1>1. RegInit => TimeInv
  BY DEF RegInit, TimeInv
<1>2. RegInv /\ TimeInv /\ [RegNext]_regVars => TimeInv'
  BY TimeStep
<1>3. RegInv /\ TimeInv => RenewedLeaseLives
  <2> SUFFICES ASSUME RegInv, TimeInv, NEW p \in Providers,
                      prov[p] = "serving", kept[lease[p]] = "renewed"
               PROVE  left[lease[p]] > 0
    BY DEF RenewedLeaseLives
  <2>1. lease[p] \in Leases /\ left[lease[p]] \in Int
    BY RegistrationAssumption DEF RegInv, ServingListed, RegTypeOK, LeaseInv, Leases
  <2> QED BY <2>1, IntervalType, RegistrationAssumption DEF TimeInv, TimelyEtcd
<1> QED BY <1>1, <1>2, <1>3, RegInitOK, RegStep, PTL DEF RegSpec
=============================================================================
