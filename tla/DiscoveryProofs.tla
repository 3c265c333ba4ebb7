--------------------------- MODULE DiscoveryProofs ---------------------------
(***************************************************************************)
(* DiscoveryInv is inductive: a client's list of instances is what etcd    *)
(* held at the revision its watch has reached, for any number of methods,  *)
(* providers, leases, reconnects and compactions.                          *)
(***************************************************************************)
EXTENDS DiscoveryProps, RegistrationProofs, FiniteSetTheorems, SequenceTheorems

(* ListedAt in a history lg. *)
ListedIn(lg, m, r) ==
    {p \in Providers :
        \E i \in 1 .. r :
            /\ lg[i].type = "Put" /\ <<m, p>> \in lg[i].keys
            /\ \A j \in i + 1 .. r : <<m, p>> \notin lg[j].keys}

Event == [type : {"Put", "Delete"}, keys : SUBSET Keys]

-----------------------------------------------------------------------------
(* The history of etcd. *)

(* A revision lists whom it puts, and of whom it does not touch the ones *)
(* listed before.                                                        *)
LEMMA ListedNext ==
    ASSUME NEW lg, NEW m, NEW r \in Nat, NEW p \in Providers
    PROVE  p \in ListedIn(lg, m, r + 1) <=>
             IF <<m, p>> \in lg[r + 1].keys THEN lg[r + 1].type = "Put"
                                            ELSE p \in ListedIn(lg, m, r)
<1> DEFINE In(i) == lg[i].type = "Put" /\ <<m, p>> \in lg[i].keys
           Out(j) == <<m, p>> \notin lg[j].keys
<1>1. p \in ListedIn(lg, m, r + 1) <=>
        \E i \in 1 .. r + 1 : In(i) /\ \A j \in i + 1 .. r + 1 : Out(j)
  BY DEF ListedIn
<1>2. p \in ListedIn(lg, m, r) <=> \E i \in 1 .. r : In(i) /\ \A j \in i + 1 .. r : Out(j)
  BY DEF ListedIn
<1>3. CASE <<m, p>> \in lg[r + 1].keys
  <2>1. ~Out(r + 1) /\ (In(r + 1) <=> lg[r + 1].type = "Put")
    BY <1>3
  <2> HIDE DEF In, Out
  <2>2. ASSUME NEW i \in 1 .. r + 1, \A j \in i + 1 .. r + 1 : Out(j) PROVE i = r + 1
    BY <2>1, <2>2
  <2>3. \A j \in (r + 1) + 1 .. r + 1 : Out(j)
    OBVIOUS
  <2>4. r + 1 \in 1 .. r + 1
    OBVIOUS
  <2> QED BY <1>1, <1>3, <2>1, <2>2, <2>3, <2>4
<1>4. CASE <<m, p>> \notin lg[r + 1].keys
  <2>1. Out(r + 1) /\ ~In(r + 1)
    BY <1>4
  <2> HIDE DEF In, Out
  <2>2. ASSUME NEW i \in 1 .. r
        PROVE  (\A j \in i + 1 .. r + 1 : Out(j)) <=> (\A j \in i + 1 .. r : Out(j))
    BY <2>1
  <2>3. 1 .. r + 1 = (1 .. r) \cup {r + 1}
    OBVIOUS
  <2> QED BY <1>1, <1>2, <1>4, <2>1, <2>2, <2>3
<1> QED BY <1>3, <1>4

(* What was listed at a revision does not depend on later ones. *)
LEMMA ListedPrefix ==
    ASSUME NEW lg \in Seq(Event), NEW e \in Event, NEW m, NEW r \in 0 .. Len(lg)
    PROVE  ListedIn(Append(lg, e), m, r) = ListedIn(lg, m, r)
<1> DEFINE L == Append(lg, e)
<1>1. \A i \in 1 .. r : L[i] = lg[i]
  OBVIOUS
<1>2. r \in Int /\ \A i \in 1 .. r : \A j \in i + 1 .. r : j \in 1 .. r
  OBVIOUS
<1> HIDE DEF L
<1>3. ASSUME NEW p \in Providers, NEW i \in 1 .. r
      PROVE  (/\ L[i].type = "Put" /\ <<m, p>> \in L[i].keys
              /\ \A j \in i + 1 .. r : <<m, p>> \notin L[j].keys)
         <=> (/\ lg[i].type = "Put" /\ <<m, p>> \in lg[i].keys
              /\ \A j \in i + 1 .. r : <<m, p>> \notin lg[j].keys)
  BY <1>1, <1>2
<1> QED BY <1>3 DEF ListedIn, L

(* At the first revision of all nobody is listed. *)
LEMMA ListedNone == ASSUME NEW lg, NEW m PROVE ListedIn(lg, m, 0) = {}
  BY DEF ListedIn

(* What a step of providers or etcd does to the log. *)
LEMMA LogGrows ==
    ASSUME RegInv, [RegNext]_regVars
    PROVE  /\ log \in Seq(Event)
           /\ \/ UNCHANGED <<log, kv>>
              \/ \E e \in Event :
                   /\ log' = Append(log, e)
                   /\ \A m \in Methods, p \in Providers :
                        IF <<m, p>> \in e.keys
                        THEN kv'[<<m, p>>] # 0 <=> e.type = "Put"
                        ELSE kv'[<<m, p>>] = kv[<<m, p>>]
                   /\ \/ \E k \in Keys : e.keys = {k}
                      \/ \E l \in Leases : e.keys = {k \in Keys : kv[k] = l}
<1> USE RegistrationAssumption DEF RegInv, ServingListed
<1>1. log \in Seq(Event)
  BY DEF RegTypeOK, Event
<1>2. ASSUME NEW p \in Providers, NEW m \in Methods, Put(p, m)
      PROVE  \E e \in Event :
                   /\ log' = Append(log, e)
                   /\ \A n \in Methods, q \in Providers :
                        IF <<n, q>> \in e.keys
                        THEN kv'[<<n, q>>] # 0 <=> e.type = "Put"
                        ELSE kv'[<<n, q>>] = kv[<<n, q>>]
                   /\ \E k \in Keys : e.keys = {k}
  <2> DEFINE e == [type |-> "Put", keys |-> {<<m, p>>}]
  <2>1. e \in Event /\ <<m, p>> \in Keys /\ log' = Append(log, e)
    BY <1>2 DEF Put, Event, Keys
  <2>2. lease[p] # 0 /\ kv' = [kv EXCEPT ![<<m, p>>] = lease[p]]
    BY <1>2 DEF Put, LeaseInv
  <2>3. \A n \in Methods, q \in Providers :
          IF <<n, q>> \in e.keys THEN kv'[<<n, q>>] # 0 <=> e.type = "Put"
                                 ELSE kv'[<<n, q>>] = kv[<<n, q>>]
    BY <2>2 DEF RegTypeOK, Keys
  <2> QED BY <2>1, <2>3
<1>3. ASSUME NEW l \in Leases, Expire(l)
      PROVE  \/ UNCHANGED <<log, kv>>
             \/ \E e \in Event :
                   /\ log' = Append(log, e)
                   /\ \A n \in Methods, q \in Providers :
                        IF <<n, q>> \in e.keys
                        THEN kv'[<<n, q>>] # 0 <=> e.type = "Put"
                        ELSE kv'[<<n, q>>] = kv[<<n, q>>]
                   /\ \E j \in Leases : e.keys = {k \in Keys : kv[k] = j}
  <2> DEFINE keys == {k \in Keys : kv[k] = l}
             e == [type |-> "Delete", keys |-> keys]
  <2>1. kv' = [k \in Keys |-> IF k \in keys THEN 0 ELSE kv[k]]
    BY <1>3 DEF Expire
  <2>2. CASE keys = {}
    <3>1. kv' = kv
      BY <2>1, <2>2 DEF RegTypeOK
    <3> QED BY <1>3, <2>2, <3>1 DEF Expire
  <2>3. CASE keys # {}
    <3>1. log' = Append(log, e) /\ e \in Event
      BY <1>3, <2>3 DEF Expire, Event
    <3>2. \A n \in Methods, q \in Providers :
            IF <<n, q>> \in keys THEN kv'[<<n, q>>] = 0
                                 ELSE kv'[<<n, q>>] = kv[<<n, q>>]
      BY <2>1 DEF Keys
    <3>3. e.keys = keys /\ e.type = "Delete"
      OBVIOUS
    <3> HIDE DEF e
    <3> QED BY <3>1, <3>2, <3>3
  <2> QED BY <2>2, <2>3
<1>4. (\A p \in Providers, m \in Methods : ~Put(p, m)) /\ (\A l \in Leases : ~Expire(l))
        => UNCHANGED <<log, kv>>
  BY DEF RegNext, Provider, KeepAlive, LeaseGrant, StartKeepAlive, ProviderEnds,
         KeepAliveRenews, KeepAliveFails, KeepAliveLate, KeepAliveExpired, regVars, etcdVars
<1> QED BY <1>1, <1>2, <1>3, <1>4

(* The log goes on telling what etcd holds, one provider of a method at a *)
(* time.                                                                  *)
LEMMA LogStep ==
    ASSUME RegInv, LogInv, [RegNext]_regVars
    PROVE  /\ LogInv' /\ log' \in Seq(Event) /\ Len(log') >= Len(log)
           /\ \A i \in 1 .. Len(log) : log'[i] = log[i]
           /\ \A m \in Methods, r \in 0 .. Len(log) : ListedAt(m, r)' = ListedAt(m, r)
<1> USE RegistrationAssumption DEF RegInv, ServingListed
<1>0. \A m, r : ListedAt(m, r) = ListedIn(log, m, r) /\ ListedAt(m, r)' = ListedIn(log', m, r)
  BY DEF ListedAt, ListedIn
<1>1. \A m, n \in Methods, p, q \in Providers :
         kv'[<<m, p>>] # 0 /\ kv'[<<m, p>>] = kv'[<<n, q>>] => p = q
  <2>1. ASSUME NEW p \in Providers, NEW m \in Methods, Put(p, m)
        PROVE  \A i, n \in Methods, o, q \in Providers :
                 kv'[<<i, o>>] # 0 /\ kv'[<<i, o>>] = kv'[<<n, q>>] => o = q
    <3>1. kv' = [kv EXCEPT ![<<m, p>>] = lease[p]] /\ lease[p] # 0
      BY <2>1 DEF Put, LeaseInv
    <3>2. \A n \in Methods, q \in Providers :
            kv'[<<n, q>>] = IF n = m /\ q = p THEN lease[p] ELSE kv[<<n, q>>]
      BY <3>1 DEF RegTypeOK, Keys
    <3>3. \A n \in Methods, q \in Providers : kv[<<n, q>>] = lease[p] => q = p
      BY <3>1 DEF LeaseInv
    <3> QED BY <3>2, <3>3 DEF LogInv
  <2>2. ASSUME NEW l \in Leases, Expire(l)
        PROVE  \A i, n \in Methods, o, q \in Providers :
                 kv'[<<i, o>>] # 0 /\ kv'[<<i, o>>] = kv'[<<n, q>>] => o = q
    <3>1. \A n \in Methods, q \in Providers :
            kv'[<<n, q>>] = IF kv[<<n, q>>] = l THEN 0 ELSE kv[<<n, q>>]
      BY <2>2 DEF Expire, Keys
    <3> QED BY <3>1 DEF LogInv
  <2>3. (\A p \in Providers, m \in Methods : ~Put(p, m)) /\ (\A l \in Leases : ~Expire(l))
          => UNCHANGED kv
    BY DEF RegNext, Provider, KeepAlive, LeaseGrant, StartKeepAlive, ProviderEnds,
           KeepAliveRenews, KeepAliveFails, KeepAliveLate, KeepAliveExpired, regVars, etcdVars
  <2> QED BY <2>1, <2>2, <2>3 DEF LogInv
<1>2. CASE UNCHANGED <<log, kv>>
  <2>1. log \in Seq(Event)
    BY DEF RegTypeOK, Event
  <2>2. Len(log) \in Nat
    BY <2>1
  <2>3. \A m \in Methods, r \in 0 .. Len(log) : ListedAt(m, r)' = ListedAt(m, r)
    BY <1>0, <1>2
  <2>4. \A m \in Methods : Listed(m)' = Listed(m)
    BY <1>2 DEF Listed
  <2>5. \A m \in Methods : ListedAt(m, Len(log))' = ListedAt(m, Len(log))
    BY <1>0, <1>2
  <2>6. LogInv'
    BY <1>2, <2>4, <2>5 DEF LogInv
  <2> QED BY <1>2, <2>1, <2>2, <2>3, <2>6
<1>3. ASSUME NEW e \in Event, log' = Append(log, e),
             \A m \in Methods, p \in Providers :
                        IF <<m, p>> \in e.keys
                        THEN kv'[<<m, p>>] # 0 <=> e.type = "Put"
                        ELSE kv'[<<m, p>>] = kv[<<m, p>>],
             \/ \E k \in Keys : e.keys = {k}
             \/ \E l \in Leases : e.keys = {k \in Keys : kv[k] = l}
      PROVE  /\ LogInv' /\ log' \in Seq(Event) /\ Len(log') >= Len(log)
             /\ \A i \in 1 .. Len(log) : log'[i] = log[i]
             /\ \A m \in Methods, r \in 0 .. Len(log) : ListedAt(m, r)' = ListedAt(m, r)
  <2>1. /\ log \in Seq(Event) /\ Len(log) \in Nat /\ log' \in Seq(Event)
        /\ Len(log') = Len(log) + 1 /\ log'[Len(log) + 1] = e
        /\ \A i \in 1 .. Len(log) : log'[i] = log[i]
    BY <1>3, LogGrows
  <2>2. \A m \in Methods, r \in 0 .. Len(log) : ListedAt(m, r)' = ListedAt(m, r)
    BY <1>0, <1>3, <2>1, ListedPrefix
  <2>3. ASSUME NEW m \in Methods, NEW p \in Providers, NEW q \in Providers,
               <<m, p>> \in e.keys, <<m, q>> \in e.keys
        PROVE  p = q
    <3>1. <<m, p>> \in Keys /\ <<m, q>> \in Keys
      BY DEF Keys
    <3>2. ASSUME NEW k \in Keys, e.keys = {k} PROVE p = q
      <4>1. <<m, p>> = <<m, q>>
        BY <2>3, <3>2
      <4> QED BY <4>1
    <3>3. ASSUME NEW l \in Leases, e.keys = {k \in Keys : kv[k] = l} PROVE p = q
      <4>1. kv[<<m, p>>] = l /\ kv[<<m, q>>] = l /\ l # 0
        BY <2>3, <3>3 DEF Leases
      <4> QED BY <4>1 DEF LogInv
    <3> QED BY <1>3, <3>2, <3>3
  <2>4. \A i \in 1 .. Len(log'), m \in Methods, p, q \in Providers :
          <<m, p>> \in log'[i].keys /\ <<m, q>> \in log'[i].keys => p = q
    <3> SUFFICES ASSUME NEW i \in 1 .. Len(log'), NEW m \in Methods,
                        NEW p \in Providers, NEW q \in Providers,
                        <<m, p>> \in log'[i].keys, <<m, q>> \in log'[i].keys
                 PROVE  p = q
      OBVIOUS
    <3>1. CASE i \in 1 .. Len(log)
      BY <2>1, <3>1 DEF LogInv
    <3>2. CASE i = Len(log) + 1
      BY <2>1, <2>3, <3>2
    <3> QED BY <2>1, <3>1, <3>2
  <2>5. ASSUME NEW m \in Methods PROVE ListedAt(m, Len(log))' = Listed(m)'
    <3>1. \A p \in Providers :
            p \in ListedIn(log', m, Len(log) + 1) <=>
              IF <<m, p>> \in e.keys THEN e.type = "Put" ELSE p \in ListedIn(log', m, Len(log))
      BY <2>1, ListedNext
    <3>2. \A p \in Providers : p \in ListedIn(log', m, Len(log)) <=> kv[<<m, p>>] # 0
      <4>1. ListedAt(m, Len(log)) = Listed(m)
        BY DEF LogInv
      <4>2. ListedIn(log', m, Len(log)) = ListedIn(log, m, Len(log))
        BY <1>3, <2>1, ListedPrefix
      <4> QED BY <1>0, <4>1, <4>2 DEF Listed
    <3>3. \A p \in Providers : p \in ListedIn(log', m, Len(log')) <=> kv'[<<m, p>>] # 0
      BY <1>3, <2>1, <3>1, <3>2
    <3>4. ListedIn(log', m, Len(log')) \subseteq Providers
      BY DEF ListedIn
    <3>5. ListedAt(m, Len(log))' = ListedIn(log', m, Len(log'))
      BY DEF ListedAt, ListedIn
    <3> QED BY <3>3, <3>4, <3>5 DEF Listed
  <2> QED BY <1>1, <2>1, <2>2, <2>4, <2>5 DEF LogInv
<1> QED BY <1>2, <1>3, LogGrows

-----------------------------------------------------------------------------
(* The list of instances. *)

(* Erasing an address from a list that holds nothing twice leaves a list of *)
(* the others, none of them twice.                                          *)
LEMMA ErasedOthers ==
    ASSUME NEW vec \in Seq(Providers), IsInjective(vec), NEW addr
    PROVE  LET r == Erased(vec, addr) IN
           /\ r \in Seq(Providers) /\ IsInjective(r) /\ Range(r) = Range(vec) \ {addr}
<1> DEFINE keep == {i \in DOMAIN vec : vec[i] # addr}
           n == Cardinality(keep)
           upto(i) == {j \in keep : j <= i}
           rank == [i \in keep |-> Cardinality(upto(i))]
           nth(k) == CHOOSE i \in keep : Cardinality(upto(i)) = k
           r == [k \in 1 .. n |-> vec[nth(k)]]
<1>1. /\ Erased(vec, addr) = r /\ DOMAIN vec = 1 .. Len(vec) /\ Len(vec) \in Nat
      /\ keep \subseteq 1 .. Len(vec)
  BY DEF Erased
<1>2. IsFiniteSet(keep) /\ n \in Nat
  <2>1. IsFiniteSet(1 .. Len(vec))
    BY <1>1, FS_Interval
  <2> QED BY <1>1, <2>1, FS_Subset, FS_CardinalityType
<1> HIDE DEF keep
<1>3. ASSUME NEW i \in keep
      PROVE  IsFiniteSet(upto(i)) /\ Cardinality(upto(i)) \in 1 .. n /\ i \in upto(i)
  <2>1. upto(i) \subseteq keep /\ i \in upto(i)
    BY <1>1
  <2>2. IsFiniteSet(upto(i)) /\ Cardinality(upto(i)) <= n /\ Cardinality(upto(i)) \in Nat
    BY <1>2, <2>1, FS_Subset, FS_CardinalityType
  <2>3. Cardinality(upto(i)) # 0
    BY <2>1, <2>2, FS_EmptySet
  <2> QED BY <1>2, <2>1, <2>2, <2>3
<1>4. ASSUME NEW i \in keep, NEW j \in keep, i < j
      PROVE  Cardinality(upto(i)) # Cardinality(upto(j))
  <2>0. \A x \in keep : x \in Int
    BY <1>1
  <2>1. upto(i) \subseteq upto(j) /\ j \notin upto(i) /\ j \in upto(j)
    BY <1>4, <2>0
  <2> QED BY <1>3, <2>1, FS_Subset
<1>5. rank \in Injection(keep, 1 .. n)
  <2>1. rank \in [keep -> 1 .. n]
    BY <1>3
  <2>2. ASSUME NEW i \in keep, NEW j \in keep, rank[i] = rank[j] PROVE i = j
    <3>1. i \in Int /\ j \in Int
      BY <1>1
    <3>2. Cardinality(upto(i)) = Cardinality(upto(j))
      BY <2>2
    <3> QED BY <1>4, <3>1, <3>2
  <2>3. DOMAIN rank = keep
    OBVIOUS
  <2> HIDE DEF rank
  <2> QED BY <2>1, <2>2, <2>3 DEF Injection, IsInjective
<1>6. rank \in Surjection(keep, 1 .. n)
  <2>1. IsFiniteSet(1 .. n) /\ Cardinality(1 .. n) = n
    BY <1>2, FS_Interval
  <2> HIDE DEF rank
  <2> QED BY <1>5, <2>1, FS_Injection
<1>7. \A i, j \in keep : Cardinality(upto(i)) = Cardinality(upto(j)) => i = j
  BY <1>5 DEF Injection, IsInjective
<1>8. \A k \in 1 .. n : \E i \in keep : Cardinality(upto(i)) = k
  BY <1>6 DEF Surjection
<1>9. ASSUME NEW k \in 1 .. n
      PROVE  nth(k) \in keep /\ Cardinality(upto(nth(k))) = k
  BY <1>8
<1>10. ASSUME NEW i \in keep PROVE nth(Cardinality(upto(i))) = i
  BY <1>3, <1>7, <1>9
<1> HIDE DEF nth, upto
<1>11. \A i \in keep : i \in 1 .. Len(vec) /\ vec[i] # addr /\ vec[i] \in Providers
  BY <1>1 DEF keep
<1>12. r \in Seq(Providers) /\ DOMAIN r = 1 .. n
  <2>1. r \in [1 .. n -> Providers]
    BY <1>9, <1>11
  <2> HIDE DEF r
  <2> QED BY <1>2, <2>1
<1>13. IsInjective(r)
  <2>1. ASSUME NEW k \in 1 .. n, NEW l \in 1 .. n, r[k] = r[l] PROVE k = l
    <3>1. vec[nth(k)] = vec[nth(l)]
      BY <2>1
    <3>2. nth(k) = nth(l)
      BY <1>1, <1>9, <1>11, <3>1 DEF IsInjective
    <3> QED BY <1>9, <3>2
  <2> HIDE DEF r
  <2> QED BY <1>12, <2>1 DEF IsInjective
<1>14. Range(r) = Range(vec) \ {addr}
  <2>1. ASSUME NEW k \in 1 .. n PROVE r[k] \in Range(vec) \ {addr}
    BY <1>1, <1>9, <1>11 DEF Range
  <2>2. ASSUME NEW i \in DOMAIN vec, vec[i] # addr PROVE vec[i] \in Range(r)
    <3>1. i \in keep
      BY <2>2 DEF keep
    <3>2. Cardinality(upto(i)) \in 1 .. n /\ nth(Cardinality(upto(i))) = i
      BY <1>3, <1>10, <3>1 DEF upto
    <3>3. r[Cardinality(upto(i))] = vec[i]
      BY <3>2
    <3> HIDE DEF r
    <3> QED BY <1>12, <3>2, <3>3 DEF Range
  <2> HIDE DEF r
  <2> QED BY <1>12, <2>1, <2>2 DEF Range
<1> QED BY <1>1, <1>12, <1>13, <1>14

(* The callback adds or removes just the address of the event. *)
LEMMA AppliedEffect ==
    ASSUME NEW vec \in Seq(Providers), IsInjective(vec), NEW addr \in Providers,
           NEW type \in {"Put", "Delete"}
    PROVE  LET r == Applied(vec, type, addr) IN
           /\ r \in Seq(Providers) /\ IsInjective(r)
           /\ Range(r) = IF type = "Put" THEN Range(vec) \cup {addr} ELSE Range(vec) \ {addr}
<1>1. CASE type = "Delete"
  BY <1>1, ErasedOthers DEF Applied
<1>2. CASE type = "Put" /\ addr \in Range(vec)
  BY <1>2 DEF Applied
<1>3. CASE type = "Put" /\ addr \notin Range(vec)
  <2> DEFINE r == Append(vec, addr)
  <2>1. /\ Len(vec) \in Nat /\ DOMAIN vec = 1 .. Len(vec)
        /\ r \in Seq(Providers) /\ DOMAIN r = 1 .. Len(vec) + 1
        /\ r[Len(vec) + 1] = addr /\ \A i \in 1 .. Len(vec) : r[i] = vec[i]
    OBVIOUS
  <2> HIDE DEF r
  <2>2. \A i \in 1 .. Len(vec) + 1 : i = Len(vec) + 1 \/ i \in 1 .. Len(vec)
    BY <2>1
  <2>3. IsInjective(r)
    BY <1>3, <2>1, <2>2 DEF IsInjective, Range
  <2>4. Range(r) = Range(vec) \cup {addr}
    BY <2>1, <2>2 DEF Range
  <2>5. Applied(vec, type, addr) = r
    BY <1>3 DEF Applied, r
  <2> QED BY <1>3, <2>1, <2>3, <2>4, <2>5
<1> QED BY <1>1, <1>2, <1>3

(* A list that holds nothing twice is as long as its set of elements. *)
LEMMA InjectiveLength ==
    ASSUME NEW vec \in Seq(Providers), IsInjective(vec)
    PROVE  Len(vec) = Cardinality(Range(vec))
<1>1. Len(vec) \in Nat /\ DOMAIN vec = 1 .. Len(vec)
  OBVIOUS
<1>2. IsFiniteSet(1 .. Len(vec)) /\ Cardinality(1 .. Len(vec)) = Len(vec)
  BY <1>1, FS_Interval
<1>3. vec \in Surjection(1 .. Len(vec), Range(vec)) /\ vec \in Injection(1 .. Len(vec), Range(vec))
  BY <1>1 DEF Surjection, Injection, Range
<1> QED BY <1>2, <1>3, FS_Surjection

(* RangePrefix reads every listed provider once. *)
LEMMA SnapshotOnce ==
    ASSUME NEW S \in SUBSET Providers, NEW s \in [1 .. Cardinality(S) -> S], Range(s) = S
    PROVE  s \in Seq(Providers) /\ IsInjective(s)
<1>1. IsFiniteSet(S) /\ Cardinality(S) \in Nat
  BY RegistrationAssumption, FS_Subset, FS_CardinalityType
<1>2. IsFiniteSet(1 .. Cardinality(S)) /\ Cardinality(1 .. Cardinality(S)) = Cardinality(S)
  BY <1>1, FS_Interval
<1>3. s \in Surjection(1 .. Cardinality(S), S)
  BY DEF Surjection, Range
<1>4. s \in Injection(1 .. Cardinality(S), S)
  BY <1>2, <1>3, FS_SurjSameCardinalityImpliesInj
<1> QED BY <1>1, <1>4 DEF Injection

-----------------------------------------------------------------------------
(* The steps. *)

(* Providers and etcd: no client variable changes, the log grows. *)
LEMMA RegKeeps ==
    ASSUME RegInv, DiscoveryInv, RegNext, UNCHANGED <<compacted, cacheVars, watchVars>>
    PROVE  DiscoveryInv'
<1>1. [RegNext]_regVars /\ LogInv
  BY DEF DiscoveryInv
<1>2. /\ LogInv' /\ Len(log) \in Nat /\ Len(log') \in Nat /\ Len(log') >= Len(log)
      /\ \A m \in Methods, r \in 0 .. Len(log) : ListedAt(m, r)' = ListedAt(m, r)
  BY <1>1, LogStep, LogGrows
<1>3. TypeOK'
  BY SMTT(30), <1>2 DEF DiscoveryInv, TypeOK, cacheVars, watchVars
<1>4. WatchInv' /\ EntryInv'
  BY DEF DiscoveryInv, WatchInv, EntryInv, cacheVars, watchVars
<1>5. ASSUME NEW m \in g_entries' PROVE Range(instances'[m]) = ListedAt(m, pos[m])'
  <2>1. m \in Methods /\ pos[m] \in 0 .. Len(log) /\ pos' = pos /\ instances' = instances
        /\ m \in g_entries
    BY DEF DiscoveryInv, TypeOK, cacheVars, watchVars
  <2>2. ListedAt(m, pos[m])' = ListedIn(log', m, pos'[m]) /\ ListedAt(m, pos[m]) = ListedIn(log, m, pos[m])
    BY DEF ListedAt, ListedIn
  <2>3. ListedIn(log', m, pos[m]) = ListedIn(log, m, pos[m])
    <3>1. \A r : ListedAt(m, r)' = ListedIn(log', m, r) /\ ListedAt(m, r) = ListedIn(log, m, r)
      BY DEF ListedAt, ListedIn
    <3> QED BY <1>2, <2>1, <3>1
  <2> QED BY <2>1, <2>2, <2>3 DEF DiscoveryInv
<1> QED BY <1>2, <1>3, <1>4, <1>5 DEF DiscoveryInv

(* What a step of a client leaves alone when it leaves etcd alone. *)
LEMMA SameLog ==
    ASSUME LogInv, UNCHANGED regVars
    PROVE  /\ LogInv' /\ log' = log
           /\ \A m, r : ListedAt(m, r)' = ListedIn(log, m, r)
           /\ \A m, r : ListedAt(m, r) = ListedIn(log, m, r)
  BY DEF LogInv, ListedAt, ListedIn, Listed, regVars, etcdVars

(* The first request for a method: the view is what etcd holds now. *)
LEMMA RangePrefixKeeps ==
    ASSUME RegInv, DiscoveryInv, NEW m \in Methods, RangePrefix(m)
    PROVE  DiscoveryInv'
<1>1. LogInv' /\ log' = log /\ Len(log) \in Nat
      /\ \A n, r : ListedAt(n, r)' = ListedIn(log, n, r) /\ ListedAt(n, r) = ListedIn(log, n, r)
  BY SameLog, LogGrows DEF DiscoveryInv, RangePrefix
<1>2. PICK s \in [1 .. Cardinality(Listed(m)) -> Listed(m)] :
        Range(s) = Listed(m) /\ instances' = [instances EXCEPT ![m] = s]
  BY DEF RangePrefix
<1>3. s \in Seq(Providers) /\ IsInjective(s) /\ Len(s) = Cardinality(Range(s))
  <2>1. Listed(m) \in SUBSET Providers
    BY DEF Listed
  <2> QED BY <1>2, <2>1, SnapshotOnce, InjectiveLength
<1>4. /\ instances'[m] = s /\ \A n \in Methods \ {m} : instances'[n] = instances[n]
      /\ instances' \in [Methods -> Seq(Providers)]
  BY <1>2, <1>3 DEF DiscoveryInv, TypeOK
<1>5. TypeOK'
  <2>1. \A n \in Methods : Len(instances'[n]) = Cardinality(Range(instances'[n]))
    BY <1>3, <1>4 DEF DiscoveryInv, TypeOK
  <2> QED BY <1>1, <1>4, <2>1 DEF DiscoveryInv, TypeOK, RangePrefix
<1>6. WatchInv'
  BY <1>1 DEF DiscoveryInv, TypeOK, WatchInv, EntryInv, RangePrefix
<1>7. EntryInv'
  <2>1. \A n \in Methods : IsInjective(instances'[n])
    BY <1>3, <1>4 DEF DiscoveryInv, EntryInv
  <2> QED BY <2>1 DEF DiscoveryInv, TypeOK, EntryInv, RangePrefix
<1>8. ASSUME NEW n \in g_entries' PROVE Range(instances'[n]) = ListedIn(log, n, pos'[n])
  <2>1. CASE n = m
    <3>1. pos'[n] = Len(log)
      BY <2>1 DEF DiscoveryInv, TypeOK, RangePrefix
    <3> QED BY <1>1, <1>2, <1>4, <2>1, <3>1 DEF DiscoveryInv, LogInv
  <2>2. CASE n # m
    BY <1>1, <1>4, <2>2 DEF DiscoveryInv, TypeOK, RangePrefix
  <2> QED BY <2>1, <2>2
<1>9. \A n \in g_entries' : ListedAt(n, pos[n])' = ListedIn(log, n, pos'[n])
  BY <1>1 DEF ListedAt, ListedIn
<1> QED BY <1>1, <1>5, <1>6, <1>7, <1>8, <1>9 DEF DiscoveryInv

(* Steps of the watch that leave the view and the revision it is of alone. *)
LEMMA ViewStays ==
    ASSUME DiscoveryInv, UNCHANGED regVars, UNCHANGED <<g_entries, instances>>,
           \A m \in g_entries : pos'[m] = pos[m]
    PROVE  \A m \in g_entries' : Range(instances[m])' = ListedAt(m, pos[m])'
  BY SameLog DEF DiscoveryInv, ListedAt, ListedIn

(* One event of a frame: the view moves on by one revision. *)
LEMMA WatchEventKeeps ==
    ASSUME RegInv, DiscoveryInv, NEW m \in Methods, WatchEvent(m)
    PROVE  DiscoveryInv'
<1> DEFINE i == pos[m] + 1
           e == log[i]
<1>1. /\ LogInv' /\ log' = log /\ Len(log) \in Nat /\ log \in Seq(Event)
      /\ \A n, r : ListedAt(n, r)' = ListedIn(log, n, r) /\ ListedAt(n, r) = ListedIn(log, n, r)
  BY SameLog, LogGrows DEF DiscoveryInv, WatchEvent
<1>2. /\ m \in g_entries /\ pos[m] \in Nat /\ hdr[m] \in 0 .. Len(log) /\ pos[m] < hdr[m]
      /\ i \in 1 .. Len(log) /\ pos' = [pos EXCEPT ![m] = i]
  BY <1>1 DEF DiscoveryInv, TypeOK, EntryInv, WatchEvent
<1>3. e \in Event /\ e.type \in {"Put", "Delete"}
  <2>1. e \in Event
    BY <1>1, <1>2
  <2> QED BY <2>1 DEF Event
<1>4. \A p \in Providers : p \in ListedIn(log, m, i) <=>
        IF <<m, p>> \in e.keys THEN e.type = "Put" ELSE p \in ListedIn(log, m, pos[m])
  BY <1>2, ListedNext
<1>5. Range(instances[m]) = ListedIn(log, m, pos[m])
  BY <1>1, <1>2 DEF DiscoveryInv
<1>6. /\ ListedIn(log, m, i) \subseteq Providers /\ ListedIn(log, m, pos[m]) \subseteq Providers
      /\ instances[m] \in Seq(Providers) /\ IsInjective(instances[m])
  BY DEF ListedIn, DiscoveryInv, TypeOK, EntryInv
<1> HIDE DEF i, e
<1>7. /\ instances'[m] \in Seq(Providers) /\ IsInjective(instances'[m])
      /\ Range(instances'[m]) = ListedIn(log, m, i)
      /\ \A n \in Methods \ {m} : instances'[n] = instances[n]
      /\ instances' \in [Methods -> Seq(Providers)]
  <2>1. CASE Touches(i, m)
    <3>1. PICK p \in Providers :
            /\ <<m, p>> \in e.keys
            /\ instances' = [instances EXCEPT ![m] = Applied(instances[m], e.type, p)]
      BY <2>1 DEF WatchEvent, i, e
    <3> DEFINE r == Applied(instances[m], e.type, p)
    <3>2. /\ r \in Seq(Providers) /\ IsInjective(r)
          /\ Range(r) = IF e.type = "Put" THEN Range(instances[m]) \cup {p}
                                          ELSE Range(instances[m]) \ {p}
      BY <1>3, <1>6, AppliedEffect
    <3>3. \A q \in Providers : <<m, q>> \in e.keys => q = p
      BY <1>2, <3>1 DEF DiscoveryInv, LogInv, e
    <3> HIDE DEF r
    <3>4. Range(r) = ListedIn(log, m, i)
      BY <1>3, <1>4, <1>5, <1>6, <3>1, <3>2, <3>3
    <3>5. instances' = [instances EXCEPT ![m] = r]
      BY <3>1 DEF r
    <3> QED BY <3>2, <3>4, <3>5 DEF DiscoveryInv, TypeOK
  <2>2. CASE ~Touches(i, m)
    <3>1. instances' = instances /\ \A p \in Providers : <<m, p>> \notin e.keys
      BY <2>2 DEF WatchEvent, Touches, i, e
    <3>2. ListedIn(log, m, i) = ListedIn(log, m, pos[m])
      BY <1>4, <1>6, <3>1
    <3> QED BY <1>5, <1>6, <3>1, <3>2 DEF DiscoveryInv, TypeOK
  <2> QED BY <2>1, <2>2
<1>8. TypeOK'
  <2>1. \A n \in Methods : Len(instances'[n]) = Cardinality(Range(instances'[n]))
    BY <1>7, InjectiveLength DEF DiscoveryInv, TypeOK
  <2>2. pos' \in [Methods -> 0 .. Len(log)]
    BY <1>1, <1>2 DEF DiscoveryInv, TypeOK
  <2> QED BY <1>1, <1>7, <2>1, <2>2 DEF DiscoveryInv, TypeOK, WatchEvent
<1>9. WatchInv'
  <2>1. /\ UNCHANGED <<g_entries, watch, resumeRev, lastRevision, hdr>>
        /\ pos'[m] = pos[m] + 1 /\ \A n \in Methods \ {m} : pos'[n] = pos[n]
    BY <1>2 DEF DiscoveryInv, TypeOK, WatchEvent, i
  <2>2. ASSUME NEW n \in g_entries', n # m
        PROVE  /\ watch'[n] \in {"down", "cancelled"} => hdr'[n] = 0
               /\ hdr'[n] = 0 => lastRevision'[n] = pos'[n]
               /\ hdr'[n] # 0 => pos'[n] <= hdr'[n] /\ lastRevision'[n] < hdr'[n]
               /\ watch'[n] # "none" /\ resumeRev'[n] \in 1 .. lastRevision'[n] + 1
               /\ watch'[n] = "down" => resumeRev'[n] = pos'[n] + 1
    BY <2>1, <2>2 DEF DiscoveryInv, TypeOK, WatchInv
  <2>3. /\ watch[m] \notin {"down", "cancelled"} /\ hdr'[m] # 0
        /\ pos'[m] <= hdr'[m] /\ lastRevision'[m] < hdr'[m]
        /\ watch'[m] # "none" /\ resumeRev'[m] \in 1 .. lastRevision'[m] + 1
    BY <1>2, <2>1 DEF DiscoveryInv, TypeOK, WatchInv
  <2> QED BY <2>1, <2>2, <2>3 DEF WatchInv
<1>10. EntryInv'
  BY <1>7 DEF DiscoveryInv, TypeOK, EntryInv, WatchEvent
<1>11. ASSUME NEW n \in g_entries' PROVE Range(instances'[n]) = ListedIn(log, n, pos'[n])
  <2>1. n \in g_entries /\ n \in Methods
    BY DEF DiscoveryInv, TypeOK, WatchEvent
  <2>2. CASE n = m
    BY <1>2, <1>7, <2>2 DEF DiscoveryInv, TypeOK
  <2>3. CASE n # m
    BY <1>1, <1>2, <1>7, <2>1, <2>3 DEF DiscoveryInv, TypeOK
  <2> QED BY <2>2, <2>3
<1>12. \A n \in g_entries' : ListedAt(n, pos[n])' = ListedIn(log, n, pos'[n])
  BY <1>1 DEF ListedAt, ListedIn
<1> QED BY <1>1, <1>8, <1>9, <1>10, <1>11, <1>12 DEF DiscoveryInv

(* The other steps of clients, and compaction. *)
LEMMA ClientKeeps ==
    ASSUME RegInv, DiscoveryInv, NEW m \in Methods,
           WatchConnects(m) \/ WatchFrame(m) \/ FrameDone(m) \/ WatchCancelled(m) \/ StreamBreaks(m)
    PROVE  DiscoveryInv'
<1>1. /\ UNCHANGED regVars /\ UNCHANGED <<g_entries, instances>> /\ LogInv' /\ log' = log
      /\ Len(log) \in Nat
  BY SameLog, LogGrows DEF DiscoveryInv, WatchConnects, WatchFrame, FrameDone, WatchCancelled,
     StreamBreaks, cacheVars
<1>2. m \in g_entries
  BY DEF WatchConnects, WatchFrame, FrameDone, WatchCancelled, StreamBreaks, DiscoveryInv, EntryInv
<1>3. EntryInv'
  BY <1>1, <1>2 DEF WatchConnects, WatchFrame, FrameDone, WatchCancelled, StreamBreaks,
     DiscoveryInv, TypeOK, EntryInv
<1>4. \A n \in g_entries : pos'[n] = pos[n]
  <2>1. CASE WatchConnects(m)
    <3>1. resumeRev[m] - 1 = pos[m]
      BY <1>2, <2>1 DEF WatchConnects, DiscoveryInv, TypeOK, WatchInv
    <3> QED BY <2>1, <3>1 DEF WatchConnects, DiscoveryInv, TypeOK
  <2>2. CASE ~WatchConnects(m)
    BY <2>2 DEF WatchFrame, FrameDone, WatchCancelled, StreamBreaks
  <2> QED BY <2>1, <2>2
<1>5. CASE WatchConnects(m)
  <2>1. TypeOK'
    BY <1>1, <1>2, <1>5 DEF DiscoveryInv, TypeOK, WatchInv, WatchConnects, cacheVars
  <2>2. WatchInv'
    BY SMTT(30), <1>1, <1>2, <1>5 DEF DiscoveryInv, TypeOK, WatchInv, WatchConnects, cacheVars
  <2> QED BY <1>1, <1>3, <1>4, <2>1, <2>2, ViewStays DEF DiscoveryInv
<1>6. CASE WatchFrame(m)
  <2>1. TypeOK'
    BY SMTT(30), <1>1, <1>2, <1>6 DEF DiscoveryInv, TypeOK, WatchFrame, cacheVars
  <2>2. WatchInv'
    BY SMTT(30), <1>1, <1>2, <1>6 DEF DiscoveryInv, TypeOK, WatchInv, WatchFrame, cacheVars
  <2> QED BY <1>1, <1>3, <1>4, <2>1, <2>2, ViewStays DEF DiscoveryInv
<1>7. CASE FrameDone(m)
  <2>1. TypeOK'
    BY <1>1, <1>2, <1>7 DEF DiscoveryInv, TypeOK, FrameDone, cacheVars
  <2>2. WatchInv'
    BY SMTT(30), <1>1, <1>2, <1>7 DEF DiscoveryInv, TypeOK, WatchInv, FrameDone, cacheVars
  <2> QED BY <1>1, <1>3, <1>4, <2>1, <2>2, ViewStays DEF DiscoveryInv
<1>8. CASE StreamBreaks(m)
  <2>1. TypeOK'
    BY <1>1, <1>2, <1>8 DEF DiscoveryInv, TypeOK, StreamBreaks, cacheVars
  <2>2. WatchInv'
    BY SMTT(30), <1>1, <1>2, <1>8 DEF DiscoveryInv, TypeOK, WatchInv, StreamBreaks, cacheVars
  <2> QED BY <1>1, <1>3, <1>4, <2>1, <2>2, ViewStays DEF DiscoveryInv
<1>9. CASE WatchCancelled(m)
  <2>1. TypeOK'
    BY <1>1, <1>2, <1>9 DEF DiscoveryInv, TypeOK, WatchCancelled, cacheVars
  <2>2. WatchInv'
    BY SMTT(30), <1>1, <1>2, <1>9 DEF DiscoveryInv, TypeOK, WatchInv, WatchCancelled, cacheVars
  <2> QED BY <1>1, <1>3, <1>4, <2>1, <2>2, ViewStays DEF DiscoveryInv
<1> QED BY <1>5, <1>6, <1>7, <1>8, <1>9

(* Steps that touch neither view nor watch. *)
LEMMA OthersKeep ==
    ASSUME RegInv, DiscoveryInv,
           \/ Compact \/ ensureEtcd \/ UNCHANGED vars
           \/ \E m \in Methods : GetRpcAddress(m) \/ GetRpcAddressFails(m)
    PROVE  DiscoveryInv'
<1>1. /\ UNCHANGED regVars /\ UNCHANGED <<g_entries, instances, watchVars>> /\ LogInv' /\ log' = log
      /\ Len(log) \in Nat
  BY SameLog, LogGrows DEF DiscoveryInv, Compact, ensureEtcd, GetRpcAddress, GetRpcAddressFails,
     cacheVars, vars
<1>2. TypeOK'
  <2>1. compacted' \in 0 .. Len(log) /\ g_etcdOk' \in {"unset", "yes", "no"}
    BY <1>1 DEF DiscoveryInv, TypeOK, Compact, ensureEtcd, GetRpcAddress, GetRpcAddressFails,
                cacheVars, vars
  <2>2. rr' \in [Methods -> 0 .. MaxPicks]
    BY SMTT(30), DiscoveryAssumption DEF DiscoveryInv, TypeOK, Compact, ensureEtcd, GetRpcAddress,
       GetRpcAddressFails, cacheVars, vars
  <2> QED BY <1>1, <2>1, <2>2 DEF DiscoveryInv, TypeOK, watchVars
<1>3. WatchInv' /\ EntryInv'
  BY <1>1 DEF DiscoveryInv, WatchInv, EntryInv, watchVars
<1>4. \A m \in g_entries : pos'[m] = pos[m]
  BY <1>1 DEF watchVars
<1> QED BY <1>1, <1>2, <1>3, <1>4, ViewStays DEF DiscoveryInv

(* Before anything is registered or asked for. *)
LEMMA DiscoveryInit == Init => RegInv /\ DiscoveryInv
<1> SUFFICES ASSUME Init PROVE RegInv /\ DiscoveryInv
  OBVIOUS
<1>1. RegInv
  BY RegInitOK DEF Init
<1>2. log = << >> /\ Len(log) = 0 /\ \A k \in Keys : kv[k] = 0
  BY DEF Init, RegInit
<1>3. TypeOK /\ EntryInv
  <2>1. << >> \in Seq(Providers) /\ IsInjective(<< >>) /\ Len(<< >>) = 0
    BY DEF IsInjective
  <2>2. Len(<< >>) = Cardinality(Range(<< >>))
    BY <2>1, InjectiveLength
  <2> QED BY <1>2, <2>1, <2>2, DiscoveryAssumption DEF Init, TypeOK, EntryInv
<1>4. LogInv
  <2>1. \A m \in Methods : ListedAt(m, 0) = {} /\ Listed(m) = {}
    BY <1>2, ListedNone DEF ListedAt, ListedIn, Listed, Keys
  <2>2. \A m \in Methods : ListedAt(m, Len(log)) = Listed(m)
    BY <1>2, <2>1
  <2>3. \A m \in Methods, p \in Providers : kv[<<m, p>>] = 0
    BY <1>2 DEF Keys
  <2> QED BY <1>2, <2>2, <2>3 DEF LogInv
<1> QED BY <1>1, <1>3, <1>4 DEF DiscoveryInv, WatchInv, Init

(* Every step of providers, etcd and clients keeps the invariant. *)
LEMMA DiscoveryStep == RegInv /\ DiscoveryInv /\ [Next]_vars => RegInv' /\ DiscoveryInv'
<1> SUFFICES ASSUME RegInv, DiscoveryInv, [Next]_vars PROVE RegInv' /\ DiscoveryInv'
  OBVIOUS
<1>1. [RegNext]_regVars
  BY DEF Next, Client, Watcher, Compact, ensureEtcd, RangePrefix, GetRpcAddress,
         GetRpcAddressFails, WatchConnects, WatchFrame, WatchEvent, FrameDone, WatchCancelled,
         StreamBreaks, vars
<1>2. DiscoveryInv'
  BY RegKeeps, RangePrefixKeeps, WatchEventKeeps, ClientKeeps, OthersKeep
     DEF Next, Client, Watcher
<1> QED BY <1>1, <1>2, RegStep

(* What a client holds is what etcd listed at the revision its watch has   *)
(* reached: over all broken streams, reconnects and compactions no event   *)
(* is lost, applied twice or applied over a later one.                     *)
THEOREM ViewAlwaysSnapshot == Spec => []ViewIsSnapshot
<1>1. DiscoveryInv => ViewIsSnapshot
  BY DEF DiscoveryInv, ViewIsSnapshot
<1> QED BY <1>1, DiscoveryInit, DiscoveryStep, PTL DEF Spec
=============================================================================
