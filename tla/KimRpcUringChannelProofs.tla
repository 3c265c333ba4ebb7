----------------------- MODULE KimRpcUringChannelProofs -----------------------
(***************************************************************************)
(* Proofs about UringTcpClient and its users, for any descriptors, length  *)
(* of a request and number of faults.                                      *)
(***************************************************************************)
EXTENDS KimRpcUringChannelProps, SequenceTheorems, FiniteSetTheorems,
        WellFoundedInduction, TLAPS

-----------------------------------------------------------------------------
(***************************************************************************)
(* Pieces of a stream.                                                     *)
(***************************************************************************)

\* The empty piece follows any part of a stream.
LEMMA FollowsEmpty ==
    ASSUME NEW w \in Seq(Units), NEW n \in 0 .. Len(w)
    PROVE  Follows(<<>>, n, w)
BY DEF Follows

\* Two pieces in a row are one.
LEMMA FollowsConcat ==
    ASSUME NEW w \in Seq(Units), NEW n \in Nat, NEW s \in Seq(Units), NEW t \in Seq(Units),
           Follows(s, n, w), Follows(t, n + Len(s), w)
    PROVE  Follows(s \o t, n, w)
<1>1. Len(s \o t) = Len(s) + Len(t) /\ Len(s) \in Nat /\ Len(t) \in Nat /\ Len(w) \in Nat
  OBVIOUS
<1>2. n + Len(s \o t) <= Len(w)
  BY <1>1 DEF Follows
<1>3. ASSUME NEW k \in 1 .. Len(s \o t)
      PROVE  (s \o t)[k] = w[n + k]
  <2>1. CASE k <= Len(s)
    BY <1>1, <2>1 DEF Follows
  <2>2. CASE k > Len(s)
    <3>1. k - Len(s) \in 1 .. Len(t) /\ n + Len(s) + (k - Len(s)) = n + k
      BY <1>1, <2>2
    <3>2. (s \o t)[k] = t[k - Len(s)]
      BY <1>1, <2>2
    <3> QED BY <3>1, <3>2 DEF Follows
  <2> QED BY <1>1, <2>1, <2>2
<1> QED BY <1>2, <1>3 DEF Follows

\* A piece that is cut in two gives two in a row.
LEMMA FollowsCut ==
    ASSUME NEW w \in Seq(Units), NEW n \in Nat, NEW s \in Seq(Units), NEW c \in 0 .. Len(s),
           Follows(s, n, w)
    PROVE  /\ SubSeq(s, 1, c) \in Seq(Units) /\ Len(SubSeq(s, 1, c)) = c
           /\ SubSeq(s, c + 1, Len(s)) \in Seq(Units)
           /\ Follows(SubSeq(s, 1, c), n, w)
           /\ Follows(SubSeq(s, c + 1, Len(s)), n + c, w)
<1>1. Len(s) \in Nat /\ Len(w) \in Nat /\ n + Len(s) <= Len(w) /\ c \in Nat /\ c <= Len(s)
  BY DEF Follows
<1>2. /\ SubSeq(s, 1, c) \in Seq(Units) /\ Len(SubSeq(s, 1, c)) = c
      /\ \A k \in 1 .. c : SubSeq(s, 1, c)[k] = s[k]
  BY <1>1
<1>3. /\ SubSeq(s, c + 1, Len(s)) \in Seq(Units) /\ Len(SubSeq(s, c + 1, Len(s))) = Len(s) - c
      /\ \A k \in 1 .. Len(s) - c : SubSeq(s, c + 1, Len(s))[k] = s[c + k]
  BY <1>1
<1>4. Follows(SubSeq(s, 1, c), n, w)
  BY <1>1, <1>2 DEF Follows
<1>5. Follows(SubSeq(s, c + 1, Len(s)), n + c, w)
  <2>1. ASSUME NEW k \in 1 .. Len(s) - c
        PROVE  s[c + k] = w[n + c + k]
    <3>1. c + k \in 1 .. Len(s) /\ n + (c + k) = n + c + k
      BY <1>1
    <3>2. \A j \in 1 .. Len(s) : s[j] = w[n + j]
      BY DEF Follows
    <3> QED BY <1>1, <3>1, <3>2
  <2> DEFINE t == SubSeq(s, c + 1, Len(s))
  <2>2. Len(t) = Len(s) - c /\ \A k \in 1 .. Len(s) - c : t[k] = s[c + k]
    BY <1>3
  <2> HIDE DEF t
  <2>3. Follows(t, n + c, w)
    BY <1>1, <2>1, <2>2 DEF Follows
  <2> QED BY <2>3 DEF t
<1> QED BY <1>2, <1>3, <1>4, <1>5

\* All behind the first unit is the tail.
LEMMA FollowsTail ==
    ASSUME NEW w \in Seq(Units), NEW s \in Seq(Units), w # <<>>,
           Follows(s, 1, w), Len(s) = Len(w) - 1
    PROVE  s = Tail(w)
<1>1. Tail(w) \in Seq(Units) /\ Len(Tail(w)) = Len(w) - 1
      /\ \A k \in 1 .. Len(w) - 1 : Tail(w)[k] = w[k + 1]
  OBVIOUS
<1>2. \A k \in 1 .. Len(s) : s[k] = Tail(w)[k]
  BY <1>1 DEF Follows
<1> QED BY <1>1, <1>2, SeqEqual

-----------------------------------------------------------------------------
(***************************************************************************)
(* Descriptors.                                                            *)
(***************************************************************************)

\* A set of naturals has a least element: of the intervals 0 .. x that it
\* gives, one contains no other.
LEMMA LeastNatural ==
    ASSUME NEW T, T \subseteq Nat, T # {}
    PROVE  \E x \in T : \A y \in T : x <= y
<1> DEFINE R == StrictSubsetOrdering(Nat)
           D == {0 .. x : x \in T}
<1>1. D \subseteq FiniteSubsetsOf(Nat)
  <2>1. ASSUME NEW x \in T PROVE IsFiniteSet(0 .. x) /\ 0 .. x \subseteq Nat
    <3>1. x \in Int
      OBVIOUS
    <3> QED BY <3>1, FS_Interval
  <2> QED BY <2>1 DEF FiniteSubsetsOf
<1>2. D # {}
  OBVIOUS
<1>3. \E d \in D : \A e \in D : ~(<<e, d>> \in R)
  <2>1. IsWellFoundedOn(R, FiniteSubsetsOf(Nat))
    BY FS_StrictSubsetOrderingWellFounded
  <2> HIDE DEF D, R
  <2> QED BY <1>1, <1>2, <2>1, WFMin
<1>4. PICK x \in T : \A y \in T : ~(<<0 .. y, 0 .. x>> \in R)
  BY <1>3
<1>5. ASSUME NEW y \in T, y < x
      PROVE  FALSE
  <2>1. 0 .. y \subseteq 0 .. x /\ 0 .. y # 0 .. x
    <3>1. x \in 0 .. x /\ x \notin 0 .. y
      BY <1>5
    <3> QED BY <1>5, <3>1
  <2>2. 0 .. y \in SUBSET Nat /\ 0 .. x \in SUBSET Nat
    OBVIOUS
  <2>3. <<0 .. y, 0 .. x>> \in R
    BY <2>1, <2>2 DEF StrictSubsetOrdering
  <2> QED BY <1>4, <2>3
<1> QED BY <1>5

\* socket() gives a descriptor that is free.
LEMMA NewFdFree ==
    ASSUME NEW tab \in [Fds -> Nat], Free(tab) # {}
    PROVE  NewFd(tab) \in Fds /\ NewFd(tab) # 0 /\ tab[NewFd(tab)] = 0
<1> DEFINE T == Free(tab)
<1>1. T \subseteq Nat /\ T \subseteq Fds \ {0} /\ T # {}
  BY UringClientAssumption DEF Free
<1>2. \E x \in T : \A y \in T : x <= y
  <2> HIDE DEF T
  <2> QED BY <1>1, LeastNatural
<1>3. Min(T) \in T
  BY <1>2 DEF Min
<1> QED BY <1>1, <1>3 DEF NewFd, Free

-----------------------------------------------------------------------------
(***************************************************************************)
(* What the steps do to the ring: an operation is prepared and left in the *)
(* queue or submitted, the kernel completes one, the oldest completion has *)
(* its callback run or is taken.                                           *)
(***************************************************************************)

\* A new operation, before anybody has looked at it.
Fresh(o) ==
    /\ o \in Operation /\ o.st = "sq" /\ o.sock = 0
    /\ o.cb <= IF o.refused THEN 1 ELSE 0

\* The callback of an operation has not run too often.
CalledBack(i) ==
    ops[i].cb <= (IF ops[i].refused THEN 1 ELSE 0)
                 + (IF ops[i].st = "seen" \/ (looping = "callback" /\ Head(cq) = i)
                    THEN 1 ELSE 0)

LEMMA OpTypes ==
    ASSUME RingTypeOK, NEW i \in DOMAIN ops
    PROVE  /\ i \in Nat /\ ops[i] \in Operation /\ ops[i].op \in {"connect", "send", "recv"}
           /\ ops[i].fd \in Fds /\ ops[i].sock \in Nat /\ ops[i].len \in Nat
           /\ ops[i].st \in {"sq", "kernel", "cq", "seen"} /\ ops[i].res \in Int
           /\ ops[i].data \in Seq(Units) /\ ops[i].cb \in Nat /\ ops[i].refused \in BOOLEAN
<1>1. i \in Nat /\ ops[i] \in Operation
  BY DEF RingTypeOK
<1> QED BY <1>1 DEF Operation

LEMMA AppendedOp ==
    ASSUME RingTypeOK, NEW o \in Operation
    PROVE  /\ Append(ops, o) \in Seq(Operation) /\ Len(ops) \in Nat
           /\ Len(Append(ops, o)) = Len(ops) + 1
           /\ DOMAIN ops = 1 .. Len(ops) /\ DOMAIN Append(ops, o) = 1 .. Len(ops) + 1
           /\ \A i \in DOMAIN ops : Append(ops, o)[i] = ops[i]
           /\ Append(ops, o)[Len(ops) + 1] = o
<1>1. ops \in Seq(Operation)
  BY DEF RingTypeOK
<1> QED BY <1>1

\* The operations in the queue of completions.
LEMMA CqTypes ==
    ASSUME RingTypeOK
    PROVE  /\ cq \in Seq(Nat) /\ DOMAIN cq = 1 .. Len(cq) /\ Len(cq) \in Nat
           /\ \A k \in 1 .. Len(cq) : cq[k] \in DOMAIN ops /\ ops[cq[k]].st = "cq"
           /\ \A i \in DOMAIN ops : ops[i].st = "cq" => \E k \in 1 .. Len(cq) : cq[k] = i
           /\ \A j, k \in 1 .. Len(cq) : cq[j] = cq[k] => j = k
<1>1. cq \in Seq(Nat) /\ DOMAIN cq = 1 .. Len(cq) /\ Len(cq) \in Nat
  BY DEF RingTypeOK
<1>2. \A k \in 1 .. Len(cq) : cq[k] \in Range(cq)
  BY <1>1 DEF Range
<1>3. \A x \in Range(cq) : \E k \in 1 .. Len(cq) : cq[k] = x
  BY <1>1 DEF Range
<1>4. \A j, k \in 1 .. Len(cq) : cq[j] = cq[k] => j = k
  BY <1>1 DEF RingTypeOK, IsInjective
<1> QED BY <1>1, <1>2, <1>3, <1>4 DEF RingTypeOK

LEMMA CqHead ==
    ASSUME RingTypeOK, cq # <<>>
    PROVE  /\ Head(cq) \in DOMAIN ops /\ ops[Head(cq)].st = "cq" /\ Head(cq) = cq[1]
           /\ 1 \in 1 .. Len(cq)
<1>1. cq \in Seq(Nat) /\ Len(cq) \in Nat
  BY CqTypes
<1>2. Head(cq) = cq[1] /\ 1 \in 1 .. Len(cq)
  BY <1>1
<1> QED BY <1>2, CqTypes

\* How RingTypeOK of the next state is put together.
LEMMA RingTypeNext ==
    ASSUME ops' \in Seq(Operation), cq' \in Seq(Nat),
           \A k \in 1 .. Len(cq') : cq'[k] \in DOMAIN ops' /\ ops'[cq'[k]].st = "cq",
           \A i \in DOMAIN ops' : ops'[i].st = "cq" => \E k \in 1 .. Len(cq') : cq'[k] = i,
           \A j, k \in 1 .. Len(cq') : cq'[j] = cq'[k] => j = k,
           \A i \in DOMAIN ops' :
              ops'[i].sock <= Len(socks') /\ (ops'[i].st = "kernel" => ops'[i].sock # 0)
    PROVE  RingTypeOK'
<1>1. DOMAIN cq' = 1 .. Len(cq')
  OBVIOUS
<1>2. Range(cq') = {i \in DOMAIN ops' : ops'[i].st = "cq"}
  <2>1. \A x : x \in Range(cq') <=> \E k \in 1 .. Len(cq') : cq'[k] = x
    BY <1>1 DEF Range
  <2>2. \A x \in Range(cq') : x \in DOMAIN ops' /\ ops'[x].st = "cq"
    BY <2>1
  <2>3. \A x \in DOMAIN ops' : ops'[x].st = "cq" => x \in Range(cq')
    BY <2>1
  <2> QED BY <2>2, <2>3
<1>3. IsInjective(cq')
  BY <1>1 DEF IsInjective
<1> QED BY <1>2, <1>3 DEF RingTypeOK

\* No operation is prepared, completed or taken.
LEMMA RingSame ==
    ASSUME RingTypeOK, UNCHANGED <<ops, cq>>, Len(socks) \in Nat, Len(socks') \in Nat,
           Len(socks') >= Len(socks)
    PROVE  RingTypeOK' /\ InFlight' = InFlight
<1>1. \A i \in DOMAIN ops : ops[i].sock <= Len(socks')
  BY OpTypes DEF RingTypeOK
<1> QED BY <1>1 DEF RingTypeOK, InFlight

\* One is prepared and stays in the queue.
LEMMA RingQueued ==
    ASSUME RingTypeOK, NEW o, Fresh(o), ops' = Append(ops, o), cq' = cq,
           Len(socks) \in Nat, Len(socks') \in Nat, Len(socks') >= Len(socks)
    PROVE  /\ RingTypeOK' /\ InFlight' = InFlight \cup {Len(ops) + 1}
           /\ \A i \in DOMAIN ops : ops'[i] = ops[i]
<1>1. o \in Operation /\ o.st = "sq" /\ o.sock = 0
  BY DEF Fresh
<1>2. /\ ops' \in Seq(Operation) /\ Len(ops) \in Nat
      /\ DOMAIN ops = 1 .. Len(ops) /\ DOMAIN ops' = 1 .. Len(ops) + 1
      /\ \A i \in DOMAIN ops : ops'[i] = ops[i]
      /\ ops'[Len(ops) + 1] = o
  BY <1>1, AppendedOp
<1>3. ASSUME NEW i \in DOMAIN ops', i # Len(ops) + 1
      PROVE  i \in DOMAIN ops
  BY <1>2, <1>3
<1>4. \A i \in DOMAIN ops' : ops'[i].sock <= Len(socks') /\ (ops'[i].st = "kernel" => ops'[i].sock # 0)
  BY <1>1, <1>2, <1>3, OpTypes DEF RingTypeOK
<1>5. \A i \in DOMAIN ops : i \in DOMAIN ops'
  BY <1>2
<1>6. RingTypeOK'
  <2>1. cq' \in Seq(Nat)
    BY CqTypes
  <2>2. \A k \in 1 .. Len(cq') : cq'[k] \in DOMAIN ops' /\ ops'[cq'[k]].st = "cq"
    BY <1>2, <1>5, CqTypes
  <2>3. \A i \in DOMAIN ops' : ops'[i].st = "cq" => \E k \in 1 .. Len(cq') : cq'[k] = i
    BY <1>1, <1>2, <1>3, CqTypes
  <2>4. \A j, k \in 1 .. Len(cq') : cq'[j] = cq'[k] => j = k
    BY CqTypes
  <2> QED BY <1>2, <1>4, <2>1, <2>2, <2>3, <2>4, RingTypeNext
<1>7. InFlight' = InFlight \cup {Len(ops) + 1}
  <2>1. Len(ops) + 1 \in DOMAIN ops'
    BY <1>2
  <2> QED BY <1>1, <1>2, <1>3, <1>5, <2>1 DEF InFlight
<1> QED BY <1>2, <1>6, <1>7

\* An entry that was refused is one that is left in the queue, its callback run.
LEMMA RefuseIsAppend ==
    ASSUME RingTypeOK, NEW o, Fresh(o), o.cb = 0, Refuse(Append(ops, o))
    PROVE  \E p : Fresh(p) /\ ops' = Append(ops, p) /\ cq' = cq
<1> DEFINE os == Append(ops, o)
           p == [o EXCEPT !.cb = 1, !.refused = TRUE]
<1>1. o \in Operation
  BY DEF Fresh
<1>2. /\ os \in Seq(Operation) /\ Len(ops) \in Nat /\ Len(os) = Len(ops) + 1
      /\ DOMAIN ops = 1 .. Len(ops) /\ DOMAIN os = 1 .. Len(ops) + 1
      /\ \A i \in DOMAIN ops : os[i] = ops[i]
      /\ os[Len(ops) + 1] = o
  BY <1>1, AppendedOp
<1>3. p \in Operation /\ p.st = o.st /\ p.sock = o.sock /\ p.cb = 1 /\ p.refused = TRUE
  BY <1>1 DEF Operation
<1>4. Fresh(p)
  BY <1>3 DEF Fresh
<1>5. /\ Append(ops, p) \in Seq(Operation) /\ Len(Append(ops, p)) = Len(ops) + 1
      /\ DOMAIN Append(ops, p) = 1 .. Len(ops) + 1
      /\ \A i \in DOMAIN ops : Append(ops, p)[i] = ops[i]
      /\ Append(ops, p)[Len(ops) + 1] = p
  BY <1>3, AppendedOp
<1>6. ops' = [[os EXCEPT ![Len(os)].cb = 1] EXCEPT ![Len(os)].refused = TRUE] /\ cq' = cq
  BY DEF Refuse
<1>7. ops' = [os EXCEPT ![Len(ops) + 1] = p]
  BY <1>2, <1>6
<1> HIDE DEF p, os
<1>8. ops' \in Seq(Operation) /\ Len(ops') = Len(ops) + 1
      /\ \A i \in 1 .. Len(ops) + 1 : ops'[i] = IF i = Len(ops) + 1 THEN p ELSE os[i]
  BY <1>2, <1>3, <1>7, ExceptSeq
<1>9. \A i \in 1 .. Len(ops) + 1 : ops'[i] = Append(ops, p)[i]
  BY <1>2, <1>5, <1>8
<1>10. ops' = Append(ops, p)
  BY <1>5, <1>8, <1>9, SeqEqual
<1> QED BY <1>4, <1>6, <1>10

\* q has each of the numbers in S once.
Lists(q, S) ==
    /\ q \in Seq(Nat) /\ Len(q) \in Nat
    /\ \A k \in 1 .. Len(q) : q[k] \in S
    /\ \A x \in S : \E k \in 1 .. Len(q) : q[k] = x
    /\ \A j, k \in 1 .. Len(q) : q[j] = q[k] => j = k
    /\ S = {} => q = <<>>

\* What a list of a set of naturals, oldest first, is.
LEMMA OldestFirstLists ==
    ASSUME NEW S, S \subseteq Nat, IsFiniteSet(S), NEW q \in OldestFirst(S)
    PROVE  Lists(q, S)
<1>1. Cardinality(S) \in Nat
  BY FS_CardinalityType
<1>2. q \in [1 .. Cardinality(S) -> S] /\ Range(q) = S
      /\ \A j, k \in DOMAIN q : j < k => q[j] < q[k]
  BY DEF OldestFirst
<1>3. q \in Seq(S) /\ Len(q) = Cardinality(S)
  BY <1>1, <1>2
<1>4. \A k \in 1 .. Len(q) : q[k] \in S /\ q[k] \in Nat
  BY <1>2, <1>3
<1>5. q \in Seq(Nat)
  BY <1>1, <1>2, <1>3, <1>4
<1>6. \A x \in S : \E k \in 1 .. Len(q) : q[k] = x
  BY <1>2, <1>3 DEF Range
<1>7. ASSUME NEW j \in 1 .. Len(q), NEW k \in 1 .. Len(q), q[j] = q[k]
      PROVE  j = k
  <2>1. j < k => q[j] < q[k]
    BY <1>2, <1>3
  <2>2. k < j => q[k] < q[j]
    BY <1>2, <1>3
  <2> QED BY <1>1, <1>3, <1>4, <1>7, <2>1, <2>2
<1>8. S = {} => q = <<>>
  BY <1>2, <1>3, FS_EmptySet
<1> QED BY <1>1, <1>3, <1>4, <1>5, <1>6, <1>7, <1>8 DEF Lists

\* One is prepared, and all in the queue are submitted.
LEMMA RingSubmitted ==
    ASSUME RingTypeOK, NEW o, Fresh(o), Len(socks) \in Nat, Len(socks') \in Nat,
           Len(socks') >= Len(socks), NEW tab \in [Fds -> 0 .. Len(socks')],
           Submit(Append(ops, o), tab)
    PROVE  /\ RingTypeOK' /\ InFlight' = InFlight \cup {Len(ops) + 1}
           /\ ops' = Submitted(Append(ops, o), tab)
           /\ Len(ops') = Len(ops) + 1 /\ DOMAIN ops' = 1 .. Len(ops) + 1
           /\ \E q \in Seq(Nat) : cq' = cq \o q
           /\ FailedAtOnce(Append(ops, o), tab) = {} => cq' = cq
<1> DEFINE os == Append(ops, o)
           S  == FailedAtOnce(os, tab)
<1>1. o \in Operation /\ o.st = "sq" /\ o.sock = 0
  BY DEF Fresh
<1>2. /\ os \in Seq(Operation) /\ Len(ops) \in Nat /\ Len(os) = Len(ops) + 1
      /\ DOMAIN ops = 1 .. Len(ops) /\ DOMAIN os = 1 .. Len(ops) + 1
      /\ \A i \in DOMAIN ops : os[i] = ops[i]
      /\ os[Len(ops) + 1] = o
  BY <1>1, AppendedOp
<1>3. PICK q \in OldestFirst(S) : cq' = cq \o q
  BY DEF Submit
<1>4. S \subseteq Nat /\ IsFiniteSet(S) /\ S \subseteq DOMAIN os
  <2>1. S \subseteq 1 .. Len(os)
    BY <1>2 DEF FailedAtOnce
  <2>2. IsFiniteSet(1 .. Len(os))
    BY <1>2, FS_Interval
  <2>3. IsFiniteSet(S)
    BY <2>1, <2>2, FS_Subset
  <2> QED BY <1>2, <2>1, <2>3
<1>5. /\ q \in Seq(Nat) /\ Len(q) \in Nat
      /\ \A k \in 1 .. Len(q) : q[k] \in S
      /\ \A x \in S : \E k \in 1 .. Len(q) : q[k] = x
      /\ \A j, k \in 1 .. Len(q) : q[j] = q[k] => j = k
      /\ S = {} => q = <<>>
  <2>1. S \subseteq Nat /\ IsFiniteSet(S) /\ q \in OldestFirst(S)
    BY <1>3, <1>4
  <2>2. Lists(q, S)
    <3> HIDE DEF S
    <3> QED BY <2>1, OldestFirstLists
  <2> QED BY <2>2 DEF Lists
<1>6. ops' = Submitted(os, tab)
  BY DEF Submit
<1> HIDE DEF os
<1>7. \A i \in DOMAIN os : os[i] \in Operation /\ os[i].fd \in Fds /\ os[i].sock \in Nat
                           /\ os[i].st \in {"sq", "kernel", "cq", "seen"}
  <2>1. \A i \in DOMAIN os : os[i] \in Operation
    BY <1>2
  <2> QED BY <2>1 DEF Operation
<1>8. \A i \in DOMAIN os : tab[os[i].fd] \in 0 .. Len(socks')
  BY <1>7
<1>9. ASSUME NEW i \in DOMAIN os
      PROVE  /\ i \in DOMAIN ops' /\ ops'[i] \in Operation
             /\ ops'[i].st = IF os[i].st # "sq" THEN os[i].st
                             ELSE IF tab[os[i].fd] = 0 THEN "cq" ELSE "kernel"
             /\ ops'[i].sock = IF os[i].st # "sq" \/ tab[os[i].fd] = 0 THEN os[i].sock
                               ELSE tab[os[i].fd]
  <2>1. i \in DOMAIN ops'
        /\ ops'[i] = IF os[i].st # "sq" THEN os[i]
                     ELSE IF tab[os[i].fd] = 0 THEN [os[i] EXCEPT !.st = "cq", !.res = -1]
                     ELSE [os[i] EXCEPT !.st = "kernel", !.sock = tab[os[i].fd]]
    BY <1>6 DEF Submitted
  <2>2. CASE os[i].st # "sq"
    BY <1>7, <2>1, <2>2
  <2>3. CASE os[i].st = "sq" /\ tab[os[i].fd] = 0
    <3>1. -1 \in Int
      OBVIOUS
    <3> QED BY <1>7, <2>1, <2>3, <3>1 DEF Operation
  <2>4. CASE os[i].st = "sq" /\ tab[os[i].fd] # 0
    <3>1. tab[os[i].fd] \in Nat
      BY <1>8
    <3> QED BY <1>7, <2>1, <2>4, <3>1 DEF Operation
  <2> QED BY <2>2, <2>3, <2>4
<1>10. DOMAIN ops' = DOMAIN os
  BY <1>6 DEF Submitted
<1>11. ops' \in Seq(Operation) /\ Len(ops') = Len(ops) + 1
  <2>1. ops' = [i \in 1 .. Len(ops) + 1 |-> ops'[i]]
    BY <1>2, <1>6, <1>10 DEF Submitted
  <2>2. \A i \in 1 .. Len(ops) + 1 : ops'[i] \in Operation
    BY <1>2, <1>9
  <2> QED BY <1>2, <2>1, <2>2
<1>12. \A i \in DOMAIN os : i \in S <=> os[i].st = "sq" /\ tab[os[i].fd] = 0
  BY DEF FailedAtOnce
<1>13. \A i \in DOMAIN os : ops'[i].st = "cq" <=> os[i].st = "cq" \/ i \in S
  BY <1>9, <1>12
<1>14. \A i \in DOMAIN os : i \in DOMAIN ops \/ i = Len(ops) + 1
  BY <1>2
<1>15. \A i \in DOMAIN ops : i \in DOMAIN os /\ os[i] = ops[i]
  BY <1>2
<1>16. \A i \in DOMAIN ops' :
          ops'[i].sock <= Len(socks') /\ (ops'[i].st = "kernel" => ops'[i].sock # 0)
  <2>1. \A i \in DOMAIN os : os[i].sock <= Len(socks')
                             /\ (os[i].st = "kernel" => os[i].sock # 0)
    BY <1>1, <1>2, <1>14, OpTypes DEF RingTypeOK
  <2> QED BY <1>7, <1>8, <1>9, <1>10, <2>1
<1>17. InFlight' = InFlight \cup {Len(ops) + 1}
  <2>1. \A i \in DOMAIN os : ops'[i].st \in {"sq", "kernel", "cq"}
                             <=> os[i].st \in {"sq", "kernel", "cq"}
    BY <1>9
  <2>2. \A i \in DOMAIN os : i \in InFlight' <=> os[i].st \in {"sq", "kernel", "cq"}
    BY <1>10, <2>1 DEF InFlight
  <2>3. \A i \in InFlight' : i \in DOMAIN os
    BY <1>10 DEF InFlight
  <2>4. Len(ops) + 1 \in DOMAIN os
    BY <1>2
  <2> QED BY <1>1, <1>2, <1>14, <1>15, <2>2, <2>3, <2>4 DEF InFlight
<1>18. RingTypeOK'
  <2>1. /\ Len(cq') = Len(cq) + Len(q) /\ cq' \in Seq(Nat) /\ Len(cq) \in Nat
        /\ \A k \in 1 .. Len(cq) : cq'[k] = cq[k]
        /\ \A k \in 1 .. Len(q) : cq'[Len(cq) + k] = q[k]
    BY <1>3, <1>5, CqTypes, ConcatProperties
  <2>2. ASSUME NEW k \in 1 .. Len(cq'), ~(k \in 1 .. Len(cq))
        PROVE  /\ k - Len(cq) \in 1 .. Len(q) /\ cq'[k] = q[k - Len(cq)] /\ cq'[k] \in S
    <3>1. k - Len(cq) \in 1 .. Len(q) /\ k = Len(cq) + (k - Len(cq))
      BY <1>5, <2>1, <2>2
    <3> QED BY <1>5, <2>1, <3>1
  <2>3. \A k \in 1 .. Len(cq) : cq'[k] \in DOMAIN ops /\ ops[cq'[k]].st = "cq"
    BY <2>1, CqTypes
  <2>4. \A k \in 1 .. Len(cq') : cq'[k] \in DOMAIN ops' /\ ops'[cq'[k]].st = "cq"
    BY <1>4, <1>10, <1>13, <1>15, <2>2, <2>3
  <2>5. ASSUME NEW i \in DOMAIN ops', ops'[i].st = "cq"
        PROVE  \E k \in 1 .. Len(cq') : cq'[k] = i
    <3>1. CASE i \in S
      <4>1. PICK k \in 1 .. Len(q) : q[k] = i
        BY <1>5, <3>1
      <4>2. cq'[Len(cq) + k] = i
        BY <2>1, <4>1
      <4>3. Len(cq) + k \in 1 .. Len(cq')
        BY <1>5, <2>1, <4>1
      <4> QED BY <4>2, <4>3
    <3>2. CASE i \notin S
      <4>1. i \in DOMAIN ops /\ ops[i].st = "cq"
        BY <1>1, <1>2, <1>10, <1>13, <1>14, <2>5, <3>2
      <4>2. PICK k \in 1 .. Len(cq) : cq[k] = i
        BY <4>1, CqTypes
      <4>3. k \in 1 .. Len(cq') /\ cq'[k] = i
        BY <1>5, <2>1, <4>2
      <4> QED BY <4>3
    <3> QED BY <3>1, <3>2
  <2>6. ASSUME NEW j \in 1 .. Len(cq'), NEW k \in 1 .. Len(cq'), cq'[j] = cq'[k]
        PROVE  j = k
    <3>1. \A n \in 1 .. Len(cq) : cq'[n] \notin S
      BY <1>12, <1>15, <2>3
    <3>2. CASE j \in 1 .. Len(cq) /\ k \in 1 .. Len(cq)
      BY <2>1, <2>6, <3>2, CqTypes
    <3>3. CASE ~(j \in 1 .. Len(cq)) /\ ~(k \in 1 .. Len(cq))
      <4>1. /\ j - Len(cq) \in 1 .. Len(q) /\ k - Len(cq) \in 1 .. Len(q)
            /\ q[j - Len(cq)] = q[k - Len(cq)]
        BY <2>2, <2>6, <3>3
      <4>2. j - Len(cq) = k - Len(cq)
        BY <1>5, <4>1
      <4> QED BY <2>1, <4>2
    <3>4. CASE (j \in 1 .. Len(cq)) # (k \in 1 .. Len(cq))
      BY <2>2, <2>6, <3>1, <3>4
    <3> QED BY <3>2, <3>3, <3>4
  <2> HIDE DEF S, os
  <2> QED BY <1>11, <1>16, <2>1, <2>4, <2>5, <2>6, RingTypeNext
<1>19. S = {} => cq' = cq
  BY <1>3, <1>5, CqTypes, ConcatEmptySeq
<1>20. \E p \in Seq(Nat) : cq' = cq \o p
  BY <1>3, <1>5
<1> QED BY <1>2, <1>6, <1>10, <1>11, <1>17, <1>18, <1>19, <1>20 DEF os

\* What a completion leaves of the ring.
Completed(i, r, d) ==
    /\ RingTypeOK' /\ InFlight' = InFlight /\ cq' = Append(cq, i)
    /\ Len(ops') = Len(ops) /\ DOMAIN ops' = DOMAIN ops
    /\ ops'[i] = [ops[i] EXCEPT !.st = "cq", !.res = r, !.data = d]
    /\ \A j \in DOMAIN ops : j # i => ops'[j] = ops[j]

\* The kernel completes one.
LEMMA RingCompleted ==
    ASSUME RingTypeOK, NEW i \in DOMAIN ops, ops[i].st = "kernel", NEW r \in Int,
           NEW d \in Seq(Units), Completes(i, r, d),
           Len(socks) \in Nat, Len(socks') \in Nat, Len(socks') >= Len(socks)
    PROVE  Completed(i, r, d)
<1> DEFINE o == [ops[i] EXCEPT !.st = "cq", !.res = r, !.data = d]
<1>1. ops \in Seq(Operation) /\ ops[i] \in Operation /\ DOMAIN ops = 1 .. Len(ops)
      /\ Len(ops) \in Nat
  BY OpTypes DEF RingTypeOK
<1>2. o \in Operation /\ o.st = "cq" /\ o.sock = ops[i].sock
  BY <1>1 DEF Operation
<1>3. ops' = [ops EXCEPT ![i] = o] /\ cq' = Append(cq, i)
  BY <1>1 DEF Completes
<1> HIDE DEF o
<1>4. /\ ops' \in Seq(Operation) /\ Len(ops') = Len(ops)
      /\ \A j \in DOMAIN ops : ops'[j] = IF j = i THEN o ELSE ops[j]
  BY <1>1, <1>2, <1>3, ExceptSeq
<1>5. DOMAIN ops' = DOMAIN ops
  BY <1>3
<1>6. InFlight' = InFlight
  BY <1>2, <1>4, <1>5 DEF InFlight
<1>7. /\ Len(cq') = Len(cq) + 1 /\ cq' \in Seq(Nat) /\ Len(cq) \in Nat
      /\ \A k \in 1 .. Len(cq) : cq'[k] = cq[k]
      /\ cq'[Len(cq) + 1] = i
  BY <1>1, <1>3, CqTypes
<1>8. \A k \in 1 .. Len(cq') : k \in 1 .. Len(cq) \/ k = Len(cq) + 1
  BY <1>7
<1>9. \A k \in 1 .. Len(cq) : cq[k] # i
  BY CqTypes
<1>10. RingTypeOK'
  <2>1. \A k \in 1 .. Len(cq') : cq'[k] \in DOMAIN ops' /\ ops'[cq'[k]].st = "cq"
    <3>1. ASSUME NEW k \in 1 .. Len(cq)
          PROVE  cq'[k] \in DOMAIN ops' /\ ops'[cq'[k]].st = "cq"
      <4>1. cq'[k] = cq[k] /\ cq[k] \in DOMAIN ops /\ ops[cq[k]].st = "cq" /\ cq[k] # i
        BY <1>7, <1>9, CqTypes
      <4> QED BY <1>4, <1>5, <4>1
    <3>2. i \in DOMAIN ops' /\ ops'[i].st = "cq"
      BY <1>2, <1>4, <1>5
    <3> QED BY <1>7, <1>8, <3>1, <3>2
  <2>2. ASSUME NEW j \in DOMAIN ops', ops'[j].st = "cq"
        PROVE  \E k \in 1 .. Len(cq') : cq'[k] = j
    <3>1. CASE j = i
      <4>1. Len(cq) + 1 \in 1 .. Len(cq')
        BY <1>7
      <4> QED BY <1>7, <3>1, <4>1
    <3>2. CASE j # i
      <4>1. j \in DOMAIN ops /\ ops[j].st = "cq"
        BY <1>4, <1>5, <2>2, <3>2
      <4>2. PICK k \in 1 .. Len(cq) : cq[k] = j
        BY <4>1, CqTypes
      <4>3. k \in 1 .. Len(cq') /\ cq'[k] = j
        BY <1>7, <4>2
      <4> QED BY <4>3
    <3> QED BY <3>1, <3>2
  <2>3. \A j, k \in 1 .. Len(cq') : cq'[j] = cq'[k] => j = k
    BY <1>7, <1>8, <1>9, CqTypes
  <2>4. \A j \in DOMAIN ops' :
           ops'[j].sock <= Len(socks') /\ (ops'[j].st = "kernel" => ops'[j].sock # 0)
    <3>1. \A j \in DOMAIN ops : ops[j].sock <= Len(socks') /\ (ops[j].st = "kernel" => ops[j].sock # 0)
      BY OpTypes DEF RingTypeOK
    <3> QED BY <1>2, <1>4, <1>5, <3>1
  <2> QED BY <1>4, <1>7, <2>1, <2>2, <2>3, <2>4, RingTypeNext
<1> QED BY <1>3, <1>4, <1>5, <1>6, <1>10 DEF o, Completed

\* The oldest completion is taken.
LEMMA RingTaken ==
    ASSUME RingTypeOK, cq # <<>>, cq' = Tail(cq), ops' = Seen(Head(cq)),
           Len(socks) \in Nat, Len(socks') \in Nat, Len(socks') >= Len(socks)
    PROVE  /\ RingTypeOK' /\ InFlight' = InFlight \ {Head(cq)} /\ Head(cq) \in InFlight
           /\ Len(ops') = Len(ops) /\ DOMAIN ops' = DOMAIN ops
           /\ \A j \in DOMAIN ops : j # Head(cq) => ops'[j] = ops[j]
           /\ ops'[Head(cq)].st = "seen" /\ ops'[Head(cq)].cb = ops[Head(cq)].cb
           /\ ops'[Head(cq)].refused = ops[Head(cq)].refused
<1> DEFINE i == Head(cq)
           o == [ops[i] EXCEPT !.st = "seen", !.data = <<>>, !.res = 0]
<1>1. ops \in Seq(Operation) /\ DOMAIN ops = 1 .. Len(ops) /\ Len(ops) \in Nat
  BY DEF RingTypeOK
<1>2. i \in DOMAIN ops /\ ops[i].st = "cq" /\ i = cq[1] /\ 1 \in 1 .. Len(cq)
  BY CqHead
<1>3. ops[i] \in Operation
  BY <1>2, OpTypes
<1>4. /\ o \in Operation /\ o.st = "seen" /\ o.sock = ops[i].sock /\ o.cb = ops[i].cb
      /\ o.refused = ops[i].refused
  <2>1. <<>> \in Seq(Units) /\ 0 \in Int
    OBVIOUS
  <2> QED BY <1>3, <2>1 DEF Operation
<1>5. ops' = [ops EXCEPT ![i] = o]
  BY <1>1, <1>2 DEF Seen
<1>6. cq' = Tail(cq)
  OBVIOUS
<1> HIDE DEF o, i
<1>7. /\ ops' \in Seq(Operation) /\ Len(ops') = Len(ops)
      /\ \A j \in DOMAIN ops : ops'[j] = IF j = i THEN o ELSE ops[j]
  <2>1. i \in 1 .. Len(ops)
    BY <1>1, <1>2
  <2> QED BY <1>1, <1>4, <1>5, <2>1, ExceptSeq
<1>8. DOMAIN ops' = DOMAIN ops
  BY <1>5
<1>9. InFlight' = InFlight \ {i} /\ i \in InFlight
  BY <1>2, <1>4, <1>7, <1>8 DEF InFlight
<1>10. /\ Len(cq') = Len(cq) - 1 /\ cq' \in Seq(Nat) /\ Len(cq) \in Nat
       /\ \A k \in 1 .. Len(cq') : cq'[k] = cq[k + 1] /\ k + 1 \in 1 .. Len(cq)
  BY <1>2, <1>6, CqTypes
<1>11. \A k \in 1 .. Len(cq') : cq'[k] # i
  <2>1. ASSUME NEW k \in 1 .. Len(cq'), cq'[k] = i
        PROVE  FALSE
    <3>1. k + 1 \in 1 .. Len(cq) /\ cq[k + 1] = cq[1]
      BY <1>2, <1>10, <2>1
    <3>2. k + 1 = 1
      BY <1>2, <3>1, CqTypes
    <3> QED BY <3>2
  <2> QED BY <2>1
<1>12. RingTypeOK'
  <2>1. \A k \in 1 .. Len(cq') : cq'[k] \in DOMAIN ops' /\ ops'[cq'[k]].st = "cq"
    <3>1. ASSUME NEW k \in 1 .. Len(cq')
          PROVE  cq'[k] \in DOMAIN ops' /\ ops'[cq'[k]].st = "cq"
      <4>1. cq'[k] = cq[k + 1] /\ cq[k + 1] \in DOMAIN ops /\ ops[cq[k + 1]].st = "cq"
            /\ cq'[k] # i
        BY <1>10, <1>11, CqTypes
      <4> QED BY <1>7, <1>8, <4>1
    <3> QED BY <3>1
  <2>2. ASSUME NEW j \in DOMAIN ops', ops'[j].st = "cq"
        PROVE  \E k \in 1 .. Len(cq') : cq'[k] = j
    <3>1. j # i /\ ops[j].st = "cq"
      BY <1>4, <1>7, <1>8, <2>2
    <3>2. PICK k \in 1 .. Len(cq) : cq[k] = j
      BY <1>8, <3>1, CqTypes
    <3>3. k # 1
      BY <1>2, <3>1, <3>2
    <3>4. k - 1 \in 1 .. Len(cq') /\ (k - 1) + 1 = k
      BY <1>10, <3>3
    <3>5. cq'[k - 1] = cq[(k - 1) + 1]
      BY <1>10, <3>4
    <3> QED BY <3>2, <3>4, <3>5
  <2>3. ASSUME NEW j \in 1 .. Len(cq'), NEW k \in 1 .. Len(cq'), cq'[j] = cq'[k]
        PROVE  j = k
    <3>1. j + 1 \in 1 .. Len(cq) /\ k + 1 \in 1 .. Len(cq) /\ cq[j + 1] = cq[k + 1]
      BY <1>10, <2>3
    <3>2. j + 1 = k + 1
      BY <3>1, CqTypes
    <3> QED BY <3>2
  <2>4. \A j \in DOMAIN ops' :
           ops'[j].sock <= Len(socks') /\ (ops'[j].st = "kernel" => ops'[j].sock # 0)
    <3>1. \A j \in DOMAIN ops : ops[j].sock <= Len(socks') /\ (ops[j].st = "kernel" => ops[j].sock # 0)
      BY OpTypes DEF RingTypeOK
    <3> QED BY <1>2, <1>4, <1>7, <1>8, <3>1
  <2> QED BY <1>7, <1>10, <2>1, <2>2, <2>3, <2>4, RingTypeNext
<1> QED BY <1>2, <1>4, <1>7, <1>8, <1>9, <1>12 DEF i

\* A callback runs.
LEMMA RingCallsBack ==
    ASSUME RingTypeOK, cq # <<>>, cq' = cq, ops' = [ops EXCEPT ![Head(cq)].cb = @ + 1],
           socks' = socks
    PROVE  /\ RingTypeOK' /\ InFlight' = InFlight
           /\ Len(ops') = Len(ops) /\ DOMAIN ops' = DOMAIN ops
           /\ \A j \in DOMAIN ops : j # Head(cq) => ops'[j] = ops[j]
           /\ ops'[Head(cq)].st = "cq" /\ ops'[Head(cq)].cb = ops[Head(cq)].cb + 1
           /\ ops'[Head(cq)].refused = ops[Head(cq)].refused
<1> DEFINE i == Head(cq)
           o == [ops[i] EXCEPT !.cb = @ + 1]
<1>1. ops \in Seq(Operation) /\ DOMAIN ops = 1 .. Len(ops) /\ Len(ops) \in Nat
  BY DEF RingTypeOK
<1>2. i \in DOMAIN ops /\ ops[i].st = "cq"
  BY CqHead
<1>3. ops[i] \in Operation /\ ops[i].cb \in Nat
  BY <1>2, OpTypes
<1>4. /\ o \in Operation /\ o.st = "cq" /\ o.sock = ops[i].sock /\ o.cb = ops[i].cb + 1
      /\ o.refused = ops[i].refused
  BY <1>2, <1>3 DEF Operation
<1>5. ops' = [ops EXCEPT ![i] = o]
  BY <1>1, <1>2
<1> HIDE DEF o, i
<1>6. /\ ops' \in Seq(Operation) /\ Len(ops') = Len(ops)
      /\ \A j \in DOMAIN ops : ops'[j] = IF j = i THEN o ELSE ops[j]
  <2>1. i \in 1 .. Len(ops)
    BY <1>1, <1>2
  <2> DEFINE e == [ops EXCEPT ![i] = o]
  <2>2. /\ e \in Seq(Operation) /\ Len(e) = Len(ops)
        /\ \A j \in 1 .. Len(ops) : e[j] = IF j = i THEN o ELSE ops[j]
    BY <1>1, <1>4, <2>1, ExceptSeq
  <2>3. ops' = e
    BY <1>5
  <2> HIDE DEF e
  <2> QED BY <1>1, <2>2, <2>3
<1>7. DOMAIN ops' = DOMAIN ops
  BY <1>5
<1>8. \A j \in DOMAIN ops : ops'[j].st = ops[j].st /\ ops'[j].sock = ops[j].sock
  BY <1>2, <1>4, <1>6
<1>9. InFlight' = InFlight
  BY <1>7, <1>8 DEF InFlight
<1>10. RingTypeOK'
  BY <1>6, <1>7, <1>8, CqTypes, RingTypeNext DEF RingTypeOK
<1> QED BY <1>2, <1>4, <1>6, <1>7, <1>9, <1>10 DEF i

\* CalledBackOnce survives a step that runs no callback.
LEMMA CalledBackStays ==
    ASSUME RingTypeOK, RingTypeOK', CalledBackOnce, looping' = looping \/ looping' # "callback",
           looping' = "callback" => Head(cq') = Head(cq),
           \A i \in DOMAIN ops : looping = "callback" /\ looping' # "callback" /\ Head(cq) = i
                                 => ops'[i].st = "seen",
           \A i \in DOMAIN ops :
              /\ ops'[i].cb = ops[i].cb /\ ops'[i].refused = ops[i].refused
              /\ ops[i].st = "seen" => ops'[i].st = "seen",
           \A i \in DOMAIN ops' :
              i \in DOMAIN ops \/ ops'[i].cb <= IF ops'[i].refused THEN 1 ELSE 0
    PROVE  CalledBackOnce'
<1>1. ASSUME NEW i \in DOMAIN ops'
      PROVE  CalledBack(i)'
  <2>1. ops'[i].cb \in Nat /\ ops'[i].refused \in BOOLEAN
    <3>1. ops'[i] \in Operation
      BY DEF RingTypeOK
    <3> QED BY <3>1 DEF Operation
  <2>2. CASE i \in DOMAIN ops
    <3>1. ops[i].cb <= (IF ops[i].refused THEN 1 ELSE 0)
                       + (IF ops[i].st = "seen" \/ (looping = "callback" /\ Head(cq) = i)
                          THEN 1 ELSE 0)
      BY <2>2 DEF CalledBackOnce
    <3> QED BY <2>1, <2>2, <3>1 DEF CalledBack
  <2>3. CASE i \notin DOMAIN ops
    BY <2>1, <2>3 DEF CalledBack
  <2> QED BY <2>2, <2>3
<1> QED BY <1>1 DEF CalledBackOnce, CalledBack

-----------------------------------------------------------------------------
(***************************************************************************)
(* What the steps do to the socket and to the method.                      *)
(***************************************************************************)

\* The blocking methods keep no socket open but the one in m_fd.
OwnOpen == user # "callbacks" => \A f \in Fds : fdTable[f] # 0 => f = m_fd

\* What is said of the socket and the method.
UserInv == SocketTypeOK /\ UserTypeOK /\ RoleInv /\ OwnOpen

LEMMA NoMethodType ==
    /\ NoMethod \in Method /\ NoMethod.op = "none" /\ NoMethod.n = 0 /\ NoMethod.len = 0
    /\ NoMethod.stage = "prep" /\ NoMethod.got = <<>>
    /\ Failed \in [ok : BOOLEAN, got : Seq(Units)] /\ ~Failed.ok /\ Failed.got = <<>>
<1>1. <<>> \in Seq(Units)
  OBVIOUS
<1> QED BY <1>1 DEF NoMethod, Method, Failed

LEMMA ConnectingType ==
    LET mt == [NoMethod EXCEPT !.op = "connect"] IN
    /\ mt \in Method /\ mt.op = "connect" /\ mt.len = 0 /\ mt.n = 0 /\ mt.stage = "prep"
    /\ mt.got = <<>>
<1>1. <<>> \in Seq(Units)
  OBVIOUS
<1> QED BY <1>1 DEF NoMethod, Method

LEMMA SocketTypes ==
    ASSUME SocketTypeOK
    PROVE  /\ Len(socks) \in Nat /\ DOMAIN socks = 1 .. Len(socks) /\ 0 \notin Fds
           /\ \A f \in Fds : fdTable[f] \in Nat /\ fdTable[f] <= Len(socks)
           /\ m_fd # 0 => m_fd \in Fds
           /\ \A s \in DOMAIN socks :
                 /\ socks[s] \in Socket /\ socks[s].req \in Nat /\ socks[s].eof \in BOOLEAN
                 /\ socks[s].out \in Seq(Units) /\ socks[s].sent \in Seq(Units)
<1>1. socks \in Seq(Socket) /\ 0 \notin Fds
  BY UringClientAssumption DEF SocketTypeOK
<1>2. \A s \in DOMAIN socks : socks[s] \in Socket
  BY <1>1
<1>3. Len(socks) \in Nat /\ DOMAIN socks = 1 .. Len(socks)
  BY <1>1
<1>4. \A f \in Fds : fdTable[f] \in 0 .. Len(socks)
  BY DEF SocketTypeOK
<1>5. m_fd # 0 => m_fd \in Fds
  BY DEF SocketTypeOK
<1> QED BY <1>1, <1>2, <1>3, <1>4, <1>5 DEF Socket

\* Close.
LEMMA SocketClosed ==
    ASSUME SocketTypeOK, m_fd' = 0, fdTable' = Closed(fdTable, m_fd), socks' = socks
    PROVE  /\ SocketTypeOK' /\ (OwnOpen /\ user' = user => OwnOpen')
<1>1. Closed(fdTable, m_fd) \in [Fds -> 0 .. Len(socks)]
      /\ \A f \in Fds : Closed(fdTable, m_fd)[f] # 0 => f # m_fd /\ fdTable[f] # 0
  BY SocketTypes DEF SocketTypeOK, Closed
<1> QED BY <1>1 DEF SocketTypeOK, OwnOpen

\* A new socket in m_fd, given the descriptors that are open.
LEMMA SocketOpened ==
    ASSUME SocketTypeOK, NEW tab \in [Fds -> 0 .. Len(socks)], Free(tab) # {},
           m_fd' = NewFd(tab), fdTable' = Opened(tab), socks' = Append(socks, NewSocket)
    PROVE  /\ SocketTypeOK' /\ m_fd' \in Fds /\ m_fd' # 0 /\ fdTable'[m_fd'] = Len(socks')
           /\ Len(socks') = Len(socks) + 1
           /\ \A f \in Fds : fdTable'[f] # 0 => tab[f] # 0 \/ f = m_fd'
           /\ Opened(tab) \in [Fds -> 0 .. Len(socks')]
<1>1. Len(socks) \in Nat /\ socks \in Seq(Socket)
  BY SocketTypes DEF SocketTypeOK
<1>2. tab \in [Fds -> Nat]
  BY <1>1
<1>3. NewFd(tab) \in Fds /\ NewFd(tab) # 0
  BY <1>2, NewFdFree
<1>4. NewSocket \in Socket
  <2>1. <<>> \in Seq(Units)
    OBVIOUS
  <2> QED BY <2>1 DEF NewSocket, Socket
<1>5. socks' \in Seq(Socket) /\ Len(socks') = Len(socks) + 1
  BY <1>1, <1>4
<1>6. Opened(tab) \in [Fds -> 0 .. Len(socks')] /\ fdTable'[m_fd'] = Len(socks) + 1
      /\ \A f \in Fds : fdTable'[f] = IF f = m_fd' THEN Len(socks) + 1 ELSE tab[f]
  BY <1>1, <1>3, <1>5 DEF Opened
<1> QED BY <1>3, <1>5, <1>6 DEF SocketTypeOK

\* One socket changes, its descriptors do not.
LEMMA SocketMoves ==
    ASSUME SocketTypeOK, UNCHANGED <<m_fd, fdTable>>, NEW s \in DOMAIN socks,
           NEW x \in Socket, socks' = [socks EXCEPT ![s] = x]
    PROVE  SocketTypeOK' /\ Len(socks') = Len(socks) /\ DOMAIN socks' = DOMAIN socks
<1>1. socks \in Seq(Socket) /\ s \in 1 .. Len(socks)
  BY SocketTypes DEF SocketTypeOK
<1>2. socks' \in Seq(Socket) /\ Len(socks') = Len(socks)
  BY <1>1, ExceptSeq
<1> QED BY <1>2 DEF SocketTypeOK

\* A method that fails.
LEMMA MethodFails ==
    ASSUME UserInv, Fails, UNCHANGED <<socks, looping, user, at>>, faults' \in Nat
    PROVE  UserInv' /\ ~InMethod'
<1> USE DEF UserInv
<1>1. method' = NoMethod /\ ret' = Failed
  BY DEF Fails, Returns
<1>2. SocketTypeOK' /\ OwnOpen' /\ (m_fd' = 0 \/ (m_fd' = m_fd /\ fdTable' = fdTable))
  <2>1. CASE method.op = "connect"
    <3>1. m_fd' = 0 /\ fdTable' = Closed(fdTable, m_fd) /\ socks' = socks /\ user' = user
      BY <2>1 DEF Fails
    <3> QED BY <3>1, SocketClosed
  <2>2. CASE method.op # "connect"
    BY <2>2 DEF Fails, SocketTypeOK, OwnOpen
  <2> QED BY <2>1, <2>2
<1>3. UserTypeOK' /\ ~InMethod'
  BY <1>1, NoMethodType DEF UserTypeOK, InMethod
<1>4. RoleInv'
  BY <1>2, <1>3 DEF RoleInv, InMethod, Over
<1> QED BY <1>2, <1>3, <1>4

\* Where a user stands when it is not at the beginning or the end of a call.
Stands ==
    /\ at' \in {"idle", "connect", "write", "size", "body"}
    /\ user' = user /\ user # "callbacks" /\ (user = "call") = (at' # "idle")

LEMMA ConnectUser ==
    ASSUME UserInv, Stands, Connect
    PROVE  UserInv' /\ (InMethod' => m_fd' # 0) /\ Len(socks') \in Nat /\ Len(socks') >= Len(socks)
<1> USE DEF UserInv
<1> DEFINE tab == Closed(fdTable, m_fd)
<1>1. tab \in [Fds -> 0 .. Len(socks)] /\ \A f \in Fds : tab[f] = 0
  BY SocketTypes DEF SocketTypeOK, Closed, OwnOpen, Stands
<1>2. Len(socks) \in Nat
  BY SocketTypes
<1>3. CASE /\ m_fd' = NewFd(tab) /\ fdTable' = Opened(tab)
           /\ socks' = Append(socks, NewSocket)
           /\ method' = [NoMethod EXCEPT !.op = "connect"]
           /\ UNCHANGED ret
  <2>1. Free(tab) # {}
    BY DEF Connect
  <2> HIDE DEF tab
  <2>2. /\ SocketTypeOK' /\ m_fd' \in Fds /\ m_fd' # 0 /\ fdTable'[m_fd'] = Len(socks')
        /\ Len(socks') = Len(socks) + 1
        /\ \A f \in Fds : fdTable'[f] # 0 => tab[f] # 0 \/ f = m_fd'
    BY <1>1, <1>3, <2>1, SocketOpened
  <2>3. OwnOpen'
    BY <1>1, <2>2 DEF OwnOpen
  <2>4. UserTypeOK'
    BY <1>3, ConnectingType DEF UserTypeOK, Connect, Stands
  <2>5. RoleInv'
    BY <1>2, <2>2 DEF RoleInv, Stands, Connect, Over
  <2> QED BY <1>2, <2>2, <2>3, <2>4, <2>5
<1>4. CASE m_fd' = 0 /\ fdTable' = tab /\ Returns(Failed) /\ UNCHANGED socks
  <2>1. SocketTypeOK' /\ OwnOpen'
    BY <1>1, <1>4 DEF SocketTypeOK, OwnOpen
  <2>2. UserTypeOK' /\ ~InMethod'
    BY <1>4, NoMethodType DEF UserTypeOK, Connect, Stands, Returns, InMethod
  <2>3. RoleInv'
    BY <1>4, <2>2 DEF RoleInv, Stands, Connect, Over
  <2> QED BY <1>2, <1>4, <2>1, <2>2, <2>3
<1> QED BY <1>3, <1>4 DEF Connect

LEMMA StartUser ==
    ASSUME UserInv, Stands, NEW op \in {"write", "exact", "some"}, NEW len \in Nat, Start(op, len)
    PROVE  UserInv'
<1> USE DEF UserInv
<1>1. SocketTypeOK' /\ OwnOpen'
  BY DEF SocketTypeOK, OwnOpen, Start, Stands
<1>2. CASE m_fd = 0
  <2>1. UserTypeOK' /\ ~InMethod'
    BY <1>2, NoMethodType DEF UserTypeOK, Start, Stands, Returns, InMethod
  <2>2. RoleInv'
    BY <1>2, <2>1 DEF RoleInv, Stands, Start, Over
  <2> QED BY <1>1, <2>1, <2>2
<1>3. CASE m_fd # 0
  <2>1. UserTypeOK'
    <3>1. method' = [NoMethod EXCEPT !.op = op, !.len = len] /\ ret' = ret
      BY <1>3 DEF Start
    <3>2. method' \in Method /\ method'.n = 0 /\ method'.len = len
      <4>1. <<>> \in Seq(Units)
        OBVIOUS
      <4> QED BY <3>1, <4>1 DEF NoMethod, Method
    <3>3. method'.n <= method'.len
      BY <3>2
    <3> QED BY <3>1, <3>2, <3>3 DEF UserTypeOK, Start, Stands
  <2>2. RoleInv'
    BY <1>3 DEF RoleInv, Stands, Start, Over
  <2> QED BY <1>1, <2>1, <2>2
<1> QED BY <1>2, <1>3

LEMMA CloseUser ==
    ASSUME UserInv, ~InMethod, m_fd' = 0, fdTable' = Closed(fdTable, m_fd),
           UNCHANGED <<socks, method, ret, looping, faults, user>>,
           at' \in {"idle", "ok", "failed"}, (user = "call") = (at' # "idle")
    PROVE  UserInv'
<1> USE DEF UserInv
<1>1. SocketTypeOK' /\ OwnOpen'
  BY SocketClosed
<1>2. UserTypeOK'
  BY DEF UserTypeOK
<1>3. RoleInv'
  BY DEF RoleInv, InMethod, Over
<1> QED BY <1>1, <1>2, <1>3

\* The kernel and the server.
LEMMA SocketUser ==
    ASSUME UserInv, UNCHANGED <<m_fd, fdTable, method, ret, looping, faults, user, at>>,
           socks' = socks \/ \E s \in DOMAIN socks, x \in Socket : socks' = [socks EXCEPT ![s] = x]
    PROVE  UserInv' /\ Len(socks') = Len(socks) /\ DOMAIN socks' = DOMAIN socks
<1> USE DEF UserInv
<1>1. SocketTypeOK' /\ Len(socks') = Len(socks) /\ DOMAIN socks' = DOMAIN socks
  <2>1. CASE socks' = socks
    BY <2>1 DEF SocketTypeOK
  <2>2. CASE \E s \in DOMAIN socks, x \in Socket : socks' = [socks EXCEPT ![s] = x]
    BY <2>2, SocketMoves
  <2> QED BY <2>1, <2>2
<1>2. OwnOpen' /\ UserTypeOK' /\ RoleInv'
  BY DEF OwnOpen, UserTypeOK, RoleInv, InMethod, Over
<1> QED BY <1>1, <1>2

\* What AsyncConnect makes of the descriptors.
LEMMA AsyncConnectSockets ==
    ASSUME SocketTypeOK, AsyncConnect
    PROVE  /\ SocketTypeOK' /\ (m_fd' # 0 => fdTable'[m_fd'] # 0)
           /\ NewFd(fdTable) \in Fds /\ Opened(fdTable) \in [Fds -> 0 .. Len(socks')]
           /\ Len(socks) \in Nat /\ Len(socks') = Len(socks) + 1
<1> DEFINE tab == Opened(fdTable)
           fd  == NewFd(fdTable)
<1>1. Len(socks) \in Nat /\ fdTable \in [Fds -> 0 .. Len(socks)] /\ Free(fdTable) # {}
      /\ socks' = Append(socks, NewSocket)
  BY SocketTypes DEF SocketTypeOK, AsyncConnect
<1>2. fd \in Fds /\ fd # 0
  <2>1. fdTable \in [Fds -> Nat]
    BY <1>1
  <2> QED BY <1>1, <2>1, NewFdFree
<1>3. socks \in Seq(Socket) /\ NewSocket \in Socket
  <2>1. <<>> \in Seq(Units)
    OBVIOUS
  <2> QED BY <2>1 DEF NewSocket, Socket, SocketTypeOK
<1>4. socks' \in Seq(Socket) /\ Len(socks') = Len(socks) + 1
  BY <1>1, <1>3
<1>5. tab \in [Fds -> 0 .. Len(socks')] /\ tab[fd] = Len(socks) + 1
  BY <1>1, <1>2, <1>4 DEF Opened
<1> HIDE DEF tab, fd
<1>6. CASE m_fd' = fd /\ fdTable' = tab
  BY <1>1, <1>2, <1>4, <1>5, <1>6 DEF SocketTypeOK, tab, fd
<1>7. CASE m_fd' = 0 /\ fdTable' = Closed(tab, fd)
  <2>1. Closed(tab, fd) \in [Fds -> 0 .. Len(socks')]
    BY <1>1, <1>2, <1>4, <1>5 DEF Closed
  <2> QED BY <1>1, <1>2, <1>4, <1>5, <1>7, <2>1 DEF SocketTypeOK, tab, fd
<1> QED BY <1>6, <1>7 DEF AsyncConnect, tab, fd

\* The operation a method or a user prepares is a fresh one.
LEMMA SqeFresh ==
    ASSUME NEW op \in {"connect", "send", "recv"}, NEW fd \in Fds, NEW len \in Nat
    PROVE  /\ Fresh(Sqe(op, fd, len)) /\ Sqe(op, fd, len).cb = 0 /\ Sqe(op, fd, len).op = op
           /\ Sqe(op, fd, len).fd = fd /\ Sqe(op, fd, len).len = len
           /\ Sqe(op, fd, len).data = <<>>
<1>1. <<>> \in Seq(Units)
  OBVIOUS
<1> QED BY <1>1 DEF Fresh, Sqe, Operation

LEMMA SqeOfMethod ==
    ASSUME UserInv, InMethod
    PROVE  /\ Fresh(SqeOf(method)) /\ SqeOf(method).op = OpOf(method) /\ SqeOf(method).fd = m_fd
           /\ m_fd \in Fds /\ fdTable[m_fd] # 0 /\ SqeOf(method).data = <<>>
           /\ method.op # "connect" => SqeOf(method).len = method.len - method.n
           /\ method.op = "connect" => SqeOf(method).len = 0
<1>1. m_fd \in Fds /\ fdTable[m_fd] # 0
  BY SocketTypes DEF UserInv, RoleInv
<1>2. method \in Method /\ method.n <= method.len
  BY DEF UserInv, UserTypeOK
<1>3. method.len - method.n \in Nat /\ 0 \in Nat
  BY <1>2 DEF Method
<1>4. CASE method.op = "connect"
  BY <1>1, <1>4, SqeFresh DEF SqeOf, OpOf
<1>5. CASE method.op = "write"
  BY <1>1, <1>3, <1>5, SqeFresh DEF SqeOf, OpOf
<1>6. CASE method.op # "connect" /\ method.op # "write"
  BY <1>1, <1>3, <1>6, SqeFresh DEF SqeOf, OpOf
<1> QED BY <1>1, <1>4, <1>5, <1>6

\* The result a method takes.
LEMMA ResultTypes ==
    ASSUME RingTypeOK, TakesResult
    PROVE  /\ Result.res \in Int /\ Result.data \in Seq(Units) /\ Head(cq) \in DOMAIN ops
           /\ cq # <<>> /\ Waits
<1>1. cq # <<>> /\ Waits
  BY DEF TakesResult, Waits
<1>2. Head(cq) \in DOMAIN ops
  BY <1>1, CqHead
<1> QED BY <1>1, <1>2, OpTypes DEF Result

LEMMA TakePartUser ==
    ASSUME UserInv, RingTypeOK, TakePart, UNCHANGED <<user, at>>
    PROVE  UserInv'
<1> USE DEF UserInv
<1>1. Result.res \in Int /\ Result.data \in Seq(Units) /\ Waits
  BY ResultTypes DEF TakePart
<1>2. method \in Method /\ method.got \in Seq(Units) /\ method.n \in Nat /\ method.len \in Nat
      /\ method.op \in {"none", "connect", "write", "exact", "some"} /\ method.n <= method.len
  BY DEF UserTypeOK, Method
<1>3. method.got \o Result.data \in Seq(Units)
  BY <1>1, <1>2
<1> DEFINE n == IF method.op = "some" THEN 0 ELSE method.n + Result.res
<1>4. n \in Nat /\ n <= method.len
  BY <1>1, <1>2 DEF TakePart, Complete, Waits, InMethod
<1>5. method' = [method EXCEPT !.stage = "prep", !.got = method.got \o Result.data, !.n = n]
  BY DEF TakePart
<1> HIDE DEF n
<1>6. method' \in Method /\ method'.n = n /\ method'.len = method.len /\ method'.op = method.op
  BY <1>2, <1>3, <1>4, <1>5 DEF Method
<1>7. UserTypeOK'
  BY <1>4, <1>6 DEF UserTypeOK, TakePart, TakesResult
<1>8. SocketTypeOK' /\ OwnOpen' /\ RoleInv'
  BY <1>6 DEF SocketTypeOK, OwnOpen, RoleInv, InMethod, Over, TakePart, TakesResult
<1> QED BY <1>7, <1>8

LEMMA TakeLastUser ==
    ASSUME UserInv, RingTypeOK, TakeLast, UNCHANGED <<user, at>>
    PROVE  UserInv' /\ ~InMethod' /\ ret'.ok /\ ret'.got = method.got \o Result.data
<1> USE DEF UserInv
<1>1. Result.res \in Int /\ Result.data \in Seq(Units) /\ Waits
  BY ResultTypes DEF TakeLast
<1>2. method.got \o Result.data \in Seq(Units)
  BY <1>1 DEF UserTypeOK, Method
<1>3. method' = NoMethod /\ ret' = [ok |-> TRUE, got |-> method.got \o Result.data]
  BY DEF TakeLast, Returns
<1>4. UserTypeOK' /\ ~InMethod' /\ ret'.ok /\ ret'.got = method.got \o Result.data
  <2>1. ret' \in [ok : BOOLEAN, got : Seq(Units)] /\ ret'.ok
        /\ ret'.got = method.got \o Result.data
    BY <1>2, <1>3
  <2>2. method' \in Method /\ method'.n <= method'.len /\ ~InMethod'
    BY <1>3, NoMethodType DEF InMethod
  <2> QED BY <2>1, <2>2 DEF UserTypeOK, TakeLast, TakesResult
<1>5. SocketTypeOK' /\ OwnOpen' /\ RoleInv'
  BY <1>4 DEF SocketTypeOK, OwnOpen, RoleInv, Over, TakeLast, TakesResult
<1> QED BY <1>4, <1>5

\* What the kernel does, in one form.
LEMMA KernelMoves ==
    ASSUME UserInv, RingTypeOK, NEW i \in DOMAIN ops, KernelStep(i) \/ KError(i)
    PROVE  /\ ops[i].st = "kernel" /\ UNCHANGED <<m_fd, fdTable, method, ret, looping, faults>>
           /\ \E r \in Int, d \in Seq(Units) : Completes(i, r, d)
           /\ socks' = socks \/ \E s \in DOMAIN socks, x \in Socket : socks' = [socks EXCEPT ![s] = x]
<1> USE DEF KernelFrame
<1>1. <<>> \in Seq(Units) /\ -1 \in Int /\ 0 \in Int
  OBVIOUS
<1>2. ops[i].st = "kernel" /\ UNCHANGED <<m_fd, fdTable, method, ret, looping, faults>>
  BY DEF KernelStep, KError, KConnect, KSend, KRecv
<1>3. ops[i].sock \in DOMAIN socks /\ ops[i].len \in Nat
  BY <1>2, OpTypes, SocketTypes DEF RingTypeOK, UserInv
<1>4. socks[ops[i].sock] \in Socket /\ socks[ops[i].sock].req \in Nat
      /\ socks[ops[i].sock].out \in Seq(Units)
  BY <1>3, SocketTypes DEF UserInv
<1>5. CASE KError(i) \/ KConnect(i)
  BY <1>1, <1>2, <1>5 DEF KError, KConnect
<1>6. CASE KSend(i)
  <2>1. PICK n \in 1 .. ops[i].len :
           /\ Completes(i, n, <<>>)
           /\ socks' = [socks EXCEPT ![ops[i].sock].req = @ + n]
    BY <1>6 DEF KSend
  <2>2. [socks[ops[i].sock] EXCEPT !.req = @ + n] \in Socket
    BY SMTT(30), <1>3, <1>4 DEF Socket
  <2>3. socks' = [socks EXCEPT ![ops[i].sock] = [socks[ops[i].sock] EXCEPT !.req = @ + n]]
    BY <2>1
  <2>4. n \in Int
    BY <1>3
  <2> QED BY <1>1, <1>2, <1>3, <2>1, <2>2, <2>3, <2>4
<1>7. CASE KRecv(i)
  <2> DEFINE s == socks[ops[i].sock]
  <2>1. CASE \E n \in 1 .. Len(s.out) :
               /\ n <= ops[i].len
               /\ Completes(i, n, SubSeq(s.out, 1, n))
               /\ socks' = [socks EXCEPT ![ops[i].sock].out = SubSeq(@, n + 1, Len(@))]
    <3>1. PICK n \in 1 .. Len(s.out) :
               /\ Completes(i, n, SubSeq(s.out, 1, n))
               /\ socks' = [socks EXCEPT ![ops[i].sock].out = SubSeq(@, n + 1, Len(@))]
      BY <2>1
    <3>2. Len(s.out) \in Nat /\ n \in Int
      BY <1>4
    <3>3. SubSeq(s.out, 1, n) \in Seq(Units) /\ SubSeq(s.out, n + 1, Len(s.out)) \in Seq(Units)
      BY <1>4, <3>2
    <3>4. [s EXCEPT !.out = SubSeq(@, n + 1, Len(@))] \in Socket
      BY <1>4, <3>3 DEF Socket
    <3>5. socks' = [socks EXCEPT ![ops[i].sock] = [s EXCEPT !.out = SubSeq(@, n + 1, Len(@))]]
      BY <3>1
    <3> HIDE DEF s
    <3> QED BY <1>2, <1>3, <3>1, <3>2, <3>3, <3>4, <3>5
  <2>2. CASE Completes(i, 0, <<>>) /\ UNCHANGED socks
    BY <1>1, <1>2, <2>2
  <2> QED BY <1>7, <2>1, <2>2 DEF KRecv
<1> QED BY <1>5, <1>6, <1>7 DEF KernelStep

LEMMA ServerMoves ==
    ASSUME UserInv, NEW s \in DOMAIN socks, ServerAnswers(s) \/ ServerCloses(s)
    PROVE  /\ UNCHANGED <<m_fd, fdTable, ops, cq, method, ret, looping, faults>>
           /\ \E x \in Socket : socks' = [socks EXCEPT ![s] = x]
<1>1. socks[s] \in Socket /\ socks[s].out \in Seq(Units) /\ Len(socks[s].out) \in Nat
  BY SocketTypes DEF UserInv
<1>2. CASE ServerAnswers(s)
  <2>1. PICK b \in 0 .. 1 : socks' = [socks EXCEPT ![s].out = Response(b), ![s].sent = Response(b)]
    BY <1>2 DEF ServerAnswers
  <2>2. Response(b) \in Seq(Units)
    <3>1. Response(0) \in Seq(Units) /\ Response(1) \in Seq(Units)
      BY DEF Response, Units
    <3>2. b = 0 \/ b = 1
      OBVIOUS
    <3> QED BY <3>1, <3>2
  <2>3. [socks[s] EXCEPT !.out = Response(b), !.sent = Response(b)] \in Socket
    BY <1>1, <2>2 DEF Socket
  <2>4. socks' = [socks EXCEPT ![s] = [socks[s] EXCEPT !.out = Response(b), !.sent = Response(b)]]
    BY <1>1, <2>1
  <2> QED BY <1>2, <2>3, <2>4 DEF ServerAnswers
<1>3. CASE ServerCloses(s)
  <2>1. PICK n \in 0 .. Len(socks[s].out) :
           socks' = [socks EXCEPT ![s].out = SubSeq(@, 1, n), ![s].eof = TRUE]
    BY <1>3 DEF ServerCloses
  <2>2. SubSeq(socks[s].out, 1, n) \in Seq(Units)
    BY <1>1
  <2>3. [socks[s] EXCEPT !.out = SubSeq(@, 1, n), !.eof = TRUE] \in Socket
    BY <1>1, <2>2 DEF Socket
  <2>4. socks' = [socks EXCEPT ![s] = [socks[s] EXCEPT !.out = SubSeq(@, 1, n), !.eof = TRUE]]
    BY <1>1, <2>1
  <2> QED BY <1>3, <2>3, <2>4 DEF ServerCloses
<1> QED BY <1>2, <1>3

\* Every step keeps what is said of the socket and the method.
LEMMA UserStep ==
    ASSUME UserInv, RingTypeOK, [Next]_vars
    PROVE  UserInv'
<1>1. SocketTypeOK /\ UserTypeOK /\ RoleInv /\ OwnOpen
  BY DEF UserInv
<1>2. ReqLen \in Nat /\ 1 \in Nat /\ 4 \in Nat
  BY UringClientAssumption
<1>3. CASE CallRefused
  BY <1>1, <1>3 DEF CallRefused, clientVars, UserInv, SocketTypeOK, UserTypeOK, RoleInv,
                    OwnOpen, InMethod, Over
<1>4. CASE CallConnect
  <2>1. Stands
    BY <1>1, <1>4 DEF CallConnect, Stands, RoleInv
  <2> QED BY <1>4, <2>1, ConnectUser DEF CallConnect
<1>5. CASE CallWrite
  <2>1. Stands
    BY <1>1, <1>5 DEF CallWrite, Returned, Stands, RoleInv
  <2> QED BY <1>2, <1>5, <2>1, StartUser DEF CallWrite
<1>6. CASE CallReadSize
  <2>1. Stands
    BY <1>1, <1>6 DEF CallReadSize, Returned, Stands, RoleInv
  <2> QED BY <1>2, <1>6, <2>1, StartUser DEF CallReadSize
<1>7. CASE CallReadBody
  <2>1. Stands
    BY <1>1, <1>7 DEF CallReadBody, Returned, Stands, RoleInv
  <2>2. response_size \in Nat
    BY DEF response_size
  <2> QED BY <1>7, <2>1, <2>2, StartUser DEF CallReadBody
<1>8. CASE CallFails
  <2>1. user = "call" /\ at' = "failed" /\ ~InMethod /\ Destroyed /\ user' = user
    BY <1>1, <1>8 DEF CallFails, RoleInv
  <2> QED BY <2>1, CloseUser DEF Destroyed
<1>9. CASE CallParse
  <2>1. user = "call" /\ at' \in {"ok", "failed"} /\ ~InMethod /\ Destroyed /\ user' = user
    BY <1>1, <1>9 DEF CallParse, Returned, RoleInv
  <2> QED BY <2>1, CloseUser DEF Destroyed
<1>10. CASE BlockingUser
  <2>1. user = "blocking" /\ at = "idle" /\ at' = at /\ user' = user
    BY <1>1, <1>10 DEF BlockingUser, RoleInv
  <2>2. Stands
    BY <2>1 DEF Stands
  <2>3. CASE Connect
    BY <2>2, <2>3, ConnectUser
  <2>4. CASE Start("write", ReqLen)
    BY <1>2, <2>2, <2>4, StartUser
  <2>5. CASE Start("some", 4)
    BY <1>2, <2>2, <2>5, StartUser
  <2>6. CASE Close
    BY <2>1, <2>6, CloseUser DEF Close
  <2> QED BY <1>10, <2>3, <2>4, <2>5, <2>6 DEF BlockingUser
<1>11. CASE AsyncUser
  <2>1. user = "callbacks" /\ user' = user /\ at' = at /\ ~InMethod
    BY <1>1, <1>11 DEF AsyncUser, RoleInv
  <2>2. CASE AsyncConnect
    <3>1. SocketTypeOK' /\ (m_fd' # 0 => fdTable'[m_fd'] # 0)
      BY <1>1, <2>2, AsyncConnectSockets
    <3>2. UNCHANGED <<method, ret, looping>> /\ faults' \in Nat
      BY <1>1, <2>2 DEF AsyncConnect, Hand, Refuse, Faulty, UserTypeOK
    <3>3. UserTypeOK' /\ OwnOpen'
      BY <1>1, <2>1, <3>2 DEF UserTypeOK, OwnOpen
    <3>4. RoleInv'
      BY <1>1, <2>1, <3>1, <3>2 DEF RoleInv, InMethod, Over
    <3> QED BY <3>1, <3>3, <3>4 DEF UserInv
  <2>3. ASSUME NEW op, NEW len, AsyncTransfer(op, len)
        PROVE  UserInv'
    <3>1. UNCHANGED <<m_fd, fdTable, socks, method, ret, looping>> /\ faults' \in Nat
      BY <1>1, <2>3 DEF AsyncTransfer, Hand, Refuse, Faulty, UserTypeOK
    <3> QED BY <1>1, <2>1, <3>1 DEF UserInv, SocketTypeOK, UserTypeOK, RoleInv, OwnOpen,
                                    InMethod, Over
  <2> QED BY <1>11, <2>2, <2>3 DEF AsyncUser
<1>12. CASE LoopStep
  <2>1. /\ user = "callbacks" /\ UNCHANGED <<m_fd, fdTable, socks, method, ret, faults, user, at>>
        /\ looping' \in {"out", "wait", "callback"}
    BY <1>12 DEF LoopStep, EnterLoop, RunCallback, CallbackReturns
  <2> QED BY <1>1, <2>1 DEF UserInv, SocketTypeOK, UserTypeOK, RoleInv, OwnOpen, InMethod, Over
<1>13. CASE Blocked
  <2>1. user' = user /\ at' = at /\ MethodStep
    BY <1>13 DEF Blocked
  <2>2. CASE SubmitRound
    <3>1. CASE Submit(Append(ops, SqeOf(method)), fdTable)
               /\ method' = [method EXCEPT !.stage = "wait"]
               /\ UNCHANGED <<m_fd, fdTable, ret, faults>>
      <4>1. /\ method' \in Method /\ method'.n = method.n /\ method'.len = method.len
            /\ method'.op = method.op
        BY <1>1, <3>1 DEF UserTypeOK, Method
      <4>2. UNCHANGED <<socks, looping>>
        BY <2>2 DEF SubmitRound
      <4> QED BY <1>1, <2>1, <3>1, <4>1, <4>2 DEF UserInv, SocketTypeOK, UserTypeOK, RoleInv,
                                                  OwnOpen, InMethod, Over
    <3>2. CASE Faulty /\ Fails
      BY <1>1, <2>1, <2>2, <3>2, MethodFails DEF SubmitRound, Faulty, UserTypeOK
    <3> QED BY <2>2, <3>1, <3>2 DEF SubmitRound
  <2>3. CASE TakeFailure
    <3>1. Fails /\ UNCHANGED <<socks, looping, faults>> /\ faults \in Nat
      BY <1>1, <2>3 DEF TakeFailure, TakesResult, UserTypeOK
    <3> QED BY <2>1, <3>1, MethodFails
  <2>4. CASE TakePart
    BY <2>1, <2>4, TakePartUser
  <2>5. CASE TakeLast
    BY <2>1, <2>5, TakeLastUser
  <2> QED BY <2>1, <2>2, <2>3, <2>4, <2>5 DEF MethodStep
<1>14. CASE Interrupted
  BY <1>1, <1>14, MethodFails DEF Interrupted, WaitInterrupted, Faulty, UserTypeOK
<1>15. CASE Outside
  <2>1. UNCHANGED <<user, at>>
    BY <1>15 DEF Outside
  <2>2. CASE \E i \in DOMAIN ops : KernelStep(i) \/ KError(i)
    BY <2>1, <2>2, KernelMoves, SocketUser
  <2>3. CASE \E s \in DOMAIN socks : ServerAnswers(s) \/ ServerCloses(s)
    BY <2>1, <2>3, ServerMoves, SocketUser
  <2> QED BY <1>15, <2>2, <2>3 DEF Outside
<1>16. CASE UNCHANGED vars
  BY <1>1, <1>16 DEF vars, clientVars, UserInv, SocketTypeOK, UserTypeOK, RoleInv, OwnOpen,
                     InMethod, Over
<1> QED BY <1>3, <1>4, <1>5, <1>6, <1>7, <1>8, <1>9, <1>10, <1>11, <1>12, <1>13, <1>14, <1>15,
           <1>16 DEF Next, CallStep

-----------------------------------------------------------------------------
(***************************************************************************)
(* Nothing is left behind, and callbacks run once.                         *)
(***************************************************************************)

\* NothingLeftBehind, but for the types.
LeftInv == user # "callbacks" => Cardinality(InFlight) <= faults + (IF Waits THEN 1 ELSE 0)

\* What is said of the ring.
RingInv == RingTypeOK /\ CalledBackOnce /\ LoopInv /\ LeftInv

LEMMA InFlightFinite ==
    ASSUME RingTypeOK
    PROVE  IsFiniteSet(InFlight) /\ Cardinality(InFlight) \in Nat /\ Len(ops) + 1 \notin InFlight
<1>1. DOMAIN ops = 1 .. Len(ops) /\ Len(ops) \in Nat
  BY DEF RingTypeOK
<1>2. InFlight \subseteq 1 .. Len(ops)
  BY <1>1 DEF InFlight
<1>3. IsFiniteSet(1 .. Len(ops))
  BY <1>1, FS_Interval
<1>4. IsFiniteSet(InFlight)
  BY <1>2, <1>3, FS_Subset
<1> QED BY <1>1, <1>2, <1>4, FS_CardinalityType

\* How LeftInv is kept: one more under way needs one more fault, or its method
\* waiting for it.
LEMMA LeftSame ==
    ASSUME LeftInv, InFlight' = InFlight, user' = user, faults' = faults,
           user = "callbacks" \/ Waits' = Waits
    PROVE  LeftInv'
BY DEF LeftInv

LEMMA LeftAdded ==
    ASSUME LeftInv, RingTypeOK, UserTypeOK, InFlight' = InFlight \cup {Len(ops) + 1},
           user' = user, ~Waits,
           (Waits' /\ faults' = faults) \/ (~Waits' /\ faults' = faults + 1)
    PROVE  LeftInv'
<1>1. IsFiniteSet(InFlight) /\ Cardinality(InFlight) \in Nat /\ Len(ops) + 1 \notin InFlight
  BY InFlightFinite
<1>2. Cardinality(InFlight') = Cardinality(InFlight) + 1
  BY <1>1, FS_AddElement
<1>3. faults \in Nat
  BY DEF UserTypeOK
<1> QED BY <1>1, <1>2, <1>3 DEF LeftInv

LEMMA LeftTaken ==
    ASSUME LeftInv, RingTypeOK, UserTypeOK, NEW i \in InFlight, InFlight' = InFlight \ {i},
           user' = user, faults' = faults, ~Waits'
    PROVE  LeftInv'
<1>1. IsFiniteSet(InFlight) /\ Cardinality(InFlight) \in Nat
  BY InFlightFinite
<1>2. Cardinality(InFlight') = Cardinality(InFlight) - 1
  BY <1>1, FS_RemoveElement
<1>3. faults \in Nat
  BY DEF UserTypeOK
<1> QED BY <1>1, <1>2, <1>3 DEF LeftInv

\* Nothing happens to the ring.
LEMMA RingStill ==
    ASSUME RingInv, UserInv, UNCHANGED <<ops, cq>>, Len(socks') \in Nat, Len(socks') >= Len(socks),
           user' = user, looping' = looping \/ (looping' = "wait" /\ looping = "out"),
           (faults' = faults /\ (user = "callbacks" \/ Waits' = Waits))
           \/ (faults' = faults + 1 /\ Waits /\ ~Waits')
    PROVE  RingInv'
<1>1. RingTypeOK /\ CalledBackOnce /\ LoopInv /\ LeftInv /\ Len(socks) \in Nat /\ faults \in Nat
  BY SocketTypes DEF RingInv, UserInv, UserTypeOK
<1>2. RingTypeOK' /\ InFlight' = InFlight
  BY <1>1, RingSame
<1>3. LoopInv'
  BY <1>1 DEF LoopInv
<1>4. CalledBackOnce'
  BY <1>1 DEF CalledBackOnce
<1>5. LeftInv'
  <2>1. Cardinality(InFlight) \in Nat
    BY <1>1, InFlightFinite
  <2> QED BY <1>1, <1>2, <2>1 DEF LeftInv
<1> QED BY <1>2, <1>3, <1>4, <1>5 DEF RingInv

\* An operation is prepared; LeftInv is left to the user.
LEMMA RingPrepared ==
    ASSUME RingTypeOK, CalledBackOnce, LoopInv, NEW o, Fresh(o), looping' = looping,
           Len(socks) \in Nat, Len(socks') \in Nat, Len(socks') >= Len(socks),
           (ops' = Append(ops, o) /\ cq' = cq)
           \/ \E tab \in [Fds -> 0 .. Len(socks')] : Submit(Append(ops, o), tab)
    PROVE  /\ RingTypeOK' /\ CalledBackOnce' /\ LoopInv'
           /\ InFlight' = InFlight \cup {Len(ops) + 1}
<1>1. o \in Operation /\ o.cb <= IF o.refused THEN 1 ELSE 0
  BY DEF Fresh
<1>2. /\ DOMAIN ops = 1 .. Len(ops) /\ DOMAIN Append(ops, o) = 1 .. Len(ops) + 1
      /\ Len(ops) \in Nat /\ Append(ops, o)[Len(ops) + 1] = o
      /\ \A i \in DOMAIN ops : Append(ops, o)[i] = ops[i]
  BY <1>1, AppendedOp
<1>3. CASE ops' = Append(ops, o) /\ cq' = cq
  <2>1. RingTypeOK' /\ InFlight' = InFlight \cup {Len(ops) + 1}
    BY <1>3, RingQueued
  <2>2. \A i \in DOMAIN ops' : i \in DOMAIN ops \/ i = Len(ops) + 1
    BY <1>2, <1>3
  <2>3. \A i \in DOMAIN ops : ops'[i] = ops[i]
    BY <1>2, <1>3
  <2>4. \A i \in DOMAIN ops' : i \in DOMAIN ops \/ ops'[i].cb <= IF ops'[i].refused THEN 1 ELSE 0
    BY <1>1, <1>2, <1>3, <2>2
  <2>5. CalledBackOnce'
    BY <1>3, <2>1, <2>3, <2>4, CalledBackStays
  <2>6. LoopInv'
    BY <1>3 DEF LoopInv
  <2> QED BY <2>1, <2>5, <2>6
<1>4. CASE \E tab \in [Fds -> 0 .. Len(socks')] : Submit(Append(ops, o), tab)
  <2>1. PICK tab \in [Fds -> 0 .. Len(socks')] : Submit(Append(ops, o), tab)
    BY <1>4
  <2>2. /\ RingTypeOK' /\ InFlight' = InFlight \cup {Len(ops) + 1}
        /\ ops' = Submitted(Append(ops, o), tab)
        /\ DOMAIN ops' = 1 .. Len(ops) + 1
        /\ \E q \in Seq(Nat) : cq' = cq \o q
    BY <2>1, RingSubmitted
  <2>3. \A i \in DOMAIN ops' : i \in DOMAIN ops \/ i = Len(ops) + 1
    BY <1>2, <2>2
  <2>4. ASSUME NEW i \in DOMAIN Append(ops, o)
        PROVE  /\ ops'[i].cb = Append(ops, o)[i].cb /\ ops'[i].refused = Append(ops, o)[i].refused
               /\ Append(ops, o)[i].st = "seen" => ops'[i].st = "seen"
    <3> DEFINE p == Append(ops, o)[i]
    <3>1. p \in Operation
      <4>1. Append(ops, o) \in Seq(Operation)
        BY <1>1, AppendedOp
      <4> QED BY <1>2, <4>1
    <3>2. ops'[i] = IF p.st # "sq" THEN p
                    ELSE IF tab[p.fd] = 0 THEN [p EXCEPT !.st = "cq", !.res = -1]
                    ELSE [p EXCEPT !.st = "kernel", !.sock = tab[p.fd]]
      BY <2>2 DEF Submitted
    <3> HIDE DEF p
    <3>3. ops'[i].cb = p.cb /\ ops'[i].refused = p.refused /\ (p.st = "seen" => ops'[i].st = "seen")
      BY <3>1, <3>2 DEF Operation
    <3> QED BY <3>3 DEF p
  <2>5. \A i \in DOMAIN ops :
           /\ ops'[i].cb = ops[i].cb /\ ops'[i].refused = ops[i].refused
           /\ ops[i].st = "seen" => ops'[i].st = "seen"
    <3>1. \A i \in DOMAIN ops : i \in DOMAIN Append(ops, o)
      BY <1>2
    <3> QED BY <1>2, <2>4, <3>1
  <2>6. \A i \in DOMAIN ops' : i \in DOMAIN ops \/ ops'[i].cb <= IF ops'[i].refused THEN 1 ELSE 0
    <3>1. Len(ops) + 1 \in DOMAIN Append(ops, o)
      BY <1>2
    <3> QED BY <1>1, <1>2, <2>3, <2>4, <3>1
  <2>7. cq # <<>> => cq' # <<>> /\ Head(cq') = Head(cq)
    <3>1. PICK q \in Seq(Nat) : cq' = cq \o q
      BY <2>2
    <3>2. cq \in Seq(Nat)
      BY CqTypes
    <3> QED BY <3>1, <3>2
  <2>8. looping = "callback" => cq # <<>>
    BY DEF LoopInv
  <2>9. CalledBackOnce'
    BY <2>2, <2>5, <2>6, <2>7, <2>8, CalledBackStays
  <2>10. LoopInv'
    BY <2>7, <2>8 DEF LoopInv
  <2> QED BY <2>2, <2>9, <2>10
<1> QED BY <1>3, <1>4

\* A method takes the oldest completion.
LEMMA MethodTakes ==
    ASSUME RingInv, UserInv, TakesResult, user' = user, ~Waits'
    PROVE  RingInv'
<1>1. RingTypeOK /\ CalledBackOnce /\ LoopInv /\ LeftInv /\ UserTypeOK /\ Len(socks) \in Nat
  BY SocketTypes DEF RingInv, UserInv
<1>2. cq # <<>> /\ cq' = Tail(cq) /\ ops' = Seen(Head(cq)) /\ UNCHANGED <<socks, looping, faults>>
      /\ Waits /\ InMethod
  BY DEF TakesResult, Waits
<1>3. looping = "out"
  BY <1>2 DEF UserInv, RoleInv
<1>4. /\ RingTypeOK' /\ InFlight' = InFlight \ {Head(cq)} /\ Head(cq) \in InFlight
      /\ DOMAIN ops' = DOMAIN ops
      /\ \A j \in DOMAIN ops : j # Head(cq) => ops'[j] = ops[j]
      /\ ops'[Head(cq)].st = "seen" /\ ops'[Head(cq)].cb = ops[Head(cq)].cb
      /\ ops'[Head(cq)].refused = ops[Head(cq)].refused
  BY <1>1, <1>2, RingTaken
<1>5. CalledBackOnce'
  BY <1>1, <1>2, <1>3, <1>4, CalledBackStays
<1>6. LeftInv'
  BY <1>1, <1>2, <1>4, LeftTaken
<1> QED BY <1>2, <1>3, <1>4, <1>5, <1>6 DEF RingInv, LoopInv

\* EventLoop, and the Async methods a callback starts.
LEMMA CallbackRuns ==
    ASSUME RingInv, UserInv, RunCallback, user = "callbacks", user' = user
    PROVE  RingInv'
<1>1. RingTypeOK /\ CalledBackOnce
  BY DEF RingInv
<1>2. looping = "wait" /\ cq # <<>> /\ looping' = "callback" /\ cq' = cq /\ socks' = socks
      /\ ops' = [ops EXCEPT ![Head(cq)].cb = @ + 1]
  BY DEF RunCallback
<1>3. /\ RingTypeOK' /\ DOMAIN ops' = DOMAIN ops
      /\ \A j \in DOMAIN ops : j # Head(cq) => ops'[j] = ops[j]
      /\ ops'[Head(cq)].st = "cq" /\ ops'[Head(cq)].cb = ops[Head(cq)].cb + 1
      /\ ops'[Head(cq)].refused = ops[Head(cq)].refused
  BY <1>1, <1>2, RingCallsBack
<1>4. Head(cq) \in DOMAIN ops /\ ops[Head(cq)].st = "cq"
  BY <1>1, <1>2, CqHead
<1>5. ASSUME NEW i \in DOMAIN ops'
      PROVE  CalledBack(i)'
  <2>1. ops[i].cb <= (IF ops[i].refused THEN 1 ELSE 0) + (IF ops[i].st = "seen" THEN 1 ELSE 0)
    BY <1>1, <1>2, <1>3 DEF CalledBackOnce
  <2>2. ops[i].cb \in Nat
    BY <1>1, <1>3, OpTypes
  <2>3. CASE i = Head(cq)
    BY <1>2, <1>3, <1>4, <2>1, <2>2, <2>3 DEF CalledBack
  <2>4. CASE i # Head(cq)
    BY <1>2, <1>3, <2>1, <2>2, <2>4 DEF CalledBack
  <2> QED BY <2>3, <2>4
<1>6. CalledBackOnce'
  BY <1>5 DEF CalledBackOnce, CalledBack
<1> QED BY <1>2, <1>3, <1>6 DEF RingInv, LoopInv, LeftInv

LEMMA CallbackEnds ==
    ASSUME RingInv, UserInv, CallbackReturns, user = "callbacks", user' = user
    PROVE  RingInv'
<1>1. RingTypeOK /\ CalledBackOnce /\ Len(socks) \in Nat
  BY SocketTypes DEF RingInv, UserInv
<1>2. looping = "callback" /\ looping' = "wait" /\ cq' = Tail(cq) /\ socks' = socks
      /\ ops' = Seen(Head(cq)) /\ cq # <<>>
  BY DEF CallbackReturns, RingInv, LoopInv
<1>3. /\ RingTypeOK' /\ DOMAIN ops' = DOMAIN ops
      /\ \A j \in DOMAIN ops : j # Head(cq) => ops'[j] = ops[j]
      /\ ops'[Head(cq)].st = "seen" /\ ops'[Head(cq)].cb = ops[Head(cq)].cb
      /\ ops'[Head(cq)].refused = ops[Head(cq)].refused
  BY <1>1, <1>2, RingTaken
<1>4. CalledBackOnce'
  BY <1>1, <1>2, <1>3, CalledBackStays
<1> QED BY <1>2, <1>3, <1>4 DEF RingInv, LoopInv, LeftInv

LEMMA AsyncPrepares ==
    ASSUME RingInv, UserInv, AsyncUser
    PROVE  RingInv'
<1>1. RingTypeOK /\ CalledBackOnce /\ LoopInv /\ SocketTypeOK
  BY DEF RingInv, UserInv
<1>2. user = "callbacks" /\ user' = user
  BY DEF AsyncUser
<1>3. Len(socks) \in Nat /\ ReqLen \in Nat /\ 0 \in Nat /\ 4 \in Nat
  BY <1>1, SocketTypes, UringClientAssumption
<1>4. CASE AsyncConnect
  <2> DEFINE fd == NewFd(fdTable)
             o  == Sqe("connect", fd, 0)
  <2>1. /\ fd \in Fds /\ Opened(fdTable) \in [Fds -> 0 .. Len(socks')]
        /\ Len(socks') = Len(socks) + 1
    BY <1>1, <1>4, AsyncConnectSockets
  <2>2. Fresh(o) /\ o.cb = 0
    BY <1>3, <2>1, SqeFresh
  <2>3. looping' = looping /\ Len(socks') \in Nat /\ Len(socks') >= Len(socks)
    BY <1>3, <1>4, <2>1 DEF AsyncConnect
  <2>4. \/ Submit(Append(ops, o), Opened(fdTable))
        \/ UNCHANGED <<ops, cq, faults>>
        \/ Refuse(Append(ops, o))
    BY <1>4 DEF AsyncConnect, Hand
  <2> HIDE DEF o, fd
  <2>5. RingTypeOK' /\ CalledBackOnce' /\ LoopInv'
    <3>1. CASE Submit(Append(ops, o), Opened(fdTable))
      BY <1>1, <1>3, <2>1, <2>2, <2>3, <3>1, RingPrepared
    <3>2. CASE UNCHANGED <<ops, cq, faults>>
      BY <1>2, <2>3, <3>2, RingStill DEF RingInv
    <3>3. CASE Refuse(Append(ops, o))
      <4>1. PICK p : Fresh(p) /\ ops' = Append(ops, p) /\ cq' = cq
        BY <1>1, <2>2, <3>3, RefuseIsAppend
      <4> QED BY <1>1, <1>3, <2>3, <4>1, RingPrepared
    <3> QED BY <2>4, <3>1, <3>2, <3>3
  <2> QED BY <1>2, <2>5 DEF RingInv, LeftInv
<1>5. ASSUME NEW op \in {"send", "recv"}, NEW len \in Nat, AsyncTransfer(op, len)
      PROVE  RingInv'
  <2> DEFINE o == Sqe(op, m_fd, len)
  <2>1. m_fd \in Fds /\ fdTable \in [Fds -> 0 .. Len(socks)]
    BY <1>1, <1>5 DEF AsyncTransfer, SocketTypeOK
  <2>2. Fresh(o) /\ o.cb = 0
    BY <2>1, SqeFresh
  <2>3. looping' = looping /\ socks' = socks
    BY <1>5 DEF AsyncTransfer
  <2>4. Submit(Append(ops, o), fdTable) \/ Refuse(Append(ops, o))
    BY <1>5 DEF AsyncTransfer, Hand
  <2> HIDE DEF o
  <2>5. RingTypeOK' /\ CalledBackOnce' /\ LoopInv'
    <3>1. CASE Submit(Append(ops, o), fdTable)
      BY <1>1, <1>3, <2>1, <2>2, <2>3, <3>1, RingPrepared
    <3>2. CASE Refuse(Append(ops, o))
      <4>1. PICK p : Fresh(p) /\ ops' = Append(ops, p) /\ cq' = cq
        BY <1>1, <2>2, <3>2, RefuseIsAppend
      <4> QED BY <1>1, <1>3, <2>3, <4>1, RingPrepared
    <3> QED BY <2>4, <3>1, <3>2
  <2> QED BY <1>2, <2>5 DEF RingInv, LeftInv
<1> QED BY <1>3, <1>4, <1>5 DEF AsyncUser

\* Every step keeps what is said of the ring.
LEMMA RingStep ==
    ASSUME RingInv, UserInv, UserInv', [Next]_vars
    PROVE  RingInv'
<1>1. /\ RingTypeOK /\ CalledBackOnce /\ LoopInv /\ LeftInv
      /\ SocketTypeOK /\ UserTypeOK /\ RoleInv /\ Len(socks) \in Nat
  BY SocketTypes DEF RingInv, UserInv
<1>2. ASSUME UNCHANGED <<ops, cq, socks, looping, faults, user>>, ~Waits, ~Waits'
      PROVE  RingInv'
  <2>1. Waits' = Waits
    BY <1>2 DEF Waits
  <2> QED BY <1>1, <1>2, <2>1, RingStill
<1>3. ~InMethod => ~Waits
  BY DEF Waits
<1>4. ASSUME NEW op, NEW len, Start(op, len), user' = user
      PROVE  RingInv'
  <2>1. UNCHANGED <<ops, cq, socks, looping, faults>> /\ ~InMethod
    BY <1>4 DEF Start
  <2>2. method'.stage = "prep"
    BY <1>4, NoMethodType DEF Start, Returns, NoMethod
  <2> QED BY <1>2, <1>3, <1>4, <2>1, <2>2 DEF Waits
<1>5. ASSUME Connect, user' = user
      PROVE  RingInv'
  <2>1. UNCHANGED <<ops, cq, looping, faults>> /\ ~InMethod
    BY <1>5 DEF Connect
  <2>2. method'.stage = "prep"
    BY <1>5, NoMethodType, ConnectingType DEF Connect, Returns
  <2>3. socks' = socks \/ socks' = Append(socks, NewSocket)
    BY <1>5 DEF Connect
  <2>4. Len(socks') \in Nat /\ Len(socks') >= Len(socks)
    <3>1. socks \in Seq(Socket) /\ socks' \in Seq(Socket)
      BY DEF UserInv, SocketTypeOK
    <3>2. CASE socks' = socks
      BY <1>1, <3>2
    <3>3. CASE socks' = Append(socks, NewSocket)
      BY <1>1, <3>1, <3>3
    <3> QED BY <2>3, <3>2, <3>3
  <2> QED BY <1>3, <1>5, <2>1, <2>2, <2>4, RingStill DEF Waits
<1>6. CASE CallRefused
  BY <1>1, <1>6, RingStill DEF CallRefused, clientVars, Waits, InMethod
<1>7. CASE CallConnect
  BY <1>5, <1>7 DEF CallConnect
<1>8. CASE CallWrite \/ CallReadSize \/ CallReadBody
  BY <1>4, <1>8 DEF CallWrite, CallReadSize, CallReadBody
<1>9. CASE CallFails \/ CallParse
  <2>1. UNCHANGED <<ops, cq, socks, looping, faults, user, method>> /\ ~InMethod
    BY <1>9 DEF CallFails, CallParse, Returned, Destroyed
  <2> QED BY <1>2, <1>3, <2>1 DEF Waits, InMethod
<1>10. CASE BlockingUser
  <2>1. CASE Close
    <3>1. UNCHANGED <<ops, cq, socks, looping, faults, user, method>> /\ ~InMethod
      BY <1>10, <2>1 DEF BlockingUser, Close
    <3> QED BY <1>2, <1>3, <3>1 DEF Waits, InMethod
  <2> QED BY <1>4, <1>5, <1>10, <2>1 DEF BlockingUser
<1>11. CASE AsyncUser
  BY <1>11, AsyncPrepares
<1>12. CASE LoopStep
  <2>1. user = "callbacks" /\ user' = user
    BY <1>12 DEF LoopStep
  <2>2. CASE EnterLoop
    BY <1>1, <2>1, <2>2, RingStill DEF EnterLoop
  <2> QED BY <1>12, <2>1, <2>2, CallbackRuns, CallbackEnds DEF LoopStep
<1>13. CASE Blocked
  <2>1. user' = user
    BY <1>13 DEF Blocked
  <2>2. CASE SubmitRound
    <3> DEFINE o == SqeOf(method)
    <3>1. InMethod /\ method.stage = "prep" /\ socks' = socks /\ looping' = looping
      BY <2>2 DEF SubmitRound
    <3>2. Fresh(o) /\ ~Waits /\ fdTable \in [Fds -> 0 .. Len(socks)]
      BY <1>1, <3>1, SqeOfMethod DEF Waits, SocketTypeOK
    <3> HIDE DEF o
    <3>3. CASE Submit(Append(ops, o), fdTable)
               /\ method' = [method EXCEPT !.stage = "wait"]
               /\ UNCHANGED <<m_fd, fdTable, ret, faults>>
      <4>1. RingTypeOK' /\ CalledBackOnce' /\ LoopInv' /\ InFlight' = InFlight \cup {Len(ops) + 1}
        BY <1>1, <3>1, <3>2, <3>3, RingPrepared
      <4>2. Waits'
        BY <1>1, <3>1, <3>3 DEF Waits, InMethod, UserTypeOK, Method
      <4>3. LeftInv'
        BY <1>1, <2>1, <3>2, <3>3, <4>1, <4>2, LeftAdded
      <4> QED BY <4>1, <4>3 DEF RingInv
    <3>4. CASE Faulty /\ ops' = Append(ops, o) /\ Fails /\ UNCHANGED cq
      <4>1. RingTypeOK' /\ CalledBackOnce' /\ LoopInv' /\ InFlight' = InFlight \cup {Len(ops) + 1}
        BY <1>1, <3>1, <3>2, <3>4, RingPrepared
      <4>2. ~Waits' /\ faults' = faults + 1
        BY <3>4, NoMethodType DEF Fails, Returns, Waits, Faulty
      <4>3. LeftInv'
        BY <1>1, <2>1, <3>2, <4>1, <4>2, LeftAdded
      <4> QED BY <4>1, <4>3 DEF RingInv
    <3> QED BY <2>2, <3>3, <3>4 DEF SubmitRound, o
  <2>3. CASE TakeFailure
    <3>1. ~Waits'
      BY <2>3, NoMethodType DEF TakeFailure, Fails, Returns, Waits
    <3> QED BY <2>1, <2>3, <3>1, MethodTakes DEF TakeFailure
  <2>4. CASE TakePart
    <3>1. method'.stage = "prep"
      BY <1>1, <2>4 DEF TakePart, UserTypeOK, Method
    <3>2. ~Waits'
      BY <3>1 DEF Waits
    <3> QED BY <2>1, <2>4, <3>2, MethodTakes DEF TakePart
  <2>5. CASE TakeLast
    <3>1. ~Waits'
      BY <2>5, NoMethodType DEF TakeLast, Returns, Waits
    <3> QED BY <2>1, <2>5, <3>1, MethodTakes DEF TakeLast
  <2> QED BY <1>13, <2>2, <2>3, <2>4, <2>5 DEF Blocked, MethodStep
<1>14. CASE Interrupted
  <2>1. /\ Waits /\ ~Waits' /\ faults' = faults + 1
        /\ UNCHANGED <<socks, ops, cq, looping, user>>
    BY <1>14, NoMethodType DEF Interrupted, WaitInterrupted, Faulty, Fails, Returns, Waits
  <2> QED BY <1>1, <2>1, RingStill
<1>15. CASE Outside
  <2>1. user' = user
    BY <1>15 DEF Outside
  <2>2. ASSUME NEW i \in DOMAIN ops, KernelStep(i) \/ KError(i)
        PROVE  RingInv'
    <3>1. /\ ops[i].st = "kernel" /\ UNCHANGED <<m_fd, fdTable, method, ret, looping, faults>>
          /\ \E r \in Int, d \in Seq(Units) : Completes(i, r, d)
          /\ socks' = socks \/ \E s \in DOMAIN socks, x \in Socket : socks' = [socks EXCEPT ![s] = x]
      BY <1>1, <2>2, KernelMoves
    <3>2. Len(socks') \in Nat /\ Len(socks') >= Len(socks)
      <4>1. UNCHANGED <<user, at>>
        BY <1>15 DEF Outside
      <4>2. Len(socks') = Len(socks)
        BY <3>1, <4>1, SocketUser
      <4> QED BY <1>1, <4>2
    <3>3. PICK r \in Int, d \in Seq(Units) : Completes(i, r, d)
      BY <3>1
    <3>4. /\ RingTypeOK' /\ InFlight' = InFlight /\ cq' = Append(cq, i)
          /\ DOMAIN ops' = DOMAIN ops
          /\ ops'[i] = [ops[i] EXCEPT !.st = "cq", !.res = r, !.data = d]
          /\ \A j \in DOMAIN ops : j # i => ops'[j] = ops[j]
      <4>1. ops[i].st = "kernel" /\ RingTypeOK /\ Len(socks) \in Nat
        BY <1>1, <3>1
      <4>2. Completed(i, r, d)
        BY <3>2, <3>3, <4>1, RingCompleted
      <4> QED BY <4>2 DEF Completed
    <3>5. ops'[i].cb = ops[i].cb /\ ops'[i].refused = ops[i].refused
      <4>1. ops[i] \in Operation
        BY <1>1, OpTypes
      <4> QED BY <3>4, <4>1 DEF Operation
    <3>6. cq # <<>> => cq' # <<>> /\ Head(cq') = Head(cq)
      <4>1. cq \in Seq(Nat) /\ i \in Nat
        BY <1>1, CqTypes, OpTypes
      <4> QED BY <3>4, <4>1
    <3>7. LoopInv'
      BY <1>1, <3>1, <3>6 DEF LoopInv
    <3>8. CalledBackOnce'
      BY <1>1, <3>1, <3>4, <3>5, <3>6, CalledBackStays DEF LoopInv
    <3>9. LeftInv'
      BY <1>1, <2>1, <3>1, <3>4, LeftSame DEF Waits, InMethod
    <3> QED BY <3>4, <3>7, <3>8, <3>9 DEF RingInv
  <2>3. ASSUME NEW s \in DOMAIN socks, ServerAnswers(s) \/ ServerCloses(s)
        PROVE  RingInv'
    <3>1. /\ UNCHANGED <<m_fd, fdTable, ops, cq, method, ret, looping, faults>>
          /\ \E x \in Socket : socks' = [socks EXCEPT ![s] = x]
      BY <2>3, ServerMoves
    <3>2. UNCHANGED <<user, at>>
      BY <1>15 DEF Outside
    <3>3. Len(socks') = Len(socks)
      BY <3>1, <3>2, SocketUser
    <3> QED BY <1>1, <3>1, <3>2, <3>3, RingStill DEF Waits, InMethod
  <2> QED BY <1>15, <2>2, <2>3 DEF Outside
<1>16. CASE UNCHANGED vars
  BY <1>1, <1>16, RingStill DEF vars, clientVars, Waits, InMethod
<1> QED BY <1>6, <1>7, <1>8, <1>9, <1>10, <1>11, <1>12, <1>13, <1>14, <1>15, <1>16
        DEF Next, CallStep

-----------------------------------------------------------------------------
(***************************************************************************)
(* A call reads the response and nothing else.                             *)
(***************************************************************************)

\* What is said of a call.
CallInv == CallRingInv /\ StreamInv /\ CountInv

\* Nothing is said of a call that failed, or of another user.
LEMMA NotInCall ==
    ASSUME ~Healthy', at' # "start"
    PROVE  CallInv'
BY DEF CallInv, CallRingInv, StreamInv, CountInv

LEMMA CallTypes ==
    ASSUME UserInv, RingTypeOK, CallRingInv, Healthy
    PROVE  /\ m_fd \in Fds /\ fdTable[m_fd] \in DOMAIN socks /\ Peer \in Socket
           /\ Peer.out \in Seq(Units) /\ Peer.sent \in Seq(Units)
           /\ Got \in Seq(Units) /\ Before \in Nat /\ Len(Got) \in Nat
           /\ method.got \in Seq(Units) /\ method.n \in Nat /\ method.len \in Nat
           /\ ret.got \in Seq(Units)
<1>1. m_fd \in Fds /\ fdTable[m_fd] # 0 /\ fdTable[m_fd] \in 1 .. Len(socks)
      /\ DOMAIN socks = 1 .. Len(socks)
  BY SocketTypes DEF UserInv, RoleInv, CallRingInv
<1>2. Peer \in Socket /\ Peer.out \in Seq(Units) /\ Peer.sent \in Seq(Units)
  BY <1>1, SocketTypes DEF Peer, UserInv
<1>3. method \in Method /\ ret \in [ok : BOOLEAN, got : Seq(Units)]
  BY DEF UserInv, UserTypeOK
<1>4. method.got \in Seq(Units) /\ method.n \in Nat /\ method.len \in Nat /\ ret.got \in Seq(Units)
  BY <1>3 DEF Method
<1>5. Got \in Seq(Units)
  BY <1>4 DEF Got
<1>6. Len(Got) \in Nat
  BY <1>5
<1> QED BY <1>1, <1>2, <1>4, <1>5, <1>6 DEF Before

\* The operation a call waits for.
LEMMA CurrentTypes ==
    ASSUME UserInv, RingTypeOK, CallRingInv, Healthy, Waits
    PROVE  /\ Len(ops) \in DOMAIN ops /\ Current \in Operation /\ Current.st \in {"kernel", "cq"}
           /\ Current.data \in Seq(Units) /\ Current.res \in Int /\ Current.len \in Nat
           /\ Arrived = Current.data /\ Len(Arrived) \in Nat
           /\ \A i \in DOMAIN ops : ops[i].st = "kernel" => i = Len(ops)
           /\ cq # <<>> => Head(cq) = Len(ops) /\ Result = Current /\ Current.st = "cq"
<1>1. InFlight = {Len(ops)} /\ Current.st # "sq"
  BY DEF CallRingInv
<1>2. Len(ops) \in DOMAIN ops /\ Current.st \in {"sq", "kernel", "cq"}
  BY <1>1 DEF InFlight, Current
<1>3. /\ Current \in Operation /\ Current.data \in Seq(Units) /\ Current.res \in Int
      /\ Current.len \in Nat
  BY <1>2, OpTypes DEF Current
<1>4. \A i \in DOMAIN ops : ops[i].st \in {"kernel", "cq"} => i = Len(ops)
  BY <1>1 DEF InFlight
<1>5. cq # <<>> => Head(cq) = Len(ops) /\ Result = Current /\ Current.st = "cq"
  BY <1>4, CqHead DEF Result, Current
<1>6. Arrived = Current.data
  BY DEF Arrived
<1>7. Len(Arrived) \in Nat
  BY <1>3, <1>6
<1> QED BY <1>1, <1>2, <1>3, <1>4, <1>5, <1>6, <1>7

LEMMA CallConnects ==
    ASSUME UserInv, RingInv, CallInv, UserInv', RingInv', CallConnect
    PROVE  CallInv'
<1>1. at = "start" /\ at' = "connect" /\ Connect /\ user' = user
  BY DEF CallConnect
<1>2. InFlight = {} /\ UNCHANGED <<ops, cq>>
  BY <1>1 DEF CallInv, CallRingInv, Connect
<1>3. InFlight' = {}
  BY <1>2 DEF InFlight
<1> DEFINE tab == Closed(fdTable, m_fd)
<1>4. CASE m_fd' = 0 /\ fdTable' = tab /\ Returns(Failed) /\ UNCHANGED socks
  <2>1. ~Healthy'
    BY <1>4, NoMethodType DEF Healthy, Returns, InMethod
  <2> QED BY <1>1, <2>1, NotInCall
<1>5. CASE /\ m_fd' = NewFd(tab) /\ fdTable' = Opened(tab)
           /\ socks' = Append(socks, NewSocket)
           /\ method' = [NoMethod EXCEPT !.op = "connect"]
           /\ UNCHANGED ret
  <2>1. Free(tab) # {} /\ tab \in [Fds -> 0 .. Len(socks)]
    <3>1. m_fd = 0 /\ fdTable \in [Fds -> 0 .. Len(socks)]
      BY <1>1 DEF UserInv, RoleInv, SocketTypeOK
    <3> QED BY <1>1, <3>1 DEF Connect, Closed
  <2> HIDE DEF tab
  <2>2. m_fd' # 0 /\ fdTable'[m_fd'] = Len(socks') /\ Len(socks') = Len(socks) + 1
    BY <1>5, <2>1, SocketOpened DEF UserInv
  <2>3. socks'[Len(socks) + 1] = NewSocket
    BY <1>5 DEF UserInv, SocketTypeOK
  <2>4. Peer' = NewSocket
    BY <2>2, <2>3 DEF Peer
  <2>5. Peer'.sent = <<>> /\ Peer'.out = <<>>
    BY <2>4 DEF NewSocket
  <2>6. method'.op = "connect" /\ method'.stage = "prep" /\ method'.got = <<>>
    BY <1>5, ConnectingType
  <2>7. InMethod' /\ ~Waits' /\ Got' = <<>> /\ Arrived' = <<>> /\ Before' = 0
    BY <1>1, <2>6 DEF InMethod, Waits, Got, Arrived, Before
  <2>8. CallRingInv'
    BY <1>1, <1>3, <2>2, <2>6, <2>7 DEF CallRingInv, Suits
  <2>9. StreamInv'
    <3>1. Follows(<<>>, 0, <<>>) /\ Len(<<>>) = 0
      BY DEF Follows
    <3> QED BY <2>5, <2>7, <3>1 DEF StreamInv
  <2>10. CountInv'
    BY <1>1, <2>7 DEF CountInv
  <2> QED BY <2>8, <2>9, <2>10 DEF CallInv
<1> QED BY <1>1, <1>4, <1>5 DEF Connect

\* The next method of a call begins.
LEMMA CallStarts ==
    ASSUME UserInv, RingInv, CallInv, NEW op \in {"write", "exact"}, NEW len \in Nat,
           Start(op, len), ret.ok, user' = user,
           \/ at = "connect" /\ at' = "write" /\ op = "write"
           \/ at = "write" /\ at' = "size" /\ op = "exact" /\ len = 1
           \/ at = "size" /\ at' = "body" /\ op = "exact" /\ len = Len(Peer.sent) - 1
    PROVE  CallInv'
<1>1. Healthy /\ ~InMethod /\ ~Waits
  BY DEF Healthy, Start, Waits
<1>2. UNCHANGED <<m_fd, fdTable, socks, ops, cq>> /\ m_fd # 0 /\ InFlight = {}
      /\ method' = [NoMethod EXCEPT !.op = op, !.len = len]
  BY <1>1 DEF Start, CallInv, CallRingInv
<1>3. /\ method'.op = op /\ method'.len = len /\ method'.stage = "prep" /\ method'.got = <<>>
      /\ method'.n = 0
  BY <1>2 DEF NoMethod
<1>4. InMethod' /\ ~Waits' /\ Got' = <<>> /\ Arrived' = <<>> /\ Peer' = Peer /\ InFlight' = {}
  BY <1>2, <1>3 DEF InMethod, Waits, Got, Arrived, Peer, InFlight
<1>5. CallRingInv'
  BY <1>2, <1>3, <1>4 DEF CallRingInv, Suits
<1>6. CountInv'
  <2>1. Len(<<>>) = 0
    OBVIOUS
  <2> QED BY <1>3, <1>4, <2>1 DEF CountInv
<1>7. /\ Peer.sent \in Seq(Units) /\ Peer.out \in Seq(Units) /\ Got \in Seq(Units)
      /\ Len(Got) \in Nat /\ Before \in Nat /\ Len(Peer.sent) \in Nat
  BY <1>1, CallTypes DEF RingInv, CallInv
<1>8. /\ Peer.sent \in {<<>>, Response(0), Response(1)}
      /\ Follows(Got, Before, Peer.sent)
      /\ Follows(Arrived, Before + Len(Got), Peer.sent)
      /\ Follows(Peer.out, Before + Len(Got) + Len(Arrived), Peer.sent)
      /\ Arrived = <<>> /\ Len(Arrived) = 0
  BY <1>1 DEF CallInv, StreamInv, Arrived
<1>9. Before' = Before + Len(Got)
  <2>1. CASE at \in {"connect", "write"}
    <3>1. Got = <<>>
      BY <1>1, <2>1 DEF CallInv, CountInv
    <3> QED BY <2>1, <3>1 DEF Before
  <2>2. CASE at = "size"
    <3>1. Len(Got) = 1
      BY <1>1, <2>2 DEF CallInv, CountInv, Got
    <3> QED BY <2>2, <3>1 DEF Before
  <2> QED BY <2>1, <2>2
<1>10. Follows(<<>>, Before', Peer.sent) /\ Follows(Peer.out, Before', Peer.sent)
  <2>1. Before + Len(Got) + Len(Arrived) = Before + Len(Got)
    BY <1>7, <1>8
  <2>2. Follows(Peer.out, Before', Peer.sent)
    BY <1>8, <1>9, <2>1
  <2>3. Before' \in 0 .. Len(Peer.sent)
    BY <1>7, <1>8, <1>9 DEF Follows
  <2> QED BY <1>7, <2>2, <2>3, FollowsEmpty
<1>11. StreamInv'
  <2>1. Len(<<>>) = 0 /\ Before' \in Nat
    BY <1>7, <1>9
  <2>2. Before' + Len(<<>>) = Before' /\ Before' + Len(<<>>) + Len(<<>>) = Before'
    <3>1. \A b \in Nat : b + 0 = b /\ b + 0 + 0 = b
      OBVIOUS
    <3> QED BY <2>1, <3>1, Zenon
  <2> QED BY <1>4, <1>8, <1>10, <2>2 DEF StreamInv
<1> QED BY <1>5, <1>6, <1>11 DEF CallInv

\* The size that was read is that of what is still to come.
LEMMA SizeRead ==
    ASSUME UserInv, RingInv, CallInv, Returned("size"), response_size > 0
    PROVE  response_size = Len(Peer.sent) - 1 /\ response_size \in Nat
<1>1. Healthy /\ ~InMethod /\ at = "size" /\ Got = ret.got /\ Before = 0
  BY DEF Returned, Healthy, Got, Before
<1>2. Len(ret.got) = 1 /\ ret.got \in Seq(Units)
  BY <1>1, CallTypes DEF CallInv, CountInv, RingInv
<1>3. Follows(ret.got, 0, Peer.sent) /\ Peer.sent \in {<<>>, Response(0), Response(1)}
  BY <1>1 DEF CallInv, StreamInv
<1>4. Len(Peer.sent) >= 1 /\ ret.got[1] = Peer.sent[1]
  <2>1. Peer.sent \in Seq(Units)
    BY <1>1, CallTypes DEF CallInv, RingInv
  <2> QED BY <1>2, <1>3, <2>1 DEF Follows
<1>5. CASE Peer.sent = Response(0)
  BY <1>2, <1>4, <1>5 DEF Response, response_size
<1>6. CASE Peer.sent = Response(1)
  BY <1>2, <1>4, <1>6 DEF Response, response_size
<1> QED BY <1>3, <1>4, <1>5, <1>6

\* A round of a method begins: its operation goes to the kernel.
LEMMA CallSubmits ==
    ASSUME UserInv, RingInv, CallInv, Healthy, InMethod, method.stage = "prep",
           Submit(Append(ops, SqeOf(method)), fdTable),
           method' = [method EXCEPT !.stage = "wait"],
           UNCHANGED <<m_fd, fdTable, ret, socks, at>>
    PROVE  CallInv'
<1> DEFINE o == SqeOf(method)
           n == Len(ops) + 1
<1>1. RingTypeOK /\ UserInv /\ CallRingInv /\ StreamInv /\ CountInv /\ ~Waits /\ InFlight = {}
      /\ m_fd # 0 /\ Suits(method)
  BY DEF RingInv, CallInv, CallRingInv, Waits
<1>2. /\ Fresh(o) /\ o.op = OpOf(method) /\ o.fd = m_fd /\ m_fd \in Fds /\ fdTable[m_fd] # 0
      /\ o.data = <<>> /\ o \in Operation /\ o.st = "sq"
      /\ method.op # "connect" => o.len = method.len - method.n
  BY SqeOfMethod DEF Fresh
<1>3. Len(socks) \in Nat /\ fdTable \in [Fds -> 0 .. Len(socks)] /\ Len(socks') = Len(socks)
  BY SocketTypes DEF UserInv, SocketTypeOK
<1>4. /\ Append(ops, o)[n] = o /\ n \in DOMAIN Append(ops, o) /\ Len(ops) \in Nat
  BY <1>1, <1>2, AppendedOp
<1>5. Submit(Append(ops, o), fdTable)
  OBVIOUS
<1> HIDE DEF o
<1>6. /\ InFlight' = InFlight \cup {n} /\ ops' = Submitted(Append(ops, o), fdTable)
      /\ Len(ops') = n
  BY <1>1, <1>2, <1>3, <1>5, RingSubmitted
<1>7. ops'[n] = [o EXCEPT !.st = "kernel", !.sock = fdTable[m_fd]]
  BY <1>2, <1>4, <1>6 DEF Submitted
<1>8. /\ Current'.st = "kernel" /\ Current'.sock = fdTable[m_fd] /\ Current'.op = o.op
      /\ Current'.len = o.len /\ Current'.data = <<>>
  <2>1. Current' = ops'[n]
    BY <1>6 DEF Current
  <2> QED BY <1>2, <1>7, <2>1 DEF Operation
<1>9. /\ method'.op = method.op /\ method'.stage = "wait" /\ method'.n = method.n
      /\ method'.len = method.len /\ method'.got = method.got
  BY DEF UserInv, UserTypeOK, Method
<1>10. InMethod' /\ Waits' /\ Got' = Got /\ Arrived' = <<>> /\ Arrived = <<>> /\ Peer' = Peer
       /\ Before' = Before /\ Healthy'
  BY <1>1, <1>8, <1>9 DEF InMethod, Waits, Got, Arrived, Peer, Before, Healthy
<1>11. CallRingInv'
  <2>1. at \in {"size", "body"} => method.op # "connect"
    BY <1>1 DEF Suits
  <2>2. OpOf(method)' = OpOf(method) /\ (Suits(method))'
    BY <1>1, <1>9 DEF OpOf, Suits
  <2>3. InFlight' = {Len(ops')}
    BY <1>1, <1>6
  <2>4. at' # "start"
    BY DEF Healthy
  <2> QED BY <1>1, <1>2, <1>8, <1>9, <1>10, <2>1, <2>2, <2>3, <2>4 DEF CallRingInv
<1>12. StreamInv'
  BY <1>1, <1>10 DEF StreamInv
<1>13. CountInv'
  BY <1>1, <1>8, <1>9, <1>10 DEF CountInv, Got
<1> QED BY <1>11, <1>12, <1>13 DEF CallInv

\* A method takes its completion, in part or as the last one.
LEMMA CallTakes ==
    ASSUME UserInv, RingInv, CallInv, Healthy, TakesResult, UNCHANGED <<m_fd, fdTable, at>>,
           Got' = method.got \o Result.data, ~Waits',
           InMethod' \/ ret'.ok, InMethod' => method'.op = method.op,
           at \in {"size", "body"} /\ InMethod' =>
              Len(Got') = method'.n /\ method'.len = method.len /\ Got' = method'.got,
           at \in {"size", "body"} /\ ~InMethod' => Len(Got') = method.len /\ Got' = ret'.got
    PROVE  CallInv'
<1>1. RingTypeOK /\ CallRingInv /\ StreamInv /\ CountInv /\ Waits /\ InMethod /\ cq # <<>>
      /\ cq' = Tail(cq) /\ ops' = Seen(Head(cq)) /\ socks' = socks
  BY DEF RingInv, CallInv, TakesResult, Waits
<1>2. /\ Current.st = "cq" /\ Result = Current /\ Head(cq) = Len(ops)
      /\ Arrived = Current.data /\ Current.data \in Seq(Units)
  BY <1>1, CurrentTypes
<1>3. /\ Peer.sent \in Seq(Units) /\ Peer.out \in Seq(Units) /\ Got \in Seq(Units)
      /\ Before \in Nat /\ Len(Got) \in Nat /\ m_fd \in Fds
  BY <1>1, CallTypes
<1>4. Got = method.got /\ Got' = Got \o Arrived
  BY <1>1, <1>2 DEF Got
<1>5. Len(Got') = Len(Got) + Len(Arrived) /\ Len(Arrived) \in Nat
  BY <1>2, <1>3, <1>4
<1>6. Len(socks) \in Nat
  BY SocketTypes DEF UserInv
<1>7. InFlight' = {}
  <2>1. InFlight' = InFlight \ {Head(cq)}
    BY <1>1, <1>6, RingTaken
  <2> QED BY <1>1, <1>2, <2>1 DEF CallRingInv
<1>8. Healthy' /\ Peer' = Peer /\ Before' = Before /\ Arrived' = <<>> /\ at' # "start"
  BY <1>1 DEF Healthy, Peer, Before, Arrived
<1>9. CallRingInv'
  BY <1>1, <1>7, <1>8 DEF CallRingInv, Suits
<1>10. StreamInv'
  <2>1. /\ Peer.sent \in {<<>>, Response(0), Response(1)}
        /\ Follows(Got, Before, Peer.sent)
        /\ Follows(Arrived, Before + Len(Got), Peer.sent)
        /\ Follows(Peer.out, Before + Len(Got) + Len(Arrived), Peer.sent)
    BY <1>1 DEF StreamInv
  <2>2. Follows(Got', Before, Peer.sent)
    BY <1>2, <1>3, <1>4, <2>1, FollowsConcat
  <2>3. Before + Len(Got') = Before + Len(Got) + Len(Arrived)
        /\ Before + Len(Got') + 0 = Before + Len(Got')
    BY <1>3, <1>5
  <2>4. Follows(Peer.out, Before + Len(Got'), Peer.sent)
    BY <2>1, <2>3
  <2>5. Before + Len(Got') \in 0 .. Len(Peer.sent)
    BY <1>3, <1>5, <2>2 DEF Follows
  <2>6. Follows(<<>>, Before + Len(Got'), Peer.sent)
    BY <1>3, <2>5, FollowsEmpty
  <2>7. Len(<<>>) = 0
    OBVIOUS
  <2> QED BY <1>8, <2>1, <2>2, <2>3, <2>4, <2>6, <2>7 DEF StreamInv
<1>11. CountInv'
  <2>1. at \in {"connect", "write"} => Got' = <<>>
    <3>1. at \in {"connect", "write"} => Got = <<>> /\ Arrived = <<>>
      BY <1>1 DEF CountInv
    <3>2. <<>> \o <<>> = <<>>
      OBVIOUS
    <3> QED BY <1>4, <3>1, <3>2
  <2>2. at \in {"size", "body"} => method.len = (IF at = "size" THEN 1 ELSE Len(Peer.sent) - 1)
    BY <1>1 DEF CountInv
  <2> QED BY <1>8, <2>1, <2>2 DEF CountInv
<1> QED BY <1>9, <1>10, <1>11 DEF CallInv

\* What a method of a call that reads gets is what it counts.
LEMMA CallCounts ==
    ASSUME UserInv, RingInv, CallInv, Healthy, TakesResult, at \in {"size", "body"}, Result.res > 0
    PROVE  /\ method.op = "exact"
           /\ Len(method.got \o Result.data) = method.n + Result.res
           /\ method.n + Result.res <= method.len
           /\ method.n + Result.res \in Nat
<1>1. RingTypeOK /\ CallRingInv /\ CountInv /\ Waits /\ InMethod /\ cq # <<>>
  BY DEF RingInv, CallInv, TakesResult, Waits
<1>2. /\ Current.st = "cq" /\ Result = Current /\ Current.data \in Seq(Units)
      /\ Current.res \in Int
  BY <1>1, CurrentTypes
<1>3. method.got \in Seq(Units) /\ method.n \in Nat /\ method.len \in Nat
  BY <1>1, CallTypes
<1>4. /\ Len(method.got) = method.n /\ Current.res <= Current.len
      /\ Len(Current.data) = Current.res
  BY <1>1, <1>2 DEF CountInv
<1>5. Current.len = method.len - method.n /\ Suits(method)
  BY <1>1 DEF CallRingInv
<1>6. Len(method.got \o Result.data) = Len(method.got) + Len(Result.data)
  BY <1>2, <1>3
<1> QED BY <1>2, <1>3, <1>4, <1>5, <1>6 DEF Suits

LEMMA CallTakesPart ==
    ASSUME UserInv, RingInv, CallInv, Healthy, TakePart, UNCHANGED at
    PROVE  CallInv'
<1>1. TakesResult /\ Result.res > 0 /\ UNCHANGED <<m_fd, fdTable, ret>> /\ InMethod
  BY DEF TakePart, TakesResult
<1>2. method \in Method
  BY DEF UserInv, UserTypeOK
<1>3. /\ method'.op = method.op /\ method'.stage = "prep" /\ method'.len = method.len
      /\ method'.got = method.got \o Result.data
      /\ method'.n = IF method.op = "some" THEN 0 ELSE method.n + Result.res
  BY <1>2 DEF TakePart, Method
<1>4. InMethod' /\ ~Waits' /\ Got' = method.got \o Result.data
  BY <1>1, <1>3 DEF InMethod, Waits, Got
<1>5. at \in {"size", "body"} => Len(Got') = method'.n
  BY <1>1, <1>3, <1>4, CallCounts
<1> QED BY <1>1, <1>3, <1>4, <1>5, CallTakes

LEMMA CallTakesLast ==
    ASSUME UserInv, RingInv, CallInv, Healthy, TakeLast, UNCHANGED <<user, at>>
    PROVE  CallInv'
<1>1. TakesResult /\ UNCHANGED <<m_fd, fdTable>> /\ Waits /\ InMethod /\ CallRingInv /\ RingTypeOK
  BY DEF TakeLast, TakesResult, Waits, CallInv, RingInv
<1>2. ~InMethod' /\ ret'.ok /\ ret'.got = method.got \o Result.data
  BY <1>1, TakeLastUser
<1>3. ~Waits' /\ Got' = method.got \o Result.data /\ Got' = ret'.got
  BY <1>2 DEF Waits, Got
<1>4. ASSUME at \in {"size", "body"}
      PROVE  Len(Got') = method.len
  <2>1. method.op = "exact"
    BY <1>1, <1>4 DEF CallRingInv, Suits
  <2>2. Result.res > 0 /\ Complete(method, method.n + Result.res)
    BY <2>1 DEF TakeLast
  <2>3. Len(Got') = method.n + Result.res /\ method.n + Result.res <= method.len
        /\ method.n + Result.res \in Nat
    BY <1>1, <1>3, <1>4, <2>2, CallCounts
  <2>4. method.n + Result.res >= method.len
    BY <2>1, <2>2 DEF Complete
  <2>5. method.len \in Nat
    BY DEF UserInv, UserTypeOK, Method
  <2> QED BY <2>3, <2>4, <2>5
<1> QED BY <1>1, <1>2, <1>3, <1>4, CallTakes

\* The kernel completes the operation a call waits for.
LEMMA CallCompletes ==
    ASSUME UserInv, RingInv, CallInv, Healthy, NEW i \in DOMAIN ops, ops[i].st = "kernel",
           NEW r \in Int, NEW d \in Seq(Units), Completed(i, r, d),
           UNCHANGED <<m_fd, fdTable, method, ret, at>>,
           Peer'.sent = Peer.sent,
           Follows(d, Before + Len(Got), Peer.sent),
           Follows(Peer'.out, Before + Len(Got) + Len(d), Peer.sent),
           at \in {"connect", "write"} => d = <<>>,
           at \in {"size", "body"} => r <= Current.len /\ (r > 0 => Len(d) = r)
    PROVE  CallInv'
<1>1. RingTypeOK /\ CallRingInv /\ StreamInv /\ CountInv
  BY DEF RingInv, CallInv
<1>2. Waits
  <2>1. i \in InFlight
    BY DEF InFlight
  <2> QED BY <1>1, <2>1 DEF CallRingInv
<1>3. i = Len(ops) /\ Current \in Operation
  BY <1>1, <1>2, CurrentTypes
<1>4. /\ Len(ops') = Len(ops) /\ InFlight' = InFlight
      /\ ops'[i] = [ops[i] EXCEPT !.st = "cq", !.res = r, !.data = d]
  BY DEF Completed
<1>5. Current' = [Current EXCEPT !.st = "cq", !.res = r, !.data = d]
  BY <1>3, <1>4 DEF Current
<1>6. /\ Current'.st = "cq" /\ Current'.res = r /\ Current'.data = d
      /\ Current'.op = Current.op /\ Current'.sock = Current.sock /\ Current'.len = Current.len
  BY <1>3, <1>5 DEF Operation
<1>7. Healthy' /\ Waits' /\ InMethod' /\ InMethod /\ Got' = Got /\ Before' = Before
      /\ Arrived' = d /\ at' # "start"
  BY <1>2, <1>6 DEF Healthy, Waits, InMethod, Got, Before, Arrived
<1>8. CallRingInv'
  BY <1>1, <1>2, <1>4, <1>6, <1>7 DEF CallRingInv, Suits, OpOf
<1>9. StreamInv'
  BY <1>1, <1>7 DEF StreamInv
<1>10. CountInv'
  BY <1>1, <1>6, <1>7 DEF CountInv, Got
<1> QED BY <1>8, <1>9, <1>10 DEF CallInv

LEMMA CallKernel ==
    ASSUME UserInv, RingInv, CallInv, NEW i \in DOMAIN ops, KernelStep(i) \/ KError(i),
           UNCHANGED <<user, at>>
    PROVE  CallInv'
<1>1. RingTypeOK /\ CallRingInv /\ StreamInv /\ CountInv
  BY DEF RingInv, CallInv
<1>2. /\ ops[i].st = "kernel" /\ UNCHANGED <<m_fd, fdTable, method, ret, looping, faults>>
      /\ socks' = socks \/ \E s \in DOMAIN socks, x \in Socket : socks' = [socks EXCEPT ![s] = x]
  BY <1>1, KernelMoves
<1>3. at # "start"
  BY <1>1, <1>2 DEF CallRingInv, InFlight
<1>4. CASE ~Healthy
  <2>1. ~Healthy'
    BY <1>2, <1>4 DEF Healthy, InMethod
  <2> QED BY <1>3, <2>1, NotInCall
<1>5. CASE Healthy
  <2>1. Waits
    <3>1. i \in InFlight
      BY <1>2 DEF InFlight
    <3> QED BY <1>1, <1>5, <3>1 DEF CallRingInv
  <2>2. /\ i = Len(ops) /\ Arrived = Current.data /\ ops[i] = Current /\ Current.len \in Nat
        /\ Current.op = OpOf(method) /\ Current.sock = fdTable[m_fd] /\ Suits(method)
        /\ Arrived = <<>>
    BY <1>1, <1>2, <1>5, <2>1, CurrentTypes DEF CallRingInv, Current, Waits
  <2>3. /\ Peer.sent \in Seq(Units) /\ Peer.out \in Seq(Units) /\ Got \in Seq(Units)
        /\ Before \in Nat /\ Len(Got) \in Nat /\ fdTable[m_fd] \in DOMAIN socks
        /\ Peer \in Socket /\ Len(Peer.out) \in Nat
    BY <1>1, <1>5, CallTypes
  <2> DEFINE b == Before + Len(Got)
  <2>4. b \in Nat /\ b + Len(<<>>) = b
    BY <2>3
  <2>5. Follows(Peer.out, b, Peer.sent) /\ Follows(<<>>, b, Peer.sent)
    BY <1>1, <1>5, <2>2, <2>4 DEF StreamInv
  <2>6. Len(socks) \in Nat /\ Len(socks') \in Nat /\ Len(socks') >= Len(socks)
    <3>1. Len(socks') = Len(socks)
      BY <1>2, SocketUser
    <3>2. Len(socks) \in Nat
      BY SocketTypes DEF UserInv
    <3> QED BY <3>1, <3>2
  <2>7. <<>> \in Seq(Units) /\ -1 \in Int /\ 0 \in Int
    OBVIOUS
  <2>8. UNCHANGED <<m_fd, fdTable, method, ret, at>>
    BY <1>2
  <2> HIDE DEF b
  <2>9. ASSUME NEW r \in Int, Completes(i, r, <<>>), Peer'.sent = Peer.sent, Peer'.out = Peer.out,
               at \in {"size", "body"} => r <= 0
        PROVE  CallInv'
    <3>1. Completed(i, r, <<>>)
      BY <1>1, <1>2, <2>6, <2>7, <2>9, RingCompleted
    <3>2. Follows(<<>>, Before + Len(Got), Peer.sent)
          /\ Follows(Peer'.out, Before + Len(Got) + Len(<<>>), Peer.sent)
      BY <2>4, <2>5, <2>9 DEF b
    <3>3. at \in {"size", "body"} => r <= Current.len /\ (r > 0 => Len(<<>>) = r)
      BY <2>2, <2>9
    <3> QED BY <1>2, <1>5, <2>7, <2>8, <2>9, <3>1, <3>2, <3>3, CallCompletes
  <2>10. at \in {"size", "body"} => Current.op = "recv"
    BY <2>2 DEF Suits, OpOf
  <2>11. at \in {"connect", "write"} => Current.op # "recv"
    BY <2>2 DEF Suits, OpOf
  <2>12. CASE KError(i) \/ KConnect(i)
    <3>1. Peer' = Peer
      BY <2>8, <2>12 DEF KError, KConnect, Peer
    <3>2. Completes(i, -1, <<>>) \/ Completes(i, 0, <<>>)
      BY <2>12 DEF KError, KConnect
    <3> QED BY <2>7, <2>9, <3>1, <3>2
  <2>13. CASE KSend(i)
    <3>1. PICK n \in 1 .. ops[i].len :
             /\ Completes(i, n, <<>>)
             /\ socks' = [socks EXCEPT ![ops[i].sock].req = @ + n]
      BY <2>13 DEF KSend
    <3>2. Peer' = [Peer EXCEPT !.req = @ + n]
      BY <2>2, <2>3, <2>8, <3>1 DEF Peer
    <3>3. Peer'.sent = Peer.sent /\ Peer'.out = Peer.out
      BY <2>3, <3>2 DEF Socket
    <3>4. n \in Int /\ at \notin {"size", "body"}
      BY <2>2, <2>10, <2>13 DEF KSend
    <3> QED BY <2>9, <3>1, <3>3, <3>4
  <2>14. CASE KRecv(i)
    <3>1. socks[ops[i].sock] = Peer /\ at \notin {"connect", "write"}
      BY <2>2, <2>11, <2>14 DEF Peer, KRecv
    <3>2. CASE Completes(i, 0, <<>>) /\ UNCHANGED socks
      <4>1. Peer' = Peer
        BY <2>8, <3>2 DEF Peer
      <4> QED BY <2>7, <2>9, <3>2, <4>1
    <3>3. CASE \E n \in 1 .. Len(Peer.out) :
                 /\ n <= ops[i].len
                 /\ Completes(i, n, SubSeq(Peer.out, 1, n))
                 /\ socks' = [socks EXCEPT ![ops[i].sock].out = SubSeq(@, n + 1, Len(@))]
      <4>1. PICK n \in 1 .. Len(Peer.out) :
                 /\ n <= ops[i].len
                 /\ Completes(i, n, SubSeq(Peer.out, 1, n))
                 /\ socks' = [socks EXCEPT ![ops[i].sock].out = SubSeq(@, n + 1, Len(@))]
        BY <3>3
      <4> DEFINE d == SubSeq(Peer.out, 1, n)
                 e == SubSeq(Peer.out, n + 1, Len(Peer.out))
      <4>2. n \in 0 .. Len(Peer.out) /\ n \in Int
        BY <2>3
      <4>3. d \in Seq(Units) /\ Len(d) = n /\ e \in Seq(Units)
            /\ Follows(d, b, Peer.sent) /\ Follows(e, b + n, Peer.sent)
        BY <2>3, <2>4, <2>5, <4>2, FollowsCut
      <4>4. Peer' = [Peer EXCEPT !.out = e]
        BY <2>2, <2>3, <2>8, <4>1 DEF Peer
      <4>5. Peer'.sent = Peer.sent /\ Peer'.out = e
        BY <2>3, <4>4 DEF Socket
      <4>6. Completes(i, n, d)
        BY <4>1
      <4> HIDE DEF d, e
      <4>7. Completed(i, n, d)
        BY <1>1, <1>2, <2>6, <4>2, <4>3, <4>6, RingCompleted
      <4>8. Follows(d, Before + Len(Got), Peer.sent)
            /\ Follows(Peer'.out, Before + Len(Got) + Len(d), Peer.sent)
        BY <4>3, <4>5 DEF b
      <4>9. n <= Current.len /\ (n > 0 => Len(d) = n)
        BY <2>2, <4>1, <4>3
      <4> QED BY <1>2, <1>5, <2>8, <3>1, <4>2, <4>3, <4>5, <4>7, <4>8, <4>9, CallCompletes
    <3> QED BY <2>14, <3>1, <3>2, <3>3 DEF KRecv
  <2> QED BY <2>12, <2>13, <2>14 DEF KernelStep
<1> QED BY <1>4, <1>5

LEMMA CallServer ==
    ASSUME UserInv, RingInv, CallInv, NEW s \in DOMAIN socks, ServerAnswers(s) \/ ServerCloses(s),
           UNCHANGED <<user, at>>
    PROVE  CallInv'
<1>1. RingTypeOK /\ CallRingInv /\ StreamInv /\ CountInv
  BY DEF RingInv, CallInv
<1>2. UNCHANGED <<m_fd, fdTable, ops, cq, method, ret>>
  BY ServerMoves
<1>3. /\ InMethod' = InMethod /\ Waits' = Waits /\ Got' = Got /\ Arrived' = Arrived
      /\ Before' = Before /\ InFlight' = InFlight /\ Healthy' = Healthy
  BY <1>2 DEF InMethod, Waits, Got, Arrived, Before, InFlight, Healthy, Current
<1>4. CallRingInv'
  BY <1>1, <1>2, <1>3 DEF CallRingInv, Suits, OpOf, Current
<1>5. CASE ~Healthy
  BY <1>3, <1>4, <1>5 DEF CallInv, StreamInv, CountInv
<1>6. CASE Healthy
  <2>1. /\ Peer.sent \in Seq(Units) /\ Peer.out \in Seq(Units) /\ Got \in Seq(Units)
        /\ Before \in Nat /\ Len(Got) \in Nat /\ fdTable[m_fd] \in DOMAIN socks
        /\ Peer \in Socket /\ Len(Peer.out) \in Nat /\ Len(Peer.sent) \in Nat
    BY <1>1, <1>6, CallTypes
  <2>2. Arrived \in Seq(Units) /\ Len(Arrived) \in Nat
    <3>1. CASE Waits
      BY <1>1, <1>6, <3>1, CurrentTypes
    <3>2. CASE ~Waits
      BY <3>2 DEF Arrived
    <3> QED BY <3>1, <3>2
  <2>3. /\ Peer.sent \in {<<>>, Response(0), Response(1)}
        /\ Follows(Got, Before, Peer.sent)
        /\ Follows(Arrived, Before + Len(Got), Peer.sent)
        /\ Follows(Peer.out, Before + Len(Got) + Len(Arrived), Peer.sent)
    BY <1>1, <1>6 DEF StreamInv
  <2>4. CASE s # fdTable[m_fd] \/ Peer' = Peer
    <3>1. Peer' = Peer
      BY <1>2, <2>1, <2>4 DEF Peer, ServerAnswers, ServerCloses
    <3> QED BY <1>1, <1>3, <1>4, <1>6, <3>1, <1>2 DEF CallInv, StreamInv, CountInv, Current
  <2>5. CASE s = fdTable[m_fd] /\ ServerAnswers(s)
    <3>1. PICK b \in 0 .. 1 :
             socks' = [socks EXCEPT ![s].out = Response(b), ![s].sent = Response(b)]
      BY <2>5 DEF ServerAnswers
    <3>2. Peer' = [Peer EXCEPT !.out = Response(b), !.sent = Response(b)]
      BY <1>2, <2>1, <2>5, <3>1 DEF Peer
    <3>3. Peer'.out = Response(b) /\ Peer'.sent = Response(b)
          /\ Response(b) \in {Response(0), Response(1)}
      <4>1. b = 0 \/ b = 1
        OBVIOUS
      <4> QED BY <2>1, <3>2, <4>1 DEF Socket
    <3>4. Peer.sent = <<>> /\ Len(<<>>) = 0
      BY <2>5 DEF ServerAnswers, Peer
    <3>5. Before = 0 /\ Len(Got) = 0 /\ Len(Arrived) = 0
      BY <2>1, <2>2, <2>3, <3>4 DEF Follows
    <3>6. Got = <<>> /\ Arrived = <<>>
      BY <2>1, <2>2, <3>5
    <3>7. Response(b) \in Seq(Units)
      <4>1. Response(0) \in Seq(Units) /\ Response(1) \in Seq(Units)
        BY DEF Response, Units
      <4> QED BY <3>3, <4>1
    <3>8. Follows(<<>>, 0, Response(b)) /\ Follows(Response(b), 0, Response(b))
      <4> DEFINE w == Response(b)
      <4>1. w \in Seq(Units)
        BY <3>7
      <4> HIDE DEF w
      <4>2. Follows(<<>>, 0, w) /\ Follows(w, 0, w)
        BY <4>1 DEF Follows
      <4> QED BY <4>2 DEF w
    <3>9. StreamInv'
      BY <1>3, <3>3, <3>4, <3>5, <3>6, <3>8 DEF StreamInv
    <3>10. at # "body"
      BY <3>5 DEF Before
    <3>11. ~(at = "size" /\ ~InMethod)
      BY <1>1, <1>6, <3>5 DEF CountInv, Got
    <3>12. CountInv'
      BY <1>1, <1>2, <1>3, <1>6, <3>10, <3>11 DEF CountInv, Current
    <3> QED BY <1>4, <3>9, <3>12 DEF CallInv
  <2>6. CASE s = fdTable[m_fd] /\ ServerCloses(s)
    <3>1. PICK n \in 0 .. Len(socks[s].out) :
             socks' = [socks EXCEPT ![s].out = SubSeq(@, 1, n), ![s].eof = TRUE]
      BY <2>6 DEF ServerCloses
    <3>2. Peer' = [Peer EXCEPT !.out = SubSeq(@, 1, n), !.eof = TRUE]
      BY <1>2, <2>1, <2>6, <3>1 DEF Peer
    <3>3. Peer'.out = SubSeq(Peer.out, 1, n) /\ Peer'.sent = Peer.sent /\ n \in 0 .. Len(Peer.out)
      BY <2>1, <2>6, <3>2 DEF Socket, Peer
    <3>4. Before + Len(Got) + Len(Arrived) \in Nat
      BY <2>1, <2>2
    <3>5. Follows(SubSeq(Peer.out, 1, n), Before + Len(Got) + Len(Arrived), Peer.sent)
      BY <2>1, <2>3, <3>3, <3>4, FollowsCut
    <3>6. StreamInv'
      BY <1>3, <2>3, <3>3, <3>5 DEF StreamInv
    <3>7. CountInv'
      BY <1>1, <1>2, <1>3, <1>6, <3>3 DEF CountInv, Current
    <3> QED BY <1>4, <3>6, <3>7 DEF CallInv
  <2> QED BY <2>4, <2>5, <2>6
<1> QED BY <1>5, <1>6

\* Every step keeps what is said of a call.
LEMMA CallInvStep ==
    ASSUME UserInv, RingInv, CallInv, UserInv', RingInv', [Next]_vars
    PROVE  CallInv'
<1>1. RingTypeOK /\ CallRingInv /\ RoleInv
  BY DEF RingInv, CallInv, UserInv
<1>2. ASSUME user # "call", at' = at
      PROVE  CallInv'
  <2>1. at = "idle"
    BY <1>1, <1>2 DEF RoleInv
  <2>2. ~Healthy' /\ at' # "start"
    BY <1>2, <2>1 DEF Healthy
  <2> QED BY <2>2, NotInCall
<1>3. ASSUME Fails, at' = at, InMethod
      PROVE  CallInv'
  <2>1. ~Healthy'
    BY <1>3, NoMethodType DEF Fails, Returns, Healthy, InMethod
  <2>2. at # "start"
    BY <1>1, <1>3 DEF RoleInv
  <2> QED BY <1>3, <2>1, <2>2, NotInCall
<1>4. CASE CallRefused \/ CallFails \/ CallParse
  <2>1. ~Healthy' /\ at' # "start"
    BY <1>4 DEF CallRefused, CallFails, CallParse, Healthy
  <2> QED BY <2>1, NotInCall
<1>5. CASE CallConnect
  BY <1>5, CallConnects
<1>6. CASE CallWrite
  <2>1. /\ Start("write", ReqLen) /\ ret.ok /\ user' = user /\ at = "connect" /\ at' = "write"
        /\ ReqLen \in Nat
    BY <1>6, UringClientAssumption DEF CallWrite, Returned
  <2> QED BY <2>1, CallStarts
<1>7. CASE CallReadSize
  <2>1. Start("exact", 1) /\ ret.ok /\ user' = user /\ at = "write" /\ at' = "size" /\ 1 \in Nat
    BY <1>7 DEF CallReadSize, Returned
  <2> QED BY <2>1, CallStarts
<1>8. CASE CallReadBody
  <2>1. /\ Start("exact", response_size) /\ ret.ok /\ user' = user /\ at = "size" /\ at' = "body"
        /\ Returned("size") /\ response_size > 0
    BY <1>8 DEF CallReadBody, Returned
  <2>2. response_size = Len(Peer.sent) - 1 /\ response_size \in Nat
    BY <2>1, SizeRead
  <2> QED BY <2>1, <2>2, CallStarts
<1>9. CASE BlockingUser \/ AsyncUser \/ LoopStep
  <2>1. user # "call" /\ at' = at
    BY <1>9 DEF BlockingUser, AsyncUser, LoopStep
  <2> QED BY <1>2, <2>1
<1>10. CASE Blocked
  <2>1. UNCHANGED <<user, at>> /\ MethodStep /\ InMethod
    BY <1>10 DEF Blocked, MethodStep, SubmitRound, TakeFailure, TakePart, TakeLast, TakesResult
  <2>2. CASE user # "call"
    BY <1>2, <2>1, <2>2
  <2>3. CASE user = "call"
    <3>1. Healthy
      BY <1>1, <2>1, <2>3 DEF RoleInv, Over, Healthy, UserInv, UserTypeOK
    <3>2. CASE SubmitRound
      <4>1. CASE Submit(Append(ops, SqeOf(method)), fdTable)
                 /\ method' = [method EXCEPT !.stage = "wait"]
                 /\ UNCHANGED <<m_fd, fdTable, ret, faults>>
        <5>1. method.stage = "prep" /\ socks' = socks
          BY <3>2 DEF SubmitRound
        <5> QED BY <2>1, <3>1, <4>1, <5>1, CallSubmits
      <4>2. CASE Fails
        BY <1>3, <2>1, <4>2
      <4> QED BY <3>2, <4>1, <4>2 DEF SubmitRound
    <3>3. CASE TakeFailure
      BY <1>3, <2>1, <3>3 DEF TakeFailure
    <3>4. CASE TakePart
      BY <2>1, <3>1, <3>4, CallTakesPart
    <3>5. CASE TakeLast
      BY <2>1, <3>1, <3>5, CallTakesLast
    <3> QED BY <2>1, <3>2, <3>3, <3>4, <3>5 DEF MethodStep
  <2> QED BY <2>2, <2>3
<1>11. CASE Interrupted
  BY <1>3, <1>11 DEF Interrupted, WaitInterrupted
<1>12. CASE Outside
  BY <1>12, CallKernel, CallServer DEF Outside
<1>13. CASE UNCHANGED vars
  <2>1. UNCHANGED <<m_fd, fdTable, socks, ops, cq, method, ret, looping, faults, user, at>>
    BY <1>13 DEF vars, clientVars
  <2> QED BY <2>1 DEF CallInv, CallRingInv, StreamInv, CountInv, Healthy, InMethod, Waits, Got,
                      Arrived, Before, InFlight, Current, Peer, Suits, OpOf
<1> QED BY <1>4, <1>5, <1>6, <1>7, <1>8, <1>9, <1>10, <1>11, <1>12, <1>13 DEF Next, CallStep

-----------------------------------------------------------------------------
(***************************************************************************)
(* The theorems.                                                           *)
(***************************************************************************)

\* The parts of the invariant.
LEMMA InvParts == UringChannelInv <=> UserInv /\ RingInv /\ CallInv
<1>1. NothingLeftBehind <=> TypeOK /\ LeftInv
  BY DEF NothingLeftBehind, LeftInv, Waits
<1>2. RoleInv => (SocketsClosed <=> OwnOpen)
  BY DEF RoleInv, SocketsClosed, OwnOpen
<1> QED BY <1>1, <1>2 DEF UringChannelInv, TypeOK, UserInv, RingInv, CallInv

LEMMA InitInv == Init => UringChannelInv
<1> SUFFICES ASSUME Init PROVE UserInv /\ RingInv /\ CallInv
  BY InvParts
<1>1. /\ m_fd = 0 /\ fdTable = [f \in Fds |-> 0] /\ socks = <<>> /\ ops = <<>> /\ cq = <<>>
      /\ method = NoMethod /\ ret = Failed /\ looping = "out" /\ faults = 0
      /\ at = IF user = "call" THEN "start" ELSE "idle"
  BY DEF Init, ClientInit
<1>2. Len(<<>>) = 0 /\ DOMAIN <<>> = {}
  OBVIOUS
<1>3. ~InMethod /\ ~Waits /\ InFlight = {}
  BY <1>1, <1>2, NoMethodType DEF InMethod, Waits, InFlight
<1>4. SocketTypeOK /\ OwnOpen
  BY <1>1, <1>2 DEF SocketTypeOK, OwnOpen
<1>5. UserTypeOK
  BY <1>1, NoMethodType DEF UserTypeOK
<1>6. RoleInv
  BY <1>1, <1>3 DEF RoleInv, Over
<1>7. RingTypeOK /\ CalledBackOnce /\ LoopInv
  BY <1>1, <1>2 DEF RingTypeOK, CalledBackOnce, LoopInv, Range, IsInjective
<1>8. LeftInv
  BY <1>1, <1>3, FS_EmptySet DEF LeftInv
<1>9. CallInv
  BY <1>1, <1>3 DEF CallInv, CallRingInv, StreamInv, CountInv, Healthy
<1> QED BY <1>4, <1>5, <1>6, <1>7, <1>8, <1>9 DEF UserInv, RingInv

LEMMA NextInv == UringChannelInv /\ [Next]_vars => UringChannelInv'
<1> SUFFICES ASSUME UserInv, RingInv, CallInv, [Next]_vars
             PROVE  UserInv' /\ RingInv' /\ CallInv'
  BY InvParts, PTL
<1>1. UserInv'
  BY UserStep DEF RingInv
<1>2. RingInv'
  BY <1>1, RingStep
<1>3. CallInv'
  BY <1>1, <1>2, CallInvStep
<1> QED BY <1>1, <1>2, <1>3

\* The inductive invariant of UringTcpClient and its users.
THEOREM UringChannelInvariant == Spec => []UringChannelInv
BY InitInv, NextInv, PTL DEF Spec

\* For every number of failing submits and interrupted waits: a blocking method
\* leaves at most one operation behind for each of them, and none otherwise.
THEOREM MethodsLeaveNothing == Spec => []NothingLeftBehind
<1>1. UringChannelInv => NothingLeftBehind
  BY DEF UringChannelInv
<1> QED BY <1>1, UringChannelInvariant, PTL

\* No way through the blocking methods or CallMethod loses a descriptor.
THEOREM NoSocketIsLost == Spec => []SocketsClosed
<1>1. UringChannelInv => SocketsClosed
  BY DEF UringChannelInv
<1> QED BY <1>1, UringChannelInvariant, PTL

\* Whatever pieces the stream comes in, and wherever the server cuts it off,
\* CallMethod parses the whole response and nothing else.
THEOREM ResponseIsWhole == Spec => []ResponseWhole
<1>1. UringChannelInv => ResponseWhole
  <2> SUFFICES ASSUME UringChannelInv, Returned("body")
               PROVE  ret.got = Tail(Peer.sent)
    BY DEF ResponseWhole, Peer
  <2>1. UserInv /\ RingTypeOK /\ CallRingInv /\ StreamInv /\ CountInv
    BY InvParts DEF RingInv, CallInv
  <2>2. Healthy /\ ~InMethod /\ Got = ret.got /\ Before = 1 /\ at = "body"
    BY DEF Returned, Healthy, Got, Before
  <2>3. Peer.sent \in Seq(Units) /\ ret.got \in Seq(Units)
    BY <2>1, <2>2, CallTypes
  <2>4. Follows(ret.got, 1, Peer.sent) /\ Len(ret.got) = Len(Peer.sent) - 1
    BY <2>1, <2>2 DEF StreamInv, CountInv
  <2>5. Peer.sent # <<>>
    BY <2>3, <2>4 DEF Follows
  <2> QED BY <2>3, <2>4, <2>5, FollowsTail
<1> QED BY <1>1, UringChannelInvariant, PTL

\* The callback of an operation runs once, and only a refused one may run a
\* second time.
THEOREM CallbacksRunOnce == Spec => []CalledBackOnce
<1>1. UringChannelInv => CalledBackOnce
  BY DEF UringChannelInv
<1> QED BY <1>1, UringChannelInvariant, PTL
===============================================================================
