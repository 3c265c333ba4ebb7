--------------------------- MODULE CoroutinesProofs ---------------------------
(***************************************************************************)
(* Proofs about the coroutine library, for any number of frames, entries   *)
(* of the submission queue, steps and faults.  CoroutinesInv is inductive: *)
(* one lemma per action, with one step per part of the invariant.          *)
(***************************************************************************)
EXTENDS CoroutinesProps, FiniteSetTheorems, TLAPS

USE CoroutinesAssumption

\* What SequencesExt's Front and Last are on a stack that is not empty.
LEMMA FrontLast ==
    ASSUME NEW S, NEW s \in Seq(S), s # <<>>
    PROVE  /\ Len(s) \in Nat /\ Len(s) >= 1
           /\ Last(s) = s[Len(s)] /\ Last(s) \in S
           /\ Front(s) \in Seq(S) /\ Len(Front(s)) = Len(s) - 1
           /\ \A i \in 1 .. Len(s) - 1 : Front(s)[i] = s[i]
<1>1. Len(s) \in Nat /\ Len(s) >= 1
  OBVIOUS
<1>2. /\ SubSeq(s, 1, Len(s) - 1) \in Seq(S)
      /\ Len(SubSeq(s, 1, Len(s) - 1)) = Len(s) - 1
      /\ \A i \in 1 .. Len(s) - 1 : SubSeq(s, 1, Len(s) - 1)[i] = s[i]
  BY <1>1
<1> QED BY <1>1, <1>2 DEF Front, Last

\* The transfer of control replaces the top of the stack.
LEMMA Transfer ==
    ASSUME NEW S, NEW s \in Seq(S), s # <<>>, NEW x \in S
    PROVE  /\ Append(Front(s), x) \in Seq(S)
           /\ Len(Append(Front(s), x)) = Len(s)
           /\ Append(Front(s), x)[Len(s)] = x
           /\ \A i \in 1 .. Len(s) - 1 : Append(Front(s), x)[i] = s[i]
BY FrontLast

\* The running frame is on top of the stack and nowhere else, and no task that
\* it owns is under way, so that none is in the ring or on the stack.
LEMMA OnTop ==
    ASSUME CoroutinesInv, NEW f \in Frames, Running(f)
    PROVE  /\ stack \in Seq(Frames) /\ stack # <<>>
           /\ Len(stack) \in Nat /\ Len(stack) >= 1 /\ stack[Len(stack)] = f
           /\ frame[f] = "running"
           /\ \A i \in 1 .. Len(stack) : stack[i] = f => i = Len(stack)
           /\ DOMAIN stack = 1 .. Len(stack)
           /\ \A i \in 1 .. Len(stack) : frame[stack[i]] = "running"
           /\ \A i \in 1 .. Len(stack) : stack[i] \in Frames
           /\ \A g \in Frames : owner[g] = f => g # f /\ frame[g] \in {"created", "final"}
<1>1. /\ stack \in Seq(Frames) /\ stack # <<>>
      /\ Len(stack) \in Nat /\ Len(stack) >= 1 /\ stack[Len(stack)] = f
  BY FrontLast DEF Running, CoroutinesInv, TypeOK
<1>2. Len(stack) \in DOMAIN stack /\ DOMAIN stack = 1 .. Len(stack)
  BY <1>1
<1>3. frame[f] = "running" /\ \A i \in 1 .. Len(stack) : stack[i] = f => i = Len(stack)
  BY <1>1, <1>2 DEF CoroutinesInv, StackInv
<1>5. \A i \in 1 .. Len(stack) : frame[stack[i]] = "running"
  BY <1>2 DEF CoroutinesInv, StackInv
<1>6. \A i \in 1 .. Len(stack) : stack[i] \in Frames
  BY <1>1
<1>4. ASSUME NEW g \in Frames, owner[g] = f
      PROVE  g # f /\ frame[g] \in {"created", "final"}
  <2>1. g # f /\ frame[g] # "free"
    BY <1>4 DEF CoroutinesInv, OwnerInv
  <2>2. frame[g] \notin UnderWay
    BY <1>3, <1>4 DEF CoroutinesInv, OwnerInv, AwaitInv, Wakes
  <2> QED BY <2>1, <2>2 DEF UnderWay, CoroutinesInv, TypeOK
<1> QED BY <1>1, <1>2, <1>3, <1>4, <1>5, <1>6

\* The running frame leaves the stack.
LEMMA StackPopped ==
    ASSUME CoroutinesInv, NEW f \in Frames, Running(f),
           stack' \in Seq(Frames), Len(stack') = Len(stack) - 1,
           \A i \in 1 .. Len(stack) - 1 : stack'[i] = stack[i],
           frame'[f] # "running",
           \A h \in Frames \ {f} : (frame'[h] = "running") = (frame[h] = "running")
    PROVE  StackInv'
<1>1. DOMAIN stack' = 1 .. Len(stack) - 1 /\ Len(stack) \in Nat
  BY OnTop
<1>2. \A i, j \in DOMAIN stack' : stack'[i] = stack'[j] => i = j
  BY <1>1, OnTop DEF CoroutinesInv, StackInv
<1>3. \A i \in DOMAIN stack' : frame'[stack'[i]] = "running"
  <2> SUFFICES ASSUME NEW i \in 1 .. Len(stack) - 1 PROVE frame'[stack[i]] = "running"
    BY <1>1
  <2>1. i \in 1 .. Len(stack) /\ i # Len(stack)
    BY <1>1
  <2>2. stack[i] \in Frames \ {f} /\ frame[stack[i]] = "running"
    BY <2>1, OnTop
  <2> QED BY <2>2
<1>4. ASSUME NEW h \in Frames, frame'[h] = "running"
      PROVE  \E i \in DOMAIN stack' : stack'[i] = h
  <2>1. h # f /\ frame[h] = "running"
    BY <1>4
  <2>2. PICK i \in 1 .. Len(stack) : stack[i] = h
    BY <2>1, OnTop DEF CoroutinesInv, StackInv
  <2>3. i # Len(stack)
    BY <2>1, <2>2, OnTop
  <2> QED BY <1>1, <2>2, <2>3
<1> QED BY <1>2, <1>3, <1>4 DEF StackInv

\* Positions below the top and the top.
LEMMA UpTo ==
    ASSUME NEW n \in Nat, n >= 1
    PROVE  /\ 1 .. n - 1 \subseteq 1 .. n
           /\ \A i \in 1 .. n : i = n \/ i \in 1 .. n - 1
OBVIOUS

\* The running frame hands the thread to a frame that was not running.
LEMMA StackReplaced ==
    ASSUME CoroutinesInv, NEW f \in Frames, Running(f),
           NEW c \in Frames, c # f, frame[c] # "running", frame'[c] = "running",
           stack' \in Seq(Frames), Len(stack') = Len(stack), stack'[Len(stack)] = c,
           \A i \in 1 .. Len(stack) - 1 : stack'[i] = stack[i],
           frame'[f] # "running",
           \A h \in Frames \ {f, c} : (frame'[h] = "running") = (frame[h] = "running")
    PROVE  StackInv'
<1>1. DOMAIN stack' = 1 .. Len(stack) /\ Len(stack) \in Nat /\ Len(stack) >= 1
  BY OnTop
<1>2. \A i \in 1 .. Len(stack) - 1 : stack[i] # c /\ stack[i] # f /\ stack[i] \in Frames
  <2> SUFFICES ASSUME NEW i \in 1 .. Len(stack) - 1
               PROVE  stack[i] # c /\ stack[i] # f /\ stack[i] \in Frames
    OBVIOUS
  <2>1. i \in 1 .. Len(stack) /\ i # Len(stack)
    BY <1>1
  <2> QED BY <2>1, OnTop
<1>6. DOMAIN stack = 1 .. Len(stack) /\ 1 .. Len(stack) - 1 \subseteq 1 .. Len(stack)
  <2>1. DOMAIN stack = 1 .. Len(stack)
    BY OnTop
  <2>2. 1 .. Len(stack) - 1 \subseteq 1 .. Len(stack)
    BY <1>1, UpTo
  <2> QED BY <2>1, <2>2
<1>7. \A i \in 1 .. Len(stack) : i = Len(stack) \/ i \in 1 .. Len(stack) - 1
  BY <1>1, UpTo
<1>3. \A i, j \in DOMAIN stack' : stack'[i] = stack'[j] => i = j
  <2>1. \A i, j \in 1 .. Len(stack) - 1 : stack[i] = stack[j] => i = j
    BY <1>6 DEF CoroutinesInv, StackInv
  <2> SUFFICES ASSUME NEW i \in 1 .. Len(stack), NEW j \in 1 .. Len(stack),
                      stack'[i] = stack'[j]
               PROVE  i = j
    BY <1>1
  <2>2. CASE i = Len(stack) /\ j # Len(stack)
    BY <1>2, <1>7, <2>2
  <2>3. CASE j = Len(stack) /\ i # Len(stack)
    BY <1>2, <1>7, <2>3
  <2>4. CASE j # Len(stack) /\ i # Len(stack)
    BY <1>7, <2>1, <2>4
  <2> QED BY <2>2, <2>3, <2>4
<1>4. \A i \in DOMAIN stack' : frame'[stack'[i]] = "running"
  <2>1. \A i \in 1 .. Len(stack) - 1 : frame[stack[i]] = "running"
    BY <1>6 DEF CoroutinesInv, StackInv
  <2> SUFFICES ASSUME NEW i \in 1 .. Len(stack) PROVE frame'[stack'[i]] = "running"
    BY <1>1
  <2>2. CASE i # Len(stack)
    <3>1. stack'[i] = stack[i] /\ stack[i] \in Frames \ {f, c} /\ frame[stack[i]] = "running"
      BY <1>2, <1>7, <2>1, <2>2
    <3> QED BY <3>1
  <2> QED BY <2>2
<1>5. ASSUME NEW h \in Frames, frame'[h] = "running"
      PROVE  \E i \in DOMAIN stack' : stack'[i] = h
  <2>1. CASE h = c
    BY <1>1, <2>1
  <2>2. CASE h # c
    <3>1. h # f /\ frame[h] = "running"
      BY <1>5, <2>2
    <3>2. PICK i \in 1 .. Len(stack) : stack[i] = h
      BY <3>1, OnTop DEF CoroutinesInv, StackInv
    <3>3. i # Len(stack)
      BY <3>1, <3>2, OnTop
    <3>4. i \in 1 .. Len(stack) - 1
      BY <1>7, <3>3
    <3>5. stack'[i] = h /\ i \in DOMAIN stack'
      BY <1>1, <3>2, <3>4
    <3> QED BY <3>5
  <2> QED BY <2>1, <2>2
<1> QED BY <1>3, <1>4, <1>5 DEF StackInv

\* A step that leaves the ring alone, and the set of frames waiting for I/O.
LEMMA RingKept ==
    ASSUME TypeOK, RingInv, UNCHANGED <<sq, kernel, cq, head>>,
           \A f \in Frames : (frame'[f] = "io") = (frame[f] = "io")
    PROVE  RingInv'
<1>1. sq \cup kernel \subseteq Frames /\ \A i \in Pending : cq[i] \in Frames
  BY DEF TypeOK, Pending
<1> QED BY <1>1 DEF RingInv, Pending

\* CreateTask keeps the invariant.
LEMMA CreateTaskStep ==
    ASSUME CoroutinesInv, NEW f \in Frames, NEW g \in Frames, CreateTask(f, g)
    PROVE  CoroutinesInv'
<1> USE DEF CoroutinesInv, machine, loop, ring, bounds
<1>0. /\ stack \in Seq(Frames) /\ stack # <<>>
      /\ Len(stack) \in Nat /\ Len(stack) >= 1 /\ stack[Len(stack)] = f
      /\ frame[f] = "running"
      /\ \A i \in 1 .. Len(stack) : stack[i] = f => i = Len(stack)
      /\ \A h \in Frames : owner[h] = f => h # f /\ frame[h] \in {"created", "final"}
  BY OnTop DEF CreateTask, Acts
<1>1. TypeOK'
  BY <1>0 DEF CreateTask, Acts, Running, Allocate, TypeOK
<1>2. RingInv'
  BY <1>0 DEF CreateTask, Acts, Running, Allocate, TypeOK, RingInv, Pending
<1>3. StackInv'
  BY <1>0 DEF CreateTask, Acts, Running, Allocate, TypeOK, StackInv
<1>4. AwaitInv'
  BY <1>0 DEF CreateTask, Acts, Running, Allocate, TypeOK, AwaitInv, Wakes, UnderWay
<1>5. OwnerInv'
  BY <1>0 DEF CreateTask, Acts, Running, Allocate, TypeOK, OwnerInv, UnderWay
<1>6. NoCircle'
  BY <1>0 DEF CreateTask, Acts, Running, Allocate, TypeOK, NoCircle
<1> QED BY <1>1, <1>2, <1>3, <1>4, <1>5, <1>6

\* AwaitTask keeps the invariant.
LEMMA AwaitTaskStep ==
    ASSUME CoroutinesInv, NEW f \in Frames, NEW g \in Frames, AwaitTask(f, g)
    PROVE  CoroutinesInv'
<1> USE DEF CoroutinesInv, machine, loop, ring, bounds
<1>0. /\ stack \in Seq(Frames) /\ stack # <<>>
      /\ Len(stack) \in Nat /\ Len(stack) >= 1 /\ stack[Len(stack)] = f
      /\ frame[f] = "running"
      /\ \A i \in 1 .. Len(stack) : stack[i] = f => i = Len(stack)
      /\ \A h \in Frames : owner[h] = f => h # f /\ frame[h] \in {"created", "final"}
  BY OnTop DEF AwaitTask, Acts
<1>1. CASE frame[g] = "final"
  <2>1. UNCHANGED <<frame, kind, continuation, owner, stack, pc, root, sq, kernel, cq, head>>
    BY <1>1 DEF AwaitTask
  <2> QED BY <2>1 DEF TypeOK, RingInv, Pending, StackInv, AwaitInv, Wakes, OwnerInv, NoCircle
<1>2. CASE frame[g] # "final"
  <2>1. frame[g] = "created" /\ owner[g] = f /\ g # f /\ continuation[g] = None
    BY <1>0, <1>2 DEF AwaitTask, Owned, OwnerInv
  <2>2. /\ continuation' = [continuation EXCEPT ![g] = f]
        /\ frame' = [frame EXCEPT ![f] = "await", ![g] = "running"]
        /\ stack' = Append(Front(stack), g)
        /\ UNCHANGED <<kind, owner, pc, root, sq, kernel, cq, head>>
    BY <1>2 DEF AwaitTask
  <2>3. /\ stack' \in Seq(Frames) /\ Len(stack') = Len(stack)
        /\ stack'[Len(stack)] = g
        /\ \A i \in 1 .. Len(stack) - 1 : stack'[i] = stack[i]
    BY <1>0, <2>2, Transfer
  <2>4. /\ frame' \in [Frames -> {"free", "created", "running", "io", "await", "final"}]
        /\ frame'[f] = "await" /\ frame'[g] = "running"
        /\ \A h \in Frames \ {f, g} : frame'[h] = frame[h]
        /\ continuation' \in [Frames -> Frames \cup {None}]
        /\ continuation'[g] = f
        /\ \A h \in Frames \ {g} : continuation'[h] = continuation[h]
    BY <2>1, <2>2 DEF TypeOK
  <2>5. TypeOK'
    BY <2>2, <2>3, <2>4 DEF TypeOK
  <2>6. RingInv'
    <3>1. \A h \in Frames : (frame'[h] = "io") = (frame[h] = "io")
      BY <1>0, <2>1, <2>4
    <3> QED BY <2>2, <3>1, RingKept
  <2>7. StackInv'
    BY <2>1, <2>3, <2>4, StackReplaced DEF AwaitTask, Acts
  <2>8. AwaitInv'
    <3>1. /\ \A h, k \in Frames : Wakes(h, k)' = (Wakes(h, k) \/ (h = g /\ k = f))
          /\ \A k \in Frames : (frame'[k] = "await") = (frame[k] = "await" \/ k = f)
      BY <1>0, <2>1, <2>4 DEF Wakes, UnderWay
    <3>2. \A h \in Frames : ~Wakes(h, f)
      BY <1>0 DEF AwaitInv
    <3> QED BY <3>1, <3>2 DEF AwaitInv
  <2>9. OwnerInv'
    BY <1>0, <2>1, <2>2, <2>4 DEF TypeOK, OwnerInv, UnderWay
  <2>10. NoCircle'
    <3> SUFFICES ASSUME NEW S \in SUBSET Frames, S # {}, \A h \in S : frame'[h] = "await"
                 PROVE  \E h \in S : \A k \in S : continuation'[k] # h
      BY DEF NoCircle
    <3>1. g \notin S
      BY <2>4
    <3>2. CASE f \in S
      BY SMTT(30), <1>0, <2>4, <3>1, <3>2 DEF AwaitInv, Wakes, UnderWay
    <3>3. CASE f \notin S
      BY <2>4, <3>1, <3>3 DEF NoCircle
    <3> QED BY <3>2, <3>3
  <2> QED BY <2>5, <2>6, <2>7, <2>8, <2>9, <2>10
<1> QED BY <1>1, <1>2

\* DestroyTask keeps the invariant.
LEMMA DestroyTaskStep ==
    ASSUME CoroutinesInv, NEW f \in Frames, NEW g \in Frames, DestroyTask(f, g)
    PROVE  CoroutinesInv'
<1> USE DEF CoroutinesInv, machine, loop, ring, bounds
<1>0. /\ stack \in Seq(Frames) /\ stack # <<>>
      /\ Len(stack) \in Nat /\ Len(stack) >= 1 /\ stack[Len(stack)] = f
      /\ frame[f] = "running"
      /\ \A i \in 1 .. Len(stack) : stack[i] = f => i = Len(stack)
      /\ \A h \in Frames : owner[h] = f => h # f /\ frame[h] \in {"created", "final"}
  BY OnTop DEF DestroyTask, Acts
<1>1. TypeOK'
  BY <1>0 DEF DestroyTask, Acts, Running, Owned, TypeOK
<1>2. RingInv'
  BY SMTT(30), <1>0 DEF DestroyTask, Acts, Running, Owned, TypeOK, RingInv, Pending
<1>3. StackInv'
  BY <1>0 DEF DestroyTask, Acts, Running, Owned, TypeOK, StackInv
<1>4. AwaitInv'
  <2>1. frame[g] \notin UnderWay
    BY <1>0 DEF DestroyTask, Owned, UnderWay
  <2> QED BY <2>1 DEF DestroyTask, Acts, Running, Owned, TypeOK, AwaitInv, Wakes, UnderWay
<1>5. OwnerInv'
  BY <1>0 DEF DestroyTask, Acts, Running, Owned, TypeOK, OwnerInv, UnderWay
<1>6. NoCircle'
  BY <1>0 DEF DestroyTask, Acts, Running, Owned, TypeOK, NoCircle
<1> QED BY <1>1, <1>2, <1>3, <1>4, <1>5, <1>6

\* TaskEnds keeps the invariant.
LEMMA TaskEndsStep ==
    ASSUME CoroutinesInv, NEW f \in Frames, TaskEnds(f)
    PROVE  CoroutinesInv'
<1> USE DEF CoroutinesInv, machine, loop, ring, bounds
<1>0. /\ stack \in Seq(Frames) /\ stack # <<>>
      /\ Len(stack) \in Nat /\ Len(stack) >= 1 /\ stack[Len(stack)] = f
      /\ frame[f] = "running"
      /\ \A i \in 1 .. Len(stack) : stack[i] = f => i = Len(stack)
      /\ \A h \in Frames : owner[h] = f => h # f /\ frame[h] \in {"created", "final"}
  BY OnTop DEF TaskEnds
<1>1. /\ owner' = [g \in Frames |-> IF owner[g] = f THEN None ELSE owner[g]]
      /\ UNCHANGED <<kind, continuation, pc, root, sq, kernel, cq, head>>
      /\ kind[f] = "task"
  BY DEF TaskEnds, OwnersAfter
<1>2. CASE continuation[f] = None
  <2>1. /\ frame' \in [Frames -> {"free", "created", "running", "io", "await", "final"}]
        /\ frame'[f] = "final"
        /\ \A h \in Frames \ {f} : frame'[h] = IF owner[h] = f THEN "free" ELSE frame[h]
    BY <1>2 DEF TaskEnds, FramesAfter, TypeOK
  <2>2. /\ stack' \in Seq(Frames) /\ Len(stack') = Len(stack) - 1
        /\ \A i \in 1 .. Len(stack) - 1 : stack'[i] = stack[i]
    BY <1>0, <1>2, FrontLast DEF TaskEnds, FinalTransfer
  <2>4. TypeOK'
    BY <1>1, <2>1, <2>2 DEF TypeOK
  <2>5. RingInv'
    <3>1. \A h \in Frames : (frame'[h] = "io") = (frame[h] = "io")
      BY <1>0, <2>1, <2>2
    <3> QED BY <1>1, <3>1, RingKept
  <2>6. StackInv'
    BY <1>0, <2>1, <2>2, StackPopped DEF TaskEnds
  <2>7. AwaitInv'
    <3>1. /\ \A h, k \in Frames : Wakes(h, k)' <=> (Wakes(h, k) /\ h # f)
          /\ \A k \in Frames : frame'[k] = "await" <=> frame[k] = "await"
      BY <1>0, <1>1, <2>1, <2>2 DEF Wakes, UnderWay
    <3>2. \A k \in Frames : ~Wakes(f, k)
      BY <1>0, <1>2 DEF Wakes, UnderWay
    <3>3. ASSUME NEW k \in Frames, frame'[k] = "await"
          PROVE  \E h \in Frames : Wakes(h, k)'
      <4>1. PICK h \in Frames : Wakes(h, k)
        BY <3>1, <3>3 DEF AwaitInv
      <4>2. h # f
        BY <3>1, <3>2, <3>3, <4>1
      <4> QED BY <3>1, <4>1, <4>2
    <3>4. ASSUME NEW k \in Frames, NEW h \in Frames, Wakes(h, k)'
          PROVE  frame'[k] = "await"
      <4>1. Wakes(h, k) /\ h # f /\ frame[k] = "await"
        BY <3>1, <3>4 DEF AwaitInv
      <4> QED BY <3>1, <4>1
    <3>5. \A k, g, h \in Frames : Wakes(g, k)' /\ Wakes(h, k)' => g = h
      BY <3>1 DEF AwaitInv
    <3> QED BY <3>3, <3>4, <3>5 DEF AwaitInv
  <2>8. OwnerInv'
    <3>1. \A h \in Frames : (frame'[h] \in UnderWay) = (frame[h] \in UnderWay /\ h # f)
      BY <1>0, <1>1, <2>1, <2>2 DEF UnderWay
    <3>2. \A h \in Frames : frame'[h] = "free" => owner'[h] = None
      <4> SUFFICES ASSUME NEW h \in Frames, frame'[h] = "free", owner'[h] # None PROVE FALSE
        OBVIOUS
      <4>1. owner[h] # f /\ owner[h] # None
        BY <1>1
      <4>2. frame[h] # "free"
        BY <4>1 DEF OwnerInv
      <4> QED BY <1>0, <1>1, <2>1, <2>2, <1>2, <4>1, <4>2 DEF TypeOK
    <3>3. \A h \in Frames : owner'[h] # None => owner'[h] = owner[h] /\ owner[h] # f
      BY <1>1 DEF TypeOK
    <3>4. \A h \in Frames : frame'[h] # "free" => frame[h] # "free"
      BY <1>0, <1>1, <2>1, <2>2 DEF TypeOK
    <3>5. \A h \in Frames : frame'[h] = "created" => frame[h] = "created"
      BY <2>1, <2>2
    <3>6. \A h \in Frames : frame'[h] # "free" => owner'[h] = owner[h]
      BY <1>0, <1>1, <2>1, <2>2 DEF TypeOK
    <3>7. \A h \in Frames : frame'[h] = "final" => frame[h] = "final" \/ h = f
      BY <2>1, <2>2
    <3> QED BY <1>0, <1>1, <3>1, <3>2, <3>3, <3>4, <3>5, <3>6, <3>7, <2>1, <2>2, <1>2
        DEF TypeOK, OwnerInv
  <2>9. NoCircle'
    <3> SUFFICES ASSUME NEW S \in SUBSET Frames, S # {}, \A h \in S : frame'[h] = "await"
                 PROVE  \E h \in S : \A k \in S : continuation'[k] # h
      BY DEF NoCircle
    <3>1. \A h \in S : frame[h] = "await"
      BY <2>1, <2>2
    <3> QED BY <1>1, <3>1 DEF NoCircle
  <2> QED BY <2>4, <2>5, <2>6, <2>7, <2>8, <2>9
<1>3. CASE continuation[f] # None
  <2> DEFINE c == continuation[f]
  <2>0. c \in Frames /\ c # f /\ frame[c] = "await" /\ owner[c] # f /\ owner[f] = c
    <3>1. c \in Frames
      BY <1>3 DEF TypeOK
    <3>2. frame[c] = "await"
      BY <1>0, <3>1 DEF AwaitInv, Wakes, UnderWay
    <3>3. c # f /\ owner[c] # f
      BY <1>0, <3>1, <3>2
    <3>4. owner[f] = c
      BY <1>0, <1>1, <1>3 DEF OwnerInv, UnderWay, TypeOK
    <3> QED BY <3>1, <3>2, <3>3, <3>4
  <2>1. /\ frame' \in [Frames -> {"free", "created", "running", "io", "await", "final"}]
        /\ frame'[f] = "final" /\ frame'[c] = "running"
        /\ \A h \in Frames \ {f, c} : frame'[h] = IF owner[h] = f THEN "free" ELSE frame[h]
    BY <1>3, <2>0 DEF TaskEnds, FramesAfter, TypeOK
  <2>2. /\ stack' \in Seq(Frames) /\ Len(stack') = Len(stack) /\ stack'[Len(stack)] = c
        /\ \A i \in 1 .. Len(stack) - 1 : stack'[i] = stack[i]
    BY <1>0, <1>3, <2>0, Transfer DEF TaskEnds, FinalTransfer
  <2>4. TypeOK'
    BY <1>1, <2>0, <2>1, <2>2 DEF TypeOK
  <2>5. RingInv'
    <3>1. \A h \in Frames : (frame'[h] = "io") = (frame[h] = "io")
      BY <1>0, <2>0, <2>1, <2>2
    <3> QED BY <1>1, <3>1, RingKept
  <2>6. StackInv'
    BY SMTT(30), <1>0, <2>0, <2>1, <2>2, StackReplaced DEF TaskEnds
  <2>7. AwaitInv'
    <3>1. /\ \A h, k \in Frames : Wakes(h, k)' <=> (Wakes(h, k) /\ h # f)
          /\ \A k \in Frames : frame'[k] = "await" <=> (frame[k] = "await" /\ k # c)
      BY <1>0, <1>1, <2>0, <2>1, <2>2 DEF Wakes, UnderWay
    <3>2. \A k \in Frames : Wakes(f, k) = (k = c)
      BY <1>0, <1>3, <2>0 DEF Wakes, UnderWay
    <3>3. ASSUME NEW k \in Frames, frame'[k] = "await"
          PROVE  \E h \in Frames : Wakes(h, k)'
      <4>1. PICK h \in Frames : Wakes(h, k)
        BY <3>1, <3>3 DEF AwaitInv
      <4>2. h # f
        BY <3>1, <3>2, <3>3, <4>1, <2>0
      <4> QED BY <3>1, <4>1, <4>2
    <3>4. ASSUME NEW k \in Frames, NEW h \in Frames, Wakes(h, k)'
          PROVE  frame'[k] = "await"
      <4>1. Wakes(h, k) /\ h # f /\ frame[k] = "await"
        BY <3>1, <3>4 DEF AwaitInv
      <4>2. k # c
        BY <3>2, <4>1, <2>0 DEF AwaitInv
      <4> QED BY <3>1, <4>1, <4>2
    <3>5. \A k, g, h \in Frames : Wakes(g, k)' /\ Wakes(h, k)' => g = h
      BY <3>1 DEF AwaitInv
    <3> QED BY <3>3, <3>4, <3>5 DEF AwaitInv
  <2>8. OwnerInv'
    <3>1. \A h \in Frames : (frame'[h] \in UnderWay) = (frame[h] \in UnderWay /\ h # f)
      BY <1>0, <1>1, <2>0, <2>1, <2>2 DEF UnderWay
    <3>2. \A h \in Frames : frame'[h] = "free" => owner'[h] = None
      <4> SUFFICES ASSUME NEW h \in Frames, frame'[h] = "free", owner'[h] # None PROVE FALSE
        OBVIOUS
      <4>1. owner[h] # f /\ owner[h] # None
        BY <1>1
      <4>2. frame[h] # "free"
        BY <4>1 DEF OwnerInv
      <4> QED BY <1>0, <1>1, <2>0, <2>1, <2>2, <1>3, <4>1, <4>2 DEF TypeOK
    <3>3. \A h \in Frames : owner'[h] # None => owner'[h] = owner[h] /\ owner[h] # f
      BY <1>1 DEF TypeOK
    <3>4. \A h \in Frames : frame'[h] # "free" => frame[h] # "free"
      BY <1>0, <1>1, <2>0, <2>1, <2>2 DEF TypeOK
    <3>5. \A h \in Frames : frame'[h] = "created" => frame[h] = "created"
      BY <2>0, <2>1, <2>2
    <3>6. \A h \in Frames : frame'[h] # "free" => owner'[h] = owner[h]
      BY <1>0, <1>1, <2>0, <2>1, <2>2 DEF TypeOK
    <3>7. \A h \in Frames : frame'[h] = "final" => frame[h] = "final" \/ h = f
      BY <2>0, <2>1, <2>2
    <3> QED BY <1>0, <1>1, <3>1, <3>2, <3>3, <3>4, <3>5, <3>6, <3>7, <2>0, <2>1, <2>2, <1>3
        DEF TypeOK, OwnerInv
  <2>9. NoCircle'
    <3> SUFFICES ASSUME NEW S \in SUBSET Frames, S # {}, \A h \in S : frame'[h] = "await"
                 PROVE  \E h \in S : \A k \in S : continuation'[k] # h
      BY DEF NoCircle
    <3>1. \A h \in S : frame[h] = "await"
      BY <2>0, <2>1, <2>2
    <3> QED BY <1>1, <3>1 DEF NoCircle
  <2> QED BY <2>4, <2>5, <2>6, <2>7, <2>8, <2>9
<1> QED BY <1>2, <1>3

\* DetachedEnds keeps the invariant.
LEMMA DetachedEndsStep ==
    ASSUME CoroutinesInv, NEW f \in Frames, DetachedEnds(f)
    PROVE  CoroutinesInv'
<1> USE DEF CoroutinesInv, machine, loop, ring, bounds
<1>0. /\ stack \in Seq(Frames) /\ stack # <<>>
      /\ Len(stack) \in Nat /\ Len(stack) >= 1 /\ stack[Len(stack)] = f
      /\ frame[f] = "running"
      /\ \A i \in 1 .. Len(stack) : stack[i] = f => i = Len(stack)
      /\ \A h \in Frames : owner[h] = f => h # f /\ frame[h] \in {"created", "final"}
  BY OnTop DEF DetachedEnds
<1>1. /\ owner' = [g \in Frames |-> IF owner[g] = f THEN None ELSE owner[g]]
      /\ UNCHANGED <<kind, continuation, pc, root, sq, kernel, cq, head>>
  BY DEF DetachedEnds, OwnersAfter
<1>2. /\ frame' \in [Frames -> {"free", "created", "running", "io", "await", "final"}]
      /\ frame'[f] = "free" /\ continuation[f] = None /\ owner[f] = None
      /\ \A h \in Frames \ {f} : frame'[h] = IF owner[h] = f THEN "free" ELSE frame[h]
  BY <1>0 DEF DetachedEnds, FramesAfter, TypeOK, OwnerInv
<1>3. /\ stack' \in Seq(Frames) /\ Len(stack') = Len(stack) - 1
      /\ \A i \in 1 .. Len(stack) - 1 : stack'[i] = stack[i]
  BY <1>0, FrontLast DEF DetachedEnds
<1>4. TypeOK'
  BY <1>1, <1>2, <1>3 DEF TypeOK
<1>5. RingInv'
  <2>1. \A h \in Frames : (frame'[h] = "io") = (frame[h] = "io")
    BY <1>0, <1>2, <1>3
  <2> QED BY <1>1, <2>1, RingKept
<1>6. StackInv'
  BY <1>0, <1>2, <1>3, StackPopped DEF DetachedEnds
<1>7. AwaitInv'
  <2>1. /\ \A h, k \in Frames : Wakes(h, k)' <=> (Wakes(h, k) /\ h # f)
        /\ \A k \in Frames : frame'[k] = "await" <=> frame[k] = "await"
    BY <1>0, <1>1, <1>2, <1>3 DEF Wakes, UnderWay
  <2>2. \A k \in Frames : ~Wakes(f, k)
    BY <1>0, <1>1, <1>2 DEF Wakes, UnderWay
  <2>3. ASSUME NEW k \in Frames, frame'[k] = "await"
        PROVE  \E h \in Frames : Wakes(h, k)'
    <3>1. PICK h \in Frames : Wakes(h, k)
      BY <2>1, <2>3 DEF AwaitInv
    <3>2. h # f
      BY <2>1, <2>2, <2>3, <3>1
    <3> QED BY <2>1, <3>1, <3>2
  <2>4. ASSUME NEW k \in Frames, NEW h \in Frames, Wakes(h, k)'
        PROVE  frame'[k] = "await"
    <3>1. Wakes(h, k) /\ h # f /\ frame[k] = "await"
      BY <2>1, <2>4 DEF AwaitInv
    <3> QED BY <2>1, <3>1
  <2>5. \A k, g, h \in Frames : Wakes(g, k)' /\ Wakes(h, k)' => g = h
    BY <2>1 DEF AwaitInv
  <2> QED BY <2>3, <2>4, <2>5 DEF AwaitInv
<1>8. OwnerInv'
  <2>1. \A h \in Frames : (frame'[h] \in UnderWay) = (frame[h] \in UnderWay /\ h # f)
    BY <1>0, <1>1, <1>2, <1>3 DEF UnderWay
  <2>2. \A h \in Frames : frame'[h] = "free" => owner'[h] = None
    <3> SUFFICES ASSUME NEW h \in Frames, frame'[h] = "free", owner'[h] # None PROVE FALSE
      OBVIOUS
    <3>1. owner[h] # f /\ owner[h] # None
      BY <1>1
    <3>2. frame[h] # "free"
      BY <3>1 DEF OwnerInv
    <3> QED BY <1>0, <1>1, <1>2, <1>3, <3>1, <3>2 DEF TypeOK
  <2>3. \A h \in Frames : owner'[h] # None => owner'[h] = owner[h] /\ owner[h] # f
    BY <1>1 DEF TypeOK
  <2>4. \A h \in Frames : frame'[h] # "free" => frame[h] # "free"
    BY <1>0, <1>1, <1>2, <1>3 DEF TypeOK
  <2>5. \A h \in Frames : frame'[h] = "created" => frame[h] = "created"
    BY <1>2, <1>3
  <2>6. \A h \in Frames : frame'[h] # "free" => owner'[h] = owner[h]
    BY <1>0, <1>1, <1>2, <1>3 DEF TypeOK
  <2>7. \A h \in Frames : frame'[h] = "final" => frame[h] = "final" \/ h = f
    BY <1>2, <1>3
  <2> QED BY <1>0, <1>1, <2>1, <2>2, <2>3, <2>4, <2>5, <2>6, <2>7, <1>2, <1>3 DEF TypeOK, OwnerInv
<1>9. NoCircle'
  <2> SUFFICES ASSUME NEW S \in SUBSET Frames, S # {}, \A h \in S : frame'[h] = "await"
               PROVE  \E h \in S : \A k \in S : continuation'[k] # h
    BY DEF NoCircle
  <2>1. \A h \in S : frame[h] = "await"
    BY <1>2, <1>3
  <2> QED BY <1>1, <2>1 DEF NoCircle
<1> QED BY <1>4, <1>5, <1>6, <1>7, <1>8, <1>9

\* AwaitIo keeps the invariant.
LEMMA AwaitIoStep ==
    ASSUME CoroutinesInv, NEW f \in Frames, AwaitIo(f)
    PROVE  CoroutinesInv'
<1> USE DEF CoroutinesInv, machine, loop, ring, bounds
<1>0. /\ stack \in Seq(Frames) /\ stack # <<>>
      /\ Len(stack) \in Nat /\ Len(stack) >= 1 /\ stack[Len(stack)] = f
      /\ frame[f] = "running"
      /\ \A i \in 1 .. Len(stack) : stack[i] = f => i = Len(stack)
      /\ \A h \in Frames : owner[h] = f => h # f /\ frame[h] \in {"created", "final"}
  BY OnTop DEF AwaitIo, Acts
<1>1. TypeOK'
  <2>1. stack' \in Seq(Frames)
    BY <1>0, FrontLast DEF AwaitIo
  <2>2. sq' \subseteq Frames /\ Cardinality(sq') <= SqEntries
    <3>1. Cardinality({f}) = 1 /\ Cardinality(sq) \in Nat
      BY FS_Singleton, FS_CardinalityType DEF RingInv
    <3>2. f \notin sq => Cardinality(sq \cup {f}) = Cardinality(sq) + 1
      BY FS_AddElement DEF RingInv
    <3>3. f \notin sq
      BY <1>0 DEF RingInv
    <3>4. CASE SqFull
      BY <3>1, <3>4 DEF AwaitIo
    <3>5. CASE ~SqFull
      <4>1. sq' = sq \cup {f} /\ Cardinality(sq) # SqEntries /\ Cardinality(sq) <= SqEntries
        BY <3>5 DEF AwaitIo, SqFull, TypeOK
      <4>2. Cardinality(sq') = Cardinality(sq) + 1
        BY <3>2, <3>3, <4>1
      <4> QED BY <3>1, <4>1, <4>2 DEF TypeOK
    <3> QED BY <3>4, <3>5
  <2> QED BY <2>1, <2>2 DEF AwaitIo, Acts, Running, SqFull, TypeOK
<1>2. RingInv'
  <2>1. IsFiniteSet(sq')
    <3>1. IsFiniteSet({f}) /\ IsFiniteSet(sq \cup {f})
      BY FS_Singleton, FS_AddElement DEF RingInv
    <3> QED BY <3>1 DEF AwaitIo
  <2>2. f \notin sq \cup kernel /\ \A i \in Pending : cq[i] # f
    BY <1>0 DEF RingInv
  <2>3. /\ frame' = [frame EXCEPT ![f] = "io"] /\ UNCHANGED <<cq, head>>
        /\ sq' \cup kernel' = sq \cup kernel \cup {f} /\ sq' \cap kernel' = {}
    BY <2>2 DEF AwaitIo, RingInv
  <2> QED BY <2>1, <2>2, <2>3 DEF TypeOK, RingInv, Pending
<1>3. StackInv'
  <2>1. /\ stack' \in Seq(Frames) /\ Len(stack') = Len(stack) - 1
        /\ \A i \in 1 .. Len(stack) - 1 : stack'[i] = stack[i]
    BY <1>0, FrontLast DEF AwaitIo
  <2>2. frame' = [frame EXCEPT ![f] = "io"]
    BY DEF AwaitIo
  <2> QED BY <2>1, <2>2, StackPopped DEF AwaitIo, Acts, TypeOK
<1>4. AwaitInv'
  BY <1>0 DEF AwaitIo, Acts, Running, SqFull, TypeOK, AwaitInv, Wakes, UnderWay
<1>5. OwnerInv'
  BY <1>0 DEF AwaitIo, Acts, Running, SqFull, TypeOK, OwnerInv, UnderWay
<1>6. NoCircle'
  BY <1>0 DEF AwaitIo, Acts, Running, SqFull, TypeOK, NoCircle
<1> QED BY <1>1, <1>2, <1>3, <1>4, <1>5, <1>6

\* AwaitIoNoSqe keeps the invariant.
LEMMA AwaitIoNoSqeStep ==
    ASSUME CoroutinesInv, NEW f \in Frames, AwaitIoNoSqe(f)
    PROVE  CoroutinesInv'
<1> USE DEF CoroutinesInv, machine, loop, ring, bounds
<1>1. TypeOK'
  BY DEF AwaitIoNoSqe, Running, SqFull, Faulty, TypeOK
<1>2. RingInv'
  BY SMTT(30) DEF AwaitIoNoSqe, Running, SqFull, Faulty, TypeOK, RingInv, Pending
<1>3. StackInv'
  BY DEF AwaitIoNoSqe, Running, SqFull, Faulty, TypeOK, StackInv
<1>4. AwaitInv'
  BY DEF AwaitIoNoSqe, Running, SqFull, Faulty, TypeOK, AwaitInv, Wakes, UnderWay
<1>5. OwnerInv'
  BY DEF AwaitIoNoSqe, Running, SqFull, Faulty, TypeOK, OwnerInv, UnderWay
<1>6. NoCircle'
  BY DEF AwaitIoNoSqe, Running, SqFull, Faulty, TypeOK, NoCircle
<1> QED BY <1>1, <1>2, <1>3, <1>4, <1>5, <1>6

\* StartDetached keeps the invariant.
LEMMA StartDetachedStep ==
    ASSUME CoroutinesInv, NEW f \in Frames, StartDetached(f)
    PROVE  CoroutinesInv'
<1> USE DEF CoroutinesInv, machine, loop, ring, bounds
<1>1. TypeOK'
  BY DEF StartDetached, Allocate, TypeOK
<1>2. RingInv'
  BY DEF StartDetached, Allocate, TypeOK, RingInv, Pending
<1>3. StackInv'
  <2>1. /\ stack' = Append(stack, f) /\ frame' = [frame EXCEPT ![f] = "running"]
        /\ frame[f] = "free" /\ stack \in Seq(Frames)
    BY DEF StartDetached, Allocate, TypeOK
  <2>2. /\ Len(stack) \in Nat /\ DOMAIN stack = 1 .. Len(stack)
        /\ DOMAIN stack' = 1 .. Len(stack) + 1 /\ stack'[Len(stack) + 1] = f
        /\ \A i \in 1 .. Len(stack) : stack'[i] = stack[i]
    BY <2>1
  <2>3. \A i \in 1 .. Len(stack) : stack[i] \in Frames /\ frame[stack[i]] = "running"
    BY <2>1, <2>2 DEF StackInv
  <2>4. \A i \in 1 .. Len(stack) : stack[i] # f
    BY <2>1, <2>3
  <2>5. \A i, j \in DOMAIN stack' : stack'[i] = stack'[j] => i = j
    BY <2>2, <2>4 DEF StackInv
  <2>6. \A i \in DOMAIN stack' : frame'[stack'[i]] = "running"
    BY <2>1, <2>2, <2>3 DEF TypeOK
  <2>7. ASSUME NEW g \in Frames, frame'[g] = "running"
        PROVE  \E i \in DOMAIN stack' : stack'[i] = g
    <3>1. CASE g = f
      BY <2>2, <3>1
    <3>2. CASE g # f
      <4>1. \E i \in DOMAIN stack : stack[i] = g
        BY <2>1, <2>7, <3>2 DEF StackInv, TypeOK
      <4> QED BY <2>2, <4>1
    <3> QED BY <3>1, <3>2
  <2> QED BY <2>5, <2>6, <2>7 DEF StackInv
<1>4. AwaitInv'
  BY SMTT(30) DEF StartDetached, Allocate, TypeOK, AwaitInv, Wakes, UnderWay
<1>5. OwnerInv'
  BY DEF StartDetached, Allocate, TypeOK, OwnerInv, UnderWay
<1>6. NoCircle'
  <2> SUFFICES ASSUME NEW S \in SUBSET Frames, S # {}, \A h \in S : frame'[h] = "await"
               PROVE  \E h \in S : \A k \in S : continuation'[k] # h
    BY DEF NoCircle
  <2>1. f \notin S /\ \A h \in S : frame[h] = "await" /\ continuation'[h] = continuation[h]
    BY DEF StartDetached, Allocate, TypeOK
  <2> QED BY <2>1 DEF NoCircle
<1> QED BY <1>1, <1>2, <1>3, <1>4, <1>5, <1>6

\* SyncWait keeps the invariant.
LEMMA SyncWaitStep ==
    ASSUME CoroutinesInv, NEW f \in Frames, SyncWait(f)
    PROVE  CoroutinesInv'
<1> USE DEF CoroutinesInv, machine, loop, ring, bounds
<1>1. TypeOK'
  BY DEF SyncWait, Allocate, TypeOK
<1>2. RingInv'
  BY DEF SyncWait, Allocate, TypeOK, RingInv, Pending
<1>3. StackInv'
  BY DEF SyncWait, Allocate, TypeOK, StackInv
<1>4. AwaitInv'
  BY DEF SyncWait, Allocate, TypeOK, AwaitInv, Wakes, UnderWay
<1>5. OwnerInv'
  BY DEF SyncWait, Allocate, TypeOK, OwnerInv, UnderWay
<1>6. NoCircle'
  BY DEF SyncWait, Allocate, TypeOK, NoCircle
<1> QED BY <1>1, <1>2, <1>3, <1>4, <1>5, <1>6

\* SubmitAndWait keeps the invariant.
LEMMA SubmitAndWaitStep ==
    ASSUME CoroutinesInv, SubmitAndWait
    PROVE  CoroutinesInv'
<1> USE DEF CoroutinesInv, machine, loop, ring, bounds
<1>1. TypeOK'
  <2>1. Cardinality({}) = 0
    BY FS_EmptySet
  <2>2. sq' \subseteq Frames /\ kernel' \subseteq Frames /\ (sq' = sq \/ sq' = {})
    BY DEF SubmitAndWait, TypeOK
  <2>3. Cardinality(sq') <= SqEntries
    <3>1. CASE sq' = sq
      BY <3>1 DEF TypeOK
    <3>2. CASE sq' = {}
      <4>1. Cardinality(sq') = 0
        BY <2>1, <3>2, Zenon
      <4> QED BY <4>1
    <3> QED BY <2>2, <3>1, <3>2
  <2> QED BY <2>2, <2>3 DEF SubmitAndWait, Faulty, TypeOK
<1>2. RingInv'
  <2>1. IsFiniteSet(sq') /\ sq' \cup kernel' = sq \cup kernel /\ sq' \cap kernel' = {}
    BY FS_EmptySet DEF SubmitAndWait, RingInv
  <2> QED BY <2>1 DEF SubmitAndWait, Faulty, TypeOK, RingInv, Pending
<1>3. StackInv'
  BY DEF SubmitAndWait, Faulty, TypeOK, StackInv
<1>4. AwaitInv'
  BY DEF SubmitAndWait, Faulty, TypeOK, AwaitInv, Wakes, UnderWay
<1>5. OwnerInv'
  BY DEF SubmitAndWait, Faulty, TypeOK, OwnerInv, UnderWay
<1>6. NoCircle'
  BY DEF SubmitAndWait, Faulty, TypeOK, NoCircle
<1> QED BY <1>1, <1>2, <1>3, <1>4, <1>5, <1>6

\* WaitReturns keeps the invariant.
LEMMA WaitReturnsStep ==
    ASSUME CoroutinesInv, WaitReturns
    PROVE  CoroutinesInv'
<1> USE DEF CoroutinesInv, machine, loop, ring, bounds
<1>1. TypeOK'
  BY DEF WaitReturns, TypeOK
<1>2. RingInv'
  BY DEF WaitReturns, TypeOK, RingInv, Pending
<1>3. StackInv'
  BY DEF WaitReturns, TypeOK, StackInv
<1>4. AwaitInv'
  BY DEF WaitReturns, TypeOK, AwaitInv, Wakes, UnderWay
<1>5. OwnerInv'
  BY DEF WaitReturns, TypeOK, OwnerInv, UnderWay
<1>6. NoCircle'
  BY DEF WaitReturns, TypeOK, NoCircle
<1> QED BY <1>1, <1>2, <1>3, <1>4, <1>5, <1>6

\* WaitInterrupted keeps the invariant.
LEMMA WaitInterruptedStep ==
    ASSUME CoroutinesInv, WaitInterrupted
    PROVE  CoroutinesInv'
<1> USE DEF CoroutinesInv, machine, loop, ring, bounds
<1>1. TypeOK'
  BY DEF WaitInterrupted, Faulty, TypeOK
<1>2. RingInv'
  BY DEF WaitInterrupted, Faulty, TypeOK, RingInv, Pending
<1>3. StackInv'
  BY DEF WaitInterrupted, Faulty, TypeOK, StackInv
<1>4. AwaitInv'
  BY DEF WaitInterrupted, Faulty, TypeOK, AwaitInv, Wakes, UnderWay
<1>5. OwnerInv'
  BY DEF WaitInterrupted, Faulty, TypeOK, OwnerInv, UnderWay
<1>6. NoCircle'
  BY DEF WaitInterrupted, Faulty, TypeOK, NoCircle
<1> QED BY <1>1, <1>2, <1>3, <1>4, <1>5, <1>6

\* ResumeCqe keeps the invariant.
LEMMA ResumeCqeStep ==
    ASSUME CoroutinesInv, ResumeCqe
    PROVE  CoroutinesInv'
<1> USE DEF CoroutinesInv, machine, loop, ring, bounds
<1>1. TypeOK'
  BY DEF ResumeCqe, TypeOK
<1>2. RingInv'
  BY DEF ResumeCqe, TypeOK, RingInv, Pending
<1>3. StackInv'
  BY DEF ResumeCqe, TypeOK, StackInv
<1>4. AwaitInv'
  <2> DEFINE f == cq[head + 1]
  <2>1. f \in Frames /\ frame[f] = "io" /\ frame' = [frame EXCEPT ![f] = "running"]
    BY DEF ResumeCqe, TypeOK, RingInv, Pending
  <2> HIDE DEF f
  <2> QED BY <2>1 DEF ResumeCqe, TypeOK, AwaitInv, Wakes, UnderWay
<1>5. OwnerInv'
  <2> DEFINE f == cq[head + 1]
  <2>1. f \in Frames /\ frame[f] = "io" /\ frame' = [frame EXCEPT ![f] = "running"]
    BY DEF ResumeCqe, TypeOK, RingInv, Pending
  <2> HIDE DEF f
  <2> QED BY <2>1 DEF ResumeCqe, TypeOK, OwnerInv, UnderWay
<1>6. NoCircle'
  BY DEF ResumeCqe, TypeOK, NoCircle
<1> QED BY <1>1, <1>2, <1>3, <1>4, <1>5, <1>6

\* DrainEnds keeps the invariant.
LEMMA DrainEndsStep ==
    ASSUME CoroutinesInv, DrainEnds
    PROVE  CoroutinesInv'
<1> USE DEF CoroutinesInv, machine, loop, ring, bounds
<1>1. TypeOK'
  BY DEF DrainEnds, TypeOK
<1>2. RingInv'
  BY DEF DrainEnds, TypeOK, RingInv, Pending
<1>3. StackInv'
  BY DEF DrainEnds, TypeOK, StackInv
<1>4. AwaitInv'
  BY DEF DrainEnds, TypeOK, AwaitInv, Wakes, UnderWay
<1>5. OwnerInv'
  BY DEF DrainEnds, TypeOK, OwnerInv, UnderWay
<1>6. NoCircle'
  BY DEF DrainEnds, TypeOK, NoCircle
<1> QED BY <1>1, <1>2, <1>3, <1>4, <1>5, <1>6

\* SyncReturns keeps the invariant.
LEMMA SyncReturnsStep ==
    ASSUME CoroutinesInv, SyncReturns
    PROVE  CoroutinesInv'
<1> USE DEF CoroutinesInv, machine, loop, ring, bounds
<1>1. TypeOK'
  BY DEF SyncReturns, TypeOK
<1>2. RingInv'
  BY DEF SyncReturns, TypeOK, RingInv, Pending
<1>3. StackInv'
  BY DEF SyncReturns, TypeOK, StackInv
<1>4. AwaitInv'
  BY DEF SyncReturns, TypeOK, AwaitInv, Wakes, UnderWay
<1>5. OwnerInv'
  BY DEF SyncReturns, TypeOK, OwnerInv, UnderWay
<1>6. NoCircle'
  BY DEF SyncReturns, TypeOK, NoCircle
<1> QED BY <1>1, <1>2, <1>3, <1>4, <1>5, <1>6

\* KCompletes keeps the invariant.
LEMMA KCompletesStep ==
    ASSUME CoroutinesInv, NEW f \in Frames, KCompletes(f)
    PROVE  CoroutinesInv'
<1> USE DEF CoroutinesInv, machine, loop, ring, bounds
<1>1. TypeOK'
  BY DEF KCompletes, TypeOK
<1>2. RingInv'
  BY DEF KCompletes, TypeOK, RingInv, Pending
<1>3. StackInv'
  BY DEF KCompletes, TypeOK, StackInv
<1>4. AwaitInv'
  BY DEF KCompletes, TypeOK, AwaitInv, Wakes, UnderWay
<1>5. OwnerInv'
  BY DEF KCompletes, TypeOK, OwnerInv, UnderWay
<1>6. NoCircle'
  BY SMTT(30) DEF KCompletes, TypeOK, NoCircle
<1> QED BY <1>1, <1>2, <1>3, <1>4, <1>5, <1>6

\* A stuttering step keeps the invariant.
LEMMA StutterStep ==
    ASSUME CoroutinesInv, UNCHANGED vars
    PROVE  CoroutinesInv'
<1> USE DEF CoroutinesInv, vars, machine, loop, ring, bounds
<1>1. TypeOK'
  BY DEF TypeOK
<1>2. RingInv' /\ StackInv'
  BY DEF RingInv, Pending, StackInv
<1>3. AwaitInv' /\ OwnerInv' /\ NoCircle'
  BY DEF AwaitInv, Wakes, OwnerInv, NoCircle
<1> QED BY <1>1, <1>2, <1>3

\* The state of the coroutines, the ring and sync_wait satisfies CoroutinesInv
\* at all times, whatever the bodies do.
THEOREM CoroutinesInvariant == Spec => []CoroutinesInv
<1>1. Init => CoroutinesInv
  <2> SUFFICES ASSUME Init PROVE CoroutinesInv
    OBVIOUS
  <2>1. IsFiniteSet({}) /\ Cardinality({}) = 0
    BY FS_EmptySet
  <2>2. TypeOK /\ RingInv /\ StackInv
    BY <2>1 DEF Init, TypeOK, RingInv, Pending, StackInv
  <2>3. AwaitInv /\ OwnerInv /\ NoCircle
    BY DEF Init, AwaitInv, Wakes, UnderWay, OwnerInv, NoCircle
  <2> QED BY <2>2, <2>3 DEF CoroutinesInv
<1>2. CoroutinesInv /\ [Next]_vars => CoroutinesInv'
  <2> SUFFICES ASSUME CoroutinesInv, [Next]_vars PROVE CoroutinesInv'
    OBVIOUS
  <2>1. ASSUME NEW f \in Frames, NEW g \in Frames, CreateTask(f, g) PROVE CoroutinesInv'
    BY <2>1, CreateTaskStep
  <2>2. ASSUME NEW f \in Frames, NEW g \in Frames, AwaitTask(f, g) PROVE CoroutinesInv'
    BY <2>2, AwaitTaskStep
  <2>3. ASSUME NEW f \in Frames, NEW g \in Frames, DestroyTask(f, g) PROVE CoroutinesInv'
    BY <2>3, DestroyTaskStep
  <2>4. ASSUME NEW f \in Frames, TaskEnds(f) PROVE CoroutinesInv'
    BY <2>4, TaskEndsStep
  <2>5. ASSUME NEW f \in Frames, DetachedEnds(f) PROVE CoroutinesInv'
    BY <2>5, DetachedEndsStep
  <2>6. ASSUME NEW f \in Frames, AwaitIo(f) PROVE CoroutinesInv'
    BY <2>6, AwaitIoStep
  <2>7. ASSUME NEW f \in Frames, AwaitIoNoSqe(f) PROVE CoroutinesInv'
    BY <2>7, AwaitIoNoSqeStep
  <2>8. ASSUME NEW f \in Frames, StartDetached(f) PROVE CoroutinesInv'
    BY <2>8, StartDetachedStep
  <2>9. ASSUME NEW f \in Frames, SyncWait(f) PROVE CoroutinesInv'
    BY <2>9, SyncWaitStep
  <2>10. CASE SubmitAndWait
    BY <2>10, SubmitAndWaitStep
  <2>11. CASE WaitReturns
    BY <2>11, WaitReturnsStep
  <2>12. CASE WaitInterrupted
    BY <2>12, WaitInterruptedStep
  <2>13. CASE ResumeCqe
    BY <2>13, ResumeCqeStep
  <2>14. CASE DrainEnds
    BY <2>14, DrainEndsStep
  <2>15. CASE SyncReturns
    BY <2>15, SyncReturnsStep
  <2>16. ASSUME NEW f \in Frames, KCompletes(f) PROVE CoroutinesInv'
    BY <2>16, KCompletesStep
  <2>17. CASE Idle \/ UNCHANGED vars
    BY <2>17, StutterStep DEF Idle
  <2> QED BY <2>1, <2>2, <2>3, <2>4, <2>5, <2>6, <2>7, <2>8, <2>9, <2>10, <2>11, <2>12, <2>13, <2>14, <2>15, <2>16, <2>17
      DEF Next, ThreadStep
<1> QED BY <1>1, <1>2, PTL DEF Spec

\* A set without two elements has no element or one.
LEMMA AtMostOne ==
    ASSUME NEW S, \A x, y \in S : x = y
    PROVE  Cardinality(S) = IF S = {} THEN 0 ELSE 1
<1>1. CASE S = {}
  BY <1>1, FS_EmptySet
<1>2. CASE S # {}
  <2>1. PICK x \in S : TRUE
    BY <1>2
  <2>2. S = {x}
    BY <2>1
  <2>3. Cardinality(S) = 1
    BY <2>2, FS_Singleton
  <2> QED BY <1>2, <2>3
<1> QED BY <1>1, <1>2

\* Every suspended frame has exactly one way back to the thread and no other
\* frame has any: no resume() of resumeFromCqe or FinalAwaiter reaches a frame
\* that is running, finished, freed or reused, none is forgotten, and ~Task
\* never frees one that is under way.
THEOREM WakersAreExact == Spec => []WakersExact
<1>1. CoroutinesInv => WakersExact
  <2> SUFFICES ASSUME CoroutinesInv, NEW f \in Frames
               PROVE  /\ Requests(f) = IF frame[f] = "io" THEN 1 ELSE 0
                      /\ Cardinality({g \in Frames : continuation[g] = f
                                         /\ frame[g] \in {"running", "io", "await"}})
                           = IF frame[f] = "await" THEN 1 ELSE 0
                      /\ Cardinality({i \in DOMAIN stack : stack[i] = f})
                           = IF frame[f] = "running" THEN 1 ELSE 0
    BY DEF WakersExact, CoroutinesInv
  <2>1. Requests(f) = IF frame[f] = "io" THEN 1 ELSE 0
    <3> DEFINE A == {q \in 1 .. 2 : f \in <<sq, kernel>>[q]}
               B == {i \in head + 1 .. Len(cq) : cq[i] = f}
    <3>1. Cardinality(A) = IF f \in sq \cup kernel THEN 1 ELSE 0
      <4>1. A = (IF f \in sq THEN {1} ELSE {}) \cup (IF f \in kernel THEN {2} ELSE {})
        OBVIOUS
      <4>2. \A x, y \in A : x = y
        BY <4>1 DEF CoroutinesInv, RingInv
      <4>3. A = {} <=> f \notin sq \cup kernel
        BY <4>1
      <4> HIDE DEF A
      <4> QED BY <4>2, <4>3, AtMostOne
    <3>2. Cardinality(B) = IF \E i \in Pending : cq[i] = f THEN 1 ELSE 0
      <4>1. \A x, y \in B : x = y
        BY DEF CoroutinesInv, RingInv, Pending
      <4>2. B = {} <=> ~\E i \in Pending : cq[i] = f
        BY DEF Pending
      <4> HIDE DEF B
      <4> QED BY <4>1, <4>2, AtMostOne
    <3>3. Requests(f) = Cardinality(A) + Cardinality(B)
      BY DEF Requests
    <3>4. ~(f \in sq \cup kernel /\ \E i \in Pending : cq[i] = f)
      BY DEF CoroutinesInv, RingInv
    <3>5. frame[f] = "io" <=> (f \in sq \cup kernel \/ \E i \in Pending : cq[i] = f)
      BY DEF CoroutinesInv, RingInv
    <3> HIDE DEF A, B
    <3> QED BY <3>1, <3>2, <3>3, <3>4, <3>5
  <2>2. Cardinality({g \in Frames : continuation[g] = f
                        /\ frame[g] \in {"running", "io", "await"}})
           = IF frame[f] = "await" THEN 1 ELSE 0
    <3> DEFINE W == {g \in Frames : continuation[g] = f
                                       /\ frame[g] \in {"running", "io", "await"}}
    <3>1. W = {g \in Frames : Wakes(g, f)}
      BY DEF Wakes, UnderWay
    <3>2. \A x, y \in W : x = y
      BY <3>1 DEF CoroutinesInv, AwaitInv
    <3>3. W = {} <=> frame[f] # "await"
      BY <3>1 DEF CoroutinesInv, AwaitInv
    <3> HIDE DEF W
    <3>4. Cardinality(W) = IF frame[f] = "await" THEN 1 ELSE 0
      BY <3>2, <3>3, AtMostOne
    <3> QED BY <3>4 DEF W
  <2>3. Cardinality({i \in DOMAIN stack : stack[i] = f})
           = IF frame[f] = "running" THEN 1 ELSE 0
    <3> DEFINE R == {i \in DOMAIN stack : stack[i] = f}
    <3>1. \A x, y \in R : x = y
      BY DEF CoroutinesInv, StackInv
    <3>2. R = {} <=> frame[f] # "running"
      BY DEF CoroutinesInv, StackInv
    <3> HIDE DEF R
    <3>3. Cardinality(R) = IF frame[f] = "running" THEN 1 ELSE 0
      BY <3>1, <3>2, AtMostOne
    <3> QED BY <3>3 DEF R
  <2> QED BY <2>1, <2>2, <2>3
<1> QED BY <1>1, CoroutinesInvariant, PTL

\* Once sync_wait has returned and the ring is empty, every frame was freed: a
\* frame that nothing runs and no completion wakes waits for a task that is
\* under way, and without circles there is none; a task that was not awaited or
\* is finished belongs to a frame under way.
THEOREM NothingLeaks == Spec => []NoLeak
<1>1. CoroutinesInv => NoLeak
  <2> SUFFICES ASSUME CoroutinesInv, pc = "idle", stack = <<>>,
                      sq \cup kernel = {}, cq = <<>>, NEW f \in Frames
               PROVE  frame[f] = "free"
    BY DEF NoLeak
  <2>1. \A g \in Frames : frame[g] # "running"
    BY DEF CoroutinesInv, StackInv
  <2>2. \A g \in Frames : frame[g] # "io"
    <3>1. Pending = {}
      BY DEF Pending, CoroutinesInv, TypeOK
    <3> QED BY <3>1 DEF CoroutinesInv, RingInv
  <2>3. \A g \in Frames : frame[g] # "await"
    <3> DEFINE S == {g \in Frames : frame[g] = "await"}
    <3>1. \A g \in S : \E h \in S : continuation[h] = g
      BY <2>1, <2>2 DEF CoroutinesInv, AwaitInv, Wakes, UnderWay
    <3>2. S \in SUBSET Frames /\ \A g \in S : frame[g] = "await"
      OBVIOUS
    <3> HIDE DEF S
    <3>3. S = {}
      BY <3>1, <3>2 DEF CoroutinesInv, NoCircle
    <3> QED BY <3>3 DEF S
  <2>4. \A g \in Frames : owner[g] \notin Frames
    BY <2>1, <2>2, <2>3 DEF CoroutinesInv, OwnerInv, UnderWay
  <2>5. \A g \in Frames : owner[g] # Main
    BY DEF CoroutinesInv, OwnerInv
  <2>6. owner[f] = None
    BY <2>4, <2>5 DEF CoroutinesInv, TypeOK
  <2>7. frame[f] \notin {"created", "final"}
    BY <2>6 DEF CoroutinesInv, OwnerInv
  <2> QED BY <2>1, <2>2, <2>3, <2>7 DEF CoroutinesInv, TypeOK
<1> QED BY <1>1, CoroutinesInvariant, PTL
===============================================================================
