------------------------- MODULE UringProviderProofs -------------------------
(***************************************************************************)
(* IInv is inductive: proofs about the io_uring provider, for any number   *)
(* of descriptors, contexts, workers, buffers and SQ entries.              *)
(*                                                                         *)
(* A handler works on one context c.  Mid(c, cx, os) says that the values  *)
(* computed so far satisfy the invariant, except for the flags of c; the   *)
(* lemmas about Mid follow the calls a handler makes one after another     *)
(* (count the completion, touch fields, submit, close), and the proof of   *)
(* each handler composes them.                                             *)
(***************************************************************************)
EXTENDS UringProviderInv, TLAPS

Mid(c, cx, os) ==
    /\ cx \in [Contexts -> Context] /\ os \subseteq Ops
    /\ c \in m_allConns /\ c \in Contexts
    /\ cx[c].fd \in Fds /\ ~cx[c].closing /\ m_active[cx[c].fd] = c
    /\ OpsInv(cx, os)
    /\ LifeInv(m_active, m_allConns, cx, os)
    /\ PoolInv(m_idlePool, m_allConns, cx)
    /\ FlagInv(m_allConns \ {c}, cx, os)
    /\ SockInv(m_active, cx, os, fdtab)
    /\ PermInv(os)
    /\ \A o \in os : o.sock <= nSock

(* The part of TypeOK that the lemmas about Mid take for granted. *)
BaseType ==
    /\ m_active \in [Fds -> Contexts \cup {None}]
    /\ m_idlePool \in Seq(Contexts)
    /\ m_allConns \subseteq Contexts
    /\ nextId \in Nat /\ nSock \in Nat
    /\ fdtab \in [Fds -> Nat]

(* The part of IInv a handler can disturb. *)
StructInv ==
    /\ BaseType
    /\ ctx \in [Contexts -> Context] /\ ops \subseteq Ops
    /\ OpsInv(ctx, ops)
    /\ LifeInv(m_active, m_allConns, ctx, ops)
    /\ PoolInv(m_idlePool, m_allConns, ctx)
    /\ FlagInv(m_allConns, ctx, ops)
    /\ SockInv(m_active, ctx, ops, fdtab)
    /\ PermInv(ops)
    /\ RangeInv

(* A context with another inflight is a context, equal in its other fields. *)
LEMMA CountContext ==
    ASSUME NEW r \in Context, NEW n \in Int
    PROVE  LET q == [r EXCEPT !.inflight = n] IN
           /\ q \in Context /\ q.inflight = n
           /\ q.fd = r.fd /\ q.connId = r.connId /\ q.closing = r.closing
           /\ q.outQueue = r.outQueue /\ q.sending = r.sending
           /\ q.readPaused = r.readPaused
  BY DEF Context

(* close sets closing and leaves the other fields of the context alone. *)
LEMMA CloseContext ==
    ASSUME NEW r \in Context
    PROVE  LET q == [r EXCEPT !.closing = TRUE] IN
           /\ q \in Context /\ q.closing = TRUE /\ q.inflight = r.inflight
           /\ q.fd = r.fd /\ q.connId = r.connId /\ q.outQueue = r.outQueue
           /\ q.sending = r.sending /\ q.readPaused = r.readPaused
  BY DEF Context

(* The types of the fields of a context. *)
LEMMA ContextFields ==
    ASSUME NEW r \in Context
    PROVE  /\ r.fd \in Fds \cup {None} /\ r.connId \in Nat /\ r.input \in Nat
           /\ r.outQueue \in Seq(Requests) /\ r.written \in Nat
           /\ r.sending \in BOOLEAN /\ r.inflight \in Int /\ r.closing \in BOOLEAN
           /\ r.pendingReqs \in Int /\ r.readPaused \in BOOLEAN
  BY DEF Context

(* Writing fields of c that the invariant does not constrain keeps Mid. *)
LEMMA TouchOK ==
    ASSUME NEW STATE c, NEW STATE cx, NEW STATE os, NEW STATE cx2, BaseType, Mid(c, cx, os),
           cx2 \in [Contexts -> Context],
           \A d \in Contexts \ {c} : cx2[d] = cx[d],
           cx2[c].fd = cx[c].fd, cx2[c].connId = cx[c].connId,
           cx2[c].closing = cx[c].closing, cx2[c].inflight = cx[c].inflight,
           Has(os, c, "SEND") => cx2[c].outQueue # << >>
    PROVE  Mid(c, cx2, os)
  <1>. USE NoneAssumption
  <1>0. \A d \in Contexts : /\ cx2[d].fd = cx[d].fd /\ cx2[d].connId = cx[d].connId
                            /\ cx2[d].closing = cx[d].closing
                            /\ cx2[d].inflight = cx[d].inflight
    BY DEF Mid
  <1>1. OpsInv(cx2, os)
    BY <1>0 DEF Mid, OpsInv, Has
  <1>2. LifeInv(m_active, m_allConns, cx2, os)
    BY <1>0 DEF Mid, LifeInv, BaseType
  <1>3. PoolInv(m_idlePool, m_allConns, cx2)
    BY ZenonT(30), <1>0 DEF Mid, PoolInv, BaseType
  <1>4. FlagInv(m_allConns \ {c}, cx2, os)
    BY DEF Mid, FlagInv, BaseType
  <1>5. SockInv(m_active, cx2, os, fdtab)
    <2>1. \A fd \in Fds : m_active[fd] # None =>
            cx2[m_active[fd]].connId = cx[m_active[fd]].connId
      BY <1>0 DEF BaseType
    <2>2. \A o \in os : o.op \in {"RECV", "SEND"} =>
            cx2[o.ctx].connId = cx[o.ctx].connId /\ cx2[o.ctx].closing = cx[o.ctx].closing
      BY <1>0 DEF Mid, OpsInv
    <2>3. SockInv(m_active, cx, os, fdtab)
      BY DEF Mid
    <2>. QED BY <2>1, <2>2, <2>3 DEF SockInv
  <1>. QED BY <1>0, <1>1, <1>2, <1>3, <1>4, <1>5 DEF Mid

(* submitRecv and submitSend: one new operation of c, counted by onSubmit. *)
LEMMA AddOK ==
    ASSUME NEW STATE c, NEW STATE cx, NEW STATE os, NEW STATE s,
           BaseType, Mid(c, cx, os), s \in Ops,
           s.ctx = c, s.op \in {"RECV", "SEND"}, s.fd = cx[c].fd,
           s.stage = "sq", s.sock = 0, ~Has(os, c, s.op),
           s.op = "SEND" => cx[c].outQueue # << >>
    PROVE  Mid(c, onSubmit(cx, c), os \cup {s})
  <1>. DEFINE cx2 == onSubmit(cx, c)
              os2 == os \cup {s}
  <1>. USE NoneAssumption
  <1>0. c \in Contexts /\ cx \in [Contexts -> Context] /\ cx[c] \in Context
        /\ cx[c].inflight \in Int
    BY ContextFields DEF Mid
  <1>1. cx2 = [cx EXCEPT ![c] = [cx[c] EXCEPT !.inflight = cx[c].inflight + 1]]
    BY DEF onSubmit
  <1>1a. cx2 \in [Contexts -> Context] /\ cx2[c].inflight = cx[c].inflight + 1
    BY <1>0, <1>1, CountContext
  <1>1b. \A d \in Contexts \ {c} : cx2[d] = cx[d]
    BY <1>0, <1>1
  <1>1c. \A d \in Contexts : /\ cx2[d].fd = cx[d].fd /\ cx2[d].connId = cx[d].connId
                             /\ cx2[d].closing = cx[d].closing
                             /\ cx2[d].outQueue = cx[d].outQueue
    BY <1>0, <1>1, <1>1b, CountContext
  <1>2. \A d, k : Has(os2, d, k) <=> Has(os, d, k) \/ (d = c /\ k = s.op)
    BY DEF Has
  <1>. HIDE DEF cx2
  <1>3. OpsInv(cx2, os2)
    <2>1. \A o1, o2 \in os2 : o1.ctx = o2.ctx /\ o1.op = o2.op => o1 = o2
      BY DEF Mid, OpsInv, Has
    <2>2. \A o \in os2 : o.op \in {"RECV", "SEND"} =>
            o.ctx \in Contexts /\ o.fd \in Fds /\ o.fd = cx2[o.ctx].fd
      BY <1>1c DEF Mid, OpsInv
    <2>3. \A o \in os2 : o.op \in {"ACCEPT", "NOTIFY"} => o.ctx = None
      BY DEF Mid, OpsInv
    <2>4. \A o \in os2 : o.op = "SEND" => cx2[o.ctx].outQueue # << >>
      BY <1>1c, <2>2 DEF Mid, OpsInv
    <2>5. ASSUME NEW d \in Contexts
          PROVE  cx2[d].inflight = (IF Has(os2, d, "RECV") THEN 1 ELSE 0)
                                 + (IF Has(os2, d, "SEND") THEN 1 ELSE 0)
      <3>1. cx[d].inflight = (IF Has(os, d, "RECV") THEN 1 ELSE 0)
                           + (IF Has(os, d, "SEND") THEN 1 ELSE 0)
        BY DEF Mid, OpsInv
      <3>2. CASE d = c
        <4>1. CASE s.op = "RECV"
          <5>1. /\ ~Has(os, d, "RECV") /\ Has(os2, d, "RECV")
                /\ Has(os2, d, "SEND") <=> Has(os, d, "SEND")
            BY <3>2, <4>1 DEF Has
          <5>. QED BY <1>0, <1>1a, <3>1, <3>2, <5>1
        <4>2. CASE s.op = "SEND"
          <5>1. /\ ~Has(os, d, "SEND") /\ Has(os2, d, "SEND")
                /\ Has(os2, d, "RECV") <=> Has(os, d, "RECV")
            BY <3>2, <4>2 DEF Has
          <5>. QED BY <1>0, <1>1a, <3>1, <3>2, <5>1
        <4>. QED BY <4>1, <4>2
      <3>3. CASE d # c
        BY <1>1b, <1>2, <3>1, <3>3
      <3>. QED BY <3>2, <3>3
    <2>. HIDE DEF os2
    <2>. QED BY <2>1, <2>2, <2>3, <2>4, <2>5 DEF OpsInv
  <1>4. LifeInv(m_active, m_allConns, cx2, os2)
    <2>. HIDE DEF os2
    <2>1. LifeInv(m_active, m_allConns, cx, os)
      BY DEF Mid
    <2>2. c \in m_allConns /\ ~cx[c].closing
      BY DEF Mid
    <2>. QED BY <1>1c, <1>2, <2>1, <2>2 DEF LifeInv, BaseType
  <1>5. PoolInv(m_idlePool, m_allConns, cx2)
    <2>1. PoolInv(m_idlePool, m_allConns, cx) /\ ~cx[c].closing
      BY DEF Mid
    <2>. QED BY SMTT(30), <1>1b, <1>1c, <2>1 DEF PoolInv, BaseType
  <1>6. FlagInv(m_allConns \ {c}, cx2, os2)
    <2>. HIDE DEF os2
    <2>. QED BY <1>1b, <1>2 DEF Mid, FlagInv, BaseType
  <1>7. SockInv(m_active, cx2, os2, fdtab)
    <2>1. \A fd \in Fds : m_active[fd] # None =>
            cx2[m_active[fd]].connId = cx[m_active[fd]].connId
      BY <1>1c DEF BaseType
    <2>2. \A o \in os : o.op \in {"RECV", "SEND"} =>
            cx2[o.ctx].connId = cx[o.ctx].connId /\ cx2[o.ctx].closing = cx[o.ctx].closing
      BY <1>1c DEF Mid, OpsInv
    <2>3. SockInv(m_active, cx, os, fdtab)
      BY DEF Mid
    <2>4. ~Accepted(s) /\ s.sock = 0 /\ s.stage # "kernel"
      BY DEF Accepted
    <2>. QED BY <2>1, <2>2, <2>3, <2>4 DEF SockInv
  <1>8. PermInv(os2)
    BY <1>2 DEF Mid, PermInv
  <1>9. os2 \subseteq Ops /\ \A o \in os2 : o.sock <= nSock
    BY DEF Mid, BaseType
  <1>10. Mid(c, cx2, os2)
    BY <1>0, <1>1a, <1>1c, <1>3, <1>4, <1>5, <1>6, <1>7, <1>8, <1>9 DEF Mid
  <1>. QED BY <1>10 DEF cx2

(* The handler returns: c's flags agree with the ring again. *)
LEMMA DoneOK ==
    ASSUME NEW STATE c, NEW STATE cx, NEW STATE os,
           BaseType, RangeInv, Mid(c, cx, os),
           cx[c].sending <=> Has(os, c, "SEND"),
           cx[c].readPaused => ~Has(os, c, "RECV"),
           ctx' = cx, ops' = os,
           UNCHANGED <<m_active, m_idlePool, m_allConns, fdtab, nextId, nSock,
                       m_acceptPending, m_notifyPending, pc>>
    PROVE  StructInv'
  <1>1. FlagInv(m_allConns, cx, os)
    BY DEF Mid, FlagInv
  <1>2. BaseType' /\ ctx' \in [Contexts -> Context] /\ ops' \subseteq Ops
    BY DEF Mid, BaseType
  <1>3. OpsInv(ctx', ops') /\ LifeInv(m_active', m_allConns', ctx', ops')
        /\ PoolInv(m_idlePool', m_allConns', ctx') /\ FlagInv(m_allConns', ctx', ops')
    BY <1>1 DEF Mid
  <1>4. SockInv(m_active, ctx, ops, fdtab)'
    BY DEF Mid, SockInv, Accepted
  <1>5. PermInv(ops)' /\ RangeInv'
    BY DEF Mid, PermInv, RangeInv, Has
  <1>. QED BY <1>2, <1>3, <1>4, <1>5 DEF StructInv

(* Pushing a context that is not pooled keeps the pool's invariant. *)
LEMMA RecycleOK ==
    ASSUME NEW pool \in Seq(Contexts), NEW all, NEW c \in Contexts, NEW cx,
           \A i \in 1 .. Len(pool) :
              pool[i] \in all /\ cx[pool[i]].closing /\ cx[pool[i]].inflight = 0,
           \A i, j \in 1 .. Len(pool) : pool[i] = pool[j] => i = j,
           \A d \in all \ {c} : cx[d].closing /\ cx[d].inflight = 0 =>
              \E i \in 1 .. Len(pool) : pool[i] = d,
           \A i \in 1 .. Len(pool) : pool[i] # c,
           c \in all, cx[c].closing, cx[c].inflight = 0
    PROVE  recycle(pool, c) \in Seq(Contexts) /\ PoolInv(recycle(pool, c), all, cx)
  <1>. DEFINE p == recycle(pool, c)
  <1>1. /\ p \in Seq(Contexts) /\ Len(p) = Len(pool) + 1 /\ p[Len(p)] = c
        /\ \A i \in 1 .. Len(pool) : p[i] = pool[i]
        /\ Len(pool) \in Nat
    BY DEF recycle
  <1>. HIDE DEF p
  <1>2. \A i \in 1 .. Len(p) : i \in 1 .. Len(pool) \/ i = Len(p)
    BY <1>1
  <1>3. \A i \in 1 .. Len(p) : p[i] \in all /\ cx[p[i]].closing /\ cx[p[i]].inflight = 0
    BY <1>1, <1>2
  <1>4. \A i, j \in 1 .. Len(p) : p[i] = p[j] => i = j
    BY <1>1, <1>2
  <1>5. \A d \in all : cx[d].closing /\ cx[d].inflight = 0 =>
           \E i \in 1 .. Len(p) : p[i] = d
    BY <1>1, <1>2
  <1>6. p \in Seq(Contexts) /\ PoolInv(p, all, cx)
    BY <1>1, <1>3, <1>4, <1>5 DEF PoolInv
  <1>. QED BY <1>6 DEF p

(* close(fd) on the handler's own connection, at most one operation left. *)
LEMMA CloseOK ==
    ASSUME NEW STATE c, NEW STATE cx, NEW STATE os, NEW STATE fd,
           BaseType, RangeInv, Mid(c, cx, os), fd = cx[c].fd,
           ~(Has(os, c, "RECV") /\ Has(os, c, "SEND")),
           close(fd, m_active, m_idlePool, cx), ops' = os,
           UNCHANGED <<m_allConns, nextId, nSock, m_acceptPending, m_notifyPending, pc>>
    PROVE  StructInv'
  <1>. USE NoneAssumption
  <1>1. /\ c \in Contexts /\ c \in m_allConns /\ cx \in [Contexts -> Context]
        /\ cx[c] \in Context /\ cx[c].inflight \in Int /\ ~cx[c].closing
        /\ fd \in Fds /\ m_active[fd] = c /\ c # None
    BY ContextFields DEF Mid
  <1>2. /\ m_active' = [m_active EXCEPT ![fd] = None]
        /\ fdtab' = [fdtab EXCEPT ![fd] = 0]
        /\ ctx' = [cx EXCEPT ![c] = [cx[c] EXCEPT !.closing = TRUE]]
        /\ m_idlePool' = IF cx[c].inflight = 0 THEN recycle(m_idlePool, c) ELSE m_idlePool
    BY <1>1 DEF close
  <1>3. /\ ctx' \in [Contexts -> Context] /\ ctx'[c].closing /\ ctx'[c].inflight = cx[c].inflight
        /\ ctx'[c].fd = cx[c].fd /\ ctx'[c].connId = cx[c].connId
        /\ ctx'[c].outQueue = cx[c].outQueue
    BY <1>1, <1>2, CloseContext
  <1>4. \A d \in Contexts \ {c} : ctx'[d] = cx[d]
    BY <1>1, <1>2
  <1>5. \A d \in Contexts : /\ ctx'[d].fd = cx[d].fd /\ ctx'[d].connId = cx[d].connId
                            /\ ctx'[d].outQueue = cx[d].outQueue
                            /\ ctx'[d].inflight = cx[d].inflight
    BY <1>3, <1>4
  <1>6. /\ m_active'[fd] = None
        /\ \A f \in Fds \ {fd} : m_active'[f] = m_active[f] /\ fdtab'[f] = fdtab[f]
        /\ fdtab'[fd] = 0
        /\ m_active' \in [Fds -> Contexts \cup {None}] /\ fdtab' \in [Fds -> Nat]
    BY <1>1, <1>2 DEF BaseType
  <1>7. \A f \in Fds \ {fd} : m_active[f] # c
    <2>1. LifeInv(m_active, m_allConns, cx, os)
      BY DEF Mid
    <2>. QED BY <1>1, <2>1 DEF LifeInv
  <1>8. OpsInv(ctx', ops')
    <2>1. OpsInv(cx, os)
      BY DEF Mid
    <2>. QED BY <1>5, <2>1 DEF OpsInv
  <1>9. LifeInv(m_active', m_allConns', ctx', ops')
    <2>1. LifeInv(m_active, m_allConns, cx, os)
      BY DEF Mid
    <2>2. \A f \in Fds : m_active'[f] # None => f # fd /\ m_active'[f] = m_active[f] /\ m_active[f] \in Contexts \ {c}
      BY <1>6, <1>7 DEF BaseType
    <2>3. \A f \in Fds : m_active'[f] # None =>
            m_active'[f] \in m_allConns /\ ctx'[m_active'[f]].fd = f
            /\ ~ctx'[m_active'[f]].closing
      BY <1>4, <2>1, <2>2 DEF LifeInv
    <2>4. \A d \in m_allConns : ~ctx'[d].closing => d \in Contexts \ {c} /\ ctx'[d] = cx[d]
      BY <1>3, <1>4 DEF BaseType
    <2>5. \A d \in m_allConns : ~ctx'[d].closing =>
            ctx'[d].fd \in Fds /\ m_active'[ctx'[d].fd] = d
      BY <1>1, <1>6, <2>1, <2>4 DEF LifeInv
    <2>6. \A d \in m_allConns : ctx'[d].closing => ~(Has(os, d, "RECV") /\ Has(os, d, "SEND"))
      BY <1>4, <2>1 DEF LifeInv, BaseType
    <2>. QED BY <2>1, <2>3, <2>5, <2>6 DEF LifeInv
  <1>10. m_idlePool' \in Seq(Contexts) /\ PoolInv(m_idlePool', m_allConns', ctx')
    <2>1. PoolInv(m_idlePool, m_allConns, cx)
      BY DEF Mid
    <2>2. \A i \in 1 .. Len(m_idlePool) : m_idlePool[i] \in Contexts \ {c}
      BY <1>1, <2>1 DEF PoolInv, BaseType
    <2>3. \A i \in 1 .. Len(m_idlePool) :
            m_idlePool[i] \in m_allConns /\ ctx'[m_idlePool[i]].closing
            /\ ctx'[m_idlePool[i]].inflight = 0
      BY <1>4, <2>1, <2>2 DEF PoolInv
    <2>4. \A i, j \in 1 .. Len(m_idlePool) : m_idlePool[i] = m_idlePool[j] => i = j
      BY <2>1 DEF PoolInv
    <2>5. \A d \in m_allConns \ {c} : ctx'[d].closing /\ ctx'[d].inflight = 0 =>
            \E i \in 1 .. Len(m_idlePool) : m_idlePool[i] = d
      BY <1>4, <2>1 DEF PoolInv, BaseType
    <2>6. CASE cx[c].inflight = 0
      <3>1. recycle(m_idlePool, c) \in Seq(Contexts)
            /\ PoolInv(recycle(m_idlePool, c), m_allConns, ctx')
        <4>1. m_idlePool \in Seq(Contexts)
          BY DEF BaseType
        <4>2. recycle(m_idlePool, c) = Append(m_idlePool, c)
          BY DEF recycle
        <4>. QED BY <4>1, <1>1, <1>3, <2>2, <2>3, <2>4, <2>5, <2>6, RecycleOK
      <3>. QED BY <1>2, <2>6, <3>1
    <2>7. CASE cx[c].inflight # 0
      BY <1>2, <1>3, <2>3, <2>4, <2>5, <2>7 DEF PoolInv, BaseType
    <2>. QED BY <2>6, <2>7
  <1>11. FlagInv(m_allConns', ctx', ops')
    <2>1. FlagInv(m_allConns \ {c}, cx, os)
      BY DEF Mid
    <2>. QED BY <1>3, <1>4, <2>1 DEF FlagInv, BaseType
  <1>12. SockInv(m_active, ctx, ops, fdtab)'
    <2>1. SockInv(m_active, cx, os, fdtab)
      BY DEF Mid
    <2>2. \A f \in Fds : m_active'[f] # None => f # fd /\ m_active'[f] = m_active[f] /\ m_active[f] \in Contexts \ {c}
      BY <1>6, <1>7 DEF BaseType
    <2>3. \A f \in Fds : m_active'[f] # None =>
            fdtab'[f] = ctx'[m_active'[f]].connId /\ ctx'[m_active'[f]].connId \in 1 .. nextId - 1
      BY <1>4, <1>6, <2>1, <2>2 DEF SockInv
    <2>4. \A f \in Fds : fdtab'[f] # 0 =>
            m_active'[f] # None \/ \E o \in os : Accepted(o) /\ o.fd = f
      BY <1>6, <2>1 DEF SockInv
    <2>5. \A o \in os : Accepted(o) =>
            o.fd \in Fds /\ m_active'[o.fd] = None /\ fdtab'[o.fd] = nextId /\ nextId = nSock
      BY <1>1, <1>6, <2>1 DEF SockInv
    <2>6. \A o \in os : o.op \in {"RECV", "SEND"} /\ o.sock # 0 /\ ~ctx'[o.ctx].closing
                           => o.sock = ctx'[o.ctx].connId
      <3>1. \A o \in os : o.op \in {"RECV", "SEND"} => o.ctx \in Contexts
        BY DEF Mid, OpsInv
      <3>. QED BY <1>3, <1>4, <2>1, <3>1 DEF SockInv
    <2>. QED BY <2>1, <2>3, <2>4, <2>5, <2>6 DEF SockInv, Accepted
  <1>13. PermInv(ops)'
    BY DEF Mid, PermInv, Has
  <1>14. RangeInv'
    BY <1>6 DEF Mid, RangeInv, BaseType
  <1>15. BaseType' /\ ops' \subseteq Ops
    BY <1>6, <1>10 DEF BaseType, Mid
  <1>. QED BY <1>3, <1>8, <1>9, <1>10, <1>11, <1>12, <1>13, <1>14, <1>15 DEF StructInv

(* What the event loop has done to the contexts before a handler runs. *)
LEMMA ReapedFacts ==
    ASSUME IInv, NEW STATE o, o \in ops, o.op \in {"RECV", "SEND"}
    PROVE  LET c == o.ctx  cx == Reaped(o) IN
           /\ c \in Contexts /\ cx \in [Contexts -> Context]
           /\ \A d \in Contexts \ {c} : cx[d] = ctx[d]
           /\ cx[c].inflight = ctx[c].inflight - 1
           /\ cx[c].fd = ctx[c].fd /\ cx[c].connId = ctx[c].connId
           /\ cx[c].closing = ctx[c].closing
           /\ cx[c].outQueue = ctx[c].outQueue /\ cx[c].sending = ctx[c].sending
           /\ cx[c].readPaused = ctx[c].readPaused /\ cx[c].written = ctx[c].written
           /\ cx[c].pendingReqs = ctx[c].pendingReqs
  <1>. DEFINE c == o.ctx
              n == ctx[c].inflight - 1
              i == IF o.op = "RECV" /\ o.res > 0 /\ ~ctx[c].closing
                   THEN ctx[c].input + o.res ELSE ctx[c].input
              q == [[ctx[c] EXCEPT !.inflight = n] EXCEPT !.input = i]
  <1>1. c \in Contexts /\ ctx \in [Contexts -> Context] /\ ctx[c] \in Context
    BY DEF IInv, TypeOK, ConnTypeOK, OpsInv
  <1>2. n \in Int /\ i \in Nat
    <2>1. ctx[c].inflight \in Int /\ ctx[c].input \in Nat
      BY <1>1, ContextFields
    <2>2. o.res \in Int
      BY DEF IInv, TypeOK, KernelTypeOK, Ops
    <2>. QED BY <2>1, <2>2
  <1>3. Reaped(o) = [ctx EXCEPT ![c] = q]
    BY <1>1 DEF Reaped, Context
  <1>4. /\ q \in Context /\ q.inflight = n
        /\ q.fd = ctx[c].fd /\ q.connId = ctx[c].connId /\ q.closing = ctx[c].closing
        /\ q.outQueue = ctx[c].outQueue /\ q.sending = ctx[c].sending
        /\ q.readPaused = ctx[c].readPaused /\ q.written = ctx[c].written
        /\ q.pendingReqs = ctx[c].pendingReqs
    <2>. HIDE DEF n, i
    <2>1. PICK r \in Context : r = ctx[c]
      BY <1>1
    <2>2. q = [[r EXCEPT !.inflight = n] EXCEPT !.input = i]
      BY <2>1
    <2>. HIDE DEF q
    <2>3. /\ q \in Context /\ q.inflight = n
          /\ q.fd = r.fd /\ q.connId = r.connId /\ q.closing = r.closing
          /\ q.outQueue = r.outQueue /\ q.sending = r.sending
          /\ q.readPaused = r.readPaused /\ q.written = r.written
          /\ q.pendingReqs = r.pendingReqs
      BY <1>2, <2>2 DEF Context
    <2>. QED BY <2>1, <2>3
  <1>5. Reaped(o) \in [Contexts -> Context] /\ Reaped(o)[c] = q
        /\ \A d \in Contexts \ {c} : Reaped(o)[d] = ctx[d]
    <2>. HIDE DEF q
    <2>. QED BY <1>1, <1>3, <1>4
  <1>. HIDE DEF q
  <1>. QED BY <1>1, <1>4, <1>5

(* An operation of a context is of a live one, or the last of a closing one. *)
LEMMA LiveOrLast ==
    ASSUME IInv, NEW STATE o, o \in ops, o.op \in {"RECV", "SEND"},
           ~LastOfClosing(o.ctx)
    PROVE  /\ ~ctx[o.ctx].closing /\ o.ctx \in m_allConns
           /\ ctx[o.ctx].fd \in Fds /\ m_active[ctx[o.ctx].fd] = o.ctx
  <1>1. o.ctx \in Contexts /\ Has(ops, o.ctx, o.op)
    BY DEF IInv, OpsInv, Has
  <1>2. o.ctx \in m_allConns
    BY <1>1 DEF IInv, LifeInv
  <1>3. ~ctx[o.ctx].closing
    <2>. SUFFICES ASSUME ctx[o.ctx].closing PROVE FALSE
      OBVIOUS
    <2>1. ~(Has(ops, o.ctx, "RECV") /\ Has(ops, o.ctx, "SEND"))
      BY <1>2 DEF IInv, LifeInv
    <2>2. ctx[o.ctx].inflight = (IF Has(ops, o.ctx, "RECV") THEN 1 ELSE 0)
                              + (IF Has(ops, o.ctx, "SEND") THEN 1 ELSE 0)
      BY <1>1 DEF IInv, OpsInv
    <2>3. o.op = "RECV" \/ o.op = "SEND"
      OBVIOUS
    <2>4. ctx[o.ctx].inflight = 1
      <3>1. CASE o.op = "RECV"
        <4>1. Has(ops, o.ctx, "RECV") BY <1>1, <3>1 DEF Has
        <4>. QED BY <2>1, <2>2, <4>1
      <3>2. CASE o.op = "SEND"
        <4>1. Has(ops, o.ctx, "SEND") BY <1>1, <3>2 DEF Has
        <4>. QED BY <2>1, <2>2, <4>1
      <3>. QED BY <2>3, <3>1, <3>2
    <2>. QED BY <2>4 DEF LastOfClosing
  <1>. QED BY <1>2, <1>3 DEF IInv, LifeInv

(* The values with which handleRecv and handleSend start. *)
LEMMA ReapOK ==
    ASSUME IInv, NEW STATE o, o \in ops, o.op \in {"RECV", "SEND"},
           ~LastOfClosing(o.ctx)
    PROVE  /\ Mid(o.ctx, Reaped(o), ops \ {o})
           /\ ~Has(ops \ {o}, o.ctx, o.op)
           /\ \A k : k # o.op => (Has(ops \ {o}, o.ctx, k) <=> Has(ops, o.ctx, k))
  <1>. DEFINE c  == o.ctx
              cx == Reaped(o)
              os == ops \ {o}
  <1>. USE NoneAssumption
  <1>1. /\ ~ctx[c].closing /\ c \in m_allConns
        /\ ctx[c].fd \in Fds /\ m_active[ctx[c].fd] = c
    BY LiveOrLast
  <1>2. /\ c \in Contexts /\ cx \in [Contexts -> Context]
        /\ cx[c].inflight = ctx[c].inflight - 1
        /\ cx[c].fd = ctx[c].fd /\ cx[c].connId = ctx[c].connId
        /\ cx[c].closing = ctx[c].closing /\ cx[c].outQueue = ctx[c].outQueue
    BY ReapedFacts
  <1>3. \A d \in Contexts \ {c} : cx[d] = ctx[d]
    BY ReapedFacts
  <1>. HIDE DEF cx
  <1>4. \A d \in Contexts : /\ cx[d].fd = ctx[d].fd /\ cx[d].connId = ctx[d].connId
                            /\ cx[d].closing = ctx[d].closing
                            /\ cx[d].outQueue = ctx[d].outQueue
    BY <1>2, <1>3
  <1>5. \A o1, o2 \in ops : o1.ctx = o2.ctx /\ o1.op = o2.op => o1 = o2
    BY DEF IInv, OpsInv
  <1>6. /\ ~Has(os, c, o.op)
        /\ \A k : k # o.op => (Has(os, c, k) <=> Has(ops, c, k))
        /\ \A d, k : d # c => (Has(os, d, k) <=> Has(ops, d, k))
        /\ \A d, k : Has(os, d, k) => Has(ops, d, k)
    BY <1>5 DEF Has
  <1>7. OpsInv(cx, os)
    <2>1. OpsInv(ctx, ops)
      BY DEF IInv
    <2>2. \A x \in os : x.op \in {"RECV", "SEND"} =>
            x.ctx \in Contexts /\ x.fd \in Fds /\ x.fd = cx[x.ctx].fd
      BY <1>4, <2>1 DEF OpsInv
    <2>3. \A x \in os : x.op = "SEND" => cx[x.ctx].outQueue # << >>
      BY <1>4, <2>1, <2>2 DEF OpsInv
    <2>4. ASSUME NEW d \in Contexts
          PROVE  cx[d].inflight = (IF Has(os, d, "RECV") THEN 1 ELSE 0)
                                + (IF Has(os, d, "SEND") THEN 1 ELSE 0)
      <3>1. ctx[d].inflight = (IF Has(ops, d, "RECV") THEN 1 ELSE 0)
                            + (IF Has(ops, d, "SEND") THEN 1 ELSE 0)
        BY <2>1 DEF OpsInv
      <3>2. CASE d # c
        BY <1>3, <1>6, <3>1, <3>2
      <3>3. CASE d = c /\ o.op = "RECV"
        <4>1. /\ Has(ops, d, "RECV") /\ ~Has(os, d, "RECV")
              /\ Has(os, d, "SEND") <=> Has(ops, d, "SEND")
          BY <1>5, <3>3 DEF Has
        <4>. QED BY <1>2, <3>1, <3>3, <4>1
      <3>4. CASE d = c /\ o.op = "SEND"
        <4>1. /\ Has(ops, d, "SEND") /\ ~Has(os, d, "SEND")
              /\ Has(os, d, "RECV") <=> Has(ops, d, "RECV")
          BY <1>5, <3>4 DEF Has
        <4>. QED BY <1>2, <3>1, <3>4, <4>1
      <3>. QED BY <3>2, <3>3, <3>4
    <2>. HIDE DEF os
    <2>5. \A o1, o2 \in os : o1.ctx = o2.ctx /\ o1.op = o2.op => o1 = o2
      BY <1>5 DEF os
    <2>6. \A x \in os : x.op \in {"ACCEPT", "NOTIFY"} => x.ctx = None
      BY <2>1 DEF OpsInv, os
    <2>. QED BY <2>2, <2>3, <2>4, <2>5, <2>6 DEF OpsInv
  <1>8. LifeInv(m_active, m_allConns, cx, os)
    <2>1. LifeInv(m_active, m_allConns, ctx, ops) /\ m_allConns \subseteq Contexts
          /\ m_active \in [Fds -> Contexts \cup {None}]
      BY DEF IInv, TypeOK, ConnTypeOK
    <2>. HIDE DEF os
    <2>. QED BY <1>4, <1>6, <2>1 DEF LifeInv
  <1>9. PoolInv(m_idlePool, m_allConns, cx)
    <2>1. PoolInv(m_idlePool, m_allConns, ctx) /\ m_allConns \subseteq Contexts
          /\ m_idlePool \in Seq(Contexts)
      BY DEF IInv, TypeOK, ConnTypeOK
    <2>2. \A i \in 1 .. Len(m_idlePool) : m_idlePool[i] \in Contexts \ {c}
      BY <1>1, <2>1 DEF PoolInv
    <2>. QED BY <1>1, <1>2, <1>3, <2>1, <2>2 DEF PoolInv
  <1>10. FlagInv(m_allConns \ {c}, cx, os)
    <2>1. FlagInv(m_allConns, ctx, ops) /\ m_allConns \subseteq Contexts
      BY DEF IInv, TypeOK, ConnTypeOK
    <2>. HIDE DEF os
    <2>. QED BY <1>3, <1>6, <2>1 DEF FlagInv
  <1>11. SockInv(m_active, cx, os, fdtab)
    <2>1. SockInv(m_active, ctx, ops, fdtab)
      BY DEF IInv
    <2>2. \A fd \in Fds : m_active[fd] # None =>
            cx[m_active[fd]].connId = ctx[m_active[fd]].connId
      BY <1>4 DEF IInv, TypeOK, ConnTypeOK
    <2>3. \A x \in ops : x.op \in {"RECV", "SEND"} =>
            cx[x.ctx].connId = ctx[x.ctx].connId /\ cx[x.ctx].closing = ctx[x.ctx].closing
      BY <1>4 DEF IInv, OpsInv
    <2>4. \A x \in ops : Accepted(x) => x \in os
      BY DEF Accepted
    <2>. QED BY <2>1, <2>2, <2>3, <2>4 DEF SockInv
  <1>12. PermInv(os)
    BY <1>6 DEF IInv, PermInv
  <1>13. os \subseteq Ops /\ \A x \in os : x.sock <= nSock
    BY DEF IInv, TypeOK, KernelTypeOK, RangeInv
  <1>14. Mid(c, cx, os)
    BY <1>1, <1>2, <1>7, <1>8, <1>9, <1>10, <1>11, <1>12, <1>13 DEF Mid
  <1>. QED BY <1>6, <1>14 DEF cx

(* Setting the flags of a context. *)
LEMMA SetSending ==
    ASSUME NEW cx \in [Contexts -> Context], NEW c \in Contexts, NEW b \in BOOLEAN
    PROVE  LET q == [cx EXCEPT ![c].sending = b] IN
           /\ q \in [Contexts -> Context]
           /\ \A d \in Contexts \ {c} : q[d] = cx[d]
           /\ q[c].sending = b /\ q[c].readPaused = cx[c].readPaused
           /\ q[c].fd = cx[c].fd /\ q[c].connId = cx[c].connId
           /\ q[c].closing = cx[c].closing /\ q[c].inflight = cx[c].inflight
           /\ q[c].outQueue = cx[c].outQueue
  <1>. DEFINE q == [cx EXCEPT ![c].sending = b]
  <1>1. PICK r \in Context : r = cx[c]
    OBVIOUS
  <1>. DEFINE s == [r EXCEPT !.sending = b]
  <1>2. q = [cx EXCEPT ![c] = s]
    BY <1>1
  <1>3. /\ s \in Context /\ s.sending = b /\ s.readPaused = r.readPaused
        /\ s.fd = r.fd /\ s.connId = r.connId /\ s.closing = r.closing
        /\ s.inflight = r.inflight /\ s.outQueue = r.outQueue
    BY DEF Context
  <1>. HIDE DEF s
  <1>. QED BY <1>1, <1>2, <1>3

(* Pausing or resuming recv touches readPaused alone. *)
LEMMA SetPaused ==
    ASSUME NEW cx \in [Contexts -> Context], NEW c \in Contexts, NEW b \in BOOLEAN
    PROVE  LET q == [cx EXCEPT ![c].readPaused = b] IN
           /\ q \in [Contexts -> Context]
           /\ \A d \in Contexts \ {c} : q[d] = cx[d]
           /\ q[c].readPaused = b /\ q[c].sending = cx[c].sending
           /\ q[c].fd = cx[c].fd /\ q[c].connId = cx[c].connId
           /\ q[c].closing = cx[c].closing /\ q[c].inflight = cx[c].inflight
           /\ q[c].outQueue = cx[c].outQueue
  <1>. DEFINE q == [cx EXCEPT ![c].readPaused = b]
  <1>1. PICK r \in Context : r = cx[c]
    OBVIOUS
  <1>. DEFINE s == [r EXCEPT !.readPaused = b]
  <1>2. q = [cx EXCEPT ![c] = s]
    BY <1>1
  <1>3. /\ s \in Context /\ s.readPaused = b /\ s.sending = r.sending
        /\ s.fd = r.fd /\ s.connId = r.connId /\ s.closing = r.closing
        /\ s.inflight = r.inflight /\ s.outQueue = r.outQueue
    BY DEF Context
  <1>. HIDE DEF s
  <1>. QED BY <1>1, <1>2, <1>3

(* onSubmit leaves the flags and the queue of the context alone. *)
LEMMA CountedFlags ==
    ASSUME NEW cx \in [Contexts -> Context], NEW c \in Contexts
    PROVE  LET q == onSubmit(cx, c) IN
           /\ q \in [Contexts -> Context]
           /\ \A d \in Contexts \ {c} : q[d] = cx[d]
           /\ q[c].sending = cx[c].sending /\ q[c].readPaused = cx[c].readPaused
           /\ q[c].outQueue = cx[c].outQueue /\ q[c].fd = cx[c].fd
  <1>. DEFINE q == onSubmit(cx, c)
  <1>1. cx[c] \in Context /\ cx[c].inflight + 1 \in Int
    BY ContextFields
  <1>2. q = [cx EXCEPT ![c] = [cx[c] EXCEPT !.inflight = cx[c].inflight + 1]]
    BY DEF onSubmit
  <1>. HIDE DEF q
  <1>. QED BY <1>1, <1>2, CountContext DEF q

(* submitRecv, or close when it fails, ends the handler. *)
LEMMA SubmitRecvOK ==
    ASSUME NEW STATE c, NEW STATE cx, NEW STATE os, NEW STATE fd,
           BaseType, RangeInv, Mid(c, cx, os), fd = cx[c].fd,
           ~Has(os, c, "RECV"), ~cx[c].readPaused,
           cx[c].sending <=> Has(os, c, "SEND"),
           submitRecvOrClose(fd, cx, os),
           UNCHANGED <<m_allConns, nextId, nSock, m_acceptPending, m_notifyPending, pc>>
    PROVE  StructInv'
  <1>1. /\ c \in Contexts /\ cx \in [Contexts -> Context] /\ find(fd) = c /\ c # None
        /\ fd \in Fds
    BY NoneAssumption DEF Mid, find
  <1>2. CASE SqFull(os)
    BY <1>2, CloseOK DEF submitRecvOrClose
  <1>3. CASE ~SqFull(os)
    <2>. DEFINE s == RecvSqe(c, fd)
                cx2 == onSubmit(cx, c)
    <2>1. /\ ctx' = cx2 /\ ops' = os \cup {s}
          /\ UNCHANGED <<m_active, m_idlePool, fdtab>>
      BY <1>1, <1>3 DEF submitRecvOrClose
    <2>2. /\ s \in Ops /\ s.ctx = c /\ s.op = "RECV" /\ s.fd = fd
          /\ s.stage = "sq" /\ s.sock = 0
      BY <1>1 DEF RecvSqe, Sqe, Ops, OpTypes, Stages, Failed
    <2>. HIDE DEF s
    <2>3. Mid(c, cx2, os \cup {s})
      BY <2>2, AddOK
    <2>4. cx2[c].sending = cx[c].sending /\ cx2[c].readPaused = cx[c].readPaused
      BY <1>1, CountedFlags
    <2>5. Has(os \cup {s}, c, "SEND") <=> Has(os, c, "SEND")
      BY <2>2 DEF Has
    <2>. HIDE DEF cx2
    <2>. QED BY <2>1, <2>3, <2>4, <2>5, DoneOK
  <1>. QED BY <1>2, <1>3

(* submitSend, or close when it fails, ends the handler. *)
LEMMA SubmitSendOK ==
    ASSUME NEW STATE c, NEW STATE cx, NEW STATE os, NEW STATE fd,
           BaseType, RangeInv, Mid(c, cx, os), fd = cx[c].fd,
           ~Has(os, c, "SEND"), cx[c].readPaused => ~Has(os, c, "RECV"),
           submitSendOrClose(fd, cx, os),
           UNCHANGED <<m_allConns, nextId, nSock, m_acceptPending, m_notifyPending, pc>>
    PROVE  StructInv'
  <1>1. /\ c \in Contexts /\ cx \in [Contexts -> Context] /\ find(fd) = c /\ c # None
        /\ fd \in Fds /\ cx[c] \in Context
    BY NoneAssumption DEF Mid, find
  <1>2. CASE cx[c].outQueue = << >>
    <2>. DEFINE cx2 == [cx EXCEPT ![c].sending = FALSE]
    <2>1. /\ ctx' = cx2 /\ ops' = os
          /\ UNCHANGED <<m_active, m_idlePool, fdtab>>
      BY <1>1, <1>2 DEF submitSendOrClose
    <2>2. /\ cx2 \in [Contexts -> Context]
          /\ \A d \in Contexts \ {c} : cx2[d] = cx[d]
          /\ cx2[c].sending = FALSE /\ cx2[c].readPaused = cx[c].readPaused
          /\ cx2[c].fd = cx[c].fd /\ cx2[c].connId = cx[c].connId
          /\ cx2[c].closing = cx[c].closing /\ cx2[c].inflight = cx[c].inflight
      BY <1>1, SetSending
    <2>. HIDE DEF cx2
    <2>3. Mid(c, cx2, os)
      BY <2>2, TouchOK
    <2>. QED BY <2>1, <2>2, <2>3, DoneOK
  <1>3. CASE cx[c].outQueue # << >> /\ SqFull(os)
    BY <1>1, <1>3, CloseOK DEF submitSendOrClose
  <1>4. CASE cx[c].outQueue # << >> /\ ~SqFull(os)
    <2>. DEFINE s == SendSqe(cx, c, fd)
                cx1 == onSubmit(cx, c)
                cx2 == [cx1 EXCEPT ![c].sending = TRUE]
                os2 == os \cup {s}
    <2>1. /\ ctx' = cx2 /\ ops' = os2
          /\ UNCHANGED <<m_active, m_idlePool, fdtab>>
      BY <1>1, <1>4 DEF submitSendOrClose
    <2>2. /\ s \in Ops /\ s.ctx = c /\ s.op = "SEND" /\ s.fd = fd
          /\ s.stage = "sq" /\ s.sock = 0
      <3>1. Head(cx[c].outQueue) \in Requests /\ cx[c].written \in Nat
        BY <1>1, <1>4, ContextFields
      <3>. QED BY <1>1, <3>1 DEF SendSqe, Sqe, Ops, OpTypes, Stages, Failed
    <2>. HIDE DEF s
    <2>3. Mid(c, cx1, os2)
      BY <1>4, <2>2, AddOK
    <2>4. /\ cx1 \in [Contexts -> Context] /\ cx1[c].readPaused = cx[c].readPaused
          /\ cx1[c].outQueue = cx[c].outQueue
      BY <1>1, CountedFlags
    <2>. HIDE DEF cx1
    <2>5. /\ cx2 \in [Contexts -> Context]
          /\ \A d \in Contexts \ {c} : cx2[d] = cx1[d]
          /\ cx2[c].sending = TRUE /\ cx2[c].readPaused = cx1[c].readPaused
          /\ cx2[c].fd = cx1[c].fd /\ cx2[c].connId = cx1[c].connId
          /\ cx2[c].closing = cx1[c].closing /\ cx2[c].inflight = cx1[c].inflight
          /\ cx2[c].outQueue = cx1[c].outQueue
      BY <1>1, <2>4, SetSending
    <2>6. Has(os2, c, "SEND") /\ (Has(os2, c, "RECV") <=> Has(os, c, "RECV"))
      BY <2>2 DEF Has
    <2>. HIDE DEF cx2, os2
    <2>7. Mid(c, cx2, os2)
      BY <1>4, <2>3, <2>4, <2>5, TouchOK
    <2>. QED BY <2>1, <2>4, <2>5, <2>6, <2>7, DoneOK
  <1>. QED BY <1>2, <1>3, <1>4

(* handleSend's last lines. *)
LEMMA SendNextOK ==
    ASSUME NEW STATE c, NEW STATE cx, NEW STATE os, NEW STATE fd,
           BaseType, RangeInv, Mid(c, cx, os), fd = cx[c].fd,
           ~Has(os, c, "SEND"), cx[c].readPaused => ~Has(os, c, "RECV"),
           SendNext(c, fd, cx, os),
           UNCHANGED <<m_allConns, nextId, nSock, m_acceptPending, m_notifyPending, pc>>
    PROVE  StructInv'
  <1>1. find(fd) = c /\ c # None
    BY NoneAssumption DEF Mid, find
  <1>2. submitSendOrClose(fd, cx, os)
    BY <1>1 DEF SendNext, submitSendOrClose
  <1>. QED BY <1>2, SubmitSendOK

(* IInv in two halves: what handlers disturb, and the types of the rest. *)
RestType ==
    /\ rcvd \in [Socks -> Nat] /\ freeBufs \in Int /\ eventfd \in BOOLEAN
    /\ pc \in {"submit", "reap", "notify"}
    /\ m_acceptPending \in BOOLEAN /\ m_notifyPending \in BOOLEAN
    /\ dispatched \in [Socks -> Nat]
    /\ m_taskQueue \in Seq(Requests)
    /\ worker \in [Workers -> WorkerStates]
    /\ m_readyCoros \in Seq(Coros) /\ ready \in Seq(Coros)

(* The invariant splits into what the handlers disturb and the remaining types. *)
LEMMA Halves == IInv <=> StructInv /\ RestType
  BY DEF IInv, StructInv, RestType, BaseType, TypeOK, KernelTypeOK, ConnTypeOK

(* handleSend pops a frame that is out: queue, written and pendingReqs change. *)
LEMMA Popping ==
    ASSUME NEW cx \in [Contexts -> Context], NEW c \in Contexts,
           cx[c].outQueue # << >>
    PROVE  LET q == Popped(c, cx) IN
           /\ q \in [Contexts -> Context]
           /\ \A d \in Contexts \ {c} : q[d] = cx[d]
           /\ q[c].sending = cx[c].sending /\ q[c].readPaused = cx[c].readPaused
           /\ q[c].fd = cx[c].fd /\ q[c].connId = cx[c].connId
           /\ q[c].closing = cx[c].closing /\ q[c].inflight = cx[c].inflight
  <1>. DEFINE q == Popped(c, cx)
  <1>1. PICK r \in Context : r = cx[c]
    OBVIOUS
  <1>2. PICK t \in Seq(Requests) : t = Tail(r.outQueue)
    <2>1. PICK u \in Seq(Requests) : u = r.outQueue /\ u # << >>
      BY <1>1, ContextFields
    <2>2. Tail(u) \in Seq(Requests)
      BY <2>1
    <2>. QED BY <2>1, <2>2
  <1>3. PICK n \in Int : n = r.pendingReqs - 1
    BY DEF Context
  <1>. DEFINE s == [[[r EXCEPT !.outQueue = t] EXCEPT !.written = 0] EXCEPT !.pendingReqs = n]
  <1>4. q = [cx EXCEPT ![c] = s]
    BY <1>1, <1>2, <1>3 DEF Popped, Context
  <1>5. /\ s \in Context /\ s.sending = r.sending /\ s.readPaused = r.readPaused
        /\ s.fd = r.fd /\ s.connId = r.connId /\ s.closing = r.closing
        /\ s.inflight = r.inflight
    BY DEF Context
  <1>. HIDE DEF s, q
  <1>. QED BY <1>1, <1>4, <1>5 DEF q

(* handleSend counts the bytes written. *)
LEMMA Writing ==
    ASSUME NEW cx \in [Contexts -> Context], NEW c \in Contexts, NEW n \in Nat
    PROVE  LET q == [cx EXCEPT ![c].written = @ + n] IN
           /\ q \in [Contexts -> Context]
           /\ \A d \in Contexts \ {c} : q[d] = cx[d]
           /\ q[c].sending = cx[c].sending /\ q[c].readPaused = cx[c].readPaused
           /\ q[c].fd = cx[c].fd /\ q[c].connId = cx[c].connId
           /\ q[c].closing = cx[c].closing /\ q[c].inflight = cx[c].inflight
           /\ q[c].outQueue = cx[c].outQueue
  <1>. DEFINE q == [cx EXCEPT ![c].written = @ + n]
  <1>1. PICK r \in Context : r = cx[c]
    OBVIOUS
  <1>2. PICK w \in Nat : w = r.written + n
    BY DEF Context
  <1>. DEFINE s == [r EXCEPT !.written = w]
  <1>3. q = [cx EXCEPT ![c] = s]
    BY <1>1, <1>2
  <1>4. /\ s \in Context /\ s.sending = r.sending /\ s.readPaused = r.readPaused
        /\ s.fd = r.fd /\ s.connId = r.connId /\ s.closing = r.closing
        /\ s.inflight = r.inflight /\ s.outQueue = r.outQueue
    BY DEF Context
  <1>. HIDE DEF s, q
  <1>. QED BY <1>1, <1>3, <1>4 DEF q

(* handleSend keeps the structure: failed, partial and complete sends. *)
LEMMA HandleSendOK ==
    ASSUME IInv, NEW STATE o, o \in ops, HandleSend(o)
    PROVE  StructInv'
  <1>. DEFINE c  == o.ctx
              fd == ctx[c].fd
              cx == Reaped(o)
              os == ops \ {o}
  <1>0. BaseType /\ RangeInv
    BY Halves DEF StructInv
  <1>1. o.op = "SEND" /\ ~LastOfClosing(c)
    BY DEF HandleSend, Reaps
  <1>2. Mid(c, cx, os) /\ ~Has(os, c, "SEND") /\ (Has(os, c, "RECV") <=> Has(ops, c, "RECV"))
    BY <1>1, ReapOK
  <1>3. /\ c \in Contexts /\ cx \in [Contexts -> Context] /\ fd = cx[c].fd
        /\ cx[c].readPaused = ctx[c].readPaused /\ cx[c].outQueue = ctx[c].outQueue
    BY <1>1, ReapedFacts
  <1>4. cx[c].readPaused => ~Has(os, c, "RECV")
    <2>1. ~ctx[c].closing /\ c \in m_allConns
      BY <1>1, LiveOrLast
    <2>. QED BY <1>2, <1>3, <2>1 DEF IInv, FlagInv
  <1>5. cx[c].outQueue # << >>
    BY <1>1, <1>3 DEF IInv, OpsInv
  <1>6. UNCHANGED <<m_allConns, nextId, nSock, m_acceptPending, m_notifyPending, pc>>
    BY DEF HandleSend, provVars
  <1>7. o.res \in Int
    BY DEF IInv, TypeOK, KernelTypeOK, Ops
  <1>8. SendFailed(o, fd, cx, os) \/ SendPartial(o, fd, cx, os) \/ SendWhole(o, fd, cx, os)
    BY DEF HandleSend
  <1>. HIDE DEF fd, cx, os
  <1>9. CASE SendFailed(o, fd, cx, os)
    BY <1>0, <1>2, <1>3, <1>6, <1>9, CloseOK DEF SendFailed
  <1>10. CASE SendPartial(o, fd, cx, os)
    <2>1. PICK n \in Nat : n = o.res
      BY <1>7, <1>10 DEF SendPartial
    <2>. DEFINE cx2 == [cx EXCEPT ![c].written = @ + n]
    <2>2. SendNext(c, fd, cx2, os)
      BY <1>10, <2>1 DEF SendPartial
    <2>3. /\ cx2 \in [Contexts -> Context]
          /\ \A d \in Contexts \ {c} : cx2[d] = cx[d]
          /\ cx2[c].readPaused = cx[c].readPaused
          /\ cx2[c].fd = cx[c].fd /\ cx2[c].connId = cx[c].connId
          /\ cx2[c].closing = cx[c].closing /\ cx2[c].inflight = cx[c].inflight
      BY <1>3, Writing
    <2>. HIDE DEF cx2
    <2>4. Mid(c, cx2, os)
      BY <1>0, <1>2, <2>3, TouchOK
    <2>. QED BY <1>0, <1>2, <1>3, <1>4, <1>6, <2>2, <2>3, <2>4, SendNextOK
  <1>11. CASE SendWhole(o, fd, cx, os)
    <2>. DEFINE cx1 == Popped(c, cx)
                cx2 == [cx1 EXCEPT ![c].readPaused = FALSE]
    <2>1. /\ cx1 \in [Contexts -> Context]
          /\ \A d \in Contexts \ {c} : cx1[d] = cx[d]
          /\ cx1[c].readPaused = cx[c].readPaused
          /\ cx1[c].fd = cx[c].fd /\ cx1[c].connId = cx[c].connId
          /\ cx1[c].closing = cx[c].closing /\ cx1[c].inflight = cx[c].inflight
      BY <1>3, <1>5, Popping
    <2>2. \/ SendNext(c, fd, cx1, os)
          \/ /\ cx1[c].readPaused
             /\ IF find(fd) = None \/ SqFull(os)
                THEN close(fd, m_active, m_idlePool, cx2) /\ ops' = os
                ELSE SendNext(c, fd, onSubmit(cx2, find(fd)), os \cup {RecvSqe(find(fd), fd)})
      BY <1>11 DEF SendWhole, ResumesRecv
    <2>. HIDE DEF cx1
    <2>3. Mid(c, cx1, os)
      BY <1>0, <1>2, <2>1, TouchOK
    <2>4. CASE SendNext(c, fd, cx1, os)
      BY <1>0, <1>2, <1>3, <1>4, <1>6, <2>1, <2>3, <2>4, SendNextOK
    <2>5. CASE /\ cx1[c].readPaused
               /\ IF find(fd) = None \/ SqFull(os)
                  THEN close(fd, m_active, m_idlePool, cx2) /\ ops' = os
                  ELSE SendNext(c, fd, onSubmit(cx2, find(fd)), os \cup {RecvSqe(find(fd), fd)})
      <3>1. /\ cx2 \in [Contexts -> Context]
            /\ \A d \in Contexts \ {c} : cx2[d] = cx1[d]
            /\ cx2[c].readPaused = FALSE
            /\ cx2[c].fd = cx1[c].fd /\ cx2[c].connId = cx1[c].connId
            /\ cx2[c].closing = cx1[c].closing /\ cx2[c].inflight = cx1[c].inflight
        <4>. HIDE DEF c
        <4>1. c \in Contexts /\ cx1 \in [Contexts -> Context] /\ FALSE \in BOOLEAN
          BY <1>3, <2>1
        <4>. QED BY ONLY ZenonT(30), <4>1, SetPaused
      <3>. HIDE DEF cx2
      <3>2. Mid(c, cx2, os)
        BY <1>0, <1>2, <2>3, <3>1, TouchOK
      <3>3. find(fd) = c /\ c # None /\ fd \in Fds
        BY <1>2, <1>3, NoneAssumption DEF Mid, find
      <3>4. CASE SqFull(os)
        BY <1>0, <1>2, <1>3, <1>6, <2>1, <2>5, <3>1, <3>2, <3>4, CloseOK
      <3>5. CASE ~SqFull(os)
        <4>. DEFINE s == RecvSqe(c, fd)
                    cx3 == onSubmit(cx2, c)
                    os2 == os \cup {s}
        <4>1. /\ s \in Ops /\ s.ctx = c /\ s.op = "RECV" /\ s.fd = fd
              /\ s.stage = "sq" /\ s.sock = 0
          BY <1>3, <3>3 DEF RecvSqe, Sqe, Ops, OpTypes, Stages, Failed
        <4>2. SendNext(c, fd, cx3, os2)
          BY <2>5, <3>3, <3>5
        <4>. HIDE DEF s
        <4>3. ~Has(os, c, "RECV")
          BY <1>4, <2>1, <2>5
        <4>4. Mid(c, cx3, os2)
          BY ZenonT(30), <1>0, <1>3, <2>1, <3>1, <3>2, <4>1, <4>3, AddOK
        <4>5. cx3[c].readPaused = FALSE /\ cx3[c].fd = fd
          BY <1>3, <2>1, <3>1, CountedFlags
        <4>6. ~Has(os2, c, "SEND")
          BY <1>2, <4>1 DEF Has
        <4>. HIDE DEF cx3, os2
        <4>. QED BY <1>0, <1>6, <4>2, <4>4, <4>5, <4>6, SendNextOK
      <3>. QED BY <3>4, <3>5
    <2>. QED BY <2>2, <2>4, <2>5
  <1>. QED BY <1>8, <1>9, <1>10, <1>11

(* tryHandleRequest takes k requests off the input. *)
LEMMA Dispatching ==
    ASSUME NEW cx \in [Contexts -> Context], NEW c \in Contexts, NEW k \in Nat,
           k * FrameUnits <= cx[c].input
    PROVE  LET q == AfterDispatch(c, k, cx) IN
           /\ q \in [Contexts -> Context]
           /\ \A d \in Contexts \ {c} : q[d] = cx[d]
           /\ q[c].sending = cx[c].sending /\ q[c].readPaused = cx[c].readPaused
           /\ q[c].fd = cx[c].fd /\ q[c].connId = cx[c].connId
           /\ q[c].closing = cx[c].closing /\ q[c].inflight = cx[c].inflight
           /\ q[c].outQueue = cx[c].outQueue
  <1>. DEFINE q == AfterDispatch(c, k, cx)
  <1>1. PICK r \in Context : r = cx[c]
    OBVIOUS
  <1>2. PICK n \in Nat : n = r.input - k * FrameUnits
    <2>1. r.input \in Nat /\ k * FrameUnits \in Nat
      BY ContextFields, ProviderAssumption
    <2>. QED BY <1>1, <2>1
  <1>3. PICK p \in Int : p = r.pendingReqs + k
    BY DEF Context
  <1>. DEFINE s == [[r EXCEPT !.input = n] EXCEPT !.pendingReqs = p]
  <1>4. q = [cx EXCEPT ![c] = s]
    BY <1>1, <1>2, <1>3 DEF AfterDispatch, Context
  <1>5. /\ s \in Context /\ s.sending = r.sending /\ s.readPaused = r.readPaused
        /\ s.fd = r.fd /\ s.connId = r.connId /\ s.closing = r.closing
        /\ s.inflight = r.inflight /\ s.outQueue = r.outQueue
    BY DEF Context
  <1>. HIDE DEF s, q
  <1>. QED BY <1>1, <1>4, <1>5 DEF q

(* handleRecv keeps the structure: end, ENOBUFS, bad request, drained input. *)
LEMMA HandleRecvOK ==
    ASSUME IInv, NEW STATE o, o \in ops, HandleRecv(o)
    PROVE  StructInv'
  <1>. DEFINE c  == o.ctx
              fd == ctx[c].fd
              cx == Reaped(o)
              os == ops \ {o}
  <1>0. BaseType /\ RangeInv
    BY Halves DEF StructInv
  <1>1. o.op = "RECV" /\ ~LastOfClosing(c)
    BY DEF HandleRecv, Reaps
  <1>2. Mid(c, cx, os) /\ ~Has(os, c, "RECV") /\ (Has(os, c, "SEND") <=> Has(ops, c, "SEND"))
    BY <1>1, ReapOK
  <1>3. /\ c \in Contexts /\ cx \in [Contexts -> Context] /\ fd = cx[c].fd
        /\ cx[c].readPaused = ctx[c].readPaused /\ cx[c].sending = ctx[c].sending
        /\ cx[c].outQueue = ctx[c].outQueue
    BY <1>1, ReapedFacts
  <1>3a. ~ctx[c].closing /\ c \in m_allConns
    BY <1>1, LiveOrLast
  <1>4. ~cx[c].readPaused /\ (cx[c].sending <=> Has(os, c, "SEND"))
    <2>1. Has(ops, c, "RECV")
      BY <1>1 DEF Has
    <2>. QED BY <1>2, <1>3, <1>3a, <2>1 DEF IInv, FlagInv
  <1>5. Has(os, c, "SEND") => cx[c].outQueue # << >>
    BY <1>2 DEF Mid, OpsInv, Has
  <1>6. UNCHANGED <<m_allConns, nextId, nSock, m_acceptPending, m_notifyPending, pc>>
    BY DEF HandleRecv
  <1>7. cx[c].input \in Nat /\ FrameUnits \in Nat
    BY <1>3, ContextFields, ProviderAssumption
  <1>8. \/ RecvFailed(o, fd, cx, os) \/ RecvNoBufs(o, fd, cx, os)
        \/ RecvReject(o, fd, cx, os) \/ RecvDrained(o, fd, cx, os)
    BY <1>3a DEF HandleRecv
  <1>. HIDE DEF fd, cx, os
  <1>9. CASE RecvFailed(o, fd, cx, os)
    BY <1>0, <1>2, <1>3, <1>6, <1>9, CloseOK DEF RecvFailed
  <1>10. CASE RecvNoBufs(o, fd, cx, os)
    BY <1>0, <1>2, <1>3, <1>4, <1>6, <1>10, SubmitRecvOK DEF RecvNoBufs
  <1>11. CASE RecvReject(o, fd, cx, os)
    <2>1. PICK k \in 0 .. cx[c].input :
            /\ k * FrameUnits < cx[c].input
            /\ close(fd, m_active, m_idlePool, AfterDispatch(c, k, cx))
            /\ ops' = os
      BY <1>11 DEF RecvReject
    <2>. DEFINE cx2 == AfterDispatch(c, k, cx)
    <2>2. k \in Nat /\ k * FrameUnits <= cx[c].input
      BY <1>7, <2>1
    <2>3. /\ cx2 \in [Contexts -> Context]
          /\ \A d \in Contexts \ {c} : cx2[d] = cx[d]
          /\ cx2[c].fd = cx[c].fd /\ cx2[c].connId = cx[c].connId
          /\ cx2[c].closing = cx[c].closing /\ cx2[c].inflight = cx[c].inflight
          /\ cx2[c].outQueue = cx[c].outQueue
      BY <1>3, <2>2, Dispatching
    <2>. HIDE DEF cx2
    <2>4. Mid(c, cx2, os)
      BY <1>0, <1>2, <1>5, <2>3, TouchOK
    <2>5. close(fd, m_active, m_idlePool, cx2) /\ ops' = os
      BY <2>1 DEF cx2
    <2>. QED BY <1>0, <1>2, <1>3, <1>6, <2>3, <2>4, <2>5, CloseOK
  <1>12. CASE RecvDrained(o, fd, cx, os)
    <2>1. PICK k \in 0 .. cx[c].input :
            /\ k * FrameUnits <= cx[c].input
            /\ IF AfterDispatch(c, k, cx)[c].pendingReqs >= kMaxInflightPerConn
               THEN /\ ctx' = [AfterDispatch(c, k, cx) EXCEPT ![c].readPaused = TRUE]
                    /\ ops' = os
                    /\ UNCHANGED <<m_active, m_idlePool, fdtab>>
               ELSE submitRecvOrClose(fd, AfterDispatch(c, k, cx), os)
      BY <1>12 DEF RecvDrained
    <2>. DEFINE cx2 == AfterDispatch(c, k, cx)
    <2>2. k \in Nat /\ k * FrameUnits <= cx[c].input
      BY <1>7, <2>1
    <2>3. /\ cx2 \in [Contexts -> Context]
          /\ \A d \in Contexts \ {c} : cx2[d] = cx[d]
          /\ cx2[c].sending = cx[c].sending /\ cx2[c].readPaused = cx[c].readPaused
          /\ cx2[c].fd = cx[c].fd /\ cx2[c].connId = cx[c].connId
          /\ cx2[c].closing = cx[c].closing /\ cx2[c].inflight = cx[c].inflight
          /\ cx2[c].outQueue = cx[c].outQueue
      BY <1>3, <2>2, Dispatching
    <2>4. \/ /\ ctx' = [cx2 EXCEPT ![c].readPaused = TRUE]
             /\ ops' = os
             /\ UNCHANGED <<m_active, m_idlePool, fdtab>>
          \/ submitRecvOrClose(fd, cx2, os)
      BY <2>1
    <2>. HIDE DEF cx2
    <2>5. Mid(c, cx2, os)
      BY <1>0, <1>2, <1>5, <2>3, TouchOK
    <2>6. CASE submitRecvOrClose(fd, cx2, os)
      BY <1>0, <1>2, <1>3, <1>4, <1>6, <2>3, <2>5, <2>6, SubmitRecvOK
    <2>7. CASE /\ ctx' = [cx2 EXCEPT ![c].readPaused = TRUE]
               /\ ops' = os
               /\ UNCHANGED <<m_active, m_idlePool, fdtab>>
      <3>. DEFINE cx3 == [cx2 EXCEPT ![c].readPaused = TRUE]
      <3>1. /\ cx3 \in [Contexts -> Context]
            /\ \A d \in Contexts \ {c} : cx3[d] = cx2[d]
            /\ cx3[c].sending = cx2[c].sending
            /\ cx3[c].fd = cx2[c].fd /\ cx3[c].connId = cx2[c].connId
            /\ cx3[c].closing = cx2[c].closing /\ cx3[c].inflight = cx2[c].inflight
            /\ cx3[c].outQueue = cx2[c].outQueue
        <4>. HIDE DEF c
        <4>1. c \in Contexts /\ cx2 \in [Contexts -> Context] /\ TRUE \in BOOLEAN
          BY <1>3, <2>3
        <4>. QED BY ONLY ZenonT(30), <4>1, SetPaused
      <3>2. ctx' = cx3
        BY <2>7
      <3>. HIDE DEF cx3
      <3>3. Mid(c, cx3, os)
        BY <1>0, <1>5, <2>3, <2>5, <3>1, TouchOK
      <3>. QED BY <1>0, <1>2, <1>4, <1>6, <2>3, <2>7, <3>1, <3>2, <3>3, DoneOK
    <2>. QED BY <2>4, <2>6, <2>7
  <1>. QED BY <1>8, <1>9, <1>10, <1>11, <1>12

(* handleRecv hands well-typed requests to the task queue. *)
LEMMA HandleRecvType ==
    ASSUME IInv, NEW STATE o, o \in ops, HandleRecv(o)
    PROVE  RestType'
  <1>. DEFINE c  == o.ctx
              fd == ctx[c].fd
              cx == Reaped(o)
  <1>1. o.op = "RECV" /\ ~LastOfClosing(c)
    BY DEF HandleRecv, Reaps
  <1>2. RestType /\ StructInv
    BY Halves
  <1>3. /\ ~ctx[c].closing /\ c \in m_allConns /\ fd \in Fds /\ m_active[fd] = c
    BY <1>1, LiveOrLast
  <1>4. /\ c \in Contexts /\ cx \in [Contexts -> Context]
        /\ cx[c].connId = ctx[c].connId
    BY <1>1, ReapedFacts
  <1>5. cx[c].connId \in Socks
    <2>1. nextId - 1 <= nSock /\ nSock <= MaxConns /\ nextId \in Nat /\ nSock \in Nat
      BY <1>2 DEF StructInv, SockInv, RangeInv, BaseType
    <2>2. ctx[c].connId \in 1 .. nextId - 1
      BY <1>2, <1>3, <1>4, NoneAssumption DEF StructInv, SockInv
    <2>. QED BY <1>4, <2>1, <2>2, SizeAssumption DEF Socks
  <1>6. freeBufs' \in Int
    BY <1>2 DEF HandleRecv, ReturnBuffer, RestType
  <1>7. cx[c].input \in Nat
    BY <1>4, ContextFields
  <1>8. \/ UNCHANGED <<dispatched, m_taskQueue>>
        \/ \E k \in 0 .. cx[c].input : Dispatch(c, fd, k, cx)
    BY <1>3 DEF HandleRecv, RecvFailed, RecvNoBufs, RecvReject, RecvDrained
  <1>9. dispatched' \in [Socks -> Nat] /\ m_taskQueue' \in Seq(Requests)
    <2>1. CASE UNCHANGED <<dispatched, m_taskQueue>>
      BY <1>2, <2>1 DEF RestType
    <2>2. CASE \E k \in 0 .. cx[c].input : Dispatch(c, fd, k, cx)
      <3>1. PICK k \in Nat : Dispatch(c, fd, k, cx)
        BY <1>7, <2>2
      <3>2. PICK id \in Socks : id = cx[c].connId
        BY <1>5
      <3>3. PICK n \in Nat : n = dispatched[id]
        BY <1>2 DEF RestType
      <3>. DEFINE more == [i \in 1 .. k |-> [fd |-> fd, connId |-> id, rid |-> n + i]]
      <3>4. more \in Seq(Requests)
        <4>1. \A i \in 1 .. k : [fd |-> fd, connId |-> id, rid |-> n + i] \in Requests
          BY <1>3, SizeAssumption DEF Requests, Socks
        <4>. QED BY <4>1
      <3>5. m_taskQueue' = m_taskQueue \o more /\ dispatched' = [dispatched EXCEPT ![id] = n + k]
        BY <3>1, <3>2, <3>3 DEF Dispatch
      <3>. HIDE DEF more
      <3>. QED BY <1>2, <3>4, <3>5 DEF RestType
    <2>. QED BY <1>8, <2>1, <2>2
  <1>. QED BY <1>2, <1>6, <1>9 DEF RestType, HandleRecv

(* A live context is already in the state Mid describes. *)
LEMMA LiveMid ==
    ASSUME IInv, NEW STATE c, c \in m_allConns, ~ctx[c].closing
    PROVE  /\ Mid(c, ctx, ops)
           /\ ctx[c].sending <=> Has(ops, c, "SEND")
           /\ ctx[c].readPaused => ~Has(ops, c, "RECV")
  <1>1. c \in Contexts /\ ctx \in [Contexts -> Context] /\ ops \subseteq Ops
    BY DEF IInv, TypeOK, ConnTypeOK, KernelTypeOK
  <1>2. ctx[c].fd \in Fds /\ m_active[ctx[c].fd] = c
    BY DEF IInv, LifeInv
  <1>3. FlagInv(m_allConns \ {c}, ctx, ops)
    BY DEF IInv, FlagInv
  <1>4. \A o \in ops : o.sock <= nSock
    BY DEF IInv, RangeInv
  <1>. QED BY <1>1, <1>2, <1>3, <1>4 DEF IInv, Mid, FlagInv

(* Queueing a response. *)
LEMMA Queueing ==
    ASSUME NEW cx \in [Contexts -> Context], NEW c \in Contexts, NEW f \in Requests
    PROVE  LET q == [cx EXCEPT ![c].outQueue = Append(@, f)] IN
           /\ q \in [Contexts -> Context]
           /\ \A d \in Contexts \ {c} : q[d] = cx[d]
           /\ q[c].sending = cx[c].sending /\ q[c].readPaused = cx[c].readPaused
           /\ q[c].fd = cx[c].fd /\ q[c].connId = cx[c].connId
           /\ q[c].closing = cx[c].closing /\ q[c].inflight = cx[c].inflight
           /\ q[c].outQueue # << >>
  <1>. DEFINE q == [cx EXCEPT ![c].outQueue = Append(@, f)]
  <1>1. PICK r \in Context : r = cx[c]
    OBVIOUS
  <1>2. PICK u \in Seq(Requests) : u = r.outQueue
    BY ContextFields
  <1>3. PICK t \in Seq(Requests) : t = Append(u, f) /\ t # << >>
    <2>1. Append(u, f) \in Seq(Requests) /\ Len(Append(u, f)) = Len(u) + 1 /\ Len(u) \in Nat
      OBVIOUS
    <2>2. Append(u, f) # << >>
      BY <2>1
    <2>. QED BY <2>1, <2>2
  <1>. DEFINE s == [r EXCEPT !.outQueue = t]
  <1>4. q = [cx EXCEPT ![c] = s]
    BY <1>1, <1>2, <1>3
  <1>5. /\ s \in Context /\ s.sending = r.sending /\ s.readPaused = r.readPaused
        /\ s.fd = r.fd /\ s.connId = r.connId /\ s.closing = r.closing
        /\ s.inflight = r.inflight /\ s.outQueue = t
    BY DEF Context
  <1>. HIDE DEF s, q
  <1>. QED BY <1>1, <1>3, <1>4, <1>5 DEF q

(* StructInv is about these variables only. *)
LEMMA StructStutter ==
    ASSUME StructInv,
           UNCHANGED <<ops, fdtab, nSock, connVars, m_acceptPending, m_notifyPending>>,
           pc' = "notify" => pc = "notify"
    PROVE  StructInv'
  <1>1. UNCHANGED <<m_active, m_idlePool, m_allConns, ctx, nextId>>
    BY DEF connVars
  <1>2. BaseType' /\ ctx' \in [Contexts -> Context] /\ ops' \subseteq Ops /\ RangeInv'
    BY <1>1 DEF StructInv, BaseType, RangeInv
  <1>3. OpsInv(ctx', ops') /\ LifeInv(m_active', m_allConns', ctx', ops')
        /\ PoolInv(m_idlePool', m_allConns', ctx') /\ FlagInv(m_allConns', ctx', ops')
    BY <1>1 DEF StructInv
  <1>4. SockInv(m_active, ctx, ops, fdtab)'
    BY <1>1 DEF StructInv, SockInv, Accepted
  <1>5. PermInv(ops)'
    BY <1>1 DEF StructInv, PermInv
  <1>. QED BY <1>2, <1>3, <1>4, <1>5 DEF StructInv

(* A resumed coroutine delivers its response to its own connection, or drops it. *)
LEMMA ResumeCoroOK ==
    ASSUME IInv, ResumeCoro
    PROVE  StructInv' /\ RestType'
  <1>1. StructInv /\ RestType /\ BaseType /\ RangeInv
    BY Halves DEF StructInv
  <1>2. PICK e \in Coros : e = Head(ready) /\ Tail(ready) \in Seq(Coros)
    BY <1>1 DEF ResumeCoro, RestType
  <1>3. PICK r \in Requests : r = e.req
    BY DEF Coros
  <1>4. RestType'
    BY <1>1, <1>2 DEF ResumeCoro, RestType
  <1>5. UNCHANGED <<nSock, m_allConns, nextId, pc, m_acceptPending, m_notifyPending>>
    BY DEF ResumeCoro
  <1>6. CASE UNCHANGED <<ctx, ops, m_active, m_idlePool, fdtab>>
    BY <1>1, <1>4, <1>5, <1>6, StructStutter DEF connVars
  <1>7. CASE StillOpen(r) /\ deliverResponse(r)
    <2>. DEFINE c == m_active[r.fd]
                cx == [ctx EXCEPT ![c].outQueue = Append(@, r)]
    <2>1. r.fd \in Fds
      BY DEF Requests
    <2>2. /\ c # None /\ c \in Contexts /\ c \in m_allConns /\ ~ctx[c].closing /\ ctx[c].fd = r.fd
          /\ ctx \in [Contexts -> Context]
      BY <1>1, <1>7, <2>1 DEF StillOpen, find, StructInv, LifeInv, BaseType
    <2>3. \/ ctx[c].sending /\ ctx' = cx /\ UNCHANGED <<ops, m_active, m_idlePool, fdtab>>
          \/ ~ctx[c].sending /\ submitSendOrClose(r.fd, cx, ops)
      BY <1>7 DEF deliverResponse, find
    <2>. HIDE DEF c
    <2>4. /\ cx \in [Contexts -> Context]
          /\ \A d \in Contexts \ {c} : cx[d] = ctx[d]
          /\ cx[c].sending = ctx[c].sending /\ cx[c].readPaused = ctx[c].readPaused
          /\ cx[c].fd = ctx[c].fd /\ cx[c].connId = ctx[c].connId
          /\ cx[c].closing = ctx[c].closing /\ cx[c].inflight = ctx[c].inflight
          /\ cx[c].outQueue # << >>
      BY ONLY <2>2, r \in Requests, Queueing
    <2>. HIDE DEF cx
    <2>5. /\ Mid(c, ctx, ops)
          /\ ctx[c].sending <=> Has(ops, c, "SEND")
          /\ ctx[c].readPaused => ~Has(ops, c, "RECV")
      BY <2>2, LiveMid
    <2>6. Mid(c, cx, ops)
      BY <1>1, <2>4, <2>5, TouchOK
    <2>7. CASE ctx[c].sending /\ ctx' = cx /\ UNCHANGED <<ops, m_active, m_idlePool, fdtab>>
      BY <1>1, <1>4, <1>5, <2>4, <2>5, <2>6, <2>7, DoneOK
    <2>8. CASE ~ctx[c].sending /\ submitSendOrClose(r.fd, cx, ops)
      BY <1>1, <1>4, <1>5, <2>2, <2>4, <2>5, <2>6, <2>8, SubmitSendOK
    <2>. QED BY <2>3, <2>7, <2>8
  <1>. QED BY <1>2, <1>3, <1>6, <1>7 DEF ResumeCoro, deliverResponse

(***************************************************************************)
(* A step that changes the operations and nothing of the connections: the  *)
(* kernel moves operations to their next stage, and the reactor re-arms    *)
(* the two permanent ones.                                                 *)
(***************************************************************************)
LEMMA OpsStepOK ==
    ASSUME IInv, NEW STATE os, os \subseteq Ops, ops' = os,
           UNCHANGED <<connVars, fdtab, nSock>>,
           \A x, y \in os : x.ctx = y.ctx /\ x.op = y.op => x = y,
           \A x \in os : x.op \in {"RECV", "SEND"} =>
              /\ x.stage = "kernel" => x.sock # 0
              /\ \E y \in ops : /\ y.op = x.op /\ y.ctx = x.ctx /\ y.fd = x.fd
                                /\ x.sock = y.sock \/ x.sock = fdtab[x.fd],
           \A y \in ops : y.op \in {"RECV", "SEND"} =>
              \E x \in os : x.op = y.op /\ x.ctx = y.ctx,
           \A x \in os : x.op \in {"ACCEPT", "NOTIFY"} => x.ctx = None /\ x.sock <= nSock,
           \A x : Accepted(x) => (x \in ops <=> x \in os),
           m_acceptPending' => ~Has(os, None, "ACCEPT"),
           m_notifyPending' \/ pc' = "notify" => ~Has(os, None, "NOTIFY"),
           pc' = "notify" => ~m_notifyPending'
    PROVE  StructInv'
  <1>. USE NoneAssumption
  <1>1. UNCHANGED <<m_active, m_idlePool, m_allConns, ctx, nextId>> /\ StructInv
    BY Halves DEF connVars
  <1>2. \A c \in Contexts : /\ Has(os, c, "RECV") <=> Has(ops, c, "RECV")
                            /\ Has(os, c, "SEND") <=> Has(ops, c, "SEND")
    BY DEF Has
  <1>3. OpsInv(ctx, os)
    <2>1. OpsInv(ctx, ops)
      BY DEF IInv
    <2>2. \A x \in os : x.op \in {"RECV", "SEND"} =>
            x.ctx \in Contexts /\ x.fd \in Fds /\ x.fd = ctx[x.ctx].fd
      BY <2>1 DEF OpsInv
    <2>3. \A x \in os : x.op = "SEND" => ctx[x.ctx].outQueue # << >>
      BY <2>1 DEF OpsInv
    <2>4. \A c \in Contexts :
            ctx[c].inflight = (IF Has(os, c, "RECV") THEN 1 ELSE 0)
                            + (IF Has(os, c, "SEND") THEN 1 ELSE 0)
      BY <1>2, <2>1 DEF OpsInv
    <2>. QED BY <2>2, <2>3, <2>4 DEF OpsInv
  <1>4. LifeInv(m_active, m_allConns, ctx, os)
    BY <1>1, <1>2 DEF StructInv, LifeInv, BaseType
  <1>5. FlagInv(m_allConns, ctx, os)
    BY <1>1, <1>2 DEF StructInv, FlagInv, BaseType
  <1>6. \A x \in os : x.op \in OpTypes
    BY DEF Ops
  <1>7. \A x \in os : x.sock <= nSock
    <2>1. ASSUME NEW x \in os, x.op \in {"RECV", "SEND"} PROVE x.sock <= nSock
      <3>1. PICK y \in ops : y.fd = x.fd /\ y.op = x.op /\ (x.sock = y.sock \/ x.sock = fdtab[x.fd])
        BY <2>1
      <3>2. y.fd \in Fds
        BY <2>1, <3>1 DEF IInv, OpsInv
      <3>. QED BY <3>1, <3>2 DEF IInv, RangeInv
    <2>. QED BY <1>1, <1>6, <2>1 DEF OpTypes, StructInv, BaseType
  <1>8. SockInv(m_active, ctx, os, fdtab)
    <2>1. SockInv(m_active, ctx, ops, fdtab)
      BY DEF IInv
    <2>2. ASSUME NEW x \in os, x.op \in {"RECV", "SEND"}, x.sock # 0, ~ctx[x.ctx].closing
          PROVE  x.sock = ctx[x.ctx].connId
      <3>1. PICK y \in ops : /\ y.op = x.op /\ y.ctx = x.ctx /\ y.fd = x.fd
                             /\ x.sock = y.sock \/ x.sock = fdtab[x.fd]
        BY <2>2
      <3>2. x.ctx \in Contexts /\ x.fd \in Fds /\ x.fd = ctx[x.ctx].fd
        BY <1>3, <2>2 DEF OpsInv
      <3>3. x.ctx \in m_allConns
        BY <1>4, <2>2, <3>2 DEF LifeInv, Has
      <3>4. m_active[x.fd] = x.ctx
        BY <1>4, <2>2, <3>2, <3>3 DEF LifeInv
      <3>5. fdtab[x.fd] = ctx[x.ctx].connId
        BY <2>1, <3>2, <3>4 DEF SockInv
      <3>6. CASE x.sock = y.sock
        BY <2>1, <2>2, <3>1, <3>6 DEF SockInv
      <3>. QED BY <3>1, <3>5, <3>6
    <2>. QED BY <2>1, <2>2 DEF SockInv
  <1>9. /\ BaseType' /\ ctx' \in [Contexts -> Context] /\ ops' \subseteq Ops
        /\ RangeInv' /\ PermInv(ops)' /\ PoolInv(m_idlePool', m_allConns', ctx')
    BY <1>1, <1>7 DEF StructInv, BaseType, RangeInv, PermInv
  <1>10. SockInv(m_active, ctx, ops, fdtab)'
    BY <1>1, <1>8 DEF SockInv, Accepted
  <1>. QED BY <1>1, <1>3, <1>4, <1>5, <1>9, <1>10 DEF StructInv

(* One operation moves to its next stage. *)
LEMMA BecomesOK ==
    ASSUME IInv, NEW STATE o, o \in ops, NEW STATE o2, o2 \in Ops, Becomes(o, o2),
           o2.op = o.op, o2.ctx = o.ctx, o2.fd = o.fd,
           ~Accepted(o), ~Accepted(o2),
           o.op \in {"RECV", "SEND"} =>
              /\ o2.stage = "kernel" => o2.sock # 0
              /\ o2.sock = o.sock \/ o2.sock = fdtab[o.fd],
           o.op \in {"ACCEPT", "NOTIFY"} => o2.sock = o.sock,
           UNCHANGED <<connVars, fdtab, nSock, m_acceptPending, m_notifyPending, pc>>
    PROVE  StructInv'
  <1>. DEFINE os == (ops \ {o}) \cup {o2}
  <1>1. ops' = os
    BY DEF Becomes
  <1>2. os \subseteq Ops
    BY DEF IInv, TypeOK, KernelTypeOK
  <1>3. \A x, y \in os : x.ctx = y.ctx /\ x.op = y.op => x = y
    BY DEF IInv, OpsInv
  <1>4. \A x \in os : x.op \in {"RECV", "SEND"} =>
              /\ x.stage = "kernel" => x.sock # 0
              /\ \E y \in ops : /\ y.op = x.op /\ y.ctx = x.ctx /\ y.fd = x.fd
                                /\ x.sock = y.sock \/ x.sock = fdtab[x.fd]
    BY DEF IInv, SockInv
  <1>5. \A y \in ops : y.op \in {"RECV", "SEND"} =>
              \E x \in os : x.op = y.op /\ x.ctx = y.ctx
    OBVIOUS
  <1>6. \A x \in os : x.op \in {"ACCEPT", "NOTIFY"} => x.ctx = None /\ x.sock <= nSock
    BY DEF IInv, OpsInv, RangeInv
  <1>7. \A x : Accepted(x) => (x \in ops <=> x \in os)
    OBVIOUS
  <1>8. \A k : Has(os, None, k) <=> Has(ops, None, k)
    BY DEF Has
  <1>9. /\ m_acceptPending' => ~Has(os, None, "ACCEPT")
        /\ m_notifyPending' \/ pc' = "notify" => ~Has(os, None, "NOTIFY")
        /\ pc' = "notify" => ~m_notifyPending'
    BY <1>8 DEF IInv, PermInv
  <1>. HIDE DEF os
  <1>. QED BY <1>1, <1>2, <1>3, <1>4, <1>5, <1>6, <1>7, <1>9, OpsStepOK

(* The next forms of an operation. *)
LEMMA Completing ==
    ASSUME NEW o \in Ops, NEW n \in Int
    PROVE  LET q == [o EXCEPT !.stage = "cq", !.res = n] IN
           /\ q \in Ops /\ q.op = o.op /\ q.ctx = o.ctx /\ q.fd = o.fd
           /\ q.stage = "cq" /\ q.res = n /\ q.sock = o.sock
  BY DEF Ops, Stages

(* An accept that completes with a descriptor. *)
LEMMA Accepting ==
    ASSUME NEW o \in Ops, NEW fd \in Fds
    PROVE  LET q == [o EXCEPT !.stage = "cq", !.res = 1, !.fd = fd] IN
           /\ q \in Ops /\ q.op = o.op /\ q.ctx = o.ctx /\ q.fd = fd
           /\ q.stage = "cq" /\ q.res = 1 /\ q.sock = o.sock
  <1>1. PICK n \in Int : n = 1
    OBVIOUS
  <1>2. PICK r \in Ops : /\ r = [o EXCEPT !.stage = "cq", !.res = n]
                         /\ r.op = o.op /\ r.ctx = o.ctx /\ r.sock = o.sock
                         /\ r.stage = "cq" /\ r.res = n
    BY Completing
  <1>3. [o EXCEPT !.stage = "cq", !.res = 1, !.fd = fd] = [r EXCEPT !.fd = fd]
    BY <1>1, <1>2
  <1>4. LET q == [r EXCEPT !.fd = fd] IN
        /\ q \in Ops /\ q.op = r.op /\ q.ctx = r.ctx /\ q.fd = fd
        /\ q.stage = r.stage /\ q.res = r.res /\ q.sock = r.sock
    BY DEF Ops
  <1>. QED BY <1>1, <1>2, <1>3, <1>4

(* The kernel completes an operation it holds. *)
LEMMA CompleteOK ==
    ASSUME IInv, NEW STATE o, o \in ops, o.stage = "kernel", NEW n \in Int,
           o.op = "ACCEPT" => n = Failed, Complete(o, n),
           UNCHANGED <<connVars, fdtab, nSock, m_acceptPending, m_notifyPending, pc>>
    PROVE  StructInv'
  <1>1. o \in Ops
    BY DEF IInv, TypeOK, KernelTypeOK
  <1>. DEFINE o2 == [o EXCEPT !.stage = "cq", !.res = n]
  <1>2. /\ o2 \in Ops /\ o2.op = o.op /\ o2.ctx = o.ctx /\ o2.fd = o.fd
        /\ o2.stage = "cq" /\ o2.res = n /\ o2.sock = o.sock
    BY <1>1, Completing
  <1>3. Becomes(o, o2)
    BY DEF Complete
  <1>. HIDE DEF o2
  <1>4. ~Accepted(o) /\ ~Accepted(o2)
    BY <1>2 DEF Accepted
  <1>. QED BY <1>2, <1>3, <1>4, BecomesOK

(* The kernel takes an SQE and looks its descriptor up. *)
LEMMA SubmitOneOK ==
    ASSUME IInv, NEW STATE o, o \in ops, SubmitOne(o)
    PROVE  StructInv' /\ RestType'
  <1>1. o \in Ops /\ fdtab \in [Fds -> Nat] /\ RestType
    BY Halves DEF IInv, TypeOK, KernelTypeOK
  <1>2. /\ o.stage = "sq" /\ Becomes(o, Resolve(o))
        /\ UNCHANGED <<connVars, fdtab, nSock, m_acceptPending, m_notifyPending, pc>>
    BY DEF SubmitOne, provVars
  <1>3. RestType'
    BY <1>1 DEF SubmitOne, provVars, RestType
  <1>4. ~Accepted(o)
    BY <1>2 DEF Accepted
  <1>5. o.op \in {"RECV", "SEND"} => o.fd \in Fds
    BY DEF IInv, OpsInv
  <1>6. PICK o2 : o2 = Resolve(o)
    OBVIOUS
  <1>7. /\ o2 \in Ops /\ o2.op = o.op /\ o2.ctx = o.ctx /\ o2.fd = o.fd
        /\ o.op \in {"RECV", "SEND"} =>
              /\ o2.stage = "kernel" => o2.sock # 0
              /\ o2.sock = o.sock \/ o2.sock = fdtab[o.fd]
        /\ o.op \in {"ACCEPT", "NOTIFY"} => o2.sock = o.sock
        /\ ~Accepted(o2)
    <2>1. CASE o.op \notin {"RECV", "SEND"}
      <3>1. o2 = [o EXCEPT !.stage = "kernel"]
        BY <1>6, <2>1 DEF Resolve
      <3>2. /\ o2 \in Ops /\ o2.op = o.op /\ o2.ctx = o.ctx /\ o2.fd = o.fd
            /\ o2.stage = "kernel" /\ o2.sock = o.sock
        BY <1>1, <3>1 DEF Ops, Stages
      <3>. QED BY <2>1, <3>2 DEF Accepted
    <2>2. CASE o.op \in {"RECV", "SEND"} /\ fdtab[o.fd] = 0
      <3>0. PICK f \in Int : f = Failed
        BY DEF Failed
      <3>1. o2 = [o EXCEPT !.stage = "cq", !.res = f]
        BY <1>6, <2>2, <3>0 DEF Resolve
      <3>2. /\ o2 \in Ops /\ o2.op = o.op /\ o2.ctx = o.ctx /\ o2.fd = o.fd
            /\ o2.stage = "cq" /\ o2.sock = o.sock
        BY <1>1, <3>1 DEF Ops, Stages
      <3>. QED BY <2>2, <3>2 DEF Accepted
    <2>3. CASE o.op \in {"RECV", "SEND"} /\ fdtab[o.fd] # 0
      <3>1. PICK s \in Nat : s = fdtab[o.fd]
        BY <1>1, <1>5, <2>3
      <3>2. o2 = [o EXCEPT !.stage = "kernel", !.sock = s]
        BY <1>6, <2>3, <3>1 DEF Resolve
      <3>3. /\ o2 \in Ops /\ o2.op = o.op /\ o2.ctx = o.ctx /\ o2.fd = o.fd
            /\ o2.stage = "kernel" /\ o2.sock = s
        BY <1>1, <3>2 DEF Ops, Stages
      <3>. QED BY <2>3, <3>1, <3>3 DEF Accepted
    <2>. QED BY <2>1, <2>2, <2>3
  <1>. QED BY <1>2, <1>3, <1>4, <1>6, <1>7, BecomesOK

(* Every completion but an accepted connection. *)
LEMMA KernelOK ==
    ASSUME IInv, NEW STATE o, o \in ops, UNCHANGED <<connVars, provVars>>,
           \/ KAcceptError(o) \/ KRecvData(o) \/ KRecvNoBufs(o) \/ KRecvEnd(o)
           \/ KSendData(o) \/ KSendError(o) \/ KNotify(o)
    PROVE  StructInv' /\ RestType'
  <1>1. UNCHANGED <<connVars, m_acceptPending, m_notifyPending, pc>> /\ RestType /\ StructInv
    BY Halves DEF provVars
  <1>2. o.stage = "kernel" /\ UNCHANGED <<fdtab, nSock>>
    BY DEF KAcceptError, KRecvData, KRecvNoBufs, KRecvEnd, KSendData, KSendError, KNotify
  <1>3. \E n \in Int : Complete(o, n) /\ (o.op = "ACCEPT" => n = Failed)
    BY SizeAssumption
       DEF KAcceptError, KRecvData, KRecvNoBufs, KRecvEnd, KSendData, KSendError, KNotify,
           Failed, ENOBUFS
  <1>4. StructInv'
    BY <1>1, <1>2, <1>3, CompleteOK
  <1>5. rcvd' \in [Socks -> Nat]
    <2>1. CASE KRecvData(o)
      <3>1. PICK n \in 1 .. ChunkUnits : rcvd' = [rcvd EXCEPT ![o.sock] = @ + n]
        BY <2>1 DEF KRecvData
      <3>2. o.sock \in Socks /\ n \in Nat
        <4>1. o.sock # 0 /\ o.sock <= nSock /\ nSock <= MaxConns
          BY <2>1 DEF KRecvData, IInv, SockInv, RangeInv
        <4>2. o.sock \in Nat /\ nSock \in Nat
          BY DEF IInv, TypeOK, KernelTypeOK, Ops
        <4>. QED BY <4>1, <4>2, SizeAssumption DEF Socks
      <3>. QED BY <1>1, <3>1, <3>2 DEF RestType
    <2>2. CASE ~KRecvData(o)
      BY <1>1, <2>2
         DEF KAcceptError, KRecvNoBufs, KRecvEnd, KSendData, KSendError, KNotify, RestType
    <2>. QED BY <2>1, <2>2
  <1>6. freeBufs' \in Int
    BY <1>1 DEF KAcceptError, KRecvData, KRecvNoBufs, KRecvEnd, KSendData, KSendError,
                KNotify, RestType
  <1>7. eventfd' \in BOOLEAN
    <2>1. eventfd' = FALSE \/ eventfd' = eventfd
      BY DEF KAcceptError, KRecvData, KRecvNoBufs, KRecvEnd, KSendData, KSendError, KNotify
    <2>. QED BY <1>1, <2>1, Zenon DEF RestType
  <1>. QED BY <1>1, <1>4, <1>5, <1>6, <1>7 DEF RestType, provVars

(* The two permanent operations as they are submitted. *)
LEMMA PermSqes ==
    /\ AcceptSqe \in Ops /\ AcceptSqe.op = "ACCEPT" /\ AcceptSqe.ctx = None
    /\ AcceptSqe.sock = 0 /\ ~Accepted(AcceptSqe)
    /\ NotifySqe \in Ops /\ NotifySqe.op = "NOTIFY" /\ NotifySqe.ctx = None
    /\ NotifySqe.sock = 0 /\ ~Accepted(NotifySqe)
  BY DEF AcceptSqe, NotifySqe, Sqe, Ops, OpTypes, Stages, Failed, Accepted

(* A step that removes or arms permanent operations only. *)
LEMMA PermStepOK ==
    ASSUME IInv, NEW STATE gone, NEW STATE more,
           gone \subseteq ops, \A x \in gone : x.op \in {"ACCEPT", "NOTIFY"} /\ ~Accepted(x),
           more \subseteq {AcceptSqe, NotifySqe},
           ops' = (ops \ gone) \cup more,
           \A x \in ops \ gone, y \in more : x.op = y.op => x = y,
           UNCHANGED <<connVars, fdtab, nSock>>,
           m_acceptPending' => ~Has(ops', None, "ACCEPT"),
           m_notifyPending' \/ pc' = "notify" => ~Has(ops', None, "NOTIFY"),
           pc' = "notify" => ~m_notifyPending'
    PROVE  StructInv'
  <1>. DEFINE os == (ops \ gone) \cup more
  <1>0. \A x \in more : x \in Ops /\ x.op \in {"ACCEPT", "NOTIFY"} /\ x.ctx = None
                        /\ x.sock = 0 /\ ~Accepted(x)
    BY PermSqes
  <1>1. os \subseteq Ops /\ nSock \in Nat
    BY <1>0 DEF IInv, TypeOK, KernelTypeOK
  <1>2. \A x, y \in os : x.ctx = y.ctx /\ x.op = y.op => x = y
    <2>1. \A x, y \in more : x.op = y.op => x = y
      BY PermSqes
    <2>. QED BY <2>1 DEF IInv, OpsInv
  <1>3. \A x \in os : x.op \in {"RECV", "SEND"} =>
              /\ x.stage = "kernel" => x.sock # 0
              /\ \E y \in ops : /\ y.op = x.op /\ y.ctx = x.ctx /\ y.fd = x.fd
                                /\ x.sock = y.sock \/ x.sock = fdtab[x.fd]
    BY <1>0 DEF IInv, SockInv
  <1>4. \A y \in ops : y.op \in {"RECV", "SEND"} =>
              \E x \in os : x.op = y.op /\ x.ctx = y.ctx
    OBVIOUS
  <1>5. \A x \in os : x.op \in {"ACCEPT", "NOTIFY"} => x.ctx = None /\ x.sock <= nSock
    BY <1>0, <1>1 DEF IInv, OpsInv, RangeInv
  <1>6. \A x : Accepted(x) => (x \in ops <=> x \in os)
    BY <1>0
  <1>7. ops' = os
    OBVIOUS
  <1>. HIDE DEF os
  <1>. QED BY <1>1, <1>2, <1>3, <1>4, <1>5, <1>6, <1>7, OpsStepOK

(* handleNotify takes the ready coroutines. *)
LEMMA HandleNotifyOK ==
    ASSUME IInv, NEW STATE o, o \in ops, HandleNotify(o)
    PROVE  StructInv' /\ RestType'
  <1>1. RestType
    BY Halves
  <1>2. o.op = "NOTIFY" /\ o.ctx = None /\ ~Accepted(o)
    BY DEF HandleNotify, Reaps, IInv, OpsInv, Accepted
  <1>3. Has(ops, None, "NOTIFY") /\ ~Has(ops \ {o}, None, "NOTIFY")
    BY <1>2 DEF IInv, OpsInv, Has
  <1>4. ~m_notifyPending /\ (m_acceptPending => ~Has(ops \ {o}, None, "ACCEPT"))
    BY <1>3 DEF IInv, PermInv, Has
  <1>5. RestType'
    BY <1>1 DEF HandleNotify, RestType
  <1>6. /\ ops' = (ops \ {o}) \cup {} /\ UNCHANGED <<connVars, fdtab, nSock, m_acceptPending, m_notifyPending>>
    BY DEF HandleNotify
  <1>7. /\ m_acceptPending' => ~Has(ops', None, "ACCEPT")
        /\ ~Has(ops', None, "NOTIFY") /\ ~m_notifyPending'
    BY <1>3, <1>4, <1>6
  <1>8. PICK gone : gone = {o}
    OBVIOUS
  <1>9. PICK more : more = {}
    OBVIOUS
  <1>10. /\ gone \subseteq ops /\ \A x \in gone : x.op \in {"ACCEPT", "NOTIFY"} /\ ~Accepted(x)
        /\ more \subseteq {AcceptSqe, NotifySqe} /\ ops' = (ops \ gone) \cup more
        /\ \A x \in ops \ gone, y \in more : x.op = y.op => x = y
    BY <1>2, <1>6, <1>8, <1>9
  <1>. QED BY <1>5, <1>6, <1>7, <1>10, PermStepOK

(* The eventfd read is armed again, or put off because the SQ is full. *)
LEMMA NotifyDoneOK ==
    ASSUME IInv, NotifyDone
    PROVE  StructInv' /\ RestType'
  <1>1. RestType
    BY Halves
  <1>2. ~m_notifyPending /\ ~Has(ops, None, "NOTIFY") /\ (m_acceptPending => ~Has(ops, None, "ACCEPT"))
    BY DEF IInv, PermInv, NotifyDone
  <1>3. PICK more : more = IF SqFull(ops) THEN {} ELSE {NotifySqe}
    OBVIOUS
  <1>4. /\ ops' = (ops \ {}) \cup more /\ (m_notifyPending' <=> SqFull(ops)) /\ pc' = "reap"
        /\ UNCHANGED <<connVars, fdtab, nSock, m_acceptPending>>
    BY <1>2, <1>3 DEF NotifyDone, submitNotifyRead
  <1>5. RestType'
    BY <1>1 DEF NotifyDone, submitNotifyRead, RestType
  <1>6. \A x \in ops, y \in more : x.op = y.op => x = y
    BY <1>2, <1>3, PermSqes DEF Has, IInv, OpsInv
  <1>7. /\ m_acceptPending' => ~Has(ops', None, "ACCEPT")
        /\ m_notifyPending' => ~Has(ops', None, "NOTIFY")
    BY <1>2, <1>3, <1>4, PermSqes DEF Has
  <1>8. more \subseteq {AcceptSqe, NotifySqe}
    BY <1>3
  <1>9. PICK gone : gone = {}
    OBVIOUS
  <1>10. /\ gone \subseteq ops /\ \A x \in gone : x.op \in {"ACCEPT", "NOTIFY"} /\ ~Accepted(x)
        /\ more \subseteq {AcceptSqe, NotifySqe} /\ ops' = (ops \ gone) \cup more
        /\ \A x \in ops \ gone, y \in more : x.op = y.op => x = y
    BY <1>4, <1>6, <1>8, <1>9
  <1>. QED BY <1>4, <1>5, <1>7, <1>10, PermStepOK

(* A failed accept is armed again, or put off. *)
LEMMA HandleAcceptErrorOK ==
    ASSUME IInv, NEW STATE o, o \in ops, HandleAcceptError(o)
    PROVE  StructInv' /\ RestType'
  <1>1. RestType
    BY Halves
  <1>2. o.op = "ACCEPT" /\ o.ctx = None /\ ~Accepted(o)
    BY DEF HandleAcceptError, Reaps, IInv, OpsInv, Accepted
  <1>3. Has(ops, None, "ACCEPT") /\ ~Has(ops \ {o}, None, "ACCEPT")
    BY <1>2 DEF IInv, OpsInv, Has
  <1>4. /\ ~m_acceptPending /\ (m_notifyPending \/ pc = "notify" => ~Has(ops \ {o}, None, "NOTIFY"))
        /\ pc = "notify" => ~m_notifyPending
    BY <1>3 DEF IInv, PermInv, Has
  <1>5. PICK more : more = IF SqFull(ops \ {o}) THEN {} ELSE {AcceptSqe}
    OBVIOUS
  <1>6. /\ ops' = (ops \ {o}) \cup more /\ (m_acceptPending' <=> SqFull(ops \ {o}))
        /\ UNCHANGED <<connVars, fdtab, nSock, m_notifyPending, pc>>
    BY <1>4, <1>5 DEF HandleAcceptError, submitAccept
  <1>7. RestType'
    BY <1>1 DEF HandleAcceptError, submitAccept, RestType
  <1>8. \A x \in ops \ {o}, y \in more : x.op = y.op => x = y
    BY <1>3, <1>5, PermSqes DEF Has, IInv, OpsInv
  <1>9. /\ m_acceptPending' => ~Has(ops', None, "ACCEPT")
        /\ m_notifyPending' \/ pc' = "notify" => ~Has(ops', None, "NOTIFY")
    BY <1>3, <1>4, <1>5, <1>6, PermSqes DEF Has
  <1>10. more \subseteq {AcceptSqe, NotifySqe}
    BY <1>5
  <1>11. PICK gone : gone = {o}
    OBVIOUS
  <1>12. /\ gone \subseteq ops /\ \A x \in gone : x.op \in {"ACCEPT", "NOTIFY"} /\ ~Accepted(x)
        /\ more \subseteq {AcceptSqe, NotifySqe} /\ ops' = (ops \ gone) \cup more
        /\ \A x \in ops \ gone, y \in more : x.op = y.op => x = y
    BY <1>2, <1>6, <1>8, <1>10, <1>11
  <1>. QED BY <1>4, <1>6, <1>7, <1>9, <1>12, PermStepOK

(* submit_and_wait returned: the deferred operations are retried. *)
LEMMA WaitReturnsOK ==
    ASSUME IInv, WaitReturns
    PROVE  StructInv' /\ RestType'
  <1>1. RestType
    BY Halves
  <1>2. PICK a \in BOOLEAN : a <=> m_acceptPending /\ ~SqFull(ops)
    OBVIOUS
  <1>3. PICK os : os = IF a THEN ops \cup {AcceptSqe} ELSE ops
    OBVIOUS
  <1>4. PICK b \in BOOLEAN : b <=> m_notifyPending /\ ~SqFull(os)
    OBVIOUS
  <1>. DEFINE more == (IF a THEN {AcceptSqe} ELSE {}) \cup (IF b THEN {NotifySqe} ELSE {})
  <1>5. /\ ops' = (ops \ {}) \cup more
        /\ m_acceptPending' <=> m_acceptPending /\ ~a
        /\ m_notifyPending' <=> m_notifyPending /\ ~b
        /\ m_acceptPending' \in BOOLEAN /\ m_notifyPending' \in BOOLEAN
        /\ pc' = "reap" /\ UNCHANGED <<connVars, fdtab, nSock>>
    BY <1>2, <1>3, <1>4 DEF WaitReturns
  <1>6. RestType'
    BY <1>1, <1>5 DEF WaitReturns, RestType
  <1>7. /\ m_acceptPending => ~Has(ops, None, "ACCEPT")
        /\ m_notifyPending => ~Has(ops, None, "NOTIFY")
    BY DEF IInv, PermInv
  <1>8. \A x \in ops, y \in more : x.op = y.op => x = y
    BY <1>2, <1>4, <1>7, PermSqes DEF Has, IInv, OpsInv
  <1>9. /\ m_acceptPending' => ~Has(ops', None, "ACCEPT")
        /\ m_notifyPending' => ~Has(ops', None, "NOTIFY")
    BY <1>2, <1>4, <1>5, <1>7, PermSqes DEF Has
  <1>10. more \subseteq {AcceptSqe, NotifySqe}
    OBVIOUS
  <1>. HIDE DEF more
  <1>11. PICK gone : gone = {}
    OBVIOUS
  <1>12. /\ gone \subseteq ops /\ \A x \in gone : x.op \in {"ACCEPT", "NOTIFY"} /\ ~Accepted(x)
        /\ more \subseteq {AcceptSqe, NotifySqe} /\ ops' = (ops \ gone) \cup more
        /\ \A x \in ops \ gone, y \in more : x.op = y.op => x = y
    BY <1>5, <1>8, <1>10, <1>11
  <1>. QED BY <1>5, <1>6, <1>9, <1>12, PermStepOK

(* No CQE is left: the loop submits again. *)
LEMMA PeekEmptyOK ==
    ASSUME IInv, PeekEmpty
    PROVE  StructInv' /\ RestType'
  <1>1. StructInv /\ RestType
    BY Halves
  <1>2. StructInv'
    BY <1>1, StructStutter DEF PeekEmpty, kernelVars
  <1>3. RestType'
    BY <1>1 DEF PeekEmpty, kernelVars, RestType
  <1>. QED BY <1>2, <1>3

(* The worker threads touch neither contexts nor operations. *)
LEMMA WorkerOK ==
    ASSUME IInv, NEW w \in Workers, Worker(w)
    PROVE  StructInv' /\ RestType'
  <1>1. StructInv /\ RestType
    BY Halves
  <1>2. StructInv'
    <2>1. UNCHANGED <<ops, fdtab, nSock, connVars, m_acceptPending, m_notifyPending, pc>>
      BY DEF Worker, WorkerTake, PoolDone, WorkerWake, kernelVars
    <2>. QED BY <1>1, <2>1, StructStutter
  <1>3. worker[w] \in WorkerStates
    BY <1>1 DEF RestType
  <1>4. CASE WorkerTake(w)
    <2>1. PICK r \in Requests : r = Head(m_taskQueue) /\ Tail(m_taskQueue) \in Seq(Requests)
      BY <1>1, <1>4 DEF RestType, WorkerTake
    <2>2. [st |-> "call", req |-> r] \in WorkerStates
      BY DEF WorkerStates
    <2>3. worker' \in [Workers -> WorkerStates] /\ m_taskQueue' \in Seq(Requests)
      BY <1>1, <1>4, <2>1, <2>2 DEF RestType, WorkerTake
    <2>. QED BY <1>1, <1>2, <1>4, <2>3 DEF RestType, WorkerTake, kernelVars
  <1>5. CASE PoolDone(w)
    <2>1. worker[w].req \in Requests
      BY <1>3, <1>5 DEF WorkerStates, PoolDone
    <2>2. PICK fails \in BOOLEAN :
            m_readyCoros' = Append(m_readyCoros, [req |-> worker[w].req, frameEmpty |-> fails])
      BY <1>5, ProviderAssumption DEF PoolDone
    <2>3. [req |-> worker[w].req, frameEmpty |-> fails] \in Coros
      BY <2>1 DEF Coros
    <2>4. m_readyCoros' \in Seq(Coros)
      BY <1>1, <2>2, <2>3 DEF RestType
    <2>5. worker' \in [Workers -> WorkerStates]
      <3>1. [worker[w] EXCEPT !.st = "wake"] \in WorkerStates
        BY <1>3, <1>5 DEF PoolDone, WorkerStates
      <3>. QED BY <1>1, <1>5, <3>1 DEF RestType, PoolDone
    <2>. QED BY <1>1, <1>2, <1>5, <2>4, <2>5 DEF RestType, PoolDone, kernelVars
  <1>6. CASE WorkerWake(w)
    <2>1. worker' \in [Workers -> WorkerStates]
      BY <1>1, <1>6 DEF RestType, WorkerWake, WorkerStates, Idle
    <2>. QED BY <1>1, <1>2, <1>6, <2>1 DEF RestType, WorkerWake
  <1>. QED BY <1>4, <1>5, <1>6 DEF Worker

(* onComplete recycles a closing context at its last completion. *)
LEMMA ReapLastOK ==
    ASSUME IInv, NEW STATE o, o \in ops, ReapLast(o)
    PROVE  StructInv' /\ RestType'
  <1>. DEFINE c == o.ctx
              os == ops \ {o}
  <1>. USE NoneAssumption
  <1>0. StructInv /\ RestType /\ BaseType /\ RangeInv
    BY Halves DEF StructInv
  <1>1. /\ o.op \in {"RECV", "SEND"} /\ ctx[c].closing /\ ctx[c].inflight - 1 = 0
        /\ ops' = os /\ ctx' = Reaped(o) /\ m_idlePool' = recycle(m_idlePool, c)
        /\ UNCHANGED <<fdtab, nSock, m_active, m_allConns, nextId, m_acceptPending, m_notifyPending, pc>>
    BY DEF ReapLast, Reaps, LastOfClosing, provVars
  <1>2. RestType'
    <2>1. freeBufs' \in Int
      BY <1>0 DEF ReapLast, ReturnBuffer, RestType
    <2>. QED BY <1>0, <2>1 DEF ReapLast, RestType, provVars
  <1>3. /\ c \in Contexts /\ ctx' \in [Contexts -> Context]
        /\ \A d \in Contexts \ {c} : ctx'[d] = ctx[d]
        /\ ctx'[c].inflight = ctx[c].inflight - 1 /\ ctx[c].inflight \in Int
        /\ ctx'[c].fd = ctx[c].fd /\ ctx'[c].connId = ctx[c].connId
        /\ ctx'[c].closing = ctx[c].closing /\ ctx'[c].outQueue = ctx[c].outQueue
    <2>1. c \in Contexts /\ ctx[c] \in Context
      BY <1>0, <1>1 DEF StructInv, OpsInv
    <2>. QED BY <1>1, <2>1, ReapedFacts, ContextFields
  <1>4. \A d \in Contexts : /\ ctx'[d].fd = ctx[d].fd /\ ctx'[d].connId = ctx[d].connId
                            /\ ctx'[d].closing = ctx[d].closing
                            /\ ctx'[d].outQueue = ctx[d].outQueue
    BY <1>3
  <1>5. \A x \in os : ~(x.ctx = c /\ x.op = o.op)
    BY <1>1 DEF IInv, OpsInv
  <1>6. \A d, k : Has(os, d, k) <=> Has(ops, d, k) /\ ~(d = c /\ k = o.op)
    BY <1>5 DEF Has
  <1>7. c \in m_allConns
    BY <1>0, <1>1, <1>3 DEF StructInv, LifeInv, Has
  <1>8. Has(ops, c, o.op)
    BY DEF Has
  <1>9. ~Has(os, c, "RECV") /\ ~Has(os, c, "SEND")
    <2>1. ~(Has(ops, c, "RECV") /\ Has(ops, c, "SEND"))
      BY <1>0, <1>1, <1>7 DEF StructInv, LifeInv
    <2>2. CASE o.op = "RECV"
      BY <1>6, <1>8, <2>1, <2>2
    <2>3. CASE o.op = "SEND"
      BY <1>6, <1>8, <2>1, <2>3
    <2>. QED BY <1>1, <2>2, <2>3
  <1>10. OpsInv(ctx', os)
    <2>1. OpsInv(ctx, ops)
      BY DEF IInv
    <2>2. \A x \in os : x.op \in {"RECV", "SEND"} =>
            x.ctx \in Contexts /\ x.fd \in Fds /\ x.fd = ctx'[x.ctx].fd
      BY <1>4, <2>1 DEF OpsInv
    <2>3. \A x \in os : x.op = "SEND" => ctx'[x.ctx].outQueue # << >>
      BY <1>4, <2>1 DEF OpsInv
    <2>4. \A d \in Contexts :
            ctx'[d].inflight = (IF Has(os, d, "RECV") THEN 1 ELSE 0)
                             + (IF Has(os, d, "SEND") THEN 1 ELSE 0)
      <3>1. \A d \in Contexts \ {c} :
              /\ Has(os, d, "RECV") <=> Has(ops, d, "RECV")
              /\ Has(os, d, "SEND") <=> Has(ops, d, "SEND")
        BY <1>6
      <3>2. ctx'[c].inflight = 0
        BY <1>1, <1>3
      <3>. HIDE DEF os
      <3>3. \A d \in Contexts \ {c} :
              ctx'[d].inflight = (IF Has(os, d, "RECV") THEN 1 ELSE 0)
                               + (IF Has(os, d, "SEND") THEN 1 ELSE 0)
        BY <1>3, <2>1, <3>1 DEF OpsInv
      <3>. QED BY <1>9, <3>2, <3>3
    <2>. QED BY <2>1, <2>2, <2>3, <2>4 DEF OpsInv
  <1>11. LifeInv(m_active, m_allConns, ctx', os)
    <2>. HIDE DEF os
    <2>1. m_active \in [Fds -> Contexts \cup {None}] /\ m_allConns \subseteq Contexts
      BY <1>0 DEF BaseType
    <2>. QED BY <1>0, <1>4, <1>6, <2>1 DEF StructInv, LifeInv
  <1>12. m_idlePool' \in Seq(Contexts) /\ PoolInv(m_idlePool', m_allConns, ctx')
    <2>1. PoolInv(m_idlePool, m_allConns, ctx) /\ m_idlePool \in Seq(Contexts)
          /\ m_allConns \subseteq Contexts
      BY <1>0 DEF StructInv, BaseType
    <2>2. \A i \in 1 .. Len(m_idlePool) : m_idlePool[i] \in Contexts \ {c}
      BY <1>1, <2>1 DEF PoolInv
    <2>3. /\ \A i \in 1 .. Len(m_idlePool) :
               m_idlePool[i] \in m_allConns /\ ctx'[m_idlePool[i]].closing
               /\ ctx'[m_idlePool[i]].inflight = 0
          /\ \A i, j \in 1 .. Len(m_idlePool) : m_idlePool[i] = m_idlePool[j] => i = j
      BY <1>3, <2>1, <2>2 DEF PoolInv
    <2>4. \A d \in m_allConns \ {c} : ctx'[d].closing /\ ctx'[d].inflight = 0 =>
            \E i \in 1 .. Len(m_idlePool) : m_idlePool[i] = d
      BY <1>3, <2>1 DEF PoolInv
    <2>5. ctx'[c].closing /\ ctx'[c].inflight = 0 /\ \A i \in 1 .. Len(m_idlePool) : m_idlePool[i] # c
      BY <1>1, <1>3, <2>2
    <2>. QED BY <1>1, <1>3, <1>7, <2>1, <2>3, <2>4, <2>5, RecycleOK
  <1>13. FlagInv(m_allConns, ctx', os)
    <2>. HIDE DEF os
    <2>1. \A d \in m_allConns : ~ctx'[d].closing => d \in Contexts \ {c} /\ ctx'[d] = ctx[d]
      BY <1>0, <1>1, <1>3 DEF BaseType
    <2>. QED BY <1>0, <1>6, <2>1 DEF StructInv, FlagInv
  <1>14. SockInv(m_active, ctx', os, fdtab)
    <2>1. SockInv(m_active, ctx, ops, fdtab)
      BY DEF IInv
    <2>2. \A fd \in Fds : m_active[fd] # None =>
            ctx'[m_active[fd]].connId = ctx[m_active[fd]].connId
      BY <1>0, <1>4 DEF BaseType
    <2>3. \A x \in ops : x.op \in {"RECV", "SEND"} =>
            ctx'[x.ctx].connId = ctx[x.ctx].connId /\ ctx'[x.ctx].closing = ctx[x.ctx].closing
      BY <1>4 DEF IInv, OpsInv
    <2>4. \A x \in ops : Accepted(x) => x \in os
      BY <1>1 DEF Accepted
    <2>. QED BY <2>1, <2>2, <2>3, <2>4 DEF SockInv
  <1>15. PermInv(os)
    BY <1>0, <1>6 DEF StructInv, PermInv
  <1>16. /\ BaseType' /\ ops' \subseteq Ops /\ RangeInv' /\ PermInv(ops)'
    BY <1>0, <1>1, <1>12, <1>15 DEF StructInv, BaseType, RangeInv, PermInv
  <1>17. SockInv(m_active, ctx, ops, fdtab)'
    BY <1>1, <1>14 DEF SockInv, Accepted
  <1>. HIDE DEF os
  <1>. QED BY <1>1, <1>2, <1>3, <1>10, <1>11, <1>12, <1>13, <1>16, <1>17 DEF StructInv

(* A new socket gets a free descriptor number; the others stay owned. *)
LEMMA KAcceptOK ==
    ASSUME IInv, NEW STATE o, o \in ops, KAccept(o), UNCHANGED <<connVars, provVars>>
    PROVE  StructInv' /\ RestType'
  <1>. USE NoneAssumption
  <1>0. StructInv /\ RestType /\ BaseType /\ RangeInv /\ o \in Ops
    BY Halves DEF StructInv
  <1>1. PICK fd \in Fds :
          /\ fdtab[fd] = 0 /\ fdtab' = [fdtab EXCEPT ![fd] = nSock + 1]
          /\ Becomes(o, [o EXCEPT !.stage = "cq", !.res = 1, !.fd = fd])
    BY DEF KAccept
  <1>2. PICK o2 : o2 = [o EXCEPT !.stage = "cq", !.res = 1, !.fd = fd]
    OBVIOUS
  <1>3. /\ o2 \in Ops /\ o2.op = o.op /\ o2.ctx = o.ctx /\ o2.fd = fd
        /\ o2.stage = "cq" /\ o2.res = 1 /\ o2.sock = o.sock
    BY <1>0, <1>2, Accepting
  <1>. DEFINE os == (ops \ {o}) \cup {o2}
  <1>4. /\ ops' = os /\ o.op = "ACCEPT" /\ o.stage = "kernel"
        /\ nSock < MaxConns /\ nSock' = nSock + 1 /\ nSock \in Nat /\ nextId \in Nat
        /\ UNCHANGED <<m_active, m_idlePool, m_allConns, ctx, nextId, m_acceptPending,
                       m_notifyPending, pc>>
    BY <1>0, <1>1, <1>2 DEF Becomes, KAccept, connVars, provVars, BaseType
  <1>5. RestType'
    BY <1>0 DEF KAccept, RestType, provVars
  <1>6. o.ctx = None /\ \A x \in ops : x.op = "ACCEPT" => x = o
    BY <1>4 DEF IInv, OpsInv
  <1>7. \A d, k : Has(os, d, k) <=> Has(ops, d, k)
    BY <1>3 DEF Has
  <1>8. OpsInv(ctx, os)
    <2>1. OpsInv(ctx, ops)
      BY DEF IInv
    <2>2. \A x, y \in os : x.ctx = y.ctx /\ x.op = y.op => x = y
      BY <1>3, <2>1 DEF OpsInv
    <2>3. \A x \in os : x.op \in {"RECV", "SEND"} => x \in ops
      BY <1>3, <1>4
    <2>4. \A x \in os : x.op \in {"ACCEPT", "NOTIFY"} => x.ctx = None
      BY <1>3, <1>6, <2>1 DEF OpsInv
    <2>5. \A c \in Contexts :
            ctx[c].inflight = (IF Has(os, c, "RECV") THEN 1 ELSE 0)
                            + (IF Has(os, c, "SEND") THEN 1 ELSE 0)
      <3>. HIDE DEF os
      <3>. QED BY <1>7, <2>1 DEF OpsInv
    <2>. QED BY <2>1, <2>2, <2>3, <2>4, <2>5 DEF OpsInv
  <1>9. LifeInv(m_active, m_allConns, ctx, os) /\ FlagInv(m_allConns, ctx, os) /\ PermInv(os)
    <2>. HIDE DEF os
    <2>. QED BY <1>0, <1>7 DEF StructInv, LifeInv, FlagInv, PermInv
  <1>10. nextId = nSock + 1
    <2>1. \A x \in ops : ~Accepted(x)
      BY <1>4, <1>6 DEF Accepted
    <2>. QED BY <2>1 DEF IInv, SockInv
  <1>11. SockInv(m_active, ctx, ops, fdtab)'
    <2>1. SockInv(m_active, ctx, ops, fdtab)
      BY DEF IInv
    <2>2. /\ fdtab'[fd] = nSock + 1 /\ \A f \in Fds \ {fd} : fdtab'[f] = fdtab[f]
      BY <1>0, <1>1 DEF BaseType
    <2>3. m_active[fd] = None
      BY <1>1, <2>1 DEF SockInv
    <2>4. Accepted(o2) /\ \A x \in os : Accepted(x) => x = o2
      BY <1>3, <1>4, <1>6 DEF Accepted, Failed
    <2>5. \A f \in Fds : m_active[f] # None =>
            fdtab'[f] = ctx[m_active[f]].connId /\ ctx[m_active[f]].connId \in 1 .. nextId - 1
      BY <2>1, <2>2, <2>3 DEF SockInv
    <2>6. \A f \in Fds : fdtab'[f] # 0 =>
            m_active[f] # None \/ \E x \in os : Accepted(x) /\ x.fd = f
      <3>1. \A x \in ops : ~Accepted(x)
        BY <1>4, <1>6 DEF Accepted
      <3>. QED BY <1>3, <2>1, <2>2, <2>4, <3>1 DEF SockInv
    <2>7. \A x \in os : Accepted(x) =>
            x.fd \in Fds /\ m_active[x.fd] = None /\ fdtab'[x.fd] = nextId /\ nextId = nSock + 1
      BY <1>3, <1>10, <2>2, <2>3, <2>4
    <2>8. \A x \in os : x.op \in {"RECV", "SEND"} => x \in ops
      BY <1>3, <1>4
    <2>9. /\ \A x \in os : x.op \in {"RECV", "SEND"} /\ x.stage = "kernel" => x.sock # 0
          /\ \A x \in os : x.op \in {"RECV", "SEND"} /\ x.sock # 0 /\ ~ctx[x.ctx].closing
                             => x.sock = ctx[x.ctx].connId
      BY <2>1, <2>8 DEF SockInv
    <2>10. o2 \in os
      OBVIOUS
    <2>. HIDE DEF os
    <2>. QED BY <1>4, <2>4, <2>5, <2>6, <2>7, <2>9, <2>10 DEF SockInv, Accepted
  <1>12. /\ BaseType' /\ os \subseteq Ops
    BY <1>0, <1>1, <1>3, <1>4 DEF StructInv, BaseType
  <1>13. RangeInv'
    <2>1. \A f \in Fds : fdtab'[f] <= nSock + 1
      BY <1>0, <1>1, <1>4 DEF RangeInv, BaseType
    <2>2. \A x \in os : x.sock \in Nat /\ x.sock <= nSock + 1
      <3>1. \A x \in ops : x.sock \in Nat /\ x.sock <= nSock
        BY <1>0 DEF StructInv, RangeInv, Ops
      <3>. QED BY <1>3, <1>4, <3>1
    <2>. QED BY <1>0, <1>4, <2>1, <2>2, SizeAssumption DEF RangeInv
  <1>14. PermInv(ops)' /\ SockInv(m_active, ctx, ops, fdtab)'
    BY <1>4, <1>9, <1>11 DEF PermInv
  <1>. HIDE DEF os
  <1>. QED BY <1>0, <1>4, <1>5, <1>8, <1>9, <1>12, <1>13, <1>14 DEF StructInv

(* acquire: what is known of the context it takes and of the pool after. *)
LEMMA AcquireFacts ==
    ASSUME IInv, NEW c, c \in Acquirable
    PROVE  /\ c \in Contexts
           /\ ~Has(ops, c, "RECV") /\ ~Has(ops, c, "SEND")
           /\ \A fd \in Fds : m_active[fd] # c
           /\ PoolAfterAcquire \in Seq(Contexts)
           /\ \A i \in 1 .. Len(PoolAfterAcquire) :
                 PoolAfterAcquire[i] # c /\ PoolAfterAcquire[i] \in m_allConns
                 /\ ctx[PoolAfterAcquire[i]].closing
                 /\ ctx[PoolAfterAcquire[i]].inflight = 0
           /\ \A i, j \in 1 .. Len(PoolAfterAcquire) :
                 PoolAfterAcquire[i] = PoolAfterAcquire[j] => i = j
           /\ \A d \in m_allConns \ {c} : ctx[d].closing /\ ctx[d].inflight = 0 =>
                 \E i \in 1 .. Len(PoolAfterAcquire) : PoolAfterAcquire[i] = d
  <1>. USE NoneAssumption
  <1>0. StructInv /\ BaseType
    BY Halves DEF StructInv
  <1>1. CASE m_idlePool = << >>
    <2>1. c \in Contexts \ m_allConns /\ PoolAfterAcquire = m_idlePool /\ Len(m_idlePool) = 0
      BY <1>1 DEF Acquirable, PoolAfterAcquire
    <2>2. ~Has(ops, c, "RECV") /\ ~Has(ops, c, "SEND")
      BY <1>0, <2>1 DEF StructInv, LifeInv
    <2>3. \A fd \in Fds : m_active[fd] # c
      BY <1>0, <2>1 DEF StructInv, LifeInv
    <2>4. \A d \in m_allConns : ~(ctx[d].closing /\ ctx[d].inflight = 0)
      BY <1>0, <2>1 DEF StructInv, PoolInv
    <2>. QED BY <1>0, <2>1, <2>2, <2>3, <2>4 DEF BaseType
  <1>2. CASE m_idlePool # << >>
    <2>1. PICK n \in Nat : n = Len(m_idlePool) /\ n > 0 /\ n \in 1 .. n
      BY <1>0, <1>2 DEF BaseType
    <2>2. c = m_idlePool[n] /\ PoolAfterAcquire = SubSeq(m_idlePool, 1, n - 1)
      BY <1>2, <2>1 DEF Acquirable, PoolAfterAcquire
    <2>3. /\ PoolAfterAcquire \in Seq(Contexts) /\ Len(PoolAfterAcquire) = n - 1
          /\ \A i \in 1 .. n - 1 : PoolAfterAcquire[i] = m_idlePool[i]
      BY <1>0, <2>1, <2>2 DEF BaseType
    <2>4. c \in Contexts /\ c \in m_allConns /\ ctx[c].closing /\ ctx[c].inflight = 0
      BY <1>0, <2>1, <2>2 DEF StructInv, PoolInv, BaseType
    <2>5. ~Has(ops, c, "RECV") /\ ~Has(ops, c, "SEND")
      <3>1. ctx[c].inflight = (IF Has(ops, c, "RECV") THEN 1 ELSE 0)
                            + (IF Has(ops, c, "SEND") THEN 1 ELSE 0)
        BY <1>0, <2>4 DEF StructInv, OpsInv
      <3>. QED BY <2>4, <3>1
    <2>6. \A fd \in Fds : m_active[fd] # c
      BY <1>0, <2>4 DEF StructInv, LifeInv
    <2>7. /\ \A i \in 1 .. n : m_idlePool[i] \in m_allConns /\ ctx[m_idlePool[i]].closing
                               /\ ctx[m_idlePool[i]].inflight = 0
          /\ \A i, j \in 1 .. n : m_idlePool[i] = m_idlePool[j] => i = j
          /\ \A d \in m_allConns : ctx[d].closing /\ ctx[d].inflight = 0 =>
                 \E i \in 1 .. n : m_idlePool[i] = d
      BY <1>0, <2>1 DEF StructInv, PoolInv
    <2>8. \A i \in 1 .. n - 1 :
             PoolAfterAcquire[i] # c /\ PoolAfterAcquire[i] \in m_allConns
             /\ ctx[PoolAfterAcquire[i]].closing
             /\ ctx[PoolAfterAcquire[i]].inflight = 0
      BY <2>1, <2>2, <2>3, <2>7
    <2>9. \A i, j \in 1 .. n - 1 : PoolAfterAcquire[i] = PoolAfterAcquire[j] => i = j
      BY <2>1, <2>3, <2>7
    <2>10. \A d \in m_allConns \ {c} : ctx[d].closing /\ ctx[d].inflight = 0 =>
             \E i \in 1 .. n - 1 : PoolAfterAcquire[i] = d
      <3>1. ASSUME NEW d \in m_allConns \ {c}, ctx[d].closing, ctx[d].inflight = 0
            PROVE  \E i \in 1 .. n - 1 : PoolAfterAcquire[i] = d
        <4>1. PICK i \in 1 .. n : m_idlePool[i] = d
          BY <2>7, <3>1
        <4>2. i # n
          BY <2>2, <3>1, <4>1
        <4>. QED BY <2>1, <2>3, <4>1, <4>2
      <3>. QED BY <3>1
    <2>. QED BY <2>3, <2>4, <2>5, <2>6, <2>8, <2>9, <2>10
  <1>. QED BY <1>1, <1>2

(* A fresh context is a context, in the state reset and acquire leave it. *)
LEMMA FreshContext ==
    ASSUME NEW fd \in Fds, NEW id \in Nat
    PROVE  LET r == ResetContext(fd, id) IN
           /\ r \in Context /\ r.fd = fd /\ r.connId = id /\ r.inflight = 0
           /\ r.closing = FALSE /\ r.sending = FALSE /\ r.readPaused = FALSE
           /\ r.outQueue = << >>
  BY DEF ResetContext, Context

(***************************************************************************)
(* handleAccept, whichever way it ends: the new context c is active with a *)
(* RECV (new = {its SQE}), or was closed again at once and pooled (new =   *)
(* {}); the accept is re-armed or deferred (more).                         *)
(***************************************************************************)
LEMMA HandleAcceptOps ==
    ASSUME IInv, NEW STATE o, o \in ops, o.op = "ACCEPT", Accepted(o),
           NEW STATE c, c \in Contexts, ~Has(ops, c, "RECV"), ~Has(ops, c, "SEND"),
           NEW STATE new, NEW STATE more,
           new = {} \/ new = {RecvSqe(c, o.fd)},
           more = {} \/ more = {AcceptSqe},
           ops' = ((ops \ {o}) \cup new) \cup more,
           ctx' \in [Contexts -> Context],
           \A d \in Contexts \ {c} : ctx'[d] = ctx[d],
           ctx'[c].fd = o.fd, ctx'[c].outQueue = << >>,
           ctx'[c].inflight = IF new = {} THEN 0 ELSE 1
    PROVE  /\ OpsInv(ctx', ops') /\ ops' \subseteq Ops
           /\ \A d \in Contexts \ {c} : /\ Has(ops', d, "RECV") <=> Has(ops, d, "RECV")
                                        /\ Has(ops', d, "SEND") <=> Has(ops, d, "SEND")
           /\ Has(ops', c, "RECV") <=> new # {}
           /\ ~Has(ops', c, "SEND")
           /\ \A x \in ops' : ~Accepted(x) /\ x.sock <= nSock
           /\ \A x \in ops' : x.op \in {"RECV", "SEND"} => x \in ops \/ (x.sock = 0 /\ x.stage = "sq")
           /\ Has(ops', None, "ACCEPT") <=> more # {}
           /\ Has(ops', None, "NOTIFY") <=> Has(ops, None, "NOTIFY")
  <1>. USE NoneAssumption
  <1>0. /\ ops \subseteq Ops /\ nSock \in Nat /\ o.fd \in Fds /\ OpsInv(ctx, ops)
        /\ \A x \in ops : x.sock <= nSock
    BY DEF IInv, TypeOK, KernelTypeOK, SockInv, RangeInv
  <1>1. /\ RecvSqe(c, o.fd) \in Ops /\ RecvSqe(c, o.fd).op = "RECV" /\ RecvSqe(c, o.fd).ctx = c
        /\ RecvSqe(c, o.fd).fd = o.fd /\ RecvSqe(c, o.fd).sock = 0 /\ RecvSqe(c, o.fd).stage = "sq"
    BY <1>0 DEF RecvSqe, Sqe, Ops, OpTypes, Stages, Failed
  <1>2. \A x \in new : /\ x \in Ops /\ x.op = "RECV" /\ x.ctx = c /\ x.fd = o.fd
                       /\ x.sock = 0 /\ x.stage = "sq" /\ ~Accepted(x)
    BY <1>1 DEF Accepted
  <1>3. \A x \in more : /\ x \in Ops /\ x.op = "ACCEPT" /\ x.ctx = None
                        /\ x.sock = 0 /\ ~Accepted(x)
    BY PermSqes
  <1>4. o.ctx = None /\ \A x \in ops \ {o} : x.op # "ACCEPT"
    BY <1>0 DEF OpsInv
  <1>5. \A x \in ops \ {o} : ~(x.ctx = c /\ x.op \in {"RECV", "SEND"})
    BY DEF Has
  <1>6. \A x \in ops' : x \in ops \ {o} \/ x \in new \/ x \in more
    OBVIOUS
  <1>7. /\ \A x, y \in new : x = y
        /\ \A x, y \in more : x = y
    OBVIOUS
  <1>8. \A x, y \in ops' : x.ctx = y.ctx /\ x.op = y.op => x = y
    BY <1>0, <1>2, <1>3, <1>4, <1>5, <1>6, <1>7 DEF OpsInv
  <1>9. \A d \in Contexts \ {c} : /\ Has(ops', d, "RECV") <=> Has(ops, d, "RECV")
                                  /\ Has(ops', d, "SEND") <=> Has(ops, d, "SEND")
    BY <1>2, <1>3, <1>4 DEF Has
  <1>10. (Has(ops', c, "RECV") <=> new # {}) /\ ~Has(ops', c, "SEND")
    BY <1>2, <1>3, <1>5 DEF Has
  <1>11. /\ Has(ops', None, "ACCEPT") <=> more # {}
         /\ Has(ops', None, "NOTIFY") <=> Has(ops, None, "NOTIFY")
    BY <1>2, <1>3, <1>4 DEF Has
  <1>12. /\ \A x \in ops' : ~Accepted(x) /\ x.sock <= nSock
         /\ \A x \in ops' : x.op \in {"RECV", "SEND"} => x \in ops \/ (x.sock = 0 /\ x.stage = "sq")
         /\ ops' \subseteq Ops
    <2>1. \A x \in ops \ {o} : ~Accepted(x)
      BY <1>4 DEF Accepted
    <2>2. \A x \in ops' : ~Accepted(x)
      BY <1>2, <1>3, <1>6, <2>1
    <2>3. \A x \in ops' : x.sock <= nSock
      BY <1>0, <1>2, <1>3, <1>6
    <2>4. ops' \subseteq Ops
      BY <1>0, <1>2, <1>3, <1>6
    <2>5. ASSUME NEW x \in ops', x.op \in {"RECV", "SEND"}, x \notin ops
          PROVE  x.sock = 0 /\ x.stage = "sq"
      <3>1. x \in new
        BY <1>3, <1>6, <2>5
      <3>. QED BY <1>2, <3>1
    <2>. QED BY <2>2, <2>3, <2>4, <2>5
  <1>13. \A x \in ops' : x.op \in {"RECV", "SEND"} =>
            x.ctx \in Contexts /\ x.fd \in Fds /\ x.fd = ctx'[x.ctx].fd
    BY <1>0, <1>2, <1>3, <1>5, <1>6 DEF OpsInv
  <1>14. \A x \in ops' : x.op \in {"ACCEPT", "NOTIFY"} => x.ctx = None
    BY <1>0, <1>2, <1>3, <1>6 DEF OpsInv
  <1>15. \A x \in ops' : x.op = "SEND" => ctx'[x.ctx].outQueue # << >>
    BY <1>0, <1>2, <1>3, <1>5, <1>6 DEF OpsInv
  <1>16. ASSUME NEW d \in Contexts
         PROVE  ctx'[d].inflight = (IF Has(ops', d, "RECV") THEN 1 ELSE 0)
                                 + (IF Has(ops', d, "SEND") THEN 1 ELSE 0)
    <2>1. CASE d = c
      BY <1>10, <2>1
    <2>2. CASE d # c
      BY <1>0, <1>9, <2>2 DEF OpsInv
    <2>. QED BY <2>1, <2>2
  <1>17. OpsInv(ctx', ops')
    BY <1>8, <1>13, <1>14, <1>15, <1>16 DEF OpsInv
  <1>. QED BY <1>9, <1>10, <1>11, <1>12, <1>17

(* handleAccept: the new connection owns the socket just accepted. *)
LEMMA HandleAcceptOK ==
    ASSUME IInv, NEW STATE o, o \in ops, HandleAccept(o)
    PROVE  StructInv' /\ RestType'
  <1>. USE NoneAssumption
  <1>0. StructInv /\ RestType /\ BaseType /\ RangeInv
    BY Halves DEF StructInv
  <1>1. /\ o.op = "ACCEPT" /\ Accepted(o) /\ nextId' = nextId + 1
        /\ UNCHANGED <<nSock, m_notifyPending, pc>>
    BY DEF HandleAccept, Reaps, Accepted
  <1>2. PICK fd \in Fds : fd = o.fd /\ m_active[fd] = None /\ fdtab[fd] = nextId /\ nextId = nSock
    BY <1>1 DEF IInv, SockInv
  <1>3. /\ Has(ops, None, "ACCEPT") /\ ~m_acceptPending
        /\ m_notifyPending \/ pc = "notify" => ~Has(ops, None, "NOTIFY")
        /\ pc = "notify" => ~m_notifyPending
    <2>1. Has(ops, None, "ACCEPT")
      BY <1>1 DEF IInv, OpsInv, Has
    <2>. QED BY <2>1 DEF IInv, PermInv
  <1>. DEFINE cxN(c) == [ctx EXCEPT ![c] = ResetContext(fd, nextId)]
              actN(c) == [m_active EXCEPT ![fd] = c]
              os == ops \ {o}
  <1>4. PICK c \in Acquirable :
          /\ m_allConns' = m_allConns \cup {c}
          /\ IF SqFull(os)
             THEN /\ close(fd, actN(c), PoolAfterAcquire, cxN(c))
                  /\ submitAccept(os)
             ELSE /\ m_active' = actN(c)
                  /\ m_idlePool' = PoolAfterAcquire
                  /\ ctx' = onSubmit(cxN(c), c)
                  /\ UNCHANGED fdtab
                  /\ submitAccept(os \cup {RecvSqe(c, fd)})
    BY <1>2 DEF HandleAccept
  <1>5. /\ c \in Contexts /\ c # None
        /\ ~Has(ops, c, "RECV") /\ ~Has(ops, c, "SEND")
        /\ \A f \in Fds : m_active[f] # c
    BY AcquireFacts
  <1>6. PICK pool \in Seq(Contexts) : pool = PoolAfterAcquire
    BY AcquireFacts
  <1>7. /\ \A i \in 1 .. Len(pool) : pool[i] # c /\ pool[i] \in m_allConns
                                     /\ ctx[pool[i]].closing /\ ctx[pool[i]].inflight = 0
        /\ \A i, j \in 1 .. Len(pool) : pool[i] = pool[j] => i = j
        /\ \A d \in m_allConns \ {c} : ctx[d].closing /\ ctx[d].inflight = 0 =>
              \E i \in 1 .. Len(pool) : pool[i] = d
    BY <1>6, AcquireFacts
  <1>8. RestType'
    <2>1. m_acceptPending' \in BOOLEAN
      BY <1>4 DEF submitAccept
    <2>. QED BY <1>0, <2>1 DEF HandleAccept, RestType
  <1>9. PICK r \in Context : /\ r = ResetContext(fd, nextId)
                             /\ r.fd = fd /\ r.connId = nextId /\ r.inflight = 0
                             /\ r.closing = FALSE /\ r.sending = FALSE /\ r.readPaused = FALSE
                             /\ r.outQueue = << >>
    <2>1. nextId \in Nat
      BY <1>0 DEF BaseType
    <2>2. PICK r : r = ResetContext(fd, nextId)
      OBVIOUS
    <2>3. /\ r \in Context /\ r.fd = fd /\ r.connId = nextId /\ r.inflight = 0
          /\ r.closing = FALSE /\ r.sending = FALSE /\ r.readPaused = FALSE
          /\ r.outQueue = << >>
      BY <2>1, <2>2, FreshContext
    <2>. QED BY <2>2, <2>3
  <1>10. /\ cxN(c) \in [Contexts -> Context] /\ cxN(c)[c] = r
         /\ \A d \in Contexts \ {c} : cxN(c)[d] = ctx[d]
         /\ actN(c) \in [Fds -> Contexts \cup {None}] /\ actN(c)[fd] = c
         /\ \A f \in Fds \ {fd} : actN(c)[f] = m_active[f]
    BY <1>0, <1>5, <1>9 DEF StructInv, BaseType
  <1>. HIDE DEF cxN, actN
  (* What both endings have in common, from the facts about the new state. *)
  <1>11. ASSUME NEW new, NEW more,
                new = {} \/ new = {RecvSqe(c, fd)}, more = {} \/ more = {AcceptSqe},
                ops' = (os \cup new) \cup more,
                m_acceptPending' => more = {},
                ctx' \in [Contexts -> Context],
                \A d \in Contexts \ {c} : ctx'[d] = ctx[d],
                ctx'[c].fd = fd, ctx'[c].outQueue = << >>, ctx'[c].connId = nextId,
                ctx'[c].sending = FALSE, ctx'[c].readPaused = FALSE,
                ctx'[c].inflight = IF new = {} THEN 0 ELSE 1,
                ctx'[c].closing <=> new = {},
                m_active' \in [Fds -> Contexts \cup {None}],
                m_active'[fd] = IF new = {} THEN None ELSE c,
                \A f \in Fds \ {fd} : m_active'[f] = m_active[f],
                fdtab' \in [Fds -> Nat],
                fdtab'[fd] = IF new = {} THEN 0 ELSE nextId,
                \A f \in Fds \ {fd} : fdtab'[f] = fdtab[f],
                m_idlePool' \in Seq(Contexts), PoolInv(m_idlePool', m_allConns', ctx')
         PROVE  StructInv'
    <2>0. /\ m_allConns' \subseteq Contexts /\ m_allConns' = m_allConns \cup {c}
          /\ m_allConns \subseteq Contexts /\ nSock \in Nat /\ nextId \in Nat
      BY <1>0, <1>4, <1>5 DEF BaseType
    <2>1. /\ OpsInv(ctx', ops') /\ ops' \subseteq Ops
          /\ \A d \in Contexts \ {c} : /\ Has(ops', d, "RECV") <=> Has(ops, d, "RECV")
                                       /\ Has(ops', d, "SEND") <=> Has(ops, d, "SEND")
          /\ Has(ops', c, "RECV") <=> new # {}
          /\ ~Has(ops', c, "SEND")
          /\ \A x \in ops' : ~Accepted(x) /\ x.sock <= nSock
          /\ \A x \in ops' : x.op \in {"RECV", "SEND"} => x \in ops \/ (x.sock = 0 /\ x.stage = "sq")
          /\ Has(ops', None, "ACCEPT") <=> more # {}
          /\ Has(ops', None, "NOTIFY") <=> Has(ops, None, "NOTIFY")
      <3>1. /\ o \in ops /\ o.op = "ACCEPT" /\ Accepted(o)
            /\ c \in Contexts /\ ~Has(ops, c, "RECV") /\ ~Has(ops, c, "SEND")
            /\ ops' = ((ops \ {o}) \cup new) \cup more
            /\ more = {} \/ more = {AcceptSqe}
        BY <1>1, <1>5, <1>11
      <3>2. new = {} \/ new = {RecvSqe(c, o.fd)}
        BY <1>2, <1>11
      <3>3. /\ ctx' \in [Contexts -> Context] /\ ctx'[c].fd = o.fd /\ ctx'[c].outQueue = << >>
            /\ ctx'[c].inflight = IF new = {} THEN 0 ELSE 1
            /\ \A d \in Contexts \ {c} : ctx'[d] = ctx[d]
        BY <1>2, <1>11
      <3>. QED BY ONLY IInv, <3>1, <3>2, <3>3, HandleAcceptOps
    <2>2. LifeInv(m_active', m_allConns', ctx', ops')
      <3>1. LifeInv(m_active, m_allConns, ctx, ops)
        BY DEF IInv
      <3>2. \A f \in Fds : m_active'[f] # None =>
              m_active'[f] \in m_allConns' /\ ctx'[m_active'[f]].fd = f
              /\ ~ctx'[m_active'[f]].closing
        <4>1. ASSUME NEW f \in Fds, m_active'[f] # None, f # fd
              PROVE  m_active'[f] \in Contexts \ {c} /\ m_active'[f] = m_active[f]
          BY <1>0, <1>5, <1>11, <4>1 DEF BaseType
        <4>2. ASSUME NEW f \in Fds, m_active'[f] # None, f # fd
              PROVE  m_active'[f] \in m_allConns' /\ ctx'[m_active'[f]].fd = f
                     /\ ~ctx'[m_active'[f]].closing
          BY <1>11, <2>0, <3>1, <4>1, <4>2 DEF LifeInv
        <4>. QED BY <1>11, <2>0, <4>2
      <3>3. \A d \in m_allConns' : ~ctx'[d].closing =>
              ctx'[d].fd \in Fds /\ m_active'[ctx'[d].fd] = d
        <4>1. ASSUME NEW d \in m_allConns', d # c, ~ctx'[d].closing
              PROVE  ctx'[d].fd \in Fds /\ m_active'[ctx'[d].fd] = d
          <5>1. d \in m_allConns /\ d \in Contexts \ {c} /\ ctx'[d] = ctx[d]
            BY <1>11, <2>0, <4>1
          <5>2. ctx[d].fd \in Fds /\ m_active[ctx[d].fd] = d /\ d # None
            BY <3>1, <4>1, <5>1 DEF LifeInv
          <5>3. ctx[d].fd # fd
            BY <1>2, <5>2
          <5>. QED BY <1>11, <5>1, <5>2, <5>3
        <4>. QED BY <1>11, <4>1
      <3>4. \A d \in m_allConns' : ctx'[d].closing => ~(Has(ops', d, "RECV") /\ Has(ops', d, "SEND"))
        BY ZenonT(30), <1>11, <2>0, <2>1, <3>1 DEF LifeInv
      <3>5. \A d \in Contexts \ m_allConns' : ~Has(ops', d, "RECV") /\ ~Has(ops', d, "SEND")
        BY <2>0, <2>1, <3>1 DEF LifeInv
      <3>. QED BY <3>2, <3>3, <3>4, <3>5 DEF LifeInv
    <2>3. FlagInv(m_allConns', ctx', ops')
      <3>1. FlagInv(m_allConns, ctx, ops)
        BY DEF IInv
      <3>2. ASSUME NEW d \in m_allConns', ~ctx'[d].closing
            PROVE  /\ ctx'[d].sending <=> Has(ops', d, "SEND")
                   /\ ctx'[d].readPaused => ~Has(ops', d, "RECV")
        <4>1. CASE d = c
          BY <1>11, <2>1, <4>1
        <4>2. CASE d # c
          <5>1. d \in m_allConns /\ d \in Contexts \ {c} /\ ctx'[d] = ctx[d]
            BY <1>11, <2>0, <4>2
          <5>. QED BY <2>1, <3>1, <3>2, <5>1 DEF FlagInv
        <4>. QED BY <4>1, <4>2
      <3>. QED BY <3>2 DEF FlagInv
    <2>4. SockInv(m_active, ctx, ops, fdtab)'
      <3>1. SockInv(m_active, ctx, ops, fdtab)
        BY DEF IInv
      <3>2. ASSUME NEW f \in Fds, m_active'[f] # None
            PROVE  fdtab'[f] = ctx'[m_active'[f]].connId
                   /\ ctx'[m_active'[f]].connId \in 1 .. nextId' - 1
        <4>1. nextId >= 1 /\ nextId' - 1 = nextId
          BY <1>0, <1>1, <2>0 DEF RangeInv
        <4>2. CASE f = fd
          BY <1>11, <2>0, <3>2, <4>1, <4>2
        <4>3. CASE f # fd
          <5>1. m_active'[f] = m_active[f] /\ m_active[f] \in Contexts \ {c} /\ fdtab'[f] = fdtab[f]
            BY <1>0, <1>5, <1>11, <3>2, <4>3 DEF BaseType
          <5>2. ctx'[m_active'[f]] = ctx[m_active[f]]
            BY <1>11, <5>1
          <5>3. fdtab[f] = ctx[m_active[f]].connId /\ ctx[m_active[f]].connId \in 1 .. nextId - 1
            BY <3>1, <3>2, <5>1 DEF SockInv
          <5>. QED BY <2>0, <4>1, <5>1, <5>2, <5>3
        <4>. QED BY <4>2, <4>3
      <3>3. ASSUME NEW f \in Fds, fdtab'[f] # 0 PROVE m_active'[f] # None
        <4>1. CASE f = fd
          BY <1>5, <1>11, <3>3, <4>1
        <4>2. CASE f # fd
          <5>1. fdtab[f] # 0
            BY <1>11, <3>3, <4>2
          <5>2. \A x \in ops : Accepted(x) => x.fd = fd
            BY <1>1, <1>2 DEF Accepted, IInv, OpsInv
          <5>3. m_active[f] # None
            BY <3>1, <4>2, <5>1, <5>2 DEF SockInv
          <5>. QED BY <1>11, <4>2, <5>3
        <4>. QED BY <4>1, <4>2
      <3>4. \A x \in ops' : x.op \in {"RECV", "SEND"} /\ x.stage = "kernel" => x.sock # 0
        BY <2>1, <3>1 DEF SockInv
      <3>5. ASSUME NEW x \in ops', x.op \in {"RECV", "SEND"}, x.sock # 0, ~ctx'[x.ctx].closing
            PROVE  x.sock = ctx'[x.ctx].connId
        <4>1. x \in ops /\ x.ctx \in Contexts
          BY <2>1, <3>5 DEF OpsInv
        <4>2. x.ctx # c
          BY <1>5, <3>5, <4>1 DEF Has
        <4>3. ctx'[x.ctx] = ctx[x.ctx]
          BY <1>11, <4>1, <4>2
        <4>. QED BY <3>1, <3>5, <4>1, <4>3 DEF SockInv
      <3>6. nextId' = nSock' + 1 /\ \A x \in ops' : ~Accepted(x)
        BY <1>1, <1>2, <2>1
      <3>. QED BY <3>2, <3>3, <3>4, <3>5, <3>6 DEF SockInv, Accepted
    <2>5. PermInv(ops)'
      BY <1>1, <1>3, <1>11, <2>1 DEF PermInv, Has
    <2>6. BaseType'
      BY <1>1, <1>11, <2>0 DEF BaseType
    <2>7. RangeInv'
      <3>1. \A f \in Fds : fdtab'[f] <= nSock
        <4>1. fdtab'[fd] <= nSock
          BY <1>2, <1>11, <2>0
        <4>. QED BY <1>0, <1>11, <4>1 DEF RangeInv
      <3>. QED BY <1>0, <1>1, <2>0, <2>1, <3>1 DEF RangeInv
    <2>. QED BY <1>11, <2>1, <2>2, <2>3, <2>4, <2>5, <2>6, <2>7 DEF StructInv
  <1>12. CASE SqFull(os)
    <2>1. close(fd, actN(c), pool, cxN(c)) /\ submitAccept(os)
      BY <1>4, <1>6, <1>12
    <2>2. /\ m_active' = [actN(c) EXCEPT ![fd] = None]
          /\ fdtab' = [fdtab EXCEPT ![fd] = 0]
          /\ ctx' = [cxN(c) EXCEPT ![c] = [r EXCEPT !.closing = TRUE]]
          /\ m_idlePool' = recycle(pool, c)
      BY <1>5, <1>9, <1>10, <2>1 DEF close
    <2>3. PICK q \in Context : /\ q = [r EXCEPT !.closing = TRUE]
                               /\ q.closing = TRUE /\ q.inflight = 0 /\ q.fd = fd
                               /\ q.connId = nextId /\ q.outQueue = << >>
                               /\ q.sending = FALSE /\ q.readPaused = FALSE
      <3>1. PICK q : q = [r EXCEPT !.closing = TRUE]
        OBVIOUS
      <3>2. /\ q \in Context /\ q.closing = TRUE /\ q.inflight = r.inflight
            /\ q.fd = r.fd /\ q.connId = r.connId /\ q.outQueue = r.outQueue
            /\ q.sending = r.sending /\ q.readPaused = r.readPaused
        BY <3>1, CloseContext
      <3>. QED BY <1>9, <3>1, <3>2
    <2>4. /\ ctx' \in [Contexts -> Context] /\ ctx'[c] = q
          /\ \A d \in Contexts \ {c} : ctx'[d] = ctx[d]
      BY <1>5, <1>10, <2>2, <2>3
    <2>5. /\ m_active' \in [Fds -> Contexts \cup {None}] /\ m_active'[fd] = None
          /\ \A f \in Fds \ {fd} : m_active'[f] = m_active[f]
      BY <1>10, <2>2
    <2>6. /\ fdtab' \in [Fds -> Nat] /\ fdtab'[fd] = 0
          /\ \A f \in Fds \ {fd} : fdtab'[f] = fdtab[f]
      BY <1>0, <2>2 DEF BaseType
    <2>7. m_idlePool' \in Seq(Contexts) /\ PoolInv(m_idlePool', m_allConns', ctx')
      <3>0. m_allConns' = m_allConns \cup {c} /\ m_allConns \subseteq Contexts
        BY <1>0, <1>4 DEF BaseType
      <3>1. \A i \in 1 .. Len(pool) : pool[i] \in Contexts \ {c}
        BY <1>7
      <3>2. \A i \in 1 .. Len(pool) : pool[i] \in m_allConns' /\ ctx'[pool[i]].closing
                                      /\ ctx'[pool[i]].inflight = 0
        BY <1>7, <2>4, <3>0, <3>1
      <3>3. \A d \in m_allConns' \ {c} : ctx'[d].closing /\ ctx'[d].inflight = 0 =>
              \E i \in 1 .. Len(pool) : pool[i] = d
        BY <1>7, <2>4, <3>0
      <3>4. c \in m_allConns' /\ ctx'[c].closing /\ ctx'[c].inflight = 0
        BY <2>3, <2>4, <3>0
      <3>. QED BY ZenonT(30), <1>5, <1>7, <2>2, <3>2, <3>3, <3>4, RecycleOK
    <2>8. ops' = (os \cup {}) \cup {} /\ m_acceptPending'
      BY <1>12, <2>1 DEF submitAccept
    <2>9. PICK new, more : new = {} /\ more = {} /\ ops' = (os \cup new) \cup more
      BY <2>8
    <2>. QED BY <1>8, <1>11, <2>3, <2>4, <2>5, <2>6, <2>7, <2>9
  <1>13. CASE ~SqFull(os)
    <2>1. /\ m_active' = actN(c) /\ m_idlePool' = pool
          /\ ctx' = onSubmit(cxN(c), c) /\ UNCHANGED fdtab
          /\ submitAccept(os \cup {RecvSqe(c, fd)})
      BY <1>4, <1>6, <1>13
    <2>0. PICK one \in Int : one = 1
      OBVIOUS
    <2>2. PICK q \in Context : /\ q = [r EXCEPT !.inflight = one]
                               /\ q.closing = FALSE /\ q.inflight = 1 /\ q.fd = fd
                               /\ q.connId = nextId /\ q.outQueue = << >>
                               /\ q.sending = FALSE /\ q.readPaused = FALSE
      <3>1. /\ [r EXCEPT !.inflight = one] \in Context
            /\ [r EXCEPT !.inflight = one].inflight = one
            /\ [r EXCEPT !.inflight = one].fd = r.fd
            /\ [r EXCEPT !.inflight = one].connId = r.connId
            /\ [r EXCEPT !.inflight = one].closing = r.closing
            /\ [r EXCEPT !.inflight = one].outQueue = r.outQueue
            /\ [r EXCEPT !.inflight = one].sending = r.sending
            /\ [r EXCEPT !.inflight = one].readPaused = r.readPaused
        BY CountContext
      <3>. QED BY <1>9, <2>0, <3>1
    <2>3. ctx' = [cxN(c) EXCEPT ![c] = q]
      <3>1. ctx' = [cxN(c) EXCEPT ![c] = [cxN(c)[c] EXCEPT !.inflight = cxN(c)[c].inflight + 1]]
        BY <2>1 DEF onSubmit
      <3>2. cxN(c)[c].inflight + 1 = one
        BY <1>9, <1>10, <2>0
      <3>. QED BY <1>10, <2>2, <3>1, <3>2
    <2>4. /\ ctx' \in [Contexts -> Context] /\ ctx'[c] = q
          /\ \A d \in Contexts \ {c} : ctx'[d] = ctx[d]
      BY <1>5, <1>10, <2>3
    <2>5. /\ m_active' \in [Fds -> Contexts \cup {None}] /\ m_active'[fd] = c
          /\ \A f \in Fds \ {fd} : m_active'[f] = m_active[f]
      BY <1>10, <2>1
    <2>6. /\ fdtab' \in [Fds -> Nat] /\ fdtab'[fd] = nextId
          /\ \A f \in Fds \ {fd} : fdtab'[f] = fdtab[f]
      BY <1>0, <1>2, <2>1 DEF BaseType
    <2>7. m_idlePool' \in Seq(Contexts) /\ PoolInv(m_idlePool', m_allConns', ctx')
      <3>0. m_allConns' = m_allConns \cup {c} /\ m_allConns \subseteq Contexts
        BY <1>0, <1>4 DEF BaseType
      <3>1. \A i \in 1 .. Len(pool) : pool[i] \in Contexts \ {c}
        BY <1>7
      <3>2. \A i \in 1 .. Len(pool) : pool[i] \in m_allConns' /\ ctx'[pool[i]].closing
                                      /\ ctx'[pool[i]].inflight = 0
        BY <1>7, <2>4, <3>0, <3>1
      <3>3. \A d \in m_allConns' : ctx'[d].closing /\ ctx'[d].inflight = 0 =>
              \E i \in 1 .. Len(pool) : pool[i] = d
        BY ZenonT(30), <1>7, <2>2, <2>4, <3>0
      <3>. QED BY <1>7, <2>1, <3>2, <3>3 DEF PoolInv
    <2>8. PICK new : new = {RecvSqe(c, fd)} /\ new # {}
      OBVIOUS
    <2>9. PICK more : more = IF SqFull(os \cup new) THEN {} ELSE {AcceptSqe}
      OBVIOUS
    <2>10. ops' = (os \cup new) \cup more /\ (m_acceptPending' => more = {})
      BY <1>3, <2>1, <2>8, <2>9 DEF submitAccept
    <2>11. more = {} \/ more = {AcceptSqe}
      BY <2>9
    <2>12. StructInv'
      BY <1>11, <2>2, <2>4, <2>5, <2>6, <2>7, <2>8, <2>10, <2>11
    <2>. QED BY <1>8, <2>12
  <1>. QED BY <1>12, <1>13

-----------------------------------------------------------------------------
(* The provider starts with the accept and the eventfd read queued. *)
LEMMA InitOK ==
    ASSUME Init
    PROVE  IInv
  <1>. USE NoneAssumption, SizeAssumption
  <1>1. /\ ops = {AcceptSqe, NotifySqe} /\ fdtab = [fd \in Fds |-> 0] /\ nSock = 0
        /\ m_active = [fd \in Fds |-> None] /\ m_idlePool = << >> /\ m_allConns = {}
        /\ ctx = [c \in Contexts |-> ResetContext(None, 0)] /\ nextId = 1
    BY DEF Init, KernelInit, ConnInit
  <1>2. /\ ResetContext(None, 0) \in Context /\ ResetContext(None, 0).inflight = 0
    BY DEF ResetContext, Context
  <1>3. RestType
    <2>1. /\ worker \in [Workers -> WorkerStates] /\ dispatched \in [Socks -> Nat]
          /\ rcvd \in [Socks -> Nat] /\ freeBufs \in Int
      BY DEF Init, KernelInit, Idle, WorkerStates
    <2>2. m_taskQueue \in Seq(Requests) /\ m_readyCoros \in Seq(Coros) /\ ready \in Seq(Coros)
      BY DEF Init
    <2>. QED BY <2>1, <2>2 DEF RestType, Init, KernelInit
  <1>4. BaseType /\ ctx \in [Contexts -> Context] /\ ops \subseteq Ops /\ RangeInv
    <2>1. ctx \in [Contexts -> Context] /\ ops \subseteq Ops
      BY <1>1, <1>2, PermSqes
    <2>2. BaseType
      BY <1>1 DEF BaseType
    <2>3. RangeInv
      BY <1>1, PermSqes DEF RangeInv
    <2>. QED BY <2>1, <2>2, <2>3
  <1>5. \A c \in Contexts : /\ ~Has(ops, c, "RECV") /\ ~Has(ops, c, "SEND")
                            /\ ctx[c].inflight = 0
    BY <1>1, <1>2, PermSqes DEF Has
  <1>6. OpsInv(ctx, ops)
    <2>1. \A x \in ops : x.op \in {"ACCEPT", "NOTIFY"} /\ x.ctx = None
      BY <1>1, PermSqes
    <2>2. \A x, y \in ops : x.op = y.op => x = y
      BY <1>1, PermSqes
    <2>3. \A c \in Contexts :
            ctx[c].inflight = (IF Has(ops, c, "RECV") THEN 1 ELSE 0)
                            + (IF Has(ops, c, "SEND") THEN 1 ELSE 0)
      BY <1>5
    <2>. QED BY <2>1, <2>2, <2>3 DEF OpsInv
  <1>7. LifeInv(m_active, m_allConns, ctx, ops)
    BY <1>1, <1>5 DEF LifeInv
  <1>8. PoolInv(m_idlePool, m_allConns, ctx) /\ FlagInv(m_allConns, ctx, ops)
    BY <1>1 DEF PoolInv, FlagInv
  <1>9. SockInv(m_active, ctx, ops, fdtab)
    BY <1>1, PermSqes DEF SockInv
  <1>10. PermInv(ops)
    BY DEF PermInv, Init
  <1>. QED BY <1>3, <1>4, <1>6, <1>7, <1>8, <1>9, <1>10, Halves DEF StructInv

(* Every step of the reactor, the kernel and the workers keeps the invariant. *)
LEMMA NextOK ==
    ASSUME IInv, [Next]_vars
    PROVE  StructInv' /\ RestType'
  <1>0. StructInv /\ RestType
    BY Halves
  <1>1. ASSUME NEW o \in ops, ReactorOn(o) PROVE StructInv' /\ RestType'
    <2>1. CASE SubmitOne(o)
      BY <2>1, SubmitOneOK
    <2>2. CASE ReapLast(o)
      BY <2>2, ReapLastOK
    <2>3. CASE HandleAcceptError(o)
      BY <2>3, HandleAcceptErrorOK
    <2>4. CASE HandleAccept(o)
      BY <2>4, HandleAcceptOK
    <2>5. CASE HandleRecv(o)
      BY <2>5, HandleRecvOK, HandleRecvType
    <2>6. CASE HandleSend(o)
      <3>1. RestType'
        BY <1>0, <2>6 DEF HandleSend, provVars, RestType
      <3>. QED BY <2>6, <3>1, HandleSendOK
    <2>7. CASE HandleNotify(o)
      BY <2>7, HandleNotifyOK
    <2>. QED BY <1>1, <2>1, <2>2, <2>3, <2>4, <2>5, <2>6, <2>7 DEF ReactorOn
  <1>2. CASE Reactor
    BY <1>1, <1>2, WaitReturnsOK, PeekEmptyOK, ResumeCoroOK, NotifyDoneOK DEF Reactor
  <1>3. CASE \E w \in Workers : Worker(w)
    BY <1>3, WorkerOK
  <1>4. CASE Kernel
    BY <1>4, KAcceptOK, KernelOK DEF Kernel, KernelOn
  <1>5. CASE UNCHANGED vars
    <2>1. UNCHANGED <<kernelVars, connVars, provVars>>
      BY <1>5 DEF vars
    <2>2. StructInv'
      BY <1>0, <2>1, StructStutter DEF kernelVars, provVars
    <2>3. RestType'
      BY <1>0, <2>1 DEF kernelVars, provVars, RestType
    <2>. QED BY <2>2, <2>3
  <1>. QED BY <1>2, <1>3, <1>4, <1>5 DEF Next

(* IInv is an invariant of the provider: every handler, kernel completion *)
(* and worker step of uringrpcprovider.cc keeps it.                       *)
THEOREM Invariance == Spec => []IInv
  <1>1. Init => IInv
    BY InitOK
  <1>2. IInv /\ [Next]_vars => IInv'
    <2>1. ASSUME IInv, [Next]_vars PROVE IInv'
      <3>1. StructInv' /\ RestType'
        BY <2>1, NextOK
      <3>. QED BY <3>1 DEF IInv, StructInv, RestType, BaseType, TypeOK, KernelTypeOK, ConnTypeOK
    <2>. QED BY <2>1
  <1>. QED BY <1>1, <1>2, PTL DEF Spec

(* The variables keep their C++ types, for any number of connections.     *)
THEOREM TypeCorrect == Spec => []TypeOK
  <1>1. IInv => TypeOK
    BY DEF IInv
  <1>. QED BY <1>1, Invariance, PTL

(* ConnectionContext.inflight is exact: onComplete and close recycle a    *)
(* context neither too early nor never.                                   *)
THEOREM InflightIsExact == Spec => []InflightExact
  <1>1. IInv => InflightExact
    <2>1. ASSUME IInv PROVE InflightExact
      <3>1. \A c \in Contexts : /\ OpsOf(c, "RECV") = {} <=> ~Has(ops, c, "RECV")
                                /\ OpsOf(c, "SEND") = {} <=> ~Has(ops, c, "SEND")
        BY DEF OpsOf, Has
      <3>2. OpsInv(ctx, ops)
        BY <2>1 DEF IInv
      <3>. QED BY <3>1, <3>2 DEF InflightExact, OpsInv
    <2>. QED BY <2>1
  <1>. QED BY <1>1, Invariance, PTL

(* A CQE of a closing context is its last one, so that handleSend, which  *)
(* does not test closing, never runs on a closed connection.              *)
THEOREM LiveHandlers == Spec => []HandlersOnLiveContexts
  <1>1. IInv => HandlersOnLiveContexts
    <2>1. ASSUME IInv, NEW o \in ops, o.ctx # None, ctx[o.ctx].closing
          PROVE  ctx[o.ctx].inflight = 1
      <3>0. o.op \in OpTypes
        BY <2>1 DEF IInv, TypeOK, KernelTypeOK, Ops
      <3>1. o.op \in {"RECV", "SEND"} /\ o.ctx \in Contexts
        BY <2>1, <3>0 DEF IInv, OpsInv, OpTypes
      <3>2. Has(ops, o.ctx, "RECV") \/ Has(ops, o.ctx, "SEND")
        BY <3>1 DEF Has
      <3>3. o.ctx \in m_allConns
        BY <2>1, <3>1, <3>2 DEF IInv, LifeInv
      <3>4. ~(Has(ops, o.ctx, "RECV") /\ Has(ops, o.ctx, "SEND"))
        BY <2>1, <3>3 DEF IInv, LifeInv
      <3>5. ctx[o.ctx].inflight = (IF Has(ops, o.ctx, "RECV") THEN 1 ELSE 0)
                                + (IF Has(ops, o.ctx, "SEND") THEN 1 ELSE 0)
        BY <2>1, <3>1 DEF IInv, OpsInv
      <3>. QED BY <3>2, <3>4, <3>5
    <2>. QED BY <2>1 DEF HandlersOnLiveContexts
  <1>. QED BY <1>1, Invariance, PTL

(* ConnectionManager: every context is active, closing or pooled, never   *)
(* two of these, and never pooled twice.                                  *)
THEOREM Partition == Spec => []ContextPartition
  <1>1. IInv => ContextPartition
    <2>1. ASSUME IInv PROVE ContextPartition
      <3>1. /\ LifeInv(m_active, m_allConns, ctx, ops) /\ PoolInv(m_idlePool, m_allConns, ctx)
            /\ m_allConns \subseteq Contexts /\ m_idlePool \in Seq(Contexts)
            /\ m_active \in [Fds -> Contexts \cup {None}]
        BY <2>1 DEF IInv, TypeOK, ConnTypeOK
      <3>2. \A c \in m_allConns : c \in Active <=> \E fd \in Fds : m_active[fd] = c
        BY <3>1 DEF Active
      <3>3. \A c \in m_allConns : ~ctx[c].closing <=> c \in Active
        BY <3>1, <3>2, NoneAssumption DEF LifeInv
      <3>4. DOMAIN m_idlePool = 1 .. Len(m_idlePool)
        BY <3>1
      <3>5. \A c : c \in Range(m_idlePool) <=> \E i \in 1 .. Len(m_idlePool) : m_idlePool[i] = c
        BY <3>4 DEF Range
      <3>6. /\ \A c \in m_allConns : (ctx[c].closing /\ ctx[c].inflight = 0)
                                        <=> c \in Range(m_idlePool)
            /\ Range(m_idlePool) \subseteq m_allConns
        BY <3>1, <3>5 DEF PoolInv
      <3>. QED BY <3>1, <3>3, <3>4, <3>6 DEF ContextPartition, LifeInv, PoolInv
    <2>. QED BY <2>1
  <1>. QED BY <1>1, Invariance, PTL

(* No descriptor leaks and none is closed twice: close() releases the     *)
(* socket its connection was accepted with.                               *)
THEOREM DescriptorOwnership == Spec => []DescriptorsOwned
  <1>1. IInv => DescriptorsOwned
    BY DEF IInv, SockInv, DescriptorsOwned, Accepted
  <1>. QED BY <1>1, Invariance, PTL

(* The kernel works for an open connection on that connection's socket.   *)
THEOREM OwnSocket == Spec => []LiveOpsOnOwnSocket
  <1>1. IInv => LiveOpsOnOwnSocket
    <2>1. ASSUME IInv, NEW o \in ops, o.ctx # None, o.sock # 0, ~ctx[o.ctx].closing
          PROVE  o.sock = ctx[o.ctx].connId
      <3>1. o.op \in OpTypes
        BY <2>1 DEF IInv, TypeOK, KernelTypeOK, Ops
      <3>2. o.op \in {"RECV", "SEND"}
        BY <2>1, <3>1 DEF IInv, OpsInv, OpTypes
      <3>. QED BY <2>1, <3>2 DEF IInv, SockInv
    <2>. QED BY <2>1 DEF LiveOpsOnOwnSocket
  <1>. QED BY <1>1, Invariance, PTL
=============================================================================
