--------------------------- MODULE UringProviderInv ---------------------------
(***************************************************************************)
(* The inductive invariant behind the structural properties of the         *)
(* io_uring provider.  Its parts are operators on the values a handler has *)
(* computed so far (act, pool, all: the manager; cx: the contexts; os: the *)
(* operations; ft: the descriptor table), so that they can be stated in    *)
(* the middle of a handler as well as between two steps.                   *)
(***************************************************************************)
EXTENDS UringProviderProps

Has(os, c, op) == \E o \in os : o.ctx = c /\ o.op = op

(* Operations: at most one of each kind per context, and counted exactly. *)
OpsInv(cx, os) ==
    /\ \A o1, o2 \in os : o1.ctx = o2.ctx /\ o1.op = o2.op => o1 = o2
    /\ \A o \in os : o.op \in {"RECV", "SEND"} =>
         o.ctx \in Contexts /\ o.fd \in Fds /\ o.fd = cx[o.ctx].fd
    /\ \A o \in os : o.op \in {"ACCEPT", "NOTIFY"} => o.ctx = None
    /\ \A o \in os : o.op = "SEND" => cx[o.ctx].outQueue # << >>
    /\ \A c \in Contexts :
         cx[c].inflight = (IF Has(os, c, "RECV") THEN 1 ELSE 0)
                        + (IF Has(os, c, "SEND") THEN 1 ELSE 0)

(* Life cycle: live contexts are the active ones, drained closing ones are *)
(* pooled, and closing ones never wait for two operations.                 *)
LifeInv(act, all, cx, os) ==
    /\ \A fd \in Fds : act[fd] # None =>
         act[fd] \in all /\ cx[act[fd]].fd = fd /\ ~cx[act[fd]].closing
    /\ \A c \in all : ~cx[c].closing => cx[c].fd \in Fds /\ act[cx[c].fd] = c
    /\ \A c \in all : cx[c].closing => ~(Has(os, c, "RECV") /\ Has(os, c, "SEND"))
    /\ \A c \in Contexts \ all : ~Has(os, c, "RECV") /\ ~Has(os, c, "SEND")

PoolInv(pool, all, cx) ==
    /\ \A i \in 1 .. Len(pool) :
         pool[i] \in all /\ cx[pool[i]].closing /\ cx[pool[i]].inflight = 0
    /\ \A i, j \in 1 .. Len(pool) : pool[i] = pool[j] => i = j
    /\ \A c \in all : cx[c].closing /\ cx[c].inflight = 0 =>
         \E i \in 1 .. Len(pool) : pool[i] = c

(* Flags of live contexts: what sending and readPaused say of the ring. *)
FlagInv(all, cx, os) ==
    \A c \in all : ~cx[c].closing =>
        /\ cx[c].sending <=> Has(os, c, "SEND")
        /\ cx[c].readPaused => ~Has(os, c, "RECV")

Accepted(o) == o.op = "ACCEPT" /\ o.stage = "cq" /\ o.res # Failed

(* Sockets: a live connection owns the socket whose number is its connId, *)
(* and so do the operations the kernel holds for it.                      *)
SockInv(act, cx, os, ft) ==
    /\ \A fd \in Fds : act[fd] # None =>
         ft[fd] = cx[act[fd]].connId /\ cx[act[fd]].connId \in 1 .. nextId - 1
    /\ \A fd \in Fds : ft[fd] # 0 =>
         act[fd] # None \/ \E o \in os : Accepted(o) /\ o.fd = fd
    /\ \A o \in os : Accepted(o) =>
         o.fd \in Fds /\ act[o.fd] = None /\ ft[o.fd] = nextId /\ nextId = nSock
    /\ (\A o \in os : ~Accepted(o)) => nextId = nSock + 1
    /\ \A o \in os : o.op \in {"RECV", "SEND"} /\ o.stage = "kernel" => o.sock # 0
    /\ \A o \in os : o.op \in {"RECV", "SEND"} /\ o.sock # 0 /\ ~cx[o.ctx].closing
                        => o.sock = cx[o.ctx].connId

(* The two operations without a context. *)
PermInv(os) ==
    /\ m_acceptPending => ~Has(os, None, "ACCEPT")
    /\ m_notifyPending \/ pc = "notify" => ~Has(os, None, "NOTIFY")
    /\ pc = "notify" => ~m_notifyPending

RangeInv ==
    /\ nextId >= 1 /\ nSock <= MaxConns
    /\ \A fd \in Fds : fdtab[fd] <= nSock
    /\ \A o \in ops : o.sock <= nSock

(* The inductive invariant of the provider. *)
IInv ==
    /\ TypeOK
    /\ OpsInv(ctx, ops)
    /\ LifeInv(m_active, m_allConns, ctx, ops)
    /\ PoolInv(m_idlePool, m_allConns, ctx)
    /\ FlagInv(m_allConns, ctx, ops)
    /\ SockInv(m_active, ctx, ops, fdtab)
    /\ PermInv(ops)
    /\ RangeInv

-----------------------------------------------------------------------------
(***************************************************************************)
(* The flow of requests and responses, on top of IInv.                     *)
(***************************************************************************)

(* The two permanent operations are armed unless they are remembered. *)
ArmedInv ==
    /\ m_acceptPending \/ Has(ops, None, "ACCEPT")
    /\ m_notifyPending \/ pc = "notify" \/ Has(ops, None, "NOTIFY")

(* Completions that hold a provided buffer. *)
Filled(os) == {o \in os : o.op = "RECV" /\ o.stage = "cq" /\ o.res > 0}

BufferInv ==
    /\ IsFiniteSet(Filled(ops))
    /\ freeBufs + Cardinality(Filled(ops)) = NBufs

(* Requests that one recv can complete. *)
Burst == (FrameUnits - 1 + ChunkUnits) \div FrameUnits

(***************************************************************************)
(* What the fields of a context say of each other and of its operations:   *)
(* the SEND in flight is of the head of the queue, and a live connection   *)
(* sends while it has something to send, keeps no whole request in its     *)
(* input, and has paused reading exactly when it is at the threshold.      *)
(***************************************************************************)
FlowOf(c, cx, os) ==
    /\ \A o \in os : o.ctx = c /\ o.op = "SEND" =>
         o.frame = Head(cx[c].outQueue) /\ o.off = cx[c].written
    /\ ~cx[c].closing =>
         /\ ~cx[c].sending => cx[c].outQueue = << >>
         /\ cx[c].input < FrameUnits
         /\ cx[c].readPaused \/ Has(os, c, "RECV")
         /\ cx[c].readPaused <=> cx[c].pendingReqs >= kMaxInflightPerConn
         /\ cx[c].pendingReqs <= kMaxInflightPerConn - 1 + Burst
         /\ \A i \in 1 .. Len(cx[c].outQueue) : cx[c].outQueue[i].connId = cx[c].connId

ConnFlow ==
    /\ \A o \in ops : o.op = "RECV" => o.res <= ChunkUnits
    /\ \A c \in Contexts : ctx[c].connId < nextId
    /\ \A c \in m_allConns : FlowOf(c, ctx, ops)

FlowInv == ArmedInv /\ BufferInv /\ NoLostWakeup /\ ConnFlow

-----------------------------------------------------------------------------
(***************************************************************************)
(* Where the requests are, on top of FlowInv.                              *)
(***************************************************************************)
InQueue == Range(m_taskQueue)
InCall  == {worker[w].req : w \in {v \in Workers : worker[v].st = "call"}}
Waiting == {e.req : e \in Range(m_readyCoros)}
InBatch == {e.req : e \in Range(ready)}

(* From tryHandleRequest until its coroutine is resumed. *)
OnTheWay == InQueue \cup InCall \cup Waiting \cup InBatch

Distinct(s) == \A i, j \in 1 .. Len(s) : s[i].req = s[j].req => i = j

(* A request on its way is in one place, once. *)
PlaceInv ==
    /\ \A i, j \in 1 .. Len(m_taskQueue) : m_taskQueue[i] = m_taskQueue[j] => i = j
    /\ \A v, w \in Workers : worker[v].st = "call" /\ worker[w] = worker[v] => v = w
    /\ Distinct(m_readyCoros) /\ Distinct(ready)
    /\ InQueue \cap InCall = {} /\ InQueue \cap Waiting = {} /\ InQueue \cap InBatch = {}
    /\ InCall \cap Waiting = {} /\ InCall \cap InBatch = {} /\ Waiting \cap InBatch = {}

(* handleNotify's batch is empty outside of it; no frame is empty for nothing. *)
BatchInv ==
    /\ pc # "notify" => ready = << >>
    /\ ~MaySerializeFail =>
         /\ \A i \in 1 .. Len(m_readyCoros) : ~m_readyCoros[i].frameEmpty
         /\ \A i \in 1 .. Len(ready) : ~ready[i].frameEmpty

Alive == {c \in m_allConns : ~ctx[c].closing}

(* Requests are of connections accepted so far and numbered as dispatched;  *)
(* a connId names one connection and its requests the descriptor it has;    *)
(* and what a connection has queued is not on its way, and queued once.     *)
AskInv ==
    /\ \A r \in OnTheWay : r.connId \in 1 .. nextId - 1 /\ r.rid <= dispatched[r.connId]
    /\ \A c, d \in Alive : ctx[c].connId = ctx[d].connId => c = d
    /\ \A c \in Alive : \A r \in OnTheWay :
         r.connId = ctx[c].connId => r.fd = ctx[c].fd
    /\ \A c \in Alive : \A i \in 1 .. Len(ctx[c].outQueue) :
         /\ ctx[c].outQueue[i] \notin OnTheWay
         /\ ctx[c].outQueue[i].rid <= dispatched[ctx[c].connId]
         /\ \A j \in 1 .. Len(ctx[c].outQueue) :
              ctx[c].outQueue[i] = ctx[c].outQueue[j] => i = j

(* What connection c asked for and was not completely sent. *)
Asked(c) == {r \in OnTheWay : r.connId = ctx[c].connId} \cup Range(ctx[c].outQueue)

CountInv ==
    ~MaySerializeFail =>
        \A c \in Alive : IsFiniteSet(Asked(c)) /\ ctx[c].pendingReqs = Cardinality(Asked(c))

RequestInv == PlaceInv /\ BatchInv /\ AskInv /\ CountInv
=============================================================================
