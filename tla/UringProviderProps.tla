-------------------------- MODULE UringProviderProps --------------------------
(***************************************************************************)
(* The correctness properties of the io_uring provider, in terms of the    *)
(* state of UringProvider.                                                 *)
(***************************************************************************)
EXTENDS UringProvider, Functions

Active == {c \in Contexts : \E fd \in Fds : m_active[fd] = c}

OpsOf(c, op) == {o \in ops : o.ctx = c /\ o.op = op}

(* Requests dispatched but not answered, by where they are. *)
InPool == Range(m_taskQueue) \cup {worker[w].req : w \in {v \in Workers : worker[v].st = "call"}}
InReady == {e.req : e \in Range(m_readyCoros) \cup Range(ready)}
Outstanding == InPool \cup InReady \cup UNION {Range(ctx[c].outQueue) : c \in Active}

-----------------------------------------------------------------------------
(* Every variable holds a value of its C++ type. *)
TypeOK ==
    /\ KernelTypeOK
    /\ ConnTypeOK
    /\ pc \in {"submit", "reap", "notify"}
    /\ m_acceptPending \in BOOLEAN /\ m_notifyPending \in BOOLEAN
    /\ dispatched \in [Socks -> Nat]
    /\ m_taskQueue \in Seq(Requests)
    /\ worker \in [Workers -> WorkerStates]
    /\ m_readyCoros \in Seq(Coros) /\ ready \in Seq(Coros)

(***************************************************************************)
(* ConnectionContext.inflight counts exactly the operations of the context *)
(* that have not come back, at most one RECV and one SEND.  close and      *)
(* onComplete decide with it when a context may be reused: one too few     *)
(* recycles a context the kernel still points to, one too many leaks it.   *)
(***************************************************************************)
InflightExact ==
    /\ \A o1, o2 \in ops : o1.ctx = o2.ctx /\ o1.op = o2.op => o1 = o2
    /\ \A c \in Contexts :
         ctx[c].inflight = (IF OpsOf(c, "RECV") = {} THEN 0 ELSE 1)
                         + (IF OpsOf(c, "SEND") = {} THEN 0 ELSE 1)

(***************************************************************************)
(* A CQE of a closing context is always its last one, so onComplete        *)
(* recycles it and no handler runs.  handleSend has no test of closing and *)
(* would close(fd) whatever connection then has that number, or read       *)
(* front() of an empty outQueue.                                           *)
(***************************************************************************)
HandlersOnLiveContexts ==
    \A o \in ops : o.ctx # None /\ ctx[o.ctx].closing => ctx[o.ctx].inflight = 1

(***************************************************************************)
(* Every allocated context is in exactly one place: active under its own   *)
(* descriptor, closing with an operation to wait for, or once in the idle  *)
(* pool with none.  A second push would hand one context to two            *)
(* connections.                                                            *)
(***************************************************************************)
ContextPartition ==
    /\ \A fd \in Fds : m_active[fd] # None =>
         /\ m_active[fd] \in m_allConns
         /\ ctx[m_active[fd]].fd = fd /\ ~ctx[m_active[fd]].closing
    /\ \A i, j \in DOMAIN m_idlePool : m_idlePool[i] = m_idlePool[j] => i = j
    /\ \A c \in m_allConns : ~ctx[c].closing <=> c \in Active
    /\ \A c \in m_allConns : (ctx[c].closing /\ ctx[c].inflight = 0)
                                <=> c \in Range(m_idlePool)
    /\ Range(m_idlePool) \subseteq m_allConns

(***************************************************************************)
(* The descriptor table and m_active agree: an active connection owns the  *)
(* socket it was accepted with, and every open socket belongs to an active *)
(* connection or to an accept CQE not yet handled (no descriptor leaks).   *)
(***************************************************************************)
DescriptorsOwned ==
    \A fd \in Fds :
        /\ m_active[fd] # None => fdtab[fd] = ctx[m_active[fd]].connId
        /\ fdtab[fd] # 0 =>
             \/ m_active[fd] # None
             \/ \E o \in ops : o.op = "ACCEPT" /\ o.stage = "cq" /\ o.fd = fd

(***************************************************************************)
(* The bytes of a SEND in flight stay put: it reads the head of its own    *)
(* connection's outQueue, behind the bytes already written, and only one   *)
(* SEND is in flight per connection, exactly when sending says so.         *)
(***************************************************************************)
SendBufferStable ==
    /\ \A o \in ops : o.op = "SEND" =>
         /\ ctx[o.ctx].outQueue # << >>
         /\ o.frame = Head(ctx[o.ctx].outQueue)
         /\ o.off = ctx[o.ctx].written
    /\ \A c \in Active : ctx[c].sending <=> OpsOf(c, "SEND") # {}
    /\ \A c \in Active : ~ctx[c].sending => ctx[c].outQueue = << >>

(***************************************************************************)
(* deliverResponse's test of connId: a response is queued only on the      *)
(* connection that asked, also when the descriptor number was reused while *)
(* the method ran, and no request is answered twice.                       *)
(***************************************************************************)
ResponsesToAsker ==
    \A c \in Active :
        /\ \A r \in Range(ctx[c].outQueue) : r.connId = ctx[c].connId
        /\ \A i, j \in DOMAIN ctx[c].outQueue :
              ctx[c].outQueue[i] = ctx[c].outQueue[j] => i = j

(***************************************************************************)
(* pendingReqs is what its comment says: the requests handed to the        *)
(* workers whose response is not completely sent.                          *)
(***************************************************************************)
PendingExact ==
    \A c \in Active :
        ctx[c].pendingReqs =
            Cardinality({r \in Outstanding : r.connId = ctx[c].connId})

(***************************************************************************)
(* The back-pressure bound the code really keeps: the threshold minus one, *)
(* plus the requests one recv can complete, because handleRecv parses the  *)
(* whole chunk before it looks at pendingReqs.                             *)
(***************************************************************************)
PendingBounded ==
    \A c \in Active :
        ctx[c].pendingReqs <=
            kMaxInflightPerConn - 1 + ((FrameUnits - 1 + ChunkUnits) \div FrameUnits)

(***************************************************************************)
(* The threshold as the constant's comment gives it: the largest number of *)
(* requests in flight on one connection.                                   *)
(***************************************************************************)
InflightWithinLimit ==
    \A c \in Active : ctx[c].pendingReqs <= kMaxInflightPerConn

(***************************************************************************)
(* No connection goes deaf: an active connection has a RECV in flight, or  *)
(* it is paused and a response that will un-pause it is still on its way.  *)
(***************************************************************************)
ConnectionsNotDeaf ==
    \A c \in Active :
        \/ OpsOf(c, "RECV") # {} /\ ~ctx[c].readPaused
        \/ /\ ctx[c].readPaused
           /\ Cardinality({r \in Outstanding : r.connId = ctx[c].connId})
                 >= kMaxInflightPerConn

(***************************************************************************)
(* Every provided buffer is with the kernel or in an unseen RECV CQE, also *)
(* when the connection is closing.                                         *)
(***************************************************************************)
BuffersConserved ==
    freeBufs + Cardinality({o \in ops : o.op = "RECV" /\ o.stage = "cq" /\ o.res > 0})
        = NBufs

(***************************************************************************)
(* No lost wake-up: while a coroutine waits in m_readyCoros, the eventfd   *)
(* is signalled, its CQE is unseen, or a worker is about to write it.      *)
(***************************************************************************)
NoLostWakeup ==
    m_readyCoros # << >> =>
        \/ eventfd
        \/ \E o \in ops : o.op = "NOTIFY" /\ o.stage = "cq"
        \/ \E w \in Workers : worker[w].st = "wake"

(***************************************************************************)
(* There is always exactly one accept and one eventfd read: armed, or      *)
(* deferred because the SQ was full, or (the read) being handled.          *)
(***************************************************************************)
PermanentOps ==
    /\ Cardinality({o \in ops : o.op = "ACCEPT"}) = (IF m_acceptPending THEN 0 ELSE 1)
    /\ Cardinality({o \in ops : o.op = "NOTIFY"}) =
          (IF m_notifyPending \/ pc = "notify" THEN 0 ELSE 1)

(***************************************************************************)
(* An operation of a connection that is still open acts on that            *)
(* connection's own socket.                                                *)
(***************************************************************************)
LiveOpsOnOwnSocket ==
    \A o \in ops :
        o.ctx # None /\ o.sock # 0 /\ ~ctx[o.ctx].closing => o.sock = ctx[o.ctx].connId

(***************************************************************************)
(* The README says connId keeps descriptor reuse from crossing             *)
(* connections.  Then every operation acts on the socket of the connection *)
(* it was prepared for, also after that connection was closed.             *)
(***************************************************************************)
OpsOnOwnSocket ==
    \A o \in ops : o.ctx # None /\ o.sock # 0 => o.sock = ctx[o.ctx].connId

(***************************************************************************)
(* No step touches a recycled context before acquire takes it again: no    *)
(* handler keeps using its pointer after close or onComplete recycled it.  *)
(* (acquire gives a new connId; when its recv cannot be armed, handleAccept *)
(* closes the connection again in the same step.)                          *)
(***************************************************************************)
RecycledUntouched ==
    [][\A c \in Contexts :
          c \in Range(m_idlePool) /\ c \in Range(m_idlePool')
             => ctx'[c] = ctx[c] \/ ctx'[c].connId # ctx[c].connId]_vars

-----------------------------------------------------------------------------
(* The request numbered n of an open connection id is not yet answered. *)
Unanswered(id, n) ==
    /\ \E c \in Active : ctx[c].connId = id
    /\ \E r \in Outstanding : r.connId = id /\ r.rid = n

(***************************************************************************)
(* Every dispatched request is answered, or its connection is closed: the  *)
(* eventfd brings the coroutine back to the reactor and the chain of sends *)
(* reaches its frame.                                                      *)
(***************************************************************************)
RequestsSettle ==
    \A id \in Socks, n \in 1 .. MaxUnits : Unanswered(id, n) ~> ~Unanswered(id, n)
=============================================================================
