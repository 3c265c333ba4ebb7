---------------------------- MODULE UringProvider ----------------------------
(***************************************************************************)
(* UringRpcProvider (src/src/uringrpcprovider.cc): one reactor thread that *)
(* owns the ring and every connection, and a pool of worker threads that   *)
(* run the service methods.                                                *)
(*                                                                         *)
(* The reactor alternates between                                          *)
(*   "submit"  inside io_uring_submit_and_wait(1): SQEs go to the kernel   *)
(*             one by one, then the thread sleeps until there is a CQE;    *)
(*   "reap"    the peek loop: each step takes one CQE and runs its handler *)
(*             to the end;                                                 *)
(*   "notify"  inside handleNotify: each step resumes one coroutine.       *)
(* Workers and kernel interleave with all of these.  A handler touches     *)
(* only state of the reactor thread, so that running it in one step loses  *)
(* nothing; the pushes to m_taskQueue commute with what the workers do.    *)
(*                                                                         *)
(* A request is FrameUnits units of the stream.  Its contents are open:    *)
(* as soon as one unit is buffered the code may find the header too long,  *)
(* unparsable, or naming an unknown service, and close the connection.     *)
(***************************************************************************)
EXTENDS ConnectionManager

CONSTANTS
    Workers,                \* threads of the pool (kThreads = 4)
    FrameUnits,             \* units of one request
    kMaxInflightPerConn,    \* back-pressure threshold (256 in the code)
    MaySerializeFail        \* may SerializeToString return false?

ASSUME ProviderAssumption ==
    /\ FrameUnits \in Nat \ {0}
    /\ kMaxInflightPerConn \in Nat \ {0}
    /\ MaySerializeFail \in BOOLEAN

VARIABLES
    pc,               \* where the reactor thread is
    m_acceptPending,  \* an accept could not be armed: the SQ was full
    m_notifyPending,  \* the same for the read of the eventfd
    dispatched,       \* dispatched[id] = requests handed to the pool by id
    m_taskQueue,      \* requests waiting for a worker
    worker,           \* what each worker thread is doing
    m_readyCoros,     \* coroutines to resume on the reactor
    ready             \* handleNotify's local copy of m_readyCoros

provVars == <<pc, m_acceptPending, m_notifyPending, dispatched,
              m_taskQueue, worker, m_readyCoros, ready>>

vars == <<kernelVars, connVars, provVars>>

(* A coroutine parked at co_await: frameEmpty iff serialization failed. *)
Coros == [req : Requests, frameEmpty : BOOLEAN]

WorkerStates == [st : {"idle"}, req : {None}] \cup [st : {"call", "wake"}, req : Requests]

Idle == [st |-> "idle", req |-> None]

AcceptSqe == Sqe("ACCEPT", None, None, None, 0)
NotifySqe == Sqe("NOTIFY", None, None, None, 0)
RecvSqe(c, fd) == Sqe("RECV", c, fd, None, 0)

(* The SQE points into the head of outQueue, behind the bytes written. *)
SendSqe(cx, c, fd) == Sqe("SEND", c, fd, Head(cx[c].outQueue), cx[c].written)

(* Run: both permanent operations are prepared before the loop starts. *)
Init ==
    /\ KernelInit
    /\ ConnInit
    /\ ops = {AcceptSqe, NotifySqe}
    /\ pc = "submit"
    /\ m_acceptPending = FALSE
    /\ m_notifyPending = FALSE
    /\ dispatched = [id \in Socks |-> 0]
    /\ m_taskQueue = << >>
    /\ worker = [w \in Workers |-> Idle]
    /\ m_readyCoros = << >>
    /\ ready = << >>

-----------------------------------------------------------------------------
(***************************************************************************)
(* submit* on the values computed so far: os are the operations, cx the    *)
(* contexts.  Every caller closes the connection when they return false.   *)
(***************************************************************************)
submitRecvOrClose(fd, cx, os) ==
    IF find(fd) = None \/ SqFull(os)
    THEN close(fd, m_active, m_idlePool, cx) /\ ops' = os
    ELSE /\ ctx' = onSubmit(cx, find(fd))
         /\ ops' = os \cup {RecvSqe(find(fd), fd)}
         /\ UNCHANGED <<m_active, m_idlePool, fdtab>>

submitSendOrClose(fd, cx, os) ==
    LET c == find(fd) IN
    IF c # None /\ cx[c].outQueue = << >>
    THEN /\ ctx' = [cx EXCEPT ![c].sending = FALSE]
         /\ ops' = os
         /\ UNCHANGED <<m_active, m_idlePool, fdtab>>
    ELSE IF c = None \/ SqFull(os)
    THEN close(fd, m_active, m_idlePool, cx) /\ ops' = os
    ELSE /\ ctx' = [onSubmit(cx, c) EXCEPT ![c].sending = TRUE]
         /\ ops' = os \cup {SendSqe(cx, c, fd)}
         /\ UNCHANGED <<m_active, m_idlePool, fdtab>>

(* Mutant: a full SQ is not remembered. *)
submitAccept_Forget(os) ==
    /\ ops' = IF SqFull(os) THEN os ELSE os \cup {AcceptSqe}
    /\ UNCHANGED m_acceptPending

submitAccept(os) ==
    /\ ops' = IF SqFull(os) THEN os ELSE os \cup {AcceptSqe}
    /\ m_acceptPending' = (m_acceptPending \/ SqFull(os))

submitNotifyRead(os) ==
    /\ ops' = IF SqFull(os) THEN os ELSE os \cup {NotifySqe}
    /\ m_notifyPending' = (m_notifyPending \/ SqFull(os))

-----------------------------------------------------------------------------
(* eventLoop *)

SubmitOne(o) ==
    /\ pc = "submit" /\ o.stage = "sq"
    /\ Becomes(o, Resolve(o))
    /\ UNCHANGED <<fdtab, nSock, rcvd, freeBufs, eventfd, connVars, provVars>>

(***************************************************************************)
(* submit_and_wait(1) returns: all SQEs are submitted and there is a CQE.  *)
(* Only now are a deferred accept and a deferred eventfd read armed.       *)
(***************************************************************************)
WaitReturns ==
    /\ pc = "submit"
    /\ \A o \in ops : o.stage # "sq"
    /\ \E o \in ops : o.stage = "cq"
    /\ LET retryAccept == m_acceptPending /\ ~SqFull(ops)
           os == IF retryAccept THEN ops \cup {AcceptSqe} ELSE ops
           retryNotify == m_notifyPending /\ ~SqFull(os)
       IN /\ ops' = IF retryNotify THEN os \cup {NotifySqe} ELSE os
          /\ m_acceptPending' = (m_acceptPending /\ ~retryAccept)
          /\ m_notifyPending' = (m_notifyPending /\ ~retryNotify)
    /\ pc' = "reap"
    /\ UNCHANGED <<fdtab, nSock, rcvd, freeBufs, eventfd, connVars,
                   dispatched, m_taskQueue, worker, m_readyCoros, ready>>

(* io_uring_peek_cqe finds nothing: back to submit_and_wait. *)
PeekEmpty ==
    /\ pc = "reap"
    /\ \A o \in ops : o.stage # "cq"
    /\ pc' = "submit"
    /\ UNCHANGED <<kernelVars, connVars, m_acceptPending, m_notifyPending,
                   dispatched, m_taskQueue, worker, m_readyCoros, ready>>

Reaps(o, op) == pc = "reap" /\ o.stage = "cq" /\ o.op = op

(* Mutant: the buffer of a closing connection is not returned. *)
ReturnBuffer_OnlyLive(o) ==
    freeBufs' = IF o.op = "RECV" /\ o.res > 0 /\ ~ctx[o.ctx].closing
                THEN freeBufs + 1 ELSE freeBufs

(* The provided buffer goes back to the ring whatever becomes of the CQE. *)
ReturnBuffer(o) ==
    freeBufs' = IF o.op = "RECV" /\ o.res > 0 THEN freeBufs + 1 ELSE freeBufs

(* The contexts once the data is copied out and onComplete has counted. *)
Reaped(o) ==
    [ctx EXCEPT ![o.ctx].inflight = @ - 1,
                ![o.ctx].input = IF o.op = "RECV" /\ o.res > 0 /\ ~ctx[o.ctx].closing
                                 THEN @ + o.res ELSE @]

(* onComplete returns true: the context is recycled, no handler runs. *)
ReapLast(o) ==
    /\ \E op \in {"RECV", "SEND"} : Reaps(o, op)
    /\ LastOfClosing(o.ctx)
    /\ ops' = ops \ {o}
    /\ ReturnBuffer(o)
    /\ ctx' = Reaped(o)
    /\ m_idlePool' = recycle(m_idlePool, o.ctx)
    /\ UNCHANGED <<fdtab, nSock, rcvd, eventfd, m_active, m_allConns, nextId,
                   provVars>>

-----------------------------------------------------------------------------
(* handleAccept *)

HandleAcceptError(o) ==
    /\ Reaps(o, "ACCEPT") /\ o.res = Failed
    /\ submitAccept(ops \ {o})
    /\ UNCHANGED <<fdtab, nSock, rcvd, freeBufs, eventfd, connVars, pc,
                   m_notifyPending, dispatched, m_taskQueue, worker,
                   m_readyCoros, ready>>

(* acquire, submitRecv or close, then submitAccept. *)
HandleAccept(o) ==
    /\ Reaps(o, "ACCEPT") /\ o.res # Failed
    /\ \E c \in Acquirable :
         LET act == [m_active EXCEPT ![o.fd] = c]
             cx  == [ctx EXCEPT ![c] = ResetContext(o.fd, nextId)]
             os  == ops \ {o}
         IN /\ m_allConns' = m_allConns \cup {c}
            /\ IF SqFull(os)
               THEN /\ close(o.fd, act, PoolAfterAcquire, cx)
                    /\ submitAccept(os)
               ELSE /\ m_active' = act
                    /\ m_idlePool' = PoolAfterAcquire
                    /\ ctx' = onSubmit(cx, c)
                    /\ UNCHANGED fdtab
                    /\ submitAccept(os \cup {RecvSqe(c, o.fd)})
    /\ nextId' = nextId + 1
    /\ UNCHANGED <<nSock, rcvd, freeBufs, eventfd, pc, m_notifyPending,
                   dispatched, m_taskQueue, worker, m_readyCoros, ready>>

-----------------------------------------------------------------------------
(* handleRecv.  A closing context returns at once; o.res = Failed closes,  *)
(* ENOBUFS re-arms, and data is parsed until no whole request is left.     *)

RecvFailed(o, fd, cx, os) ==
    /\ o.res = Failed
    /\ close(fd, m_active, m_idlePool, cx)
    /\ ops' = os
    /\ UNCHANGED <<dispatched, m_taskQueue>>

RecvNoBufs(o, fd, cx, os) ==
    /\ o.res = ENOBUFS
    /\ submitRecvOrClose(fd, cx, os)
    /\ UNCHANGED <<dispatched, m_taskQueue>>

(* tryHandleRequest accepted k requests in a row and started k coroutines. *)
Dispatch(c, fd, k, cx) ==
    LET id == cx[c].connId IN
    /\ m_taskQueue' = m_taskQueue \o
           [i \in 1 .. k |-> [fd |-> fd, connId |-> id, rid |-> dispatched[id] + i]]
    /\ dispatched' = [dispatched EXCEPT ![id] = @ + k]

(* Mutant: erase takes one request too many. *)
AfterDispatch_OverErase(c, k, cx) ==
    [cx EXCEPT ![c].input = @ - (k + 1) * FrameUnits, ![c].pendingReqs = @ + k]

AfterDispatch(c, k, cx) ==
    [cx EXCEPT ![c].input = @ - k * FrameUnits, ![c].pendingReqs = @ + k]

(* Mutant: recv is armed again before the requests are parsed. *)
RecvReject_Rearmed(o, fd, cx, os) ==
    /\ o.res > 0 /\ ~SqFull(os)
    /\ \E k \in 0 .. cx[o.ctx].input :
         /\ k * FrameUnits < cx[o.ctx].input
         /\ Dispatch(o.ctx, fd, k, cx)
         /\ close(fd, m_active, m_idlePool, onSubmit(AfterDispatch(o.ctx, k, cx), o.ctx))
    /\ ops' = os \cup {RecvSqe(o.ctx, fd)}

(* The next request is malformed: the connection is closed. *)
RecvReject(o, fd, cx, os) ==
    /\ o.res > 0
    /\ \E k \in 0 .. cx[o.ctx].input :
         /\ k * FrameUnits < cx[o.ctx].input
         /\ Dispatch(o.ctx, fd, k, cx)
         /\ close(fd, m_active, m_idlePool, AfterDispatch(o.ctx, k, cx))
    /\ ops' = os

(* Mutant: the threshold is compared with > . *)
RecvDrained_LatePause(o, fd, cx, os) ==
    /\ o.res > 0
    /\ \E k \in 0 .. cx[o.ctx].input :
         /\ k * FrameUnits <= cx[o.ctx].input
         /\ (k + 1) * FrameUnits > cx[o.ctx].input
         /\ Dispatch(o.ctx, fd, k, cx)
         /\ LET cx2 == AfterDispatch(o.ctx, k, cx) IN
            IF cx2[o.ctx].pendingReqs > kMaxInflightPerConn
            THEN /\ ctx' = [cx2 EXCEPT ![o.ctx].readPaused = TRUE]
                 /\ ops' = os
                 /\ UNCHANGED <<m_active, m_idlePool, fdtab>>
            ELSE submitRecvOrClose(fd, cx2, os)

(* Only part of a request is left: pause, or receive again. *)
RecvDrained(o, fd, cx, os) ==
    /\ o.res > 0
    /\ \E k \in 0 .. cx[o.ctx].input :
         /\ k * FrameUnits <= cx[o.ctx].input
         /\ (k + 1) * FrameUnits > cx[o.ctx].input
         /\ Dispatch(o.ctx, fd, k, cx)
         /\ LET cx2 == AfterDispatch(o.ctx, k, cx) IN
            IF cx2[o.ctx].pendingReqs >= kMaxInflightPerConn
            THEN /\ ctx' = [cx2 EXCEPT ![o.ctx].readPaused = TRUE]
                 /\ ops' = os
                 /\ UNCHANGED <<m_active, m_idlePool, fdtab>>
            ELSE submitRecvOrClose(fd, cx2, os)

HandleRecv(o) ==
    /\ Reaps(o, "RECV")
    /\ ~LastOfClosing(o.ctx)
    /\ ReturnBuffer(o)
    /\ LET fd == ctx[o.ctx].fd
           cx == Reaped(o)
           os == ops \ {o}
       IN IF ctx[o.ctx].closing
          THEN /\ ctx' = cx /\ ops' = os
               /\ UNCHANGED <<m_active, m_idlePool, fdtab, dispatched, m_taskQueue>>
          ELSE \/ RecvFailed(o, fd, cx, os)
               \/ RecvNoBufs(o, fd, cx, os)
               \/ RecvReject(o, fd, cx, os)
               \/ RecvDrained(o, fd, cx, os)
    /\ UNCHANGED <<nSock, rcvd, eventfd, m_allConns, nextId, pc,
                   m_acceptPending, m_notifyPending, worker, m_readyCoros, ready>>

-----------------------------------------------------------------------------
(* handleSend.  There is no test of closing here. *)

SendFailed(o, fd, cx, os) ==
    /\ o.res = Failed
    /\ close(fd, m_active, m_idlePool, cx)
    /\ ops' = os

(* Mutant: the chain of sends ends after one frame. *)
SendNext_Stop(c, fd, cx, os) ==
    /\ ctx' = [cx EXCEPT ![c].sending = FALSE]
    /\ ops' = os
    /\ UNCHANGED <<m_active, m_idlePool, fdtab>>

(* The queue is empty and the chain of sends ends, or the next send starts. *)
SendNext(c, fd, cx, os) ==
    IF cx[c].outQueue = << >>
    THEN /\ ctx' = [cx EXCEPT ![c].sending = FALSE]
         /\ ops' = os
         /\ UNCHANGED <<m_active, m_idlePool, fdtab>>
    ELSE submitSendOrClose(fd, cx, os)

(* Part of the frame is out: send the rest. *)
SendPartial(o, fd, cx, os) ==
    /\ o.res > 0
    /\ cx[o.ctx].written + o.res < RespUnits
    /\ SendNext(o.ctx, fd, [cx EXCEPT ![o.ctx].written = @ + o.res], os)

(* Mutant: pendingReqs is not decremented. *)
Popped_NoCount(c, cx) ==
    [cx EXCEPT ![c].outQueue = Tail(@), ![c].written = 0]

Popped(c, cx) ==
    [cx EXCEPT ![c].outQueue = Tail(@), ![c].written = 0, ![c].pendingReqs = @ - 1]

(* Mutant: the threshold is off by one. *)
ResumesRecv_Late(c, cx) ==
    cx[c].readPaused /\ cx[c].pendingReqs < kMaxInflightPerConn - 1

ResumesRecv(c, cx) ==
    cx[c].readPaused /\ cx[c].pendingReqs < kMaxInflightPerConn

(* The frame is out: pop it, perhaps receive again, send the next frame. *)
SendWhole(o, fd, cx, os) ==
    LET c   == o.ctx
        cx1 == Popped(c, cx)
        cx2 == [cx1 EXCEPT ![c].readPaused = FALSE]
    IN
    /\ o.res > 0
    /\ cx[c].written + o.res >= RespUnits
    /\ IF ~ResumesRecv(c, cx1) THEN SendNext(c, fd, cx1, os)
       ELSE IF find(fd) = None \/ SqFull(os)
       THEN close(fd, m_active, m_idlePool, cx2) /\ ops' = os
       ELSE SendNext(c, fd, onSubmit(cx2, find(fd)),
                     os \cup {RecvSqe(find(fd), fd)})

HandleSend(o) ==
    /\ Reaps(o, "SEND")
    /\ ~LastOfClosing(o.ctx)
    /\ LET fd == ctx[o.ctx].fd
           cx == Reaped(o)
           os == ops \ {o}
       IN \/ SendFailed(o, fd, cx, os)
          \/ SendPartial(o, fd, cx, os)
          \/ SendWhole(o, fd, cx, os)
    /\ UNCHANGED <<nSock, rcvd, freeBufs, eventfd, m_allConns, nextId, provVars>>

-----------------------------------------------------------------------------
(* handleNotify, deliverResponse *)

HandleNotify(o) ==
    /\ Reaps(o, "NOTIFY")
    /\ ops' = ops \ {o}
    /\ ready' = m_readyCoros
    /\ m_readyCoros' = << >>
    /\ pc' = "notify"
    /\ UNCHANGED <<fdtab, nSock, rcvd, freeBufs, eventfd, connVars,
                   m_acceptPending, m_notifyPending, dispatched, m_taskQueue, worker>>

(* Mutant: connId is not compared. *)
StillOpen_FdOnly(r) == find(r.fd) # None

(* The connection that asked is still the one open under fd. *)
StillOpen(r) == find(r.fd) # None /\ ctx[find(r.fd)].connId = r.connId

(* Mutant: a send is started although one is in flight. *)
deliverResponse_Always(r) ==
    IF ~StillOpen(r)
    THEN UNCHANGED <<ctx, ops, m_active, m_idlePool, fdtab>>
    ELSE LET c == find(r.fd) IN
         submitSendOrClose(r.fd, [ctx EXCEPT ![c].outQueue = Append(@, r)], ops)

(* Mutant: the coroutine keeps the context instead of looking fd up. *)
deliverResponse_ByPointer(r) ==
    \E c \in m_allConns :
        LET cx == [ctx EXCEPT ![c].outQueue = Append(@, r)] IN
        /\ ctx[c].connId = r.connId
        /\ IF ctx[c].sending
           THEN ctx' = cx /\ UNCHANGED <<ops, m_active, m_idlePool, fdtab>>
           ELSE submitSendOrClose(r.fd, cx, ops)

deliverResponse(r) ==
    IF ~StillOpen(r)
    THEN UNCHANGED <<ctx, ops, m_active, m_idlePool, fdtab>>
    ELSE LET c  == find(r.fd)
             cx == [ctx EXCEPT ![c].outQueue = Append(@, r)]
         IN IF ctx[c].sending
            THEN ctx' = cx /\ UNCHANGED <<ops, m_active, m_idlePool, fdtab>>
            ELSE submitSendOrClose(r.fd, cx, ops)

(* One coroutine runs from co_await to its end; an empty frame is skipped. *)
ResumeCoro ==
    /\ pc = "notify" /\ ready # << >>
    /\ ready' = Tail(ready)
    /\ IF Head(ready).frameEmpty
       THEN UNCHANGED <<ctx, ops, m_active, m_idlePool, fdtab>>
       ELSE deliverResponse(Head(ready).req)
    /\ UNCHANGED <<nSock, rcvd, freeBufs, eventfd, m_allConns, nextId, pc,
                   m_acceptPending, m_notifyPending, dispatched, m_taskQueue,
                   worker, m_readyCoros>>

NotifyDone ==
    /\ pc = "notify" /\ ready = << >>
    /\ submitNotifyRead(ops)
    /\ pc' = "reap"
    /\ UNCHANGED <<fdtab, nSock, rcvd, freeBufs, eventfd, connVars,
                   m_acceptPending, dispatched, m_taskQueue, worker,
                   m_readyCoros, ready>>

-----------------------------------------------------------------------------
(* workerThread, onPoolDone, resumeOnReactor *)

WorkerTake(w) ==
    /\ worker[w].st = "idle" /\ m_taskQueue # << >>
    /\ worker' = [worker EXCEPT ![w] = [st |-> "call", req |-> Head(m_taskQueue)]]
    /\ m_taskQueue' = Tail(m_taskQueue)
    /\ UNCHANGED <<kernelVars, connVars, pc, m_acceptPending, m_notifyPending,
                   dispatched, m_readyCoros, ready>>

(* CallMethod ran done: the frame is written, the coroutine queued. *)
PoolDone(w) ==
    /\ worker[w].st = "call"
    /\ \E fails \in {FALSE, MaySerializeFail} :
         m_readyCoros' = Append(m_readyCoros,
                                [req |-> worker[w].req, frameEmpty |-> fails])
    /\ worker' = [worker EXCEPT ![w].st = "wake"]
    /\ UNCHANGED <<kernelVars, connVars, pc, m_acceptPending, m_notifyPending,
                   dispatched, m_taskQueue, ready>>

(* The write to the eventfd; the task ends. *)
WorkerWake(w) ==
    /\ worker[w].st = "wake"
    /\ eventfd' = TRUE
    /\ worker' = [worker EXCEPT ![w] = Idle]
    /\ UNCHANGED <<ops, fdtab, nSock, rcvd, freeBufs, connVars, pc,
                   m_acceptPending, m_notifyPending, dispatched, m_taskQueue,
                   m_readyCoros, ready>>

(* Mutant: the eventfd is written before the coroutine is queued. *)
Worker_WakeFirst(w) ==
    \/ WorkerTake(w)
    \/ /\ worker[w].st = "call"
       /\ eventfd' = TRUE
       /\ worker' = [worker EXCEPT ![w].st = "wake"]
       /\ UNCHANGED <<ops, fdtab, nSock, rcvd, freeBufs, connVars, pc,
                      m_acceptPending, m_notifyPending, dispatched,
                      m_taskQueue, m_readyCoros, ready>>
    \/ /\ worker[w].st = "wake"
       /\ m_readyCoros' = Append(m_readyCoros,
                                 [req |-> worker[w].req, frameEmpty |-> FALSE])
       /\ worker' = [worker EXCEPT ![w] = Idle]
       /\ UNCHANGED <<kernelVars, connVars, pc, m_acceptPending,
                      m_notifyPending, dispatched, m_taskQueue, ready>>

Worker(w) == WorkerTake(w) \/ PoolDone(w) \/ WorkerWake(w)

-----------------------------------------------------------------------------
ReactorOn(o) ==
    \/ SubmitOne(o) \/ ReapLast(o)
    \/ HandleAcceptError(o) \/ HandleAccept(o)
    \/ HandleRecv(o) \/ HandleSend(o) \/ HandleNotify(o)

Reactor ==
    \/ \E o \in ops : ReactorOn(o)
    \/ WaitReturns \/ PeekEmpty \/ ResumeCoro \/ NotifyDone

KernelOn(o) ==
    \/ KAccept(o) \/ KAcceptError(o)
    \/ KRecvData(o) \/ KRecvNoBufs(o) \/ KRecvEnd(o)
    \/ KSendData(o) \/ KSendError(o) \/ KNotify(o)

Kernel == /\ \E o \in ops : KernelOn(o)
          /\ UNCHANGED <<connVars, provVars>>

Next == Reactor \/ (\E w \in Workers : Worker(w)) \/ Kernel

Spec == Init /\ [][Next]_vars

(***************************************************************************)
(* Fairness.  The reactor and the workers are running threads; a service   *)
(* method returns and runs done; the kernel completes a send (the client   *)
(* reads, or the connection breaks) and the read of a signalled eventfd.   *)
(* Nothing is assumed of clients: they need not connect, send or close.    *)
(***************************************************************************)
KSendCompletes(c) ==
    /\ \E o \in ops : o.ctx = c /\ (KSendData(o) \/ KSendError(o))
    /\ UNCHANGED <<connVars, provVars>>

KNotifyCompletes ==
    /\ \E o \in ops : KNotify(o)
    /\ UNCHANGED <<connVars, provVars>>

Fairness ==
    /\ WF_vars(Reactor)
    /\ \A w \in Workers : WF_vars(Worker(w))
    /\ \A c \in Contexts : WF_vars(KSendCompletes(c))
    /\ WF_vars(KNotifyCompletes)

FairSpec == Spec /\ Fairness
=============================================================================
