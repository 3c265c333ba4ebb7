------------------------- MODULE KimRpcChannelProps -------------------------
(***************************************************************************)
(* What the threads of KimRpcChannel keep true between them, and the       *)
(* refinement of RpcCalls.                                                 *)
(***************************************************************************)
EXTENDS KimRpcChannel

(* Where a call can be, and where a receive thread can be. *)
CallerAt == {"new", "resolve", "conn", "join", "connect", "register", "send",
             "write", "undo", "ret", "terminate"}
ReceiverAt == {"none", "run", "hand", "broken", "fail", "ended"}

CallerTypeOK ==
    /\ pc \in [Calls -> CallerAt] /\ host \in [Calls -> Hosts \cup {NoHost}]
    /\ parts \in [Calls -> 0 .. FrameParts]
    /\ thread \in [Calls -> TimerThread .. MaxConns]

ConnTypeOK ==
    /\ m_connMtx \in Calls \cup {NoCall} /\ m_sendMtx \in Calls \cup {NoCall}
    /\ m_clientfd \in 0 .. MaxConns /\ m_connectedHost \in Hosts \cup {NoHost}
    /\ m_running \in BOOLEAN /\ m_recvThread \in 0 .. MaxConns

SlotTypeOK ==
    /\ m_pending \subseteq Calls /\ timerHas \subseteq Calls
    /\ dtorHas \subseteq Calls /\ recvHas \in [Conns -> SUBSET Calls]
    /\ nDone \in [Calls -> Nat] /\ result \in [Calls -> {"none", "ok", "fail"}]

ThreadTypeOK ==
    /\ recv \in [Conns -> ReceiverAt] /\ timer \in {"wait", "fail", "ended"}
    /\ m_timerRunning \in BOOLEAN /\ late \subseteq Calls
    /\ dtor \in {"alive", "timer", "join", "fail", "dead"} /\ dtorJoins \in 0 .. MaxConns

NetTypeOK ==
    /\ nConn \in 0 .. MaxConns /\ openFd \in [Conns -> BOOLEAN]
    /\ peer \in [Conns -> Hosts \cup {NoHost}]
    /\ stream \in [Conns -> Seq(Calls)] /\ answers \in [Conns -> SUBSET Calls]

(* Every variable has the values its C++ type and the model's bounds allow; *)
(* a frame never grows past its length (sendLocked's written < len).        *)
TypeOK == CallerTypeOK /\ ConnTypeOK /\ SlotTypeOK /\ ThreadTypeOK /\ NetTypeOK

-----------------------------------------------------------------------------
(* The owners of a Pending: the table, or one thread that took it out. *)
Holders(c) ==
    [m_pending |-> c \in m_pending, timer |-> c \in timerHas,
     dtor |-> c \in dtorHas, recv |-> \E k \in Conns : c \in recvHas[k]]

Slots(c) ==
    LET has == Holders(c) IN
    Cardinality({o \in DOMAIN has : has[o]}) + nDone[c]

Registered(c) ==
    pc[c] \in {"send", "write", "undo"} \/ (pc[c] = "ret" /\ nDone[c] = 0)

(* From its registration on, a call's Pending belongs to exactly one of    *)
(* the table, the receive thread, the timer, the destructor, or its done   *)
(* has run; and it is never run or freed twice, whichever of recvLoop,     *)
(* timerLoop, teardown and the send-failure path of callAsync gets there   *)
(* first.                                                                  *)
PendingOwned ==
    /\ TypeOK
    /\ \A c \in Calls : Slots(c) <= 1 /\ (Registered(c) => Slots(c) = 1)

(* While m_running is set the receive thread of the current connection is  *)
(* in its loop, and no receive thread of an earlier connection is left to  *)
(* read m_clientfd or to clear m_running behind the new one's back         *)
(* (ensureConnected joins before it reconnects).                           *)
OneReceiver ==
    /\ m_running => m_recvThread # 0 /\ recv[m_recvThread] \in {"run", "hand"}
    /\ \A k \in Conns :
         recv[k] \in {"none", "ended"} \/ k = m_recvThread \/ k = dtorJoins

(* The connection to a server that is still there is closed only by the    *)
(* destructor or by a call that was given another server: neither a        *)
(* receive thread that ended late nor a stale m_connectedHost makes        *)
(* ensureConnected close it under the calls in flight on it.               *)
ConnectionGivenUp ==
    [][\A k \in Conns :
         openFd[k] /\ ~openFd'[k] =>
            \/ peer[k] = NoHost \/ dtor # "alive"
            \/ \E c \in Calls : m_connMtx' = c /\ host[c] # peer[k]]_vars

(* A connection whose server is alive is closed only by the destructor.    *)
(* With two providers this is false: the round robin of GetRpcAddress      *)
(* gives the next call another server, and ensureConnected closes the      *)
(* connection under the calls in flight on it.                             *)
ConnectionPersists ==
    \A k \in 1 .. nConn : openFd[k] \/ peer[k] = NoHost \/ dtor # "alive"

(* When ~KimRpcChannel returns, done has run for every call made, no       *)
(* Pending is left, and neither thread is there to touch the freed object. *)
DestructorSettles ==
    dtor = "dead" =>
        /\ m_pending = {} /\ timerHas = {} /\ dtorHas = {}
        /\ \A c \in Calls : pc[c] # "new" => nDone[c] = 1
        /\ timer = "ended" /\ \A k \in Conns : recv[k] \in {"none", "ended"}

(* The frames of one connection are whole: the writes of one request are   *)
(* neither split over two connections nor mixed with another's (m_sendMtx, *)
(* sendLocked).                                                            *)
FramesWhole ==
    \A k \in Conns : \A i \in DOMAIN stream[k] :
        (i - 1) % FrameParts = 0 \/ stream[k][i] = stream[k][i - 1]

(* A request is written to the server that GetRpcAddress named for it, as  *)
(* ensureConnected established.                                            *)
SentWhereResolved ==
    \A k \in Conns : \A i \in DOMAIN stream[k] :
        peer[k] \in {host[stream[k][i]], NoHost}

(* Whoever waits for the receive thread under m_connMtx, that thread is    *)
(* not itself, through a closure it runs, waiting for m_connMtx or for     *)
(* itself.                                                                 *)
ClosuresMayCall ==
    \A c, d \in Calls :
        pc[c] = "join" /\ m_recvThread # 0 /\ thread[d] = m_recvThread
            => pc[d] \notin {"conn", "join"}

-----------------------------------------------------------------------------
(***************************************************************************)
(* ChannelInv, the inductive invariant behind PendingOwned, OneReceiver    *)
(* and DestructorSettles; with the connection's part, LinkInv, it also     *)
(* gives ConnectionGivenUp.                                                *)
(***************************************************************************)
Held(c) ==
    c \in m_pending \/ c \in timerHas \/ c \in dtorHas \/ \E k \in Conns : c \in recvHas[k]

(* A Pending has one owner at a time, from Register until its done runs. *)
OwnerInv ==
    /\ m_pending \cap timerHas = {} /\ m_pending \cap dtorHas = {} /\ timerHas \cap dtorHas = {}
    /\ \A k \in Conns :
         /\ recvHas[k] \cap (m_pending \cup timerHas \cup dtorHas) = {}
         /\ \A l \in Conns : k # l => recvHas[k] \cap recvHas[l] = {}
    /\ \A c \in Calls :
         /\ nDone[c] <= 1 /\ (Held(c) => nDone[c] = 0)
         /\ Registered(c) => Held(c) \/ nDone[c] = 1
         /\ pc[c] \in {"new", "resolve", "conn", "join", "connect", "register", "terminate"}
              => ~Held(c) /\ nDone[c] = 0

(* A thread holds slots only where it is about to run their done. *)
HolderInv ==
    /\ timerHas # {} => timer = "fail"
    /\ dtorHas # {} => dtor = "fail"
    /\ \A k \in Conns :
         /\ k > nConn => recv[k] = "none"
         /\ recv[k] \in {"none", "run", "broken", "ended"} => recvHas[k] = {}
         /\ recv[k] = "hand" => \E c \in Calls : recvHas[k] = {c}

(* What a caller has done where it is; join and connect are under m_connMtx. *)
CallerInv ==
    \A c \in Calls :
        /\ pc[c] \in {"new", "resolve", "conn", "join", "connect", "register", "send"}
             => parts[c] = 0
        /\ pc[c] = "write" => parts[c] < FrameParts
        /\ pc[c] \in {"conn", "join", "connect"} => host[c] \in Hosts
        /\ pc[c] \in {"join", "connect"} => m_connMtx = c /\ m_clientfd = 0
        /\ pc[c] = "connect" => m_recvThread = 0

(* What the destructor has stopped where it is. *)
DtorInv ==
    /\ dtor # "alive" => ~m_timerRunning /\ \A c \in Calls : pc[c] \in {"new", "ret"}
    /\ dtor \in {"alive", "timer"} => dtorJoins = 0
    /\ dtor \in {"join", "fail", "dead"} =>
         timer = "ended" /\ m_recvThread = 0 /\ ~m_running
    /\ dtor \in {"fail", "dead"} =>
         m_pending = {} /\ \A k \in Conns : recv[k] \in {"none", "ended"}
    /\ dtor = "dead" => dtorHas = {}

ChannelInv ==
    /\ TypeOK /\ OwnerInv /\ HolderInv /\ CallerInv /\ OneReceiver /\ DtorInv

(* The open connection is m_clientfd, it has the receive thread, and it is *)
(* usable for m_connectedHost as long as its server is there.              *)
LinkInv ==
    /\ m_clientfd # 0 =>
         /\ m_clientfd = m_recvThread /\ m_clientfd <= nConn
         /\ peer[m_clientfd] = NoHost \/ (m_running /\ peer[m_clientfd] = m_connectedHost)
    /\ \A k \in Conns : openFd[k] => k = m_clientfd

-----------------------------------------------------------------------------
(* The calls as their makers see them. *)
Abs == INSTANCE RpcCalls WITH made <- {c \in Calls : pc[c] # "new"}

(* The channel keeps RpcCalls' promise: done runs exactly once for every   *)
(* call made, whatever the servers do (callAsync, recvLoop, timerLoop).    *)
KeepsPromise == Abs!CallsFairSpec

(* A request that was sent, and whose connection is down, is settled       *)
(* (failAllPending when recvLoop ends), with or without a timeout.         *)
BrokenCallsSettle ==
    \A c \in Calls :
        (pc[c] = "ret" /\ c \in m_pending /\ ~m_running) ~> nDone[c] = 1
=============================================================================
