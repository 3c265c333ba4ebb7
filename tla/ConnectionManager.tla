-------------------------- MODULE ConnectionManager --------------------------
(***************************************************************************)
(* ConnectionManager (src/src/connectionmanager.cc and its header): the    *)
(* table of active connections, the pool of recycled contexts and the life *)
(* cycle acquire -> onSubmit/onComplete -> close -> recycle.               *)
(*                                                                         *)
(* The manager runs on the reactor thread only, inside the provider's      *)
(* handlers, and a handler makes several calls in a row.  Its methods are  *)
(* therefore operators on the values the handler has computed so far:      *)
(* act (m_active), pool (m_idlePool) and cx (the contexts).                *)
(***************************************************************************)
EXTENDS IoUring

VARIABLES
    m_active,    \* fd -> active context, None if the map has no entry
    m_idlePool,  \* recycled contexts, a stack
    m_allConns,  \* every context ever allocated
    ctx,         \* the ConnectionContext objects
    nextId       \* the next connId

connVars == <<m_active, m_idlePool, m_allConns, ctx, nextId>>

(* struct ConnectionContext; input is a number of units, the rest as in C++. *)
Context ==
    [fd : Fds \cup {None}, connId : Nat, input : Nat,
     outQueue : Seq(Requests), written : Nat, sending : BOOLEAN,
     inflight : Int, closing : BOOLEAN,
     pendingReqs : Int, readPaused : BOOLEAN]

(* reset(newfd), followed by the connId that acquire assigns. *)
ResetContext(fd, id) ==
    [fd |-> fd, connId |-> id, input |-> 0, outQueue |-> << >>,
     written |-> 0, sending |-> FALSE, inflight |-> 0, closing |-> FALSE,
     pendingReqs |-> 0, readPaused |-> FALSE]

ConnInit ==
    /\ m_active = [fd \in Fds |-> None]
    /\ m_idlePool = << >>
    /\ m_allConns = {}
    /\ ctx = [c \in Contexts |-> ResetContext(None, 0)]
    /\ nextId = 1

find(fd) == m_active[fd]

(* acquire: the context taken is the top of the pool, else a new object. *)
Acquirable ==
    IF m_idlePool # << >> THEN {m_idlePool[Len(m_idlePool)]}
    ELSE Contexts \ m_allConns

(* Mutant: pop_back is forgotten. *)
PoolAfterAcquire_NoPop == m_idlePool

PoolAfterAcquire ==
    IF m_idlePool # << >> THEN SubSeq(m_idlePool, 1, Len(m_idlePool) - 1)
    ELSE m_idlePool

(* Mutant: the submitted operation is not counted. *)
onSubmit_NoCount(cx, c) == cx

onSubmit(cx, c) == [cx EXCEPT ![c].inflight = @ + 1]

recycle(pool, c) == Append(pool, c)

(* onComplete returns true: this was the last operation of a closing one. *)
LastOfClosing(c) == ctx[c].closing /\ ctx[c].inflight - 1 = 0

(* Mutant: recycle without waiting for the operations in flight. *)
close_Eager(fd, act, pool, cx) ==
    LET c == act[fd] IN
    IF c = None
    THEN /\ m_active' = act /\ m_idlePool' = pool /\ ctx' = cx
         /\ UNCHANGED fdtab
    ELSE /\ m_active' = [act EXCEPT ![fd] = None]
         /\ fdtab' = [fdtab EXCEPT ![cx[c].fd] = 0]
         /\ ctx' = [cx EXCEPT ![c].closing = TRUE]
         /\ m_idlePool' = recycle(pool, c)

(* Mutant: ::close is forgotten. *)
close_LeakFd(fd, act, pool, cx) ==
    LET c == act[fd] IN
    IF c = None
    THEN /\ m_active' = act /\ m_idlePool' = pool /\ ctx' = cx
         /\ UNCHANGED fdtab
    ELSE /\ m_active' = [act EXCEPT ![fd] = None]
         /\ UNCHANGED fdtab
         /\ ctx' = [cx EXCEPT ![c].closing = TRUE]
         /\ m_idlePool' = IF cx[c].inflight = 0 THEN recycle(pool, c) ELSE pool

(***************************************************************************)
(* close(fd): by descriptor number, a no-op when the map has no entry.     *)
(***************************************************************************)
close(fd, act, pool, cx) ==
    LET c == act[fd] IN
    IF c = None
    THEN /\ m_active' = act /\ m_idlePool' = pool /\ ctx' = cx
         /\ UNCHANGED fdtab
    ELSE /\ m_active' = [act EXCEPT ![fd] = None]
         /\ fdtab' = [fdtab EXCEPT ![cx[c].fd] = 0]
         /\ ctx' = [cx EXCEPT ![c].closing = TRUE]
         /\ m_idlePool' = IF cx[c].inflight = 0 THEN recycle(pool, c) ELSE pool

ConnTypeOK ==
    /\ m_active \in [Fds -> Contexts \cup {None}]
    /\ m_idlePool \in Seq(Contexts)
    /\ m_allConns \subseteq Contexts
    /\ ctx \in [Contexts -> Context]
    /\ nextId \in Nat
=============================================================================
