------------------------------- MODULE IoUring -------------------------------
(***************************************************************************)
(* The kernel side of the io_uring provider: the ring, the process's table *)
(* of socket descriptors, the provided-buffer ring and the eventfd.  None  *)
(* of it is code of the repository; it is modelled from the way            *)
(* src/src/uringrpcprovider.cc uses it.                                    *)
(*                                                                         *)
(* An operation is one record of the set ops and moves through the stages  *)
(*   "sq"      an SQE prepared by the reactor, not yet submitted;          *)
(*   "kernel"  submitted: the descriptor has been resolved to a socket;    *)
(*   "cq"      completed: a CQE the reactor has not yet seen.              *)
(* The order of CQEs is left open: completions of distinct operations are  *)
(* independent events of the kernel.  Two identical operations would be    *)
(* one element of ops, which the exact count in ConnectionContext.inflight *)
(* then exposes.                                                           *)
(*                                                                         *)
(* Sockets are numbered 1, 2, ... in the order they are accepted; 0 means  *)
(* "no socket".  Data is counted in abstract units of the byte stream.     *)
(***************************************************************************)
EXTENDS Integers, Sequences, FiniteSets

CONSTANTS
    Fds,         \* descriptor numbers the kernel hands out for connections
    Contexts,    \* addresses of ConnectionContext objects
    None,        \* nullptr / no descriptor
    SqSize,      \* entries of the submission queue (256 in the code)
    NBufs,       \* provided buffers (kBufRingEntries, 1024 in the code)
    ChunkUnits,  \* most units one recv returns (kBufSize, 4096 bytes)
    RespUnits,   \* units of one response frame
    MaxConns,    \* bound: connections accepted in one behaviour
    MaxUnits     \* bound: units one client sends on its connection

ASSUME NoneAssumption == None \notin Fds /\ None \notin Contexts

ASSUME SizeAssumption ==
    /\ SqSize \in Nat \ {0} /\ NBufs \in Nat \ {0}
    /\ ChunkUnits \in Nat \ {0} /\ RespUnits \in Nat \ {0}
    /\ MaxConns \in Nat /\ MaxUnits \in Nat

VARIABLES
    ops,       \* operations between submit* and the reactor's peek
    fdtab,     \* fdtab[fd] = the socket open under number fd, 0 if closed
    nSock,     \* sockets accepted so far
    rcvd,      \* rcvd[s] = units the kernel has handed out from socket s
    freeBufs,  \* provided buffers the kernel may fill
    eventfd    \* the eventfd counter is not zero

kernelVars == <<ops, fdtab, nSock, rcvd, freeBufs, eventfd>>

Socks == 1 .. MaxConns

(***************************************************************************)
(* A request, and the frame that answers it.  handleRpc keeps fd and       *)
(* connId next to the request_id the client chose; clients number their    *)
(* requests 1, 2, ... on each connection.                                  *)
(***************************************************************************)
Requests == [fd : Fds, connId : Nat, rid : Nat]

Failed  == 0     \* EOF, or a negative errno that the handlers treat alike
ENOBUFS == -1    \* the provided-buffer ring was empty

OpTypes == {"ACCEPT", "RECV", "SEND", "NOTIFY"}
Stages  == {"sq", "kernel", "cq"}

Ops == [op : OpTypes, ctx : Contexts \cup {None}, fd : Fds \cup {None},
        stage : Stages, sock : Nat, res : Int,
        frame : Requests \cup {None}, off : Nat]

(* io_uring_get_sqe, io_uring_prep_* and user_data, without the ring. *)
Sqe(op, c, fd, frame, off) ==
    [op |-> op, ctx |-> c, fd |-> fd, stage |-> "sq", sock |-> 0,
     res |-> Failed, frame |-> frame, off |-> off]

(* io_uring_get_sqe returns nullptr: every entry holds an unsubmitted SQE. *)
SqFull(os) == Cardinality({o \in os : o.stage = "sq"}) >= SqSize

(* Replace an operation by its next form. *)
Becomes(o, o2) == ops' = (ops \ {o}) \cup {o2}

Complete(o, res) == Becomes(o, [o EXCEPT !.stage = "cq", !.res = res])

KernelInit ==
    /\ fdtab = [fd \in Fds |-> 0]
    /\ nSock = 0
    /\ rcvd = [s \in Socks |-> 0]
    /\ freeBufs = NBufs
    /\ eventfd = FALSE

(***************************************************************************)
(* io_uring_submit hands one SQE to the kernel, which resolves the         *)
(* descriptor number NOW: the socket is the one open under that number at  *)
(* submission, not the one that was open when the SQE was prepared.        *)
(***************************************************************************)
Resolve(o) ==
    IF o.op \notin {"RECV", "SEND"} THEN [o EXCEPT !.stage = "kernel"]
    ELSE IF fdtab[o.fd] = 0 THEN [o EXCEPT !.stage = "cq", !.res = Failed]
    ELSE [o EXCEPT !.stage = "kernel", !.sock = fdtab[o.fd]]

(* A client connects and the armed accept completes with any free number. *)
KAccept(o) ==
    /\ o.op = "ACCEPT" /\ o.stage = "kernel"
    /\ nSock < MaxConns
    /\ \E fd \in Fds :
         /\ fdtab[fd] = 0
         /\ fdtab' = [fdtab EXCEPT ![fd] = nSock + 1]
         /\ Becomes(o, [o EXCEPT !.stage = "cq", !.res = 1, !.fd = fd])
    /\ nSock' = nSock + 1
    /\ UNCHANGED <<rcvd, freeBufs, eventfd>>

KAcceptError(o) ==
    /\ o.op = "ACCEPT" /\ o.stage = "kernel"
    /\ Complete(o, Failed)
    /\ UNCHANGED <<fdtab, nSock, rcvd, freeBufs, eventfd>>

(* The client's next bytes arrive and fill one provided buffer. *)
KRecvData(o) ==
    /\ o.op = "RECV" /\ o.stage = "kernel"
    /\ freeBufs > 0
    /\ \E n \in 1 .. ChunkUnits :
         /\ rcvd[o.sock] + n <= MaxUnits
         /\ rcvd' = [rcvd EXCEPT ![o.sock] = @ + n]
         /\ Complete(o, n)
    /\ freeBufs' = freeBufs - 1
    /\ UNCHANGED <<fdtab, nSock, eventfd>>

(* The bytes arrive while every provided buffer is taken. *)
KRecvNoBufs(o) ==
    /\ o.op = "RECV" /\ o.stage = "kernel"
    /\ freeBufs = 0
    /\ rcvd[o.sock] < MaxUnits
    /\ Complete(o, ENOBUFS)
    /\ UNCHANGED <<fdtab, nSock, rcvd, freeBufs, eventfd>>

(* The client closes or resets the connection. *)
KRecvEnd(o) ==
    /\ o.op = "RECV" /\ o.stage = "kernel"
    /\ Complete(o, Failed)
    /\ UNCHANGED <<fdtab, nSock, rcvd, freeBufs, eventfd>>

(* The socket takes some of the bytes of the frame from off on. *)
KSendData(o) ==
    /\ o.op = "SEND" /\ o.stage = "kernel"
    /\ \E n \in 1 .. RespUnits : n <= RespUnits - o.off /\ Complete(o, n)
    /\ UNCHANGED <<fdtab, nSock, rcvd, freeBufs, eventfd>>

KSendError(o) ==
    /\ o.op = "SEND" /\ o.stage = "kernel"
    /\ Complete(o, Failed)
    /\ UNCHANGED <<fdtab, nSock, rcvd, freeBufs, eventfd>>

(* The read of the eventfd completes and resets its counter. *)
KNotify(o) ==
    /\ o.op = "NOTIFY" /\ o.stage = "kernel"
    /\ eventfd
    /\ eventfd' = FALSE
    /\ Complete(o, 1)
    /\ UNCHANGED <<fdtab, nSock, rcvd, freeBufs>>

KernelTypeOK ==
    /\ ops \subseteq Ops
    /\ fdtab \in [Fds -> Nat]
    /\ nSock \in Nat
    /\ rcvd \in [Socks -> Nat]
    /\ freeBufs \in Int
    /\ eventfd \in BOOLEAN
=============================================================================
