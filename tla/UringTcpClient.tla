---------------------------- MODULE UringTcpClient ----------------------------
(***************************************************************************)
(* UringTcpClient (uringtcpclient.cc): one object with a socket and a ring *)
(* of its own.  Its blocking methods prepare one operation, submit it and  *)
(* take the next completion, whatever it is of; its Async methods hand an  *)
(* IoContext to the ring and EventLoop runs the callbacks.  The ring never *)
(* runs out of entries: every method submits what it prepares.             *)
(*                                                                         *)
(* The kernel, the network and the server are external.  A stream is       *)
(* counted in units: a request has ReqLen of them; a response is its size, *)
(* the request_id and a body of no or one unit.  Units arrive and leave in *)
(* pieces of any length.                                                   *)
(***************************************************************************)
EXTENDS Integers, FiniteSets, Sequences, SequencesExt

CONSTANTS
    Fds,         \* descriptor numbers, the lowest free one is given out
    ReqLen,      \* units of a request
    MaxFaults    \* bound on failing submits and interrupted waits

ASSUME UringClientAssumption ==
    /\ Fds \subseteq Nat \ {0} /\ IsFiniteSet(Fds)
    /\ ReqLen \in Nat \ {0} /\ MaxFaults \in Nat

VARIABLES
    m_fd,      \* 0: none
    fdTable,   \* the socket behind a descriptor, 0: closed
    socks,     \* the sockets ever made: what the server got and sent
    ops,       \* the operations ever prepared
    cq,        \* completions not yet seen, by operation
    method,    \* the blocking method under way
    ret,       \* what the last blocking method returned
    looping,   \* EventLoop: "out" of it, in "wait" or in a "callback"
    faults

clientVars == <<m_fd, fdTable, socks, ops, cq, method, ret, looping, faults>>

\* op and what it is to transfer; n and got: transferred by now.
NoMethod == [op |-> "none", stage |-> "prep", len |-> 0, n |-> 0, got |-> <<>>]
Failed   == [ok |-> FALSE, got |-> <<>>]

ClientInit ==
    /\ m_fd = 0 /\ fdTable = [f \in Fds |-> 0]
    /\ socks = <<>> /\ ops = <<>> /\ cq = <<>>
    /\ method = NoMethod /\ ret = Failed /\ looping = "out" /\ faults = 0

Faulty == faults < MaxFaults /\ faults' = faults + 1
InMethod == method.op # "none"

\* Operations the ring still knows of.
InFlight == {i \in DOMAIN ops : ops[i].st \in {"sq", "kernel", "cq"}}

(***************************************************************************)
(* Sockets                                                                 *)
(***************************************************************************)
\* Close(): nothing when there is no socket.
Closed(tab, fd) == IF fd = 0 THEN tab ELSE [tab EXCEPT ![fd] = 0]

NewSocket == [req |-> 0, out |-> <<>>, eof |-> FALSE, sent |-> <<>>]

\* socket(), given the descriptors that are open.
Free(tab)  == {f \in Fds : tab[f] = 0}
NewFd(tab) == Min(Free(tab))
Opened(tab) == [tab EXCEPT ![NewFd(tab)] = Len(socks) + 1]

(***************************************************************************)
(* The ring                                                                *)
(***************************************************************************)
Sqe(op, fd, len) ==
    [op |-> op, fd |-> fd, sock |-> 0, len |-> len, st |-> "sq",
     res |-> 0, data |-> <<>>, cb |-> 0, refused |-> FALSE]

\* io_uring_submit: the descriptors of all queued entries are looked up; one
\* that is closed by now fails at once.
Submitted(os, tab) ==
    [i \in DOMAIN os |->
        IF os[i].st # "sq" THEN os[i]
        ELSE IF tab[os[i].fd] = 0 THEN [os[i] EXCEPT !.st = "cq", !.res = -1]
        ELSE [os[i] EXCEPT !.st = "kernel", !.sock = tab[os[i].fd]]]

FailedAtOnce(os, tab) == {i \in DOMAIN os : os[i].st = "sq" /\ tab[os[i].fd] = 0}

\* The one way to list a set of operations in the order they were prepared.
OldestFirst(S) ==
    {q \in [1 .. Cardinality(S) -> S] :
        Range(q) = S /\ \A j, k \in DOMAIN q : j < k => q[j] < q[k]}

Submit(os, tab) ==
    /\ ops' = Submitted(os, tab)
    /\ \E q \in OldestFirst(FailedAtOnce(os, tab)) : cq' = cq \o q

\* io_uring_cqe_seen: the entry and its context are gone.
Seen(i) == [ops EXCEPT ![i].st = "seen", ![i].data = <<>>, ![i].res = 0]

Completes(i, r, d) ==
    /\ ops' = [ops EXCEPT ![i].st = "cq", ![i].res = r, ![i].data = d]
    /\ cq' = Append(cq, i)

KernelFrame == UNCHANGED <<m_fd, fdTable, method, ret, looping, faults>>

\* An operation fails (connection refused or broken).
KError(i) ==
    /\ ops[i].st = "kernel" /\ Completes(i, -1, <<>>)
    /\ UNCHANGED socks /\ KernelFrame

KConnect(i) ==
    /\ ops[i].st = "kernel" /\ ops[i].op = "connect"
    /\ Completes(i, 0, <<>>)
    /\ UNCHANGED socks /\ KernelFrame

\* A send takes some of what it was given; the server is one that reads.
KSend(i) ==
    /\ ops[i].st = "kernel" /\ ops[i].op = "send"
    /\ \E n \in 1 .. ops[i].len :
         /\ Completes(i, n, <<>>)
         /\ socks' = [socks EXCEPT ![ops[i].sock].req = @ + n]
    /\ KernelFrame

\* A recv gives some of what is there, and 0 at the end of the stream.
KRecv(i) ==
    LET s == socks[ops[i].sock] IN
    /\ ops[i].st = "kernel" /\ ops[i].op = "recv"
    /\ \/ \E n \in 1 .. Len(s.out) :
            /\ n <= ops[i].len
            /\ Completes(i, n, SubSeq(s.out, 1, n))
            /\ socks' = [socks EXCEPT ![ops[i].sock].out = SubSeq(@, n + 1, Len(@))]
       \/ s.out = <<>> /\ s.eof /\ Completes(i, 0, <<>>) /\ UNCHANGED socks
    /\ KernelFrame

\* A socket somebody still holds.
InUse(s) == \/ \E f \in Fds : fdTable[f] = s
            \/ \E i \in InFlight : ops[i].sock = s

\* The server (external): sendRpcResponse's frame, [size][request_id][body].
Response(b) == IF b = 0 THEN <<"size1", "rid">> ELSE <<"size2", "rid", "body">>

ServerAnswers(s) ==
    /\ InUse(s) /\ socks[s].req >= ReqLen /\ socks[s].sent = <<>> /\ ~socks[s].eof
    /\ \E b \in 0 .. 1 :
         socks' = [socks EXCEPT ![s].out = Response(b), ![s].sent = Response(b)]
    /\ UNCHANGED <<m_fd, fdTable, ops, cq, method, ret, looping, faults>>

\* It closes, and what it has not sent off may be lost with it.
ServerCloses(s) ==
    /\ InUse(s) /\ ~socks[s].eof
    /\ \E n \in 0 .. Len(socks[s].out) :
         socks' = [socks EXCEPT ![s].out = SubSeq(@, 1, n), ![s].eof = TRUE]
    /\ UNCHANGED <<m_fd, fdTable, ops, cq, method, ret, looping, faults>>

(***************************************************************************)
(* The blocking methods                                                    *)
(***************************************************************************)
Returns(r) == method' = NoMethod /\ ret' = r

\* Connect: a socket that is still open is closed first; an address that does
\* not parse closes the new one.
Connect ==
    LET tab == Closed(fdTable, m_fd) IN
    /\ ~InMethod /\ Free(tab) # {}
    /\ \/ /\ m_fd' = NewFd(tab) /\ fdTable' = Opened(tab)
          /\ socks' = Append(socks, NewSocket)
          /\ method' = [NoMethod EXCEPT !.op = "connect"]
          /\ UNCHANGED ret
       \/ m_fd' = 0 /\ fdTable' = tab /\ Returns(Failed) /\ UNCHANGED socks
    /\ UNCHANGED <<ops, cq, looping, faults>>

\* The entry of WriteAll, ReadExact and ReadSome.
Start(op, len) ==
    /\ ~InMethod
    /\ IF m_fd = 0
       THEN Returns(Failed)
       ELSE method' = [NoMethod EXCEPT !.op = op, !.len = len] /\ UNCHANGED ret
    /\ UNCHANGED <<m_fd, fdTable, socks, ops, cq, looping, faults>>

Close ==
    /\ ~InMethod
    /\ m_fd' = 0 /\ fdTable' = Closed(fdTable, m_fd)
    /\ UNCHANGED <<socks, ops, cq, method, ret, looping, faults>>

\* Mutant: a failed Connect keeps its socket.
Fails_Open ==
    Returns(Failed) /\ m_fd' = (IF method.op = "connect" THEN 0 ELSE m_fd) /\ UNCHANGED fdTable

\* A method that fails returns false, Connect after a Close.
Fails ==
    /\ Returns(Failed)
    /\ IF method.op = "connect"
       THEN m_fd' = 0 /\ fdTable' = Closed(fdTable, m_fd)
       ELSE UNCHANGED <<m_fd, fdTable>>

SqeOf(mt) ==
    CASE mt.op = "connect" -> Sqe("connect", m_fd, 0)
      [] mt.op = "write"   -> Sqe("send", m_fd, mt.len - mt.n)
      [] OTHER             -> Sqe("recv", m_fd, mt.len - mt.n)

\* A round of the loop: prepare and submit.  A submit that fails leaves the
\* entry in the queue.
SubmitRound ==
    /\ InMethod /\ method.stage = "prep"
    /\ LET os == Append(ops, SqeOf(method)) IN
       \/ /\ Submit(os, fdTable)
          /\ method' = [method EXCEPT !.stage = "wait"]
          /\ UNCHANGED <<m_fd, fdTable, ret, faults>>
       \/ Faulty /\ ops' = os /\ Fails /\ UNCHANGED cq
    /\ UNCHANGED <<socks, looping>>

\* Mutant: io_uring_peek_cqe, which fails when nothing is there yet.
WaitInterrupted_Peek ==
    /\ InMethod /\ method.stage = "wait" /\ cq = <<>>
    /\ Fails
    /\ UNCHANGED <<socks, ops, cq, looping, faults>>

\* io_uring_wait_cqe is interrupted: the operation goes on without its method.
WaitInterrupted ==
    /\ InMethod /\ method.stage = "wait"
    /\ Faulty /\ Fails
    /\ UNCHANGED <<socks, ops, cq, looping>>

\* The oldest completion is taken for the one waited for.
Result == ops[Head(cq)]

TakesResult ==
    /\ InMethod /\ method.stage = "wait" /\ cq # <<>>
    /\ cq' = Tail(cq) /\ ops' = Seen(Head(cq))
    /\ UNCHANGED <<socks, looping, faults>>

\* Mutant: a result of 0 is not told from others, and read again for ever.
TakeFailure_NoEof == TakesResult /\ Result.res < 0 /\ Fails

\* An error, or the end of the stream (which is what ReadSome waits for).
TakeFailure ==
    /\ TakesResult
    /\ \/ Result.res < 0
       \/ method.op \in {"write", "exact"} /\ Result.res = 0
       \/ method.op = "some" /\ Result.res = 0 /\ method.got = <<>>
    /\ Fails

\* Mutant: a short transfer counts as a whole one.
Complete_Short(mt, n) == mt.op # "some"

\* Whether a method is through when n units are transferred.
Complete(mt, n) == mt.op = "connect" \/ (mt.op \in {"write", "exact"} /\ n >= mt.len)

TakePart ==
    LET n == method.n + Result.res IN
    /\ TakesResult
    /\ Result.res > 0 /\ ~Complete(method, n)
    /\ method' = [method EXCEPT !.stage = "prep", !.got = @ \o Result.data,
                                !.n = IF method.op = "some" THEN 0 ELSE n]
    /\ UNCHANGED <<m_fd, fdTable, ret>>

TakeLast ==
    /\ TakesResult
    /\ \/ Result.res >= 0 /\ method.op = "connect"
       \/ Result.res > 0 /\ Complete(method, method.n + Result.res)
       \/ method.op = "some" /\ Result.res = 0 /\ method.got # <<>>
    /\ Returns([ok |-> TRUE, got |-> method.got \o Result.data])
    /\ UNCHANGED <<m_fd, fdTable>>

(***************************************************************************)
(* The Async methods and EventLoop                                         *)
(***************************************************************************)
\* An operation with an IoContext: submitted, or refused, its callback run
\* with the error and the entry left in the queue all the same.
Hand(os, tab) == Submit(os, tab) /\ UNCHANGED faults
Refuse(os) ==
    /\ Faulty /\ UNCHANGED cq
    /\ ops' = [os EXCEPT ![Len(os)].cb = 1, ![Len(os)].refused = TRUE]

\* AsyncConnect: takes a new socket whatever m_fd is; with an address that
\* does not parse it keeps it, when refused it closes it.
AsyncConnect ==
    LET tab == Opened(fdTable)
        fd  == NewFd(fdTable)
        os  == Append(ops, Sqe("connect", fd, 0))
    IN /\ Free(fdTable) # {}
       /\ socks' = Append(socks, NewSocket)
       /\ \/ Hand(os, tab) /\ m_fd' = fd /\ fdTable' = tab
          \/ m_fd' = fd /\ fdTable' = tab /\ UNCHANGED <<ops, cq, faults>>
          \/ Refuse(os) /\ m_fd' = 0 /\ fdTable' = Closed(tab, fd)
       /\ UNCHANGED <<method, ret, looping>>

\* AsyncWrite and AsyncRead; without a socket the callback gets the error.
AsyncTransfer(op, len) ==
    LET os == Append(ops, Sqe(op, m_fd, len)) IN
    /\ m_fd # 0
    /\ Hand(os, fdTable) \/ Refuse(os)
    /\ UNCHANGED <<m_fd, fdTable, socks, method, ret, looping>>

EnterLoop ==
    /\ looping = "out" /\ looping' = "wait"
    /\ UNCHANGED <<m_fd, fdTable, socks, ops, cq, method, ret, faults>>

\* A completion: its callback runs while the CQE is still in the queue.
RunCallback ==
    /\ looping = "wait" /\ cq # <<>>
    /\ looping' = "callback"
    /\ ops' = [ops EXCEPT ![Head(cq)].cb = @ + 1]
    /\ UNCHANGED <<m_fd, fdTable, socks, cq, method, ret, faults>>

\* Mutant: the completion is not marked seen.
CallbackReturns_Unseen ==
    /\ looping = "callback" /\ looping' = "wait"
    /\ UNCHANGED <<m_fd, fdTable, socks, ops, cq, method, ret, faults>>

\* The callback is through: delete ctx, io_uring_cqe_seen.
CallbackReturns ==
    /\ looping = "callback" /\ looping' = "wait"
    /\ cq' = Tail(cq)
    /\ ops' = Seen(Head(cq))
    /\ UNCHANGED <<m_fd, fdTable, socks, method, ret, faults>>

-----------------------------------------------------------------------------
\* The thread inside a blocking method; a signal is never owed.
MethodStep == SubmitRound \/ TakeFailure \/ TakePart \/ TakeLast

\* What the kernel completes in time; an error is never owed.
KernelStep(i) == KConnect(i) \/ KSend(i) \/ KRecv(i)
===============================================================================
