------------------------ MODULE KimRpcUringChannelProps ------------------------
(***************************************************************************)
(* What the users of UringTcpClient and of its channel rely on.            *)
(***************************************************************************)
EXTENDS KimRpcUringChannel

Units == {"size1", "size2", "rid", "body"}
Socket == [req : Nat, out : Seq(Units), eof : BOOLEAN, sent : Seq(Units)]
Operation ==
    [op : {"connect", "send", "recv"}, fd : Fds, sock : Nat, len : Nat,
     st : {"sq", "kernel", "cq", "seen"}, res : Int, data : Seq(Units), cb : Nat,
     refused : BOOLEAN]
Method ==
    [op : {"none", "connect", "write", "exact", "some"}, stage : {"prep", "wait"},
     len : Nat, n : Nat, got : Seq(Units)]

SocketTypeOK ==
    /\ m_fd \in Fds \cup {0} /\ socks \in Seq(Socket)
    /\ fdTable \in [Fds -> 0 .. Len(socks)]

\* The queue of completions names each completed operation once; the kernel
\* works on sockets that exist.
RingTypeOK ==
    /\ ops \in Seq(Operation) /\ cq \in Seq(Nat)
    /\ Range(cq) = {i \in DOMAIN ops : ops[i].st = "cq"} /\ IsInjective(cq)
    /\ \A i \in DOMAIN ops :
          ops[i].sock <= Len(socks) /\ (ops[i].st = "kernel" => ops[i].sock # 0)

UserTypeOK ==
    /\ method \in Method /\ method.n <= method.len
    /\ ret \in [ok : BOOLEAN, got : Seq(Units)]
    /\ looping \in {"out", "wait", "callback"} /\ faults \in Nat
    /\ at \in {"idle", "start", "connect", "write", "size", "body", "ok", "failed"}

\* Every variable has a value of its kind.
TypeOK == SocketTypeOK /\ RingTypeOK /\ UserTypeOK

\* A blocking method leaves no operation behind, so that no result is taken
\* for another's and no operation outlives the buffers of its method; only a
\* failing submit or an interrupted wait does, one operation each.
NothingLeftBehind ==
    /\ TypeOK
    /\ user # "callbacks" =>
       Cardinality(InFlight) <= faults + (IF InMethod /\ method.stage = "wait" THEN 1 ELSE 0)

\* No descriptor is lost: the blocking methods close every socket but the one
\* in m_fd, on all the ways a Connect can fail, and a call leaves none open.
SocketsClosed ==
    user # "callbacks" =>
       /\ \A f \in Fds : fdTable[f] # 0 => f = m_fd
       /\ Over => m_fd = 0

\* Whatever the pieces the response came in, what CallMethod parses is all of
\* it and nothing else.
ResponseWhole ==
    Returned("body") => ret.got = Tail(socks[fdTable[m_fd]].sent)

\* The callback of an operation runs once, when EventLoop has its completion:
\* never again, and never on a deleted IoContext.  One whose submit failed
\* has run already and may run a second time, since its entry stays queued.
CalledBackOnce ==
    \A i \in DOMAIN ops :
       ops[i].cb <= (IF ops[i].refused THEN 1 ELSE 0)
                    + (IF ops[i].st = "seen" \/ (looping = "callback" /\ Head(cq) = i)
                       THEN 1 ELSE 0)

(***************************************************************************)
(* The inductive invariant.                                                *)
(***************************************************************************)
\* A method has an open socket; each user keeps to its own methods.
RoleInv ==
    /\ m_fd # 0 => fdTable[m_fd] # 0
    /\ InMethod => m_fd # 0
    /\ (user = "call") = (at # "idle")
    /\ user = "callbacks" => ~InMethod
    /\ user # "callbacks" => looping = "out"
    /\ at = "start" \/ Over => ~InMethod /\ m_fd = 0

\* A callback runs while its completion is still in the queue.
LoopInv == looping = "callback" => cq # <<>>

\* A call in which nothing has failed, its socket, and its last operation.
Healthy ==
    /\ at \in {"connect", "write", "size", "body"}
    /\ InMethod \/ ret.ok
Peer    == socks[fdTable[m_fd]]
Waits   == InMethod /\ method.stage = "wait"
Current == ops[Len(ops)]

\* What a method at this place of CallMethod is.
Suits(mt) ==
    CASE at = "connect" -> mt.op = "connect"
      [] at = "write"   -> mt.op = "write"
      [] OTHER          -> mt.op = "exact"

\* The operation of a method.
OpOf(mt) == CASE mt.op = "connect" -> "connect" [] mt.op = "write" -> "send" [] OTHER -> "recv"

\* Nothing but the operation it waits for is under way, on its own socket.
CallRingInv ==
    /\ at = "start" => InFlight = {}
    /\ Healthy =>
       /\ m_fd # 0
       /\ InMethod => Suits(method)
       /\ ~Waits => InFlight = {}
       /\ Waits =>
          /\ InFlight = {Len(ops)} /\ Current.st # "sq"
          /\ Current.op = OpOf(method) /\ Current.sock = fdTable[m_fd]
          /\ at \in {"size", "body"} => Current.len = method.len - method.n
          /\ Current.st = "kernel" => Current.data = <<>>

\* The units of seq are those of whole behind its first n.
Follows(seq, n, whole) ==
    n + Len(seq) <= Len(whole) /\ \A k \in 1 .. Len(seq) : seq[k] = whole[n + k]

\* What the methods before this one read, what this one has read, what it has
\* still to take from its completion.
Before  == IF at = "body" THEN 1 ELSE 0
Got     == IF InMethod THEN method.got ELSE ret.got
Arrived == IF Waits THEN Current.data ELSE <<>>

\* What was read, what has arrived and what is on its way are consecutive
\* pieces of the one response.
StreamInv ==
    Healthy =>
       /\ Peer.sent \in {<<>>, Response(0), Response(1)}
       /\ Follows(Got, Before, Peer.sent)
       /\ Follows(Arrived, Before + Len(Got), Peer.sent)
       /\ Follows(Peer.out, Before + Len(Got) + Len(Arrived), Peer.sent)

\* A method counts what it reads, and reads no more than it was asked to.
CountInv ==
    Healthy =>
       /\ at \in {"connect", "write"} => Got = <<>> /\ Arrived = <<>>
       /\ at \in {"size", "body"} /\ InMethod =>
          /\ Len(method.got) = method.n
          /\ method.len = (IF at = "size" THEN 1 ELSE Len(Peer.sent) - 1)
          /\ Waits /\ Current.st = "cq" =>
             Current.res <= Current.len /\ (Current.res > 0 => Len(Current.data) = Current.res)
       /\ at \in {"size", "body"} /\ ~InMethod =>
          Len(ret.got) = (IF at = "size" THEN 1 ELSE Len(Peer.sent) - 1)

UringChannelInv ==
    /\ NothingLeftBehind /\ SocketsClosed /\ CalledBackOnce
    /\ RoleInv /\ LoopInv /\ CallRingInv /\ StreamInv /\ CountInv

(***************************************************************************)
(* Liveness, and what a call is expected to do.                            *)
(***************************************************************************)
\* A call comes back, unless the server neither answers nor closes: CallMethod
\* has no timeout.
ServerSilent ==
    /\ InMethod /\ method.op = "exact" /\ method.stage = "wait"
    /\ \E i \in DOMAIN ops : LET o == ops[i] IN
          o.st = "kernel" /\ o.op = "recv" /\ socks[o.sock].out = <<>> /\ ~socks[o.sock].eof
CallReturns == (user = "call") => (<>Over \/ <>[]ServerSilent)

\* A call that was answered in full succeeds.  It does not: the request_id of
\* the response is parsed as the beginning of the message.
AnsweredSucceeds == Returned("body") => Parses(ret.got)
=============================================================================
