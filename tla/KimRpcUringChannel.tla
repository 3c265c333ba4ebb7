-------------------------- MODULE KimRpcUringChannel --------------------------
(***************************************************************************)
(* The users of UringTcpClient.  KimRpcUringChannel::CallMethod            *)
(* (uringchannel.cc) makes a client for one call: Connect, WriteAll,       *)
(* ReadExact of the size, ReadExact of the response, and parses it.  A     *)
(* program may also use the class itself: the blocking methods in any      *)
(* order and again after a failure, or the Async methods with EventLoop,   *)
(* whose callbacks start further operations.                               *)
(***************************************************************************)
EXTENDS UringTcpClient

CONSTANTS
    Users,         \* who uses the client: "call", "blocking", "callbacks"
    MaxBlocking,   \* operations after which a blocking user starts no method
    MaxAsync       \* operations a user of the Async methods starts

VARIABLES
    user,   \* the one of Users
    at      \* where CallMethod stands; "idle" for the other users

vars == <<clientVars, user, at>>

Init ==
    /\ ClientInit
    /\ user \in Users
    /\ at = IF user = "call" THEN "start" ELSE "idle"

Over == at \in {"ok", "failed"}

(***************************************************************************)
(* CallMethod                                                              *)
(***************************************************************************)
\* The request does not serialise, or GetRpcAddress has no usable address.
CallRefused ==
    /\ at = "start" /\ at' = "failed"
    /\ UNCHANGED <<clientVars, user>>

CallConnect == at = "start" /\ at' = "connect" /\ Connect /\ UNCHANGED user

\* The last method returned true.
Returned(here) == at = here /\ ~InMethod /\ ret.ok

CallWrite ==
    /\ Returned("connect") /\ at' = "write"
    /\ Start("write", ReqLen) /\ UNCHANGED user

CallReadSize ==
    /\ Returned("write") /\ at' = "size"
    /\ Start("exact", 1) /\ UNCHANGED user

\* response_size, as the first four bytes have it.
response_size == CASE ret.got = <<"size1">> -> 1 [] ret.got = <<"size2">> -> 2 [] OTHER -> 0

CallReadBody ==
    /\ Returned("size") /\ response_size > 0 /\ at' = "body"
    /\ Start("exact", response_size) /\ UNCHANGED user

\* The client goes out of scope: Close, and the ring is torn down.
Destroyed ==
    /\ m_fd' = 0 /\ fdTable' = Closed(fdTable, m_fd)
    /\ UNCHANGED <<socks, ops, cq, method, ret, looping, faults>>

\* A method returned false: SetFailed.
CallFails ==
    /\ at \in {"connect", "write", "size", "body"} /\ ~InMethod /\ ~ret.ok
    /\ at' = "failed"
    /\ Destroyed /\ UNCHANGED user

\* ParseFromArray over all that was read: the request_id of this channel is 0,
\* and no message begins with a zero byte.
Parses(str) == "rid" \notin Range(str)

CallParse ==
    /\ Returned("body")
    /\ at' = IF Parses(ret.got) THEN "ok" ELSE "failed"
    /\ Destroyed /\ UNCHANGED user

CallStep == CallRefused \/ CallConnect \/ CallWrite \/ CallReadSize \/ CallReadBody
            \/ CallFails \/ CallParse

(***************************************************************************)
(* The other users                                                         *)
(***************************************************************************)
\* A blocking method when the last one has returned; ReadSome has 4 units.
BlockingUser ==
    /\ user = "blocking" /\ Len(ops) < MaxBlocking
    /\ Connect \/ Start("write", ReqLen) \/ Start("some", 4) \/ Close
    /\ UNCHANGED <<user, at>>

\* An Async method, before EventLoop or inside a callback of it.
AsyncUser ==
    /\ user = "callbacks" /\ looping \in {"out", "callback"} /\ Len(ops) < MaxAsync
    /\ AsyncConnect \/ AsyncTransfer("send", ReqLen) \/ AsyncTransfer("recv", 4)
    /\ UNCHANGED <<user, at>>

LoopStep ==
    /\ user = "callbacks"
    /\ EnterLoop \/ RunCallback \/ CallbackReturns
    /\ UNCHANGED <<user, at>>

Outside ==
    /\ \/ \E i \in DOMAIN ops : KernelStep(i) \/ KError(i)
       \/ \E s \in DOMAIN socks : ServerAnswers(s) \/ ServerCloses(s)
    /\ UNCHANGED <<user, at>>

Blocked     == MethodStep /\ UNCHANGED <<user, at>>
Interrupted == WaitInterrupted /\ UNCHANGED <<user, at>>

Next == CallStep \/ BlockingUser \/ AsyncUser \/ LoopStep \/ Blocked \/ Interrupted
        \/ Outside

Spec == Init /\ [][Next]_vars

\* The thread runs when it can and the kernel completes what it can complete;
\* the server owes neither an answer nor a close.
FairSpec ==
    /\ Spec
    /\ WF_vars(CallStep) /\ WF_vars(Blocked) /\ WF_vars(LoopStep)
    /\ WF_vars((\E i \in DOMAIN ops : KernelStep(i)) /\ UNCHANGED <<user, at>>)
===============================================================================
