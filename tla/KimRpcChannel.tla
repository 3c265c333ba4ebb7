---------------------------- MODULE KimRpcChannel ----------------------------
(***************************************************************************)
(* KimRpcChannel (src/src/channel.cc, built with KIMRPC_ASYNC_CLIENT): one *)
(* connection shared by many calls.  Threads: the callers inside           *)
(* CallMethod, one receive thread per connection, the timer thread, and    *)
(* the thread that destroys the channel.  Locks: m_connMtx, m_sendMtx and  *)
(* m_pendingMtx; a section under m_pendingMtx is one step.                 *)
(*                                                                         *)
(* A call is named by its request_id, which m_nextId never repeats.  A     *)
(* connection is named by its number, which also stands for m_clientfd     *)
(* (0 is -1): within one channel a descriptor number is not reopened       *)
(* before its receive thread was joined.  m_clientfd is read without a     *)
(* lock by send and recv; each such read is a step of its own.             *)
(*                                                                         *)
(* The servers and the network are external: a server answers a request it *)
(* has received whole, in any order, or goes away.                         *)
(***************************************************************************)
EXTENDS Integers, Sequences, FiniteSets

CONSTANTS
    Calls,       \* the calls of one behaviour
    Hosts,       \* "ip:port" values GetRpcAddress may return
    NoHost,      \* the empty string
    NoCall,      \* a free mutex
    FrameParts,  \* send calls it takes to write one request
    MaxConns,    \* bound: connections opened in one behaviour
    Timeouts,    \* m_timeoutMs > 0
    MayReenter   \* may a done closure call the channel again?

ASSUME ChannelAssumption ==
    /\ NoHost \notin Hosts /\ NoCall \notin Calls
    /\ FrameParts \in Nat \ {0} /\ MaxConns \in Nat
    /\ Timeouts \in BOOLEAN /\ MayReenter \in BOOLEAN

Conns == 1 .. MaxConns

VARIABLES
    pc,               \* pc[c] = where CallMethod of call c is
    host,             \* host[c] = the address c was given
    parts,            \* parts[c] = parts of c's frame written
    thread,           \* thread[c] = 0, or the thread whose closure made call c
    m_connMtx, m_sendMtx,
    m_clientfd, m_connectedHost, m_running, m_recvThread,
    m_pending,        \* registered calls
    nDone, result,    \* what the done closures saw
    recv, recvHas,    \* receive threads: where they are, the slots they took
    timer, timerHas, m_timerRunning,
    late,             \* calls whose deadline has passed
    dtor, dtorHas, dtorJoins,
    nConn, openFd, peer, stream, answers   \* the network

callerVars == <<pc, host, parts, thread>>
connVars   == <<m_connMtx, m_clientfd, m_connectedHost, m_running, m_recvThread>>
doneVars   == <<nDone, result>>
recvVars   == <<recv, recvHas>>
timerVars  == <<timer, timerHas, m_timerRunning, late>>
dtorVars   == <<dtor, dtorHas, dtorJoins>>
netVars    == <<nConn, openFd, peer, stream, answers>>
vars == <<callerVars, connVars, m_sendMtx, m_pending, doneVars, recvVars,
          timerVars, dtorVars, netVars>>

OwnThread == 0
TimerThread == -1

Init ==
    /\ pc = [c \in Calls |-> "new"] /\ host = [c \in Calls |-> NoHost]
    /\ parts = [c \in Calls |-> 0] /\ thread = [c \in Calls |-> OwnThread]
    /\ m_connMtx = NoCall /\ m_sendMtx = NoCall
    /\ m_clientfd = 0 /\ m_connectedHost = NoHost
    /\ m_running = FALSE /\ m_recvThread = 0
    /\ m_pending = {}
    /\ nDone = [c \in Calls |-> 0] /\ result = [c \in Calls |-> "none"]
    /\ recv = [k \in Conns |-> "none"] /\ recvHas = [k \in Conns |-> {}]
    /\ timer = "wait" /\ timerHas = {} /\ m_timerRunning = TRUE /\ late = {}
    /\ dtor = "alive" /\ dtorHas = {} /\ dtorJoins = 0
    /\ nConn = 0
    /\ openFd = [k \in Conns |-> FALSE] /\ peer = [k \in Conns |-> NoHost]
    /\ stream = [k \in Conns |-> << >>] /\ answers = [k \in Conns |-> {}]

-----------------------------------------------------------------------------
(* done->Run(): the closure sees response or controller. *)
RunDone(c, r) ==
    /\ nDone' = [nDone EXCEPT ![c] = @ + 1]
    /\ result' = [result EXCEPT ![c] = r]

(* Thread t is inside a call its closure made. *)
Busy(t) == \E c \in Calls : thread[c] = t /\ pc[c] \notin {"new", "ret"}

(* The closure that runs on thread t returns, or first makes a new call.   *)
(* A call of a channel that is being destroyed would be the caller's error *)
(* and is left out; so are calls made by a closure that runs inside        *)
(* CallMethod.                                                             *)
ClosureReturns(t) ==
    \/ UNCHANGED callerVars
    \/ /\ MayReenter /\ dtor = "alive"
       /\ \E d \in Calls :
            /\ pc[d] = "new"
            /\ pc' = [pc EXCEPT ![d] = "resolve"]
            /\ thread' = [thread EXCEPT ![d] = t]
       /\ UNCHANGED <<host, parts>>

Goes(c, where) == pc' = [pc EXCEPT ![c] = where]

(* A thread of the program makes call c. *)
CallStarts(c) ==
    /\ pc[c] = "new" /\ dtor = "alive"
    /\ Goes(c, "resolve")
    /\ UNCHANGED <<host, parts, thread, connVars, m_sendMtx, m_pending, doneVars,
                   recvVars, timerVars, dtorVars, netVars>>

(* callAsync up to GetRpcAddress: an address is found, or the call fails. *)
Resolves(c) ==
    /\ pc[c] = "resolve"
    /\ \/ /\ \E h \in Hosts : host' = [host EXCEPT ![c] = h]
          /\ Goes(c, "conn")
          /\ UNCHANGED doneVars
       \/ /\ RunDone(c, "fail")
          /\ Goes(c, "ret")
          /\ UNCHANGED host
    /\ UNCHANGED <<parts, thread, connVars, m_sendMtx, m_pending, recvVars,
                   timerVars, dtorVars, netVars>>

-----------------------------------------------------------------------------
(* ensureConnected *)

Usable(h) == m_clientfd # 0 /\ m_running /\ m_connectedHost = h

(* The connection is there: lock, look, unlock. *)
EnsureReuse(c) ==
    /\ pc[c] = "conn" /\ m_connMtx = NoCall
    /\ Usable(host[c])
    /\ Goes(c, "register")
    /\ UNCHANGED <<host, parts, thread, connVars, m_sendMtx, m_pending, doneVars,
                   recvVars, timerVars, dtorVars, netVars>>

(* shutdown and close of m_clientfd. *)
Disconnect ==
    /\ openFd' = [k \in Conns |-> openFd[k] /\ k # m_clientfd]
    /\ m_clientfd' = 0

(* The old connection is closed; m_connMtx stays locked. *)
EnsureClose(c) ==
    /\ pc[c] = "conn" /\ m_connMtx = NoCall
    /\ ~Usable(host[c])
    /\ m_connMtx' = c
    /\ Disconnect
    /\ Goes(c, "join")
    /\ UNCHANGED <<host, parts, thread, m_connectedHost, m_running, m_recvThread,
                   m_sendMtx, m_pending, doneVars, recvVars, timerVars, dtorVars,
                   nConn, peer, stream, answers>>

(* join returns at once for no thread, else when thread t has ended. *)
Ended(t) == \A k \in Conns : k = t => recv[k] = "ended"

(* Mutant: the old receive thread is not waited for. *)
EnsureJoin_NoWait(c) ==
    /\ pc[c] = "join"
    /\ m_recvThread' = 0 /\ m_connectedHost' = NoHost
    /\ Goes(c, "connect")
    /\ UNCHANGED <<host, parts, thread, m_connMtx, m_clientfd, m_running,
                   m_sendMtx, m_pending, doneVars, recvVars, timerVars, dtorVars,
                   netVars>>

(* m_recvThread.join(): in that very thread it throws, which ends the *)
(* process.                                                           *)
EnsureJoin(c) ==
    /\ pc[c] = "join"
    /\ \/ /\ m_recvThread # 0 /\ thread[c] = m_recvThread
          /\ Goes(c, "terminate")
          /\ UNCHANGED <<m_recvThread, m_connectedHost>>
       \/ /\ Ended(m_recvThread)
          /\ m_recvThread' = 0 /\ m_connectedHost' = NoHost
          /\ Goes(c, "connect")
    /\ UNCHANGED <<host, parts, thread, m_connMtx, m_clientfd, m_running,
                   m_sendMtx, m_pending, doneVars, recvVars, timerVars, dtorVars,
                   netVars>>

(* The address is invalid, or socket or connect fails. *)
EnsureFails(c) ==
    /\ pc[c] = "connect"
    /\ m_connMtx' = NoCall
    /\ RunDone(c, "fail")
    /\ Goes(c, "ret")
    /\ UNCHANGED <<host, parts, thread, m_clientfd, m_connectedHost, m_running,
                   m_recvThread, m_sendMtx, m_pending, recvVars, timerVars,
                   dtorVars, netVars>>

(* Mutant: m_connectedHost is not recorded. *)
EnsureConnects_NoHost(c) ==
    /\ pc[c] = "connect" /\ nConn < MaxConns
    /\ LET k == nConn + 1 IN
       /\ nConn' = k
       /\ openFd' = [openFd EXCEPT ![k] = TRUE]
       /\ peer' = [peer EXCEPT ![k] = host[c]]
       /\ m_clientfd' = k /\ m_recvThread' = k
       /\ recv' = [recv EXCEPT ![k] = "run"]
    /\ UNCHANGED m_connectedHost
    /\ m_running' = TRUE
    /\ m_connMtx' = NoCall
    /\ Goes(c, "register")
    /\ UNCHANGED <<host, parts, thread, m_sendMtx, m_pending, doneVars, recvHas,
                   timerVars, dtorVars, stream, answers>>

(* connect succeeds: a new connection and its receive thread. *)
EnsureConnects(c) ==
    /\ pc[c] = "connect" /\ nConn < MaxConns
    /\ LET k == nConn + 1 IN
       /\ nConn' = k
       /\ openFd' = [openFd EXCEPT ![k] = TRUE]
       /\ peer' = [peer EXCEPT ![k] = host[c]]
       /\ m_clientfd' = k /\ m_recvThread' = k
       /\ recv' = [recv EXCEPT ![k] = "run"]
    /\ m_connectedHost' = host[c]
    /\ m_running' = TRUE
    /\ m_connMtx' = NoCall
    /\ Goes(c, "register")
    /\ UNCHANGED <<host, parts, thread, m_sendMtx, m_pending, doneVars, recvHas,
                   timerVars, dtorVars, stream, answers>>

-----------------------------------------------------------------------------
(* The rest of callAsync: register, sendLocked, undo. *)

(* Mutant: the request is registered once it has been sent. *)
Register_Late(c) ==
    /\ \/ pc[c] = "register" /\ Goes(c, "send") /\ UNCHANGED m_pending
       \/ /\ pc[c] = "ret" /\ parts[c] = FrameParts /\ nDone[c] = 0
          /\ m_pending' = m_pending \cup {c}
          /\ UNCHANGED pc
    /\ UNCHANGED <<host, parts, thread, connVars, m_sendMtx, doneVars, recvVars,
                   timerVars, dtorVars, netVars>>

Register(c) ==
    /\ pc[c] = "register"
    /\ m_pending' = m_pending \cup {c}
    /\ Goes(c, "send")
    /\ UNCHANGED <<host, parts, thread, connVars, m_sendMtx, doneVars, recvVars,
                   timerVars, dtorVars, netVars>>

SendLock(c) ==
    /\ pc[c] = "send" /\ m_sendMtx = NoCall
    /\ m_sendMtx' = c
    /\ Goes(c, "write")
    /\ UNCHANGED <<host, parts, thread, connVars, m_pending, doneVars, recvVars,
                   timerVars, dtorVars, netVars>>

(* One send: it goes to whatever m_clientfd names now.  A peer that is *)
(* gone may not have been noticed yet.                                 *)
SendPart(c) ==
    /\ pc[c] = "write" /\ m_clientfd # 0
    /\ stream' = [stream EXCEPT ![m_clientfd] = Append(@, c)]
    /\ parts' = [parts EXCEPT ![c] = @ + 1]
    /\ IF parts[c] + 1 = FrameParts
       THEN m_sendMtx' = NoCall /\ Goes(c, "ret")
       ELSE UNCHANGED <<m_sendMtx, pc>>
    /\ UNCHANGED <<host, thread, connVars, m_pending, doneVars, recvVars,
                   timerVars, dtorVars, nConn, openFd, peer, answers>>

(* send returns -1. *)
SendFails(c) ==
    /\ pc[c] = "write"
    /\ m_sendMtx' = NoCall
    /\ Goes(c, "undo")
    /\ UNCHANGED <<host, parts, thread, connVars, m_pending, doneVars, recvVars,
                   timerVars, dtorVars, netVars>>

(* Mutant: done runs although another thread took the slot. *)
Undo_Always(c) ==
    /\ pc[c] = "undo"
    /\ m_pending' = m_pending \ {c}
    /\ RunDone(c, "fail")
    /\ Goes(c, "ret")
    /\ UNCHANGED <<host, parts, thread, connVars, m_sendMtx, recvVars, timerVars,
                   dtorVars, netVars>>

(* Mutant: the slot is erased and done forgotten. *)
Undo_Silent(c) ==
    /\ pc[c] = "undo"
    /\ m_pending' = m_pending \ {c}
    /\ Goes(c, "ret")
    /\ UNCHANGED <<host, parts, thread, connVars, m_sendMtx, doneVars, recvVars,
                   timerVars, dtorVars, netVars>>

(* The slot is taken back and done runs, unless another thread has it. *)
Undo(c) ==
    /\ pc[c] = "undo"
    /\ IF c \in m_pending
       THEN m_pending' = m_pending \ {c} /\ RunDone(c, "fail")
       ELSE UNCHANGED <<m_pending, doneVars>>
    /\ Goes(c, "ret")
    /\ UNCHANGED <<host, parts, thread, connVars, m_sendMtx, recvVars, timerVars,
                   dtorVars, netVars>>

Caller(c) ==
    \/ Resolves(c) \/ EnsureReuse(c) \/ EnsureClose(c) \/ EnsureJoin(c)
    \/ EnsureFails(c) \/ EnsureConnects(c)
    \/ Register(c) \/ SendLock(c) \/ SendPart(c) \/ SendFails(c) \/ Undo(c)

-----------------------------------------------------------------------------
(* recvLoop of connection k *)

(* A response frame is read whole; its slot is taken, if there is one. *)
RecvResponse(k) ==
    /\ recv[k] = "run" /\ ~Busy(k) /\ m_running /\ m_clientfd = k
    /\ \E c \in answers[k] :
         /\ answers' = [answers EXCEPT ![k] = @ \ {c}]
         /\ IF c \in m_pending
            THEN /\ m_pending' = m_pending \ {c}
                 /\ recv' = [recv EXCEPT ![k] = "hand"]
                 /\ recvHas' = [recvHas EXCEPT ![k] = {c}]
            ELSE UNCHANGED <<m_pending, recvVars>>
    /\ UNCHANGED <<callerVars, connVars, m_sendMtx, doneVars, timerVars,
                   dtorVars, nConn, openFd, peer, stream>>

(* The response is parsed and done runs, in this thread. *)
RecvRunsDone(k) ==
    /\ recv[k] = "hand"
    /\ \E c \in recvHas[k], r \in {"ok", "fail"} : RunDone(c, r)
    /\ recvHas' = [recvHas EXCEPT ![k] = {}]
    /\ recv' = [recv EXCEPT ![k] = "run"]
    /\ ClosureReturns(k)
    /\ UNCHANGED <<connVars, m_sendMtx, m_pending, timerVars, dtorVars,
                   netVars>>

(* recv fails, or the peer closed, or m_running is false: leave the loop. *)
RecvBreaks(k) ==
    /\ recv[k] = "run" /\ ~Busy(k)
    /\ ~m_running \/ m_clientfd # k \/ peer[k] = NoHost
    /\ m_running' = FALSE
    /\ recv' = [recv EXCEPT ![k] = "broken"]
    /\ UNCHANGED <<callerVars, m_connMtx, m_clientfd, m_connectedHost,
                   m_recvThread, m_sendMtx, m_pending, doneVars, recvHas,
                   timerVars, dtorVars, netVars>>

(* failAllPending("connection closed"): the whole table is taken ... *)
RecvTakesAll(k) ==
    /\ recv[k] = "broken"
    /\ recvHas' = [recvHas EXCEPT ![k] = m_pending]
    /\ m_pending' = {}
    /\ recv' = [recv EXCEPT ![k] = "fail"]
    /\ UNCHANGED <<callerVars, connVars, m_sendMtx, doneVars, timerVars,
                   dtorVars, netVars>>

(* ... and done runs for each slot, outside the lock. *)
RecvFailsOne(k) ==
    /\ recv[k] = "fail" /\ ~Busy(k)
    /\ \E c \in recvHas[k] :
         /\ RunDone(c, "fail")
         /\ recvHas' = [recvHas EXCEPT ![k] = @ \ {c}]
    /\ ClosureReturns(k)
    /\ UNCHANGED <<recv, connVars, m_sendMtx, m_pending, timerVars, dtorVars,
                   netVars>>

RecvEnds(k) ==
    /\ recv[k] = "fail" /\ ~Busy(k) /\ recvHas[k] = {}
    /\ recv' = [recv EXCEPT ![k] = "ended"]
    /\ UNCHANGED <<callerVars, connVars, m_sendMtx, m_pending, doneVars, recvHas,
                   timerVars, dtorVars, netVars>>

RecvLoop(k) ==
    \/ RecvResponse(k) \/ RecvRunsDone(k) \/ RecvBreaks(k)
    \/ RecvTakesAll(k) \/ RecvFailsOne(k) \/ RecvEnds(k)

-----------------------------------------------------------------------------
(* timerLoop *)

(* Time passes the deadline of a registered call. *)
Deadline(c) ==
    /\ Timeouts /\ c \in m_pending \ late
    /\ late' = late \cup {c}
    /\ UNCHANGED <<callerVars, connVars, m_sendMtx, m_pending, doneVars, recvVars,
                   timer, timerHas, m_timerRunning, dtorVars, netVars>>

(* One tick: the expired slots are taken under the lock. *)
TimerTakes ==
    /\ timer = "wait" /\ m_timerRunning
    /\ m_pending \cap late # {}
    /\ timerHas' = m_pending \cap late
    /\ m_pending' = m_pending \ late
    /\ timer' = "fail"
    /\ UNCHANGED <<callerVars, connVars, m_sendMtx, doneVars, recvVars,
                   m_timerRunning, late, dtorVars, netVars>>

TimerFailsOne ==
    /\ timer = "fail" /\ ~Busy(TimerThread)
    /\ \E c \in timerHas :
         /\ RunDone(c, "fail")
         /\ timerHas' = timerHas \ {c}
    /\ ClosureReturns(TimerThread)
    /\ UNCHANGED <<connVars, m_sendMtx, m_pending, recvVars, timer,
                   m_timerRunning, late, dtorVars, netVars>>

(* Back to the wait, or out of the loop. *)
TimerTurns ==
    /\ \/ timer = "fail" /\ timerHas = {} /\ ~Busy(TimerThread)
       \/ timer = "wait" /\ ~m_timerRunning
    /\ timer' = IF m_timerRunning THEN "wait" ELSE "ended"
    /\ UNCHANGED <<callerVars, connVars, m_sendMtx, m_pending, doneVars, recvVars,
                   timerHas, m_timerRunning, late, dtorVars, netVars>>

Timer == TimerTakes \/ TimerFailsOne \/ TimerTurns

-----------------------------------------------------------------------------
(* ~KimRpcChannel and teardown.  The owner destroys the channel when no    *)
(* CallMethod is running; calls may still be waiting for their responses.  *)

DtorStopsTimer ==
    /\ dtor = "alive"
    /\ \A c \in Calls : pc[c] \in {"new", "ret"}
    /\ m_timerRunning' = FALSE
    /\ dtor' = "timer"
    /\ UNCHANGED <<callerVars, connVars, m_sendMtx, m_pending, doneVars, recvVars,
                   timer, timerHas, late, dtorHas, dtorJoins, netVars>>

(* The timer is joined, then the connection closed under m_connMtx. *)
DtorCloses ==
    /\ dtor = "timer" /\ timer = "ended" /\ m_connMtx = NoCall
    /\ m_running' = FALSE
    /\ Disconnect
    /\ m_connectedHost' = NoHost
    /\ dtorJoins' = m_recvThread /\ m_recvThread' = 0
    /\ dtor' = "join"
    /\ UNCHANGED <<callerVars, m_connMtx, m_sendMtx, m_pending, doneVars, recvVars,
                   timerVars, dtorHas, nConn, peer, stream, answers>>

(* Mutant: failAllPending is not called after the join. *)
DtorTakesAll_Skip ==
    /\ dtor = "join" /\ Ended(dtorJoins)
    /\ dtor' = "fail"
    /\ UNCHANGED <<callerVars, connVars, m_sendMtx, m_pending, doneVars, recvVars,
                   timerVars, dtorHas, dtorJoins, netVars>>

(* The receive thread is joined, then failAllPending("channel closed"). *)
DtorTakesAll ==
    /\ dtor = "join" /\ Ended(dtorJoins)
    /\ dtorHas' = m_pending /\ m_pending' = {}
    /\ dtor' = "fail"
    /\ UNCHANGED <<callerVars, connVars, m_sendMtx, doneVars, recvVars, timerVars,
                   dtorJoins, netVars>>

DtorFailsOne ==
    /\ dtor = "fail"
    /\ \E c \in dtorHas : RunDone(c, "fail") /\ dtorHas' = dtorHas \ {c}
    /\ UNCHANGED <<callerVars, connVars, m_sendMtx, m_pending, recvVars, timerVars,
                   dtor, dtorJoins, netVars>>

DtorEnds ==
    /\ dtor = "fail" /\ dtorHas = {}
    /\ dtor' = "dead"
    /\ UNCHANGED <<callerVars, connVars, m_sendMtx, m_pending, doneVars, recvVars,
                   timerVars, dtorHas, dtorJoins, netVars>>

Dtor == DtorCloses \/ DtorTakesAll \/ DtorFailsOne \/ DtorEnds

-----------------------------------------------------------------------------
(* Servers and network. *)

(* c's frame arrived whole, behind whole frames only. *)
Received(k, c) ==
    \E i \in 0 .. Len(stream[k]) \div FrameParts - 1 :
        /\ \A j \in 1 .. FrameParts : stream[k][i * FrameParts + j] = c
        /\ \A h \in 0 .. i : \A j \in 1 .. FrameParts :
             stream[k][h * FrameParts + j] = stream[k][h * FrameParts + 1]

(* The server answers once; with the channel gone nobody sees it. *)
ServerAnswers(k, c) ==
    /\ peer[k] # NoHost /\ openFd[k]
    /\ Received(k, c) /\ c \notin answers[k] /\ nDone[c] = 0
    /\ answers' = [answers EXCEPT ![k] = @ \cup {c}]
    /\ UNCHANGED <<callerVars, connVars, m_sendMtx, m_pending, doneVars, recvVars,
                   timerVars, dtorVars, nConn, openFd, peer, stream>>

(* The server goes away, or sends a frame shorter than a request_id. *)
PeerGoes(k) ==
    /\ openFd[k] /\ peer[k] # NoHost
    /\ peer' = [peer EXCEPT ![k] = NoHost]
    /\ UNCHANGED <<callerVars, connVars, m_sendMtx, m_pending, doneVars, recvVars,
                   timerVars, dtorVars, nConn, openFd, stream, answers>>

Network == \E k \in Conns : PeerGoes(k) \/ \E c \in Calls : ServerAnswers(k, c)

-----------------------------------------------------------------------------
(* The channel is destroyed, or the process has terminated. *)
Stopped ==
    /\ dtor = "dead" \/ \E c \in Calls : pc[c] = "terminate"
    /\ UNCHANGED vars

Next ==
    \/ \E c \in Calls : CallStarts(c) \/ Caller(c) \/ Deadline(c)
    \/ \E k \in Conns : RecvLoop(k)
    \/ Timer \/ DtorStopsTimer \/ Dtor \/ Network \/ Stopped

Spec == Init /\ [][Next]_vars

(***************************************************************************)
(* Fairness: threads run, closures return, connect returns, time passes.   *)
(* Nothing is assumed of the servers, and a send may block for ever        *)
(* (SendPart and SendFails are not in CallerRuns); nobody need ever make a *)
(* call or destroy the channel.                                            *)
(***************************************************************************)
CallerRuns(c) ==
    \/ Resolves(c) \/ EnsureReuse(c) \/ EnsureClose(c) \/ EnsureJoin(c)
    \/ EnsureFails(c) \/ EnsureConnects(c)
    \/ Register(c) \/ SendLock(c) \/ Undo(c)

Fairness ==
    /\ \A c \in Calls : SF_vars(CallerRuns(c)) /\ WF_vars(Deadline(c))
    /\ \A k \in Conns : WF_vars(RecvLoop(k))
    /\ WF_vars(Timer) /\ WF_vars(Dtor)

FairSpec == Spec /\ Fairness
=============================================================================
